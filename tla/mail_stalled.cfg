SPECIFICATION Spec
CONSTANTS
  j1 = j1
  s1 = s1
  NoSender = NoSender
  NoProject = NoProject
  Job = {j1}
  Sender = {s1}
  Expiries = {600}
  MaxJobs = 1
  MaxTries = 3
  JobSeconds = 60
  RetryDelays <- Delays
  SmtpTimeout = 15
  DbFails = FALSE
  AckLost = FALSE
  TimesOut = FALSE
INVARIANTS StalledIsRetried
