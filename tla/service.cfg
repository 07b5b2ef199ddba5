SPECIFICATION FairSpec
CONSTANTS
  q1 = q1
  q2 = q2
  c1 = c1
  p1 = p1
  e1 = e1
  s1 = s1
  Project = {p1}
  EmailHash = {e1}
  Code = {c1}
  Req = {q1, q2}
  Limits = {2}
  Unapplied = {"limits", "invalidate", "insert", "enqueue", "fetch", "count", "mark"}
  Lost = {"limits", "invalidate", "insert", "enqueue", "fetch", "count", "mark"}
  Serialised = {}
  Sender = {s1}
  NoSender = NoSender
  NoProject = NoProject
  Expiries = {30, 60}
  MaxJobs = 1
  MaxTries = 1
  JobSeconds = 15
  RetryDelays <- Delays
  SmtpTimeout = 15
  DbFails = FALSE
  AckLost = FALSE
  TimesOut = FALSE
ACTION_CONSTRAINT ExpiryMatters
INVARIANTS MailSaysLifetime
PROPERTIES ImplementsDelivery Settled
