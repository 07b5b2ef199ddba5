SPECIFICATION Spec
CONSTANTS
  k1 = k1
  k2 = k2
  Base = 3
  OtpLengths = {4, 6, 8}
  MaxName = 9
  SlugCut = 5
  IvBytes = 2
  TagBytes = 2
  Key = {k1, k2}
  MaxPassword = 2
  KeyChars = {62, 63, 64, 66}
\* Every behaviour is one call.
CHECK_DEADLOCK FALSE
INVARIANTS CodesTypeBack SuggestionFits PasswordOrError
