SPECIFICATION Spec
CONSTANTS
  a1 = a1
  a2 = a2
  g1 = g1
  g2 = g2
  NoSender = NoSender
  Missing = Missing
  Nothing = Nothing
  Address = {a1, a2}
  Slug = {g1, g2}
  DbFails = TRUE
  TelegramFails = TRUE
SYMMETRY Symmetry
INVARIANTS TypeOK IntactIsComplete VerifiedMeansTested NoOtherSender
