SPECIFICATION Spec
CONSTANTS
  k1 = k1
  k2 = k2
  t1 = t1
  p1 = p1
  p2 = p2
  r1 = r1
  r2 = r2
  NoKey = NoKey
  NoProject = NoProject
  Key = {k1, k2, t1}
  TestKeys = {t1}
  KeyPrefix <- MCKeyPrefix
  Project = {p1, p2}
  Req = {r1, r2}
  Production = TRUE
  DbFails = TRUE
SYMMETRY Symmetry
INVARIANTS TypeOK NoEntryAfterRetired AdmittedAsIssued LastUsedTruthful
PROPERTIES RevokedForGood
