SPECIFICATION Spec
CONSTANTS
  r1 = r1
  r2 = r2
  r3 = r3
  ip = ip
  mail = mail
  Req = {r1, r2, r3}
  Tiers <- TwoTiers
  Key = {ip, mail}
  Limit <- Limits
  Window <- Windows
  Grace = 1
  Overlap = 2
  MayFail = TRUE
  MaxLag = 1
  MaxTime = 4
\* Every request is checked once and the clock is bounded: the run may stop.
CHECK_DEADLOCK FALSE
SYMMETRY Symmetry
INVARIANTS TypeOK BoundedOvershoot QuietBucketsExact NoFalseRefusal
PROPERTIES ImplementsSlidingWindow
