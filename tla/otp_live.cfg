SPECIFICATION FairSpec
CONSTANTS
  q1 = q1
  q2 = q2
  q3 = q3
  q4 = q4
  c1 = c1
  c2 = c2
  p1 = p1
  e1 = e1
  e2 = e2
  Project = {p1}
  EmailHash = {e1, e2}
  Code = {c1, c2}
  Req = {q1, q2}
  Limits = {1, 2}
  Unapplied = {"limits", "invalidate", "insert", "enqueue", "fetch", "count", "mark"}
  Lost = {"limits", "invalidate", "insert", "enqueue", "fetch", "count", "mark"}
  Serialised = {}
INVARIANTS TokenSound
PROPERTIES OnlyOwnRows Answered ExpiredNeverRedeemed
