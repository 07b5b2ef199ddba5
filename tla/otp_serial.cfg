SPECIFICATION Spec
CONSTANTS
  q1 = q1
  q2 = q2
  q3 = q3
  q4 = q4
  c1 = c1
  c2 = c2
  p1 = p1
  e1 = e1
  e2 = e2
  Project = {p1}
  EmailHash = {e1}
  Code = {c1, c2}
  Req = {q1, q2, q3, q4}
  Limits = {2}
  Unapplied = {"insert"}
  Lost = {"invalidate", "insert", "count", "mark"}
  Serialised = {{"send"}, {"verify"}, {"send", "verify"}}
SYMMETRY Symmetry
INVARIANTS AttemptLimit OneRedemption OnePending
PROPERTIES ImplementsLifecycle
