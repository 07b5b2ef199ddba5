--------------------------- MODULE SlidingWindow ----------------------------
(***************************************************************************)
(* What check_rate_limit keeps to: in the window that ends at its own time *)
(* stamp an admitted request has fewer than `limit` admitted before it.    *)
(* The promise is off from the moment that a check overlaps with another   *)
(* one or is broken off: `exact` is FALSE from then on, and all that is    *)
(* left is that no request is admitted twice.                              *)
(***************************************************************************)
EXTENDS Integers, FiniteSets

CONSTANTS Key, Req, Limit, Window, Time

VARIABLES
  log,     \* for each bucket, the admitted requests as <<request, time>>
  exact    \* whether the promise still holds

vars == <<log, exact>>

\* The window is open at its start, as rate_limit.py:71 makes it.  By the comments at
\* rate_limit.py:12 and :70 a member exactly one window old would count as well, so
\* that fewer requests were admitted: they promise more than Admit does.
Recent(k, t) == {m \in log[k] : t - Window[k] < m[2] /\ m[2] <= t}

Init ==
  /\ log = [k \in Key |-> {}]
  /\ exact = TRUE

Admit(k, r, t) ==
  /\ \A m \in log[k] : m[1] # r
  /\ exact => /\ \A m \in log[k] : m[2] <= t
              /\ Cardinality(Recent(k, t)) < Limit[k]
  /\ log' = [log EXCEPT ![k] = @ \cup {<<r, t>>}]
  /\ UNCHANGED exact

Disturb ==
  /\ exact
  /\ exact' = FALSE
  /\ UNCHANGED log

Next ==
  \/ \E k \in Key, r \in Req, t \in Time : Admit(k, r, t)
  \/ Disturb

Spec == Init /\ [][Next]_vars

=============================================================================
