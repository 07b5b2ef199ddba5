----------------------------- MODULE MCApiKeys ------------------------------
(* Small instances of ApiKeys for TLC.                                     *)
EXTENDS ApiKeys, TLC

CONSTANTS k1, k2, t1, p1, p2, r1, r2

\* Two live keys share their first 12 characters.
MCKeyPrefix == [k \in Key |-> IF k \in TestKeys THEN "mg_test_" ELSE "mg_live_"]

\* Requests, projects and live keys are interchangeable.
Symmetry == Permutations(Req) \cup Permutations(Project) \cup Permutations(Key \ TestKeys)

=============================================================================
