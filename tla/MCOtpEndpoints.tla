--------------------------- MODULE MCOtpEndpoints ---------------------------
(* Small instances of OtpEndpoints for TLC.  The sets of model values are  *)
(* given in each .cfg.                                                     *)
EXTENDS OtpEndpoints, TLC

CONSTANTS q1, q2, q3, q4, c1, c2, p1, e1, e2

\* Requests, codes and addresses are interchangeable, and so are the properties
\* in them: used by the runs that check no liveness.
Symmetry == Permutations(Req) \cup Permutations(Code) \cup Permutations(EmailHash)

=============================================================================
