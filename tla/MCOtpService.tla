---------------------------- MODULE MCOtpService ----------------------------
(* A small instance of OtpService for TLC.  The worker makes one attempt   *)
(* on one try, and an attempt that stalls uses up the time of the job: the *)
(* loops over attempts and tries are checked with EmailWorker.             *)
EXTENDS OtpService

CONSTANTS q1, q2, c1, p1, e1, s1

Delays == <<5>>

\* Where nobody verifies, nobody looks at whether a row has expired.
ExpiryMatters == expired' # expired => \E q \in Req : body[q].op = "verify"

=============================================================================
