--------------------------- MODULE MCRateLimiter ----------------------------
(* A small instance of RateLimiter for TLC: an address tier and an email   *)
(* tier, passed in this order by every request.                            *)
EXTENDS RateLimiter, TLC

CONSTANTS r1, r2, r3, ip, mail

TwoTiers == <<ip, mail>>

Limits  == [k \in Key |-> IF k = mail THEN 1 ELSE 2]
Windows == [k \in Key |-> IF k = mail THEN 2 ELSE 3]

ASSUME LagAssumption == LagFits

\* Requests are interchangeable: all pass the same tiers.
Symmetry == Permutations(Req)

=============================================================================
