---------------------------- MODULE OtpLifecycle ----------------------------
(***************************************************************************)
(* What the OTP endpoints promise their callers, without tables, counters  *)
(* or handlers: a code is issued to a recipient, takes a limited number of *)
(* wrong answers, and opens at most once (SECURITY.md, 90-95).             *)
(***************************************************************************)
EXTENDS Integers, Sequences, FiniteSets

CONSTANTS Recipient, Req, Limits

VARIABLE otps    \* the codes, in the order they were issued

Otp == [to : Recipient, status : {"open", "closed", "redeemed"},
        missed : SUBSET Req,     \* who answered it wrongly
        passed : SUBSET Req]     \* who was given a token for it

Open(to) == {i \in DOMAIN otps : otps[i].to = to /\ otps[i].status = "open"}

Init == otps = <<>>

\* The codes a recipient still holds stop working ...
Supersede(to) ==
  otps' = [i \in DOMAIN otps |->
             IF i \in Open(to) THEN [otps[i] EXCEPT !.status = "closed"] ELSE otps[i]]

\* ... before another one is issued to it.
Issue(to) ==
  /\ Open(to) = {}
  /\ otps' = Append(otps, [to |-> to, status |-> "open", missed |-> {}, passed |-> {}])

\* Caller q answers the open code i wrongly; the code stays open only while
\* fewer have missed than some limit in force allows.
Miss(q, i) ==
  LET missed == otps[i].missed \cup {q}
  IN  /\ otps[i].status = "open"
      /\ q \notin otps[i].missed
      /\ \E m \in Limits, s \in {"open", "closed"} :
           /\ IF s = "open" THEN Cardinality(missed) < m ELSE Cardinality(missed) <= m
           /\ otps' = [otps EXCEPT ![i].missed = missed, ![i].status = s]

\* Caller q quotes the open code i.
Redeem(q, i) ==
  /\ otps[i].status = "open"
  /\ otps' = [otps EXCEPT ![i].status = "redeemed", ![i].passed = {q}]

Next ==
  \/ \E to \in Recipient : Supersede(to) \/ Issue(to)
  \/ \E q \in Req, i \in DOMAIN otps : Miss(q, i) \/ Redeem(q, i)

Spec == Init /\ [][Next]_otps

=============================================================================
