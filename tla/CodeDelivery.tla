---------------------------- MODULE CodeDelivery ----------------------------
(***************************************************************************)
(* What the service promises of a one-time code: it is stored before it is *)
(* mailed, a caller who is told that storing it failed gets no email, and  *)
(* the copies of the email are bounded and end.                            *)
(***************************************************************************)
EXTENDS Integers

CONSTANTS Position, MaxCopies

VARIABLES
  stage,     \* where the code stands
  copies     \* emails delivered with it

Init ==
  /\ stage = [i \in Position |-> "none"]
  /\ copies = [i \in Position |-> 0]

Move(i, from, to) ==
  /\ stage[i] = from
  /\ stage' = [stage EXCEPT ![i] = to]

\* The code is stored, and the caller is told so or not.
Store(i) ==
  /\ Move(i, "none", "stored") \/ Move(i, "none", "refused")
  /\ UNCHANGED copies

Queue(i) ==
  /\ Move(i, "stored", "sending")
  /\ UNCHANGED copies

\* An email leaves; it may be the last thing that happens to the code.
Copy(i) ==
  /\ copies[i] < MaxCopies
  /\ copies' = [copies EXCEPT ![i] = @ + 1]
  /\ stage[i] = "sending"
  /\ UNCHANGED stage \/ Move(i, "sending", "over")

End(i) ==
  /\ Move(i, "sending", "over")
  /\ UNCHANGED copies

Next == \E i \in Position : Store(i) \/ Queue(i) \/ Copy(i) \/ End(i)

Spec == Init /\ [][Next]_<<stage, copies>>

=============================================================================
