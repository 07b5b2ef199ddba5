---------------------------- MODULE RateLimiter -----------------------------
(***************************************************************************)
(* check_rate_limit of core/rate_limit.py over Redis sorted sets, and the  *)
(* tiers that _enforce_rate_limits of apps/api/routes/otp.py walks through *)
(* one after the other.                                                    *)
(*                                                                         *)
(* The pipeline is not a transaction: between two of its commands Redis    *)
(* may run commands of other requests, and time passes.                    *)
(***************************************************************************)
EXTENDS Integers, Sequences, FiniteSets

CONSTANTS Key,          \* buckets "rl:..."
          Req,          \* requests
          Tiers,        \* the buckets every request has to pass, in order
          Limit,        \* limit of each bucket
          Window,       \* window of each bucket, in seconds
          Grace,        \* what EXPIRE adds to the window, in seconds
          Overlap,      \* how many requests are checked at the same time
          MayFail,      \* whether a Redis call may raise
          MaxLag,       \* seconds that one check takes at most, see Tick
          MaxTime       \* bound on the clock

ASSUME TiersAssumption ==
  /\ Tiers \in Seq(Key) /\ Len(Tiers) > 0
  /\ \A i, j \in 1..Len(Tiers) : Tiers[i] = Tiers[j] => i = j
ASSUME LimitAssumption == Limit \in [Key -> Nat \ {0}] /\ Window \in [Key -> Nat \ {0}]
ASSUME GraceAssumption == Grace \in Nat /\ MaxLag \in Nat /\ MaxTime \in Nat
ASSUME OverlapAssumption == Overlap \in Nat \ {0} /\ MayFail \in BOOLEAN

VARIABLES
  clock,      \* seconds
  members,    \* sorted set of each bucket: members <<request, score>>
  deadline,   \* when each bucket expires, NoTTL if it does not
  pc,         \* where each request stands
  tier,       \* index of the bucket it is checked against
  now,        \* `now` of its current check
  count,      \* current_count of its current check
  admitted,   \* history: the checks that returned True, as <<request, score>>
  disturbed   \* history: a check overlapped with another one, or a call raised

vars == <<clock, members, deadline, pc, tier, now, count, admitted, disturbed>>

NoTTL == -1
Time  == 0..MaxTime

Running == {"enter", "evict", "card", "add", "expire", "rem"}
Active  == {r \in Req : pc[r] \in Running}

KeyOf(r) == Tiers[tier[r]]
\* Mutant: the start of the window as the score.
Entry_WindowStart(r) == <<r, now[r] - Window[KeyOf(r)]>>
Entry(r) == <<r, now[r]>>

\* Those of S whose score lies in the window of bucket k that ends at t.
InWindow(S, k, t) == {m \in S : t - Window[k] < m[2] /\ m[2] <= t}

Init ==
  /\ clock = 0
  /\ members = [k \in Key |-> {}]
  /\ deadline = [k \in Key |-> NoTTL]
  /\ pc = [r \in Req |-> "idle"]
  /\ tier = [r \in Req |-> 1]
  /\ now = [r \in Req |-> 0]
  /\ count = [r \in Req |-> 0]
  /\ admitted = [k \in Key |-> {}]
  /\ disturbed = FALSE

Goto(r, to) == pc' = [pc EXCEPT ![r] = to]

\* A bucket that is left empty is gone, and its TTL with it.
Store(k, S) ==
  /\ members' = [members EXCEPT ![k] = S]
  /\ deadline' = [deadline EXCEPT ![k] = IF S = {} THEN NoTTL ELSE @]

Arrive(r) ==
  /\ pc[r] = "idle"
  /\ Cardinality(Active) < Overlap
  /\ Goto(r, "enter")
  /\ disturbed' = (disturbed \/ Active # {})
  /\ UNCHANGED <<clock, members, deadline, tier, now, count, admitted>>

\* now = time.time()
Enter(r) ==
  /\ pc[r] = "enter"
  /\ now' = [now EXCEPT ![r] = clock]
  /\ Goto(r, "evict")
  /\ UNCHANGED <<clock, members, deadline, tier, count, admitted, disturbed>>

\* What ZREMRANGEBYSCORE -inf (t - window) leaves.  A score equal to the start of the
\* window goes (rate_limit.py:71), where the comments at :12 and :70, which have the
\* scores below the start removed, keep the member and count it once more.
Evicted(k, t) == {m \in members[k] : m[2] > t - Window[k]}

Evict(r) ==
  /\ pc[r] = "evict"
  /\ Store(KeyOf(r), Evicted(KeyOf(r), now[r]))
  /\ Goto(r, "card")
  /\ UNCHANGED <<clock, tier, now, count, admitted, disturbed>>

Card(r) ==
  /\ pc[r] = "card"
  /\ count' = [count EXCEPT ![r] = Cardinality(members[KeyOf(r)])]
  /\ Goto(r, "add")
  /\ UNCHANGED <<clock, members, deadline, tier, now, admitted, disturbed>>

Add(r) ==
  /\ pc[r] = "add"
  /\ Store(KeyOf(r), members[KeyOf(r)] \cup {Entry(r)})
  /\ Goto(r, "expire")
  /\ UNCHANGED <<clock, tier, now, count, admitted, disturbed>>

\* current_count >= limit
Refused_Late(r) == count[r] > Limit[KeyOf(r)]   \* mutant: one too many
Refused(r) == count[r] >= Limit[KeyOf(r)]

\* EXPIRE key window+10, which does nothing to a bucket that is gone.
Renew(k) ==
  deadline' = [deadline EXCEPT ![k] = IF members[k] = {} THEN NoTTL
                                      ELSE clock + Window[k] + Grace]

\* The last command; execute() returns and the check is decided on the count.
Expire(r) ==
  LET k == KeyOf(r)
  IN  /\ pc[r] = "expire"
      /\ Renew(k)
      /\ \/ /\ Refused(r)
            /\ Goto(r, "rem")
            /\ UNCHANGED <<tier, admitted>>
         \/ /\ ~Refused(r)
            /\ admitted' = [admitted EXCEPT ![k] = @ \cup {Entry(r)}]
            /\ IF tier[r] < Len(Tiers)
               THEN Goto(r, "enter") /\ tier' = [tier EXCEPT ![r] = @ + 1]
               ELSE Goto(r, "allowed") /\ UNCHANGED tier
      /\ UNCHANGED <<clock, members, now, count, disturbed>>

\* Mutant: the member is left behind.
Rem_Forgets(r) ==
  /\ pc[r] = "rem"
  /\ Goto(r, "denied")
  /\ UNCHANGED <<clock, members, deadline, tier, now, count, admitted, disturbed>>

\* ZREM of the member that was added all the same; then 429.
Rem(r) ==
  /\ pc[r] = "rem"
  /\ Store(KeyOf(r), members[KeyOf(r)] \ {Entry(r)})
  /\ Goto(r, "denied")
  /\ UNCHANGED <<clock, tier, now, count, admitted, disturbed>>

\* A Redis call raises: nothing catches it and nothing is undone.  It may have
\* got through all the same.
Raise(r) ==
  /\ MayFail
  /\ pc[r] \in Running \ {"enter"}
  /\ Goto(r, "error")
  /\ \/ UNCHANGED <<members, deadline>>
     \/ pc[r] = "expire" /\ Renew(KeyOf(r)) /\ UNCHANGED members
     \/ pc[r] = "rem" /\ Store(KeyOf(r), members[KeyOf(r)] \ {Entry(r)})
  /\ disturbed' = TRUE
  /\ UNCHANGED <<clock, tier, now, count, admitted>>

\* A second passes; Redis drops the buckets whose deadline is reached.  A check
\* ends at most MaxLag seconds after it read the clock.
Tick ==
  /\ clock < MaxTime
  /\ \A r \in Active : pc[r] # "enter" => clock - now[r] < MaxLag
  /\ clock' = clock + 1
  /\ LET due == {k \in Key : deadline[k] # NoTTL /\ deadline[k] <= clock + 1}
     IN  /\ members' = [k \in Key |-> IF k \in due THEN {} ELSE members[k]]
         /\ deadline' = [k \in Key |-> IF k \in due THEN NoTTL ELSE deadline[k]]
  /\ UNCHANGED <<pc, tier, now, count, admitted, disturbed>>

Check(r) == Enter(r) \/ Evict(r) \/ Card(r) \/ Add(r) \/ Expire(r) \/ Rem(r)

Next ==
  \/ \E r \in Req : Arrive(r) \/ Check(r) \/ Raise(r)
  \/ Tick

Spec == Init /\ [][Next]_vars

-----------------------------------------------------------------------------
(* Properties.                                                             *)

TypeOK ==
  /\ clock \in Time
  /\ members \in [Key -> SUBSET (Req \X Time)]
  /\ deadline \in [Key -> Int]
  /\ pc \in [Req -> Running \cup {"idle", "allowed", "denied", "error"}]
  /\ tier \in [Req -> 1..Len(Tiers)]
  /\ now \in [Req -> Time]
  /\ count \in [Req -> Nat]
  /\ admitted \in [Key -> SUBSET (Req \X Time)]
  /\ disturbed \in BOOLEAN

\* A check ends within what EXPIRE adds to the window (rate_limit.py:80), and
\* within any window, as Redis calls time out (main.py:64-65): no bucket expires
\* under a check that used it.
LagFits == MaxLag <= Grace /\ \A k \in Key : MaxLag < Window[k]

\* The checks of bucket k that a raising call ended.  They may leave a member
\* that nobody removes, in a bucket whose TTL they did not renew.
Failed(k) == {r \in Req : pc[r] = "error" /\ KeyOf(r) = k}

\* Whether one of them read the clock after `from` and not after `to`.
FailedWithin(k, from, to) == \E x \in Failed(k) : from < now[x] /\ now[x] <= to

\* rate_limit.py:21-24 accepts a race.  What it costs: in a window shorter than
\* the bucket's by the time a check may take, a bucket admits at most one request
\* more than its limit for every other request checked at the same time.  A call
\* that raised can cost more, but not two windows later, nor before it was made.
BoundedOvershoot ==
  \A k \in Key, t \in Time : ~FailedWithin(k, t - 2 * Window[k], t + MaxLag) =>
    LET recent == {m \in admitted[k] : t - Window[k] + MaxLag < m[2] /\ m[2] <= t}
    IN  Cardinality(recent) <= Limit[k] + Overlap - 1

\* Once nobody is being checked, a bucket holds what it admitted in the current
\* window and nothing it refused (rate_limit.py:87-90), whatever the refused checks
\* overlapped with and whichever buckets expired meanwhile.  A call that raised
\* leaves the member of its own check at most, and what it can cost the bucket is
\* members of checks that began at most a window, give or take what a check takes,
\* after it.
QuietBucketsExact ==
  Active = {} =>
    \A k \in Key :
      /\ members[k] \subseteq admitted[k] \cup {Entry(x) : x \in Failed(k)}
      /\ \A m \in InWindow(admitted[k], k, clock) :
           \/ m \in members[k]
           \/ FailedWithin(k, m[2] - Window[k] - MaxLag, m[2] + MaxLag)

\* Those of S that were scored within the window of bucket k up to t, or while a
\* check that read the clock at t was under way.
Near(S, k, t) == {m \in S : t - Window[k] < m[2] /\ m[2] <= t + MaxLag}

\* A refusal is due.  As long as the checks came one at a time and none raised, a
\* check that is refused has a bucket that admitted its limit in the window of that
\* check (rate_limit.py:84-93).  Once they overlap it may have counted members of
\* others that are refused themselves (rate_limit.py:87-90), yet at most one for each
\* other check under way, if none that raised left a member to be counted.
\* Both say `window' as the code does, which is open at its start: see Evicted.
NoFalseRefusal ==
  \A r \in Req : pc[r] \in {"rem", "denied"} =>
    LET k == KeyOf(r)
    IN  /\ ~disturbed => Cardinality(InWindow(admitted[k], k, now[r])) >= Limit[k]
        /\ ~FailedWithin(k, now[r] - Window[k], now[r] + MaxLag) =>
             Cardinality(Near(admitted[k], k, now[r])) >= Limit[k] - (Overlap - 1)

-----------------------------------------------------------------------------
(* Until something disturbs it, every bucket is a sliding window.          *)

Log == INSTANCE SlidingWindow WITH log <- admitted, exact <- ~disturbed

ImplementsSlidingWindow == Log!Spec

=============================================================================
