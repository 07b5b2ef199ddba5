-------------------------- MODULE RateLimiterProofs --------------------------
(***************************************************************************)
(* Proofs about RateLimiter for any number of requests and buckets, any    *)
(* tiers, limits and windows, any overlap of the checks, and calls that    *)
(* may raise.                                                              *)
(***************************************************************************)
EXTENDS RateLimiter, FiniteSetTheorems, SequenceTheorems, TLAPS

USE DEF Time, Running, KeyOf, Entry

-----------------------------------------------------------------------------
(* Type correctness.                                                       *)

\* Buckets hold finitely many members, and not too many checks are under way.
SizesInv ==
  /\ \A k \in Key : IsFiniteSet(members[k]) /\ IsFiniteSet(admitted[k])
  /\ IsFiniteSet(Active) /\ Cardinality(Active) <= Overlap

TypeInv == TypeOK /\ SizesInv

\* The tier of a request names a bucket.
LEMMA KeyOfType == ASSUME TypeOK, NEW r \in Req PROVE KeyOf(r) \in Key
<1>1. tier[r] \in 1..Len(Tiers)
  BY DEF TypeOK
<1> QED BY <1>1, TiersAssumption DEF TiersAssumption

\* Limits, windows and the grace are natural numbers.
LEMMA ConstantTypes ==
  /\ \A k \in Key : Limit[k] \in Nat \ {0} /\ Window[k] \in Nat \ {0}
  /\ Grace \in Nat /\ MaxLag \in Nat /\ MaxTime \in Nat /\ Overlap \in Nat \ {0}
BY LimitAssumption, GraceAssumption, OverlapAssumption
   DEF LimitAssumption, GraceAssumption, OverlapAssumption

LEMMA TypeInit == Init => TypeInv
<1> SUFFICES ASSUME Init PROVE TypeInv
  OBVIOUS
<1>1. TypeOK
  <2>1. 1 \in 1..Len(Tiers)
    BY TiersAssumption DEF TiersAssumption
  <2>2. 0 \in Time /\ NoTTL \in Int
    BY ConstantTypes DEF NoTTL
  <2> QED BY <2>1, <2>2 DEF Init, TypeOK
<1>2. Active = {}
  BY DEF Init, Active
<1>3. IsFiniteSet({}) /\ Cardinality({}) = 0
  BY FS_EmptySet
<1>4. SizesInv
  BY <1>2, <1>3, ConstantTypes DEF Init, SizesInv
<1> QED BY <1>1, <1>4 DEF TypeInv

\* A step of q leaves the other requests where they are.
LEMMA OthersStay ==
  ASSUME TypeOK, NEW q \in Req, Arrive(q) \/ Check(q) \/ Raise(q), NEW s \in Req, s # q
  PROVE  pc'[s] = pc[s] /\ tier'[s] = tier[s] /\ now'[s] = now[s] /\ count'[s] = count[s]
BY DEF TypeOK, Check, Arrive, Enter, Evict, Card, Add, Expire, Rem, Raise, Goto

\* Every step of a check or of the clock keeps the types and the sizes.
LEMMA TypeStep == TypeInv /\ [Next]_vars => TypeInv'
<1> SUFFICES ASSUME TypeInv, [Next]_vars PROVE TypeInv'
  OBVIOUS
<1> USE DEF TypeInv
<1>1. \A r \in Req : KeyOf(r) \in Key
  BY KeyOfType
<1>2. /\ clock \in 0..MaxTime /\ MaxTime \in Nat /\ NoTTL \in Int
      /\ \A k \in Key : Window[k] \in Nat /\ IsFiniteSet(members[k]) /\ IsFiniteSet(admitted[k])
      /\ Grace \in Nat
  BY ConstantTypes DEF TypeOK, NoTTL, SizesInv
<1>3. ASSUME Active' \subseteq Active PROVE IsFiniteSet(Active') /\ Cardinality(Active') <= Overlap
  <2>1. IsFiniteSet(Active') /\ Cardinality(Active') <= Cardinality(Active)
    BY <1>3, FS_Subset DEF SizesInv
  <2>2. Cardinality(Active) \in Nat /\ Cardinality(Active') \in Nat
    BY <2>1, FS_CardinalityType DEF SizesInv
  <2> QED BY <2>1, <2>2, ConstantTypes DEF SizesInv
<1>4. ASSUME NEW q \in Req, pc'[q] \in Running => pc[q] \in Running,
             Arrive(q) \/ Check(q) \/ Raise(q)
      PROVE  Active' \subseteq Active
  BY <1>4, OthersStay DEF Active
<1>5. ASSUME NEW q \in Req, Arrive(q) PROVE TypeInv'
  <2>1. TypeOK'
    BY <1>5 DEF Arrive, Goto, TypeOK
  <2>2. Active' = Active \cup {q} /\ q \notin Active
    BY <1>5 DEF Arrive, Goto, Active, TypeOK
  <2>3. IsFiniteSet(Active') /\ Cardinality(Active') = Cardinality(Active) + 1
    BY <2>2, FS_AddElement DEF SizesInv
  <2>4. Cardinality(Active) \in Nat
    BY FS_CardinalityType DEF SizesInv
  <2>5. SizesInv'
    BY <1>5, <2>3, <2>4, ConstantTypes DEF Arrive, SizesInv
  <2> QED BY <2>1, <2>5
<1>6. ASSUME NEW q \in Req, Enter(q) PROVE TypeInv'
  <2>1. TypeOK'
    BY <1>6 DEF Enter, Goto, TypeOK
  <2>2. Active' \subseteq Active
    BY <1>4, <1>6 DEF Enter, Check
  <2> QED BY <1>3, <1>6, <2>1, <2>2 DEF Enter, SizesInv
<1>7. ASSUME NEW k \in Key, NEW S \in SUBSET (Req \X Time), IsFiniteSet(S), Store(k, S)
      PROVE  /\ members' \in [Key -> SUBSET (Req \X Time)]
             /\ deadline' \in [Key -> Int]
             /\ \A j \in Key : IsFiniteSet(members'[j])
  BY <1>2, <1>7 DEF Store, TypeOK
<1>8. ASSUME NEW k \in Key, Renew(k) PROVE deadline' \in [Key -> Int]
  <2> DEFINE d == IF members[k] = {} THEN NoTTL ELSE clock + Window[k] + Grace
  <2>1. d \in Int
    BY <1>2
  <2>2. deadline' = [deadline EXCEPT ![k] = d]
    BY <1>8 DEF Renew
  <2> HIDE DEF d
  <2> QED BY <2>1, <2>2 DEF TypeOK
<1>9. ASSUME NEW q \in Req, Evict(q) PROVE TypeInv'
  <2>1. /\ Evicted(KeyOf(q), now[q]) \subseteq members[KeyOf(q)]
    BY DEF Evicted
  <2>2. /\ Evicted(KeyOf(q), now[q]) \in SUBSET (Req \X Time)
        /\ IsFiniteSet(Evicted(KeyOf(q), now[q]))
    BY <1>1, <1>2, <2>1, FS_Subset DEF TypeOK
  <2>3. /\ members' \in [Key -> SUBSET (Req \X Time)] /\ deadline' \in [Key -> Int]
        /\ \A j \in Key : IsFiniteSet(members'[j])
    BY <1>1, <1>7, <1>9, <2>2 DEF Evict
  <2>4. Active' \subseteq Active
    BY <1>4, <1>9 DEF Evict, Check
  <2>5. TypeOK'
    BY <1>9, <2>3 DEF Evict, Goto, TypeOK
  <2> QED BY <1>2, <1>3, <1>9, <2>3, <2>4, <2>5 DEF Evict, SizesInv
<1>10. ASSUME NEW q \in Req, Card(q) PROVE TypeInv'
  <2>1. Cardinality(members[KeyOf(q)]) \in Nat
    BY <1>1, <1>2, FS_CardinalityType
  <2>2. TypeOK'
    BY <1>10, <2>1 DEF Card, Goto, TypeOK
  <2>3. Active' \subseteq Active
    BY <1>4, <1>10 DEF Card, Check
  <2> QED BY <1>3, <1>10, <2>2, <2>3 DEF Card, SizesInv
<1>11. ASSUME NEW q \in Req, Add(q) PROVE TypeInv'
  <2>1. Entry(q) \in Req \X Time
    BY DEF TypeOK
  <2>2. /\ members[KeyOf(q)] \cup {Entry(q)} \in SUBSET (Req \X Time)
        /\ IsFiniteSet(members[KeyOf(q)] \cup {Entry(q)})
    BY <1>1, <1>2, <2>1, FS_AddElement DEF TypeOK
  <2>3. /\ members' \in [Key -> SUBSET (Req \X Time)] /\ deadline' \in [Key -> Int]
        /\ \A j \in Key : IsFiniteSet(members'[j])
    BY <1>1, <1>7, <1>11, <2>2 DEF Add
  <2>4. Active' \subseteq Active
    BY <1>4, <1>11 DEF Add, Check
  <2>5. TypeOK'
    BY <1>11, <2>3 DEF Add, Goto, TypeOK
  <2> QED BY <1>2, <1>3, <1>11, <2>3, <2>4, <2>5 DEF Add, SizesInv
<1>12. ASSUME NEW q \in Req, Expire(q) PROVE TypeInv'
  <2>1. Entry(q) \in Req \X Time
    BY DEF TypeOK
  <2>2. /\ admitted' \in [Key -> SUBSET (Req \X Time)]
        /\ \A j \in Key : IsFiniteSet(admitted'[j])
    <3> DEFINE S == admitted[KeyOf(q)] \cup {Entry(q)}
    <3>1. IsFiniteSet(S) /\ S \in SUBSET (Req \X Time)
      BY <1>1, <1>2, <2>1, FS_AddElement DEF TypeOK
    <3>2. admitted' = admitted \/ admitted' = [admitted EXCEPT ![KeyOf(q)] = S]
      BY <1>12 DEF Expire
    <3> HIDE DEF S
    <3> QED BY <1>1, <1>2, <3>1, <3>2 DEF TypeOK
  <2>3. deadline' \in [Key -> Int]
    BY <1>1, <1>12, <1>8 DEF Expire
  <2>4. tier' \in [Req -> 1..Len(Tiers)]
    <3>1. tier[q] < Len(Tiers) => tier[q] + 1 \in 1..Len(Tiers)
      BY TiersAssumption DEF TiersAssumption, TypeOK
    <3> QED BY <1>12, <3>1 DEF Expire, TypeOK
  <2>5. pc' \in [Req -> Running \cup {"idle", "allowed", "denied", "error"}]
    BY <1>12 DEF Expire, Goto, TypeOK
  <2>6. Active' \subseteq Active
    BY <1>4, <1>12 DEF Expire, Check
  <2> QED BY <1>2, <1>3, <1>12, <2>2, <2>3, <2>4, <2>5, <2>6 DEF Expire, TypeOK, SizesInv
<1>13. ASSUME NEW q \in Req, Rem(q) PROVE TypeInv'
  <2>1. /\ members[KeyOf(q)] \ {Entry(q)} \in SUBSET (Req \X Time)
        /\ IsFiniteSet(members[KeyOf(q)] \ {Entry(q)})
    BY <1>1, <1>2, FS_RemoveElement DEF TypeOK
  <2>2. /\ members' \in [Key -> SUBSET (Req \X Time)] /\ deadline' \in [Key -> Int]
        /\ \A j \in Key : IsFiniteSet(members'[j])
    BY <1>1, <1>7, <1>13, <2>1 DEF Rem
  <2>3. Active' \subseteq Active
    BY <1>4, <1>13 DEF Rem, Check
  <2>4. TypeOK'
    BY <1>13, <2>2 DEF Rem, Goto, TypeOK
  <2> QED BY <1>2, <1>3, <1>13, <2>2, <2>3, <2>4 DEF Rem, SizesInv
<1>14. ASSUME NEW q \in Req, Raise(q) PROVE TypeInv'
  <2>1. /\ members[KeyOf(q)] \ {Entry(q)} \in SUBSET (Req \X Time)
        /\ IsFiniteSet(members[KeyOf(q)] \ {Entry(q)})
    BY <1>1, <1>2, FS_RemoveElement DEF TypeOK
  <2>2. /\ members' \in [Key -> SUBSET (Req \X Time)] /\ deadline' \in [Key -> Int]
        /\ \A j \in Key : IsFiniteSet(members'[j])
    <3>1. CASE UNCHANGED <<members, deadline>>
      BY <1>2, <3>1 DEF TypeOK
    <3>2. CASE Renew(KeyOf(q)) /\ UNCHANGED members
      BY <1>1, <1>2, <1>8, <3>2 DEF TypeOK
    <3>3. CASE Store(KeyOf(q), members[KeyOf(q)] \ {Entry(q)})
      BY <1>1, <1>7, <2>1, <3>3
    <3> QED BY <1>14, <3>1, <3>2, <3>3 DEF Raise
  <2>3. Active' \subseteq Active
    BY <1>4, <1>14 DEF Raise
  <2>4. TypeOK'
    BY <1>14, <2>2 DEF Raise, Goto, TypeOK
  <2> QED BY <1>2, <1>3, <1>14, <2>2, <2>3, <2>4 DEF Raise, SizesInv
<1>15. ASSUME Tick PROVE TypeInv'
  <2>1. clock' \in Time
    BY <1>2, <1>15 DEF Tick
  <2>2. /\ members' \in [Key -> SUBSET (Req \X Time)]
        /\ \A k \in Key : members'[k] \in {{}, members[k]}
        /\ deadline' \in [Key -> Int]
    BY <1>2, <1>15 DEF Tick, TypeOK
  <2>3. \A k \in Key : IsFiniteSet(members'[k])
    BY <1>2, <2>2, FS_EmptySet
  <2>4. Active' = Active
    BY <1>15 DEF Tick, Active
  <2> QED BY <1>3, <1>15, <2>1, <2>2, <2>3, <2>4 DEF Tick, TypeOK, SizesInv
<1>16. CASE UNCHANGED vars
  BY <1>16 DEF vars, TypeOK, SizesInv, Active
<1> QED BY <1>5, <1>6, <1>9, <1>10, <1>11, <1>12, <1>13, <1>14, <1>15, <1>16 DEF Next, Check

\* Buckets, clocks and counters are well typed, and the clock stays in its bound.
THEOREM LimiterTypeCorrect == Spec => []TypeOK
<1>1. TypeInv => TypeOK
  BY DEF TypeInv
<1> QED BY <1>1, TypeInit, TypeStep, PTL DEF Spec

-----------------------------------------------------------------------------
(* Who is in a bucket, and until when.                                     *)

\* A request is admitted to the buckets of the tiers it has passed, and to no other.
PassedInv ==
  \A k \in Key : \A m \in admitted[k] : \E i \in 1..Len(Tiers) :
    /\ Tiers[i] = k
    /\ i < tier[m[1]] \/ (i = tier[m[1]] /\ pc[m[1]] = "allowed")

\* Scores and time stamps are of the past, and those of a check that runs are at most
\* MaxLag seconds old.
ScoresInv ==
  /\ \A k \in Key : \A m \in members[k] \cup admitted[k] : m[2] <= clock
  /\ \A r \in Req : now[r] <= clock
  /\ \A r \in Active : pc[r] # "enter" => clock - now[r] <= MaxLag

\* Checks that have evicted from bucket k and have not renewed its TTL yet.
Evicting(k) == {r \in Req : pc[r] \in {"card", "add", "expire"} /\ KeyOf(r) = k}

\* Checks whose member is in bucket k and whose EXPIRE is still to come.
Entered(k) == {r \in Req : pc[r] = "expire" /\ KeyOf(r) = k}

\* A member was admitted, or belongs to a check that has yet to decide or to remove it,
\* or to one that a raising call ended.
OriginInv ==
  \A k \in Key : \A m \in members[k] :
    \/ m \in admitted[k]
    \/ \E r \in Req : pc[r] \in {"expire", "rem", "error"} /\ KeyOf(r) = k /\ m = Entry(r)

\* What was admitted is in the bucket until its window has passed, calls that raised aside.
KeptInv ==
  \A k \in Key : \A m \in admitted[k] :
    \/ m \in members[k]
    \/ m[2] + Window[k] <= clock
    \/ FailedWithin(k, m[2] - Window[k] - MaxLag, m[2] + MaxLag)

\* So is the member of a check that is not decided yet.
EnteredInv ==
  \A k \in Key : \A r \in Entered(k) :
    \/ Entry(r) \in members[k]
    \/ now[r] + Window[k] <= clock
    \/ FailedWithin(k, now[r] - Window[k] - MaxLag, now[r] + MaxLag)

\* A bucket with a TTL outlives its members, but for those whose EXPIRE is to come or
\* never comes.
SettledInv ==
  \A k \in Key : deadline[k] # NoTTL => \A m \in members[k] :
    \/ m[2] + Window[k] + Grace <= deadline[k]
    \/ \E r \in Entered(k) \cup Failed(k) : m = Entry(r)

\* While such checks are under way, one of them read the clock long before the TTL ends, or
\* one of them may have found nothing in the bucket but what a failed check left.
AheadInv ==
  \A k \in Key : deadline[k] # NoTTL /\ Evicting(k) # {} =>
    \/ \E r \in Evicting(k) : now[r] + Grace < deadline[k]
    \/ \E r \in Evicting(k), x \in Failed(k) : now[r] - Window[k] < now[x]

BucketInv == OriginInv /\ KeptInv /\ EnteredInv /\ SettledInv /\ AheadInv

Known == TypeInv /\ PassedInv /\ ScoresInv

\* The ranges that the arithmetic of the proofs needs.
LEMMA Ranges ==
  ASSUME TypeInv
  PROVE  /\ clock \in Int
         /\ \A r \in Req : now[r] \in Int /\ KeyOf(r) \in Key
         /\ \A k \in Key : /\ deadline[k] \in Int /\ Window[k] \in Nat \ {0}
                           /\ Limit[k] \in Nat \ {0}
                           /\ \A m \in members[k] \cup admitted[k] : m[1] \in Req /\ m[2] \in Int
         /\ Grace \in Nat /\ MaxLag \in Nat /\ NoTTL \in Int /\ NoTTL < 0
<1>1. Time \subseteq Int
  BY ConstantTypes
<1>2. \A k \in Key : members[k] \subseteq Req \X Time /\ admitted[k] \subseteq Req \X Time
  BY DEF TypeInv, TypeOK
<1> QED BY <1>1, <1>2, ConstantTypes, KeyOfType DEF TypeInv, TypeOK, NoTTL

LEMMA KnownInit == Init => Known
<1> SUFFICES ASSUME Init PROVE Known
  OBVIOUS
<1>1. PassedInv /\ ScoresInv
  BY DEF Init, PassedInv, ScoresInv, Active
<1> QED BY <1>1, TypeInit DEF Known

\* A check only touches the bucket it is at, where it may put its own member and be
\* admitted.
LEMMA OwnBucket ==
  ASSUME TypeInv, NEW q \in Req, Arrive(q) \/ Check(q) \/ Raise(q), NEW k \in Key
  PROVE  /\ clock' = clock
         /\ members'[k] \subseteq members[k] \cup {Entry(q)}
         /\ admitted'[k] \subseteq admitted[k] \cup {Entry(q)}
         /\ admitted[k] \subseteq admitted'[k]
         /\ pc[q] # "add" => members'[k] \subseteq members[k]
         /\ pc[q] # "expire" => admitted' = admitted
         /\ k # KeyOf(q) => /\ members'[k] = members[k] /\ deadline'[k] = deadline[k]
                            /\ admitted'[k] = admitted[k]
<1>1. CASE Arrive(q) \/ Enter(q) \/ Card(q)
  BY <1>1 DEF Arrive, Enter, Card
<1>2. CASE Evict(q) \/ Add(q) \/ Rem(q)
  BY <1>2 DEF Evict, Add, Rem, Store, Evicted, TypeInv, TypeOK
<1>3. CASE Expire(q)
  BY <1>3 DEF Expire, Renew, TypeInv, TypeOK
<1>4. CASE Raise(q)
  BY <1>4 DEF Raise, Renew, Store, TypeInv, TypeOK
<1> QED BY <1>1, <1>2, <1>3, <1>4 DEF Check

\* Admission is to the tier of the request, which then passes on.
LEMMA PassedStep == TypeInv /\ TypeInv' /\ PassedInv /\ [Next]_vars => PassedInv'
<1> SUFFICES ASSUME TypeInv, TypeInv', PassedInv, [Next]_vars, NEW k \in Key, NEW m \in admitted'[k]
             PROVE  \E i \in 1..Len(Tiers) :
                      /\ Tiers[i] = k
                      /\ i < tier'[m[1]] \/ (i = tier'[m[1]] /\ pc'[m[1]] = "allowed")
  BY DEF PassedInv
<1>1. \A r \in Req : tier[r] \in 1..Len(Tiers) /\ Len(Tiers) \in Nat
  BY TiersAssumption DEF TypeInv, TypeOK, TiersAssumption
<1>2. ASSUME NEW q \in Req, Arrive(q) \/ Check(q) \/ Raise(q), m \in admitted[k]
      PROVE  \E i \in 1..Len(Tiers) :
               /\ Tiers[i] = k
               /\ i < tier'[m[1]] \/ (i = tier'[m[1]] /\ pc'[m[1]] = "allowed")
  <2>1. m[1] \in Req
    BY <1>2, Ranges
  <2> PICK i \in 1..Len(Tiers) : /\ Tiers[i] = k
                                 /\ i < tier[m[1]] \/ (i = tier[m[1]] /\ pc[m[1]] = "allowed")
    BY <1>2 DEF PassedInv
  <2>2. CASE m[1] # q
    BY <1>2, <2>1, <2>2, OthersStay DEF TypeInv
  <2>3. CASE m[1] = q
    <3>1. tier'[q] = tier[q] \/ tier'[q] = tier[q] + 1
      BY <1>2 DEF Check, Arrive, Enter, Evict, Card, Add, Expire, Rem, Raise, TypeInv, TypeOK
    <3>2. pc[q] # "allowed"
      BY <1>2 DEF Check, Arrive, Enter, Evict, Card, Add, Expire, Rem, Raise
    <3> QED BY <1>1, <2>1, <2>3, <3>1, <3>2
  <2> QED BY <2>2, <2>3
<1>3. ASSUME NEW q \in Req, Arrive(q) \/ Check(q) \/ Raise(q), m \notin admitted[k]
      PROVE  \E i \in 1..Len(Tiers) :
               /\ Tiers[i] = k
               /\ i < tier'[m[1]] \/ (i = tier'[m[1]] /\ pc'[m[1]] = "allowed")
  <2>1. m = Entry(q) /\ k = KeyOf(q) /\ pc[q] = "expire"
    BY <1>3, OwnBucket
  <2>2. \/ tier'[q] = tier[q] + 1
        \/ tier'[q] = tier[q] /\ pc'[q] = "allowed"
    BY <1>3, <2>1 DEF Check, Arrive, Enter, Evict, Card, Add, Expire, Rem, Raise, Goto, Running,
                      TypeInv, TypeOK
  <2> QED BY <1>1, <2>1, <2>2
<1>4. CASE Tick \/ UNCHANGED vars
  BY <1>4 DEF Tick, vars, PassedInv
<1> QED BY <1>2, <1>3, <1>4 DEF Next

\* Nobody is admitted to a bucket that it is still checked against.
LEMMA NotYetAdmitted ==
  ASSUME TypeInv, PassedInv, NEW r \in Req, pc[r] # "allowed", NEW m \in admitted[KeyOf(r)]
  PROVE  m[1] # r
<1>1. tier[r] \in 1..Len(Tiers) /\ KeyOf(r) \in Key
  BY KeyOfType DEF TypeInv, TypeOK
<1> QED BY <1>1, TiersAssumption DEF PassedInv, TiersAssumption

\* Time passes only while no check falls behind.
LEMMA ScoresStep == TypeInv /\ TypeInv' /\ ScoresInv /\ [Next]_vars => ScoresInv'
<1> SUFFICES ASSUME TypeInv, TypeInv', ScoresInv, [Next]_vars PROVE ScoresInv'
  OBVIOUS
<1>1. ASSUME NEW q \in Req, Arrive(q) \/ Check(q) \/ Raise(q) PROVE ScoresInv'
  <2>1. \A k \in Key : \A m \in members'[k] \cup admitted'[k] : m[2] <= clock'
    BY <1>1, OwnBucket DEF ScoresInv
  <2>2. clock' = clock /\ (now'[q] = now[q] \/ (now'[q] = clock /\ pc'[q] = "evict"))
    <3>1. CASE Enter(q)
      <4>1. now \in [Req -> Time] /\ pc' = [pc EXCEPT ![q] = "evict"] /\ DOMAIN pc = Req
        BY <3>1 DEF Enter, Goto, TypeInv, TypeOK
      <4>2. now' = [now EXCEPT ![q] = clock] /\ clock' = clock
        BY <3>1 DEF Enter
      <4> QED BY <4>1, <4>2
    <3>2. CASE Arrive(q) \/ Card(q) \/ Raise(q)
      BY <3>2 DEF Arrive, Card, Raise
    <3>3. CASE Evict(q) \/ Add(q) \/ Rem(q)
      BY <3>3 DEF Evict, Add, Rem
    <3>4. CASE Expire(q)
      BY <3>4 DEF Expire
    <3> QED BY <1>1, <3>1, <3>2, <3>3, <3>4 DEF Check
  <2>3. \A r \in Req : now'[r] <= clock'
    BY <1>1, <2>2, OthersStay, Ranges DEF ScoresInv, TypeInv
  <2>4. pc'[q] \in Running \ {"enter"} => (pc[q] \in Running \ {"enter"} /\ now'[q] = now[q])
                                           \/ now'[q] = clock
    BY <1>1 DEF Check, Arrive, Enter, Evict, Card, Add, Expire, Rem, Raise, Goto, TypeInv, TypeOK
  <2>5. \A r \in Active' : pc'[r] # "enter" => clock' - now'[r] <= MaxLag
    BY <1>1, <2>2, <2>4, OthersStay, Ranges DEF ScoresInv, Active, TypeInv
  <2> QED BY <2>1, <2>3, <2>5 DEF ScoresInv
<1>2. CASE Tick
  <2>1. clock' = clock + 1 /\ now' = now /\ pc' = pc /\ admitted' = admitted
        /\ \A k \in Key : members'[k] \subseteq members[k]
    BY <1>2 DEF Tick
  <2>2. \A r \in Active : pc[r] # "enter" => clock - now[r] < MaxLag
    BY <1>2 DEF Tick
  <2> QED BY <2>1, <2>2, Ranges DEF ScoresInv, Active
<1>3. CASE UNCHANGED vars
  BY <1>3 DEF vars, ScoresInv, Active
<1> QED BY <1>1, <1>2, <1>3 DEF Next

LEMMA KnownStep == Known /\ [Next]_vars => Known'
BY TypeStep, PassedStep, ScoresStep DEF Known

\* A check that a raising call ended stays ended.
LEMMA FailedStays ==
  ASSUME TypeInv, [Next]_vars, NEW k \in Key
  PROVE  Failed(k) \subseteq Failed(k)' /\ \A x \in Failed(k) : x \in Req /\ now'[x] = now[x]
<1>1. ASSUME NEW q \in Req, Arrive(q) \/ Check(q) \/ Raise(q), NEW x \in Failed(k)
      PROVE  x \in Failed(k)' /\ now'[x] = now[x]
  <2>1. pc[q] # "error" /\ x \in Req /\ pc[x] = "error"
    BY <1>1 DEF Check, Arrive, Enter, Evict, Card, Add, Expire, Rem, Raise, Failed
  <2>2. pc'[x] = pc[x] /\ tier'[x] = tier[x] /\ now'[x] = now[x]
    BY <1>1, <2>1, OthersStay DEF TypeInv
  <2> QED BY <2>1, <2>2, <1>1 DEF Failed
<1>2. CASE Tick \/ UNCHANGED vars
  BY <1>2 DEF Tick, vars, Failed
<1> QED BY <1>1, <1>2 DEF Next, Failed

\* So what it excuses stays excused.
LEMMA FailedWithinStays ==
  ASSUME TypeInv, [Next]_vars, NEW k \in Key, NEW a, NEW b, FailedWithin(k, a, b)
  PROVE  FailedWithin(k, a, b)'
BY FailedStays DEF FailedWithin

-----------------------------------------------------------------------------
(* What the buckets hold, step by step.                                    *)

\* Steps that touch neither the buckets nor who is under way in them.
LEMMA QuietBucketStep ==
  ASSUME Known, BucketInv, NEW q \in Req, Arrive(q) \/ Enter(q) \/ Card(q)
  PROVE  BucketInv'
<1>0. \A j \in Key : /\ Failed(j) \subseteq Failed(j)'
                     /\ \A x \in Failed(j) : x \in Req /\ now'[x] = now[x]
  BY FailedStays DEF Next, Check, Known
<1>1. members' = members /\ deadline' = deadline /\ admitted' = admitted /\ clock' = clock
      /\ tier' = tier
  BY DEF Arrive, Enter, Card
<1>2. \A r \in Req : pc[r] \in {"expire", "rem", "error"} => pc'[r] = pc[r] /\ now'[r] = now[r]
  BY DEF Arrive, Enter, Card, Goto, Known, TypeInv, TypeOK
<1>3. \A r \in Req : pc[r] = "expire" <=> pc'[r] = "expire"
  BY DEF Arrive, Enter, Card, Goto, Known, TypeInv, TypeOK
<1>4. \A r \in Req : pc[r] \in {"card", "add", "expire"} <=> pc'[r] \in {"card", "add", "expire"}
  BY DEF Arrive, Enter, Card, Goto, Known, TypeInv, TypeOK
<1>5. \A r \in Req : pc[r] \in {"card", "add", "expire", "rem"} => now'[r] = now[r]
  BY DEF Arrive, Enter, Card, Goto, Known, TypeInv, TypeOK
<1>6. OriginInv'
  BY <1>1, <1>2 DEF BucketInv, OriginInv
<1>7. KeptInv'
  BY <1>0, <1>1 DEF BucketInv, KeptInv, FailedWithin
<1>8. EnteredInv'
  BY <1>0, <1>1, <1>3, <1>5 DEF BucketInv, EnteredInv, Entered, FailedWithin
<1>9. SettledInv'
  BY <1>0, <1>1, <1>3, <1>5 DEF BucketInv, SettledInv, Entered
<1>10. AheadInv'
  BY <1>0, <1>1, <1>4, <1>5 DEF BucketInv, AheadInv, Evicting
<1> QED BY <1>6, <1>7, <1>8, <1>9, <1>10 DEF BucketInv

\* An eviction takes what has left the window; what it leaves makes the check one that
\* read the clock before the TTL ends.
LEMMA EvictBucketStep ==
  ASSUME Known, BucketInv, NEW q \in Req, Evict(q) PROVE BucketInv'
<1> DEFINE k == KeyOf(q)
<1>0. \A j \in Key : /\ Failed(j) \subseteq Failed(j)'
                     /\ \A x \in Failed(j) : x \in Req /\ now'[x] = now[x]
  BY FailedStays DEF Next, Check, Known
<1>1. k \in Key /\ admitted' = admitted /\ clock' = clock /\ tier' = tier /\ now' = now
  BY Ranges DEF Evict, Known
<1>2. pc[q] = "evict" /\ pc' = [pc EXCEPT ![q] = "card"] /\ DOMAIN pc = Req
  BY DEF Evict, Goto, Known, TypeInv, TypeOK
<1>3. /\ members'[k] = Evicted(k, now[q])
      /\ deadline'[k] = IF Evicted(k, now[q]) = {} THEN NoTTL ELSE deadline[k]
      /\ \A j \in Key : j # k => members'[j] = members[j] /\ deadline'[j] = deadline[j]
  BY Ranges DEF Evict, Store, Known, TypeInv, TypeOK
<1>4. \A j \in Key : /\ members'[j] \subseteq members[j]
                     /\ deadline'[j] # NoTTL => deadline'[j] = deadline[j]
  BY <1>3 DEF Evicted
<1>5. \A j \in Key : Entered(j)' = Entered(j)
  BY <1>1, <1>2 DEF Entered
<1>6. \A j \in Key : Evicting(j) \subseteq Evicting(j)'
  BY <1>1, <1>2 DEF Evicting
<1>7. OriginInv'
  <2>1. \A r \in Req : pc[r] \in {"expire", "rem", "error"} => pc'[r] = pc[r]
    BY <1>2
  <2> QED BY <1>1, <1>4, <2>1 DEF BucketInv, OriginInv
<1>8. \A j \in Key : \A m \in members[j] : m \in members'[j] \/ m[2] + Window[j] <= clock'
  BY <1>1, <1>3, Ranges DEF Evicted, Known, ScoresInv
<1>9. KeptInv'
  BY <1>0, <1>1, <1>8 DEF BucketInv, KeptInv, FailedWithin
<1>10. EnteredInv'
  <2> SUFFICES ASSUME NEW j \in Key, NEW r \in Entered(j),
                      ~FailedWithin(j, now[r] - Window[j] - MaxLag, now[r] + MaxLag)
               PROVE  Entry(r) \in members'[j] \/ now[r] + Window[j] <= clock'
    BY <1>0, <1>1, <1>5 DEF EnteredInv, FailedWithin
  <2>1. CASE Entry(r) \in members[j]
    <3>1. Entry(r)[2] = now[r]
      OBVIOUS
    <3> HIDE DEF Entry
    <3> QED BY <1>8, <2>1, <3>1
  <2>2. CASE now[r] + Window[j] <= clock
    BY <1>1, <2>2
  <2> QED BY <2>1, <2>2 DEF BucketInv, EnteredInv
<1>11. SettledInv'
  BY <1>0, <1>1, <1>4, <1>5 DEF BucketInv, SettledInv
<1>12. AheadInv'
  <2> SUFFICES ASSUME NEW j \in Key, deadline'[j] # NoTTL, Evicting(j)' # {}
               PROVE  \/ \E r \in Evicting(j)' : now[r] + Grace < deadline[j]
                      \/ \E r \in Evicting(j)', x \in Failed(j)' : now[r] - Window[j] < now[x]
    BY <1>1, <1>4 DEF AheadInv
  <2>1. CASE Evicting(j) # {}
    BY <1>0, <1>4, <1>6, <2>1 DEF BucketInv, AheadInv
  <2>2. CASE Evicting(j) = {}
    <3>1. j = k /\ q \in Evicting(j)'
      BY <1>1, <1>2, <2>2 DEF Evicting
    <3>2. PICK m \in members'[k] : TRUE
      BY <1>3, <3>1
    <3>3. m \in members[k] /\ m[2] > now[q] - Window[k]
      BY <1>3, <3>2 DEF Evicted
    <3>4. Entered(j) = {}
      BY <2>2 DEF Entered, Evicting
    <3>5. m[2] + Window[k] + Grace <= deadline[k] \/ \E x \in Failed(k) : m = Entry(x)
      BY <1>1, <1>4, <3>1, <3>3, <3>4 DEF BucketInv, SettledInv
    <3>6. m[2] \in Int /\ now[q] \in Int /\ Window[k] \in Int /\ Grace \in Int /\ deadline[k] \in Int
      BY <1>1, <3>3, Ranges DEF Known
    <3>7. CASE m[2] + Window[k] + Grace <= deadline[k]
      <4> HIDE DEF k
      <4> QED BY <3>1, <3>3, <3>6, <3>7
    <3>8. CASE \E x \in Failed(k) : m = Entry(x)
      <4>1. PICK x \in Failed(k) : m[2] = now[x]
        BY <3>8
      <4>2. now[q] - Window[k] < now[x] /\ x \in Req
        BY <1>0, <1>1, <3>3, <3>6, <4>1
      <4>3. x \in Failed(j)'
        BY <1>0, <3>1, <4>1
      <4> HIDE DEF k
      <4> QED BY <3>1, <4>2, <4>3
    <3> QED BY <3>5, <3>7, <3>8
  <2> QED BY <2>1, <2>2
<1> QED BY <1>7, <1>9, <1>10, <1>11, <1>12 DEF BucketInv

\* A new member is that of a check whose EXPIRE is to come.
LEMMA AddBucketStep ==
  ASSUME Known, BucketInv, NEW q \in Req, Add(q) PROVE BucketInv'
<1> DEFINE k == KeyOf(q)
<1>0. \A j \in Key : /\ Failed(j) \subseteq Failed(j)'
                     /\ \A x \in Failed(j) : x \in Req /\ now'[x] = now[x]
  BY FailedStays DEF Next, Check, Known
<1>1. k \in Key /\ admitted' = admitted /\ clock' = clock /\ tier' = tier /\ now' = now
  BY Ranges DEF Add, Known
<1>2. pc[q] = "add" /\ pc' = [pc EXCEPT ![q] = "expire"] /\ DOMAIN pc = Req
  BY DEF Add, Goto, Known, TypeInv, TypeOK
<1>3. /\ members'[k] = members[k] \cup {Entry(q)}
      /\ \A j \in Key : j # k => members'[j] = members[j]
      /\ \A j \in Key : deadline'[j] = deadline[j]
  BY Ranges DEF Add, Store, Known, TypeInv, TypeOK
<1>4. q \in Entered(k)' /\ \A j \in Key : Entered(j) \subseteq Entered(j)'
  BY <1>1, <1>2 DEF Entered
<1>5. \A j \in Key : Evicting(j)' = Evicting(j)
  BY <1>1, <1>2 DEF Evicting
<1>6. OriginInv'
  <2>1. \A r \in Req : pc[r] \in {"expire", "rem", "error"} => pc'[r] = pc[r]
    BY <1>2
  <2>2. pc'[q] = "expire"
    BY <1>2
  <2> QED BY <1>1, <1>3, <2>1, <2>2 DEF BucketInv, OriginInv
<1>7. KeptInv'
  BY <1>0, <1>1, <1>3 DEF BucketInv, KeptInv, FailedWithin
<1>8. EnteredInv'
  <2>1. \A j \in Key : \A r \in Entered(j)' : r \in Entered(j) \/ (r = q /\ j = k)
    BY <1>1, <1>2 DEF Entered
  <2> QED BY <1>0, <1>1, <1>3, <2>1 DEF BucketInv, EnteredInv, FailedWithin
<1>9. SettledInv'
  BY <1>0, <1>1, <1>3, <1>4 DEF BucketInv, SettledInv
<1>10. AheadInv'
  BY <1>0, <1>1, <1>3, <1>5 DEF BucketInv, AheadInv
<1> QED BY <1>6, <1>7, <1>8, <1>9, <1>10 DEF BucketInv

\* EXPIRE renews the TTL beyond every member, and decides on the member of the check.
LEMMA ExpireBucketStep ==
  ASSUME Known, BucketInv, NEW q \in Req, Expire(q) PROVE BucketInv'
<1> DEFINE k == KeyOf(q)
<1>0. \A j \in Key : /\ Failed(j) \subseteq Failed(j)'
                     /\ \A x \in Failed(j) : x \in Req /\ now'[x] = now[x]
  BY FailedStays DEF Next, Check, Known
<1>1. k \in Key /\ members' = members /\ clock' = clock /\ now' = now /\ pc[q] = "expire"
  BY Ranges DEF Expire, Known
<1>2. /\ pc'[q] \in {"rem", "enter", "allowed"}
      /\ pc'[q] = "rem" => tier'[q] = tier[q] /\ admitted' = admitted
      /\ pc'[q] # "rem" => Entry(q) \in admitted'[k]
  BY <1>1 DEF Expire, Goto, Known, TypeInv, TypeOK
<1>3. \A s \in Req : s # q => pc'[s] = pc[s] /\ tier'[s] = tier[s]
  BY OthersStay DEF Check, Known, TypeInv
<1>4. /\ deadline'[k] = IF members[k] = {} THEN NoTTL ELSE clock + Window[k] + Grace
      /\ \A j \in Key : j # k => deadline'[j] = deadline[j]
  BY <1>1 DEF Expire, Renew, Known, TypeInv, TypeOK
<1>5. \A j \in Key : /\ admitted[j] \subseteq admitted'[j]
                     /\ admitted'[j] \subseteq admitted[j] \cup {Entry(q)}
                     /\ j # k => admitted'[j] = admitted[j]
  BY OwnBucket DEF Check, Known
<1>6. \A j \in Key : Entered(j)' = Entered(j) \ {q} /\ Evicting(j)' = Evicting(j) \ {q}
  BY <1>2, <1>3 DEF Entered, Evicting
<1>7. \A j \in Key : j # k => q \notin Entered(j) /\ q \notin Evicting(j)
  BY DEF Entered, Evicting
<1>8. OriginInv'
  <2> SUFFICES ASSUME NEW j \in Key, NEW m \in members[j], m \notin admitted'[j]
               PROVE  \E r \in Req : pc'[r] \in {"expire", "rem", "error"} /\ KeyOf(r)' = j /\ m = Entry(r)
    BY <1>1 DEF OriginInv
  <2>1. m \notin admitted[j]
    BY <1>5
  <2>2. PICK r \in Req : pc[r] \in {"expire", "rem", "error"} /\ KeyOf(r) = j /\ m = Entry(r)
    BY <2>1 DEF BucketInv, OriginInv
  <2> QED BY <1>2, <1>3, <2>2
<1>9. KeptInv'
  <2> SUFFICES ASSUME NEW j \in Key, NEW m \in admitted'[j]
               PROVE  \/ m \in members[j]
                      \/ m[2] + Window[j] <= clock
                      \/ FailedWithin(j, m[2] - Window[j] - MaxLag, m[2] + MaxLag)
    BY <1>0, <1>1 DEF KeptInv, FailedWithin
  <2>1. CASE m \in admitted[j]
    BY <2>1 DEF BucketInv, KeptInv
  <2>2. CASE m \notin admitted[j]
    BY <1>1, <1>5, <2>2 DEF BucketInv, EnteredInv, Entered
  <2> QED BY <2>1, <2>2
<1>10. EnteredInv'
  BY <1>0, <1>1, <1>6 DEF BucketInv, EnteredInv, FailedWithin
<1>11. SettledInv'
  <2> SUFFICES ASSUME NEW j \in Key, deadline'[j] # NoTTL, NEW m \in members[j]
               PROVE  \/ m[2] + Window[j] + Grace <= deadline'[j]
                      \/ \E r \in Entered(j)' \cup Failed(j)' : m = Entry(r)
    BY <1>1 DEF SettledInv
  <2>1. CASE j = k
    <3>1. m[2] <= clock
      BY DEF Known, ScoresInv
    <3> QED BY <1>1, <1>4, <2>1, <3>1, Ranges DEF Known
  <2>2. CASE j # k
    BY <1>0, <1>4, <1>6, <1>7, <2>2 DEF BucketInv, SettledInv
  <2> QED BY <2>1, <2>2
<1>12. AheadInv'
  <2> SUFFICES ASSUME NEW j \in Key, deadline'[j] # NoTTL, Evicting(j)' # {}
               PROVE  \/ \E r \in Evicting(j)' : now[r] + Grace < deadline'[j]
                      \/ \E r \in Evicting(j)', x \in Failed(j)' : now[r] - Window[j] < now[x]
    BY <1>1 DEF AheadInv
  <2>1. CASE j = k
    <3>1. PICK r \in Evicting(j)' : TRUE
      OBVIOUS
    <3>2. r \in Req
      BY <3>1 DEF Evicting
    <3>3. now[r] <= clock /\ now[r] \in Int
      BY <3>2, Ranges DEF Known, ScoresInv
    <3>4. deadline'[k] = clock + Window[k] + Grace
      BY <1>4, <2>1
    <3>5. Window[k] \in Nat \ {0} /\ Grace \in Nat /\ clock \in Int
      BY <1>1, Ranges DEF Known
    <3>6. now[r] + Grace < deadline'[k]
      BY <3>3, <3>4, <3>5
    <3> QED BY <2>1, <3>6
  <2>2. CASE j # k
    BY <1>0, <1>4, <1>6, <1>7, <2>2 DEF BucketInv, AheadInv
  <2> QED BY <2>1, <2>2
<1> QED BY <1>8, <1>9, <1>10, <1>11, <1>12 DEF BucketInv

\* ZREM takes the member of a check that was refused, and nobody else's.
LEMMA RemBucketStep ==
  ASSUME Known, BucketInv, NEW q \in Req, Rem(q) PROVE BucketInv'
<1> DEFINE k == KeyOf(q)
<1>0. \A j \in Key : /\ Failed(j) \subseteq Failed(j)'
                     /\ \A x \in Failed(j) : x \in Req /\ now'[x] = now[x]
  BY FailedStays DEF Next, Check, Known
<1>1. k \in Key /\ admitted' = admitted /\ clock' = clock /\ tier' = tier /\ now' = now
  BY Ranges DEF Rem, Known
<1>2. pc[q] = "rem" /\ pc' = [pc EXCEPT ![q] = "denied"] /\ DOMAIN pc = Req
  BY DEF Rem, Goto, Known, TypeInv, TypeOK
<1>3. /\ members'[k] = members[k] \ {Entry(q)}
      /\ \A j \in Key : j # k => members'[j] = members[j]
      /\ \A j \in Key : deadline'[j] # NoTTL => deadline'[j] = deadline[j]
  BY Ranges DEF Rem, Store, Known, TypeInv, TypeOK
<1>4. \A j \in Key : Entered(j)' = Entered(j) /\ Evicting(j)' = Evicting(j)
  BY <1>1, <1>2 DEF Entered, Evicting
<1>5. OriginInv'
  <2> SUFFICES ASSUME NEW j \in Key, NEW m \in members'[j], m \notin admitted[j]
               PROVE  \E r \in Req : pc'[r] \in {"expire", "rem", "error"} /\ KeyOf(r) = j /\ m = Entry(r)
    BY <1>1 DEF OriginInv
  <2>1. PICK r \in Req : pc[r] \in {"expire", "rem", "error"} /\ KeyOf(r) = j /\ m = Entry(r)
    BY <1>3 DEF BucketInv, OriginInv
  <2>2. r # q
    BY <1>3, <2>1
  <2> QED BY <1>2, <2>1, <2>2
<1>6. KeptInv'
  <2>1. \A m \in admitted[k] : m # Entry(q)
    BY <1>2, NotYetAdmitted DEF Known
  <2> QED BY <1>0, <1>1, <1>3, <2>1 DEF BucketInv, KeptInv, FailedWithin
<1>7. EnteredInv'
  <2>1. \A j \in Key : \A r \in Entered(j) : Entry(r) # Entry(q)
    BY <1>2 DEF Entered
  <2> HIDE DEF Entry
  <2> QED BY <1>0, <1>1, <1>3, <1>4, <2>1 DEF BucketInv, EnteredInv, Entry, FailedWithin
<1>8. SettledInv'
  BY <1>0, <1>1, <1>3, <1>4 DEF BucketInv, SettledInv
<1>9. AheadInv'
  BY <1>0, <1>1, <1>3, <1>4 DEF BucketInv, AheadInv
<1> QED BY <1>5, <1>6, <1>7, <1>8, <1>9 DEF BucketInv

\* A check that is broken off leaves its member at most, and takes no other with it.
LEMMA RaiseBucketStep ==
  ASSUME LagFits, Known, BucketInv, NEW q \in Req, Raise(q) PROVE BucketInv'
<1> DEFINE k == KeyOf(q)
<1>0. \A j \in Key : /\ Failed(j) \subseteq Failed(j)'
                     /\ \A x \in Failed(j) : x \in Req /\ now'[x] = now[x]
  BY FailedStays DEF Next, Known
<1>1. k \in Key /\ admitted' = admitted /\ clock' = clock /\ tier' = tier /\ now' = now
  BY Ranges DEF Raise, Known
<1>2. /\ pc[q] \in Running \ {"enter"} /\ pc' = [pc EXCEPT ![q] = "error"] /\ DOMAIN pc = Req
      /\ pc[q] # "allowed"
  BY DEF Raise, Goto, Known, TypeInv, TypeOK
<1>3. /\ \A j \in Key : members'[j] \subseteq members[j]
      /\ \A j \in Key : \A m \in members[j] :
           m \in members'[j] \/ (j = k /\ m = Entry(q) /\ pc[q] = "rem")
      /\ \A j \in Key : j # k => deadline'[j] = deadline[j]
      /\ deadline'[k] \in {NoTTL, deadline[k], clock + Window[k] + Grace}
  <2>1. CASE UNCHANGED <<members, deadline>>
    BY <2>1
  <2>2. CASE Renew(k) /\ UNCHANGED members
    BY <1>1, <2>2 DEF Renew, Known, TypeInv, TypeOK
  <2>3. CASE pc[q] = "rem" /\ Store(k, members[k] \ {Entry(q)})
    BY <1>1, <2>3 DEF Store, Known, TypeInv, TypeOK
  <2> QED BY <2>1, <2>2, <2>3 DEF Raise
<1>4. \A j \in Key : /\ Entered(j)' = Entered(j) \ {q}
                     /\ Evicting(j)' = Evicting(j) \ {q}
                     /\ j = k => q \in Failed(j)'
  BY <1>1, <1>2 DEF Entered, Evicting, Failed
<1>5. \A j \in Key : j # k => q \notin Entered(j) /\ q \notin Evicting(j)
  BY DEF Entered, Evicting
<1>6. OriginInv'
  <2>1. \A r \in Req : pc[r] \in {"expire", "rem", "error"} =>
                     pc'[r] \in {"expire", "rem", "error"}
    BY <1>2
  <2> QED BY <1>1, <1>3, <2>1 DEF BucketInv, OriginInv
<1>7. KeptInv'
  <2>1. \A m \in admitted[k] : m # Entry(q)
    BY <1>2, NotYetAdmitted DEF Known
  <2>2. \A j \in Key : \A m \in admitted[j] : m \in members[j] => m \in members'[j]
    BY <1>3, <2>1
  <2> QED BY <1>0, <1>1, <2>2 DEF BucketInv, KeptInv, FailedWithin
<1>8. EnteredInv'
  <2>1. \A j \in Key : \A r \in Entered(j)' : r \in Entered(j) /\ Entry(r) # Entry(q)
    BY <1>4
  <2>2. \A j \in Key : \A r \in Entered(j)' : Entry(r) \in members[j] => Entry(r) \in members'[j]
    <3> HIDE DEF Entry
    <3> QED BY <1>3, <2>1
  <2> QED BY <1>0, <1>1, <2>1, <2>2 DEF BucketInv, EnteredInv, FailedWithin
<1>9. \A m \in members[k] : m[2] + Window[k] + Grace <= clock + Window[k] + Grace
  <2>1. \A m \in members[k] : m[2] <= clock
    BY <1>1 DEF Known, ScoresInv
  <2> QED BY <1>1, <2>1, Ranges DEF Known
<1>10. SettledInv'
  <2> SUFFICES ASSUME NEW j \in Key, deadline'[j] # NoTTL, NEW m \in members'[j]
               PROVE  \/ m[2] + Window[j] + Grace <= deadline'[j]
                      \/ \E r \in Entered(j)' \cup Failed(j)' : m = Entry(r)
    BY <1>1 DEF SettledInv
  <2>1. m \in members[j]
    BY <1>3
  <2>2. CASE deadline'[j] = deadline[j]
    BY <1>0, <1>4, <1>5, <2>1, <2>2 DEF BucketInv, SettledInv
  <2>3. CASE j = k /\ deadline'[j] = clock + Window[k] + Grace
    BY <1>9, <2>1, <2>3
  <2> QED BY <1>3, <2>2, <2>3
\* No check is a window ahead of the one that was broken off.
<1>11. \A r \in Req : now[r] - Window[k] < now[q]
  <2> SUFFICES ASSUME NEW r \in Req PROVE now[r] - Window[k] < now[q]
    OBVIOUS
  <2>1. now[r] \in Int /\ now[r] <= clock
    BY Ranges DEF Known, ScoresInv
  <2>2. clock - now[q] <= MaxLag /\ MaxLag < Window[k]
    BY <1>1, <1>2 DEF Known, ScoresInv, Active, LagFits
  <2>3. now[q] \in Int /\ clock \in Int /\ MaxLag \in Int /\ Window[k] \in Int
    BY <1>1, Ranges DEF Known
  <2> HIDE DEF k
  <2> QED BY <2>1, <2>2, <2>3
<1>12. AheadInv'
  <2> SUFFICES ASSUME NEW j \in Key, deadline'[j] # NoTTL, Evicting(j)' # {}
               PROVE  \/ \E r \in Evicting(j)' : now[r] + Grace < deadline'[j]
                      \/ \E r \in Evicting(j)', x \in Failed(j)' : now[r] - Window[j] < now[x]
    BY <1>1 DEF AheadInv
  <2>1. CASE j = k
    <3>1. q \in Failed(j)'
      BY <1>4, <2>1
    <3>2. PICK r \in Evicting(j)' : TRUE
      OBVIOUS
    <3>3. r \in Req
      BY <1>4, <3>2 DEF Evicting
    <3>4. now[r] - Window[j] < now[q]
      BY <1>11, <2>1, <3>3
    <3> QED BY <3>1, <3>2, <3>4
  <2>2. CASE j # k
    BY <1>0, <1>3, <1>4, <1>5, <2>2 DEF BucketInv, AheadInv
  <2> QED BY <2>1, <2>2
<1> QED BY <1>6, <1>7, <1>8, <1>10, <1>12 DEF BucketInv

\* When the TTL of a bucket ends, what it admitted has left its window, as no check takes
\* longer than what EXPIRE adds to the window; whoever has evicted from it and not
\* renewed the TTL owes that to a failed check.
LEMMA DueBuckets ==
  ASSUME LagFits, Known, BucketInv, Tick,
         NEW k \in Key, deadline[k] # NoTTL, deadline[k] <= clock + 1
  PROVE  /\ \A r \in Evicting(k) :
              FailedWithin(k, now[r] - Window[k] - MaxLag, now[r] + MaxLag)
         /\ \A m \in members[k] \cap admitted[k] : m[2] + Window[k] + Grace <= clock + 1
<1>1. /\ clock \in Int /\ deadline[k] \in Int /\ Window[k] \in Nat /\ Grace \in Nat
      /\ MaxLag \in Nat /\ MaxLag <= Grace /\ \A r \in Req : now[r] \in Int /\ now[r] <= clock
  BY Ranges DEF Known, ScoresInv, LagFits
<1>2. \A r \in Evicting(k) : r \in Req /\ clock - now[r] < MaxLag
  BY DEF Tick, Evicting, Active
<1>3. ASSUME NEW r \in Evicting(k)
      PROVE  FailedWithin(k, now[r] - Window[k] - MaxLag, now[r] + MaxLag)
  <2>1. \A s \in Evicting(k) : ~(now[s] + Grace < deadline[k])
    BY <1>1, <1>2
  <2>2. PICK s \in Evicting(k), x \in Failed(k) : now[s] - Window[k] < now[x]
    BY <1>3, <2>1 DEF BucketInv, AheadInv
  <2>3. x \in Req
    BY DEF Failed
  <2>4. now[r] - Window[k] - MaxLag < now[x] /\ now[x] <= now[r] + MaxLag
    BY <1>1, <1>2, <2>2, <2>3
  <2> QED BY <2>4 DEF FailedWithin
<1>4. ASSUME NEW m \in members[k] \cap admitted[k] PROVE m[2] + Window[k] + Grace <= clock + 1
  <2>1. ASSUME NEW r \in Entered(k) \cup Failed(k) PROVE m # Entry(r)
    <3>1. r \in Req /\ pc[r] # "allowed" /\ KeyOf(r) = k
      BY DEF Entered, Failed
    <3> QED BY <3>1, NotYetAdmitted DEF Known
  <2>2. m[2] + Window[k] + Grace <= deadline[k]
    BY <2>1 DEF BucketInv, SettledInv
  <2>3. m[2] \in Int
    BY Ranges DEF Known
  <2> QED BY <1>1, <2>2, <2>3
<1> QED BY <1>3, <1>4

\* So a bucket expires with nothing in it that counts.
LEMMA TickBucketStep ==
  ASSUME LagFits, Known, Known', BucketInv, Tick PROVE BucketInv'
<1> DEFINE due == {k \in Key : deadline[k] # NoTTL /\ deadline[k] <= clock + 1}
<1>1. /\ clock' = clock + 1 /\ clock \in Int /\ pc' = pc /\ tier' = tier /\ now' = now
      /\ admitted' = admitted
  BY Ranges DEF Tick, Known
<1>2. \A k \in Key : IF k \in due THEN members'[k] = {} /\ deadline'[k] = NoTTL
                     ELSE members'[k] = members[k] /\ deadline'[k] = deadline[k]
  BY DEF Tick
<1>3. \A k \in Key : /\ Entered(k)' = Entered(k) /\ Evicting(k)' = Evicting(k)
                     /\ Failed(k)' = Failed(k)
  BY <1>1 DEF Entered, Evicting, Failed
<1>4. \A k \in due : \A r \in Entered(k) :
        FailedWithin(k, now[r] - Window[k] - MaxLag, now[r] + MaxLag)
  BY DueBuckets DEF Entered, Evicting
<1>5. ASSUME NEW k \in due, NEW m \in members[k] \cap admitted[k]
      PROVE  m[2] + Window[k] <= clock + 1
  <2>1. m[2] + Window[k] + Grace <= clock + 1
    BY DueBuckets
  <2>2. m[2] \in Int /\ Window[k] \in Int /\ Grace \in Nat
    BY Ranges DEF Known
  <2> QED BY <1>1, <2>1, <2>2
<1>6. OriginInv'
  BY <1>1, <1>2 DEF BucketInv, OriginInv
<1>7. KeptInv'
  <2> SUFFICES ASSUME NEW k \in Key, NEW m \in admitted[k],
                      ~FailedWithin(k, m[2] - Window[k] - MaxLag, m[2] + MaxLag)
               PROVE  m \in members'[k] \/ m[2] + Window[k] <= clock + 1
    BY <1>1, <1>3 DEF KeptInv, FailedWithin
  <2>1. CASE m[2] + Window[k] <= clock
    BY <1>1, <2>1, Ranges DEF Known
  <2> QED BY <1>2, <1>5, <2>1 DEF BucketInv, KeptInv
<1>8. EnteredInv'
  <2> SUFFICES ASSUME NEW k \in Key, NEW r \in Entered(k),
                      ~FailedWithin(k, now[r] - Window[k] - MaxLag, now[r] + MaxLag)
               PROVE  Entry(r) \in members'[k] \/ now[r] + Window[k] <= clock + 1
    BY <1>1, <1>3 DEF EnteredInv, FailedWithin
  <2>1. k \notin due
    BY <1>4
  <2>2. now[r] \in Int /\ Window[k] \in Int
    BY Ranges DEF Known, Entered
  <2> QED BY <1>1, <1>2, <2>1, <2>2 DEF BucketInv, EnteredInv
<1>9. SettledInv'
  BY <1>1, <1>2, <1>3 DEF BucketInv, SettledInv
<1>10. AheadInv'
  BY <1>1, <1>2, <1>3 DEF BucketInv, AheadInv
<1> QED BY <1>6, <1>7, <1>8, <1>9, <1>10 DEF BucketInv

LEMMA BucketStep ==
  ASSUME LagFits, Known, Known', BucketInv, [Next]_vars PROVE BucketInv'
<1>1. CASE UNCHANGED vars
  BY <1>1 DEF vars, BucketInv, OriginInv, KeptInv, EnteredInv, SettledInv, AheadInv,
              Entered, Evicting, Failed, FailedWithin
<1> QED BY <1>1, QuietBucketStep, EvictBucketStep, AddBucketStep, ExpireBucketStep,
           RemBucketStep, RaiseBucketStep, TickBucketStep DEF Next, Check

LEMMA BucketInit == Init => BucketInv
BY DEF Init, BucketInv, OriginInv, KeptInv, EnteredInv, SettledInv, AheadInv,
       Entered, Evicting

\* Once nobody is being checked, a bucket holds what it admitted in the current window and
\* nothing it refused, however many checks overlapped: the clean-up of ZREM and
\* the TTL of EXPIRE (rate_limit.py:80-93) leave no trace of a refusal and lose nothing, as
\* long as no check takes longer than what EXPIRE adds to the window.  A call that raised
\* leaves one member too many, and may cost the bucket the members of checks that came
\* at most a window after it.
THEOREM QuietBucketsAreExact == ASSUME LagFits PROVE Spec => []QuietBucketsExact
<1>1. Init => Known /\ BucketInv
  BY KnownInit, BucketInit
<1>2. Known /\ BucketInv /\ [Next]_vars => Known' /\ BucketInv'
  BY KnownStep, BucketStep
<1>3. Known /\ BucketInv => QuietBucketsExact
  <2> SUFFICES ASSUME Known, BucketInv, Active = {}, NEW k \in Key
               PROVE  /\ members[k] \subseteq admitted[k] \cup {Entry(x) : x \in Failed(k)}
                      /\ \A m \in InWindow(admitted[k], k, clock) :
                           \/ m \in members[k]
                           \/ FailedWithin(k, m[2] - Window[k] - MaxLag, m[2] + MaxLag)
    BY DEF QuietBucketsExact
  <2>1. \A r \in Req : pc[r] \notin {"expire", "rem"}
    BY DEF Active
  <2>2. \A m \in InWindow(admitted[k], k, clock) : ~(m[2] + Window[k] <= clock)
    BY Ranges DEF InWindow, Known
  <2>3. members[k] \subseteq admitted[k] \cup {Entry(x) : x \in Failed(k)}
    BY <2>1 DEF BucketInv, OriginInv, Failed
  <2> QED BY <2>2, <2>3 DEF BucketInv, KeptInv, InWindow
<1> QED BY <1>1, <1>2, <1>3, PTL DEF Spec

-----------------------------------------------------------------------------
(* Checks that come one at a time.                                         *)

\* What was admitted in the window of the running check is in its bucket, alone after the
\* eviction, and the count is theirs.
SoloInvOf(r) ==
  LET k      == KeyOf(r)
      recent == InWindow(admitted[k], k, now[r])
  IN  /\ pc[r] \in Running \ {"enter"} =>
           \A j \in Key : \A m \in admitted[j] : m[2] <= now[r]
      /\ pc[r] \in {"evict", "card"} =>
           \A m \in admitted[k] : m \in members[k] \/ m[2] + Window[k] <= now[r]
      /\ pc[r] = "card" => members[k] \subseteq recent
      /\ pc[r] \in {"add", "expire"} => count[r] = Cardinality(recent)
      /\ pc[r] \in {"rem", "denied"} =>
           count[r] <= Cardinality(recent) /\ count[r] >= Limit[k]

SoloInv ==
  ~disturbed =>
    /\ \A r \in Req : pc[r] # "error"
    /\ \A r, s \in Active : r = s
    /\ \A r \in Req : SoloInvOf(r)

\* Numbers of admitted members are natural numbers, and grow with what is counted.
LEMMA RecentGrows ==
  ASSUME TypeInv, NEW k \in Key, NEW t, NEW S, NEW T, IsFiniteSet(T), S \subseteq T
  PROVE  /\ InWindow(S, k, t) \subseteq InWindow(T, k, t)
         /\ Cardinality(InWindow(S, k, t)) \in Nat
         /\ Cardinality(InWindow(S, k, t)) <= Cardinality(InWindow(T, k, t))
<1>1. InWindow(S, k, t) \subseteq InWindow(T, k, t) /\ InWindow(T, k, t) \subseteq T
  BY DEF InWindow
<1>2. IsFiniteSet(InWindow(T, k, t)) /\ IsFiniteSet(InWindow(S, k, t))
  BY <1>1, FS_Subset
<1> QED BY <1>1, <1>2, FS_Subset, FS_CardinalityType

\* A request that was refused stays so, and what its bucket admitted is not forgotten.
LEMMA SoloOthers ==
  ASSUME Known, Known', NEW q \in Req, Arrive(q) \/ Check(q),
         NEW r \in Req, r # q, pc[r] \notin Running, SoloInvOf(r)
  PROVE  SoloInvOf(r)'
<1>1. /\ pc'[r] = pc[r] /\ tier'[r] = tier[r] /\ now'[r] = now[r] /\ count'[r] = count[r]
  BY OthersStay DEF Known, TypeInv
<1>2. KeyOf(r) \in Key /\ KeyOf(r)' = KeyOf(r)
  BY <1>1, Ranges DEF Known
<1>3. admitted[KeyOf(r)] \subseteq admitted'[KeyOf(r)] /\ IsFiniteSet(admitted'[KeyOf(r)])
  BY <1>2, OwnBucket DEF Known, TypeInv, SizesInv
<1> DEFINE old == Cardinality(InWindow(admitted[KeyOf(r)], KeyOf(r), now[r]))
           new == Cardinality(InWindow(admitted'[KeyOf(r)], KeyOf(r), now[r]))
<1>4. old \in Nat /\ old <= new
  BY <1>2, <1>3, RecentGrows DEF Known
<1>5. new \in Nat
  BY <1>2, <1>3, RecentGrows DEF Known
<1>6. count[r] \in Nat
  BY DEF Known, TypeInv, TypeOK
<1>7. pc[r] = "denied" => count[r] <= old /\ count[r] >= Limit[KeyOf(r)]
  BY DEF SoloInvOf
<1>8. pc[r] = "denied" => count[r] <= new /\ count[r] >= Limit[KeyOf(r)]
  <2> HIDE DEF old, new
  <2> QED BY <1>4, <1>5, <1>6, <1>7
<1> QED BY <1>1, <1>2, <1>8 DEF SoloInvOf

LEMMA SoloArrive ==
  ASSUME Known, Known', NEW q \in Req, Arrive(q), ~disturbed' PROVE SoloInvOf(q)'
<1>1. pc'[q] = "enter"
  BY DEF Arrive, Goto, Known, TypeInv, TypeOK
<1> QED BY <1>1 DEF SoloInvOf

\* The clock is read: nothing admitted is younger, and what is of the window is there.
LEMMA SoloEnter ==
  ASSUME Known, Known', BucketInv, NEW q \in Req, Enter(q), \A r \in Req : pc[r] # "error"
  PROVE  SoloInvOf(q)'
<1>1. pc'[q] = "evict" /\ now'[q] = clock
  BY DEF Enter, Goto, Known, TypeInv, TypeOK
<1>2. admitted' = admitted /\ members' = members /\ tier' = tier /\ KeyOf(q) \in Key
  BY Ranges DEF Enter, Known
<1>3. \A j \in Key : \A m \in admitted[j] : m[2] <= clock
  BY DEF Known, ScoresInv
<1>4. \A m \in admitted[KeyOf(q)] : m \in members[KeyOf(q)] \/ m[2] + Window[KeyOf(q)] <= clock
  BY <1>2 DEF BucketInv, KeptInv, FailedWithin, Failed
<1> QED BY <1>1, <1>2, <1>3, <1>4 DEF SoloInvOf

\* The eviction leaves what was admitted in the window: nobody else has a member there.
LEMMA SoloEvict ==
  ASSUME Known, Known', BucketInv, NEW q \in Req, Evict(q), SoloInvOf(q),
         \A r \in Active : r = q, \A r \in Req : pc[r] # "error"
  PROVE  SoloInvOf(q)'
<1> DEFINE k == KeyOf(q)
<1>1. k \in Key /\ admitted' = admitted /\ tier' = tier /\ now' = now /\ pc[q] = "evict"
  BY Ranges DEF Evict, Known
<1>2. pc'[q] = "card"
  BY DEF Evict, Goto, Known, TypeInv, TypeOK
<1>3. members'[k] = Evicted(k, now[q])
  BY <1>1 DEF Evict, Store, Known, TypeInv, TypeOK
<1>4. /\ \A j \in Key : \A m \in admitted[j] : m[2] <= now[q]
      /\ \A m \in admitted[k] : m \in members[k] \/ m[2] + Window[k] <= now[q]
  BY <1>1 DEF SoloInvOf
<1>5. members[k] \subseteq admitted[k]
  <2>1. \A r \in Req : pc[r] \notin {"expire", "rem"}
    BY <1>1 DEF Active
  <2> QED BY <1>1, <2>1 DEF BucketInv, OriginInv
<1>6. \A m \in admitted[k] : m[2] \in Int /\ now[q] \in Int /\ Window[k] \in Int
  BY <1>1, Ranges DEF Known
<1>7. members'[k] \subseteq InWindow(admitted[k], k, now[q])
  BY <1>1, <1>3, <1>4, <1>5, <1>6 DEF Evicted, InWindow
<1>8. \A m \in admitted[k] : m \in members'[k] \/ m[2] + Window[k] <= now[q]
  BY <1>1, <1>3, <1>4, <1>6 DEF Evicted
<1> QED BY <1>1, <1>2, <1>4, <1>7, <1>8 DEF SoloInvOf

\* ZCARD counts them.
LEMMA SoloCard ==
  ASSUME Known, Known', NEW q \in Req, Card(q), SoloInvOf(q) PROVE SoloInvOf(q)'
<1> DEFINE k == KeyOf(q)
<1>1. /\ k \in Key /\ admitted' = admitted /\ members' = members /\ tier' = tier /\ now' = now
      /\ pc[q] = "card"
  BY Ranges DEF Card, Known
<1>2. pc'[q] = "add" /\ count'[q] = Cardinality(members[k])
  BY DEF Card, Goto, Known, TypeInv, TypeOK
<1>3. /\ \A j \in Key : \A m \in admitted[j] : m[2] <= now[q]
      /\ \A m \in admitted[k] : m \in members[k] \/ m[2] + Window[k] <= now[q]
      /\ members[k] \subseteq InWindow(admitted[k], k, now[q])
  BY <1>1 DEF SoloInvOf
<1>4. \A m \in admitted[k] : m[2] \in Int /\ now[q] \in Int /\ Window[k] \in Int
  BY <1>1, Ranges DEF Known
<1>5. InWindow(admitted[k], k, now[q]) \subseteq members[k]
  BY <1>3, <1>4 DEF InWindow
<1>6. members[k] = InWindow(admitted[k], k, now[q])
  BY <1>3, <1>5
<1> QED BY <1>1, <1>2, <1>3, <1>6 DEF SoloInvOf

LEMMA SoloAdd ==
  ASSUME Known, Known', NEW q \in Req, Add(q), SoloInvOf(q) PROVE SoloInvOf(q)'
<1>1. /\ admitted' = admitted /\ tier' = tier /\ now' = now /\ count' = count
      /\ pc[q] = "add"
  BY DEF Add
<1>2. pc'[q] = "expire"
  BY DEF Add, Goto, Known, TypeInv, TypeOK
<1> QED BY <1>1, <1>2 DEF SoloInvOf

\* A check that is refused was refused on what its bucket admitted.
LEMMA SoloExpire ==
  ASSUME Known, Known', NEW q \in Req, Expire(q), SoloInvOf(q) PROVE SoloInvOf(q)'
<1>1. now' = now /\ count' = count /\ pc[q] = "expire"
  BY DEF Expire
<1>2. \/ pc'[q] \in {"enter", "allowed"}
      \/ pc'[q] = "rem" /\ tier' = tier /\ admitted' = admitted /\ Refused(q)
  BY DEF Expire, Goto, Known, TypeInv, TypeOK
<1>3. \A j \in Key : \A m \in admitted[j] : m[2] <= now[q]
  BY <1>1 DEF SoloInvOf
<1>4. count[q] = Cardinality(InWindow(admitted[KeyOf(q)], KeyOf(q), now[q]))
  BY <1>1 DEF SoloInvOf
<1>5. count[q] \in Nat
  BY DEF Known, TypeInv, TypeOK
<1>6. CASE pc'[q] \in {"enter", "allowed"}
  BY <1>6 DEF SoloInvOf
<1>7. CASE pc'[q] = "rem" /\ tier' = tier /\ admitted' = admitted /\ Refused(q)
  BY <1>1, <1>3, <1>4, <1>5, <1>7 DEF SoloInvOf, Refused
<1> QED BY <1>2, <1>6, <1>7

LEMMA SoloRem ==
  ASSUME Known, Known', NEW q \in Req, Rem(q), SoloInvOf(q) PROVE SoloInvOf(q)'
<1>1. /\ admitted' = admitted /\ tier' = tier /\ now' = now /\ count' = count
      /\ pc[q] = "rem"
  BY DEF Rem
<1>2. pc'[q] = "denied"
  BY DEF Rem, Goto, Known, TypeInv, TypeOK
<1> QED BY <1>1, <1>2 DEF SoloInvOf

\* The clock: a bucket that expires under a check had lost nothing that counts.
LEMMA SoloTick ==
  ASSUME LagFits, Known, Known', BucketInv, Tick, NEW q \in Req, SoloInvOf(q)
  PROVE  SoloInvOf(q)'
<1> DEFINE k == KeyOf(q)
<1>1. /\ clock \in Int /\ pc' = pc /\ tier' = tier /\ now' = now /\ count' = count
      /\ admitted' = admitted /\ k \in Key
      /\ pc[q] \in Running \ {"enter"} => clock - now[q] < MaxLag
  BY Ranges DEF Tick, Known, Active
<1>2. \/ members'[k] = members[k]
      \/ members'[k] = {} /\ deadline[k] # NoTTL /\ deadline[k] <= clock + 1
  BY <1>1 DEF Tick
<1>3. ASSUME pc[q] \in {"evict", "card"}, NEW m \in admitted[k]
      PROVE  m \in members'[k] \/ m[2] + Window[k] <= now[q]
  <2>1. m \in members[k] \/ m[2] + Window[k] <= now[q]
    BY <1>3 DEF SoloInvOf
  <2>2. CASE m \in members[k] /\ members'[k] = {} /\ deadline[k] # NoTTL /\ deadline[k] <= clock + 1
    <3>1. m[2] + Window[k] + Grace <= clock + 1
      BY <1>1, <1>3, <2>2, DueBuckets
    <3>2. clock - now[q] < MaxLag /\ MaxLag <= Grace
      BY <1>1, <1>3 DEF LagFits
    <3>3. m[2] \in Int /\ Window[k] \in Int /\ now[q] \in Int /\ Grace \in Int /\ MaxLag \in Int
      BY <1>1, Ranges DEF Known
    <3> HIDE DEF k
    <3> QED BY <1>1, <3>1, <3>2, <3>3
  <2> QED BY <1>2, <2>1, <2>2
<1>4. pc[q] = "card" => members'[k] \subseteq InWindow(admitted[k], k, now[q])
  BY <1>2 DEF SoloInvOf
<1> QED BY <1>1, <1>3, <1>4 DEF SoloInvOf

LEMMA SoloStep ==
  ASSUME LagFits, Known, Known', BucketInv, SoloInv, [Next]_vars PROVE SoloInv'
<1> SUFFICES ASSUME ~disturbed'
             PROVE  /\ \A r \in Req : pc'[r] # "error"
                    /\ \A r, s \in Active' : r = s
                    /\ \A r \in Req : SoloInvOf(r)'
  BY DEF SoloInv
<1>1. ~disturbed /\ \A q \in Req : ~Raise(q)
  <2>1. disturbed \in BOOLEAN
    BY DEF Known, TypeInv, TypeOK
  <2>2. \A q \in Req : ~Raise(q)
    BY DEF Raise
  <2>3. \A q \in Req : Arrive(q) => ~disturbed
    BY <2>1 DEF Arrive
  <2>4. \A q \in Req : Check(q) => disturbed' = disturbed
    BY DEF Check, Enter, Evict, Card, Add, Expire, Rem
  <2>5. Tick \/ UNCHANGED vars => disturbed' = disturbed
    BY DEF Tick, vars
  <2> QED BY <2>2, <2>3, <2>4, <2>5 DEF Next
<1>2. /\ \A r \in Req : pc[r] # "error"
      /\ \A r, s \in Active : r = s
      /\ \A r \in Req : SoloInvOf(r)
  BY <1>1 DEF SoloInv
<1>3. ASSUME NEW q \in Req, Arrive(q) \/ Check(q)
      PROVE  /\ \A r \in Req : pc'[r] # "error"
             /\ \A r, s \in Active' : r = s
             /\ \A r \in Req : SoloInvOf(r)'
  <2>1. pc'[q] # "error"
    BY <1>3 DEF Check, Arrive, Enter, Evict, Card, Add, Expire, Rem, Goto, Known, TypeInv, TypeOK
  <2>2. \A r \in Req : r # q => pc[r] \notin Running
    <3>1. CASE Arrive(q)
      BY <1>1, <3>1 DEF Arrive, Active
    <3>2. CASE Check(q)
      <4>1. q \in Active
        BY <3>2 DEF Check, Enter, Evict, Card, Add, Expire, Rem, Active
      <4> QED BY <1>2, <4>1 DEF Active
    <3> QED BY <1>3, <3>1, <3>2
  <2>3. \A r \in Req : r # q => pc'[r] = pc[r]
    BY <1>3, OthersStay DEF Known, TypeInv
  <2>4. \A r \in Req : pc'[r] # "error"
    BY <1>2, <2>1, <2>3
  <2>5. \A r, s \in Active' : r = s
    BY <2>2, <2>3 DEF Active
  <2>6. \A r \in Req : r # q => SoloInvOf(r)'
    BY <1>2, <1>3, <2>2, SoloOthers
  <2>7. \A r \in Active : r = q
    BY <2>2 DEF Active
  <2>8. SoloInvOf(q)'
    BY <1>2, <1>3, <2>7, SoloArrive, SoloEnter, SoloEvict, SoloCard, SoloAdd, SoloExpire, SoloRem
       DEF Check
  <2> QED BY <2>4, <2>5, <2>6, <2>8
<1>4. CASE Tick
  <2>1. pc' = pc
    BY <1>4 DEF Tick
  <2>2. (\A r \in Req : pc'[r] # "error") /\ \A r, s \in Active' : r = s
    BY <1>2, <2>1 DEF Active
  <2> QED BY <1>2, <1>4, <2>2, SoloTick
<1>5. CASE UNCHANGED vars
  BY <1>2, <1>5 DEF vars, Active, SoloInvOf
<1> QED BY <1>1, <1>3, <1>4, <1>5 DEF Next

LEMMA SoloInit == Init => SoloInv
BY DEF Init, SoloInv, SoloInvOf, Active

\* All of them hold in every reachable state.
LEMMA SoloInvariant == ASSUME LagFits PROVE Spec => [](Known /\ BucketInv /\ SoloInv)
<1>1. Init => Known /\ BucketInv /\ SoloInv
  BY KnownInit, BucketInit, SoloInit
<1>2. Known /\ BucketInv /\ SoloInv /\ [Next]_vars => (Known /\ BucketInv /\ SoloInv)'
  BY KnownStep, BucketStep, SoloStep
<1> QED BY <1>1, <1>2, PTL DEF Spec

\* Admission is that of the window, and everything else leaves the log alone.
LEMMA SlidingStep ==
  ASSUME Known, SoloInv, [Next]_vars PROVE [Log!Next]_Log!vars
<1> USE DEF Log!vars
<1>1. disturbed \in BOOLEAN
  BY DEF Known, TypeInv, TypeOK
<1>2. ASSUME NEW q \in Req, Arrive(q) \/ Raise(q) PROVE [Log!Next]_Log!vars
  <2>1. admitted' = admitted /\ (disturbed' = disturbed \/ disturbed' = TRUE)
    BY <1>1, <1>2 DEF Arrive, Raise
  <2> QED BY <1>1, <2>1 DEF Log!Next, Log!Disturb
<1>3. ASSUME NEW q \in Req, Check(q), ~Expire(q) PROVE [Log!Next]_Log!vars
  BY <1>3 DEF Check, Enter, Evict, Card, Add, Rem
<1>4. ASSUME NEW q \in Req, Expire(q) PROVE [Log!Next]_Log!vars
  <2> DEFINE k == KeyOf(q)
             recent == InWindow(admitted[k], k, now[q])
  <2>1. k \in Key /\ now[q] \in Time /\ count[q] \in Nat /\ Limit[k] \in Nat
    BY Ranges DEF Known, TypeInv, TypeOK
  <2>2. pc[q] = "expire" /\ disturbed' = disturbed
    BY <1>4 DEF Expire
  <2>3. CASE admitted' = admitted
    BY <2>2, <2>3
  <2>4. CASE ~Refused(q) /\ admitted' = [admitted EXCEPT ![k] = @ \cup {Entry(q)}]
    <3>1. \A m \in admitted[k] : m[1] # q
      BY <2>2, NotYetAdmitted DEF Known
    <3>2. ASSUME ~disturbed
          PROVE  /\ \A m \in admitted[k] : m[2] <= now[q]
                 /\ Cardinality(recent) < Limit[k]
      <4>1. SoloInvOf(q)
        BY <3>2 DEF SoloInv
      <4>2. \A m \in admitted[k] : m[2] <= now[q]
        BY <2>1, <2>2, <4>1 DEF SoloInvOf
      <4>3. count[q] = Cardinality(recent)
        BY <2>2, <4>1 DEF SoloInvOf
      <4>4. count[q] < Limit[k]
        BY <2>1, <2>4 DEF Refused
      <4> QED BY <4>2, <4>3, <4>4
    <3>3. Log!Recent(k, now[q]) = recent
      BY DEF Log!Recent, InWindow
    <3>4. Log!Cardinality(recent) = Cardinality(recent)
      BY DEF Cardinality, Log!Cardinality
    <3>5. Log!Admit(k, q, now[q])
      <4> HIDE DEF recent
      <4> QED BY <2>2, <2>4, <3>1, <3>2, <3>3, <3>4 DEF Log!Admit
    <3> HIDE DEF k
    <3> QED BY <2>1, <3>5 DEF Log!Next
  <2> QED BY <1>4, <2>3, <2>4 DEF Expire
<1>5. CASE Tick \/ UNCHANGED vars
  BY <1>5 DEF Tick, vars
<1> QED BY <1>2, <1>3, <1>4, <1>5 DEF Next

\* Until checks overlap or a call raises, the buckets of Redis are the sliding windows that
\* the limits speak of: whoever is admitted has fewer than `limit' admitted before it in
\* the window that ends at its own time stamp, and is admitted to a bucket once.
THEOREM LimiterImplementsSlidingWindow == ASSUME LagFits PROVE Spec => ImplementsSlidingWindow
<1>1. Init => Log!Init
  BY DEF Init, Log!Init
<1>2. Known /\ SoloInv /\ [Next]_vars => [Log!Next]_Log!vars
  BY SlidingStep
<1> QED BY <1>1, <1>2, SoloInvariant, PTL DEF Spec, ImplementsSlidingWindow, Log!Spec

-----------------------------------------------------------------------------
(* Checks that overlap.                                                    *)

\* Checks of bucket k that have counted fewer than its limit and are not decided yet.
Passing(k) == {r \in Req : pc[r] \in {"add", "expire"} /\ KeyOf(r) = k /\ ~Refused(r)}

\* What bucket k has admitted, or will, in the short window up to t.
Bound(k, t) ==
  {m \in admitted[k] \cup {Entry(r) : r \in Passing(k)} : t - Window[k] + MaxLag < m[2] /\ m[2] <= t}

Within(k, t) ==
  IsFiniteSet(Bound(k, t)) /\ Cardinality(Bound(k, t)) <= Limit[k] + Overlap - 1

OvershootInv ==
  \A k \in Key, t \in Time : ~FailedWithin(k, t - 2 * Window[k], t + MaxLag) => Within(k, t)

\* A set that is no larger keeps the bound.
LEMMA WithinShrinks ==
  ASSUME TypeInv, NEW k \in Key, NEW t \in Time, Within(k, t), Bound(k, t)' \subseteq Bound(k, t)
  PROVE  Within(k, t)'
<1> DEFINE old == Bound(k, t)
           new == Bound(k, t)'
<1>1. IsFiniteSet(old) /\ Cardinality(old) <= Limit[k] + Overlap - 1
  BY DEF Within
<1>2. IsFiniteSet(new) /\ Cardinality(new) <= Cardinality(old)
  <2> HIDE DEF old, new
  <2> QED BY <1>1, FS_Subset DEF old, new
<1>3. Cardinality(old) \in Nat /\ Cardinality(new) \in Nat /\ Limit[k] \in Nat /\ Overlap \in Nat
  BY <1>1, <1>2, FS_CardinalityType, ConstantTypes
<1> HIDE DEF old, new
<1>4. IsFiniteSet(new) /\ Cardinality(new) <= Limit[k] + Overlap - 1
  BY <1>1, <1>2, <1>3
<1> QED BY <1>4 DEF new, Within

\* No more members than checks are under way.
LEMMA ActiveEntries ==
  ASSUME TypeInv
  PROVE  /\ IsFiniteSet({Entry(r) : r \in Active})
         /\ Cardinality({Entry(r) : r \in Active}) <= Overlap
<1> DEFINE T == {Entry(r) : r \in Active}
           f == [r \in Active |-> Entry(r)]
<1>1. f \in Surjection(Active, T)
  BY DEF Surjection
<1>2. IsFiniteSet(Active) /\ Cardinality(Active) <= Overlap /\ Overlap \in Nat
  BY ConstantTypes DEF TypeInv, SizesInv
<1> HIDE DEF T, f
<1>3. IsFiniteSet(T) /\ Cardinality(T) <= Cardinality(Active)
  BY <1>1, <1>2, FS_Surjection
<1>4. Cardinality(T) \in Nat /\ Cardinality(Active) \in Nat
  BY <1>2, <1>3, FS_CardinalityType
<1> QED BY <1>2, <1>3, <1>4 DEF T

\* The count is taken: what may be admitted in the short window is what was counted, and
\* a member for each check under way.
LEMMA OvershootCard ==
  ASSUME Known, Known', BucketInv, NEW q \in Req, Card(q), NEW t \in Time,
         NEW k \in Key, k = KeyOf(q), Within(k, t),
         ~FailedWithin(k, t - 2 * Window[k], t + MaxLag)
  PROVE  Within(k, t)'
<1>1. /\ admitted' = admitted /\ members' = members /\ tier' = tier /\ now' = now
      /\ KeyOf(q)' = k
  BY Ranges DEF Card, Known
<1>2. count'[q] = Cardinality(members[k]) /\ pc[q] = "card" /\ pc'[q] = "add"
  BY DEF Card, Goto, Known, TypeInv, TypeOK
<1>3. \A r \in Req : r # q => pc'[r] = pc[r] /\ count'[r] = count[r]
  BY OthersStay DEF Check, Known, TypeInv
<1>4. Passing(k)' \subseteq Passing(k) \cup {q}
  BY <1>1, <1>3 DEF Passing, Refused
<1>5. ASSUME q \in Passing(k)', Entry(q) \in Bound(k, t)' PROVE Within(k, t)'
  <2>1. Cardinality(members[k]) < Limit[k] /\ Cardinality(members[k]) \in Nat /\ IsFiniteSet(members[k])
    <3>1. IsFiniteSet(members[k]) /\ Cardinality(members[k]) \in Nat
      BY <1>1, FS_CardinalityType DEF Known, TypeInv, SizesInv
    <3>2. ~(Cardinality(members[k]) >= Limit[k])
      BY <1>1, <1>2, <1>5 DEF Passing, Refused
    <3> QED BY <1>1, <3>1, <3>2, ConstantTypes
  <2>2. now[q] <= t /\ clock - now[q] <= MaxLag
    <3>1. q \in Active /\ pc[q] # "enter"
      BY <1>2 DEF Active
    <3> QED BY <1>1, <1>5, <3>1 DEF Bound, Known, ScoresInv
  <2> DEFINE T == {Entry(r) : r \in Active}
             B == Bound(k, t)'
  <2>3. \A m \in admitted[k] : t - Window[k] + MaxLag < m[2] /\ m[2] <= t => m \in members[k]
    <3> SUFFICES ASSUME NEW m \in admitted[k], t - Window[k] + MaxLag < m[2], m[2] <= t
                 PROVE  m \in members[k]
      OBVIOUS
    <3>1. \/ m \in members[k]
          \/ m[2] + Window[k] <= clock
          \/ FailedWithin(k, m[2] - Window[k] - MaxLag, m[2] + MaxLag)
      BY <1>1 DEF BucketInv, KeptInv
    <3>2. /\ m[2] \in Int /\ now[q] \in Int /\ clock \in Int /\ t \in Int /\ Window[k] \in Int
          /\ MaxLag \in Int
      BY <1>1, Ranges, ConstantTypes DEF Known
    <3>3. \A x \in Failed(k) : now[x] \in Int
      BY Ranges DEF Failed, Known
    <3>4. ~FailedWithin(k, m[2] - Window[k] - MaxLag, m[2] + MaxLag)
      BY <3>2, <3>3 DEF FailedWithin
    <3> QED BY <2>2, <3>1, <3>2, <3>4
  <2>4. {Entry(r) : r \in Passing(k)'} \subseteq T
    BY <1>2, <1>4 DEF Passing, Active
  <2>5. B \subseteq members[k] \cup T
    BY <1>1, <2>3, <2>4 DEF Bound
  <2>6. IsFiniteSet(T) /\ Cardinality(T) <= Overlap
    BY ActiveEntries DEF Known
  <2> HIDE DEF T, B
  <2>7. /\ IsFiniteSet(members[k] \cup T)
        /\ Cardinality(members[k] \cup T)
             = Cardinality(members[k]) + Cardinality(T) - Cardinality(members[k] \cap T)
    BY <2>1, <2>6, FS_Union
  <2>8. IsFiniteSet(B) /\ Cardinality(B) <= Cardinality(members[k] \cup T)
    BY <2>5, <2>7, FS_Subset
  <2>9. IsFiniteSet(members[k] \cap T)
    BY <2>6, FS_Subset
  <2>10. /\ Cardinality(members[k] \cap T) \in Nat /\ Cardinality(T) \in Nat
         /\ Cardinality(B) \in Nat /\ Cardinality(members[k] \cup T) \in Nat
         /\ Limit[k] \in Nat /\ Overlap \in Nat
    BY <1>1, <2>6, <2>7, <2>8, <2>9, FS_CardinalityType, ConstantTypes
  <2>11. Cardinality(B) <= Limit[k] + Overlap - 1
    BY <2>1, <2>6, <2>7, <2>8, <2>10
  <2> QED BY <2>8, <2>11 DEF B, Within
<1>6. ASSUME ~(q \in Passing(k)' /\ Entry(q) \in Bound(k, t)') PROVE Within(k, t)'
  <2>1. Bound(k, t)' \subseteq Bound(k, t)
    <3>1. ASSUME NEW m \in Bound(k, t)' PROVE m \in Bound(k, t)
      <4>1. m \in admitted[k] \/ \E r \in Passing(k)' : m = Entry(r)
        BY <1>1, <3>1 DEF Bound
      <4>2. t - Window[k] + MaxLag < m[2] /\ m[2] <= t
        BY <1>1, <3>1 DEF Bound
      <4>3. m \in admitted[k] \/ \E r \in Passing(k) : m = Entry(r)
        BY <1>4, <1>6, <3>1, <4>1
      <4> QED BY <4>2, <4>3 DEF Bound
    <3> QED BY <3>1
  <2> QED BY <1>1, <2>1, WithinShrinks DEF Known
<1> QED BY <1>5, <1>6

\* The other steps let nobody else pass.
LEMMA OvershootOther ==
  ASSUME Known, Known', NEW q \in Req, Arrive(q) \/ Check(q) \/ Raise(q), NEW k \in Key, NEW t \in Time,
         Within(k, t), Card(q) => k # KeyOf(q)
  PROVE  Within(k, t)'
<1>1. \A s \in Req : s # q =>
        pc'[s] = pc[s] /\ tier'[s] = tier[s] /\ now'[s] = now[s] /\ count'[s] = count[s]
  BY OthersStay DEF Known, TypeInv
<1>2. \A r \in Passing(k) : now'[r] = now[r]
  BY <1>1 DEF Passing, Check, Arrive, Enter, Evict, Card, Add, Expire, Rem, Raise
<1>3. Passing(k)' \subseteq Passing(k)
  <2>1. \A r \in Req : r # q => (r \in Passing(k)' <=> r \in Passing(k))
    BY <1>1 DEF Passing, Refused
  <2>2. q \in Passing(k)' => q \in Passing(k)
    <3>1. CASE Arrive(q) \/ Enter(q) \/ Evict(q) \/ Rem(q) \/ Expire(q) \/ Raise(q)
      <4>1. pc'[q] \notin {"add", "expire"}
        BY <3>1 DEF Arrive, Enter, Evict, Rem, Expire, Raise, Goto, Known, TypeInv, TypeOK
      <4> QED BY <4>1 DEF Passing
    <3>2. CASE Card(q)
      BY <3>2 DEF Card, Passing
    <3>3. CASE Add(q)
      BY <3>3 DEF Add, Passing, Refused
    <3> QED BY <3>1, <3>2, <3>3 DEF Check
  <2> QED BY <2>1, <2>2 DEF Passing
<1>4. admitted'[k] \subseteq admitted[k] \cup {Entry(r) : r \in Passing(k)}
  <2>1. CASE Expire(q)
    <3>1. admitted'[k] # admitted[k] => q \in Passing(k)
      <4>1. k # KeyOf(q) => admitted'[k] = admitted[k]
        BY <2>1, OwnBucket DEF Check, Known
      <4> QED BY <2>1, <4>1 DEF Expire, Passing
    <3>2. admitted'[k] \subseteq admitted[k] \cup {Entry(q)}
      BY <2>1, OwnBucket DEF Check, Known
    <3> QED BY <3>1, <3>2
  <2>2. CASE ~Expire(q)
    BY <2>2 DEF Check, Arrive, Enter, Evict, Card, Add, Rem, Raise
  <2> QED BY <2>1, <2>2
<1>5. Bound(k, t)' \subseteq Bound(k, t)
  BY <1>2, <1>3, <1>4 DEF Bound
<1> QED BY <1>5, WithinShrinks DEF Known

LEMMA OvershootStep ==
  ASSUME Known, Known', BucketInv, OvershootInv, [Next]_vars PROVE OvershootInv'
<1> SUFFICES ASSUME NEW k \in Key, NEW t \in Time,
                    ~FailedWithin(k, t - 2 * Window[k], t + MaxLag)'
             PROVE  Within(k, t)'
  BY DEF OvershootInv
<1>1. ~FailedWithin(k, t - 2 * Window[k], t + MaxLag) /\ Within(k, t)
  BY FailedWithinStays DEF OvershootInv, Known
<1>2. ASSUME NEW q \in Req, Arrive(q) \/ Check(q) \/ Raise(q) PROVE Within(k, t)'
  <2>1. CASE Card(q) /\ k = KeyOf(q)
    BY <1>1, <2>1, OvershootCard
  <2> QED BY <1>1, <1>2, <2>1, OvershootOther
<1>3. CASE Tick \/ UNCHANGED vars
  <2>1. pc' = pc /\ tier' = tier /\ now' = now /\ count' = count /\ admitted' = admitted
    BY <1>3 DEF Tick, vars
  <2>2. Bound(k, t)' = Bound(k, t)
    BY <2>1 DEF Bound, Passing, Refused
  <2> QED BY <1>1, <2>2, WithinShrinks DEF Known
<1> QED BY <1>1, <1>2, <1>3 DEF Next

\* The race that rate_limit.py:21-24 accepts costs at most one admission for every other
\* check under way, in a window shorter than the bucket's by the time a check may take.
THEOREM OvershootIsBounded == ASSUME LagFits PROVE Spec => []BoundedOvershoot
<1>1. Init => OvershootInv
  <2> SUFFICES ASSUME Init, NEW k \in Key, NEW t \in Time PROVE Within(k, t)
    BY DEF OvershootInv
  <2>1. Bound(k, t) = {}
    BY DEF Init, Bound, Passing
  <2>2. IsFiniteSet(Bound(k, t)) /\ Cardinality(Bound(k, t)) = 0
    BY <2>1, FS_EmptySet
  <2> QED BY <2>2, ConstantTypes DEF Within
<1>2. Known /\ Known' /\ BucketInv /\ OvershootInv /\ [Next]_vars => OvershootInv'
  BY OvershootStep
<1>3. Known /\ OvershootInv => BoundedOvershoot
  <2> SUFFICES ASSUME Known, OvershootInv, NEW k \in Key, NEW t \in Time,
                      ~FailedWithin(k, t - 2 * Window[k], t + MaxLag)
               PROVE  Cardinality({m \in admitted[k] : t - Window[k] + MaxLag < m[2] /\ m[2] <= t})
                        <= Limit[k] + Overlap - 1
    BY DEF BoundedOvershoot
  <2> DEFINE recent == {m \in admitted[k] : t - Window[k] + MaxLag < m[2] /\ m[2] <= t}
             bound == Bound(k, t)
  <2>1. recent \subseteq bound
    BY DEF Bound
  <2>2. IsFiniteSet(bound) /\ Cardinality(bound) <= Limit[k] + Overlap - 1
    BY DEF OvershootInv, Within
  <2> HIDE DEF recent, bound
  <2>3. IsFiniteSet(recent) /\ Cardinality(recent) <= Cardinality(bound)
    BY <2>1, <2>2, FS_Subset
  <2>4. /\ Cardinality(recent) \in Nat /\ Cardinality(bound) \in Nat
        /\ Limit[k] \in Nat /\ Overlap \in Nat
    BY <2>2, <2>3, FS_CardinalityType, ConstantTypes
  <2>5. Cardinality(recent) <= Limit[k] + Overlap - 1
    BY <2>2, <2>3, <2>4
  <2> QED BY <2>5 DEF recent
<1> QED BY <1>1, <1>2, <1>3, SoloInvariant, PTL DEF Spec

-----------------------------------------------------------------------------
(* Refusals.                                                               *)

\* A bucket that a check has evicted from has no member older than its window.
FreshInv ==
  \A r \in Req : pc[r] = "card" => \A m \in members[KeyOf(r)] : now[r] - Window[KeyOf(r)] < m[2]

\* What a check has counted was admitted, but for one member for every other check.
DueOf(r) ==
  ~FailedWithin(KeyOf(r), now[r] - Window[KeyOf(r)], now[r] + MaxLag) =>
    count[r] <= Cardinality(Near(admitted[KeyOf(r)], KeyOf(r), now[r])) + Overlap - 1

CountsInv ==
  \A r \in Req :
    /\ pc[r] \in {"add", "expire", "rem", "denied"} => DueOf(r)
    /\ pc[r] \in {"rem", "denied"} => count[r] >= Limit[KeyOf(r)]

\* Whoever adds a member read the clock after the window of the others began.
LEMMA FreshStep ==
  ASSUME LagFits, Known, Known', FreshInv, [Next]_vars PROVE FreshInv'
<1> SUFFICES ASSUME NEW r \in Req, pc'[r] = "card", NEW m \in members'[KeyOf(r)']
             PROVE  now'[r] - Window[KeyOf(r)'] < m[2]
  BY DEF FreshInv
<1>1. ASSUME NEW q \in Req, Arrive(q) \/ Check(q) \/ Raise(q)
      PROVE  now'[r] - Window[KeyOf(r)'] < m[2]
  <2>1. CASE r = q
    <3>1. Evict(q)
      BY <1>1, <2>1 DEF Check, Arrive, Enter, Evict, Card, Add, Expire, Rem, Raise, Goto, Known, TypeInv, TypeOK
    <3>2. KeyOf(q) \in Key /\ tier' = tier /\ now' = now
      BY <3>1, Ranges DEF Evict, Known
    <3>3. members'[KeyOf(q)] = Evicted(KeyOf(q), now[q])
      BY <3>1, <3>2 DEF Evict, Store, Known, TypeInv, TypeOK
    <3>4. m \in members[KeyOf(q)] /\ m[2] > now[q] - Window[KeyOf(q)]
      BY <2>1, <3>2, <3>3 DEF Evicted
    <3> QED BY <2>1, <3>2, <3>4, Ranges DEF Known
  <2>2. CASE r # q
    <3>1. pc[r] = "card" /\ now'[r] = now[r] /\ KeyOf(r)' = KeyOf(r) /\ KeyOf(r) \in Key
      BY <1>1, <2>2, OthersStay, Ranges DEF Known, TypeInv
    <3>2. CASE m \in members[KeyOf(r)]
      BY <3>1, <3>2 DEF FreshInv
    <3>3. CASE m \notin members[KeyOf(r)]
      <4>1. m = Entry(q) /\ pc[q] = "add"
        BY <1>1, <3>1, <3>3, OwnBucket DEF Known
      <4>2. clock - now[q] <= MaxLag /\ now[r] <= clock
        BY <4>1 DEF Known, ScoresInv, Active
      <4>3. MaxLag < Window[KeyOf(r)]
        BY <3>1 DEF LagFits
      <4>4. /\ now[q] \in Int /\ now[r] \in Int /\ clock \in Int /\ MaxLag \in Int
            /\ Window[KeyOf(r)] \in Int
        BY <3>1, Ranges DEF Known
      <4>5. m[2] = now[q]
        BY <4>1
      <4> QED BY <3>1, <4>2, <4>3, <4>4, <4>5
    <3> QED BY <3>2, <3>3
  <2> QED BY <2>1, <2>2
<1>2. CASE Tick \/ UNCHANGED vars
  <2>1. pc' = pc /\ tier' = tier /\ now' = now /\ \A j \in Key : members'[j] \subseteq members[j]
    BY <1>2 DEF Tick, vars
  <2> QED BY <2>1, Ranges DEF FreshInv, Known
<1> QED BY <1>1, <1>2 DEF Next

\* Numbers of members near a check are natural numbers, and grow with what is counted.
LEMMA NearGrows ==
  ASSUME NEW k \in Key, NEW t, NEW S, NEW T, IsFiniteSet(T), S \subseteq T
  PROVE  /\ IsFiniteSet(Near(S, k, t))
         /\ Cardinality(Near(S, k, t)) \in Nat /\ Cardinality(Near(T, k, t)) \in Nat
         /\ Cardinality(Near(S, k, t)) <= Cardinality(Near(T, k, t))
<1>1. Near(S, k, t) \subseteq Near(T, k, t) /\ Near(T, k, t) \subseteq T
  BY DEF Near
<1>2. IsFiniteSet(Near(T, k, t)) /\ IsFiniteSet(Near(S, k, t))
  BY <1>1, FS_Subset
<1> QED BY <1>1, <1>2, FS_Subset, FS_CardinalityType

\* The count is taken: each member is admitted, or of another check under way, or was left by
\* a call that raised.
LEMMA CountDue ==
  ASSUME LagFits, Known, Known', BucketInv, FreshInv, NEW q \in Req, Card(q) PROVE DueOf(q)'
<1>1. /\ admitted' = admitted /\ members' = members /\ tier' = tier /\ now' = now
      /\ pc[q] = "card" /\ KeyOf(q)' = KeyOf(q)
  BY DEF Card
<1>2. count'[q] = Cardinality(members[KeyOf(q)]) /\ KeyOf(q) \in Key
  BY Ranges DEF Card, Known, TypeInv, TypeOK
<1>3. SUFFICES ASSUME ~FailedWithin(KeyOf(q), now[q] - Window[KeyOf(q)], now[q] + MaxLag)'
               PROVE  count'[q] <= Cardinality(Near(admitted[KeyOf(q)], KeyOf(q), now[q])) + Overlap - 1
  BY <1>1 DEF DueOf
<1>4. \A x \in Failed(KeyOf(q)) : ~(now[q] - Window[KeyOf(q)] < now[x] /\ now[x] <= now[q] + MaxLag)
  <2>1. [Next]_vars
    BY DEF Next, Check
  <2> QED BY <1>1, <1>2, <1>3, <2>1, FailedStays DEF FailedWithin, Known
<1>5. clock - now[q] <= MaxLag
  BY <1>1 DEF Known, ScoresInv, Active
<1> DEFINE near == Near(admitted[KeyOf(q)], KeyOf(q), now[q])
           mine == Entry(q)
           T    == {Entry(r) : r \in Active}
           M    == members[KeyOf(q)]
<1>6. M \subseteq near \cup (T \ {mine})
  <2> SUFFICES ASSUME NEW m \in M PROVE m \in near \/ m \in T \ {mine}
    OBVIOUS
  <2>1. /\ m[2] \in Int /\ now[q] \in Int /\ clock \in Int /\ MaxLag \in Int
        /\ Window[KeyOf(q)] \in Int
    BY <1>2, Ranges DEF Known
  <2>2. m[2] <= clock /\ now[q] - Window[KeyOf(q)] < m[2]
    BY <1>1, <1>2 DEF Known, ScoresInv, FreshInv
  <2>3. now[q] - Window[KeyOf(q)] < m[2] /\ m[2] <= now[q] + MaxLag
    BY <1>5, <2>1, <2>2
  <2>4. CASE m \in admitted[KeyOf(q)]
    BY <2>3, <2>4 DEF Near
  <2>5. CASE m \notin admitted[KeyOf(q)]
    <3>1. PICK r \in Req : /\ pc[r] \in {"expire", "rem", "error"}
                           /\ KeyOf(r) = KeyOf(q) /\ m = Entry(r)
      BY <1>2, <2>5 DEF BucketInv, OriginInv
    <3>2. m[1] = r /\ m[2] = now[r]
      BY <3>1
    <3>3. pc[r] # "error"
      BY <1>4, <2>3, <3>1, <3>2 DEF Failed
    <3>4. r \in Active /\ r # q
      BY <1>1, <3>1, <3>3 DEF Active
    <3> QED BY <3>1, <3>2, <3>4
  <2> QED BY <2>4, <2>5
<1>7. IsFiniteSet(T \ {mine}) /\ Cardinality(T \ {mine}) \in Nat /\ Cardinality(T \ {mine}) <= Overlap - 1
  <2>1. IsFiniteSet(T) /\ Cardinality(T) <= Overlap /\ Overlap \in Nat
    BY ActiveEntries, ConstantTypes DEF Known
  <2>2. mine \in T
    BY <1>1 DEF Active
  <2> HIDE DEF T, mine
  <2>3. IsFiniteSet(T \ {mine}) /\ Cardinality(T \ {mine}) = Cardinality(T) - 1
    BY <2>1, <2>2, FS_RemoveElement
  <2>4. Cardinality(T) \in Nat /\ Cardinality(T \ {mine}) \in Nat
    BY <2>1, <2>3, FS_CardinalityType
  <2> QED BY <2>1, <2>3, <2>4
<1>8. IsFiniteSet(near) /\ Cardinality(near) \in Nat
  BY <1>2, NearGrows DEF Known, TypeInv, SizesInv
<1> DEFINE rest == T \ {mine}
           n    == Cardinality(near)
<1>9. IsFiniteSet(rest) /\ Cardinality(rest) \in Nat /\ Cardinality(rest) <= Overlap - 1
  BY <1>7
<1>10. M \subseteq near \cup rest
  BY <1>6
<1>11. Cardinality(M) <= n + Overlap - 1
  <2> HIDE DEF near, rest, M
  <2>1. /\ IsFiniteSet(near \cup rest)
        /\ Cardinality(near \cup rest) = n + Cardinality(rest) - Cardinality(near \cap rest)
    BY <1>8, <1>9, FS_Union
  <2>2. IsFiniteSet(near \cap rest)
    BY <1>8, FS_Subset
  <2>3. IsFiniteSet(M) /\ Cardinality(M) <= Cardinality(near \cup rest)
    BY <1>10, <2>1, FS_Subset
  <2>4. /\ Cardinality(near \cap rest) \in Nat /\ Cardinality(near \cup rest) \in Nat
        /\ Cardinality(M) \in Nat /\ Overlap \in Nat
    BY <2>1, <2>2, <2>3, FS_CardinalityType, ConstantTypes
  <2> HIDE DEF n
  <2>5. n \in Nat
    BY <1>8 DEF n
  <2> QED BY <1>9, <2>1, <2>3, <2>4, <2>5
<1> QED BY <1>2, <1>11

\* What is due stays due: the bucket forgets nothing that it admitted.
LEMMA DueStays ==
  ASSUME Known, Known', [Next]_vars, NEW r \in Req, DueOf(r), KeyOf(r)' = KeyOf(r),
         now'[r] = now[r], count'[r] = count[r], admitted[KeyOf(r)] \subseteq admitted'[KeyOf(r)]
  PROVE  DueOf(r)'
<1> DEFINE old == Cardinality(Near(admitted[KeyOf(r)], KeyOf(r), now[r]))
           new == Cardinality(Near(admitted'[KeyOf(r)], KeyOf(r), now[r]))
<1>1. KeyOf(r) \in Key /\ count[r] \in Nat /\ Overlap \in Nat
  BY Ranges, ConstantTypes DEF Known, TypeInv, TypeOK
<1>2. IsFiniteSet(admitted'[KeyOf(r)])
  BY <1>1 DEF Known, TypeInv, SizesInv
<1>3. old \in Nat /\ new \in Nat /\ old <= new
  BY <1>1, <1>2, NearGrows
<1>4. SUFFICES ASSUME ~FailedWithin(KeyOf(r), now[r] - Window[KeyOf(r)], now[r] + MaxLag)'
               PROVE  count[r] <= new + Overlap - 1
  BY DEF DueOf
<1>5. ~FailedWithin(KeyOf(r), now[r] - Window[KeyOf(r)], now[r] + MaxLag)
  BY <1>1, <1>4, FailedStays DEF FailedWithin, Known
<1>6. count[r] <= old + Overlap - 1
  BY <1>5 DEF DueOf
<1> HIDE DEF old, new
<1>7. count[r] <= new + Overlap - 1
  BY <1>1, <1>3, <1>6
<1> QED BY <1>7 DEF new

\* A check keeps its count until it is decided on it.
LEMMA CountsStep ==
  ASSUME LagFits, Known, Known', BucketInv, FreshInv, CountsInv, [Next]_vars PROVE CountsInv'
<1> SUFFICES ASSUME NEW r \in Req
             PROVE  /\ pc'[r] \in {"add", "expire", "rem", "denied"} => DueOf(r)'
                    /\ pc'[r] \in {"rem", "denied"} => count'[r] >= Limit[KeyOf(r)']
  BY DEF CountsInv
<1>1. ASSUME NEW q \in Req, Arrive(q) \/ Check(q) \/ Raise(q)
      PROVE  \A j \in Key : admitted[j] \subseteq admitted'[j]
  BY <1>1, OwnBucket DEF Known
<1>2. ASSUME NEW q \in Req, Arrive(q) \/ Check(q) \/ Raise(q), r # q
      PROVE  /\ pc'[r] \in {"add", "expire", "rem", "denied"} => DueOf(r)'
             /\ pc'[r] \in {"rem", "denied"} => count'[r] >= Limit[KeyOf(r)']
  <2>1. pc'[r] = pc[r] /\ tier'[r] = tier[r] /\ now'[r] = now[r] /\ count'[r] = count[r]
    BY <1>2, OthersStay DEF Known, TypeInv
  <2>2. KeyOf(r)' = KeyOf(r) /\ KeyOf(r) \in Key
    BY <2>1, Ranges DEF Known
  <2> QED BY <1>1, <1>2, <2>1, <2>2, DueStays DEF CountsInv
<1>3. ASSUME Card(r)
      PROVE  /\ pc'[r] \in {"add", "expire", "rem", "denied"} => DueOf(r)'
             /\ pc'[r] \in {"rem", "denied"} => count'[r] >= Limit[KeyOf(r)']
  <2>1. pc'[r] = "add"
    BY <1>3 DEF Card, Goto, Known, TypeInv, TypeOK
  <2> QED BY <1>3, <2>1, CountDue
<1>4. ASSUME Add(r) \/ Expire(r) \/ Rem(r), pc'[r] \in {"expire", "rem", "denied"}
      PROVE  /\ DueOf(r)'
             /\ pc'[r] \in {"rem", "denied"} => count'[r] >= Limit[KeyOf(r)']
  <2>1. /\ tier' = tier /\ now' = now /\ count' = count
        /\ pc[r] \in {"add", "expire", "rem"}
        /\ pc'[r] \in {"rem", "denied"} => Refused(r) \/ pc[r] = "rem"
    BY <1>4 DEF Add, Expire, Rem, Goto, Known, TypeInv, TypeOK
  <2>2. KeyOf(r)' = KeyOf(r) /\ KeyOf(r) \in Key
    BY <2>1, Ranges DEF Known
  <2>3. DueOf(r)'
    BY <1>1, <1>4, <2>1, <2>2, DueStays DEF CountsInv, Check
  <2> QED BY <2>1, <2>2, <2>3 DEF CountsInv, Refused
<1>5. ASSUME Arrive(r) \/ Enter(r) \/ Evict(r) \/ Raise(r)
      PROVE  pc'[r] \notin {"add", "expire", "rem", "denied"}
  BY <1>5 DEF Arrive, Enter, Evict, Raise, Goto, Known, TypeInv, TypeOK
<1>6. ASSUME Add(r) \/ Expire(r) \/ Rem(r) PROVE pc'[r] # "add"
  BY <1>6 DEF Add, Expire, Rem, Goto, Known, TypeInv, TypeOK
<1>7. CASE Tick \/ UNCHANGED vars
  <2>1. pc' = pc /\ tier' = tier /\ now' = now /\ count' = count /\ admitted' = admitted
    BY <1>7 DEF Tick, vars
  <2> QED BY <2>1, DueStays DEF CountsInv
<1> QED BY <1>2, <1>3, <1>4, <1>5, <1>6, <1>7 DEF Next, Check

\* A refusal is due.  While the checks come one at a time and none raises, the bucket that
\* refuses a request has admitted its limit in the window of that check
\* (rate_limit.py:84-93), whatever was refused, removed or expired in it before.  Under any
\* overlap it is short of its limit by at most one for every other check under way, however
\* many refused checks found each other's members (rate_limit.py:87-90).
THEOREM RefusalsAreDue == ASSUME LagFits PROVE Spec => []NoFalseRefusal
<1>1. Init => FreshInv /\ CountsInv
  BY DEF Init, FreshInv, CountsInv
<1>2. Known /\ Known' /\ BucketInv /\ FreshInv /\ CountsInv /\ [Next]_vars => FreshInv' /\ CountsInv'
  BY FreshStep, CountsStep
<1>3. Known /\ SoloInv /\ CountsInv => NoFalseRefusal
  <2> SUFFICES ASSUME Known, SoloInv, CountsInv, NEW r \in Req, pc[r] \in {"rem", "denied"},
                      NEW k \in Key, k = KeyOf(r)
               PROVE  /\ ~disturbed => Cardinality(InWindow(admitted[k], k, now[r])) >= Limit[k]
                      /\ ~FailedWithin(k, now[r] - Window[k], now[r] + MaxLag) =>
                           Cardinality(Near(admitted[k], k, now[r])) >= Limit[k] - (Overlap - 1)
    BY Ranges DEF NoFalseRefusal, Known
  <2> DEFINE n    == Cardinality(InWindow(admitted[k], k, now[r]))
             near == Cardinality(Near(admitted[k], k, now[r]))
  <2>1. count[r] \in Nat /\ Limit[k] \in Nat /\ Overlap \in Nat /\ IsFiniteSet(admitted[k])
    BY ConstantTypes DEF Known, TypeInv, TypeOK, SizesInv
  <2>2. n \in Nat /\ near \in Nat
    BY <2>1, RecentGrows, NearGrows DEF Known
  <2>3. ~disturbed => count[r] <= n /\ count[r] >= Limit[k]
    BY DEF SoloInv, SoloInvOf
  <2>4. /\ count[r] >= Limit[k]
        /\ ~FailedWithin(k, now[r] - Window[k], now[r] + MaxLag) => count[r] <= near + Overlap - 1
    BY DEF CountsInv, DueOf
  <2> HIDE DEF n, near
  <2>5. /\ ~disturbed => n >= Limit[k]
        /\ ~FailedWithin(k, now[r] - Window[k], now[r] + MaxLag) => near >= Limit[k] - (Overlap - 1)
    BY <2>1, <2>2, <2>3, <2>4
  <2> QED BY <2>5 DEF n, near
<1> QED BY <1>1, <1>2, <1>3, SoloInvariant, PTL DEF Spec

=============================================================================
