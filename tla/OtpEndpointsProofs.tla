------------------------- MODULE OtpEndpointsProofs -------------------------
(***************************************************************************)
(* Proofs about OtpEndpoints for any number of requests, projects,         *)
(* addresses, codes and limits, with failing calls and with any overlap.   *)
(***************************************************************************)
EXTENDS OtpEndpoints, FiniteSetTheorems, SequenceTheorems, TLAPS

USE DEF Ids, Recipient, Step, Reply

-----------------------------------------------------------------------------
(* Lemmas about the operators on rows and on the table.                    *)

\* A limit that a handler works with is a natural number.
LEMMA LimitType == ASSUME NEW n \in Limits \cup {0} PROVE n \in Nat
BY LimitsAssumption DEF LimitsAssumption

\* Rows stay rows under every write of the two handlers.
LEMMA VerifiedRowType == ASSUME NEW r \in Row PROVE VerifiedRow(r) \in Row
BY DEF Row, VerifiedRow

LEMMA CountedRowType ==
  ASSUME NEW r \in Row, NEW n \in Nat, NEW max \in Nat PROVE CountedRow(r, n, max) \in Row
BY DEF Row, CountedRow

LEMMA SupersededRowType ==
  ASSUME NEW r \in Row, NEW to PROVE SupersededRow(r, to) \in Row
BY DEF Row, SupersededRow, Pending

SweptTable(to) == [i \in Ids |-> SupersededRow(otp_records[i], to)]

\* The update of all pending rows of a recipient is a table of the same length.
LEMMA SweptTableType ==
  ASSUME otp_records \in Seq(Row), NEW to
  PROVE  SweptTable(to) \in Seq(Row) /\ Len(SweptTable(to)) = Len(otp_records)
<1>1. Len(otp_records) \in Nat /\ \A i \in Ids : otp_records[i] \in Row
  OBVIOUS
<1>2. SweptTable(to) \in [1..Len(otp_records) -> Row]
  BY <1>1, SupersededRowType DEF SweptTable
<1> QED BY <1>1, <1>2, SeqDef, LenProperties

\* What may become of a row: recipient and code stay, flags are only raised.
Ages(old, new) ==
  /\ new.to = old.to /\ new.otp_hash = old.otp_hash
  /\ old.is_verified => new.is_verified
  /\ old.is_invalidated => new.is_invalidated

\* Every write of the two handlers lets a row age, whatever snapshot it is
\* computed from.
LEMMA SupersededAges == ASSUME NEW r \in Row, NEW to PROVE Ages(r, SupersededRow(r, to))
BY DEF Row, Ages, SupersededRow, Pending

LEMMA VerifiedAges == ASSUME NEW r \in Row PROVE Ages(r, VerifiedRow(r))
BY DEF Row, Ages, VerifiedRow

LEMMA CountedAges ==
  ASSUME NEW r \in Row, NEW n \in Nat, NEW max \in Nat PROVE Ages(r, CountedRow(r, n, max))
BY DEF Row, Ages, CountedRow

\* A row that is not pending does not become pending by ageing.
LEMMA AgedNotPending ==
  ASSUME NEW old \in Row, NEW new \in Row, Ages(old, new), ~Pending(old)
  PROVE  ~Pending(new)
BY DEF Row, Ages, Pending

-----------------------------------------------------------------------------
(* Type correctness.                                                       *)

\* A handler past its fetch or its insert holds an existing row: TypeOK alone
\* would let it hold none.
HoldsRow ==
  \A q \in Req : pc[q] \in {"enqueue", "check", "count", "mark"} => rec[q] \in Ids

TypeInv == TypeOK /\ HoldsRow

\* Initially no handler runs and the table is empty.
LEMMA TypeInit == Init => TypeInv
BY DEF Init, TypeInv, TypeOK, HoldsRow

\* Every step of a handler, of the bot or of the clock keeps the types and the
\* rows that are held.
LEMMA TypeStep == TypeInv /\ [Next]_vars => TypeInv'
<1> SUFFICES ASSUME TypeInv, [Next]_vars PROVE TypeInv'
  OBVIOUS
<1> USE DEF TypeInv

<1>1. ASSUME NEW q \in Req, Arrive(q) PROVE TypeInv'
  <2>1. body[q].to[1] \in Project
    BY DEF TypeOK, SendBody, VerifyBody
  <2> QED BY <1>1, <2>1 DEF Arrive, TableUnchanged, TypeOK, HoldsRow
<1>2. ASSUME NEW q \in Req, RateLimit(q) PROVE TypeInv'
  BY <1>2 DEF RateLimit, Respond, TableUnchanged, TypeOK, HoldsRow
<1>3. ASSUME NEW q \in Req, SendInvalidate(q) PROVE TypeInv'
  <2>1. SweptTable(body[q].to) \in Seq(Row) /\ Len(SweptTable(body[q].to)) = Len(otp_records)
    BY SweptTableType DEF TypeOK
  <2>2. otp_records' \in {otp_records, SweptTable(body[q].to)} /\ Ids' = Ids
    BY <1>3, <2>1 DEF SendInvalidate, SweptTable
  <2>3. otp_records' \in Seq(Row)
    BY <2>1, <2>2 DEF TypeOK
  <2>4. covered' \in [Req -> Nat]
    BY <1>3 DEF SendInvalidate, TypeOK
  <2> QED BY <1>3, <2>2, <2>3, <2>4 DEF SendInvalidate, TypeOK, HoldsRow
<1>4. ASSUME NEW q \in Req, SendInsert(q) PROVE TypeInv'
  <2> PICK c \in Code, o \in Outcome("insert") :
             /\ otp_records' = IF Applied(o)
                               THEN Append(otp_records, NewRow(body[q].to, c))
                               ELSE otp_records
             /\ rec' = [rec EXCEPT ![q] = IF Applied(o) THEN Len(otp_records) + 1 ELSE 0]
             /\ IF o = "ok"
                THEN pc' = [pc EXCEPT ![q] = "enqueue"] /\ UNCHANGED reply
                ELSE Respond(q, "DB_ERROR")
    BY <1>4 DEF SendInsert
  <2>1. NewRow(body[q].to, c) \in Row
    BY DEF TypeOK, SendBody, VerifyBody, NewRow, Row
  <2>2. otp_records' \in Seq(Row) /\ Ids \subseteq Ids'
    BY <2>1 DEF TypeOK
  <2>3. Applied(o) => Len(otp_records) + 1 \in Ids'
    BY <2>1 DEF TypeOK
  <2>4. rec' \in [Req -> Ids' \cup {0}]
    BY <2>2, <2>3 DEF TypeOK
  <2>5. HoldsRow'
    BY <2>2, <2>3 DEF HoldsRow, TypeOK, Respond, Applied
  <2>6. pc' \in [Req -> Step \cup {"idle", "done", "aborted"}] /\ reply' \in [Req -> Reply]
    BY DEF Respond, TypeOK
  <2>7. expired' \subseteq Ids' /\ queue' \subseteq Ids'
    BY <1>4, <2>2 DEF SendInsert, TypeOK
  <2> QED BY <1>4, <2>2, <2>4, <2>5, <2>6, <2>7 DEF SendInsert, TypeOK
<1>5. ASSUME NEW q \in Req, SendEnqueue(q) PROVE TypeInv'
  <2>1. rec[q] \in Ids
    BY <1>5 DEF SendEnqueue, HoldsRow
  <2> QED BY <1>5, <2>1 DEF SendEnqueue, RespondAfterSleep, TypeOK, HoldsRow
<1>6. ASSUME NEW q \in Req, VerifyFetch(q) PROVE TypeInv'
  <2>1. CASE \E i \in Latest(PendingFor(body[q].to)) :
               /\ rec' = [rec EXCEPT ![q] = i]
               /\ seen' = [seen EXCEPT ![q] = otp_records[i].attempt_count]
               /\ pc' = [pc EXCEPT ![q] = "check"]
               /\ UNCHANGED reply
    <3> PICK i \in Ids :
               /\ rec' = [rec EXCEPT ![q] = i]
               /\ seen' = [seen EXCEPT ![q] = otp_records[i].attempt_count]
               /\ pc' = [pc EXCEPT ![q] = "check"]
               /\ UNCHANGED reply
      BY <2>1 DEF Latest, PendingFor
    <3>1. otp_records[i] \in Row
      BY DEF TypeOK
    <3>2. otp_records[i].attempt_count \in Nat
      BY <3>1 DEF Row
    <3> QED BY <1>6, <3>2 DEF VerifyFetch, TableUnchanged, TypeOK, HoldsRow
  <2>2. CASE UNCHANGED <<rec, seen>> /\ (Respond(q, "DB_ERROR")
                                        \/ RespondAfterSleep(q, "OTP_NOT_FOUND"))
    BY <1>6, <2>2 DEF VerifyFetch, TableUnchanged, Respond, RespondAfterSleep,
                      TypeOK, HoldsRow
  <2> QED BY <1>6, <2>1, <2>2 DEF VerifyFetch
<1>7. ASSUME NEW q \in Req, VerifyCheck(q) PROVE TypeInv'
  BY <1>7 DEF VerifyCheck, TableUnchanged, RespondAfterSleep, TypeOK, HoldsRow
<1>8. ASSUME NEW q \in Req, VerifyCount(q) PROVE TypeInv'
  <2>1. rec[q] \in Ids /\ otp_records[rec[q]] \in Row
    BY <1>8 DEF VerifyCount, HoldsRow, TypeOK
  <2>2. CountedRow(otp_records[rec[q]], seen[q] + 1, limit[q]) \in Row
    <3>a. seen[q] \in Nat /\ limit[q] \in Limits \cup {0}
      BY DEF TypeOK
    <3>1. seen[q] + 1 \in Nat /\ limit[q] \in Nat
      BY <3>a, LimitType
    <3> QED BY <2>1, <3>1, CountedRowType
  <2>3. otp_records' \in Seq(Row) /\ Len(otp_records') = Len(otp_records)
    BY <1>8, <2>1, <2>2 DEF VerifyCount, Write, TypeOK
  <2> QED BY <1>8, <2>3 DEF VerifyCount, RespondAfterSleep, TypeOK, HoldsRow
<1>9. ASSUME NEW q \in Req, VerifyMark(q) PROVE TypeInv'
  <2>1. rec[q] \in Ids /\ otp_records[rec[q]] \in Row
    BY <1>9 DEF VerifyMark, HoldsRow, TypeOK
  <2>2. VerifiedRow(otp_records[rec[q]]) \in Row
    BY <2>1, VerifiedRowType
  <2>3. otp_records' \in Seq(Row) /\ Len(otp_records') = Len(otp_records)
    BY <1>9, <2>1, <2>2 DEF VerifyMark, Write, TypeOK
  <2> QED BY <1>9, <2>3 DEF VerifyMark, RespondAfterSleep, TypeOK, HoldsRow
<1>10. ASSUME NEW q \in Req, AntiEnumSleep(q) PROVE TypeInv'
  BY <1>10 DEF AntiEnumSleep, TableUnchanged, TypeOK, HoldsRow
<1>11. ASSUME ApiCrash PROVE TypeInv'
  BY <1>11 DEF ApiCrash, TableUnchanged, TypeOK, HoldsRow
<1>12. ASSUME NEW p \in Project, NEW n \in Limits, SetOtp(p, n) PROVE TypeInv'
  BY <1>12 DEF SetOtp, TypeOK, HoldsRow
<1>13. ASSUME NEW i \in Ids, Expire(i) PROVE TypeInv'
  BY <1>13 DEF Expire, TypeOK, HoldsRow
<1>14. ASSUME UNCHANGED vars PROVE TypeInv'
  BY <1>14 DEF vars, TypeOK, HoldsRow
<1> QED
  BY <1>1, <1>2, <1>3, <1>4, <1>5, <1>6, <1>7, <1>8, <1>9, <1>10, <1>11, <1>12,
     <1>13, <1>14 DEF Next, Handle

\* The table and the handlers are well typed in every behaviour: no handler
\* ever writes to, or queues a job for, a row that does not exist.
THEOREM TypeCorrect == Spec => []TypeOK
<1>1. TypeInv => TypeOK
  BY DEF TypeInv
<1> QED BY <1>1, TypeInit, TypeStep, PTL DEF Spec

-----------------------------------------------------------------------------
(* The table only ages.                                                    *)

TableAges ==
  \A i \in Ids : i \in Ids' /\ Ages(otp_records[i], otp_records'[i])

\* One step of anybody lets every row age: the updates by id write from a
\* snapshot, but only the columns of their payload.
LEMMA StepAges == TypeInv /\ [Next]_vars => TableAges
<1> SUFFICES ASSUME TypeInv, [Next]_vars PROVE TableAges
  OBVIOUS
<1>1. otp_records \in Seq(Row) /\ \A i \in Ids : otp_records[i] \in Row
  BY DEF TypeInv, TypeOK
<1>2. ASSUME UNCHANGED otp_records PROVE TableAges
  BY <1>1, <1>2 DEF TableAges, Ages
<1>3. ASSUME NEW q \in Req, SendInvalidate(q) PROVE TableAges
  <2>1. CASE UNCHANGED otp_records
    BY <1>2, <2>1
  <2>2. CASE otp_records' = [i \in Ids |-> SupersededRow(otp_records[i], body[q].to)]
    <3>1. DOMAIN otp_records = Ids
      BY <1>1
    <3>2. Len(otp_records') = Len(otp_records)
      BY <1>1, <2>2, SweptTableType DEF SweptTable
    <3>3. \A i \in Ids : otp_records'[i] = SupersededRow(otp_records[i], body[q].to)
      BY <2>2
    <3>4. \A i \in Ids : Ages(otp_records[i], otp_records'[i])
      BY <1>1, <3>3, SupersededAges
    <3> QED BY <3>2, <3>4 DEF TableAges
  <2> QED BY <1>3, <2>1, <2>2 DEF SendInvalidate
<1>4. ASSUME NEW q \in Req, SendInsert(q) PROVE TableAges
  <2> PICK c \in Code : otp_records' \in {otp_records, Append(otp_records, NewRow(body[q].to, c))}
    BY <1>4 DEF SendInsert
  <2>1. NewRow(body[q].to, c) \in Row
    BY DEF TypeInv, TypeOK, SendBody, VerifyBody, NewRow, Row
  <2>2. CASE otp_records' = Append(otp_records, NewRow(body[q].to, c))
    <3>1. \A i \in Ids : i \in Ids' /\ otp_records'[i] = otp_records[i]
      BY <1>1, <2>1, <2>2
    <3> QED BY <3>1 DEF TableAges, Ages
  <2> QED BY <1>2, <2>2
<1>5. ASSUME NEW o, NEW j \in Ids, NEW r \in Row, Write(o, j, r),
             Ages(otp_records[j], r)
      PROVE  TableAges
  <2>1. \A i \in Ids : i \in Ids' /\ otp_records'[i] \in {otp_records[i], IF i = j THEN r ELSE otp_records[i]}
    BY <1>1, <1>5 DEF Write
  <2> QED BY <1>5, <2>1 DEF TableAges, Ages
<1>6. ASSUME NEW q \in Req, VerifyCount(q) PROVE TableAges
  <2>1. rec[q] \in Ids /\ otp_records[rec[q]] \in Row
    BY <1>1, <1>6 DEF VerifyCount, TypeInv, HoldsRow
  <2>2. seen[q] \in Nat /\ limit[q] \in Limits \cup {0}
    BY DEF TypeInv, TypeOK
  <2>3. seen[q] + 1 \in Nat /\ limit[q] \in Nat
    BY <2>2, LimitType
  <2> DEFINE row == CountedRow(otp_records[rec[q]], seen[q] + 1, limit[q])
  <2>4. row \in Row /\ Ages(otp_records[rec[q]], row)
    <3>1. row \in Row
      BY <2>1, <2>3, CountedRowType
    <3>2. Ages(otp_records[rec[q]], row)
      BY <2>1, <2>3, CountedAges
    <3> QED BY <3>1, <3>2
  <2>5. PICK o \in Outcome("count") : Write(o, rec[q], row)
    BY <1>6 DEF VerifyCount
  <2> HIDE DEF row
  <2> QED BY <1>5, <2>1, <2>4, <2>5
<1>7. ASSUME NEW q \in Req, VerifyMark(q) PROVE TableAges
  <2>1. rec[q] \in Ids /\ otp_records[rec[q]] \in Row
    BY <1>1, <1>7 DEF VerifyMark, TypeInv, HoldsRow
  <2> DEFINE row == VerifiedRow(otp_records[rec[q]])
  <2>2. row \in Row /\ Ages(otp_records[rec[q]], row)
    BY <2>1, VerifiedRowType, VerifiedAges
  <2>3. PICK o \in Outcome("mark") : Write(o, rec[q], row)
    BY <1>7 DEF VerifyMark
  <2> HIDE DEF row
  <2> QED BY <1>5, <2>1, <2>2, <2>3
<1>8. ASSUME NEW q \in Req,
             Arrive(q) \/ RateLimit(q) \/ SendEnqueue(q) \/ VerifyFetch(q)
               \/ VerifyCheck(q) \/ AntiEnumSleep(q)
      PROVE  UNCHANGED otp_records
  BY <1>8 DEF Arrive, RateLimit, SendEnqueue, VerifyFetch, VerifyCheck,
              AntiEnumSleep, TableUnchanged
<1>9. ASSUME ApiCrash \/ (\E p \in Project, n \in Limits : SetOtp(p, n))
               \/ (\E i \in Ids : Expire(i)) \/ UNCHANGED vars
      PROVE  UNCHANGED otp_records
  BY <1>9 DEF ApiCrash, SetOtp, Expire, TableUnchanged, vars
<1> QED
  BY <1>2, <1>3, <1>4, <1>6, <1>7, <1>8, <1>9 DEF Next, Handle

\* No write, however late or repeated, loses a row, gives it to somebody else
\* or takes back that it was verified or invalidated (otp.py 386-391, 415-420).
THEOREM TableOnlyAges == Spec => RowsOnlyAge
<1>1. TypeInv /\ [Next]_vars =>
        [\A i \in Ids :
           /\ i \in DOMAIN otp_records'
           /\ LET old == otp_records[i]
                  new == otp_records'[i]
              IN  /\ new.to = old.to /\ new.otp_hash = old.otp_hash
                  /\ old.is_verified => new.is_verified
                  /\ old.is_invalidated => new.is_invalidated]_vars
  <2> SUFFICES ASSUME TypeInv, [Next]_vars, NEW i \in Ids
               PROVE  /\ i \in DOMAIN otp_records'
                      /\ Ages(otp_records[i], otp_records'[i])
    BY DEF Ages
  <2>1. i \in Ids' /\ Ages(otp_records[i], otp_records'[i])
    BY StepAges DEF TableAges
  <2>2. otp_records' \in Seq(Row)
    BY TypeStep DEF TypeInv, TypeOK
  <2>3. DOMAIN otp_records' = Ids'
    BY <2>2
  <2> QED BY <2>1, <2>3
<1> QED BY <1>1, TypeInit, TypeStep, PTL DEF Spec, RowsOnlyAge

-----------------------------------------------------------------------------
(* A superseded row stays superseded.                                      *)

\* What a send covered was in the table.
CoveredInv == (\A q \in Req : covered[q] <= Len(otp_records)) /\ SupersededNeverPending

LEMMA CoveredInit == Init => CoveredInv
BY DEF Init, CoveredInv, SupersededNeverPending

\* Only a send's own update changes what it covered, and that update leaves no
\* row of its recipient pending; afterwards the rows only age.
LEMMA CoveredStep ==
  TypeInv /\ TypeInv' /\ CoveredInv /\ [Next]_vars => CoveredInv'
<1> SUFFICES ASSUME TypeInv, TypeInv', CoveredInv, [Next]_vars PROVE CoveredInv'
  OBVIOUS
<1>1. \A i \in Ids : /\ i \in Ids'
                     /\ Ages(otp_records[i], otp_records'[i])
                     /\ otp_records[i] \in Row /\ otp_records'[i] \in Row
  <2>1. TableAges
    BY StepAges
  <2>2. otp_records \in Seq(Row) /\ otp_records' \in Seq(Row)
    BY DEF TypeInv, TypeOK
  <2> QED BY <2>1, <2>2 DEF TableAges
<1>2. Len(otp_records) \in Nat /\ Len(otp_records') \in Nat
  BY DEF TypeInv, TypeOK
<1>3. Len(otp_records) <= Len(otp_records')
  BY <1>1, <1>2
<1>4. \A q \in Req : covered[q] \in Nat
  BY DEF TypeInv, TypeOK
<1>5. body' = body
  BY DEF Next, Handle, Arrive, RateLimit, SendInvalidate, SendInsert, SendEnqueue,
         VerifyFetch, VerifyCheck, VerifyCount, VerifyMark, AntiEnumSleep, ApiCrash,
         SetOtp, Expire, vars
<1>6. ASSUME NEW s \in Req, covered'[s] = covered[s]
      PROVE  /\ covered'[s] <= Len(otp_records')
             /\ \A i \in Ids' : i <= covered'[s] /\ otp_records'[i].to = body'[s].to
                                => ~Pending(otp_records'[i])
  <2>1. covered[s] <= Len(otp_records)
    BY DEF CoveredInv
  <2>2. covered'[s] <= Len(otp_records')
    BY <1>2, <1>3, <1>4, <1>6, <2>1
  <2>3. ASSUME NEW i \in Ids', i <= covered'[s], otp_records'[i].to = body'[s].to
        PROVE  ~Pending(otp_records'[i])
    <3>1. i \in Ids
      BY <1>2, <1>4, <1>6, <2>1, <2>3
    <3>2. otp_records[i].to = body[s].to
      BY <1>1, <1>5, <2>3, <3>1 DEF Ages
    <3>3. ~Pending(otp_records[i])
      BY <1>6, <2>3, <3>1, <3>2 DEF CoveredInv, SupersededNeverPending
    <3> QED BY <1>1, <3>1, <3>3, AgedNotPending
  <2> QED BY <2>2, <2>3
<1>7. ASSUME NEW s \in Req, covered'[s] # covered[s]
      PROVE  /\ covered'[s] <= Len(otp_records')
             /\ \A i \in Ids' : i <= covered'[s] /\ otp_records'[i].to = body'[s].to
                                => ~Pending(otp_records'[i])
  <2>1. PICK q \in Req : SendInvalidate(q)
    BY <1>7 DEF Next, Handle, Arrive, RateLimit, SendInsert, SendEnqueue, VerifyFetch,
                VerifyCheck, VerifyCount, VerifyMark, AntiEnumSleep, ApiCrash, SetOtp,
                Expire, vars
  <2>2. /\ otp_records' = [i \in Ids |-> SupersededRow(otp_records[i], body[q].to)]
        /\ covered' = [covered EXCEPT ![q] = Len(otp_records)]
    BY <1>7, <2>1 DEF SendInvalidate
  <2>3. s = q /\ covered'[s] = Len(otp_records)
    BY <1>7, <2>2 DEF TypeInv, TypeOK
  <2>4. ASSUME NEW i \in Ids', i <= covered'[s], otp_records'[i].to = body'[s].to
        PROVE  ~Pending(otp_records'[i])
    <3>1. i \in Ids
      BY <1>2, <2>3, <2>4
    <3>2. otp_records'[i] = SupersededRow(otp_records[i], body[s].to)
      BY <2>2, <2>3, <3>1
    <3>3. otp_records[i].to = body[s].to
      BY <1>1, <1>5, <2>4, <3>1 DEF Ages
    <3> QED BY <1>1, <3>1, <3>2, <3>3 DEF SupersededRow, Pending, Row
  <2> QED BY <1>2, <1>3, <2>3, <2>4
<1> QED BY <1>6, <1>7 DEF CoveredInv, SupersededNeverPending

\* SECURITY.md:95 as far as it holds under overlap and failure: what a send's
\* update reached is never offered for verification again.
THEOREM SupersededStaysClosed == Spec => []SupersededNeverPending
<1>1. CoveredInv => SupersededNeverPending
  BY DEF CoveredInv
<1> QED BY <1>1, TypeInit, TypeStep, CoveredInit, CoveredStep, PTL DEF Spec

-----------------------------------------------------------------------------
(* Tokens are issued for codes of the right recipient.                     *)

Final == {"sleep", "done", "aborted"}

\* What handler q knows of the row it holds, and that a response is only decided
\* on the way out.
HandlerInvOf(q) ==
  /\ pc[q] \in {"check", "count", "mark"} => otp_records[rec[q]].to = body[q].to
  /\ pc[q] = "mark" => otp_records[rec[q]].otp_hash = body[q].code
  /\ reply[q] # "NONE" => pc[q] \in Final
  /\ reply[q] = "VERIFIED" => /\ rec[q] \in Ids
                             /\ otp_records[rec[q]].to = body[q].to
                             /\ otp_records[rec[q]].otp_hash = body[q].code

HandlerInv == \A q \in Req : HandlerInvOf(q)

LEMMA HandlerInit == Init => HandlerInv
BY DEF Init, HandlerInv, HandlerInvOf

\* The bodies never change.
LEMMA BodyFixed == [Next]_vars => body' = body
BY DEF Next, Handle, Arrive, RateLimit, SendInvalidate, SendInsert, SendEnqueue,
       VerifyFetch, VerifyCheck, VerifyCount, VerifyMark, AntiEnumSleep, ApiCrash,
       SetOtp, Expire, vars

\* A step of q leaves the local variables of the other handlers alone.
LEMMA OthersUnchanged ==
  ASSUME TypeInv, NEW q \in Req, Arrive(q) \/ Handle(q), NEW s \in Req, s # q
  PROVE  /\ pc'[s] = pc[s] /\ rec'[s] = rec[s] /\ reply'[s] = reply[s]
         /\ seen'[s] = seen[s] /\ limit'[s] = limit[s]
         /\ s \in wrong' <=> s \in wrong
BY DEF TypeInv, TypeOK, Handle, Arrive, RateLimit, SendInvalidate, SendInsert,
       SendEnqueue, VerifyFetch, VerifyCheck, VerifyCount, VerifyMark, AntiEnumSleep,
       Respond, RespondAfterSleep

\* The other steps leave them alone but for the handlers a crash ends.
LEMMA EnvironmentUnchanged ==
  ASSUME TypeInv,
         \/ ApiCrash
         \/ \E p \in Project, n \in Limits : SetOtp(p, n)
         \/ \E i \in Ids : Expire(i)
         \/ UNCHANGED vars,
         NEW s \in Req
  PROVE  /\ pc'[s] \in {pc[s], "aborted"} /\ rec'[s] = rec[s] /\ reply'[s] = reply[s]
         /\ seen'[s] = seen[s] /\ limit'[s] = limit[s]
         /\ wrong' = wrong /\ otp_records' = otp_records
BY DEF TypeInv, TypeOK, ApiCrash, SetOtp, Expire, TableUnchanged, vars

LEMMA HandlerStep ==
  TypeInv /\ TypeInv' /\ HandlerInv /\ [Next]_vars => HandlerInv'
<1> SUFFICES ASSUME TypeInv, TypeInv', HandlerInv, [Next]_vars, NEW s \in Req
             PROVE  HandlerInvOf(s)'
  BY DEF HandlerInv
<1>1. \A i \in Ids : i \in Ids' /\ Ages(otp_records[i], otp_records'[i])
  BY StepAges DEF TableAges
<1>2. body' = body
  BY BodyFixed
<1>3. HandlerInvOf(s)
  BY DEF HandlerInv
<1>4. pc[s] \in {"check", "count", "mark"} => rec[s] \in Ids
  BY DEF TypeInv, HoldsRow
<1>5. ASSUME rec'[s] = rec[s], reply'[s] = reply[s], pc'[s] \in {pc[s]} \cup Final
      PROVE  HandlerInvOf(s)'
  BY <1>1, <1>2, <1>3, <1>4, <1>5 DEF HandlerInvOf, Ages, Final
<1>6. ASSUME NEW q \in Req, Arrive(q) \/ Handle(q), s # q PROVE HandlerInvOf(s)'
  BY <1>5, <1>6, OthersUnchanged
<1>7. CASE Arrive(s) \/ RateLimit(s) \/ SendInvalidate(s) \/ SendInsert(s)
             \/ SendEnqueue(s) \/ AntiEnumSleep(s)
  BY <1>3, <1>7 DEF HandlerInvOf, Final, Arrive, RateLimit, SendInvalidate, SendInsert,
       SendEnqueue, AntiEnumSleep, Respond, RespondAfterSleep, TypeInv, TypeOK,
       TableUnchanged
<1>8. CASE VerifyFetch(s)
  <2>1. CASE Respond(s, "DB_ERROR") \/ RespondAfterSleep(s, "OTP_NOT_FOUND")
    BY <2>1 DEF Respond, RespondAfterSleep, TypeInv, TypeOK, HandlerInvOf, Final
  <2>2. CASE \E i \in Latest(PendingFor(body[s].to)) :
               /\ rec' = [rec EXCEPT ![s] = i]
               /\ pc' = [pc EXCEPT ![s] = "check"]
               /\ UNCHANGED reply
    <3> PICK i \in Ids : /\ otp_records[i].to = body[s].to
                         /\ rec' = [rec EXCEPT ![s] = i]
                         /\ pc' = [pc EXCEPT ![s] = "check"]
                         /\ UNCHANGED reply
      BY <2>2 DEF Latest, PendingFor
    <3>1. rec'[s] = i /\ pc'[s] = "check" /\ reply'[s] = reply[s]
      BY DEF TypeInv, TypeOK
    <3>2. otp_records' = otp_records /\ pc[s] = "fetch"
      BY <1>8 DEF VerifyFetch, TableUnchanged
    <3>3. reply[s] = "NONE"
      BY <1>3, <3>2 DEF HandlerInvOf, Final
    <3> QED BY <1>2, <3>1, <3>2, <3>3 DEF HandlerInvOf
  <2> QED BY <1>8, <2>1, <2>2 DEF VerifyFetch
<1>9. CASE VerifyCheck(s)
  BY <1>2, <1>3, <1>9 DEF VerifyCheck, RespondAfterSleep, TableUnchanged, TypeInv, TypeOK,
                          HandlerInvOf, Final
<1>10. CASE VerifyCount(s)
  BY <1>10 DEF VerifyCount, RespondAfterSleep, TypeInv, TypeOK, HandlerInvOf, Final
<1>11. CASE VerifyMark(s)
  <2>1. /\ pc[s] = "mark" /\ rec'[s] = rec[s] /\ pc'[s] = "sleep"
    BY <1>11 DEF VerifyMark, RespondAfterSleep, TypeInv, TypeOK
  <2> QED BY <1>1, <1>2, <1>3, <1>4, <2>1 DEF HandlerInvOf, Ages, Final
<1>12. CASE \/ ApiCrash
            \/ \E p \in Project, n \in Limits : SetOtp(p, n)
            \/ \E i \in Ids : Expire(i)
            \/ UNCHANGED vars
  BY <1>5, <1>12, EnvironmentUnchanged DEF Final
<1> QED
  BY <1>6, <1>7, <1>8, <1>9, <1>10, <1>11, <1>12 DEF Next, Handle

\* Whoever is given a token quoted the code of a row of the project and address
\* the token is for, under any overlap, failing call or crash.
THEOREM TokensAreSound == Spec => []TokenSound
<1>1. HandlerInv => TokenSound
  BY DEF HandlerInv, HandlerInvOf, TokenSound
<1> QED BY <1>1, TypeInit, TypeStep, HandlerInit, HandlerStep, PTL DEF Spec

-----------------------------------------------------------------------------
(* Writes stay within the recipient of the request.                        *)

\* Handler q takes a step and leaves the rows of everybody else as they are.
WritesOwn(q) ==
  /\ pc'[q] # pc[q]
  /\ \A i \in Ids : otp_records'[i] # otp_records[i] => otp_records[i].to = body[q].to

\* A step changes no row, or is one of a request that changes only its own.
LEMMA StepWritesOwn ==
  TypeInv /\ HandlerInv /\ [Next]_vars =>
    \/ \A i \in Ids : otp_records'[i] = otp_records[i]
    \/ \E q \in Req : WritesOwn(q)
<1> DEFINE Untouched == \A i \in Ids : otp_records'[i] = otp_records[i]
<1> SUFFICES ASSUME TypeInv, HandlerInv, [Next]_vars
             PROVE  Untouched \/ \E q \in Req : WritesOwn(q)
  OBVIOUS
<1>1. otp_records \in Seq(Row) /\ pc \in [Req -> Step \cup {"idle", "done", "aborted"}]
  BY DEF TypeInv, TypeOK
<1>2. ASSUME NEW q \in Req, SendInvalidate(q) PROVE Untouched \/ WritesOwn(q)
  <2>1. pc'[q] # pc[q]
    BY <1>1, <1>2 DEF SendInvalidate
  <2>2. CASE otp_records' = [i \in Ids |-> SupersededRow(otp_records[i], body[q].to)]
    BY <2>1, <2>2 DEF WritesOwn, SupersededRow
  <2> QED BY <1>2, <2>2 DEF SendInvalidate
<1>3. ASSUME NEW q \in Req, SendInsert(q) PROVE Untouched
  <2> PICK c \in Code : otp_records' \in {otp_records, Append(otp_records, NewRow(body[q].to, c))}
    BY <1>3 DEF SendInsert
  <2>1. NewRow(body[q].to, c) \in Row
    BY DEF TypeInv, TypeOK, SendBody, VerifyBody, NewRow, Row
  <2> QED BY <1>1, <2>1
\* The updates by id: what the handler fetched is still its own.
<1>4. ASSUME NEW q \in Req, pc[q] \in {"count", "mark"}, pc'[q] = "sleep",
             NEW o, NEW r, Write(o, rec[q], r)
      PROVE  WritesOwn(q)
  <2>1. otp_records[rec[q]].to = body[q].to
    BY <1>4 DEF HandlerInv, HandlerInvOf
  <2>2. \A i \in Ids : i # rec[q] => otp_records'[i] = otp_records[i]
    BY <1>1, <1>4 DEF Write
  <2> QED BY <1>4, <2>1, <2>2 DEF WritesOwn
<1>5. ASSUME NEW q \in Req, VerifyCount(q) PROVE WritesOwn(q)
  <2>1. pc[q] = "count" /\ pc'[q] = "sleep"
    BY <1>1, <1>5 DEF VerifyCount, RespondAfterSleep
  <2> DEFINE row == CountedRow(otp_records[rec[q]], seen[q] + 1, limit[q])
  <2>2. PICK o \in Outcome("count") : Write(o, rec[q], row)
    BY <1>5 DEF VerifyCount
  <2> HIDE DEF row
  <2> QED BY <1>4, <2>1, <2>2
<1>6. ASSUME NEW q \in Req, VerifyMark(q) PROVE WritesOwn(q)
  <2>1. pc[q] = "mark" /\ pc'[q] = "sleep"
    BY <1>1, <1>6 DEF VerifyMark, RespondAfterSleep
  <2> DEFINE row == VerifiedRow(otp_records[rec[q]])
  <2>2. PICK o \in Outcome("mark") : Write(o, rec[q], row)
    BY <1>6 DEF VerifyMark
  <2> HIDE DEF row
  <2> QED BY <1>4, <2>1, <2>2
<1>7. ASSUME NEW q \in Req,
             Arrive(q) \/ RateLimit(q) \/ SendEnqueue(q) \/ VerifyFetch(q)
               \/ VerifyCheck(q) \/ AntiEnumSleep(q)
      PROVE  Untouched
  BY <1>7 DEF Arrive, RateLimit, SendEnqueue, VerifyFetch, VerifyCheck,
              AntiEnumSleep, TableUnchanged
<1>8. ASSUME ApiCrash \/ (\E p \in Project, n \in Limits : SetOtp(p, n))
               \/ (\E i \in Ids : Expire(i)) \/ UNCHANGED vars
      PROVE  Untouched
  BY <1>8 DEF ApiCrash, SetOtp, Expire, TableUnchanged, vars
<1> HIDE DEF Untouched
<1> QED
  BY <1>2, <1>3, <1>5, <1>6, <1>7, <1>8 DEF Next, Handle

\* No request changes a row of another project or address, although a verify
\* names the row it updates by its id alone (otp.py 386-391, 415-420).
THEOREM WritesStayHome == Spec => OnlyOwnRows
<1>1. TypeInv /\ HandlerInv /\ [Next]_vars =>
        [\A i \in Ids : otp_records'[i] # otp_records[i] =>
           \E q \in Req : pc'[q] # pc[q] /\ body[q].to = otp_records[i].to]_vars
  BY StepWritesOwn DEF WritesOwn
<1> QED
  BY <1>1, TypeInit, TypeStep, HandlerInit, HandlerStep, PTL DEF Spec, OnlyOwnRows

-----------------------------------------------------------------------------
(* Nobody is locked out early.                                             *)

\* Counters and snapshots never run ahead of the wrong codes that were answered.
RowCountInv == \A i \in Ids : otp_records[i].attempt_count <= Cardinality(WrongOn(i))

LockInvOf(q) ==
  /\ q \in wrong => pc[q] \in Final /\ rec[q] \in Ids
  /\ pc[q] \in {"check", "count"} => seen[q] <= Cardinality(WrongOn(rec[q]))
  /\ reply[q] = "OTP_LOCKED" => limit[q] <= Cardinality(WrongOn(rec[q]))

LockInv == RowCountInv /\ \A q \in Req : LockInvOf(q)

LEMMA WrongOnFinite == TypeInv => \A i : IsFiniteSet(WrongOn(i)) /\ Cardinality(WrongOn(i)) \in Nat
<1> SUFFICES ASSUME TypeInv, NEW i
             PROVE  IsFiniteSet(WrongOn(i)) /\ Cardinality(WrongOn(i)) \in Nat
  OBVIOUS
<1>1. WrongOn(i) \subseteq Req
  BY DEF TypeInv, TypeOK, WrongOn
<1>2. IsFiniteSet(WrongOn(i))
  BY <1>1, ReqAssumption, FS_Subset DEF ReqAssumption
<1> QED BY <1>2, FS_CardinalityType

LEMMA LockInit == Init => LockInv
BY DEF Init, LockInv, RowCountInv, LockInvOf

\* A request that was answered keeps its row, so the wrong codes of a row only
\* gather.
LEMMA WrongOnGrows ==
  TypeInv /\ TypeInv' /\ LockInv /\ [Next]_vars =>
    \A i : /\ WrongOn(i) \subseteq WrongOn(i)'
          /\ Cardinality(WrongOn(i)) <= Cardinality(WrongOn(i)')
<1> SUFFICES ASSUME TypeInv, TypeInv', LockInv, [Next]_vars, NEW i
             PROVE  /\ WrongOn(i) \subseteq WrongOn(i)'
                    /\ Cardinality(WrongOn(i)) <= Cardinality(WrongOn(i)')
  OBVIOUS
<1>1. ASSUME NEW s \in wrong PROVE s \in wrong' /\ rec'[s] = rec[s]
  <2>1. s \in Req /\ pc[s] \in Final
    BY DEF TypeInv, TypeOK, LockInv, LockInvOf
  <2>2. ASSUME NEW q \in Req, Arrive(q) \/ Handle(q), s # q
        PROVE  s \in wrong' /\ rec'[s] = rec[s]
    BY <2>1, <2>2, OthersUnchanged
  <2>3. CASE Arrive(s) \/ Handle(s)
    BY <2>1, <2>3 DEF Final, Handle, Arrive, RateLimit, SendInvalidate, SendInsert,
                      SendEnqueue, VerifyFetch, VerifyCheck, VerifyCount, VerifyMark,
                      AntiEnumSleep
  <2>4. CASE \/ ApiCrash
             \/ \E p \in Project, n \in Limits : SetOtp(p, n)
             \/ \E j \in Ids : Expire(j)
             \/ UNCHANGED vars
    BY <2>1, <2>4, EnvironmentUnchanged
  <2> QED BY <2>2, <2>3, <2>4 DEF Next
<1>2. WrongOn(i) \subseteq WrongOn(i)'
  BY <1>1 DEF WrongOn
<1>3. IsFiniteSet(WrongOn(i)')
  <2>1. WrongOn(i)' \subseteq Req
    BY DEF TypeInv, TypeOK, WrongOn
  <2> QED BY <2>1, ReqAssumption, FS_Subset DEF ReqAssumption
<1> QED BY <1>2, <1>3, FS_Subset

LEMMA LockStep ==
  TypeInv /\ TypeInv' /\ HandlerInv /\ LockInv /\ [Next]_vars => LockInv'
<1> SUFFICES ASSUME TypeInv, TypeInv', HandlerInv, LockInv, [Next]_vars PROVE LockInv'
  OBVIOUS
<1> DEFINE n(i) == Cardinality(WrongOn(i))
           m(i) == Cardinality({q \in wrong' : rec'[q] = i})
<1>1. \A i : n(i) \in Nat /\ m(i) \in Nat /\ n(i) <= m(i)
  <2>1. \A i : n(i) \in Nat
    BY WrongOnFinite
  <2>2. ASSUME NEW i PROVE m(i) \in Nat
    <3>1. WrongOn(i)' \subseteq Req
      BY DEF TypeInv, TypeOK, WrongOn
    <3>2. IsFiniteSet(WrongOn(i)')
      BY <3>1, ReqAssumption, FS_Subset DEF ReqAssumption
    <3>3. Cardinality(WrongOn(i)') \in Nat
      BY <3>2, FS_CardinalityType
    <3> QED BY <3>3 DEF WrongOn
  <2>3. \A i : n(i) <= m(i)
    BY WrongOnGrows DEF WrongOn
  <2> QED BY <2>1, <2>2, <2>3
<1>2. Len(otp_records) \in Nat /\ otp_records \in Seq(Row)
      /\ \A i \in Ids : i \in Ids' /\ otp_records[i] \in Row
  BY StepAges DEF TypeInv, TypeOK, TableAges
<1>3. \A i \in Ids : otp_records[i].attempt_count \in Nat
                    /\ otp_records[i].attempt_count <= n(i)
  BY <1>2 DEF LockInv, RowCountInv, Row
<1>4. ASSUME \A i \in Ids' :
               \/ i \in Ids /\ otp_records'[i].attempt_count = otp_records[i].attempt_count
               \/ otp_records'[i].attempt_count = 0
      PROVE  RowCountInv'
  <2> SUFFICES ASSUME NEW i \in Ids' PROVE otp_records'[i].attempt_count <= m(i)
    BY DEF RowCountInv, WrongOn
  <2> HIDE DEF n, m
  <2> QED BY <1>1, <1>3, <1>4
<1>5. ASSUME NEW s \in Req, rec'[s] = rec[s], reply'[s] = reply[s], seen'[s] = seen[s],
             limit'[s] = limit[s], pc'[s] \in {pc[s]} \cup Final,
             s \in wrong' <=> s \in wrong
      PROVE  LockInvOf(s)'
  <2>1. seen[s] \in Nat /\ limit[s] \in Nat
    <3>1. limit[s] \in Limits \cup {0}
      BY DEF TypeInv, TypeOK
    <3> QED BY <3>1, LimitType DEF TypeInv, TypeOK
  <2>2. LockInvOf(s)
    BY DEF LockInv
  <2> DEFINE k == n(rec[s])
             l == m(rec[s])
  <2>3. k \in Nat /\ l \in Nat /\ k <= l
    <3> HIDE DEF n, m
    <3> QED BY <1>1
  <2>4. /\ pc[s] \in {"check", "count"} => seen[s] <= k
        /\ reply[s] = "OTP_LOCKED" => limit[s] <= k
    BY <2>2 DEF LockInvOf
  <2>5. /\ pc'[s] \in {"check", "count"} => seen'[s] <= l
        /\ reply'[s] = "OTP_LOCKED" => limit'[s] <= l
    <3> HIDE DEF k, l
    <3> QED BY <1>5, <2>1, <2>3, <2>4 DEF Final
  <2>6. s \in wrong' => pc'[s] \in Final /\ rec'[s] \in Ids'
    BY <1>2, <1>5, <2>2 DEF LockInvOf, Final
  <2> QED BY <1>5, <2>5, <2>6 DEF LockInvOf, WrongOn
<1>6. ASSUME NEW q \in Req, Arrive(q) \/ Handle(q), LockInvOf(q)'
      PROVE  \A s \in Req : LockInvOf(s)'
  BY <1>5, <1>6, OthersUnchanged
<1>7. ASSUME NEW q \in Req, pc[q] \notin Final PROVE q \notin wrong
  BY <1>7 DEF LockInv, LockInvOf
<1>8. ASSUME NEW q \in Req, Arrive(q) \/ RateLimit(q) \/ SendInvalidate(q)
               \/ SendInsert(q) \/ SendEnqueue(q) \/ AntiEnumSleep(q)
      PROVE  LockInv'
  <2>1. CASE AntiEnumSleep(q)
    <3>1. LockInvOf(q)'
      BY <1>5, <2>1 DEF AntiEnumSleep, TypeInv, TypeOK, Final
    <3>2. RowCountInv'
      BY <1>4, <2>1 DEF AntiEnumSleep, TableUnchanged
    <3> QED BY <1>6, <2>1, <3>1, <3>2 DEF LockInv, Handle
  <2>2. CASE ~AntiEnumSleep(q)
    <3>1. pc[q] \notin Final /\ q \notin wrong' /\ pc'[q] \notin {"check", "count"} 
      BY <1>7, <1>8, <2>2 DEF Arrive, RateLimit, SendInvalidate, SendInsert, SendEnqueue,
           Respond, RespondAfterSleep, Final, TypeInv, TypeOK
    <3>2. reply'[q] # "OTP_LOCKED"
      <4>1. reply[q] = "NONE"
        BY <3>1 DEF HandlerInv, HandlerInvOf
      <4> QED BY <1>8, <2>2, <4>1 DEF Arrive, RateLimit, SendInvalidate, SendInsert,
                SendEnqueue, Respond, RespondAfterSleep, TypeInv, TypeOK
    <3>3. LockInvOf(q)'
      BY <3>1, <3>2 DEF LockInvOf
    <3>4. RowCountInv'
      <4>1. CASE UNCHANGED otp_records
        BY <1>4, <4>1
      <4>2. CASE SendInvalidate(q)
        <5>1. CASE otp_records' = [i \in Ids |-> SupersededRow(otp_records[i], body[q].to)]
          <6>1. Ids' = Ids
            BY <1>2, <5>1, SweptTableType DEF SweptTable
          <6>2. \A i \in Ids : otp_records'[i].attempt_count = otp_records[i].attempt_count
            BY <1>2, <5>1 DEF SupersededRow, Row
          <6> QED BY <1>4, <6>1, <6>2
        <5> QED BY <4>1, <4>2, <5>1 DEF SendInvalidate
      <4>3. CASE SendInsert(q)
        <5> PICK c \in Code :
               otp_records' \in {otp_records, Append(otp_records, NewRow(body[q].to, c))}
          BY <4>3 DEF SendInsert
        <5>1. CASE otp_records' = Append(otp_records, NewRow(body[q].to, c))
          <6>1. \A i \in Ids' : \/ i \in Ids /\ otp_records'[i] = otp_records[i]
                                \/ otp_records'[i] = NewRow(body[q].to, c)
            BY <1>2, <5>1
          <6>2. NewRow(body[q].to, c).attempt_count = 0
            BY DEF NewRow
          <6> QED BY <1>4, <6>1, <6>2
        <5> QED BY <4>1, <5>1
      <4> QED BY <1>8, <2>2, <4>1, <4>2, <4>3 DEF Arrive, RateLimit, SendEnqueue, TableUnchanged
    <3> QED BY <1>6, <1>8, <3>3, <3>4 DEF LockInv, Handle
  <2> QED BY <2>1, <2>2
<1>9. ASSUME NEW q \in Req, VerifyFetch(q) PROVE LockInv'
  <2>1. otp_records' = otp_records /\ pc[q] = "fetch" /\ q \notin wrong'
    BY <1>7, <1>9 DEF VerifyFetch, TableUnchanged, Final
  <2>2. reply[q] = "NONE"
    BY <2>1 DEF HandlerInv, HandlerInvOf, Final
  <2>3. RowCountInv'
    BY <1>4, <2>1
  <2>4. CASE Respond(q, "DB_ERROR") \/ RespondAfterSleep(q, "OTP_NOT_FOUND")
    <3>1. LockInvOf(q)'
      BY <2>1, <2>4 DEF Respond, RespondAfterSleep, LockInvOf, TypeInv, TypeOK
    <3> QED BY <1>6, <1>9, <2>3, <3>1 DEF LockInv, Handle
  <2>5. CASE \E i \in Latest(PendingFor(body[q].to)) :
               /\ rec' = [rec EXCEPT ![q] = i]
               /\ seen' = [seen EXCEPT ![q] = otp_records[i].attempt_count]
               /\ UNCHANGED reply
    <3> PICK i \in Ids : /\ rec' = [rec EXCEPT ![q] = i]
                         /\ seen' = [seen EXCEPT ![q] = otp_records[i].attempt_count]
                         /\ UNCHANGED reply
      BY <2>5 DEF Latest, PendingFor
    <3>1. rec'[q] = i /\ seen'[q] = otp_records[i].attempt_count /\ reply'[q] = "NONE"
      BY <2>2 DEF TypeInv, TypeOK
    <3>2. seen'[q] <= m(i)
      <4> HIDE DEF n, m
      <4> QED BY <1>1, <1>3, <3>1
    <3>3. LockInvOf(q)'
      BY <2>1, <3>1, <3>2 DEF LockInvOf, WrongOn
    <3> QED BY <1>6, <1>9, <2>3, <3>3 DEF LockInv, Handle
  <2> QED BY <1>9, <2>4, <2>5 DEF VerifyFetch
<1>10. ASSUME NEW q \in Req, VerifyCheck(q) PROVE LockInv'
  <2>1. /\ otp_records' = otp_records /\ rec' = rec /\ seen' = seen /\ limit' = limit
        /\ wrong' = wrong /\ pc[q] = "check" /\ q \notin wrong
    BY <1>7, <1>10 DEF VerifyCheck, TableUnchanged, Final
  <2>2. seen[q] <= n(rec[q]) /\ reply[q] = "NONE"
    BY <2>1 DEF LockInv, LockInvOf, HandlerInv, HandlerInvOf, Final
  <2>3. seen[q] <= m(rec'[q])
    BY <2>1, <2>2 DEF WrongOn
  <2>4. reply'[q] = "OTP_LOCKED" => seen[q] >= limit[q]
    BY <1>10, <2>2 DEF VerifyCheck, RespondAfterSleep, TypeInv, TypeOK
  <2>5. seen[q] \in Nat /\ limit[q] \in Nat /\ m(rec'[q]) \in Nat
    <3>1. limit[q] \in Limits \cup {0} /\ seen[q] \in Nat
      BY DEF TypeInv, TypeOK
    <3> HIDE DEF n, m
    <3> QED BY <1>1, <3>1, LimitType
  <2>6. LockInvOf(q)'
    <3>1. reply'[q] = "OTP_LOCKED" => limit[q] <= m(rec'[q])
      <4> HIDE DEF m
      <4> QED BY <2>3, <2>4, <2>5
    <3> QED BY <2>1, <2>3, <3>1 DEF LockInvOf, WrongOn
  <2>7. RowCountInv'
    BY <1>4, <2>1
  <2> QED BY <1>6, <1>10, <2>6, <2>7 DEF LockInv, Handle
<1>11. ASSUME NEW q \in Req, VerifyCount(q) PROVE LockInv'
  <2> DEFINE i == rec[q]
             row == CountedRow(otp_records[i], seen[q] + 1, limit[q])
  <2>1. /\ rec' = rec /\ seen' = seen /\ limit' = limit /\ pc' = [pc EXCEPT ![q] = "sleep"]
        /\ wrong' = wrong \cup {q} /\ pc[q] = "count" /\ q \notin wrong
    BY <1>7, <1>11 DEF VerifyCount, RespondAfterSleep, Final
  <2>2. i \in Ids /\ seen[q] \in Nat /\ limit[q] \in Limits \cup {0}
    BY <2>1 DEF TypeInv, HoldsRow, TypeOK
  <2>3. limit[q] \in Nat
    BY <2>2, LimitType
  <2>4. seen[q] <= n(i)
    BY <2>1 DEF LockInv, LockInvOf
  <2>5. m(i) = n(i) + 1
    <3>1. {w \in wrong' : rec'[w] = i} = WrongOn(i) \cup {q}
      BY <2>1 DEF WrongOn, TypeInv, TypeOK
    <3>2. q \notin WrongOn(i)
      BY <2>1 DEF WrongOn
    <3>3. IsFiniteSet(WrongOn(i))
      BY WrongOnFinite
    <3> QED BY <3>1, <3>2, <3>3, FS_AddElement
  <2>6. seen[q] + 1 <= m(i)
    <3>1. n(i) \in Nat
      BY WrongOnFinite
    <3> HIDE DEF n, m, i
    <3> QED BY <2>2, <2>4, <2>5, <3>1
  <2>7. RowCountInv'
    <3> SUFFICES ASSUME NEW j \in Ids' PROVE otp_records'[j].attempt_count <= m(j)
      BY DEF RowCountInv, WrongOn
    <3>1. PICK o \in Outcome("count") : Write(o, i, row)
      BY <1>11 DEF VerifyCount
    <3>2. otp_records[i] \in Row
      BY <1>2, <2>2
    <3>3. row \in Row /\ row.attempt_count = seen[q] + 1
      <4>1. row \in Row
        <5>1. seen[q] + 1 \in Nat
          BY <2>2
        <5> QED BY <2>3, <3>2, <5>1, CountedRowType
      <4>2. row.attempt_count = seen[q] + 1
        BY <3>2 DEF CountedRow, Row
      <4> QED BY <4>1, <4>2
    <3>4. j \in Ids /\ otp_records'[j] \in {otp_records[j], IF j = i THEN row ELSE otp_records[j]}
      <4> HIDE DEF row, i
      <4> QED BY <1>2, <2>2, <3>1, <3>3 DEF Write
    <3>5. otp_records[j].attempt_count <= m(j)
      <4> HIDE DEF n, m
      <4> QED BY <1>1, <1>3, <3>4
    <3> HIDE DEF m, row, i
    <3> QED BY <2>6, <3>3, <3>4, <3>5
  <2>8. LockInvOf(q)'
    <3>1. pc'[q] = "sleep" /\ rec'[q] = i /\ i \in Ids'
      BY <1>2, <2>1, <2>2 DEF TypeInv, TypeOK
    <3>2. reply'[q] = "OTP_LOCKED" => limit'[q] <= seen[q] + 1
      BY <1>11, <2>1, <2>2, <2>3 DEF VerifyCount, RespondAfterSleep, TypeInv, TypeOK
    <3>3. reply'[q] = "OTP_LOCKED" => limit'[q] <= m(i)
      <4>1. m(i) \in Nat
        <5> HIDE DEF n, m
        <5> QED BY <1>1
      <4> HIDE DEF m, i
      <4> QED BY <2>1, <2>2, <2>3, <2>6, <3>2, <4>1
    <3> QED BY <3>1, <3>3 DEF LockInvOf, WrongOn, Final
  <2>9. \A s \in Req : LockInvOf(s)'
    BY <1>6, <1>11, <2>8 DEF Handle
  <2> QED BY <2>7, <2>9 DEF LockInv
<1>12. ASSUME NEW q \in Req, VerifyMark(q) PROVE LockInv'
  <2>1. /\ pc[q] = "mark" /\ q \notin wrong' /\ pc'[q] = "sleep" /\ reply'[q] = "VERIFIED"
    BY <1>7, <1>12 DEF VerifyMark, RespondAfterSleep, Final, TypeInv, TypeOK
  <2>2. rec[q] \in Ids /\ otp_records[rec[q]] \in Row
    BY <1>2, <2>1 DEF TypeInv, HoldsRow
  <2>3. LockInvOf(q)'
    BY <2>1 DEF LockInvOf
  <2> DEFINE i == rec[q]
             row == VerifiedRow(otp_records[i])
  <2>4. PICK o \in Outcome("mark") : Write(o, i, row)
    BY <1>12 DEF VerifyMark
  <2>5. row \in Row /\ row.attempt_count = otp_records[i].attempt_count
    BY <2>2 DEF VerifiedRow, Row
  <2>6. \A j \in Ids' : j \in Ids /\ otp_records'[j].attempt_count = otp_records[j].attempt_count
    <3> HIDE DEF row, i
    <3> QED BY <1>2, <2>2, <2>4, <2>5 DEF Write
  <2>7. RowCountInv'
    BY <1>4, <2>6
  <2> QED BY <1>6, <1>12, <2>3, <2>7 DEF LockInv, Handle
<1>13. ASSUME \/ ApiCrash
              \/ \E p \in Project, k \in Limits : SetOtp(p, k)
              \/ \E i \in Ids : Expire(i)
              \/ UNCHANGED vars
       PROVE  LockInv'
  <2>1. \A s \in Req : LockInvOf(s)'
    BY <1>5, <1>13, EnvironmentUnchanged DEF Final
  <2>2. otp_records' = otp_records
    BY <1>13 DEF ApiCrash, SetOtp, Expire, TableUnchanged, vars
  <2> QED BY <1>4, <2>1, <2>2 DEF LockInv
<1> QED
  BY <1>8, <1>9, <1>10, <1>11, <1>12, <1>13 DEF Next, Handle

\* However attempts overlap and whichever counter updates fail, whoever is
\* answered OTP_LOCKED is locked by at least `limit` wrong codes.
THEOREM LocksAreJustified == Spec => []LockJustified
<1>1. LockInv => LockJustified
  BY DEF LockInv, LockInvOf, LockJustified
<1> QED
  BY <1>1, TypeInit, TypeStep, HandlerInit, HandlerStep, LockInit, LockStep, PTL DEF Spec

-----------------------------------------------------------------------------
(* Expired codes.                                                          *)

Redeemed(i) == i \in Ids /\ otp_records[i].is_verified

\* Row i has expired unredeemed and nobody is past the expiry check with it.
Gone(i) ==
  /\ i \in expired
  /\ ~Redeemed(i)
  /\ \A q \in Req : ~(pc[q] = "mark" /\ rec[q] = i)

\* Nobody passes the check with it again, and no other write than that of the mark
\* makes a row verified.
LEMMA GoneForGood == ASSUME TypeInv, TypeInv', [Next]_vars, NEW i, Gone(i) PROVE Gone(i)'
<1>1. /\ i \in Ids /\ i \in expired /\ ~otp_records[i].is_verified
      /\ otp_records \in Seq(Row) /\ otp_records[i] \in Row
  BY DEF Gone, Redeemed, TypeInv, TypeOK
<1>2. i \in expired'
  BY <1>1 DEF Next, Handle, Arrive, RateLimit, SendInvalidate, SendInsert, SendEnqueue, VerifyFetch,
              VerifyCheck, VerifyCount, VerifyMark, AntiEnumSleep, ApiCrash, SetOtp, Expire,
              TableUnchanged, vars
<1>3. \A q \in Req : ~(pc'[q] = "mark" /\ rec'[q] = i)
  <2> SUFFICES ASSUME NEW q \in Req, pc'[q] = "mark" PROVE rec'[q] # i
    OBVIOUS
  <2>1. ASSUME NEW s \in Req, Arrive(s) \/ Handle(s) PROVE rec'[q] # i
    <3>1. CASE s = q
      <4>1. VerifyCheck(q) /\ rec[q] \notin expired
        BY <2>1, <3>1 DEF Handle, Arrive, RateLimit, SendInvalidate, SendInsert, SendEnqueue,
                          VerifyFetch, VerifyCheck, VerifyCount, VerifyMark, AntiEnumSleep,
                          Respond, RespondAfterSleep, TypeInv, TypeOK
      <4> QED BY <1>1, <4>1 DEF VerifyCheck
    <3>2. CASE s # q
      BY <2>1, <3>2, OthersUnchanged DEF Gone
    <3> QED BY <3>1, <3>2
  <2>2. CASE \/ ApiCrash
             \/ \E p \in Project, n \in Limits : SetOtp(p, n)
             \/ \E j \in Ids : Expire(j)
             \/ UNCHANGED vars
    <3>1. pc'[q] \in {pc[q], "aborted"} /\ rec'[q] = rec[q]
      BY <2>2, EnvironmentUnchanged
    <3> QED BY <3>1 DEF Gone
  <2> QED BY <2>1, <2>2 DEF Next
<1>4. ASSUME otp_records' = otp_records PROVE ~otp_records'[i].is_verified
  BY <1>1, <1>4
<1>5. ASSUME NEW q \in Req, SendInvalidate(q) PROVE ~otp_records'[i].is_verified
  <2>1. \/ otp_records' = otp_records
        \/ otp_records' = [j \in Ids |-> SupersededRow(otp_records[j], body[q].to)]
    BY <1>5 DEF SendInvalidate
  <2>2. SupersededRow(otp_records[i], body[q].to).is_verified = otp_records[i].is_verified
    BY <1>1 DEF SupersededRow, Row
  <2> QED BY <1>1, <2>1, <2>2
<1>6. ASSUME NEW q \in Req, SendInsert(q) PROVE ~otp_records'[i].is_verified
  <2> PICK c \in Code : otp_records' \in {otp_records, Append(otp_records, NewRow(body[q].to, c))}
    BY <1>6 DEF SendInsert
  <2>1. NewRow(body[q].to, c) \in Row
    BY DEF TypeInv, TypeOK, SendBody, VerifyBody, NewRow, Row
  <2> QED BY <1>1, <2>1
<1>7. ASSUME NEW q \in Req, VerifyCount(q) PROVE ~otp_records'[i].is_verified
  <2> DEFINE row == CountedRow(otp_records[rec[q]], seen[q] + 1, limit[q])
  <2>1. otp_records[rec[q]] \in Row /\ rec[q] \in Ids
    BY <1>7 DEF VerifyCount, TypeInv, TypeOK, HoldsRow
  <2>2. row.is_verified = otp_records[rec[q]].is_verified
    BY <2>1 DEF CountedRow, Row
  <2>3. otp_records' = otp_records \/ otp_records' = [otp_records EXCEPT ![rec[q]] = row]
    BY <1>7 DEF VerifyCount, Write
  <2> HIDE DEF row
  <2> QED BY <1>1, <2>1, <2>2, <2>3
<1>8. ASSUME NEW q \in Req, VerifyMark(q) PROVE ~otp_records'[i].is_verified
  <2>1. rec[q] # i
    BY <1>8 DEF VerifyMark, Gone
  <2>2. \/ otp_records' = otp_records
        \/ otp_records' = [otp_records EXCEPT ![rec[q]] = VerifiedRow(otp_records[rec[q]])]
    BY <1>8 DEF VerifyMark, Write
  <2> QED BY <1>1, <2>1, <2>2
<1>9. ~otp_records'[i].is_verified
  <2>1. ASSUME NEW q \in Req,
               Arrive(q) \/ RateLimit(q) \/ SendEnqueue(q) \/ VerifyFetch(q)
                 \/ VerifyCheck(q) \/ AntiEnumSleep(q)
        PROVE  otp_records' = otp_records
    BY <2>1 DEF Arrive, RateLimit, SendEnqueue, VerifyFetch, VerifyCheck, AntiEnumSleep,
                TableUnchanged
  <2>2. ASSUME ApiCrash \/ (\E p \in Project, n \in Limits : SetOtp(p, n))
                 \/ (\E j \in Ids : Expire(j)) \/ UNCHANGED vars
        PROVE  otp_records' = otp_records
    BY <2>2 DEF ApiCrash, SetOtp, Expire, TableUnchanged, vars
  <2> QED BY <1>4, <1>5, <1>6, <1>7, <1>8, <2>1, <2>2 DEF Next, Handle
<1> QED BY <1>2, <1>3, <1>9 DEF Gone, Redeemed

\* A code that expired before a verify passed its expiry check is never redeemed, whatever
\* is sent, counted or marked afterwards (SECURITY.md:93, otp.py 351-361).
THEOREM ExpiredStaysUnredeemed == Spec => ExpiredNeverRedeemed
<1>1. ASSUME NEW i \in 1..Cardinality(Req) PROVE Spec => [](Gone(i) => []~Redeemed(i))
  <2>1. TypeInv /\ [Next]_vars => TypeInv' /\ (Gone(i) => Gone(i)')
    BY TypeStep, GoneForGood
  <2>2. Gone(i) => ~Redeemed(i)
    BY DEF Gone
  <2> QED BY <2>1, <2>2, TypeInit, PTL DEF Spec
<1> QED BY <1>1 DEF ExpiredNeverRedeemed, Gone, Redeemed

=============================================================================
