--------------------------- MODULE OtpSerialProofs ---------------------------
(***************************************************************************)
(* What SECURITY.md promises of a one-time code holds when the requests of *)
(* one recipient that can spoil the promise do not overlap and the update  *)
(* it hangs on is not lost: for any number of requests, projects,          *)
(* addresses, codes and limits, with crashes, /setotp, expiry and every    *)
(* other failure at any point.  Where all of that is given, the two        *)
(* endpoints implement OtpLifecycle.                                       *)
(***************************************************************************)
EXTENDS OtpEndpointsProofs

USE DEF Ids, Recipient, Step, Reply

-----------------------------------------------------------------------------
(* Who is under way.                                                       *)

Send   == {"limits", "invalidate", "insert", "enqueue"}
Verify == {"fetch", "check", "count", "mark"}

\* A handler is the one for its request, works with a limit that the project had, and
\* counts only below it.
RoleInvOf(q) ==
  /\ pc[q] \in Send => body[q].op = "send"
  /\ pc[q] \in Verify => body[q].op = "verify"
  /\ pc[q] \in Step => limit[q] \in Limits
  /\ pc[q] = "count" => seen[q] < limit[q]

\* Requests that are to be served apart are not under way together.
ApartInv ==
  /\ \A q \in Req : RoleInvOf(q)
  /\ \A q, s \in InFlight : q # s => ~Apart(q, s)

LEMMA ApartInit == Init => ApartInv
BY DEF Init, ApartInv, RoleInvOf, InFlight, Send, Verify

LEMMA ApartStep == TypeInv /\ ApartInv /\ [Next]_vars => ApartInv'
<1> SUFFICES ASSUME TypeInv, ApartInv, [Next]_vars PROVE ApartInv'
  OBVIOUS
<1>1. body' = body
  BY BodyFixed
<1>2. \A s \in Req : body[s] \in SendBody \cup VerifyBody
  BY DEF TypeInv, TypeOK
<1>3. ASSUME NEW s \in Req, pc'[s] \in {pc[s], "aborted"}, limit'[s] = limit[s], seen'[s] = seen[s]
      PROVE  RoleInvOf(s)'
  BY <1>1, <1>3 DEF ApartInv, RoleInvOf, Send, Verify
<1>4. ASSUME NEW q \in Req, Arrive(q) \/ Handle(q) PROVE ApartInv'
  <2>1. RoleInvOf(q)'
    <3>1. CASE Arrive(q)
      <4>1. limit'[q] \in Limits
        BY <1>2, <3>1 DEF Arrive, TypeInv, TypeOK, SendBody, VerifyBody
      <4>2. body[q].op \in {"send", "verify"}
        BY <1>2 DEF SendBody, VerifyBody
      <4> QED BY <1>1, <3>1, <4>1, <4>2
              DEF Arrive, RoleInvOf, Send, Verify, TypeInv, TypeOK
    <3>2. CASE VerifyCheck(q)
      BY <1>1, <3>2 DEF ApartInv, RoleInvOf, VerifyCheck, RespondAfterSleep, Send, Verify,
                        TypeInv, TypeOK
    <3>3. CASE VerifyFetch(q)
      <4>1. pc[q] = "fetch" /\ pc'[q] \in {"check", "sleep", "done"} /\ limit' = limit
        BY <3>3 DEF VerifyFetch, Respond, RespondAfterSleep, TypeInv, TypeOK
      <4> QED BY <1>1, <4>1 DEF ApartInv, RoleInvOf, Send, Verify
    <3>4. CASE Handle(q) /\ ~VerifyCheck(q) /\ ~VerifyFetch(q)
      BY <1>1, <3>4 DEF ApartInv, RoleInvOf, Handle, RateLimit, SendInvalidate, SendInsert,
           SendEnqueue, VerifyCount, VerifyMark, AntiEnumSleep, Respond, RespondAfterSleep,
           Send, Verify, TypeInv, TypeOK
    <3> QED BY <1>4, <3>1, <3>2, <3>3, <3>4
  <2>2. \A s \in Req : s # q => pc'[s] = pc[s] /\ limit'[s] = limit[s] /\ seen'[s] = seen[s]
    BY <1>4, OthersUnchanged
  <2>3. \A s \in Req : RoleInvOf(s)'
    BY <1>3, <2>1, <2>2
  <2>4. \A s \in InFlight : s # q => ~Apart(q, s) /\ ~Apart(s, q)
    <3>1. CASE Arrive(q)
      <4>1. \A s \in InFlight : ~Apart(q, s)
        BY <3>1 DEF Arrive
      <4>2. \A s : {body[q].op, body[s].op} = {body[s].op, body[q].op}
        OBVIOUS
      <4> QED BY <4>1, <4>2 DEF Apart
    <3>2. CASE Handle(q)
      <4>1. q \in InFlight
        BY <3>2 DEF InFlight, Handle, RateLimit, SendInvalidate, SendInsert, SendEnqueue,
                    VerifyFetch, VerifyCheck, VerifyCount, VerifyMark, AntiEnumSleep
      <4> QED BY <4>1 DEF ApartInv
    <3> QED BY <1>4, <3>1, <3>2
  <2>5. \A s \in InFlight' : s # q => s \in InFlight
    BY <2>2 DEF InFlight
  <2>6. \A r, s \in InFlight' : r # s => ~Apart(r, s)
    BY <2>4, <2>5 DEF ApartInv
  <2> QED BY <1>1, <2>3, <2>6 DEF ApartInv, Apart
<1>5. CASE \/ ApiCrash
           \/ \E p \in Project, n \in Limits : SetOtp(p, n)
           \/ \E i \in Ids : Expire(i)
           \/ UNCHANGED vars
  <2>1. \A s \in Req : pc'[s] \in {pc[s], "aborted"} /\ limit'[s] = limit[s] /\ seen'[s] = seen[s]
    BY <1>5, EnvironmentUnchanged
  <2>2. \A s \in InFlight' : s \in InFlight
    BY <2>1 DEF InFlight
  <2> QED BY <1>1, <1>3, <2>1, <2>2 DEF ApartInv, Apart
<1> QED BY <1>4, <1>5 DEF Next

\* What holds under any overlap and failure.
Known == TypeInv /\ HandlerInv /\ LockInv /\ ApartInv

LEMMA KnownInit == Init => Known
BY TypeInit, HandlerInit, LockInit, ApartInit DEF Known

LEMMA KnownStep == Known /\ [Next]_vars => Known'
BY TypeStep, HandlerStep, LockStep, ApartStep DEF Known

\* Two handlers past their fetch hold different rows if verifications of one recipient
\* do not overlap.
LEMMA DifferentRows ==
  ASSUME Known, {"verify"} \in Serialised, NEW q \in Req, NEW s \in Req, q # s,
         {pc[q], pc[s]} \subseteq {"check", "count", "mark"}
  PROVE  rec[q] # rec[s]
<1>1. body[q].op = "verify" /\ body[s].op = "verify" /\ ~Apart(q, s)
  BY DEF Known, ApartInv, RoleInvOf, InFlight, Verify
<1>2. {body[q].op, body[s].op} = {"verify"}
  BY <1>1
<1>3. body[q].to # body[s].to
  BY <1>1, <1>2 DEF Apart
<1> QED BY <1>3 DEF Known, HandlerInv, HandlerInvOf

-----------------------------------------------------------------------------
(* The table after a step.                                                 *)

LEMMA AfterInvalidate ==
  ASSUME Known, NEW q \in Req, SendInvalidate(q)
  PROVE  /\ Ids' = Ids
         /\ \A i \in Ids : otp_records'[i] \in {otp_records[i],
                                               SupersededRow(otp_records[i], body[q].to)}
         /\ "invalidate" \notin Unapplied =>
              /\ otp_records' = SweptTable(body[q].to)
              /\ \A i \in Ids : otp_records'[i] = SupersededRow(otp_records[i], body[q].to)
<1>1. otp_records \in Seq(Row)
  BY DEF Known, TypeInv, TypeOK
<1>2. PICK o \in Outcome("invalidate") :
         otp_records' = IF Applied(o) THEN SweptTable(body[q].to) ELSE otp_records
  BY DEF SendInvalidate, SweptTable
<1>3. "invalidate" \notin Unapplied => Applied(o)
  BY <1>2 DEF Outcome, Applied
<1>4. Len(SweptTable(body[q].to)) = Len(otp_records)
  BY <1>1, SweptTableType
<1>5. \A i \in Ids : SweptTable(body[q].to)[i] = SupersededRow(otp_records[i], body[q].to)
  BY DEF SweptTable
<1> QED BY <1>2, <1>3, <1>4, <1>5

LEMMA AfterInsert ==
  ASSUME Known, NEW q \in Req, SendInsert(q)
  PROVE  /\ Ids \subseteq Ids' /\ \A i \in Ids : otp_records'[i] = otp_records[i]
         /\ \A i \in Ids' \ Ids :
              /\ i = Len(otp_records) + 1
              /\ \E c \in Code : /\ otp_records'[i] = NewRow(body[q].to, c)
                                 /\ NewRow(body[q].to, c) \in Row
                                 /\ otp_records' = Append(otp_records, NewRow(body[q].to, c))
<1>1. otp_records \in Seq(Row) /\ Len(otp_records) \in Nat
  BY DEF Known, TypeInv, TypeOK
<1> PICK c \in Code : otp_records' \in {otp_records, Append(otp_records, NewRow(body[q].to, c))}
  BY DEF SendInsert
<1>2. NewRow(body[q].to, c) \in Row
  BY DEF Known, TypeInv, TypeOK, SendBody, VerifyBody, NewRow, Row
<1>3. CASE otp_records' = otp_records
  BY <1>3
<1>4. CASE otp_records' = Append(otp_records, NewRow(body[q].to, c))
  <2> DEFINE row == NewRow(body[q].to, c)
             k == Len(otp_records) + 1
  <2> HIDE DEF row
  <2>1. Ids' = 1..k /\ otp_records'[k] = row /\ \A i \in Ids : otp_records'[i] = otp_records[i]
    BY <1>1, <1>2, <1>4 DEF row
  <2>2. \A i \in Ids' \ Ids : i = k
    BY <1>1, <2>1
  <2>3. Ids \subseteq Ids'
    BY <1>1, <2>1
  <2> HIDE DEF k
  <2>4. ASSUME NEW i \in Ids' \ Ids
        PROVE  \E d \in Code : /\ otp_records'[i] = NewRow(body[q].to, d)
                               /\ NewRow(body[q].to, d) \in Row
                               /\ otp_records' = Append(otp_records, NewRow(body[q].to, d))
    <3> WITNESS c \in Code
    <3> QED BY <1>2, <1>4, <2>1, <2>2, <2>4 DEF row
  <2> QED BY <2>1, <2>2, <2>3, <2>4 DEF k
<1> QED BY <1>3, <1>4

LEMMA AfterWrite ==
  ASSUME Known, NEW o, NEW i \in Ids, NEW r \in Row, Write(o, i, r)
  PROVE  /\ Ids' = Ids
         /\ \A j \in Ids : otp_records'[j] = IF j = i /\ Applied(o) THEN r ELSE otp_records[j]
BY DEF Write, Known, TypeInv, TypeOK

LEMMA AfterCount ==
  ASSUME Known, NEW q \in Req, VerifyCount(q)
  PROVE  LET row == CountedRow(otp_records[rec[q]], seen[q] + 1, limit[q])
         IN  /\ rec[q] \in Ids /\ otp_records[rec[q]] \in Row /\ row \in Row /\ Ids' = Ids
             /\ row.is_verified = otp_records[rec[q]].is_verified
             /\ row.attempt_count = seen[q] + 1
             /\ \A j \in Ids : otp_records'[j] \in {otp_records[j], IF j = rec[q] THEN row
                                                                   ELSE otp_records[j]}
             /\ "count" \notin Unapplied =>
                  \A j \in Ids : otp_records'[j] = IF j = rec[q] THEN row ELSE otp_records[j]
<1> DEFINE row == CountedRow(otp_records[rec[q]], seen[q] + 1, limit[q])
<1>1. /\ rec[q] \in Ids /\ otp_records[rec[q]] \in Row
      /\ seen[q] \in Nat /\ limit[q] \in Limits \cup {0}
  BY DEF VerifyCount, Known, TypeInv, HoldsRow, TypeOK
<1>2. seen[q] + 1 \in Nat /\ limit[q] \in Nat
  BY <1>1, LimitType
<1>3. /\ row \in Row /\ row.is_verified = otp_records[rec[q]].is_verified
      /\ row.attempt_count = seen[q] + 1
  <2>1. row \in Row
    BY <1>1, <1>2, CountedRowType
  <2> QED BY <1>1, <2>1 DEF CountedRow, Row
<1>4. PICK o \in Outcome("count") : Write(o, rec[q], row)
  BY DEF VerifyCount
<1>5. "count" \notin Unapplied => Applied(o)
  BY <1>4 DEF Outcome, Applied
<1> HIDE DEF row
<1>6. /\ Ids' = Ids
      /\ \A j \in Ids : otp_records'[j] = IF j = rec[q] /\ Applied(o) THEN row ELSE otp_records[j]
  BY <1>1, <1>3, <1>4, AfterWrite
<1> QED BY <1>1, <1>3, <1>5, <1>6 DEF row

LEMMA AfterMark ==
  ASSUME Known, NEW q \in Req, VerifyMark(q)
  PROVE  LET row == VerifiedRow(otp_records[rec[q]])
         IN  /\ rec[q] \in Ids /\ otp_records[rec[q]] \in Row /\ row \in Row /\ Ids' = Ids
             /\ row.is_verified
             /\ row.attempt_count = otp_records[rec[q]].attempt_count
             /\ \A j \in Ids : otp_records'[j] \in {otp_records[j], IF j = rec[q] THEN row
                                                                   ELSE otp_records[j]}
             /\ "mark" \notin Unapplied =>
                  \A j \in Ids : otp_records'[j] = IF j = rec[q] THEN row ELSE otp_records[j]
<1> DEFINE row == VerifiedRow(otp_records[rec[q]])
<1>1. rec[q] \in Ids /\ otp_records[rec[q]] \in Row
  BY DEF VerifyMark, Known, TypeInv, HoldsRow, TypeOK
<1>2. /\ row \in Row /\ row.is_verified /\ row.attempt_count = otp_records[rec[q]].attempt_count
  BY <1>1 DEF VerifiedRow, Row
<1>3. PICK o \in Outcome("mark") : Write(o, rec[q], row)
  BY DEF VerifyMark
<1>4. "mark" \notin Unapplied => Applied(o)
  BY <1>3 DEF Outcome, Applied
<1> HIDE DEF row
<1>5. /\ Ids' = Ids
      /\ \A j \in Ids : otp_records'[j] = IF j = rec[q] /\ Applied(o) THEN row ELSE otp_records[j]
  BY <1>1, <1>2, <1>3, AfterWrite
<1> QED BY <1>1, <1>2, <1>4, <1>5 DEF row

\* The steps that write no row.
LEMMA SameTable ==
  [Next]_vars => \/ otp_records' = otp_records
                 \/ \E q \in Req : \/ SendInvalidate(q) \/ SendInsert(q)
                                   \/ VerifyCount(q) \/ VerifyMark(q)
BY DEF Next, Handle, Arrive, RateLimit, SendEnqueue, VerifyFetch, VerifyCheck, AntiEnumSleep,
       ApiCrash, SetOtp, Expire, TableUnchanged, vars

\* Who writes what: a row is verified by a mark only, counted by a count only and
\* closed by one of them or by a send to its recipient.
LEMMA Writers ==
  ASSUME Known, [Next]_vars, NEW i \in Ids
  PROVE  /\ i \in Ids'
         /\ otp_records'[i].is_verified # otp_records[i].is_verified =>
              \E q \in Req : VerifyMark(q) /\ rec[q] = i
         /\ otp_records'[i].attempt_count # otp_records[i].attempt_count =>
              \E q \in Req : VerifyCount(q) /\ rec[q] = i
         /\ otp_records'[i] # otp_records[i] =>
              \E q \in Req : \/ SendInvalidate(q) /\ body[q].to = otp_records[i].to
                             \/ (VerifyCount(q) \/ VerifyMark(q)) /\ rec[q] = i
<1>1. otp_records[i] \in Row
  BY DEF Known, TypeInv, TypeOK
<1>2. i \in Ids'
  BY StepAges DEF Known, TableAges
<1>3. ASSUME NEW q \in Req, SendInvalidate(q)
      PROVE  /\ otp_records'[i].is_verified = otp_records[i].is_verified
             /\ otp_records'[i].attempt_count = otp_records[i].attempt_count
             /\ otp_records'[i] # otp_records[i] => body[q].to = otp_records[i].to
  <2>1. otp_records'[i] \in {otp_records[i], SupersededRow(otp_records[i], body[q].to)}
    BY <1>3, AfterInvalidate
  <2> QED BY <1>1, <2>1 DEF SupersededRow, Row
<1>4. ASSUME NEW q \in Req, SendInsert(q) PROVE otp_records'[i] = otp_records[i]
  BY <1>4, AfterInsert
<1>5. ASSUME NEW q \in Req, VerifyCount(q)
      PROVE  /\ otp_records'[i].is_verified = otp_records[i].is_verified
             /\ otp_records'[i] # otp_records[i] => rec[q] = i
  BY <1>5, AfterCount
<1>6. ASSUME NEW q \in Req, VerifyMark(q)
      PROVE  /\ otp_records'[i].attempt_count = otp_records[i].attempt_count
             /\ otp_records'[i] # otp_records[i] => rec[q] = i
  BY <1>6, AfterMark
<1>7. CASE otp_records' = otp_records
  BY <1>2, <1>7
<1> QED BY <1>2, <1>3, <1>4, <1>5, <1>6, <1>7, SameTable

\* New rows are those of an insert.
LEMMA NewRows ==
  ASSUME Known, [Next]_vars, NEW i \in Ids' \ Ids
  PROVE  \E q \in Req : /\ SendInsert(q) /\ i = Len(otp_records) + 1
                        /\ \E c \in Code : /\ otp_records'[i] = NewRow(body[q].to, c)
                                           /\ NewRow(body[q].to, c) \in Row
<1>1. PICK q \in Req : SendInsert(q)
  BY SameTable, AfterInvalidate, AfterCount, AfterMark
<1>2. /\ i = Len(otp_records) + 1
      /\ \E c \in Code : otp_records'[i] = NewRow(body[q].to, c) /\ NewRow(body[q].to, c) \in Row
  BY <1>1, AfterInsert
<1> QED BY <1>1, <1>2

\* How a handler comes to be where it is.
LEMMA Moves ==
  ASSUME Known, [Next]_vars, NEW q \in Req
  PROVE  /\ pc'[q] = "insert" => pc[q] = "insert" \/ SendInvalidate(q)
         /\ pc'[q] = "check" =>
              \/ pc[q] = "check" /\ rec'[q] = rec[q] /\ seen'[q] = seen[q]
              \/ /\ rec'[q] \in PendingFor(body[q].to) /\ otp_records' = otp_records
                 /\ seen'[q] = otp_records[rec'[q]].attempt_count
         /\ pc'[q] \in {"count", "mark"} =>
              pc[q] \in {"check", pc'[q]} /\ rec'[q] = rec[q] /\ seen'[q] = seen[q]
         /\ reply'[q] = "VERIFIED" =>
              \/ VerifyMark(q) /\ rec'[q] = rec[q]
              \/ reply[q] = "VERIFIED" /\ rec'[q] = rec[q]
         /\ q \in wrong' =>
              \/ VerifyCount(q) /\ rec'[q] = rec[q]
              \/ q \in wrong /\ rec'[q] = rec[q]
<1>1. reply[q] # "NONE" => pc[q] \in Final
  BY DEF Known, HandlerInv, HandlerInvOf
<1>2. q \in wrong => pc[q] \in Final
  BY DEF Known, LockInv, LockInvOf
<1>3. TypeInv
  BY DEF Known
<1>4. CASE VerifyFetch(q)
  <2>1. CASE \E i \in Latest(PendingFor(body[q].to)) :
               /\ rec' = [rec EXCEPT ![q] = i]
               /\ seen' = [seen EXCEPT ![q] = otp_records[i].attempt_count]
               /\ pc' = [pc EXCEPT ![q] = "check"]
               /\ UNCHANGED reply
    <3> PICK i \in PendingFor(body[q].to) :
               /\ rec' = [rec EXCEPT ![q] = i]
               /\ seen' = [seen EXCEPT ![q] = otp_records[i].attempt_count]
               /\ pc' = [pc EXCEPT ![q] = "check"]
               /\ UNCHANGED reply
      BY <2>1 DEF Latest
    <3>1. /\ rec'[q] = i /\ seen'[q] = otp_records[i].attempt_count /\ pc'[q] = "check"
          /\ reply'[q] = reply[q] /\ pc[q] = "fetch" /\ otp_records' = otp_records /\ wrong' = wrong
      BY <1>3, <1>4 DEF VerifyFetch, TableUnchanged, TypeInv, TypeOK
    <3> QED BY <1>1, <1>2, <3>1 DEF Final
  <2>2. CASE UNCHANGED <<rec, seen>> /\ (Respond(q, "DB_ERROR")
                                        \/ RespondAfterSleep(q, "OTP_NOT_FOUND"))
    BY <1>3, <1>4, <2>2 DEF VerifyFetch, Respond, RespondAfterSleep, TypeInv, TypeOK
  <2> QED BY <1>4, <2>1, <2>2 DEF VerifyFetch
<1>5. CASE Arrive(q) \/ RateLimit(q) \/ SendInvalidate(q) \/ SendEnqueue(q)
           \/ VerifyCheck(q) \/ VerifyCount(q) \/ VerifyMark(q) \/ AntiEnumSleep(q)
  BY <1>1, <1>2, <1>3, <1>5 DEF Arrive, RateLimit, SendInvalidate, SendEnqueue, VerifyCheck,
       VerifyCount, VerifyMark, AntiEnumSleep, Respond, RespondAfterSleep, Final, TypeInv, TypeOK
<1>6. CASE SendInsert(q)
  <2>1. /\ pc[q] = "insert" /\ pc'[q] \in {"enqueue", "done"} /\ wrong' = wrong
        /\ reply'[q] \in {reply[q], "DB_ERROR"}
    BY <1>3, <1>6 DEF SendInsert, Respond, TypeInv, TypeOK
  <2> QED BY <1>1, <1>2, <2>1 DEF Final
<1> DEFINE Moved ==
         /\ pc'[q] = "insert" => pc[q] = "insert" \/ SendInvalidate(q)
         /\ pc'[q] = "check" =>
              \/ pc[q] = "check" /\ rec'[q] = rec[q] /\ seen'[q] = seen[q]
              \/ /\ rec'[q] \in PendingFor(body[q].to) /\ otp_records' = otp_records
                 /\ seen'[q] = otp_records[rec'[q]].attempt_count
         /\ pc'[q] \in {"count", "mark"} =>
              pc[q] \in {"check", pc'[q]} /\ rec'[q] = rec[q] /\ seen'[q] = seen[q]
         /\ reply'[q] = "VERIFIED" =>
              \/ VerifyMark(q) /\ rec'[q] = rec[q]
              \/ reply[q] = "VERIFIED" /\ rec'[q] = rec[q]
         /\ q \in wrong' =>
              \/ VerifyCount(q) /\ rec'[q] = rec[q]
              \/ q \in wrong /\ rec'[q] = rec[q]
<1>7. ASSUME pc'[q] \in {pc[q], "aborted"}, rec'[q] = rec[q], reply'[q] = reply[q],
             seen'[q] = seen[q], (q \in wrong') <=> (q \in wrong)
      PROVE  Moved
  BY <1>7
<1>8. ASSUME NEW s \in Req, s # q, Arrive(s) \/ Handle(s)
      PROVE  /\ pc'[q] = pc[q] /\ rec'[q] = rec[q] /\ reply'[q] = reply[q]
             /\ seen'[q] = seen[q] /\ (q \in wrong' <=> q \in wrong)
  BY <1>3, <1>8, OthersUnchanged
<1>9. CASE \/ ApiCrash
           \/ \E p \in Project, n \in Limits : SetOtp(p, n)
           \/ \E i \in Ids : Expire(i)
           \/ UNCHANGED vars
  BY <1>3, <1>7, <1>9, EnvironmentUnchanged
<1>10. CASE \E s \in Req : s # q /\ (Arrive(s) \/ Handle(s))
  <2> PICK s \in Req : s # q /\ (Arrive(s) \/ Handle(s))
    BY <1>10
  <2>1. /\ pc'[q] = pc[q] /\ rec'[q] = rec[q] /\ reply'[q] = reply[q]
        /\ seen'[q] = seen[q] /\ (q \in wrong' <=> q \in wrong)
    BY <1>8
  <2>2. pc'[q] \in {pc[q], "aborted"}
    BY <2>1
  <2>3. Moved
    BY ONLY <1>7, <2>1, <2>2
  <2> QED BY <2>3
<1> QED BY <1>4, <1>5, <1>6, <1>9, <1>10 DEF Next, Handle

-----------------------------------------------------------------------------
(* One pending code for a recipient.                                       *)

\* Between its update and its insert a send sees to it that its recipient has no
\* pending row.
PendingInv ==
  /\ \A q \in Req : pc[q] = "insert" => PendingFor(body[q].to) = {}
  /\ OnePending

LEMMA PendingStep ==
  ASSUME {"send"} \in Serialised, "invalidate" \notin Unapplied,
         Known, Known', PendingInv, [Next]_vars
  PROVE  PendingInv'
<1>1. body' = body
  BY BodyFixed
<1>2. \A i \in Ids : /\ otp_records[i] \in Row /\ i \in Ids' /\ otp_records'[i] \in Row
                     /\ Ages(otp_records[i], otp_records'[i])
  <2>1. otp_records \in Seq(Row) /\ otp_records' \in Seq(Row)
    BY DEF Known, TypeInv, TypeOK
  <2>2. TableAges
    BY StepAges DEF Known
  <2> QED BY <2>1, <2>2 DEF TableAges
<1>3. \A i \in Ids : Pending(otp_records'[i]) => Pending(otp_records[i])
  BY <1>2, AgedNotPending
<1>4. \A to : PendingFor(to) = {} => PendingFor(to)' \cap Ids = {}
  BY <1>2, <1>3 DEF PendingFor, Ages
\* A row is new only if its recipient had none pending.
<1>5. ASSUME NEW i \in Ids' \ Ids
      PROVE  /\ i = Len(otp_records) + 1
             /\ \E q \in Req : /\ SendInsert(q) /\ pc[q] = "insert"
                               /\ otp_records'[i].to = body[q].to
                               /\ PendingFor(body[q].to) = {}
  <2>1. PICK q \in Req : /\ SendInsert(q) /\ i = Len(otp_records) + 1
                         /\ \E c \in Code : otp_records'[i] = NewRow(body[q].to, c)
    BY NewRows
  <2>2. otp_records'[i].to = body[q].to
    BY <2>1 DEF NewRow
  <2>3. pc[q] = "insert"
    BY <2>1 DEF SendInsert
  <2> QED BY <2>1, <2>2, <2>3 DEF PendingInv
<1>6. ASSUME NEW s \in Req, pc'[s] = "insert" PROVE PendingFor(body[s].to)' = {}
  <2>1. CASE SendInvalidate(s)
    <3>1. Ids' = Ids /\ \A i \in Ids : otp_records'[i] = SupersededRow(otp_records[i], body[s].to)
      BY <2>1, AfterInvalidate
    <3> QED BY <1>1, <1>2, <3>1 DEF PendingFor, Pending, SupersededRow, Row
  <2>2. CASE pc[s] = "insert"
    <3>1. PendingFor(body[s].to) = {}
      BY <2>2 DEF PendingInv
    <3>2. PendingFor(body[s].to)' \cap Ids = {}
      BY <1>1, <1>4, <3>1
    <3>3. ASSUME NEW i \in PendingFor(body[s].to)' PROVE FALSE
      <4>1. i \in Ids' \ Ids /\ otp_records'[i].to = body[s].to
        BY <1>1, <3>2, <3>3 DEF PendingFor
      <4>2. PICK q \in Req : SendInsert(q) /\ pc[q] = "insert" /\ otp_records'[i].to = body[q].to
        BY <1>5, <4>1
      <4>3. pc'[q] # "insert"
        BY <4>2 DEF SendInsert, Respond, Known, TypeInv, TypeOK
      <4>4. q # s /\ body[q].to = body[s].to
        BY <1>6, <4>1, <4>2, <4>3
      <4>5. body[q].op = "send" /\ body[s].op = "send" /\ ~Apart(q, s)
        <5>1. q \in InFlight /\ s \in InFlight
          BY <2>2, <4>2 DEF InFlight
        <5> QED BY <2>2, <4>2, <4>4, <5>1 DEF Known, ApartInv, RoleInvOf, Send
      <4>6. {body[q].op, body[s].op} = {"send"}
        BY <4>5
      <4> QED BY <4>4, <4>5, <4>6 DEF Apart
    <3> QED BY <3>3
  <2> QED BY <1>6, <2>1, <2>2, Moves
<1>7. OnePending'
  <2> SUFFICES ASSUME NEW i \in Ids', NEW j \in Ids', otp_records'[i].to = otp_records'[j].to,
                      Pending(otp_records'[i]), Pending(otp_records'[j])
               PROVE  i = j
    BY DEF OnePending
  <2>1. CASE i \in Ids /\ j \in Ids
    BY <1>2, <1>3, <2>1 DEF PendingInv, OnePending, Ages
  <2>2. ASSUME NEW k \in Ids' \ Ids, NEW l \in Ids, otp_records'[k].to = otp_records'[l].to
        PROVE  ~Pending(otp_records'[l])
    <3> PICK q \in Req : otp_records'[k].to = body[q].to /\ PendingFor(body[q].to) = {}
      BY <1>5
    <3>1. otp_records[l].to = body[q].to
      BY <1>2, <2>2 DEF Ages
    <3> QED BY <1>3, <3>1 DEF PendingFor
  <2>3. CASE i \notin Ids /\ j \notin Ids
    BY <1>5, <2>3
  <2> QED BY <2>1, <2>2, <2>3
<1> QED BY <1>1, <1>6, <1>7 DEF PendingInv

LEMMA PendingInit == Init => PendingInv
<1> SUFFICES ASSUME Init PROVE PendingInv
  OBVIOUS
<1>1. Ids = {} /\ \A q \in Req : pc[q] = "idle"
  BY DEF Init
<1> QED BY <1>1 DEF PendingInv, OnePending

\* SECURITY.md:95: a recipient has one code at a time, as long as its sends do not overlap
\* and no update that closes the old ones is lost before it takes effect; whatever is verified
\* meanwhile, whichever other calls fail, and also when the process stops between that update
\* and the insert (otp.py 213-245).
THEOREM OneCodeAtATime ==
  ASSUME {"send"} \in Serialised, "invalidate" \notin Unapplied
  PROVE  Spec => []OnePending
<1>1. Known /\ PendingInv /\ [Next]_vars => (Known /\ PendingInv)'
  BY KnownStep, PendingStep
<1>2. PendingInv => OnePending
  BY DEF PendingInv
<1> QED BY <1>1, <1>2, KnownInit, PendingInit, PTL DEF Spec

-----------------------------------------------------------------------------
(* One token for a code.                                                   *)

\* Nobody has a token for a row that is about to be redeemed, and a row that was
\* redeemed is marked.
RedeemInv ==
  /\ \A q \in Req :
       /\ pc[q] \in {"check", "mark"} => ~otp_records[rec[q]].is_verified
       /\ reply[q] = "VERIFIED" => otp_records[rec[q]].is_verified
  /\ OneRedemption

LEMMA RedeemStep ==
  ASSUME {"verify"} \in Serialised, "mark" \notin Unapplied,
         Known, Known', RedeemInv, [Next]_vars
  PROVE  RedeemInv'
<1>1. \A s \in Req : pc[s] \in {"check", "mark"} \/ reply[s] = "VERIFIED" => rec[s] \in Ids
  BY DEF Known, TypeInv, HoldsRow, HandlerInv, HandlerInvOf
<1>2. \A i \in Ids : otp_records[i].is_verified => otp_records'[i].is_verified
  BY StepAges DEF Known, TableAges, Ages
<1>3. ASSUME NEW q \in Req, VerifyMark(q)
      PROVE  /\ pc[q] = "mark" /\ rec[q] \in Ids /\ ~otp_records[rec[q]].is_verified
             /\ otp_records'[rec[q]].is_verified /\ pc'[q] = "sleep"
  <2>1. pc[q] = "mark" /\ pc'[q] = "sleep"
    BY <1>3 DEF VerifyMark, RespondAfterSleep, Known, TypeInv, TypeOK
  <2> QED BY <1>1, <1>3, <2>1, AfterMark DEF RedeemInv
<1>4. ASSUME NEW s \in Req, pc'[s] \in {"check", "mark"} PROVE ~otp_records'[rec'[s]].is_verified
  <2>1. CASE rec'[s] \in PendingFor(body[s].to) /\ otp_records' = otp_records
    BY <2>1 DEF PendingFor, Pending
  <2>2. CASE pc[s] \in {"check", "mark"} /\ rec'[s] = rec[s]
    <3>1. ~otp_records[rec[s]].is_verified /\ rec[s] \in Ids
      BY <1>1, <2>2 DEF RedeemInv
    <3>2. ASSUME NEW q \in Req, VerifyMark(q) PROVE rec[q] # rec[s]
      <4>1. pc[q] = "mark" /\ q # s
        BY <1>3, <1>4, <3>2
      <4> QED BY <2>2, <4>1, DifferentRows
    <3> QED BY <2>2, <3>1, <3>2, Writers
  <2> QED BY <1>4, <2>1, <2>2, Moves
<1>5. ASSUME NEW s \in Req, reply'[s] = "VERIFIED"
      PROVE  /\ rec'[s] = rec[s] /\ rec[s] \in Ids /\ otp_records'[rec[s]].is_verified
             /\ \/ VerifyMark(s)
                \/ reply[s] = "VERIFIED" /\ otp_records[rec[s]].is_verified
  <2>1. CASE VerifyMark(s) /\ rec'[s] = rec[s]
    BY <1>3, <2>1
  <2>2. CASE reply[s] = "VERIFIED" /\ rec'[s] = rec[s]
    BY <1>1, <1>2, <2>2 DEF RedeemInv
  <2> QED BY <1>5, <2>1, <2>2, Moves
<1>6. OneRedemption'
  <2> SUFFICES ASSUME NEW q \in Req, NEW s \in Req, reply'[q] = "VERIFIED", reply'[s] = "VERIFIED",
                      rec'[q] = rec'[s]
               PROVE  q = s
    BY DEF OneRedemption
  <2>1. rec[q] = rec[s]
    BY <1>5
  <2>2. CASE reply[q] = "VERIFIED" /\ reply[s] = "VERIFIED"
    BY <2>1, <2>2 DEF RedeemInv, OneRedemption
  <2>3. CASE VerifyMark(q) /\ VerifyMark(s)
    BY <1>3, <2>1, <2>3, DifferentRows
  <2>4. ASSUME NEW r \in Req, VerifyMark(r), NEW t \in Req, otp_records[rec[t]].is_verified
        PROVE  rec[r] # rec[t]
    BY <1>3, <2>4
  <2> QED BY <1>5, <2>1, <2>2, <2>3, <2>4
<1> QED BY <1>4, <1>5, <1>6 DEF RedeemInv

LEMMA RedeemInit == Init => RedeemInv
BY DEF Init, RedeemInv, OneRedemption

\* SECURITY.md:94: a code yields one token, as long as the verifications of a recipient do not
\* overlap and the update that marks the row is not lost; whatever is sent meanwhile
\* (otp.py 413-422).
THEOREM RedeemedOnce ==
  ASSUME {"verify"} \in Serialised, "mark" \notin Unapplied
  PROVE  Spec => []OneRedemption
<1>1. Known /\ RedeemInv /\ [Next]_vars => (Known /\ RedeemInv)'
  BY KnownStep, RedeemStep
<1>2. RedeemInv => OneRedemption
  BY DEF RedeemInv
<1> QED BY <1>1, <1>2, KnownInit, RedeemInit, PTL DEF Spec

-----------------------------------------------------------------------------
(* No more wrong codes than the limit.                                     *)

\* The counter of a row is the number of wrong codes that were answered for it, and a
\* handler's count is that of the row.
CountExact == \A i \in Ids : otp_records[i].attempt_count = Cardinality(WrongOn(i))

CountInv ==
  /\ \A q \in Req : pc[q] \in {"check", "count"} => seen[q] = otp_records[rec[q]].attempt_count
  /\ CountExact
  /\ AttemptLimit

LEMMA CountStep ==
  ASSUME {"verify"} \in Serialised, "count" \notin Unapplied,
         Known, Known', CountInv, [Next]_vars
  PROVE  CountInv'
<1>1. \A s \in Req : pc[s] \in {"check", "count"} => rec[s] \in Ids
  BY DEF Known, TypeInv, HoldsRow
<1>2. \A i \in Ids : i \in Ids'
  BY Writers
<1>3. \A s \in wrong : s \in Req /\ rec[s] \in Ids /\ rec'[s] = rec[s] /\ s \in wrong'
  <2> SUFFICES ASSUME NEW s \in wrong
               PROVE  s \in Req /\ rec[s] \in Ids /\ rec'[s] = rec[s] /\ s \in wrong'
    OBVIOUS
  <2>1. s \in Req /\ rec[s] \in Ids /\ pc[s] \in Final
    BY DEF Known, TypeInv, TypeOK, LockInv, LockInvOf
  <2>2. ASSUME NEW q \in Req, Arrive(q) \/ Handle(q), q # s PROVE rec'[s] = rec[s] /\ s \in wrong'
    BY <2>1, <2>2, OthersUnchanged DEF Known
  <2>3. CASE Arrive(s) \/ Handle(s)
    <3>1. AntiEnumSleep(s)
      BY <2>1, <2>3 DEF Arrive, Handle, RateLimit, SendInvalidate, SendInsert, SendEnqueue,
                        VerifyFetch, VerifyCheck, VerifyCount, VerifyMark, Final
    <3> QED BY <2>1, <3>1 DEF AntiEnumSleep
  <2>4. CASE \/ ApiCrash
             \/ \E p \in Project, n \in Limits : SetOtp(p, n)
             \/ \E i \in Ids : Expire(i)
             \/ UNCHANGED vars
    BY <2>1, <2>4, EnvironmentUnchanged DEF Known
  <2> QED BY <2>1, <2>2, <2>3, <2>4 DEF Next
<1>4. ASSUME NEW q \in Req, VerifyCount(q)
      PROVE  /\ pc[q] = "count" /\ pc'[q] = "sleep" /\ rec[q] \in Ids /\ rec' = rec
             /\ q \notin wrong /\ wrong' = wrong \cup {q} /\ Ids' = Ids
             /\ seen[q] = otp_records[rec[q]].attempt_count
             /\ otp_records'[rec[q]].attempt_count = seen[q] + 1
             /\ \A i \in Ids : i # rec[q] => otp_records'[i] = otp_records[i]
             /\ seen[q] \in Nat /\ limit[q] \in Limits /\ seen[q] < limit[q]
  <2>1. pc[q] = "count" /\ pc'[q] = "sleep" /\ rec' = rec /\ wrong' = wrong \cup {q}
    BY <1>4 DEF VerifyCount, RespondAfterSleep, Known, TypeInv, TypeOK
  <2>2. q \notin wrong
    BY <2>1 DEF Known, LockInv, LockInvOf, Final
  <2>3. seen[q] = otp_records[rec[q]].attempt_count
    BY <2>1 DEF CountInv
  <2>4. limit[q] \in Limits /\ seen[q] < limit[q] /\ seen[q] \in Nat
    BY <2>1 DEF Known, ApartInv, RoleInvOf, TypeInv, TypeOK
  <2>5. /\ rec[q] \in Ids /\ Ids' = Ids
        /\ otp_records'[rec[q]].attempt_count = seen[q] + 1
        /\ \A i \in Ids : i # rec[q] => otp_records'[i] = otp_records[i]
    BY <1>4, AfterCount
  <2> QED BY <2>1, <2>2, <2>3, <2>4, <2>5
<1>5. ASSUME NEW s \in Req, pc'[s] \in {"check", "count"}
      PROVE  seen'[s] = otp_records'[rec'[s]].attempt_count
  <2>1. CASE otp_records' = otp_records /\ seen'[s] = otp_records[rec'[s]].attempt_count
    BY <2>1
  <2>2. CASE pc[s] \in {"check", "count"} /\ rec'[s] = rec[s] /\ seen'[s] = seen[s]
    <3>1. seen[s] = otp_records[rec[s]].attempt_count /\ rec[s] \in Ids
      BY <1>1, <2>2 DEF CountInv
    <3>2. ASSUME NEW q \in Req, VerifyCount(q) PROVE rec[q] # rec[s]
      <4>1. pc[q] = "count" /\ q # s
        BY <1>4, <1>5, <3>2
      <4> QED BY <2>2, <4>1, DifferentRows
    <3> QED BY <2>2, <3>1, <3>2, Writers
  <2> QED BY <1>5, <2>1, <2>2, Moves
\* Somebody is told that the code is wrong: one more attempt, one more answer.
<1>6. ASSUME NEW q \in Req, VerifyCount(q) PROVE CountExact' /\ AttemptLimit'
  <2> PICK i \in Ids : i = rec[q]
    BY <1>4, <1>6
  <2>1. \A j : WrongOn(j)' = IF j = i THEN WrongOn(i) \cup {q} ELSE WrongOn(j)
    BY <1>4, <1>6 DEF WrongOn
  <2>2. Cardinality(WrongOn(i)') = seen[q] + 1
    <3>1. q \notin WrongOn(i) /\ IsFiniteSet(WrongOn(i))
      BY <1>4, <1>6, WrongOnFinite DEF WrongOn, Known
    <3>2. Cardinality(WrongOn(i)) = seen[q]
      BY <1>4, <1>6 DEF CountInv, CountExact
    <3> QED BY <2>1, <3>1, <3>2, FS_AddElement
  <2>3. CountExact'
    BY <1>4, <1>6, <2>1, <2>2 DEF CountInv, CountExact
  <2>4. limit[q] \in Limits /\ seen[q] + 1 <= limit[q]
    BY <1>4, <1>6, LimitType
  <2>5. AttemptLimit'
    <3> SUFFICES ASSUME NEW j \in Ids' PROVE \E m \in Limits : Cardinality(WrongOn(j)') <= m
      BY DEF AttemptLimit
    <3>1. CASE j = i
      BY <2>2, <2>4, <3>1
    <3>2. CASE j # i
      BY <1>4, <1>6, <2>1, <3>2 DEF CountInv, AttemptLimit
    <3> QED BY <3>1, <3>2
  <2> QED BY <2>3, <2>5
\* Nobody is.
<1>7. ASSUME \A q \in Req : ~VerifyCount(q) PROVE CountExact' /\ AttemptLimit'
  <2>1. wrong' = wrong
    <3>1. \A s \in wrong' : s \in Req
      BY DEF Known, TypeInv, TypeOK
    <3>2. \A s \in wrong' : s \in wrong
      BY <1>7, <3>1, Moves
    <3> QED BY <1>3, <3>2
  <2>2. \A i : WrongOn(i)' = WrongOn(i)
    BY <1>3, <2>1 DEF WrongOn
  <2>3. \A i \in Ids : otp_records'[i].attempt_count = otp_records[i].attempt_count
    BY <1>7, Writers
  <2>4. ASSUME NEW k \in Ids' \ Ids
        PROVE  /\ otp_records'[k].attempt_count = Cardinality(WrongOn(k))
               /\ \E m \in Limits : Cardinality(WrongOn(k)) <= m
    <3>1. otp_records'[k].attempt_count = 0
      <4> PICK q \in Req, c \in Code : otp_records'[k] = NewRow(body[q].to, c)
        BY NewRows
      <4> QED BY DEF NewRow
    <3>2. WrongOn(k) = {}
      BY <1>3 DEF WrongOn
    <3>3. Cardinality(WrongOn(k)) = 0
      BY <3>2, FS_EmptySet
    <3>4. \E m \in Limits : 0 <= m
      <4> PICK m \in Limits : m \in Nat
        BY LimitsAssumption DEF LimitsAssumption
      <4> WITNESS m \in Limits
      <4> QED OBVIOUS
    <3> QED BY <3>1, <3>3, <3>4
  <2> QED BY <2>2, <2>3, <2>4 DEF CountInv, CountExact, AttemptLimit
<1> QED BY <1>5, <1>6, <1>7 DEF CountInv

LEMMA CountInit == Init => CountInv
<1> SUFFICES ASSUME Init PROVE CountInv
  OBVIOUS
<1>1. Ids = {} /\ \A q \in Req : pc[q] = "idle"
  BY DEF Init
<1> QED BY <1>1 DEF CountInv, CountExact, AttemptLimit

\* SECURITY.md:92: no code is compared with more wrong ones than a limit the project
\* had allows, as long as the verifications of a recipient do not overlap and no count is
\* lost; whatever is sent and whatever /setotp does meanwhile (otp.py 364, 378-396).
THEOREM AttemptsAreLimited ==
  ASSUME {"verify"} \in Serialised, "count" \notin Unapplied
  PROVE  Spec => []AttemptLimit
<1>1. Known /\ CountInv /\ [Next]_vars => (Known /\ CountInv)'
  BY KnownStep, CountStep
<1>2. CountInv => AttemptLimit
  BY DEF CountInv
<1> QED BY <1>1, <1>2, KnownInit, CountInit, PTL DEF Spec

-----------------------------------------------------------------------------
(* The endpoints implement the life cycle of a one-time code.              *)

\* What a handler fetched is pending until it writes it.
SnapInv ==
  \A q \in Req : pc[q] \in {"check", "count", "mark"} => Pending(otp_records[rec[q]])

LEMMA SnapStep ==
  ASSUME {"verify"} \in Serialised, {"send", "verify"} \in Serialised,
         Known, SnapInv, [Next]_vars
  PROVE  SnapInv'
<1> SUFFICES ASSUME NEW q \in Req, pc'[q] \in {"check", "count", "mark"}
             PROVE  Pending(otp_records'[rec'[q]])
  BY DEF SnapInv, Pending
<1>1. CASE rec'[q] \in PendingFor(body[q].to) /\ otp_records' = otp_records
  BY <1>1 DEF PendingFor, Pending
<1>2. CASE pc[q] \in {"check", "count", "mark"} /\ rec'[q] = rec[q]
  <2>1. /\ Pending(otp_records[rec[q]]) /\ rec[q] \in Ids
        /\ otp_records[rec[q]].to = body[q].to /\ body[q].op = "verify" /\ q \in InFlight
    BY <1>2 DEF SnapInv, Known, TypeInv, HoldsRow, HandlerInv, HandlerInvOf, ApartInv, RoleInvOf,
                Verify, InFlight
  <2>2. ASSUME NEW s \in Req, SendInvalidate(s) PROVE body[s].to # body[q].to
    <3>1. body[s].op = "send" /\ s \in InFlight
      BY <2>2 DEF SendInvalidate, Known, ApartInv, RoleInvOf, Send, InFlight
    <3>2. s # q /\ ~Apart(s, q) /\ {body[s].op, body[q].op} = {"send", "verify"}
      BY <2>1, <3>1 DEF Known, ApartInv
    <3> QED BY <3>2 DEF Apart
  <2>3. ASSUME NEW s \in Req, VerifyCount(s) \/ VerifyMark(s) PROVE rec[s] # rec[q]
    <3>1. pc[s] \in {"count", "mark"} /\ pc'[s] = "sleep"
      BY <2>3 DEF VerifyCount, VerifyMark, RespondAfterSleep, Known, TypeInv, TypeOK
    <3>2. s # q
      BY <3>1
    <3> QED BY <1>2, <3>1, <3>2, DifferentRows
  <2>4. otp_records'[rec[q]] = otp_records[rec[q]]
    BY <2>1, <2>2, <2>3, Writers
  <2> QED BY <1>2, <2>1, <2>4 DEF Pending
<1> QED BY <1>1, <1>2, Moves

\* All of it, when no two requests for one recipient overlap and no update is lost.
OneAtATime ==
  /\ {{"send"}, {"verify"}, {"send", "verify"}} \subseteq Serialised
  /\ {"invalidate", "count", "mark"} \cap Unapplied = {}

SerialInv == Known /\ PendingInv /\ RedeemInv /\ CountInv /\ SnapInv

LEMMA SerialInit == Init => SerialInv
<1> SUFFICES ASSUME Init PROVE SerialInv
  OBVIOUS
<1>1. SnapInv
  BY DEF Init, SnapInv
<1> QED BY <1>1, KnownInit, PendingInit, RedeemInit, CountInit DEF SerialInv

LEMMA SerialStep == OneAtATime /\ SerialInv /\ [Next]_vars => SerialInv'
BY KnownStep, PendingStep, RedeemStep, CountStep, SnapStep DEF OneAtATime, SerialInv

\* The code that row i stands for, given its row.
OtpOf(r, i) ==
  [to |-> r.to, status |-> Status(r), missed |-> WrongOn(i), passed |-> VerifiedOn(i)]

LEMMA OtpsAre ==
  /\ DOMAIN Otps = Ids
  /\ \A i \in Ids : Otps[i] = OtpOf(otp_records[i], i)
BY DEF Otps, OtpOf

\* The lifecycle does not see a step that leaves the rows and who was answered what.
LEMMA UnseenStep ==
  ASSUME otp_records' = otp_records, \A i \in Ids : /\ WrongOn(i)' = WrongOn(i)
                                                   /\ VerifiedOn(i)' = VerifiedOn(i)
  PROVE  Otps' = Otps
BY DEF Otps

\* Nobody is told anything about a row by a step that is not about one.
LEMMA SameAnswers ==
  ASSUME wrong' = wrong,
         \A s \in wrong : s \in Req /\ rec'[s] = rec[s],
         \A s \in Req : \/ rec'[s] = rec[s] /\ (reply'[s] = "VERIFIED" <=> reply[s] = "VERIFIED")
                        \/ reply[s] # "VERIFIED" /\ reply'[s] # "VERIFIED"
  PROVE  \A i : WrongOn(i)' = WrongOn(i) /\ VerifiedOn(i)' = VerifiedOn(i)
BY DEF WrongOn, VerifiedOn

LEMMA LifecycleInit == Init => Lifecycle!Init
BY DEF Init, Lifecycle!Init, Otps

\* The statuses of a row.
LEMMA StatusOfPending == \A r \in Row : Status(r) = "open" <=> Pending(r)
BY DEF Row, Status, Pending

LEMMA OpenIsPending ==
  ASSUME TypeInv, NEW to
  PROVE  Lifecycle!Open(to) = PendingFor(to)
<1>1. \A i \in Ids : otp_records[i] \in Row
  BY DEF TypeInv, TypeOK
<1> QED BY <1>1, OtpsAre, StatusOfPending DEF Lifecycle!Open, PendingFor, OtpOf

\* Two fields of a code are written as one change of the code.
LEMMA TwoFields ==
  ASSUME NEW S, NEW F, NEW f \in [S -> F], NEW i \in S, NEW x, NEW y
  PROVE  /\ [f EXCEPT ![i].missed = x, ![i].status = y] =
              [f EXCEPT ![i] = [f[i] EXCEPT !.missed = x, !.status = y]]
         /\ [f EXCEPT ![i].status = x, ![i].passed = y] =
              [f EXCEPT ![i] = [f[i] EXCEPT !.status = x, !.passed = y]]
OBVIOUS

\* The update of all pending rows of a recipient supersedes its codes.
LEMMA InvalidateSupersedes ==
  ASSUME OneAtATime, Known, NEW q \in Req, SendInvalidate(q)
  PROVE  Lifecycle!Supersede(body[q].to)
<1> DEFINE to == body[q].to
<1>1. otp_records' = SweptTable(to) /\ wrong' = wrong /\ rec' = rec /\ reply' = reply
  BY AfterInvalidate DEF SendInvalidate, OneAtATime
<1>2. \A i : WrongOn(i)' = WrongOn(i) /\ VerifiedOn(i)' = VerifiedOn(i)
  BY <1>1 DEF WrongOn, VerifiedOn
<1>3. Ids' = Ids /\ \A i \in Ids : otp_records[i] \in Row
  <2>1. otp_records \in Seq(Row)
    BY DEF Known, TypeInv, TypeOK
  <2>2. Ids' = Ids
    BY <1>1, <2>1, SweptTableType
  <2> QED BY <2>1, <2>2
<1>4. Lifecycle!Open(to) = PendingFor(to)
  BY OpenIsPending DEF Known
<1>5. Otps' = [i \in Ids |-> OtpOf(SupersededRow(otp_records[i], to), i)]
  BY <1>1, <1>2, <1>3 DEF Otps, OtpOf, SweptTable
<1>6. ASSUME NEW i \in Ids
      PROVE  OtpOf(SupersededRow(otp_records[i], to), i) =
               IF i \in PendingFor(to) THEN [Otps[i] EXCEPT !.status = "closed"] ELSE Otps[i]
  <2>1. CASE i \in PendingFor(to)
    <3>1. SupersededRow(otp_records[i], to) = [otp_records[i] EXCEPT !.is_invalidated = TRUE]
      BY <2>1 DEF SupersededRow, PendingFor
    <3>2. Status([otp_records[i] EXCEPT !.is_invalidated = TRUE]) = "closed"
      BY <1>3, <2>1 DEF Status, PendingFor, Pending, Row
    <3>3. [otp_records[i] EXCEPT !.is_invalidated = TRUE].to = otp_records[i].to
      BY <1>3 DEF Row
    <3> QED BY <2>1, <3>1, <3>2, <3>3 DEF Otps, OtpOf
  <2>2. CASE i \notin PendingFor(to)
    BY <2>2 DEF SupersededRow, PendingFor, Otps, OtpOf
  <2> QED BY <2>1, <2>2
<1> QED BY <1>4, <1>5, <1>6, OtpsAre DEF Lifecycle!Supersede

\* The insert issues a code to a recipient that holds no open one, or fails.
LEMMA InsertIssues ==
  ASSUME SerialInv, NEW q \in Req, SendInsert(q), otp_records' # otp_records
  PROVE  Lifecycle!Issue(body[q].to)
<1> USE DEF SerialInv
<1> PICK c \in Code : /\ otp_records' = Append(otp_records, NewRow(body[q].to, c))
                      /\ rec' = [rec EXCEPT ![q] = Len(otp_records) + 1]
  BY DEF SendInsert
<1> DEFINE to == body[q].to
           row == NewRow(to, c)
           k == Len(otp_records) + 1
           otp == [to |-> to, status |-> "open", missed |-> {}, passed |-> {}]
<1>1. /\ pc[q] = "insert" /\ q \notin wrong /\ wrong' = wrong
      /\ reply' \in {reply, [reply EXCEPT ![q] = "DB_ERROR"]}
  BY DEF SendInsert, Respond, Known, LockInv, LockInvOf, Final
<1>2. reply[q] = "NONE" /\ PendingFor(to) = {}
  BY <1>1 DEF PendingInv, Known, HandlerInv, HandlerInvOf, Final
<1>3. row \in Row
  BY DEF Known, TypeInv, TypeOK, SendBody, VerifyBody, NewRow, Row
<1>4. /\ Ids' = Ids \cup {k} /\ k \notin Ids /\ Len(otp_records) \in Nat
      /\ otp_records'[k] = row
      /\ \A i \in Ids : otp_records'[i] = otp_records[i]
  BY <1>3 DEF Known, TypeInv, TypeOK
<1>5. \A i : WrongOn(i)' = WrongOn(i) /\ VerifiedOn(i)' = VerifiedOn(i)
  BY <1>1, <1>2, SameAnswers DEF Known, TypeInv, TypeOK
<1>6. WrongOn(k) = {} /\ VerifiedOn(k) = {}
  BY <1>4 DEF WrongOn, VerifiedOn, Known, LockInv, LockInvOf, HandlerInv, HandlerInvOf,
                TypeInv, TypeOK
<1>7. OtpOf(row, k) = otp
  BY <1>6 DEF OtpOf, NewRow, Status
<1>8. Otps' = [i \in 1..k |-> IF i = k THEN otp ELSE Otps[i]]
  <2>1. Otps' = [i \in Ids' |-> OtpOf(otp_records'[i], i)]
    BY <1>5 DEF Otps, OtpOf
  <2>2. \A i \in Ids' : OtpOf(otp_records'[i], i) = IF i = k THEN otp ELSE Otps[i]
    <3> HIDE DEF row, otp, k
    <3> QED BY <1>4, <1>7, OtpsAre
  <2>3. Ids' = 1..k
    BY <1>4
  <2> QED BY <2>1, <2>2, <2>3
<1>9. Append(Otps, otp) = [i \in 1..k |-> IF i = k THEN otp ELSE Otps[i]]
  <2> DEFINE S == {Otps[i] : i \in Ids} \cup {otp}
             f == [i \in 1..k |-> IF i = k THEN otp ELSE Otps[i]]
  <2>1. Otps \in Seq(S) /\ Len(Otps) = Len(otp_records)
    <3>1. Otps \in [1..Len(otp_records) -> S]
      BY OtpsAre DEF Otps
    <3> HIDE DEF S
    <3> QED BY <1>4, <3>1, SeqDef, LenProperties
  <2> HIDE DEF S, otp
  <2>2. otp \in S
    BY DEF S
  <2>3. /\ Append(Otps, otp) \in [1..k -> S]
        /\ Append(Otps, otp)[k] = otp
        /\ \A i \in 1..Len(otp_records) : Append(Otps, otp)[i] = Otps[i]
    <3>1. Append(Otps, otp) \in Seq(S) /\ Len(Append(Otps, otp)) = k
      BY <2>1, <2>2, AppendProperties
    <3>2. Append(Otps, otp) \in [1..k -> S]
      BY <3>1, LenProperties
    <3>3. /\ \A i \in 1..Len(Otps) : Append(Otps, otp)[i] = Otps[i]
          /\ Append(Otps, otp)[Len(Otps) + 1] = otp
      BY <2>1, <2>2, AppendProperties
    <3> QED BY <2>1, <3>2, <3>3
  <2>4. \A i \in 1..k : i = k \/ i \in 1..Len(otp_records)
    BY <1>4
  <2> HIDE DEF k
  <2>5. \A i \in 1..k : Append(Otps, otp)[i] = f[i]
    BY <2>3, <2>4
  <2> QED BY <2>3, <2>5
<1>10. Lifecycle!Open(to) = {}
  BY <1>2, OpenIsPending DEF Known
<1> QED BY <1>8, <1>9, <1>10 DEF Lifecycle!Issue

\* A wrong code is a miss: the row stays open only below the limit.
LEMMA CountMisses ==
  ASSUME OneAtATime, SerialInv, NEW q \in Req, VerifyCount(q)
  PROVE  Lifecycle!Miss(q, rec[q]) /\ rec[q] \in DOMAIN Otps
<1> USE DEF SerialInv
<1> PICK i : i = rec[q]
  OBVIOUS
<1> DEFINE n == seen[q] + 1
           row == CountedRow(otp_records[i], n, limit[q])
           s == IF n >= limit[q] THEN "closed" ELSE "open"
           missed == WrongOn(i) \cup {q}
<1>1. /\ pc[q] = "count" /\ q \notin wrong /\ wrong' = wrong \cup {q} /\ rec' = rec
  BY DEF VerifyCount, RespondAfterSleep, Known, TypeInv, TypeOK, LockInv, LockInvOf, Final
<1>2. /\ i \in Ids /\ otp_records[i] \in Row /\ seen[q] = otp_records[i].attempt_count
      /\ Pending(otp_records[i])
      /\ limit[q] \in Limits /\ seen[q] < limit[q] /\ seen[q] \in Nat
  BY <1>1 DEF Known, TypeInv, HoldsRow, TypeOK, SnapInv, CountInv, ApartInv, RoleInvOf
<1>3. limit[q] \in Nat /\ n \in Nat /\ n <= limit[q]
  BY <1>2, LimitType
<1>4. row \in Row /\ row.to = otp_records[i].to /\ Status(row) = s
  <2>1. row \in Row
    <3> HIDE DEF n
    <3> QED BY <1>2, <1>3, CountedRowType
  <2>2. /\ row.to = otp_records[i].to /\ row.is_verified = FALSE
        /\ row.is_invalidated = (n >= limit[q])
    <3> HIDE DEF n
    <3> QED BY <1>2 DEF CountedRow, Row, Pending
  <2>3. Status(row) = s
    <3> HIDE DEF row, n
    <3> QED BY <2>2 DEF Status
  <2> QED BY <2>1, <2>2, <2>3
<1>5. "count" \notin Unapplied
  BY DEF OneAtATime
<1>6. Ids' = Ids /\ \A j \in Ids : otp_records'[j] = IF j = i THEN row ELSE otp_records[j]
  BY <1>5, AfterCount
<1>7. \A j : WrongOn(j)' = IF j = i THEN missed ELSE WrongOn(j)
  BY <1>1 DEF WrongOn
<1>8. \A j : VerifiedOn(j)' = VerifiedOn(j)
  <2>1. reply[q] # "VERIFIED" /\ reply'[q] # "VERIFIED"
    BY <1>1 DEF VerifyCount, RespondAfterSleep, Known, TypeInv, TypeOK, HandlerInv, HandlerInvOf,
                Final
  <2> QED BY <1>1, <2>1, OthersUnchanged DEF VerifiedOn, Known, Handle
<1>9. Cardinality(missed) = n
  <2>1. q \notin WrongOn(i) /\ IsFiniteSet(WrongOn(i))
    BY <1>1, WrongOnFinite DEF WrongOn, Known
  <2>2. Cardinality(WrongOn(i)) = seen[q]
    BY <1>2 DEF CountInv, CountExact
  <2> QED BY <2>1, <2>2, FS_AddElement
<1> HIDE DEF row
<1>10. Otps' = [Otps EXCEPT ![i].missed = missed, ![i].status = s]
  <2>1. Otps' = [j \in Ids |-> IF j = i THEN [to |-> otp_records[i].to, status |-> s,
                                              missed |-> missed, passed |-> VerifiedOn(i)]
                               ELSE Otps[j]]
    <3> HIDE DEF s, missed
    <3> QED BY <1>4, <1>6, <1>7, <1>8 DEF Otps
  <2>2. Otps[i] = [to |-> otp_records[i].to, status |-> Status(otp_records[i]),
                   missed |-> WrongOn(i), passed |-> VerifiedOn(i)]
    BY <1>2 DEF Otps
  <2> HIDE DEF s, missed
  <2>3. [Otps[i] EXCEPT !.missed = missed, !.status = s] =
          [to |-> otp_records[i].to, status |-> s, missed |-> missed, passed |-> VerifiedOn(i)]
    <3>1. [Otps[i] EXCEPT !.missed = missed, !.status = s] =
            [[Otps[i] EXCEPT !.missed = missed] EXCEPT !.status = s]
      OBVIOUS
    <3>2. [Otps[i] EXCEPT !.missed = missed] =
            [to |-> otp_records[i].to, status |-> Status(otp_records[i]),
             missed |-> missed, passed |-> VerifiedOn(i)]
      BY <2>2
    <3> DEFINE u == [Otps[i] EXCEPT !.missed = missed]
    <3>3. u = [to |-> otp_records[i].to, status |-> Status(otp_records[i]),
               missed |-> missed, passed |-> VerifiedOn(i)]
      BY <3>2
    <3> HIDE DEF u
    <3>4. [u EXCEPT !.status = s] = [to |-> otp_records[i].to, status |-> s,
                                     missed |-> missed, passed |-> VerifiedOn(i)]
      BY <3>3
    <3> USE DEF u
    <3> QED BY <3>1, <3>4
  <2>4. [Otps EXCEPT ![i].missed = missed, ![i].status = s] =
          [Otps EXCEPT ![i] = [Otps[i] EXCEPT !.missed = missed, !.status = s]]
    <3> DEFINE F == {Otps[j] : j \in Ids}
    <3>1. Otps \in [Ids -> F]
      BY DEF Otps
    <3> HIDE DEF F
    <3> QED BY <1>2, <3>1, TwoFields
  <2> DEFINE otp == [to |-> otp_records[i].to, status |-> s, missed |-> missed,
                     passed |-> VerifiedOn(i)]
  <2>5. Otps' = [j \in Ids |-> IF j = i THEN otp ELSE Otps[j]]
    BY <2>1
  <2>6. [Otps[i] EXCEPT !.missed = missed, !.status = s] = otp
    BY <2>3
  <2> HIDE DEF otp
  <2>7. [Otps EXCEPT ![i] = otp] = [j \in Ids |-> IF j = i THEN otp ELSE Otps[j]]
    BY <1>2 DEF Otps
  <2> QED BY <2>4, <2>5, <2>6, <2>7
<1>11. Otps[i].status = "open" /\ Otps[i].missed = WrongOn(i)
  BY <1>2, OtpsAre, StatusOfPending DEF OtpOf
<1>12. IF s = "open" THEN Cardinality(missed) < limit[q] ELSE Cardinality(missed) <= limit[q]
  <2> HIDE DEF missed
  <2> QED BY <1>3, <1>9
<1>13. q \notin WrongOn(i) /\ s \in {"open", "closed"}
  BY <1>1 DEF WrongOn
<1>14. Lifecycle!Cardinality(missed) = Cardinality(missed)
  BY DEF Cardinality, Lifecycle!Cardinality
<1> HIDE DEF s
<1> QED BY <1>2, <1>10, <1>11, <1>12, <1>13, <1>14, OtpsAre DEF Lifecycle!Miss

\* The right code redeems the row, which nobody had a token for.
LEMMA MarkRedeems ==
  ASSUME OneAtATime, SerialInv, NEW q \in Req, VerifyMark(q)
  PROVE  Lifecycle!Redeem(q, rec[q]) /\ rec[q] \in DOMAIN Otps
<1> USE DEF SerialInv
<1> PICK i : i = rec[q]
  OBVIOUS
<1> DEFINE row == VerifiedRow(otp_records[i])
<1>1. pc[q] = "mark" /\ wrong' = wrong /\ rec' = rec /\ reply'[q] = "VERIFIED"
  BY DEF VerifyMark, RespondAfterSleep, Known, TypeInv, TypeOK
<1>2. i \in Ids /\ otp_records[i] \in Row /\ Pending(otp_records[i])
  BY <1>1 DEF Known, TypeInv, HoldsRow, TypeOK, SnapInv
<1>3. row \in Row /\ row.to = otp_records[i].to /\ Status(row) = "redeemed"
  BY <1>2 DEF VerifiedRow, Row, Status
<1>4. "mark" \notin Unapplied
  BY DEF OneAtATime
<1>5. Ids' = Ids /\ \A j \in Ids : otp_records'[j] = IF j = i THEN row ELSE otp_records[j]
  BY <1>4, AfterMark
<1>6. \A j : WrongOn(j)' = WrongOn(j)
  BY <1>1 DEF WrongOn
<1>7. \A j : VerifiedOn(j)' = IF j = i THEN {q} ELSE VerifiedOn(j)
  <2>1. VerifiedOn(i) = {}
    BY <1>2 DEF VerifiedOn, RedeemInv, Pending
  <2>2. reply[q] # "VERIFIED"
    BY <1>1 DEF Known, HandlerInv, HandlerInvOf, Final
  <2> QED BY <1>1, <2>1, <2>2, OthersUnchanged DEF VerifiedOn, Known, Handle
<1> HIDE DEF row
<1>8. Otps' = [Otps EXCEPT ![i].status = "redeemed", ![i].passed = {q}]
  <2>1. Otps' = [j \in Ids |-> IF j = i THEN [to |-> otp_records[i].to, status |-> "redeemed",
                                              missed |-> WrongOn(i), passed |-> {q}]
                               ELSE Otps[j]]
    BY <1>3, <1>5, <1>6, <1>7 DEF Otps
  <2>2. Otps[i] = [to |-> otp_records[i].to, status |-> Status(otp_records[i]),
                   missed |-> WrongOn(i), passed |-> VerifiedOn(i)]
    BY <1>2 DEF Otps
  <2>3. [Otps[i] EXCEPT !.status = "redeemed", !.passed = {q}] =
          [to |-> otp_records[i].to, status |-> "redeemed", missed |-> WrongOn(i),
           passed |-> {q}]
    <3>1. [Otps[i] EXCEPT !.status = "redeemed", !.passed = {q}] =
            [[Otps[i] EXCEPT !.status = "redeemed"] EXCEPT !.passed = {q}]
      OBVIOUS
    <3>2. [Otps[i] EXCEPT !.status = "redeemed"] =
            [to |-> otp_records[i].to, status |-> "redeemed",
             missed |-> WrongOn(i), passed |-> VerifiedOn(i)]
      BY <2>2
    <3> DEFINE u == [Otps[i] EXCEPT !.status = "redeemed"]
    <3>3. u = [to |-> otp_records[i].to, status |-> "redeemed",
               missed |-> WrongOn(i), passed |-> VerifiedOn(i)]
      BY <3>2
    <3> HIDE DEF u
    <3>4. [u EXCEPT !.passed = {q}] = [to |-> otp_records[i].to, status |-> "redeemed",
                                       missed |-> WrongOn(i), passed |-> {q}]
      BY <3>3
    <3> USE DEF u
    <3> QED BY <3>1, <3>4
  <2>4. [Otps EXCEPT ![i].status = "redeemed", ![i].passed = {q}] =
          [Otps EXCEPT ![i] = [Otps[i] EXCEPT !.status = "redeemed", !.passed = {q}]]
    <3> DEFINE F == {Otps[j] : j \in Ids}
    <3>1. Otps \in [Ids -> F]
      BY DEF Otps
    <3> HIDE DEF F
    <3> QED BY <1>2, <3>1, TwoFields
  <2> DEFINE otp == [to |-> otp_records[i].to, status |-> "redeemed", missed |-> WrongOn(i),
                     passed |-> {q}]
  <2>5. Otps' = [j \in Ids |-> IF j = i THEN otp ELSE Otps[j]]
    BY <2>1
  <2>6. [Otps[i] EXCEPT !.status = "redeemed", !.passed = {q}] = otp
    BY <2>3
  <2> HIDE DEF otp
  <2>7. [Otps EXCEPT ![i] = otp] = [j \in Ids |-> IF j = i THEN otp ELSE Otps[j]]
    BY <1>2 DEF Otps
  <2> QED BY <2>4, <2>5, <2>6, <2>7
<1>9. Otps[i].status = "open"
  BY <1>2, OtpsAre, StatusOfPending DEF OtpOf
<1> QED BY <1>2, <1>8, <1>9, OtpsAre DEF Lifecycle!Redeem

\* Every step is a step of the life cycle or is not seen there.
LEMMA LifecycleStep ==
  OneAtATime /\ SerialInv /\ [Next]_vars => [Lifecycle!Next]_Otps
<1> SUFFICES ASSUME OneAtATime, SerialInv, [Next]_vars PROVE [Lifecycle!Next]_Otps
  OBVIOUS
<1> USE DEF SerialInv
<1>1. ASSUME NEW q \in Req,
             \/ SendInvalidate(q) \/ (SendInsert(q) /\ otp_records' # otp_records)
             \/ VerifyCount(q) \/ VerifyMark(q)
      PROVE  Lifecycle!Next
  <2>1. body[q].to \in Recipient
    BY DEF Known, TypeInv, TypeOK, SendBody, VerifyBody
  <2> QED BY <1>1, <2>1, InvalidateSupersedes, InsertIssues, CountMisses, MarkRedeems
          DEF Lifecycle!Next
<1>2. ASSUME NEW q \in Req,
             \/ Arrive(q) \/ RateLimit(q) \/ SendEnqueue(q) \/ VerifyFetch(q) \/ VerifyCheck(q)
             \/ (SendInsert(q) /\ otp_records' = otp_records) \/ AntiEnumSleep(q)
      PROVE  Otps' = Otps
  <2>1. otp_records' = otp_records /\ wrong' = wrong
    BY <1>2 DEF Arrive, RateLimit, SendInsert, SendEnqueue, VerifyFetch, VerifyCheck,
                AntiEnumSleep, TableUnchanged
  <2>2. \A s \in wrong : s \in Req /\ pc[s] \in Final
    BY DEF Known, TypeInv, TypeOK, LockInv, LockInvOf
  <2>3. \/ rec' = rec /\ reply' = reply
        \/ /\ pc[q] \notin Final /\ reply'[q] # "VERIFIED"
    <3>1. pc[q] \notin Final => reply[q] = "NONE"
      BY DEF Known, HandlerInv, HandlerInvOf
    <3> QED BY <1>2, <3>1 DEF Arrive, RateLimit, SendInsert, SendEnqueue, VerifyFetch, VerifyCheck,
              AntiEnumSleep, Respond, RespondAfterSleep, Final, Known, TypeInv, TypeOK
  <2>4. \A i : WrongOn(i)' = WrongOn(i) /\ VerifiedOn(i)' = VerifiedOn(i)
    <3>1. CASE rec' = rec /\ reply' = reply
      BY <2>1, <3>1 DEF WrongOn, VerifiedOn
    <3>2. CASE pc[q] \notin Final /\ reply'[q] # "VERIFIED"
      <4>1. reply[q] = "NONE"
        BY <3>2 DEF Known, HandlerInv, HandlerInvOf
      <4>2. \A s \in Req : s # q => rec'[s] = rec[s] /\ reply'[s] = reply[s]
        BY <1>2, OthersUnchanged DEF Known, Handle
      <4> QED BY <2>1, <2>2, <3>2, <4>1, <4>2, SameAnswers
    <3> QED BY <2>3, <3>1, <3>2
  <2> QED BY <2>1, <2>4, UnseenStep
<1>3. ASSUME ApiCrash \/ (\E p \in Project, n \in Limits : SetOtp(p, n))
               \/ (\E i \in Ids : Expire(i)) \/ UNCHANGED vars
      PROVE  Otps' = Otps
  BY <1>3 DEF ApiCrash, SetOtp, Expire, TableUnchanged, vars, Otps, WrongOn, VerifiedOn
<1> QED BY <1>1, <1>2, <1>3 DEF Next, Handle

\* When no two requests for one recipient overlap and no update of a row is lost, the
\* handlers implement the life cycle of a one-time code: superseded before another one is
\* issued, open only while fewer have missed than a limit allows, and redeemed once.
THEOREM EndpointsImplementLifecycle ==
  ASSUME {{"send"}, {"verify"}, {"send", "verify"}} \subseteq Serialised,
         {"invalidate", "count", "mark"} \cap Unapplied = {}
  PROVE  Spec => ImplementsLifecycle
<1>1. SerialInv /\ [Next]_vars => SerialInv' /\ [Lifecycle!Next]_Otps
  BY SerialStep, LifecycleStep DEF OneAtATime
<1> QED BY <1>1, LifecycleInit, SerialInit, PTL DEF Spec, ImplementsLifecycle, Lifecycle!Spec

=============================================================================
