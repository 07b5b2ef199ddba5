--------------------------- MODULE OtpServiceProofs ---------------------------
(***************************************************************************)
(* Proofs about OtpService for any number of requests, settings and        *)
(* faults: handlers, queue and worker together do nothing that OtpEndpoints*)
(* and EmailWorker do not say of each of them, what is proved of the two   *)
(* therefore holds of the service, and the service implements CodeDelivery.*)
(***************************************************************************)
EXTENDS OtpService, FiniteSetTheorems, SequenceTheorems, TLAPS

\* The proofs about the two parts.
ApiP == INSTANCE OtpEndpointsProofs

MailP == INSTANCE EmailWorkerProofs WITH Job <- Position

-----------------------------------------------------------------------------
(* The steps of the service are steps of its parts.                        *)

\* What the two parts assume of their constants.
LEMMA ApiConstants ==
  ApiP!LimitsAssumption /\ ApiP!ModeAssumption /\ ApiP!ReqAssumption
BY ApiAssumption DEF ApiAssumption, ApiP!LimitsAssumption, ApiP!ModeAssumption,
                     ApiP!ReqAssumption, ApiP!Step, IsFiniteSet, ApiP!IsFiniteSet

LEMMA MailConstants ==
  MailP!BoundsAssumption /\ MailP!SenderAssumption /\ MailP!FaultAssumption
BY MailAssumption DEF MailAssumption, MailP!BoundsAssumption, MailP!SenderAssumption,
                      MailP!FaultAssumption

LEMMA ApiTypeInit == ApiP!Init => ApiP!TypeInv
BY ApiP!TypeInit, ApiConstants

LEMMA ApiTypeStep == ApiP!TypeInv /\ [ApiP!Next]_ApiP!vars => ApiP!TypeInv'
BY ApiP!TypeStep, ApiConstants

LEMMA MailTypeStep == MailP!TypeInv /\ [MailP!Next]_MailP!vars => MailP!TypeInv'
BY MailP!TypeStep, MailConstants

LEMMA MailJobStep == MailP!TypeInv /\ MailP!JobInv /\ [MailP!Next]_MailP!vars => MailP!JobInv'
BY MailP!JobStep, MailConstants

LEMMA ApiInitSame == Api!Init => ApiP!Init
BY DEF Api!Init, ApiP!Init, Api!SendBody, ApiP!SendBody, Api!VerifyBody, ApiP!VerifyBody,
       Api!Recipient, ApiP!Recipient

\* Every step is one of the handlers and the bot, or leaves what is theirs alone.
LEMMA ApiPart == [Next]_vars => [ApiP!Next]_ApiP!vars
<1> SUFFICES ASSUME [Next]_vars PROVE [ApiP!Next]_ApiP!vars
  OBVIOUS
<1> USE DEF Api!Step, ApiP!Step, Api!InFlight, ApiP!InFlight, Api!TableUnchanged,
            ApiP!TableUnchanged, Api!Respond, ApiP!Respond, Api!RespondAfterSleep,
            ApiP!RespondAfterSleep, Api!Outcome, ApiP!Outcome, Api!MayRaise, ApiP!MayRaise,
            Api!Applied, ApiP!Applied, Api!Ids, ApiP!Ids
<1>1. ASSUME NEW q \in Req, Arrive(q) PROVE ApiP!Next
  <2>1. ApiP!Arrive(q)
    BY <1>1 DEF Arrive, Api!Arrive, ApiP!Arrive, Api!Apart, ApiP!Apart
  <2> QED BY <2>1 DEF ApiP!Next
<1>2. ASSUME NEW q \in Req, Api!SendInsert(q) PROVE ApiP!Next
  <2>1. ApiP!SendInsert(q)
    BY <1>2 DEF Api!SendInsert, ApiP!SendInsert, Api!NewRow, ApiP!NewRow
  <2> QED BY <2>1 DEF ApiP!Next, ApiP!Handle
<1>3. ASSUME NEW q \in Req, Api!SendEnqueue(q) PROVE ApiP!Next
  <2>1. ApiP!SendEnqueue(q)
    BY <1>3 DEF Api!SendEnqueue, ApiP!SendEnqueue
  <2> QED BY <2>1 DEF ApiP!Next, ApiP!Handle
<1>4. CASE ApiStep
  <2>1. ASSUME NEW q \in Req, Api!RateLimit(q) PROVE ApiP!Next
    <3>1. ApiP!RateLimit(q)
      BY <2>1 DEF Api!RateLimit, ApiP!RateLimit
    <3> QED BY <3>1 DEF ApiP!Next, ApiP!Handle
  <2>2. ASSUME NEW q \in Req, Api!SendInvalidate(q) PROVE ApiP!Next
    <3>1. ApiP!SendInvalidate(q)
      BY <2>2 DEF Api!SendInvalidate, ApiP!SendInvalidate, Api!SupersededRow, ApiP!SupersededRow,
                  Api!Pending, ApiP!Pending
    <3> QED BY <3>1 DEF ApiP!Next, ApiP!Handle
  <2>3. ASSUME NEW q \in Req, Api!AntiEnumSleep(q) PROVE ApiP!Next
    <3>1. ApiP!AntiEnumSleep(q)
      BY <2>3 DEF Api!AntiEnumSleep, ApiP!AntiEnumSleep
    <3> QED BY <3>1 DEF ApiP!Next, ApiP!Handle
  <2>4. CASE Api!ApiCrash
    <3>1. ApiP!ApiCrash
      BY <2>4 DEF Api!ApiCrash, ApiP!ApiCrash
    <3> QED BY <3>1 DEF ApiP!Next
  <2>5. ASSUME NEW q \in Req, Api!VerifyFetch(q) PROVE ApiP!Next
    <3>1. ApiP!VerifyFetch(q)
      BY <2>5 DEF Api!VerifyFetch, ApiP!VerifyFetch, Api!Latest, ApiP!Latest, Api!PendingFor,
                  ApiP!PendingFor, Api!Pending, ApiP!Pending
    <3> QED BY <3>1 DEF ApiP!Next, ApiP!Handle
  <2>6. ASSUME NEW q \in Req, Api!VerifyCheck(q) PROVE ApiP!Next
    <3>1. ApiP!VerifyCheck(q)
      BY <2>6 DEF Api!VerifyCheck, ApiP!VerifyCheck
    <3> QED BY <3>1 DEF ApiP!Next, ApiP!Handle
  <2>7. ASSUME NEW q \in Req, Api!VerifyCount(q) PROVE ApiP!Next
    <3>1. ApiP!VerifyCount(q)
      BY <2>7 DEF Api!VerifyCount, ApiP!VerifyCount, Api!Write, ApiP!Write, Api!CountedRow,
                  ApiP!CountedRow
    <3> QED BY <3>1 DEF ApiP!Next, ApiP!Handle
  <2>8. ASSUME NEW q \in Req, Api!VerifyMark(q) PROVE ApiP!Next
    <3>1. ApiP!VerifyMark(q)
      BY <2>8 DEF Api!VerifyMark, ApiP!VerifyMark, Api!Write, ApiP!Write, Api!VerifiedRow,
                  ApiP!VerifiedRow
    <3> QED BY <3>1 DEF ApiP!Next, ApiP!Handle
  <2>9. ASSUME NEW i \in Api!Ids, Api!Expire(i) PROVE ApiP!Next
    <3>1. ApiP!Expire(i) /\ i \in ApiP!Ids
      BY <2>9 DEF Api!Expire, ApiP!Expire
    <3> QED BY <3>1 DEF ApiP!Next
  <2> QED BY <1>4, <2>1, <2>2, <2>3, <2>4, <2>5, <2>6, <2>7, <2>8, <2>9 DEF ApiStep
<1>5. ASSUME NEW p \in Project, NEW n \in Limits, Api!SetOtp(p, n) PROVE ApiP!Next
  <2>1. ApiP!SetOtp(p, n)
    BY <1>5 DEF Api!SetOtp, ApiP!SetOtp
  <2> QED BY <2>1 DEF ApiP!Next
<1>6. CASE Worker \/ WorkerStop \/ UNCHANGED vars
  BY <1>6 DEF Worker, WorkerStop, vars, apiVars, ApiP!vars
<1> QED BY <1>1, <1>2, <1>3, <1>4, <1>5, <1>6 DEF Next, SendInsert, SendEnqueue, SetOtp

LEMMA MailInitSame == Mail!Init => MailP!Init
BY DEF Mail!Init, MailP!Init, Mail!NoTask, MailP!NoTask

\* So is every step one of the worker, ARQ and the bot, as long as what is enqueued
\* is a job that the worker knows.
LEMMA MailPart ==
  ASSUME [Next]_vars, \A q \in Req : SendEnqueue(q) => rec[q] \in Position
  PROVE  [MailP!Next]_MailP!vars
<1> USE DEF Mail!ArqUnchanged, MailP!ArqUnchanged, Mail!BotUnchanged, MailP!BotUnchanged,
            Mail!MailUnchanged, MailP!MailUnchanged, Mail!Goto, MailP!Goto, Mail!Trouble,
            MailP!Trouble, Mail!Finish, MailP!Finish, Mail!CanFail, MailP!CanFail,
            Mail!NoTask, MailP!NoTask, Mail!LogRow, MailP!LogRow, Mail!Deliver, MailP!Deliver
<1>1. UNCHANGED mailVars => UNCHANGED MailP!vars
  BY DEF mailVars, MailP!vars
<1>2. ASSUME NEW q \in Req, SendEnqueue(q) PROVE [MailP!Next]_MailP!vars
  <2>1. Mail!Enqueue(rec[q]) => MailP!Enqueue(rec[q])
    BY DEF Mail!Enqueue, MailP!Enqueue
  <2> QED BY <1>1, <1>2, <2>1 DEF SendEnqueue, MailP!Next
<1>3. ASSUME NEW p \in Project, NEW n \in Limits, NEW seconds \in Expiries, SetOtp(p, n, seconds)
      PROVE  MailP!Next
  <2>1. MailP!SetExpiry(seconds)
    BY <1>3 DEF SetOtp, Mail!SetExpiry, MailP!SetExpiry, Mail!WorkerUnchanged, MailP!WorkerUnchanged
  <2> QED BY <2>1 DEF MailP!Next
<1>4. CASE WorkerStop
  <2>1. MailP!WorkerStop
    BY <1>4 DEF WorkerStop, Mail!WorkerStop, MailP!WorkerStop, Mail!Running, MailP!Running
  <2> QED BY <2>1 DEF MailP!Next
<1>5. ASSUME NEW j \in Position, Mail!Start(j) PROVE MailP!Next
  <2>1. MailP!Start(j)
    <3>1. Mail!Cardinality(Mail!Running) = MailP!Cardinality(MailP!Running)
      BY DEF Mail!Cardinality, MailP!Cardinality, Mail!Running, MailP!Running
    <3> QED BY <1>5, <3>1 DEF Mail!Start, MailP!Start, Mail!FirstCall, MailP!FirstCall
  <2> QED BY <2>1 DEF MailP!Next
<1>6. ASSUME NEW j \in Position, Mail!Progress(j) PROVE MailP!Next
  <2> USE DEF Mail!Attempts, MailP!Attempts, Mail!AfterFailure, MailP!AfterFailure,
              Mail!Await, MailP!Await, Mail!Ended, MailP!Ended
  <2>1. \A n : Mail!InTime(j, n) <=> MailP!InTime(j, n)
    BY DEF Mail!InTime, MailP!InTime, Mail!Elapsed, MailP!Elapsed, Mail!Slept, MailP!Slept,
           Mail!Delay, MailP!Delay, Mail!MapThenSumSet, MailP!MapThenSumSet,
           Mail!MapThenFoldSet, MailP!MapThenFoldSet
  <2>2. \A n : Mail!Delay(n) = MailP!Delay(n)
    BY DEF Mail!Delay, MailP!Delay
  <2>3. Mail!CreateClient(j) => MailP!CreateClient(j)
    BY DEF Mail!CreateClient, MailP!CreateClient
  <2>4. Mail!FetchProject(j) => MailP!FetchProject(j)
    BY DEF Mail!FetchProject, MailP!FetchProject, Mail!ExpiryMinutes, MailP!ExpiryMinutes
  <2>5. Mail!FetchSender(j) => MailP!FetchSender(j)
    BY DEF Mail!FetchSender, MailP!FetchSender
  <2>6. Mail!Reject(j) => MailP!Reject(j)
    BY DEF Mail!Reject, MailP!Reject
  <2>7. Mail!SmtpSend(j) => MailP!SmtpSend(j)
    BY <2>1 DEF Mail!SmtpSend, MailP!SmtpSend
  <2>8. Mail!LogSuccess(j) => MailP!LogSuccess(j)
    BY DEF Mail!LogSuccess, MailP!LogSuccess
  <2>9. Mail!Touch(j) => MailP!Touch(j)
    BY DEF Mail!Touch, MailP!Touch
  <2>10. Mail!Backoff(j) => MailP!Backoff(j)
    BY <2>1, <2>2 DEF Mail!Backoff, MailP!Backoff
  <2>11. Mail!LogFailure(j) => MailP!LogFailure(j)
    BY DEF Mail!LogFailure, MailP!LogFailure
  <2>12. Mail!SendTelegramAlert(j) => MailP!SendTelegramAlert(j)
    BY DEF Mail!SendTelegramAlert, MailP!SendTelegramAlert
  <2>13. Mail!CutOff(j) => MailP!CutOff(j)
    BY <2>1, <2>2 DEF Mail!CutOff, MailP!CutOff, Mail!TimeOut, MailP!TimeOut
  <2>14. Mail!Record(j) => MailP!Record(j)
    BY DEF Mail!Record, MailP!Record
  <2>15. MailP!Task(j) \/ MailP!CutOff(j) \/ MailP!Record(j)
    BY <1>6, <2>3, <2>4, <2>5, <2>6, <2>7, <2>8, <2>9, <2>10, <2>11, <2>12, <2>13, <2>14
       DEF Mail!Progress, Mail!Task, MailP!Task
  <2> QED BY <2>15 DEF MailP!Next
<1>7. CASE UNCHANGED vars
  BY <1>1, <1>7 DEF vars
<1>8. CASE \/ \E q \in Req : Arrive(q) \/ SendInsert(q)
           \/ ApiStep
  BY <1>1, <1>8 DEF Arrive, SendInsert, ApiStep
<1> QED BY <1>2, <1>3, <1>4, <1>5, <1>6, <1>7, <1>8 DEF Next, Worker

-----------------------------------------------------------------------------
(* What ties the two parts together.                                       *)

\* What is known of each of them.
Known == ApiP!TypeInv /\ ApiP!HandlerInv /\ MailP!TypeInv /\ MailP!JobInv

\* The requests that are sends; a row is of the one that created it.
Sends == {q \in Req : body[q].op = "send"}

Early     == {"idle", "limits", "invalidate", "insert", "fetch"}
Sending   == {"limits", "invalidate", "insert", "enqueue"}
Verifying == {"fetch", "check", "count", "mark"}

\* A request holds a row from its insert or its fetch on, and a verify that holds one
\* is not answered DB_ERROR.
RecInvOf(q) ==
  /\ pc[q] \in Early => rec[q] = 0
  /\ pc[q] \in Sending => q \in Sends
  /\ pc[q] \in Verifying => q \notin Sends
  /\ q \notin Sends /\ reply[q] = "DB_ERROR" => rec[q] = 0

RecInv ==
  /\ \A q \in Req : RecInvOf(q)
  /\ \A q, s \in Sends : rec[q] = rec[s] /\ rec[q] # 0 => q = s
  /\ \A i \in Api!Ids : \E q \in Sends : rec[q] = i

\* The queue of the API is what ARQ knows of, and its codes are those of requests that
\* are answered "sent".
QueueInv ==
  /\ \A i \in Position : i \in queue <=> job[i] # "absent"
  /\ \A q \in Sends : rec[q] \in queue => reply[q] = "sent"

\* A job has a result when it is over, and has said nothing before it is queued.
ResultInv ==
  \A i \in Position :
    /\ job[i] = "finished" <=> result[i] # "none"
    /\ job[i] = "absent" => said[i] = {}

\* Where a task has read the lifetime that its email states.
Mailing == {"sender", "smtp", "log_success", "touch", "backoff"}

\* As long as nobody changed the lifetime since a send came in, its job has read and
\* mailed no other.
SaidInvOf(q) ==
  lifetime[q] # Changed =>
    /\ lifetime[q] = expiry
    /\ q \in Sends /\ rec[q] # 0 =>
         /\ said[rec[q]] \subseteq {expiry \div 60}
         /\ task[rec[q]].pc \in Mailing => task[rec[q]].minutes = expiry \div 60

SaidInv == lifetime \in [Req -> Expiries \cup {Changed}] /\ \A q \in Req : SaidInvOf(q)

ServiceInv == RecInv /\ QueueInv /\ ResultInv /\ SaidInv

\* The part of Known that the proofs below use.
LEMMA ApiFacts ==
  ASSUME Known
  PROVE  /\ Len(otp_records) \in Nat
         /\ queue \subseteq Api!Ids
         /\ pc = [q \in Req |-> pc[q]] /\ reply = [q \in Req |-> reply[q]]
         /\ rec = [q \in Req |-> rec[q]] /\ \A q \in Req : rec[q] \in Api!Ids \cup {0}
         /\ \A q \in Req : pc[q] = "enqueue" => rec[q] \in Api!Ids
         /\ \A q \in Req : reply[q] # "NONE" => pc[q] \in {"sleep", "done", "aborted"}
<1>1. otp_records \in Seq(ApiP!Row)
  BY DEF Known, ApiP!TypeInv, ApiP!TypeOK
<1>2. Api!Ids = ApiP!Ids /\ Len(otp_records) \in Nat
  BY <1>1 DEF Api!Ids, ApiP!Ids
<1>3. \A q \in Req : pc[q] = "enqueue" => rec[q] \in Api!Ids
  BY <1>2 DEF Known, ApiP!TypeInv, ApiP!HoldsRow
<1>4. \A q \in Req : reply[q] # "NONE" => pc[q] \in {"sleep", "done", "aborted"}
  BY DEF Known, ApiP!HandlerInv, ApiP!HandlerInvOf, ApiP!Final
<1> QED BY <1>2, <1>3, <1>4 DEF Known, ApiP!TypeInv, ApiP!TypeOK

LEMMA MailFacts ==
  ASSUME Known
  PROVE  /\ DOMAIN job = Position /\ DOMAIN task = Position /\ DOMAIN result = Position
         /\ DOMAIN inbox = Position /\ DOMAIN said = Position
         /\ \A i \in Position : /\ job[i] \in {"absent", "queued", "running", "finished"}
                                /\ "pc" \in DOMAIN task[i] /\ "minutes" \in DOMAIN task[i]
                                /\ task[i].pc = "off" <=> job[i] # "running"
                                /\ inbox[i] \in Nat /\ inbox[i] <= MaxTries * Len(RetryDelays)
<1>1. \A i \in Position : inbox[i] <= MaxTries * Len(RetryDelays)
  BY DEF Known, MailP!JobInv, MailP!JobInvOf, MailP!BudgetInv, MailP!Full, MailP!Attempts
<1>2. \A i \in Position : task[i].pc = "off" <=> job[i] # "running"
  BY DEF Known, MailP!TypeInv, MailP!WorkerInv
<1> QED BY <1>1, <1>2 DEF Known, MailP!TypeInv, MailP!TypeOK

\* What a request asks stays.
LEMMA SendsFixed == [Next]_vars => Sends' = Sends
BY DEF Next, Sends, Arrive, SendInsert, SendEnqueue, ApiStep, Worker, WorkerStop, SetOtp,
       Api!Arrive, Api!SendInsert, Api!SendEnqueue, Api!RateLimit, Api!SendInvalidate,
       Api!AntiEnumSleep, Api!VerifyFetch, Api!VerifyCheck, Api!VerifyCount, Api!VerifyMark,
       Api!Expire, Api!ApiCrash, Api!SetOtp, apiVars, vars

\* There are no more rows than requests.
LEMMA RowsFit == ASSUME Known, RecInv PROVE Api!Ids \subseteq Position
<1> DEFINE S == {q \in Sends : rec[q] # 0}
           f == [q \in S |-> rec[q]]
           n == Len(otp_records)
<1>1. n \in Nat /\ IsFiniteSet(Req)
  BY ApiFacts, ApiAssumption DEF ApiAssumption
<1>2. f \in Surjection(S, 1..n)
  <2>1. \A q \in S : rec[q] \in 1..n
    BY ApiFacts DEF Api!Ids, Sends
  <2>2. \A i \in 1..n : \E q \in S : rec[q] = i
    BY <1>1 DEF RecInv, Api!Ids
  <2> HIDE DEF S, n
  <2> QED BY <2>1, <2>2 DEF Surjection
<1>3. IsFiniteSet(S) /\ Cardinality(S) <= Cardinality(Req)
  <2>1. S \subseteq Req
    BY DEF Sends
  <2> HIDE DEF S
  <2> QED BY <1>1, <2>1, FS_Subset
<1> HIDE DEF S, f, n
<1>4. Cardinality(1..n) <= Cardinality(S)
  BY <1>2, <1>3, FS_Surjection
<1>5. Cardinality(1..n) = n
  BY <1>1, FS_Interval
<1>6. Cardinality(S) \in Nat /\ Cardinality(Req) \in Nat
  BY <1>1, <1>3, FS_CardinalityType
<1>7. n <= Cardinality(Req)
  BY <1>1, <1>3, <1>4, <1>5, <1>6
<1> QED BY <1>1, <1>6, <1>7 DEF n, Api!Ids, Position

LEMMA RowsFitNext == (Known /\ RecInv)' => (Api!Ids \subseteq Position)'
<1>1. Known /\ RecInv => Api!Ids \subseteq Position
  BY RowsFit
<1> QED BY <1>1, PTL

\* A step of the worker at job j, as far as the service is concerned.
WorkerMove(j) ==
  /\ \A i \in Position : i # j =>
       /\ job'[i] = job[i] /\ task'[i] = task[i] /\ result'[i] = result[i]
       /\ inbox'[i] = inbox[i] /\ said'[i] = said[i]
  /\ job[j] \in {"queued", "running"} /\ job'[j] \in {"running", "finished"}
  /\ \/ result'[j] = result[j] /\ job'[j] = "running"
     \/ result'[j] # "none" /\ job'[j] = "finished"
  /\ \/ said'[j] = said[j] /\ inbox' = inbox
     \/ /\ said'[j] = said[j] \cup {task[j].minutes} /\ task[j].pc = "smtp"
        /\ inbox' = [inbox EXCEPT ![j] = @ + 1] /\ job[j] = "running"
  /\ task'[j].pc \in Mailing =>
       \/ task'[j].minutes = expiry \div 60
       \/ task[j].pc \in Mailing /\ task'[j].minutes = task[j].minutes
  /\ UNCHANGED <<sender, expiry>>

LEMMA WorkerMoves ==
  ASSUME Known, ResultInv, NEW j \in Position, Mail!Start(j) \/ Mail!Progress(j)
  PROVE  WorkerMove(j)
<1> USE DEF Mail!ArqUnchanged, Mail!BotUnchanged, Mail!MailUnchanged, Mail!Goto, Mail!Finish,
            Mail!NoTask, Mailing
<1>1. /\ DOMAIN job = Position /\ DOMAIN task = Position /\ DOMAIN result = Position
      /\ DOMAIN inbox = Position /\ DOMAIN said = Position
      /\ job[j] \in {"absent", "queued", "running", "finished"}
      /\ "pc" \in DOMAIN task[j] /\ "minutes" \in DOMAIN task[j]
      /\ task[j].pc = "off" <=> job[j] # "running"
  BY MailFacts
<1>2. CASE Mail!Start(j)
  BY <1>1, <1>2 DEF Mail!Start, Mail!FirstCall, WorkerMove
<1>3. CASE Mail!Record(j)
  BY <1>1, <1>3 DEF Mail!Record, Mail!Ended, WorkerMove
<1>4. CASE Mail!CutOff(j)
  BY <1>1, <1>4 DEF Mail!CutOff, Mail!TimeOut, Mail!Deliver, Mail!CanFail, WorkerMove
<1>5. CASE Mail!CreateClient(j) \/ Mail!FetchSender(j) \/ Mail!Backoff(j)
  BY <1>1, <1>5 DEF Mail!CreateClient, Mail!FetchSender, Mail!Backoff, WorkerMove
<1>6. CASE Mail!FetchProject(j)
  BY <1>1, <1>6 DEF Mail!FetchProject, Mail!ExpiryMinutes, WorkerMove
<1>7. CASE Mail!Reject(j) \/ Mail!LogSuccess(j) \/ Mail!LogFailure(j)
  BY <1>1, <1>7 DEF Mail!Reject, Mail!LogSuccess, Mail!LogFailure, Mail!LogRow, WorkerMove
<1>8. CASE Mail!Touch(j) \/ Mail!SendTelegramAlert(j)
  BY <1>1, <1>8 DEF Mail!Touch, Mail!SendTelegramAlert, Mail!AfterFailure, WorkerMove
<1>9. CASE Mail!SmtpSend(j)
  BY <1>1, <1>9 DEF Mail!SmtpSend, Mail!Deliver, Mail!AfterFailure, WorkerMove
<1> QED BY <1>2, <1>3, <1>4, <1>5, <1>6, <1>7, <1>8, <1>9 DEF Mail!Progress, Mail!Task

\* A step that creates no row and queues nothing leaves the ties alone.
LEMMA TiesRest ==
  ASSUME Known, ServiceInv, UNCHANGED <<mailVars, lifetime, queue>>, Sends' = Sends,
         Len(otp_records') = Len(otp_records),
         \A q \in Req : RecInvOf(q)',
         \A q \in Sends : rec'[q] = rec[q] /\ (reply[q] = "sent" => reply'[q] = "sent")
  PROVE  ServiceInv'
<1>1. Sends \subseteq Req
  BY DEF Sends
<1>2. RecInv'
  BY DEF ServiceInv, RecInv, Api!Ids
<1>3. QueueInv'
  BY DEF ServiceInv, QueueInv, mailVars
<1>4. ResultInv'
  BY DEF ServiceInv, ResultInv, mailVars
<1>5. SaidInv'
  BY <1>1 DEF ServiceInv, SaidInv, SaidInvOf, mailVars
<1> QED BY <1>2, <1>3, <1>4, <1>5 DEF ServiceInv

\* A step of the API alone creates no row and queues nothing; a send keeps the row it has,
\* and nobody who holds a row is told DB_ERROR now.
ToldSame(q) ==
  \/ rec'[q] = rec[q] /\ (reply[q] = "DB_ERROR" <=> reply'[q] = "DB_ERROR")
  \/ rec[q] = 0 /\ rec'[q] = 0
  \/ reply[q] # "DB_ERROR" /\ reply'[q] # "DB_ERROR"

LEMMA ApiMoves ==
  ASSUME Known, RecInv, ApiStep, Sends' = Sends
  PROVE  /\ UNCHANGED <<mailVars, lifetime, queue>>
         /\ Len(otp_records') = Len(otp_records)
         /\ \A s \in Req : RecInvOf(s)' /\ ToldSame(s)
         /\ \A s \in Sends : rec'[s] = rec[s] /\ (reply[s] = "sent" => reply'[s] = "sent")
<1> USE DEF Early, Sending, Verifying
<1>1. UNCHANGED <<mailVars, lifetime, queue>>
  BY DEF ApiStep, Api!RateLimit, Api!SendInvalidate, Api!AntiEnumSleep, Api!VerifyFetch,
         Api!VerifyCheck, Api!VerifyCount, Api!VerifyMark, Api!Expire, Api!ApiCrash,
         Api!TableUnchanged
<1>2. Len(otp_records') = Len(otp_records)
  <2>1. ASSUME NEW q \in Req, Api!SendInvalidate(q) PROVE Len(otp_records') = Len(otp_records)
    BY <2>1, ApiFacts DEF Api!SendInvalidate, Api!Ids
  <2>2. ASSUME NEW q \in Req, Api!VerifyCount(q) \/ Api!VerifyMark(q)
        PROVE  Len(otp_records') = Len(otp_records)
    <3>1. PICK o, i, row : Api!Write(o, i, row)
      BY <2>2 DEF Api!VerifyCount, Api!VerifyMark
    <3>2. otp_records \in Seq(ApiP!Row)
      BY DEF Known, ApiP!TypeInv, ApiP!TypeOK
    <3> QED BY <3>1, <3>2 DEF Api!Write
  <2> QED BY <2>1, <2>2 DEF ApiStep, Api!RateLimit, Api!AntiEnumSleep, Api!VerifyFetch,
                            Api!VerifyCheck, Api!Expire, Api!ApiCrash, Api!TableUnchanged
<1>3. \A s \in Req : RecInvOf(s)
  BY DEF RecInv
<1>4. \A s \in Req : reply[s] # "NONE" => pc[s] \in {"sleep", "done", "aborted"}
  BY ApiFacts
\* A step of one handler.
<1>5. ASSUME NEW q \in Req,
             /\ \A s \in Req : s # q => pc'[s] = pc[s] /\ rec'[s] = rec[s] /\ reply'[s] = reply[s]
             /\ RecInvOf(q)' /\ ToldSame(q) /\ (q \in Sends => rec'[q] = rec[q])
             /\ reply[q] = "sent" => reply'[q] = "sent"
      PROVE  /\ \A s \in Req : RecInvOf(s)' /\ ToldSame(s)
             /\ \A s \in Sends : rec'[s] = rec[s] /\ (reply[s] = "sent" => reply'[s] = "sent")
  <2>1. \A s \in Req : s # q => RecInvOf(s)' /\ ToldSame(s)
    BY <1>3, <1>5 DEF RecInvOf, ToldSame
  <2> QED BY <1>5, <2>1 DEF Sends
<1>6. ASSUME NEW q \in Req, Api!RateLimit(q) \/ Api!SendInvalidate(q)
      PROVE  /\ \A s \in Req : s # q => pc'[s] = pc[s] /\ rec'[s] = rec[s] /\ reply'[s] = reply[s]
             /\ RecInvOf(q)' /\ ToldSame(q) /\ (q \in Sends => rec'[q] = rec[q])
             /\ reply[q] = "sent" => reply'[q] = "sent"
  BY <1>3, <1>4, <1>6, ApiFacts
     DEF Api!RateLimit, Api!SendInvalidate, Api!Respond, RecInvOf, ToldSame
<1>7. ASSUME NEW q \in Req, Api!VerifyFetch(q)
      PROVE  /\ \A s \in Req : s # q => pc'[s] = pc[s] /\ rec'[s] = rec[s] /\ reply'[s] = reply[s]
             /\ RecInvOf(q)' /\ ToldSame(q) /\ (q \in Sends => rec'[q] = rec[q])
             /\ reply[q] = "sent" => reply'[q] = "sent"
  <2>1. pc[q] = "fetch" /\ q \notin Sends /\ rec[q] = 0 /\ reply[q] = "NONE"
    BY <1>3, <1>4, <1>7 DEF Api!VerifyFetch, RecInvOf
  <2>2. \/ /\ rec' = rec /\ pc' = [pc EXCEPT ![q] = "done"]
           /\ reply' = [reply EXCEPT ![q] = "DB_ERROR"]
        \/ /\ rec' = rec /\ pc' = [pc EXCEPT ![q] = "sleep"]
           /\ reply' = [reply EXCEPT ![q] = "OTP_NOT_FOUND"]
        \/ /\ \E i \in Api!Ids : rec' = [rec EXCEPT ![q] = i]
           /\ pc' = [pc EXCEPT ![q] = "check"] /\ reply' = reply
    BY <1>7 DEF Api!VerifyFetch, Api!Respond, Api!RespondAfterSleep, Api!Latest, Api!PendingFor
  <2> QED BY <2>1, <2>2, ApiFacts DEF RecInvOf, ToldSame
<1>8. ASSUME NEW q \in Req, \/ Api!VerifyCheck(q) \/ Api!VerifyCount(q) \/ Api!VerifyMark(q)
                            \/ Api!AntiEnumSleep(q)
      PROVE  /\ \A s \in Req : s # q => pc'[s] = pc[s] /\ rec'[s] = rec[s] /\ reply'[s] = reply[s]
             /\ RecInvOf(q)' /\ ToldSame(q) /\ (q \in Sends => rec'[q] = rec[q])
             /\ reply[q] = "sent" => reply'[q] = "sent"
  BY <1>3, <1>4, <1>8, ApiFacts
     DEF Api!VerifyCheck, Api!VerifyCount, Api!VerifyMark, Api!AntiEnumSleep,
         Api!RespondAfterSleep, RecInvOf, ToldSame
\* The API process stops, and a code's lifetime runs out.
<1>9. ASSUME Api!ApiCrash \/ \E i \in Api!Ids : Api!Expire(i)
      PROVE  /\ \A s \in Req : RecInvOf(s)' /\ ToldSame(s)
             /\ \A s \in Sends : rec'[s] = rec[s] /\ (reply[s] = "sent" => reply'[s] = "sent")
  <2>1. rec' = rec /\ reply' = reply
    BY <1>9 DEF Api!ApiCrash, Api!Expire
  <2>2. \A s \in Req : pc'[s] \in {pc[s], "aborted"}
    <3>1. CASE Api!ApiCrash
      <4>1. pc' = [s \in Req |-> IF s \in Api!InFlight THEN "aborted" ELSE pc[s]]
        BY <3>1 DEF Api!ApiCrash
      <4> QED BY <4>1
    <3>2. CASE \E i \in Api!Ids : Api!Expire(i)
      BY <3>2 DEF Api!Expire
    <3> QED BY <1>9, <3>1, <3>2
  <2>3. \A s \in Req : RecInvOf(s)'
    BY <1>3, <2>1, <2>2 DEF RecInvOf
  <2> QED BY <2>1, <2>3 DEF ToldSame
<1>10. /\ \A s \in Req : RecInvOf(s)' /\ ToldSame(s)
       /\ \A s \in Sends : rec'[s] = rec[s] /\ (reply[s] = "sent" => reply'[s] = "sent")
  <2>1. ASSUME NEW q \in Req,
               \/ Api!RateLimit(q) \/ Api!SendInvalidate(q) \/ Api!AntiEnumSleep(q)
               \/ Api!VerifyFetch(q) \/ Api!VerifyCheck(q)
               \/ Api!VerifyCount(q) \/ Api!VerifyMark(q)
        PROVE  /\ \A s \in Req : RecInvOf(s)' /\ ToldSame(s)
               /\ \A s \in Sends : rec'[s] = rec[s] /\ (reply[s] = "sent" => reply'[s] = "sent")
    <3>1. /\ \A s \in Req : s # q => pc'[s] = pc[s] /\ rec'[s] = rec[s] /\ reply'[s] = reply[s]
          /\ RecInvOf(q)' /\ ToldSame(q) /\ (q \in Sends => rec'[q] = rec[q])
          /\ reply[q] = "sent" => reply'[q] = "sent"
      BY <1>6, <1>7, <1>8, <2>1
    <3> QED BY <1>5, <3>1
  <2> QED BY <1>9, <2>1 DEF ApiStep
<1> QED BY <1>1, <1>2, <1>10

LEMMA ArriveTies == ASSUME Known, ServiceInv, NEW q \in Req, Arrive(q) PROVE ServiceInv'
<1>1. /\ UNCHANGED <<mailVars, otp_records, queue, rec, reply>>
      /\ lifetime' = [lifetime EXCEPT ![q] = expiry] /\ pc[q] = "idle"
  BY DEF Arrive, Api!Arrive, Api!TableUnchanged
<1>2. \A s \in Req : s # q => pc'[s] = pc[s]
  BY ApiFacts DEF Arrive, Api!Arrive
<1>3. expiry \in Expiries
  BY DEF Known, MailP!TypeInv, MailP!TypeOK
<1>8. Sends' = Sends
  BY SendsFixed DEF Next
<1>4. RecInv'
  <2>1. pc'[q] = IF q \in Sends THEN "limits" ELSE "fetch"
    BY ApiFacts DEF Arrive, Api!Arrive, Sends
  <2>2. rec[q] = 0
    BY <1>1 DEF ServiceInv, RecInv, RecInvOf, Early
  <2>3. \A s \in Req : RecInvOf(s)'
    BY <1>1, <1>2, <1>8, <2>1, <2>2 DEF ServiceInv, RecInv, RecInvOf, Early, Sending, Verifying
  <2> QED BY <1>1, <1>8, <2>3 DEF ServiceInv, RecInv, Api!Ids
<1>5. QueueInv' /\ ResultInv'
  BY <1>1, <1>8 DEF ServiceInv, QueueInv, ResultInv, mailVars
<1>6. rec[q] = 0
  BY <1>1 DEF ServiceInv, RecInv, RecInvOf, Early
<1>7. SaidInv'
  BY <1>1, <1>3, <1>6, <1>8 DEF ServiceInv, SaidInv, SaidInvOf, mailVars
<1> QED BY <1>4, <1>5, <1>7 DEF ServiceInv

\* A new row is one that neither the queue nor the worker has heard of.
LEMMA InsertTies ==
  ASSUME Known, Known', ServiceInv, NEW q \in Req, SendInsert(q) PROVE ServiceInv'
<1> DEFINE n == Len(otp_records) + 1
<1>1. /\ UNCHANGED <<mailVars, lifetime, queue>> /\ pc[q] = "insert" /\ rec[q] = 0
      /\ reply[q] = "NONE"
  <2>1. pc[q] = "insert" /\ UNCHANGED <<mailVars, lifetime, queue>>
    BY DEF SendInsert, Api!SendInsert
  <2> QED BY <2>1, ApiFacts DEF ServiceInv, RecInv, RecInvOf, Early
<1>2. \/ otp_records' = otp_records /\ rec' = [rec EXCEPT ![q] = 0]
      \/ Len(otp_records') = n /\ rec' = [rec EXCEPT ![q] = n]
  <2>1. otp_records \in Seq(ApiP!Row)
    BY DEF Known, ApiP!TypeInv, ApiP!TypeOK
  <2>2. PICK c \in Code :
          \/ otp_records' = otp_records /\ rec' = [rec EXCEPT ![q] = 0]
          \/ /\ otp_records' = Append(otp_records, Api!NewRow(body[q].to, c))
             /\ rec' = [rec EXCEPT ![q] = n]
    BY DEF SendInsert, Api!SendInsert
  <2> QED BY <2>1, <2>2
<1>3. /\ pc'[q] \in {"enqueue", "done"}
      /\ \A s \in Req : s # q => pc'[s] = pc[s] /\ reply'[s] = reply[s]
  BY ApiFacts DEF SendInsert, Api!SendInsert, Api!Respond
<1>4. \A s \in Req : rec[s] # n /\ rec[s] \in Api!Ids \cup {0}
  BY ApiFacts DEF Api!Ids
<1>5. \A s \in Req : s # q => rec'[s] = rec[s]
  BY <1>2, ApiFacts
<1>6. \/ rec'[q] = 0 /\ Api!Ids' = Api!Ids
      \/ rec'[q] = n /\ Api!Ids' = Api!Ids \cup {n}
  BY <1>2, ApiFacts DEF Api!Ids
<1>13. Sends' = Sends /\ q \in Sends /\ Sends \subseteq Req
  BY <1>1, SendsFixed DEF Next, ServiceInv, RecInv, RecInvOf, Sending, Sends
<1>7. RecInv'
  <2>1. \A s \in Req : RecInvOf(s)'
    BY <1>3, <1>5, <1>13 DEF ServiceInv, RecInv, RecInvOf, Early, Sending, Verifying
  <2>2. \A s, t \in Sends : rec'[s] = rec'[t] /\ rec'[s] # 0 => s = t
    BY <1>4, <1>5, <1>6, <1>13 DEF ServiceInv, RecInv
  <2>3. \A i \in Api!Ids' : \E s \in Sends : rec'[s] = i
    <3> SUFFICES ASSUME NEW i \in Api!Ids' PROVE \E s \in Sends : rec'[s] = i
      OBVIOUS
    <3>1. CASE i \in Api!Ids
      <4>1. PICK s \in Sends : rec[s] = i
        BY <3>1 DEF ServiceInv, RecInv
      <4>2. i # 0
        BY <3>1, ApiFacts DEF Api!Ids
      <4> QED BY <1>1, <1>5, <1>13, <4>1, <4>2
    <3> QED BY <1>6, <1>13, <3>1
  <2> QED BY <1>13, <2>1, <2>2, <2>3 DEF RecInv
<1>8. n \notin queue /\ 0 \notin queue
  BY ApiFacts DEF Api!Ids
<1>9. rec'[q] # 0 => rec'[q] \in Position /\ rec'[q] = n
  <2>1. (Api!Ids \subseteq Position)'
    BY <1>7, RowsFitNext
  <2>2. Api!Ids' \subseteq Position
    BY <2>1 DEF Position
  <2> QED BY <1>6, <2>2
<1>10. QueueInv'
  BY <1>1, <1>3, <1>5, <1>6, <1>8, <1>13 DEF ServiceInv, QueueInv, mailVars
<1>11. ResultInv'
  BY <1>1 DEF ServiceInv, ResultInv, mailVars
<1>12. SaidInv'
  <2> SUFFICES ASSUME NEW s \in Req PROVE SaidInvOf(s)'
    BY <1>1 DEF ServiceInv, SaidInv, mailVars
  <2>1. CASE s # q
    BY <1>1, <1>5, <1>13, <2>1 DEF ServiceInv, SaidInv, SaidInvOf, mailVars
  <2>2. CASE s = q /\ rec'[q] = 0
    BY <1>1, <2>2 DEF ServiceInv, SaidInv, SaidInvOf, mailVars
  <2>3. CASE s = q /\ rec'[q] # 0
    <3>1. n \in Position /\ rec'[q] = n
      BY <1>9, <2>3
    <3>2. job[n] = "absent" /\ said[n] = {} /\ task[n].pc = "off"
      BY <1>8, <3>1, MailFacts DEF ServiceInv, QueueInv, ResultInv
    <3>3. "off" \notin Mailing
      BY DEF Mailing
    <3> HIDE DEF n
    <3> QED BY <1>1, <2>3, <3>1, <3>2, <3>3 DEF ServiceInv, SaidInv, SaidInvOf, mailVars
  <2> QED BY <2>1, <2>2, <2>3
<1> QED BY <1>7, <1>10, <1>11, <1>12 DEF ServiceInv

\* The code of a queued job is that of the request that is answered "sent" for it.
LEMMA EnqueueTies ==
  ASSUME Known, ServiceInv, NEW q \in Req, SendEnqueue(q) PROVE ServiceInv'
<1>1. /\ UNCHANGED <<otp_records, rec, lifetime>> /\ pc[q] = "enqueue"
      /\ queue' = queue \/ queue' = queue \cup {rec[q]}
  BY DEF SendEnqueue, Api!SendEnqueue
<1>2. pc'[q] = "sleep" /\ reply'[q] = "sent"
      /\ \A s \in Req : s # q => pc'[s] = pc[s] /\ reply'[s] = reply[s]
  BY ApiFacts DEF SendEnqueue, Api!SendEnqueue, Api!RespondAfterSleep
<1>3. rec[q] \in Position /\ rec[q] # 0
  BY <1>1, ApiFacts, RowsFit DEF ServiceInv, Api!Ids
<1>7. Sends' = Sends /\ q \in Sends /\ Sends \subseteq Req
  BY <1>1, SendsFixed DEF Next, ServiceInv, RecInv, RecInvOf, Sending, Sends
<1>4. RecInv'
  BY <1>1, <1>2, <1>7 DEF ServiceInv, RecInv, RecInvOf, Early, Sending, Verifying, Api!Ids
<1>5. CASE queue' = queue
  <2>1. UNCHANGED mailVars
    BY <1>5 DEF SendEnqueue
  <2>2. QueueInv' /\ ResultInv' /\ SaidInv'
    BY <1>1, <1>2, <1>5, <1>7, <2>1
       DEF ServiceInv, QueueInv, ResultInv, SaidInv, SaidInvOf, mailVars
  <2> QED BY <1>4, <2>2 DEF ServiceInv
<1>6. CASE queue' # queue
  <2>1. /\ job' = [job EXCEPT ![rec[q]] = "queued"] /\ job[rec[q]] = "absent"
        /\ UNCHANGED <<task, result, said, expiry>> /\ queue' = queue \cup {rec[q]}
    BY <1>1, <1>6 DEF SendEnqueue, Mail!Enqueue, Mail!BotUnchanged, Mail!MailUnchanged
  <2>2. PICK j \in Position : j = rec[q]
    BY <1>3
  <2>3. job' = [job EXCEPT ![j] = "queued"] /\ job[j] = "absent" /\ DOMAIN job = Position
    BY <2>1, <2>2, MailFacts
  <2>4. QueueInv'
    <3>1. \A i \in Position : i \in queue' <=> job'[i] # "absent"
      BY <2>1, <2>2, <2>3 DEF ServiceInv, QueueInv
    <3>2. \A s \in Sends : rec[s] \in queue' => reply'[s] = "sent"
      BY <1>2, <1>3, <1>7, <2>1 DEF ServiceInv, QueueInv, RecInv
    <3> QED BY <1>1, <1>7, <3>1, <3>2 DEF QueueInv
  <2>5. ResultInv'
    BY <2>1, <2>3 DEF ServiceInv, ResultInv
  <2>6. SaidInv'
    BY <1>1, <1>7, <2>1 DEF ServiceInv, SaidInv, SaidInvOf
  <2> QED BY <1>4, <2>4, <2>5, <2>6 DEF ServiceInv
<1> QED BY <1>5, <1>6

LEMMA ApiTies == ASSUME Known, ServiceInv, ApiStep PROVE ServiceInv'
<1>1. Sends' = Sends
  BY SendsFixed DEF Next
<1> QED BY <1>1, ApiMoves, TiesRest DEF ServiceInv

\* The worker reads the lifetime that nobody changed, and mails what it has read.
LEMMA WorkerTies ==
  ASSUME Known, ServiceInv, NEW j \in Position, Mail!Start(j) \/ Mail!Progress(j),
         UNCHANGED <<apiVars, lifetime>>
  PROVE  ServiceInv'
<1>1. WorkerMove(j)
  BY WorkerMoves DEF ServiceInv
<1>6. Sends' = Sends
  BY DEF Sends, apiVars
<1>2. RecInv'
  BY <1>6 DEF ServiceInv, RecInv, RecInvOf, apiVars, Api!Ids
<1>3. QueueInv'
  BY <1>1, <1>6 DEF ServiceInv, QueueInv, apiVars, WorkerMove
<1>4. ResultInv'
  BY <1>1 DEF ServiceInv, ResultInv, WorkerMove
<1>5. SaidInv'
  <2> SUFFICES ASSUME NEW q \in Req PROVE SaidInvOf(q)'
    BY <1>1 DEF ServiceInv, SaidInv
  <2>1. SaidInvOf(q) /\ UNCHANGED <<rec, lifetime, expiry>>
    BY <1>1 DEF ServiceInv, SaidInv, apiVars, WorkerMove
  <2>2. CASE lifetime[q] = Changed \/ rec[q] = 0 \/ q \notin Sends
    BY <1>6, <2>1, <2>2 DEF SaidInvOf
  <2>3. CASE lifetime[q] # Changed /\ rec[q] # 0 /\ q \in Sends
    <3>1. PICK i \in Position : i = rec[q]
      BY <2>3, ApiFacts, RowsFit DEF ServiceInv
    <3>2. said[i] \subseteq {expiry \div 60}
          /\ (task[i].pc \in Mailing => task[i].minutes = expiry \div 60)
      BY <2>1, <2>3, <3>1 DEF SaidInvOf
    <3>3. said'[i] \subseteq {expiry \div 60}
          /\ (task'[i].pc \in Mailing => task'[i].minutes = expiry \div 60)
      <4>1. CASE i # j
        BY <1>1, <3>2, <4>1 DEF WorkerMove
      <4>2. CASE i = j
        <5>1. task[i].pc = "smtp" => task[i].minutes = expiry \div 60
          BY <3>2 DEF Mailing
        <5> QED BY <1>1, <3>2, <4>2, <5>1 DEF WorkerMove
      <4> QED BY <4>1, <4>2
    <3> QED BY <1>6, <2>1, <3>1, <3>3 DEF SaidInvOf
  <2> QED BY <2>2, <2>3
<1> QED BY <1>2, <1>3, <1>4, <1>5 DEF ServiceInv

LEMMA StopTies == ASSUME Known, ServiceInv, WorkerStop PROVE ServiceInv'
<1>1. /\ UNCHANGED <<apiVars, lifetime, result, said, expiry>>
      /\ job' = [i \in Position |-> IF i \in Mail!Running THEN "queued" ELSE job[i]]
      /\ task' = [i \in Position |-> Mail!NoTask]
  BY DEF WorkerStop, Mail!WorkerStop, Mail!BotUnchanged, Mail!MailUnchanged
<1>2. \A i \in Mail!Running : job[i] = "running"
  BY DEF Mail!Running
<1>7. Sends' = Sends
  BY <1>1 DEF Sends, apiVars
<1>3. RecInv'
  BY <1>1, <1>7 DEF ServiceInv, RecInv, RecInvOf, apiVars, Api!Ids
<1>4. QueueInv'
  BY <1>1, <1>2, <1>7 DEF ServiceInv, QueueInv, apiVars
<1>5. ResultInv'
  BY <1>1, <1>2 DEF ServiceInv, ResultInv
<1>6. SaidInv'
  <2> SUFFICES ASSUME NEW q \in Req PROVE SaidInvOf(q)'
    BY <1>1 DEF ServiceInv, SaidInv
  <2>1. SaidInvOf(q) /\ UNCHANGED <<rec, lifetime, expiry, said>>
    BY <1>1 DEF ServiceInv, SaidInv, apiVars
  <2>2. rec[q] # 0 => task'[rec[q]].pc = "off"
    BY <1>1, ApiFacts, RowsFit DEF ServiceInv, Mail!NoTask
  <2> QED BY <1>7, <2>1, <2>2 DEF SaidInvOf, Mailing
<1> QED BY <1>3, <1>4, <1>5, <1>6 DEF ServiceInv

\* /setotp either leaves the lifetime or changes it for everybody.
LEMMA SetOtpTies ==
  ASSUME Known, ServiceInv, NEW p \in Project, NEW n \in Limits, NEW seconds \in Expiries,
         SetOtp(p, n, seconds)
  PROVE  ServiceInv'
<1>1. /\ UNCHANGED <<otp_records, queue, pc, rec, reply, job, task, result, said>>
      /\ expiry' = seconds
      /\ lifetime' = IF seconds = expiry THEN lifetime ELSE [q \in Req |-> Changed]
  BY DEF SetOtp, Api!SetOtp, Mail!SetExpiry, Mail!WorkerUnchanged, Mail!MailUnchanged
<1>4. Sends' = Sends
  BY DEF SetOtp, Api!SetOtp, Sends
<1>2. RecInv' /\ QueueInv' /\ ResultInv'
  BY <1>1, <1>4 DEF ServiceInv, RecInv, RecInvOf, QueueInv, ResultInv, Api!Ids
<1>3. SaidInv'
  <2>1. CASE seconds = expiry
    BY <1>1, <1>4, <2>1 DEF ServiceInv, SaidInv, SaidInvOf
  <2>2. CASE seconds # expiry
    BY <1>1, <2>2 DEF ServiceInv, SaidInv, SaidInvOf
  <2> QED BY <2>1, <2>2
<1> QED BY <1>2, <1>3 DEF ServiceInv

LEMMA KnownStep == ASSUME Known, ServiceInv, [Next]_vars PROVE Known'
<1>1. [ApiP!Next]_ApiP!vars
  BY ApiPart
<1>2. ApiP!TypeInv'
  BY <1>1, ApiTypeStep DEF Known
<1>3. ApiP!HandlerInv'
  BY <1>1, <1>2, ApiP!HandlerStep, ApiConstants DEF Known
<1>4. \A q \in Req : SendEnqueue(q) => rec[q] \in Position
  BY ApiFacts, RowsFit DEF SendEnqueue, Api!SendEnqueue, ServiceInv
<1>5. [MailP!Next]_MailP!vars
  BY <1>4, MailPart
<1> QED BY <1>2, <1>3, <1>5, MailTypeStep, MailJobStep DEF Known

LEMMA ServiceStep == ASSUME Known, ServiceInv, [Next]_vars PROVE ServiceInv'
<1>1. Known'
  BY KnownStep
<1>2. CASE UNCHANGED vars
  BY <1>2 DEF vars, apiVars, mailVars, ServiceInv, RecInv, RecInvOf, Sends, QueueInv, ResultInv,
              SaidInv, SaidInvOf, Api!Ids
<1> QED BY <1>1, <1>2, ArriveTies, InsertTies, EnqueueTies, ApiTies, WorkerTies, StopTies,
           SetOtpTies DEF Next, Worker

LEMMA ServiceInit == Init => Known /\ ServiceInv
<1> SUFFICES ASSUME Init PROVE Known /\ ServiceInv
  OBVIOUS
<1>1. ApiP!Init /\ MailP!Init
  BY ApiInitSame, MailInitSame DEF Init
<1>2. ApiP!TypeInv /\ ApiP!HandlerInv
  BY <1>1, ApiTypeInit, ApiP!HandlerInit, ApiConstants
<1>3. MailP!TypeInv /\ MailP!JobInv
  BY <1>1, MailP!TypeInit, MailP!JobInit, MailConstants
<1>4. ServiceInv
  BY DEF Init, Api!Init, Mail!Init, ServiceInv, RecInv, RecInvOf, Sends, Sending, Verifying,
         QueueInv, ResultInv, SaidInv, SaidInvOf, Api!Ids
<1> QED BY <1>2, <1>3, <1>4 DEF Known

LEMMA ServiceInvariant == Spec => [](Known /\ ServiceInv)
<1>1. Known /\ ServiceInv /\ [Next]_vars => (Known /\ ServiceInv)'
  BY KnownStep, ServiceStep
<1> QED BY <1>1, ServiceInit, PTL DEF Spec

\* The service is its parts: what the handlers do to the table and the queue is what
\* OtpEndpoints says, and what happens to the jobs is what EmailWorker says, so that the
\* theorems about each of them are theorems about the service.
THEOREM ServiceRunsItsParts == Spec => ApiP!Spec /\ MailP!Spec
<1>1. Init => ApiP!Init /\ MailP!Init
  BY ApiInitSame, MailInitSame DEF Init
<1>2. Known /\ ServiceInv /\ [Next]_vars => [ApiP!Next]_ApiP!vars /\ [MailP!Next]_MailP!vars
  <2> SUFFICES ASSUME Known, ServiceInv, [Next]_vars
               PROVE  [ApiP!Next]_ApiP!vars /\ [MailP!Next]_MailP!vars
    OBVIOUS
  <2>1. \A q \in Req : SendEnqueue(q) => rec[q] \in Position
    BY ApiFacts, RowsFit DEF SendEnqueue, Api!SendEnqueue, ServiceInv
  <2> QED BY <2>1, ApiPart, MailPart
<1> QED BY <1>1, <1>2, ServiceInvariant, PTL DEF Spec, ApiP!Spec, MailP!Spec

\* The lifetime that an email states (email.py:134) is the one that the API gave the code
\* (otp.py:229-234), in whole minutes, however many tries and attempts the worker makes and
\* whatever else is sent, unless /setotp changed it since the request came in.
THEOREM MailStatesLifetime == Spec => []MailSaysLifetime
<1>1. Known /\ ServiceInv => MailSaysLifetime
  BY DEF MailSaysLifetime, ServiceInv, SaidInv, SaidInvOf, Sends
<1> QED BY <1>1, ServiceInvariant, PTL

-----------------------------------------------------------------------------
(* The service implements the delivery of codes.                           *)

\* Two stages and a count of copies are the state that CodeDelivery sees.
deliveryVars == <<[k \in Position |-> Stage(k)], inbox>>

\* The stages of the other codes are the same after a step.
Others(i) == \A k \in Position : k # i => Stage(k)' = Stage(k)

\* A code that changes its stage, in the terms of CodeDelivery.
LEMMA StageMoves ==
  ASSUME NEW i \in Position, NEW CONSTANT from, NEW CONSTANT to,
         Stage(i) = from, Stage(i)' = to, Others(i)
  PROVE  Delivery!Move(i, from, to)
<1> DEFINE st == [k \in Position |-> Stage(k)]
<1>1. st[i] = from
  OBVIOUS
<1>2. [k \in Position |-> Stage(k)'] = [st EXCEPT ![i] = to]
  BY DEF Others
<1> HIDE DEF st
<1>3. [k \in Position |-> Stage(k)]' = [st EXCEPT ![i] = to]
  BY <1>2
<1> QED BY <1>1, <1>3 DEF Delivery!Move, st

LEMMA StagesRest ==
  ASSUME \A k \in Position : Stage(k)' = Stage(k), inbox' = inbox
  PROVE  UNCHANGED deliveryVars
BY DEF deliveryVars

\* Whether a code was refused is a matter of the one request that created its row.
LEMMA RefusedOfOne ==
  ASSUME Known, RecInv, NEW q \in Sends, rec[q] # 0
  PROVE  Refused(rec[q]) <=> reply[q] = "DB_ERROR"
<1>1. Sends \subseteq Req
  BY DEF Sends
<1>2. \A s \in Req : rec[s] = rec[q] /\ reply[s] = "DB_ERROR" => s = q
  BY DEF RecInv, RecInvOf
<1> QED BY <1>1, <1>2 DEF Refused

\* The copies of a code are as many as CodeDelivery allows.
LEMMA CopiesBounded ==
  Known => \A i \in Position : inbox[i] \in Nat /\ inbox[i] <= MaxTries * Len(RetryDelays)
BY MailFacts

LEMMA CopiesBoundedNext ==
  Known' => \A i \in Position : inbox'[i] \in Nat /\ inbox'[i] <= MaxTries * Len(RetryDelays)
<1> DEFINE P == \A i \in Position : inbox[i] \in Nat /\ inbox[i] <= MaxTries * Len(RetryDelays)
<1>1. Known => P
  BY CopiesBounded
<1>2. Known' => P'
  BY <1>1, PTL
<1> QED BY <1>2 DEF Position

\* A step that creates no row, queues nothing, ends no job and tells nobody who has a
\* row that it failed moves no code.
LEMMA StagesKept ==
  ASSUME UNCHANGED <<queue, result, inbox>>, Len(otp_records') = Len(otp_records),
         \A q \in Req : ToldSame(q)
  PROVE  UNCHANGED deliveryVars
<1>1. \A k \in Position : Refused(k)' <=> Refused(k)
  <2>1. \A k \in Position : k # 0
    BY ApiAssumption, FS_CardinalityType DEF Position, ApiAssumption
  <2> QED BY <2>1 DEF Refused, ToldSame
<1>2. \A k \in Position : Stage(k)' = Stage(k)
  BY <1>1 DEF Stage, Api!Ids
<1> QED BY <1>2, StagesRest

\* The insert stores the code, and a caller whose insert raised is told that it failed.
LEMMA InsertDelivers ==
  ASSUME Known, Known', ServiceInv, ServiceInv', NEW q \in Req, SendInsert(q)
  PROVE  [Delivery!Next]_deliveryVars
<1> DEFINE n == Len(otp_records) + 1
<1>1. UNCHANGED <<queue, result, inbox>> /\ pc[q] = "insert" /\ rec[q] = 0
  <2>1. UNCHANGED <<queue, result, inbox>> /\ pc[q] = "insert"
    BY DEF SendInsert, Api!SendInsert, mailVars
  <2> QED BY <2>1 DEF ServiceInv, RecInv, RecInvOf, Early
<1>2. \/ otp_records' = otp_records /\ rec' = [rec EXCEPT ![q] = 0]
      \/ Len(otp_records') = n /\ rec' = [rec EXCEPT ![q] = n]
  <2>1. otp_records \in Seq(ApiP!Row)
    BY DEF Known, ApiP!TypeInv, ApiP!TypeOK
  <2>2. PICK c \in Code :
          \/ otp_records' = otp_records /\ rec' = [rec EXCEPT ![q] = 0]
          \/ /\ otp_records' = Append(otp_records, Api!NewRow(body[q].to, c))
             /\ rec' = [rec EXCEPT ![q] = n]
    BY DEF SendInsert, Api!SendInsert
  <2> QED BY <2>1, <2>2
<1>3. \A s \in Req : s # q => reply'[s] = reply[s]
  BY ApiFacts DEF SendInsert, Api!SendInsert, Api!Respond
<1>4. CASE otp_records' = otp_records /\ rec' = [rec EXCEPT ![q] = 0]
  <2>1. \A s \in Req : ToldSame(s)
    BY <1>1, <1>3, <1>4, ApiFacts DEF ToldSame
  <2> QED BY <1>1, <1>4, <2>1, StagesKept
<1>5. CASE Len(otp_records') = n /\ rec' = [rec EXCEPT ![q] = n]
  <2>1. Len(otp_records) \in Nat /\ n \notin Api!Ids /\ n \notin queue /\ n # 0
    BY ApiFacts DEF Api!Ids
  <2>2. Api!Ids' = Api!Ids \cup {n} /\ rec'[q] = n
    BY <1>5, <2>1, ApiFacts DEF Api!Ids
  <2>3. n \in Position
    <3>1. (Api!Ids \subseteq Position)'
      BY RowsFitNext DEF ServiceInv
    <3>2. Api!Ids' \subseteq Position
      BY <3>1 DEF Position
    <3> QED BY <2>2, <3>2
  <2>4. PICK i \in Position : i = n
    BY <2>3
  <2>5. \A s \in Req : s # q => rec'[s] = rec[s] /\ rec[s] # i
    BY <1>5, <2>1, <2>4, ApiFacts
  <2> HIDE DEF n
  <2>6. \A k \in Position : k # i => (Refused(k)' <=> Refused(k))
    <3> SUFFICES ASSUME NEW k \in Position, k # i PROVE Refused(k)' <=> Refused(k)
      OBVIOUS
    <3>1. k # 0
      BY ApiAssumption, FS_CardinalityType DEF Position, ApiAssumption
    <3> QED BY <1>1, <1>3, <2>2, <2>4, <2>5, <3>1 DEF Refused
  <2>7. Others(i)
    BY <1>1, <2>2, <2>4, <2>6 DEF Others, Stage
  <2>8. Stage(i) = "none"
    BY <2>1, <2>4 DEF Stage
  <2>9. Stage(i)' = "stored" \/ Stage(i)' = "refused"
    BY <1>1, <2>1, <2>2, <2>4 DEF Stage
  <2>10. Delivery!Store(i)
    BY <1>1, <2>7, <2>8, <2>9, StageMoves DEF Delivery!Store
  <2> QED BY <2>10 DEF Delivery!Next
<1> QED BY <1>2, <1>4, <1>5

\* What is enqueued is a code that was stored and that nobody was told had failed.
LEMMA EnqueueDelivers ==
  ASSUME Known, ServiceInv, ServiceInv', NEW q \in Req, SendEnqueue(q)
  PROVE  [Delivery!Next]_deliveryVars
<1>1. /\ UNCHANGED <<otp_records, rec>> /\ pc[q] = "enqueue"
      /\ queue' = queue \/ queue' = queue \cup {rec[q]}
  BY DEF SendEnqueue, Api!SendEnqueue
<1>2. /\ reply[q] = "NONE" /\ reply'[q] = "sent"
      /\ \A s \in Req : s # q => reply'[s] = reply[s]
  BY <1>1, ApiFacts DEF SendEnqueue, Api!SendEnqueue, Api!RespondAfterSleep
<1>3. rec[q] \in Position /\ rec[q] # 0 /\ rec[q] \in Api!Ids
  BY <1>1, ApiFacts, RowsFit DEF ServiceInv, Api!Ids
<1>4. UNCHANGED <<result, inbox>>
  BY DEF SendEnqueue, Mail!Enqueue, Mail!MailUnchanged, mailVars
<1>5. \A k \in Position : Refused(k)' <=> Refused(k)
  BY <1>1, <1>2 DEF Refused
<1>8. q \in Sends
  BY <1>1 DEF ServiceInv, RecInv, RecInvOf, Sending
<1>6. CASE queue' = queue
  <2>1. \A s \in Req : ToldSame(s)
    BY <1>1, <1>2 DEF ToldSame
  <2> QED BY <1>1, <1>4, <1>6, <2>1, StagesKept
<1>7. CASE queue' # queue
  <2>1. PICK i \in Position : i = rec[q]
    BY <1>3
  <2>2. job[i] = "absent" /\ i \notin queue /\ queue' = queue \cup {i}
    BY <1>1, <1>7, <2>1 DEF ServiceInv, QueueInv
  <2>3. result[i] = "none"
    BY <2>2 DEF ServiceInv, ResultInv
  <2>4. ~Refused(i)
    BY <1>2, <1>3, <1>8, <2>1, RefusedOfOne DEF ServiceInv
  <2>5. Stage(i) = "stored"
    BY <1>3, <2>1, <2>2, <2>4 DEF Stage
  <2>6. Stage(i)' = "sending"
    BY <1>1, <1>3, <1>4, <1>5, <2>1, <2>2, <2>3, <2>4 DEF Stage, Api!Ids
  <2>7. Others(i)
    BY <1>1, <1>4, <1>5, <2>2 DEF Others, Stage, Api!Ids
  <2>8. Delivery!Queue(i)
    BY <1>4, <2>5, <2>6, <2>7, StageMoves DEF Delivery!Queue
  <2> QED BY <2>8 DEF Delivery!Next
<1> QED BY <1>6, <1>7

\* The worker mails and ends the job of a code that is queued, and of no other.
LEMMA WorkerDelivers ==
  ASSUME Known, Known', ServiceInv, NEW j \in Position, Mail!Start(j) \/ Mail!Progress(j),
         UNCHANGED <<apiVars, lifetime>>
  PROVE  [Delivery!Next]_deliveryVars
<1>1. WorkerMove(j)
  BY WorkerMoves DEF ServiceInv
<1>2. UNCHANGED <<otp_records, queue, rec, reply>>
  BY DEF apiVars
<1>3. \A k \in Position : Refused(k)' <=> Refused(k)
  BY <1>2 DEF Refused
<1>4. j \in queue /\ j \in Api!Ids /\ result[j] = "none"
  BY <1>1, ApiFacts DEF WorkerMove, ServiceInv, QueueInv, ResultInv
<1>5. ~Refused(j)
  <2>1. PICK q \in Sends : rec[q] = j
    BY <1>4 DEF ServiceInv, RecInv
  <2>2. reply[q] = "sent"
    BY <1>4, <2>1 DEF ServiceInv, QueueInv
  <2>3. rec[q] # 0
    BY <1>4, <2>1, ApiFacts DEF Api!Ids
  <2> QED BY <2>1, <2>2, <2>3, RefusedOfOne DEF ServiceInv
<1>6. Others(j)
  BY <1>1, <1>2, <1>3 DEF Others, Stage, Api!Ids, WorkerMove
<1>7. Stage(j) = "sending"
  BY <1>4, <1>5 DEF Stage
<1>8. Stage(j)' = IF result'[j] = "none" THEN "sending" ELSE "over"
  BY <1>2, <1>3, <1>4, <1>5 DEF Stage, Api!Ids
<1>9. Stage(j)' = Stage(j) \/ Delivery!Move(j, "sending", "over")
  BY <1>6, <1>7, <1>8, StageMoves
<1>10. CASE inbox' = inbox
  <2>1. CASE Stage(j)' = Stage(j)
    <3>1. \A k \in Position : Stage(k)' = Stage(k)
      BY <1>6, <2>1 DEF Others
    <3> QED BY <1>10, <3>1, StagesRest
  <2>2. CASE Delivery!Move(j, "sending", "over")
    <3>1. Delivery!End(j)
      BY <1>10, <2>2 DEF Delivery!End
    <3> QED BY <3>1 DEF Delivery!Next
  <2> QED BY <1>9, <2>1, <2>2
<1>11. CASE inbox' = [inbox EXCEPT ![j] = @ + 1]
  <2>1. inbox[j] < MaxTries * Len(RetryDelays)
    <3>1. inbox'[j] = inbox[j] + 1
      BY <1>11, MailFacts
    <3>2. MaxTries * Len(RetryDelays) \in Int
      BY MailAssumption DEF MailAssumption
    <3> QED BY <3>1, <3>2, CopiesBounded, CopiesBoundedNext
  <2>2. [k \in Position |-> Stage(k)]' = [k \in Position |-> Stage(k)]
        \/ Delivery!Move(j, "sending", "over")
    BY <1>6, <1>9 DEF Others
  <2>3. Delivery!Copy(j)
    BY <1>7, <1>11, <2>1, <2>2 DEF Delivery!Copy
  <2> QED BY <2>3 DEF Delivery!Next
<1> QED BY <1>1, <1>10, <1>11 DEF WorkerMove

LEMMA RestDelivers ==
  ASSUME Known, ServiceInv,
         \/ \E q \in Req : Arrive(q)
         \/ ApiStep
         \/ WorkerStop
         \/ \E p \in Project, n \in Limits, seconds \in Expiries : SetOtp(p, n, seconds)
  PROVE  UNCHANGED deliveryVars
<1>1. CASE ApiStep
  <2>1. Sends' = Sends
    BY <1>1, SendsFixed DEF Next
  <2>2. UNCHANGED <<queue, result, inbox>>
    BY <1>1, <2>1, ApiMoves DEF ServiceInv, mailVars
  <2> QED BY <1>1, <2>1, <2>2, ApiMoves, StagesKept DEF ServiceInv
<1>2. CASE \/ \E q \in Req : Arrive(q)
           \/ WorkerStop
           \/ \E p \in Project, n \in Limits, seconds \in Expiries : SetOtp(p, n, seconds)
  <2>1. UNCHANGED <<otp_records, queue, rec, reply, result, inbox>>
    BY <1>2 DEF Arrive, Api!Arrive, Api!TableUnchanged, WorkerStop, Mail!WorkerStop, SetOtp,
                Api!SetOtp, Mail!SetExpiry, Mail!WorkerUnchanged, Mail!MailUnchanged, mailVars,
                apiVars
  <2>2. \A s \in Req : ToldSame(s)
    BY <2>1 DEF ToldSame
  <2> QED BY <2>1, <2>2, StagesKept
<1> QED BY <1>1, <1>2

LEMMA DeliveryStep ==
  ASSUME Known, Known', ServiceInv, ServiceInv', [Next]_vars
  PROVE  [Delivery!Next]_deliveryVars
<1>1. CASE UNCHANGED vars
  <2>1. UNCHANGED <<otp_records, queue, rec, reply, result, inbox>>
    BY <1>1 DEF vars, apiVars, mailVars
  <2>2. \A q \in Req : ToldSame(q)
    BY <2>1 DEF ToldSame
  <2> QED BY <2>1, <2>2, StagesKept
<1>2. CASE Worker
  BY <1>2, WorkerDelivers DEF Worker
<1>3. CASE \E q \in Req : SendInsert(q) \/ SendEnqueue(q)
  BY <1>3, InsertDelivers, EnqueueDelivers
<1>4. CASE \/ \E q \in Req : Arrive(q)
           \/ ApiStep
           \/ WorkerStop
           \/ \E p \in Project, n \in Limits, seconds \in Expiries : SetOtp(p, n, seconds)
  BY <1>4, RestDelivers
<1> QED BY <1>1, <1>2, <1>3, <1>4 DEF Next

\* Handlers, queue and worker implement the delivery of codes: a code is stored before it is
\* mailed, a caller whose insert was answered DB_ERROR (otp.py:253) gets no email, and the
\* copies of an email are bounded by the tries of ARQ and the delays of the task
\* (email.py:110-219) and end with the job.
THEOREM ServiceImplementsDelivery == Spec => ImplementsDelivery
<1>1. Init => Delivery!Init
  <2> SUFFICES ASSUME Init PROVE Delivery!Init
    OBVIOUS
  <2>1. \A i \in Position : Stage(i) = "none"
    BY DEF Init, Api!Init, Stage, Api!Ids
  <2>2. inbox = [i \in Position |-> 0]
    BY DEF Init, Mail!Init
  <2> QED BY <2>1, <2>2 DEF Delivery!Init
<1>2. Known /\ ServiceInv /\ Known' /\ ServiceInv' /\ [Next]_vars
      => [Delivery!Next]_<<[i \in Position |-> Stage(i)], inbox>>
  BY DeliveryStep DEF deliveryVars
<1> QED BY <1>1, <1>2, ServiceInvariant, PTL DEF Spec, ImplementsDelivery, Delivery!Spec

=============================================================================
