----------------------------- MODULE OtpService -----------------------------
(***************************************************************************)
(* The way of a one-time code through two processes: the handler of        *)
(* POST /otp/send stores it and enqueues a job, the worker mails it.       *)
(* OtpEndpoints and EmailWorker share the queue and the row of projects    *)
(* that the bot's /setotp writes and that each of them reads when it gets  *)
(* there.  The job of a code is named by the position of its row.          *)
(*                                                                         *)
(* The project has an active sender for good: what a changed sender or     *)
(* slow calls do to a job is in EmailWorker.                               *)
(***************************************************************************)
EXTENDS Integers, Sequences, FiniteSets

CONSTANTS EmailHash, Code, Req, Limits, Unapplied, Lost, Serialised,
          Project,
          Sender, NoSender, NoProject, Expiries, MaxJobs, MaxTries, JobSeconds,
          RetryDelays, SmtpTimeout, DbFails, AckLost, TimesOut

ASSUME OneProjectAssumption == Cardinality(Project) = 1
ASSUME ApiAssumption ==
  /\ Limits \subseteq Nat \ {0} /\ Limits # {}
  /\ Unapplied \cup Lost \subseteq {"limits", "invalidate", "insert", "enqueue",
                                  "fetch", "check", "count", "mark", "sleep"}
  /\ Serialised \subseteq {{"send"}, {"verify"}, {"send", "verify"}}
  /\ IsFiniteSet(Req)
ASSUME MailAssumption ==
  /\ {MaxJobs, MaxTries, JobSeconds, SmtpTimeout} \subseteq Nat \ {0}
  /\ RetryDelays \in Seq(Nat) /\ RetryDelays # <<>>
  /\ Expiries \subseteq Nat
  /\ {NoSender, NoProject} \cap Sender = {} /\ NoSender # NoProject
  /\ {DbFails, AckLost, TimesOut} \subseteq BOOLEAN

VARIABLES
  otp_records, expired, queue, otp_max_attempts, pc, body, limit, rec, seen,
  reply, covered, wrong,
  sender, active, expiry, job, tries, task, clients, result, inbox, said, log,
  alerts, trouble,
  lifetime     \* history: otp_expiry_seconds of the project copy that a request
               \* works with, Changed once /setotp gave the project another one

apiVars == <<otp_records, expired, queue, otp_max_attempts, pc, body, limit, rec,
             seen, reply, covered, wrong>>

mailVars == <<sender, active, expiry, job, tries, task, clients, result, inbox,
              said, log, alerts, trouble>>

vars == <<apiVars, mailVars, lifetime>>

Changed == -1

\* The rows that the requests can create.
Position == 1..Cardinality(Req)

Api == INSTANCE OtpEndpoints

Mail == INSTANCE EmailWorker WITH Job <- Position

Init ==
  /\ Api!Init
  /\ Mail!Init
  /\ sender \in active
  /\ lifetime = [q \in Req |-> Changed]

\* get_api_key hands out the project row with its otp_expiry_seconds.
Arrive(q) ==
  /\ Api!Arrive(q)
  /\ lifetime' = [lifetime EXCEPT ![q] = expiry]
  /\ UNCHANGED mailVars

\* Mutant: the job is enqueued before the row is known to be stored.
SendInsert_Early(q) ==
  /\ Api!SendInsert(q)
  /\ IF rec'[q] # 0 THEN Mail!Enqueue(rec'[q]) ELSE UNCHANGED mailVars
  /\ UNCHANGED lifetime

SendInsert(q) ==
  /\ Api!SendInsert(q)
  /\ UNCHANGED <<mailVars, lifetime>>

\* What enters the queue is a job that the worker has yet to start.
SendEnqueue(q) ==
  /\ Api!SendEnqueue(q)
  /\ IF queue' = queue THEN UNCHANGED mailVars ELSE Mail!Enqueue(rec[q])
  /\ UNCHANGED lifetime

\* The steps of the API that the worker has no part in.
ApiStep ==
  /\ \/ \E q \in Req : \/ Api!RateLimit(q) \/ Api!SendInvalidate(q) \/ Api!AntiEnumSleep(q)
                       \/ Api!VerifyFetch(q) \/ Api!VerifyCheck(q)
                       \/ Api!VerifyCount(q) \/ Api!VerifyMark(q)
     \/ \E i \in Api!Ids : Api!Expire(i)
     \/ Api!ApiCrash
  /\ UNCHANGED <<mailVars, lifetime>>

\* The steps of the worker that the API has no part in.
Worker ==
  /\ \E j \in Position : Mail!Start(j) \/ Mail!Progress(j)
  /\ UNCHANGED <<apiVars, lifetime>>

WorkerStop ==
  /\ Mail!WorkerStop
  /\ UNCHANGED <<apiVars, lifetime>>

\* /setotp updates all its columns at once.
SetOtp(p, n, seconds) ==
  /\ Api!SetOtp(p, n)
  /\ Mail!SetExpiry(seconds)
  /\ lifetime' = IF seconds = expiry THEN lifetime ELSE [q \in Req |-> Changed]

Next ==
  \/ \E q \in Req : Arrive(q) \/ SendInsert(q) \/ SendEnqueue(q)
  \/ ApiStep
  \/ Worker
  \/ WorkerStop
  \/ \E p \in Project, n \in Limits, seconds \in Expiries : SetOtp(p, n, seconds)

Spec == Init /\ [][Next]_vars

\* The worker does not rest while there is a job to start or a task to go on with.
FairSpec == Spec /\ WF_vars(Worker)

-----------------------------------------------------------------------------
(* Properties.                                                             *)

\* What an email says of its code's lifetime (email.py:134) is what the API gave
\* the code (otp.py:229-234), in whole minutes, although another process reads
\* the project's row again, later and once for every try: only /setotp in
\* between makes them differ.
MailSaysLifetime ==
  \A q \in Req : body[q].op = "send" /\ rec[q] # 0 /\ lifetime[q] # Changed =>
    said[rec[q]] \subseteq {lifetime[q] \div 60}

\* Requests that were answered "sent" and have nothing to show for it yet: no
\* email, no row of email_logs that says there is none, and no job that was not
\* queued or that ran out of time or of tries.
Owed == {q \in Req :
  /\ reply[q] = "sent"
  /\ rec[q] \in queue
  /\ inbox[rec[q]] = 0 /\ log[rec[q]].failed = 0
  /\ result[rec[q]] \notin {"timeout", "out_of_tries"}}

\* Nobody is told "sent" for nothing and without a trace: time and again nothing
\* is owed to anybody.
Settled == []<>(Owed = {})

-----------------------------------------------------------------------------
(* The way of a code, in one machine.                                      *)

Refused(i) == \E q \in Req : rec[q] = i /\ reply[q] = "DB_ERROR"

Stage(i) ==
  IF i \notin Api!Ids THEN "none"
  ELSE IF Refused(i) THEN "refused"
  ELSE IF i \notin queue THEN "stored"
  ELSE IF result[i] = "none" THEN "sending" ELSE "over"

Delivery == INSTANCE CodeDelivery WITH
  MaxCopies <- MaxTries * Len(RetryDelays),
  stage     <- [i \in Position |-> Stage(i)],
  copies    <- inbox

\* Handlers, queue and worker together implement the delivery of codes.
ImplementsDelivery == Delivery!Spec

=============================================================================
