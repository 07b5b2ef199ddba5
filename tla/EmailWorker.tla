---------------------------- MODULE EmailWorker -----------------------------
(***************************************************************************)
(* send_email_task of apps/worker/tasks/email.py under the ARQ worker of   *)
(* apps/worker/main.py, with the client of core/db.py that it uses.        *)
(*                                                                         *)
(* A job is enqueued once for each OTP record.  ARQ (external) starts it,  *)
(* counts the starts, ends it when the task returns or raises or when      *)
(* job_timeout cancels it, and starts it again only when the worker that   *)
(* ran it went away.  The time a task takes is that of its sleeps and of   *)
(* the SMTP calls that run into their timeout; every other call is         *)
(* immediate unless TimesOut lets the task as a whole be too slow.         *)
(***************************************************************************)
EXTENDS Integers, Sequences, FiniteSets, FiniteSetsExt

CONSTANTS Job,           \* send_email_task jobs
          Sender,        \* rows of sender_emails
          NoSender,      \* projects.sender_email_id is null
          NoProject,     \* the project's row is gone
          Expiries,      \* values of projects.otp_expiry_seconds
          MaxJobs,       \* WorkerSettings.max_jobs
          MaxTries,      \* WorkerSettings.max_tries
          JobSeconds,    \* WorkerSettings.job_timeout
          RetryDelays,   \* _RETRY_DELAYS
          SmtpTimeout,   \* timeout of aiosmtplib.send
          DbFails,       \* whether Supabase calls may raise
          AckLost,       \* whether aiosmtplib.send may raise after delivery
          TimesOut       \* whether slow calls may use up job_timeout

Attempts == Len(RetryDelays)

ASSUME BoundsAssumption ==
  /\ {MaxJobs, MaxTries, JobSeconds, SmtpTimeout} \subseteq Nat \ {0}
  /\ RetryDelays \in Seq(Nat) /\ RetryDelays # <<>>
  /\ Expiries \subseteq Nat
ASSUME SenderAssumption == {NoSender, NoProject} \cap Sender = {} /\ NoSender # NoProject
ASSUME FaultAssumption == {DbFails, AckLost, TimesOut} \subseteq BOOLEAN

VARIABLES
  sender,      \* projects.sender_email_id, or NoProject
  active,      \* the senders with is_active
  expiry,      \* projects.otp_expiry_seconds
  job,         \* what ARQ holds of each job
  tries,       \* job_try: how often it was started
  task,        \* the coroutine: where it stands, its sender, expiry_minutes,
               \* attempt_idx, and how many of its attempts ran into the timeout
  clients,     \* Supabase clients created in the worker process
  result,      \* how the job ended
  inbox,       \* history: emails delivered by the job
  said,        \* history: the expiry_minutes those emails state
  log,         \* rows of email_logs the job wrote: [sent, failed -> Nat]
  alerts,      \* history: Telegram alerts of the job
  trouble      \* history: what went wrong around the job

vars == <<sender, active, expiry, job, tries, task, clients, result, inbox, said,
          log, alerts, trouble>>

\* The awaits of the task, and the ways it ends that ARQ has yet to record.
Await == {"client", "project", "sender", "reject", "smtp", "log_success", "touch",
          "backoff", "log_failure", "alert"}

Ended == {"sent", "error", "raised"}

Result == Ended \cup {"none", "timeout", "out_of_tries"}

\* A Supabase call raised, an email was delivered without the sender learning of
\* it, slow calls used up job_timeout.
Fault == {"db", "ack", "slow"}

NoTask == [pc |-> "off", sender |-> NoSender, minutes |-> 0, attempt |-> 0, stalls |-> 0]

Running == {j \in Job : job[j] = "running"}

CanFail(b) == IF b THEN {TRUE, FALSE} ELSE {FALSE}

Init ==
  /\ sender \in Sender \cup {NoSender}
  /\ active \in SUBSET Sender
  /\ expiry \in Expiries
  /\ job = [j \in Job |-> "absent"]
  /\ tries = [j \in Job |-> 0]
  /\ task = [j \in Job |-> NoTask]
  /\ clients = 0
  /\ result = [j \in Job |-> "none"]
  /\ inbox = [j \in Job |-> 0]
  /\ said = [j \in Job |-> {}]
  /\ log = [j \in Job |-> [sent |-> 0, failed |-> 0]]
  /\ alerts = [j \in Job |-> 0]
  /\ trouble = [j \in Job |-> {}]

ArqUnchanged == UNCHANGED <<job, tries, result>>
BotUnchanged == UNCHANGED <<sender, active, expiry>>
MailUnchanged == UNCHANGED <<inbox, said, log, alerts>>

Goto(j, step) ==
  /\ task' = [task EXCEPT ![j].pc = step]
  /\ ArqUnchanged
  /\ BotUnchanged

Trouble(j, faults) == trouble' = [trouble EXCEPT ![j] = @ \cup faults]

\* ARQ records the end of the job and never runs it again.
Finish(j, r) ==
  /\ task' = [task EXCEPT ![j] = NoTask]
  /\ job' = [job EXCEPT ![j] = "finished"]
  /\ result' = [result EXCEPT ![j] = r]

\* Mutant: the loop sleeps after its last attempt as well.
AfterFailure_Always(j) == "backoff"

\* The end of an attempt that raised: back off, or give up after the last.
AfterFailure(j) == IF task[j].attempt < Attempts THEN "backoff" ELSE "log_failure"

\* What the loop sleeps after an attempt that failed.
Delay(attempt) == RetryDelays[attempt]

\* What it has slept when an attempt begins.
Slept(attempt) == MapThenSumSet(Delay, 1..(attempt - 1))

\* Seconds since ARQ started the task, but for those of the current sleep.
Elapsed(j) == task[j].stalls * SmtpTimeout + Slept(task[j].attempt)

\* aiosmtplib.send handed the email over, whatever the task learns of it.
Deliver(j, delivered) ==
  IF delivered
  THEN /\ inbox' = [inbox EXCEPT ![j] = @ + 1]
       /\ said' = [said EXCEPT ![j] = @ \cup {task[j].minutes}]
  ELSE UNCHANGED <<inbox, said>>

\* Whether the task gets through another n seconds.
InTime(j, n) == Elapsed(j) + n < JobSeconds

-----------------------------------------------------------------------------
(* ARQ.                                                                    *)

Enqueue(j) ==
  /\ job[j] = "absent"
  /\ job' = [job EXCEPT ![j] = "queued"]
  /\ UNCHANGED <<tries, task, result, clients, trouble>>
  /\ BotUnchanged
  /\ MailUnchanged

\* get_client awaits the creation of a client when the process has none yet.
FirstCall == IF clients = 0 THEN "client" ELSE "project"

\* A job past its last try is ended without being run.
Start(j) ==
  /\ job[j] = "queued"
  /\ Cardinality(Running) < MaxJobs
  /\ tries' = [tries EXCEPT ![j] = @ + 1]
  /\ IF tries[j] < MaxTries
     THEN /\ job' = [job EXCEPT ![j] = "running"]
          /\ task' = [task EXCEPT ![j].pc = FirstCall]
          /\ UNCHANGED result
     ELSE Finish(j, "out_of_tries")
  /\ UNCHANGED <<clients, trouble>>
  /\ BotUnchanged
  /\ MailUnchanged

Record(j) ==
  /\ task[j].pc \in Ended
  /\ Finish(j, task[j].pc)
  /\ UNCHANGED <<tries, clients, trouble>>
  /\ BotUnchanged
  /\ MailUnchanged

\* asyncio.wait_for cancels the task at whichever await it is in; ARQ treats the
\* TimeoutError as any exception but Retry and CancelledError: the job is over.
TimeOut(j) ==
  /\ Finish(j, "timeout")
  /\ UNCHANGED <<tries, clients>>
  /\ BotUnchanged

\* Slow calls have used up the time.
JobTimeout(j) ==
  /\ TimesOut
  /\ task[j].pc \in Await
  /\ TimeOut(j)
  /\ Trouble(j, {"slow"})
  /\ MailUnchanged

\* The timeouts of the SMTP calls and the sleeps alone have used up the time.
CutOff(j) ==
  /\ TimeOut(j)
  /\ \/ /\ task[j].pc = "smtp"
        /\ ~InTime(j, SmtpTimeout)
        /\ \E delivered \in CanFail(AckLost) :
             /\ Deliver(j, delivered)
             /\ Trouble(j, IF delivered THEN {"ack"} ELSE {})
     \/ /\ task[j].pc = "backoff"
        /\ ~InTime(j, Delay(task[j].attempt))
        /\ UNCHANGED <<inbox, said, trouble>>
  /\ UNCHANGED <<log, alerts>>

\* The worker is stopped or dies: retry_jobs puts what it ran back in the queue.
WorkerStop ==
  /\ Running # {}
  /\ job' = [j \in Job |-> IF j \in Running THEN "queued" ELSE job[j]]
  /\ task' = [j \in Job |-> NoTask]
  /\ clients' = 0
  /\ UNCHANGED <<tries, result, trouble>>
  /\ BotUnchanged
  /\ MailUnchanged

-----------------------------------------------------------------------------
(* send_email_task, one action per await.                                  *)

\* acreate_client returns or raises; whoever comes last assigns _client.
CreateClient(j) ==
  /\ task[j].pc = "client"
  /\ \/ DbFails /\ Goto(j, "raised") /\ Trouble(j, {"db"}) /\ UNCHANGED clients
     \/ Goto(j, "project") /\ clients' = clients + 1 /\ UNCHANGED trouble
  /\ MailUnchanged

\* Mutant: a default in place of the project's expiry.
ExpiryMinutes_Default == 600 \div 60

\* What the email will say of the code's lifetime, read with the project.
ExpiryMinutes == expiry \div 60

\* Mutant: a project that is gone is not looked for.
FetchProject_Unchecked(j) ==
  /\ task[j].pc = "project"
  /\ \/ sender = NoSender /\ Goto(j, "reject")
     \/ /\ sender # NoSender
        /\ task' = [task EXCEPT ![j].pc = "sender", ![j].sender = sender]
        /\ ArqUnchanged
        /\ BotUnchanged
  /\ UNCHANGED <<clients, trouble>>
  /\ MailUnchanged

\* Nothing catches an exception of the two queries, and a missing project is
\* not logged.
FetchProject(j) ==
  /\ task[j].pc = "project"
  /\ \/ DbFails /\ Goto(j, "raised") /\ Trouble(j, {"db"})
     \/ /\ \/ sender = NoProject /\ Goto(j, "error")
           \/ sender = NoSender /\ Goto(j, "reject")
           \/ /\ sender \in Sender
              /\ task' = [task EXCEPT ![j].pc = "sender", ![j].sender = sender,
                                     ![j].minutes = ExpiryMinutes]
              /\ ArqUnchanged
              /\ BotUnchanged
        /\ UNCHANGED trouble
  /\ UNCHANGED clients
  /\ MailUnchanged

\* Mutant: the refusal is not logged.
FetchSender_Unlogged(j) ==
  /\ task[j].pc = "sender"
  /\ \/ Goto(j, "error")
     \/ /\ task[j].sender \in active
        /\ task' = [task EXCEPT ![j].pc = "smtp", ![j].attempt = 1]
        /\ ArqUnchanged
        /\ BotUnchanged
  /\ UNCHANGED <<clients, trouble>>
  /\ MailUnchanged

\* An active sender can still be refused: the password may not decrypt and the
\* template may not render.
FetchSender(j) ==
  /\ task[j].pc = "sender"
  /\ \/ DbFails /\ Goto(j, "raised") /\ Trouble(j, {"db"})
     \/ /\ \/ Goto(j, "reject")
           \/ /\ task[j].sender \in active
              /\ task' = [task EXCEPT ![j].pc = "smtp", ![j].attempt = 1]
              /\ ArqUnchanged
              /\ BotUnchanged
        /\ UNCHANGED trouble
  /\ UNCHANGED clients
  /\ MailUnchanged

\* _log_success and _log_failure swallow what the insert raises; it does when its
\* project_id refers to no project.
LogRow(j, status) ==
  /\ \E raises \in CanFail(DbFails) :
       /\ log' = IF raises \/ sender = NoProject THEN log
                 ELSE [log EXCEPT ![j][status] = @ + 1]
       /\ Trouble(j, IF raises THEN {"db"} ELSE {})
  /\ UNCHANGED <<inbox, said, alerts, clients>>

Reject(j) ==
  /\ task[j].pc = "reject"
  /\ LogRow(j, "failed")
  /\ Goto(j, "error")

\* Mutant: success is logged although the send raised.
SmtpSend_AlwaysLogs(j) ==
  /\ task[j].pc = "smtp"
  /\ \E delivered \in BOOLEAN : Deliver(j, delivered)
  /\ Goto(j, "log_success")
  /\ UNCHANGED <<log, alerts, clients, trouble>>

\* The call returns, raises at once, or stalls until its timeout makes it raise.
SmtpSend(j) ==
  /\ task[j].pc = "smtp"
  /\ \/ /\ Deliver(j, TRUE)
        /\ Goto(j, "log_success")
        /\ UNCHANGED trouble
     \/ \E stalls \in {0, 1}, delivered \in CanFail(AckLost) :
          /\ InTime(j, stalls * SmtpTimeout)
          /\ Deliver(j, delivered)
          /\ task' = [task EXCEPT ![j].pc = AfterFailure(j), ![j].stalls = @ + stalls]
          /\ ArqUnchanged
          /\ BotUnchanged
          /\ Trouble(j, IF delivered THEN {"ack"} ELSE {})
  /\ UNCHANGED <<log, alerts, clients>>

LogSuccess(j) ==
  /\ task[j].pc = "log_success"
  /\ LogRow(j, "sent")
  /\ Goto(j, "touch")

\* Mutant: the return is missing, so the loop goes on.
Touch_NoReturn(j) ==
  /\ task[j].pc = "touch"
  /\ Goto(j, AfterFailure(j))
  /\ UNCHANGED <<clients, trouble>>
  /\ MailUnchanged

\* The update of last_used_at stands in the try block of the attempt.
Touch(j) ==
  /\ task[j].pc = "touch"
  /\ \E fails \in CanFail(DbFails) :
       /\ Goto(j, IF fails THEN AfterFailure(j) ELSE "sent")
       /\ Trouble(j, IF fails THEN {"db"} ELSE {})
  /\ UNCHANGED clients
  /\ MailUnchanged

\* Mutant: the attempt is not counted, so the loop never ends.
Backoff_Uncounted(j) ==
  /\ task[j].pc = "backoff"
  /\ Goto(j, "smtp")
  /\ UNCHANGED <<clients, trouble>>
  /\ MailUnchanged

Backoff(j) ==
  /\ task[j].pc = "backoff"
  /\ InTime(j, Delay(task[j].attempt))
  /\ task' = [task EXCEPT ![j].pc = "smtp", ![j].attempt = @ + 1]
  /\ ArqUnchanged
  /\ BotUnchanged
  /\ UNCHANGED <<clients, trouble>>
  /\ MailUnchanged

LogFailure(j) ==
  /\ task[j].pc = "log_failure"
  /\ LogRow(j, "failed")
  /\ Goto(j, "alert")

\* The alert may fail; the RuntimeError that follows ends the task.
SendTelegramAlert(j) ==
  /\ task[j].pc = "alert"
  /\ \E n \in {alerts[j], alerts[j] + 1} : alerts' = [alerts EXCEPT ![j] = n]
  /\ UNCHANGED <<inbox, said, log, clients, trouble>>
  /\ Goto(j, "raised")

Task(j) ==
  \/ CreateClient(j) \/ FetchProject(j) \/ FetchSender(j) \/ Reject(j)
  \/ SmtpSend(j) \/ LogSuccess(j) \/ Touch(j) \/ Backoff(j) \/ LogFailure(j)
  \/ SendTelegramAlert(j)

-----------------------------------------------------------------------------
(* The bot, while jobs run: /assignsender, /removesender and /setotp.  No    *)
(* command deletes a project; the database may be edited from outside.     *)

WorkerUnchanged == UNCHANGED <<job, tries, task, clients, result, trouble>>

AssignSender(s) ==
  /\ sender # NoProject
  /\ s \in active
  /\ sender' = s
  /\ UNCHANGED <<active, expiry>>
  /\ WorkerUnchanged
  /\ MailUnchanged

RemoveSender(s) ==
  /\ active' = active \ {s}
  /\ UNCHANGED <<sender, expiry>>
  /\ WorkerUnchanged
  /\ MailUnchanged

SetExpiry(n) ==
  /\ expiry' = n
  /\ UNCHANGED <<sender, active>>
  /\ WorkerUnchanged
  /\ MailUnchanged

DeleteProject ==
  /\ sender' = NoProject
  /\ UNCHANGED <<active, expiry>>
  /\ WorkerUnchanged
  /\ MailUnchanged

Next ==
  \/ \E j \in Job : \/ Enqueue(j) \/ Start(j) \/ Task(j) \/ Record(j)
                   \/ JobTimeout(j) \/ CutOff(j)
  \/ WorkerStop \/ DeleteProject
  \/ \E s \in Sender : AssignSender(s) \/ RemoveSender(s)
  \/ \E n \in Expiries : SetExpiry(n)

Spec == Init /\ [][Next]_vars

\* The worker takes queued jobs and runs the tasks it holds until their time is up.
Progress(j) == Task(j) \/ CutOff(j) \/ Record(j)

FairSpec == Spec /\ \A j \in Job : WF_vars(Progress(j)) /\ WF_vars(Start(j))

-----------------------------------------------------------------------------
(* Properties.                                                             *)

\* Every variable has its type, a task never has more attempts than there are, and
\* the jobs that race for a client (core/db.py:32) create no more of them than the
\* worker runs at a time.
TypeOK ==
  /\ sender \in Sender \cup {NoSender, NoProject}
  /\ active \subseteq Sender
  /\ expiry \in Expiries
  /\ job \in [Job -> {"absent", "queued", "running", "finished"}]
  /\ tries \in [Job -> Nat]
  /\ task \in [Job -> [pc : Await \cup Ended \cup {"off"}, sender : Sender \cup {NoSender},
                       minutes : Nat, attempt : 0..Attempts, stalls : 0..Attempts]]
  /\ clients \in 0..MaxJobs
  /\ result \in [Job -> Result]
  /\ inbox \in [Job -> Nat]
  /\ said \in [Job -> SUBSET Nat]
  /\ log \in [Job -> [sent : Nat, failed : Nat]]
  /\ alerts \in [Job -> Nat]
  /\ trouble \in [Job -> SUBSET Fault]

\* email_logs never claims more than was delivered: every "sent" row of a job has
\* an email of its own, over retries, restarts and failing calls.
LogTruthful == \A j \in Job : log[j].sent <= inbox[j]

\* As long as Supabase answers a job's calls and no delivery went unnoticed, its
\* recipient gets at most one email for each time that the worker took the job up:
\* one, and one more for each restart under it.
OneMailPerTry ==
  \A j \in Job : trouble[j] \cap {"db", "ack"} = {} => inbox[j] <= tries[j]

\* Whatever fails, a recipient gets at most one email for each attempt of each
\* try: a failing update of last_used_at sends again, but not for ever.
ResendBound == \A j \in Job : inbox[j] <= MaxTries * Attempts

\* As long as Supabase answers and the project is there, the end of a job is in
\* email_logs: an operator who reads the log sees the outcome of every job that
\* was not cut off.
OutcomeLogged ==
  sender # NoProject => \A j \in Job : "db" \notin trouble[j] =>
    /\ result[j] = "sent" => log[j].sent > 0
    /\ result[j] \in {"error", "raised"} => log[j].failed > 0

\* email.py:287: the alert is for deliveries that failed permanently.  As long as
\* Supabase answers the job's calls, no delivery goes unnoticed and the worker is
\* not restarted under it, nothing was delivered by a job that raised the alert.
AlertTruthful ==
  \A j \in Job :
    alerts[j] > 0 /\ tries[j] = 1 /\ trouble[j] \cap {"db", "ack"} = {} => inbox[j] = 0

\* Settings that leave every attempt and every sleep its time, but for the last
\* attempt of a task that all earlier attempts kept waiting.
SettingsFit ==
  /\ \A attempt \in 1..Attempts, stalls \in 0..Attempts-1 :
       stalls < attempt /\ (attempt < Attempts \/ stalls < Attempts - 1)
         => stalls * SmtpTimeout + Slept(attempt) + SmtpTimeout < JobSeconds
  /\ \A attempt \in 1..Attempts-1, stalls \in 0..Attempts-1 :
       stalls <= attempt
         => stalls * SmtpTimeout + Slept(attempt) + Delay(attempt) < JobSeconds

\* The timeouts of send (email.py:187), the delays between the attempts and
\* job_timeout fit together as long as one attempt answers: unless other calls
\* are slow, a job is only ever cut off in its last attempt, after all the
\* others ran into their timeout.
OnlyStallsCutOff ==
  [][\A j \in Job :
       result'[j] = "timeout" /\ result[j] = "none" /\ "slow" \notin trouble'[j] =>
         /\ task[j].pc = "smtp"
         /\ task[j].attempt = Attempts
         /\ task[j].stalls = Attempts - 1]_vars

\* A job that is queued is over in the end, for lack of tries if need be.
Completes == \A j \in Job : job[j] = "queued" ~> job[j] = "finished"

\* apps/worker/main.py:11: "job_timeout=60 ensures a stalled email send is
\* retried": a job that timed out has used all its tries.
StalledIsRetried == \A j \in Job : result[j] = "timeout" => tries[j] >= MaxTries

=============================================================================
