-------------------------- MODULE EmailWorkerProofs -------------------------
(***************************************************************************)
(* Proofs about EmailWorker for any number of jobs and senders, any delays *)
(* and bounds, with failing calls, unnoticed deliveries, jobs cut off and  *)
(* workers that stop.                                                      *)
(***************************************************************************)
EXTENDS EmailWorker, FiniteSetTheorems, TLAPS

-----------------------------------------------------------------------------
(* Type correctness.                                                       *)

\* What TypeOK says of a task.
TaskRow == [pc : Await \cup Ended \cup {"off"}, sender : Sender \cup {NoSender},
            minutes : Nat, attempt : 0..Attempts, stalls : 0..Attempts]

\* Where a task is in its loop: it has not begun it, it is in an attempt and only
\* the earlier ones can have stalled, or it has an attempt left to sleep for.
LoopFits(t) ==
  /\ t.pc \in {"off", "client", "project", "sender"} => t.attempt = 0 /\ t.stalls = 0
  /\ t.pc \in {"smtp", "log_success", "touch"} => t.stalls < t.attempt
  /\ t.pc = "backoff" => t.attempt \in 1..Attempts-1 /\ t.stalls <= t.attempt

\* The tasks that have seen no client and wait for one of their own.
AtClient == {j \in Job : task[j].pc = "client"}

\* The worker runs the tasks of the running jobs and no more than it may, and a
\* client is only created for a task it ran while there was none.
WorkerInv ==
  /\ \A j \in Job : task[j].pc = "off" <=> job[j] # "running"
  /\ IsFiniteSet(Running) /\ Cardinality(Running) <= MaxJobs
  /\ clients + Cardinality(AtClient) <= MaxJobs

TypeInv == TypeOK /\ (\A j \in Job : LoopFits(task[j])) /\ WorkerInv

LEMMA AttemptsType == Attempts \in Nat \ {0} /\ MaxJobs \in Nat \ {0}
BY BoundsAssumption DEF BoundsAssumption, Attempts

\* Initially there is no job and no task.
LEMMA TypeInit == Init => TypeInv
<1> SUFFICES ASSUME Init PROVE TypeInv
  OBVIOUS
<1>1. NoTask \in TaskRow /\ LoopFits(NoTask)
  BY AttemptsType DEF NoTask, TaskRow, LoopFits
<1>2. TypeOK
  BY <1>1, AttemptsType DEF Init, TypeOK, TaskRow, Result
<1>3. Running = {} /\ AtClient = {}
  BY DEF Init, Running, AtClient, NoTask
<1>4. WorkerInv
  BY <1>3, AttemptsType, FS_EmptySet DEF WorkerInv, Init, NoTask
<1> QED BY <1>1, <1>2, <1>4 DEF TypeInv, Init

\* An await of send_email_task leads to another one or to the end of the task, and
\* keeps the loop within its attempts.
LEMMA TaskMoves ==
  ASSUME TypeInv, NEW j \in Job, Task(j)
  PROVE  /\ task' = [task EXCEPT ![j] = task'[j]]
         /\ task[j].pc # "off"
         /\ task'[j] \in TaskRow /\ LoopFits(task'[j])
         /\ task'[j].pc \notin {"off", "client"}
<1> USE AttemptsType
<1>1. /\ task \in [Job -> TaskRow] /\ task[j] \in TaskRow /\ LoopFits(task[j])
      /\ DOMAIN task = Job
  BY DEF TypeInv, TypeOK, TaskRow
<1>2. CASE CreateClient(j)
  BY <1>1, <1>2 DEF CreateClient, Goto, TaskRow, LoopFits, Await, Ended
<1>3. CASE FetchProject(j)
  <2>1. CASE sender \in Sender /\ task' = [task EXCEPT ![j].pc = "sender", ![j].sender = sender,
                                     ![j].minutes = ExpiryMinutes]
    <3>1. ExpiryMinutes \in Nat
      BY BoundsAssumption DEF ExpiryMinutes, TypeInv, TypeOK, BoundsAssumption
    <3> QED BY <1>1, <1>3, <2>1, <3>1 DEF FetchProject, TaskRow, LoopFits, Await, Ended
  <2>2. CASE \E step \in {"raised", "error", "reject"} : Goto(j, step)
    BY <1>1, <1>3, <2>2 DEF FetchProject, Goto, TaskRow, LoopFits, Await, Ended
  <2> QED BY <1>3, <2>1, <2>2 DEF FetchProject
<1>4. CASE FetchSender(j)
  BY <1>1, <1>4 DEF FetchSender, Goto, TaskRow, LoopFits, Await, Ended
<1>5. CASE Reject(j) \/ LogSuccess(j) \/ LogFailure(j) \/ SendTelegramAlert(j)
  BY <1>1, <1>5 DEF Reject, LogSuccess, LogFailure, SendTelegramAlert, Goto, TaskRow,
                    LoopFits, Await, Ended
<1>6. CASE SmtpSend(j)
  <2>1. task[j].pc = "smtp" /\ task[j].stalls < task[j].attempt
    BY <1>1, <1>6 DEF SmtpSend, LoopFits
  <2>2. CASE Goto(j, "log_success")
    BY <1>1, <2>1, <2>2 DEF Goto, TaskRow, LoopFits, Await, Ended
  <2>3. CASE \E stalls \in {0, 1} :
               task' = [task EXCEPT ![j].pc = AfterFailure(j), ![j].stalls = @ + stalls]
    <3> PICK stalls \in {0, 1}, step \in {"backoff", "log_failure"} :
               /\ task' = [task EXCEPT ![j].pc = step, ![j].stalls = @ + stalls]
               /\ step = "backoff" => task[j].attempt < Attempts
      BY <2>3 DEF AfterFailure
    <3> DEFINE new == [task[j] EXCEPT !.pc = step, !.stalls = @ + stalls]
    <3>1. task' = [task EXCEPT ![j] = new]
      OBVIOUS
    <3>2. /\ task[j].attempt \in 0..Attempts /\ task[j].stalls \in 0..Attempts
          /\ task[j].attempt \in 1..Attempts /\ task[j].stalls + stalls \in 0..Attempts
      BY <1>1, <2>1 DEF TaskRow
    <3>3. /\ new.pc = step /\ new.attempt = task[j].attempt
          /\ new.stalls = task[j].stalls + stalls
      BY <1>1 DEF TaskRow
    <3>4. new \in TaskRow
      BY <1>1, <3>2 DEF TaskRow, Await, Ended
    <3>5. LoopFits(new)
      BY <2>1, <3>2, <3>3 DEF LoopFits
    <3>6. new \in TaskRow /\ new.pc = step /\ LoopFits(new)
      BY <3>3, <3>4, <3>5
    <3> HIDE DEF new
    <3> QED BY <1>1, <2>1, <3>1, <3>6
  <2> QED BY <1>6, <2>1, <2>2, <2>3 DEF SmtpSend
<1>7. CASE Touch(j)
  <2>1. task[j].pc = "touch" /\ task[j].stalls < task[j].attempt
    BY <1>1, <1>7 DEF Touch, LoopFits
  <2>2. PICK step \in {"backoff", "log_failure", "sent"} :
               /\ Goto(j, step)
               /\ step = "backoff" => task[j].attempt < Attempts
    BY <1>7 DEF Touch, AfterFailure
  <2> QED BY <1>1, <2>1, <2>2 DEF Goto, TaskRow, LoopFits, Await, Ended
<1>8. CASE Backoff(j)
  BY <1>1, <1>8 DEF Backoff, TaskRow, LoopFits, Await, Ended
<1> QED BY <1>2, <1>3, <1>4, <1>5, <1>6, <1>7, <1>8 DEF Task

\* A set that loses members shrinks, one that gains a member grows by one.
LEMMA Fewer ==
  ASSUME NEW S, IsFiniteSet(S), NEW T \in SUBSET S
  PROVE  IsFiniteSet(T) /\ Cardinality(T) \in Nat /\ Cardinality(T) <= Cardinality(S)
BY FS_Subset, FS_CardinalityType

LEMMA OneMore ==
  ASSUME NEW S, IsFiniteSet(S), NEW x, NEW T \in SUBSET (S \cup {x})
  PROVE  /\ IsFiniteSet(T) /\ Cardinality(T) \in Nat /\ Cardinality(S) \in Nat
         /\ Cardinality(T) <= Cardinality(S) + 1
<1>1. IsFiniteSet(S \cup {x}) /\ Cardinality(S \cup {x}) <= Cardinality(S) + 1
      /\ Cardinality(S) \in Nat
  BY FS_AddElement, FS_CardinalityType
<1> QED BY <1>1, Fewer

\* A step that starts no task keeps the bounds on tasks and clients, unless it
\* creates the client that one of the tasks waits for.
LEMMA NoneStarted ==
  ASSUME TypeInv, Running' \subseteq Running, AtClient' \subseteq AtClient,
         clients' \in {0, clients}
  PROVE  /\ IsFiniteSet(Running') /\ Cardinality(Running') <= MaxJobs
         /\ clients' \in 0..MaxJobs /\ clients' + Cardinality(AtClient') <= MaxJobs
<1>1. AtClient \subseteq Running
  BY DEF AtClient, Running, TypeInv, WorkerInv
<1>2. /\ IsFiniteSet(Running) /\ Cardinality(Running) <= MaxJobs
      /\ clients + Cardinality(AtClient) <= MaxJobs
      /\ clients \in Nat /\ MaxJobs \in Nat
  BY AttemptsType DEF TypeInv, TypeOK, WorkerInv
<1>3. Cardinality(Running) \in Nat /\ IsFiniteSet(AtClient) /\ Cardinality(AtClient) \in Nat
  BY <1>1, <1>2, Fewer, FS_CardinalityType
<1>4. /\ IsFiniteSet(Running') /\ Cardinality(Running') \in Nat
      /\ Cardinality(Running') <= Cardinality(Running)
  BY <1>2, Fewer
<1>5. Cardinality(AtClient') \in Nat /\ Cardinality(AtClient') <= Cardinality(AtClient)
  BY <1>3, Fewer
<1> QED BY <1>2, <1>3, <1>4, <1>5

\* The worker keeps its bounds when it starts a task.
LEMMA OneStarted ==
  ASSUME TypeInv, NEW j \in Job, job[j] = "queued",
         Cardinality(Running) < MaxJobs,
         Running' \subseteq Running \cup {j},
         AtClient' \subseteq Running', clients' = clients,
         clients > 0 => AtClient' \subseteq AtClient
  PROVE  /\ IsFiniteSet(Running') /\ Cardinality(Running') <= MaxJobs
         /\ clients' + Cardinality(AtClient') <= MaxJobs
<1>1. AtClient \subseteq Running
  BY DEF AtClient, Running, TypeInv, WorkerInv
<1>2. /\ IsFiniteSet(Running)
      /\ clients + Cardinality(AtClient) <= MaxJobs
      /\ clients \in Nat /\ MaxJobs \in Nat
  BY AttemptsType DEF TypeInv, TypeOK, WorkerInv
<1>3. /\ IsFiniteSet(Running') /\ Cardinality(Running') \in Nat
      /\ Cardinality(Running) \in Nat /\ Cardinality(Running') <= MaxJobs
  <2>1. /\ IsFiniteSet(Running') /\ Cardinality(Running') \in Nat
        /\ Cardinality(Running) \in Nat
        /\ Cardinality(Running') <= Cardinality(Running) + 1
    BY <1>2, OneMore
  <2> QED BY <1>2, <2>1
<1>4. Cardinality(AtClient') \in Nat /\ Cardinality(AtClient') <= MaxJobs
  <2>1. Cardinality(AtClient') \in Nat /\ Cardinality(AtClient') <= Cardinality(Running')
    BY <1>3, Fewer
  <2> QED BY <1>2, <1>3, <2>1
<1>5. CASE clients > 0
  <2>1. IsFiniteSet(AtClient)
    BY <1>1, <1>2, Fewer
  <2>2. Cardinality(AtClient') <= Cardinality(AtClient) /\ Cardinality(AtClient) \in Nat
    BY <1>5, <2>1, Fewer, FS_CardinalityType
  <2> QED BY <1>2, <1>3, <1>4, <2>2
<1> QED BY <1>2, <1>3, <1>4, <1>5

\* The worker keeps its bounds when a task that waits for a client creates one.
LEMMA OneCreated ==
  ASSUME TypeInv, NEW j \in AtClient, Running' = Running,
         AtClient' = AtClient \ {j}, clients' = clients + 1
  PROVE  /\ clients' \in 0..MaxJobs /\ clients' + Cardinality(AtClient') <= MaxJobs
<1>1. AtClient \subseteq Running
  BY DEF AtClient, Running, TypeInv, WorkerInv
<1>2. /\ IsFiniteSet(Running)
      /\ clients + Cardinality(AtClient) <= MaxJobs
      /\ clients \in Nat /\ MaxJobs \in Nat
  BY AttemptsType DEF TypeInv, TypeOK, WorkerInv
<1>3. IsFiniteSet(AtClient) /\ Cardinality(AtClient) \in Nat
  BY <1>1, <1>2, Fewer, FS_CardinalityType
<1>4. Cardinality(AtClient') = Cardinality(AtClient) - 1 /\ Cardinality(AtClient') \in Nat
  <2>1. Cardinality(AtClient \ {j}) = Cardinality(AtClient) - 1
    BY <1>3, FS_RemoveElement
  <2>2. Cardinality(AtClient \ {j}) \in Nat
    BY <1>3, Fewer
  <2> QED BY <2>1, <2>2
<1> QED BY <1>2, <1>3, <1>4

\* What the steps of the worker and of the bot do to everything but tasks, jobs
\* and clients.
MailTyped ==
  /\ tries \in [Job -> Nat]
  /\ inbox \in [Job -> Nat]
  /\ said \in [Job -> SUBSET Nat]
  /\ log \in [Job -> [sent : Nat, failed : Nat]]
  /\ alerts \in [Job -> Nat]
  /\ trouble \in [Job -> SUBSET Fault]

\* Counters are counted up and histories grow within their types.
LEMMA MailStep == TypeInv /\ [Next]_vars => MailTyped'
<1> SUFFICES ASSUME TypeInv, [Next]_vars PROVE MailTyped'
  OBVIOUS
<1>1. MailTyped /\ \A j \in Job : task[j].minutes \in Nat
  BY DEF MailTyped, TypeInv, TypeOK
<1> USE DEF MailTyped
<1>2. ASSUME NEW j \in Job, NEW status \in {"sent", "failed"}, LogRow(j, status)
      PROVE  /\ log' \in [Job -> [sent : Nat, failed : Nat]]
             /\ trouble' \in [Job -> SUBSET Fault]
             /\ UNCHANGED <<inbox, said, alerts>>
  BY <1>1, <1>2 DEF LogRow, Trouble, Fault
<1>3. ASSUME NEW j \in Job, NEW delivered \in BOOLEAN, Deliver(j, delivered)
      PROVE  inbox' \in [Job -> Nat] /\ said' \in [Job -> SUBSET Nat]
  <2>1. inbox' \in [Job -> Nat]
    BY <1>1, <1>3 DEF Deliver
  <2>2. said[j] \cup {task[j].minutes} \in SUBSET Nat
    BY <1>1
  <2>3. said' \in {said, [said EXCEPT ![j] = said[j] \cup {task[j].minutes}]}
    BY <1>3 DEF Deliver
  <2>4. said' \in [Job -> SUBSET Nat]
    BY <1>1, <2>2, <2>3
  <2> QED BY <2>1, <2>4
<1>4. ASSUME NEW j \in Job, NEW faults \in SUBSET Fault, Trouble(j, faults)
      PROVE  trouble' \in [Job -> SUBSET Fault]
  BY <1>1, <1>4 DEF Trouble
<1>5. ASSUME NEW j \in Job, Task(j) PROVE MailTyped'
  <2>1. CASE CreateClient(j) \/ FetchProject(j) \/ FetchSender(j) \/ Touch(j) \/ Backoff(j)
    BY <1>1, <1>4, <2>1 DEF CreateClient, FetchProject, FetchSender, Touch, Backoff, Goto,
                            MailUnchanged, ArqUnchanged, Fault
  <2>2. CASE Reject(j) \/ LogSuccess(j) \/ LogFailure(j)
    BY <1>1, <1>2, <2>2 DEF Reject, LogSuccess, LogFailure, Goto, ArqUnchanged
  <2>3. CASE SendTelegramAlert(j)
    BY <1>1, <2>3 DEF SendTelegramAlert, Goto, ArqUnchanged
  <2>4. CASE SmtpSend(j)
    <3>1. \E delivered \in BOOLEAN : Deliver(j, delivered)
      BY <2>4 DEF SmtpSend, CanFail
    <3>2. UNCHANGED trouble \/ \E faults \in {{"ack"}, {}} : Trouble(j, faults)
      BY <2>4 DEF SmtpSend, Trouble
    <3>3. UNCHANGED <<tries, log, alerts>>
      BY <2>4 DEF SmtpSend, Goto, ArqUnchanged
    <3> QED BY <1>1, <1>3, <1>4, <3>1, <3>2, <3>3 DEF Fault
  <2> QED BY <1>5, <2>1, <2>2, <2>3, <2>4 DEF Task
<1>6. ASSUME NEW j \in Job, CutOff(j) PROVE MailTyped'
  <2>1. UNCHANGED <<inbox, said>> \/ \E delivered \in BOOLEAN : Deliver(j, delivered)
    BY <1>6 DEF CutOff, CanFail
  <2>2. UNCHANGED trouble \/ \E faults \in {{"ack"}, {}} : Trouble(j, faults)
    BY <1>6 DEF CutOff, Trouble
  <2>3. UNCHANGED <<tries, log, alerts>>
    BY <1>6 DEF CutOff, TimeOut
  <2> QED BY <1>1, <1>3, <1>4, <2>1, <2>2, <2>3 DEF Fault
<1>7. ASSUME NEW j \in Job, Enqueue(j) \/ Start(j) \/ Record(j) \/ JobTimeout(j)
      PROVE  MailTyped'
  <2>1. tries' \in [Job -> Nat]
    BY <1>1, <1>7 DEF Enqueue, Start, Record, JobTimeout, TimeOut
  <2>2. UNCHANGED trouble \/ Trouble(j, {"slow"})
    BY <1>7 DEF Enqueue, Start, Record, JobTimeout
  <2>3. MailUnchanged
    BY <1>7 DEF Enqueue, Start, Record, JobTimeout
  <2> QED BY <1>1, <1>4, <2>1, <2>2, <2>3 DEF MailUnchanged, Fault
<1>8. ASSUME \/ WorkerStop \/ DeleteProject
             \/ \E s \in Sender : AssignSender(s) \/ RemoveSender(s)
             \/ \E n \in Expiries : SetExpiry(n)
             \/ UNCHANGED vars
      PROVE  MailTyped'
  BY <1>1, <1>8 DEF WorkerStop, DeleteProject, AssignSender, RemoveSender, SetExpiry,
                    WorkerUnchanged, MailUnchanged, vars
<1> QED BY <1>5, <1>6, <1>7, <1>8 DEF Next

\* The tasks, the jobs that are running and the clients fit together after every
\* step of a task, of ARQ and of the bot.
LEMMA TypeStep == TypeInv /\ [Next]_vars => TypeInv'
<1> SUFFICES ASSUME TypeInv, [Next]_vars PROVE TypeInv'
  OBVIOUS
<1> USE AttemptsType
<1>1. /\ task \in [Job -> TaskRow] /\ \A j \in Job : LoopFits(task[j])
      /\ job \in [Job -> {"absent", "queued", "running", "finished"}]
      /\ \A j \in Job : task[j].pc = "off" <=> job[j] # "running"
      /\ result \in [Job -> Result]
      /\ sender \in Sender \cup {NoSender, NoProject} /\ active \subseteq Sender
      /\ expiry \in Expiries /\ clients \in 0..MaxJobs
  BY DEF TypeInv, TypeOK, TaskRow, WorkerInv
<1>2. NoTask \in TaskRow /\ LoopFits(NoTask) /\ NoTask.pc = "off"
  BY DEF NoTask, TaskRow, LoopFits
<1>3. ASSUME task' \in [Job -> TaskRow], \A j \in Job : LoopFits(task'[j]),
             job' \in [Job -> {"absent", "queued", "running", "finished"}],
             \A j \in Job : task'[j].pc = "off" <=> job'[j] # "running",
             result' \in [Job -> Result],
             sender' \in Sender \cup {NoSender, NoProject}, active' \subseteq Sender,
             expiry' \in Expiries, clients' \in 0..MaxJobs,
             IsFiniteSet(Running'), Cardinality(Running') <= MaxJobs,
             clients' + Cardinality(AtClient') <= MaxJobs
      PROVE  TypeInv'
  BY <1>3, MailStep DEF MailTyped, TypeInv, TypeOK, TaskRow, WorkerInv
<1>4. ASSUME UNCHANGED <<task, job, result, clients>>,
             sender' \in Sender \cup {NoSender, NoProject}, active' \subseteq Sender,
             expiry' \in Expiries
      PROVE  TypeInv'
  <2>1. Running' = Running /\ AtClient' = AtClient
    BY <1>4 DEF Running, AtClient
  <2> QED BY <1>1, <1>3, <1>4, <2>1 DEF TypeInv, WorkerInv
<1>5. ASSUME NEW j \in Job, Enqueue(j) PROVE TypeInv'
  <2>1. /\ UNCHANGED <<task, result, clients, sender, active, expiry>>
        /\ job' = [job EXCEPT ![j] = "queued"] /\ job[j] = "absent"
    BY <1>5 DEF Enqueue, BotUnchanged
  <2>2. Running' = Running /\ AtClient' = AtClient
    BY <1>1, <2>1 DEF Running, AtClient
  <2> QED BY <1>1, <1>3, <2>1, <2>2 DEF TypeInv, WorkerInv
<1>6. ASSUME NEW j \in Job, NEW r \in Result, Finish(j, r),
             UNCHANGED <<clients, sender, active, expiry>>
      PROVE  TypeInv'
  <2>1. /\ task' = [task EXCEPT ![j] = NoTask] /\ job' = [job EXCEPT ![j] = "finished"]
        /\ result' = [result EXCEPT ![j] = r]
    BY <1>6 DEF Finish
  <2>2. Running' \subseteq Running /\ AtClient' \subseteq AtClient
    BY <1>1, <1>2, <2>1 DEF Running, AtClient
  <2>3. /\ IsFiniteSet(Running') /\ Cardinality(Running') <= MaxJobs
        /\ clients' \in 0..MaxJobs /\ clients' + Cardinality(AtClient') <= MaxJobs
    BY <1>6, <2>2, NoneStarted
  <2> QED BY <1>1, <1>2, <1>3, <1>6, <2>1, <2>3
<1>7. ASSUME NEW j \in Job, Start(j) PROVE TypeInv'
  <2>1. CASE tries[j] < MaxTries
    <3> DEFINE new == [task[j] EXCEPT !.pc = FirstCall]
    <3>1. /\ job[j] = "queued" /\ job' = [job EXCEPT ![j] = "running"]
          /\ task' = [task EXCEPT ![j] = new]
          /\ UNCHANGED <<result, clients, sender, active, expiry>>
          /\ Cardinality(Running) < MaxJobs
      BY <1>7, <2>1 DEF Start, BotUnchanged
    <3>2. /\ new \in TaskRow /\ new.pc \in {"client", "project"} /\ LoopFits(new)
          /\ clients > 0 => new.pc = "project"
      BY <1>1, <3>1 DEF TaskRow, LoopFits, FirstCall, Await
    <3> HIDE DEF new
    <3>3. /\ Running' \subseteq Running \cup {j} /\ AtClient' \subseteq Running'
          /\ clients > 0 => AtClient' \subseteq AtClient
      BY <1>1, <3>1, <3>2 DEF Running, AtClient
    <3>4. /\ IsFiniteSet(Running') /\ Cardinality(Running') <= MaxJobs
          /\ clients' + Cardinality(AtClient') <= MaxJobs
      BY <3>1, <3>3, OneStarted
    <3> QED BY <1>1, <1>3, <3>1, <3>2, <3>4
  <2>2. CASE ~(tries[j] < MaxTries)
    BY <1>6, <1>7, <2>2 DEF Start, BotUnchanged, Result
  <2> QED BY <2>1, <2>2
<1>8. ASSUME NEW j \in Job, Record(j) \/ JobTimeout(j) \/ CutOff(j) PROVE TypeInv'
  <2>1. \E r \in Result : Finish(j, r)
    BY <1>8 DEF Record, JobTimeout, CutOff, TimeOut, Result
  <2>2. UNCHANGED <<clients, sender, active, expiry>>
    BY <1>8 DEF Record, JobTimeout, CutOff, TimeOut, BotUnchanged
  <2> QED BY <1>6, <2>1, <2>2
<1>9. ASSUME WorkerStop PROVE TypeInv'
  <2>1. /\ job' = [j \in Job |-> IF j \in Running THEN "queued" ELSE job[j]]
        /\ task' = [j \in Job |-> NoTask] /\ clients' = 0
        /\ UNCHANGED <<result, sender, active, expiry>>
    BY <1>9 DEF WorkerStop, BotUnchanged
  <2>2. Running' = {} /\ AtClient' = {}
    BY <1>1, <1>2, <2>1 DEF Running, AtClient
  <2>3. \A j \in Job : job'[j] # "running"
    BY <2>2 DEF Running
  <2> QED BY <1>1, <1>2, <1>3, <2>1, <2>2, <2>3, FS_EmptySet
<1>10. ASSUME NEW j \in Job, Task(j) PROVE TypeInv'
  <2>1. /\ task' = [task EXCEPT ![j] = task'[j]] /\ task[j].pc # "off"
        /\ task'[j] \in TaskRow /\ LoopFits(task'[j])
        /\ task'[j].pc \notin {"off", "client"}
    BY <1>10, TaskMoves
  <2>2. UNCHANGED <<job, result, sender, active, expiry>>
    BY <1>10 DEF Task, CreateClient, FetchProject, FetchSender, Reject, SmtpSend, LogSuccess,
                 Touch, Backoff, LogFailure, SendTelegramAlert, Goto, ArqUnchanged,
                 BotUnchanged
  <2>3. Running' = Running /\ AtClient' = AtClient \ {j}
    BY <1>1, <2>1, <2>2 DEF Running, AtClient
  <2>4. clients' = clients \/ (clients' = clients + 1 /\ j \in AtClient)
    BY <1>10 DEF Task, CreateClient, FetchProject, FetchSender, Reject, SmtpSend, LogSuccess,
                 Touch, Backoff, LogFailure, SendTelegramAlert, LogRow, AtClient
  <2>5. /\ IsFiniteSet(Running') /\ Cardinality(Running') <= MaxJobs
        /\ clients' \in 0..MaxJobs /\ clients' + Cardinality(AtClient') <= MaxJobs
    <3>1. CASE clients' = clients
      BY <2>3, <3>1, NoneStarted
    <3>2. CASE clients' = clients + 1 /\ j \in AtClient
      BY <2>3, <3>2, OneCreated DEF TypeInv, WorkerInv
    <3> QED BY <2>4, <3>1, <3>2
  <2> QED BY <1>1, <1>3, <2>1, <2>2, <2>5
<1>11. ASSUME \/ DeleteProject
              \/ \E s \in Sender : AssignSender(s) \/ RemoveSender(s)
              \/ \E n \in Expiries : SetExpiry(n)
              \/ UNCHANGED vars
       PROVE  TypeInv'
  BY <1>1, <1>4, <1>11 DEF DeleteProject, AssignSender, RemoveSender, SetExpiry,
                           WorkerUnchanged, vars
<1> QED BY <1>5, <1>7, <1>8, <1>9, <1>10, <1>11 DEF Next

\* The worker's bookkeeping is well typed; in particular no more Supabase clients
\* are created than tasks may run at a time (core/db.py 32-34), although every
\* task that finds none creates one.
THEOREM WorkerTypeCorrect == Spec => []TypeOK
<1>1. TypeInv => TypeOK
  BY DEF TypeInv
<1> QED BY <1>1, TypeInit, TypeStep, PTL DEF Spec

-----------------------------------------------------------------------------
(* What holds of a job between any two steps.                              *)

\* The attempts of n tries.
Full(n) == n * Attempts

LEMMA FullGrows ==
  /\ \A n \in Nat : Full(n) \in Nat /\ Full(n + 1) = Full(n) + Attempts
  /\ \A m, n \in Nat : m <= n => Full(m) <= Full(n)
  /\ Full(0) = 0
<1>1. Attempts \in Nat
  BY AttemptsType
<1>2. ASSUME NEW m \in Nat, NEW n \in Nat, m <= n PROVE Full(m) <= Full(n)
  <2>1. n - m \in Nat /\ (n - m) * Attempts \in Nat
    BY <1>1, <1>2
  <2>2. n * Attempts = m * Attempts + (n - m) * Attempts
    BY <1>1
  <2> QED BY <1>1, <2>1, <2>2 DEF Full
<1> QED BY <1>1, <1>2 DEF Full

\* A running task is at most in the last of its tries.
TriesInv(j) ==
  /\ job[j] # "finished" => tries[j] <= MaxTries
  /\ job[j] = "running" => tries[j] >= 1
  /\ tries[j] = 0 => alerts[j] = 0

\* An email is delivered before it is logged.
LogInv(j) == log[j].sent + (IF task[j].pc = "log_success" THEN 1 ELSE 0) <= inbox[j]

\* The attempts of its try that a task has used up.
Spent(t) == IF t.pc = "smtp" THEN t.attempt - 1 ELSE t.attempt

\* A running task has its earlier tries and the attempts it used up to account for
\* the emails; a job that is not running all its tries.
BudgetInv(j) ==
  /\ inbox[j] <= Full(MaxTries)
  /\ job[j] = "running" => inbox[j] <= Full(tries[j] - 1) + Spent(task[j])
  /\ job[j] \in {"absent", "queued"} => inbox[j] <= Full(tries[j])

Clean(j) == trouble[j] \cap {"db", "ack"} = {}

\* Without trouble an attempt that delivers is the last one of its try.
CleanInv(j) ==
  Clean(j) =>
    /\ inbox[j] <= tries[j]
    /\ job[j] = "running" /\ task[j].pc \notin {"log_success", "touch", "sent"}
         => inbox[j] <= tries[j] - 1

\* The alert of a first try comes when no attempt is left.
AlertInv(j) ==
  tries[j] = 1 =>
    /\ task[j].pc \notin {"off", "raised"} => alerts[j] = 0
    /\ alerts[j] > 0 /\ Clean(j) => inbox[j] = 0

\* A row of email_logs is written before the task goes on to its end.
OutcomeInv(j) ==
  sender # NoProject /\ "db" \notin trouble[j] =>
    /\ task[j].pc \in {"touch", "sent"} => log[j].sent > 0
    /\ task[j].pc \in {"alert", "raised", "error"} => log[j].failed > 0
    /\ result[j] = "sent" => log[j].sent > 0
    /\ result[j] \in {"error", "raised"} => log[j].failed > 0

JobInvOf(j) ==
  TriesInv(j) /\ LogInv(j) /\ BudgetInv(j) /\ CleanInv(j) /\ AlertInv(j) /\ OutcomeInv(j)

JobInv == \A j \in Job : JobInvOf(j)

\* Nothing holds of a job before it is enqueued.
LEMMA JobInit == Init => JobInv
<1> SUFFICES ASSUME Init, NEW j \in Job PROVE JobInvOf(j)
  BY DEF JobInv
<1>1. MaxTries \in Nat
  BY BoundsAssumption DEF BoundsAssumption
<1>2. /\ job[j] = "absent" /\ tries[j] = 0 /\ task[j].pc = "off" /\ result[j] = "none"
      /\ inbox[j] = 0 /\ log[j].sent = 0 /\ alerts[j] = 0
  BY DEF Init, NoTask
<1> QED BY <1>1, <1>2, FullGrows DEF JobInvOf, TriesInv, LogInv, BudgetInv, CleanInv,
                                    AlertInv, OutcomeInv

\* The types of what JobInvOf speaks of.
LEMMA JobTypes ==
  ASSUME TypeInv, NEW j \in Job
  PROVE  /\ job[j] \in {"absent", "queued", "running", "finished"}
         /\ tries[j] \in Nat /\ inbox[j] \in Nat /\ alerts[j] \in Nat
         /\ log[j].sent \in Nat /\ log[j].failed \in Nat
         /\ task[j] \in TaskRow /\ LoopFits(task[j]) /\ Spent(task[j]) \in 0..Attempts
         /\ task[j].pc = "off" <=> job[j] # "running"
         /\ MaxTries \in Nat \ {0} /\ Attempts \in Nat \ {0}
<1>1. /\ task[j] \in TaskRow /\ LoopFits(task[j])
      /\ task[j].pc = "off" <=> job[j] # "running"
  BY DEF TypeInv, TypeOK, TaskRow, WorkerInv
<1>2. Attempts \in Nat \ {0} /\ MaxTries \in Nat \ {0}
  BY AttemptsType, BoundsAssumption DEF BoundsAssumption
<1>3. Spent(task[j]) \in 0..Attempts
  <2>1. task[j].attempt \in 0..Attempts /\ task[j].stalls \in 0..Attempts
    BY <1>1 DEF TaskRow
  <2> QED BY <1>1, <1>2, <2>1 DEF Spent, LoopFits
<1> QED BY <1>1, <1>2, <1>3 DEF TypeInv, TypeOK

\* A job that a step leaves alone keeps what holds of it; the project at most
\* disappears.
LEMMA JobRests ==
  ASSUME NEW j \in Job, JobInvOf(j),
         job'[j] = job[j], tries'[j] = tries[j], task'[j] = task[j],
         result'[j] = result[j], inbox'[j] = inbox[j], log'[j] = log[j],
         alerts'[j] = alerts[j], trouble'[j] = trouble[j],
         sender = NoProject => sender' = NoProject
  PROVE  JobInvOf(j)'
BY DEF JobInvOf, TriesInv, LogInv, BudgetInv, CleanInv, AlertInv, OutcomeInv, Clean, Spent

\* A project that is gone does not come back, and only the bot changes its sender.
LEMMA ProjectGoes == [Next]_vars => (sender = NoProject => sender' = NoProject)
BY SenderAssumption
DEF Next, Enqueue, Start, Task, Record, JobTimeout, CutOff, WorkerStop, DeleteProject,
    AssignSender, RemoveSender, SetExpiry, CreateClient, FetchProject, FetchSender, Reject,
    SmtpSend, LogSuccess, Touch, Backoff, LogFailure, SendTelegramAlert, TimeOut, Goto,
    BotUnchanged, vars

\* A step of one job leaves the others alone.
LEMMA OthersRest ==
  ASSUME TypeInv, NEW j \in Job, NEW i \in Job, i # j,
         Enqueue(j) \/ Start(j) \/ Task(j) \/ Record(j) \/ JobTimeout(j) \/ CutOff(j)
  PROVE  /\ job'[i] = job[i] /\ tries'[i] = tries[i] /\ task'[i] = task[i]
         /\ result'[i] = result[i] /\ inbox'[i] = inbox[i] /\ log'[i] = log[i]
         /\ alerts'[i] = alerts[i] /\ trouble'[i] = trouble[i]
<1>1. /\ DOMAIN job = Job /\ DOMAIN tries = Job /\ DOMAIN task = Job
      /\ DOMAIN result = Job /\ DOMAIN inbox = Job /\ DOMAIN log = Job
      /\ DOMAIN alerts = Job /\ DOMAIN trouble = Job
  BY DEF TypeInv, TypeOK
<1>2. CASE Enqueue(j) \/ Start(j) \/ Record(j) \/ JobTimeout(j) \/ CutOff(j)
  BY <1>1, <1>2 DEF Enqueue, Start, Record, JobTimeout, CutOff, TimeOut, Finish, Deliver,
                    Trouble, MailUnchanged
<1>3. CASE Task(j)
  BY <1>1, <1>3 DEF Task, CreateClient, FetchProject, FetchSender, Reject, SmtpSend,
       LogSuccess, Touch, Backoff, LogFailure, SendTelegramAlert, LogRow, Deliver, Trouble,
       Goto, ArqUnchanged, MailUnchanged
<1> QED BY <1>2, <1>3

\* What a running task may still use fits in the budget of the job.
LEMMA BudgetOfTry ==
  ASSUME TypeInv, NEW j \in Job, TriesInv(j), job[j] = "running"
  PROVE  /\ Full(tries[j] - 1) + Attempts <= Full(MaxTries)
         /\ Full(tries[j] - 1) + Attempts = Full(tries[j])
         /\ Full(tries[j] - 1) \in Nat
<1> DEFINE n == tries[j] - 1
<1>1. n \in Nat /\ tries[j] = n + 1 /\ tries[j] \in Nat /\ tries[j] <= MaxTries /\ MaxTries \in Nat
  BY JobTypes DEF TriesInv
<1> HIDE DEF n
<1>2. Full(n) \in Nat /\ Full(n + 1) = Full(n) + Attempts
  BY <1>1, FullGrows
<1>3. Full(tries[j]) <= Full(MaxTries)
  BY <1>1, FullGrows
<1>4. Full(n) \in Nat /\ Full(tries[j]) = Full(n) + Attempts
  BY <1>1, <1>2
<1> QED BY <1>3, <1>4 DEF n

\* The steps of ARQ: a try that begins adds its attempts to the budget, a try that
\* ends or is interrupted leaves what it did not use.
LEMMA ArqKeeps ==
  ASSUME TypeInv, NEW j \in Job, JobInvOf(j), sender = NoProject => sender' = NoProject,
         Enqueue(j) \/ Start(j) \/ Record(j) \/ JobTimeout(j) \/ CutOff(j) \/ WorkerStop
  PROVE  JobInvOf(j)'
<1>1. /\ DOMAIN job = Job /\ DOMAIN tries = Job /\ DOMAIN task = Job
      /\ DOMAIN result = Job /\ DOMAIN inbox = Job /\ DOMAIN log = Job
      /\ DOMAIN alerts = Job /\ DOMAIN trouble = Job
  BY DEF TypeInv, TypeOK
<1>2. /\ job[j] \in {"absent", "queued", "running", "finished"}
      /\ tries[j] \in Nat /\ inbox[j] \in Nat /\ alerts[j] \in Nat
      /\ log[j].sent \in Nat /\ Spent(task[j]) \in 0..Attempts
      /\ task[j].pc = "off" <=> job[j] # "running"
      /\ MaxTries \in Nat \ {0} /\ Attempts \in Nat \ {0}
  BY JobTypes
<1>3. NoTask.pc = "off" /\ Spent(NoTask) = 0
  BY DEF NoTask, Spent
<1>4. TriesInv(j) /\ LogInv(j) /\ BudgetInv(j) /\ CleanInv(j) /\ AlertInv(j) /\ OutcomeInv(j)
  BY DEF JobInvOf
<1>5. job[j] = "running" => /\ Full(tries[j] - 1) + Attempts <= Full(MaxTries)
                           /\ Full(tries[j] - 1) + Attempts = Full(tries[j])
                           /\ Full(tries[j] - 1) \in Nat
  BY <1>4, BudgetOfTry
<1>6. CASE Enqueue(j)
  <2>1. /\ job[j] = "absent" /\ job'[j] = "queued" /\ tries' = tries /\ task' = task
        /\ result' = result /\ trouble' = trouble /\ MailUnchanged
    BY <1>1, <1>6 DEF Enqueue
  <2> QED BY <1>2, <1>4, <2>1 DEF JobInvOf, TriesInv, LogInv, BudgetInv, CleanInv, AlertInv,
                                  OutcomeInv, Clean, Spent, MailUnchanged
<1>7. CASE Start(j)
  <2>1. /\ job[j] = "queued" /\ tries'[j] = tries[j] + 1 /\ trouble' = trouble
        /\ inbox' = inbox /\ log' = log /\ alerts' = alerts
    BY <1>1, <1>7 DEF Start, MailUnchanged
  <2>2. CASE tries[j] < MaxTries
    <3>1. job'[j] = "running" /\ task'[j] = [task[j] EXCEPT !.pc = FirstCall] /\ result' = result
      BY <1>1, <1>7, <2>2 DEF Start
    <3>2. task'[j].pc \in {"client", "project"} /\ task'[j].attempt = 0
      <4>1. task[j] \in TaskRow /\ LoopFits(task[j])
        BY JobTypes
      <4> QED BY <1>2, <2>1, <3>1, <4>1 DEF FirstCall, TaskRow, LoopFits
    <3>3. TriesInv(j)' /\ LogInv(j)' /\ CleanInv(j)' /\ AlertInv(j)' /\ OutcomeInv(j)'
      BY <1>2, <1>4, <2>1, <2>2, <3>1, <3>2 DEF TriesInv, LogInv, CleanInv, AlertInv,
                                                OutcomeInv, Clean
    <3>4. BudgetInv(j)'
      <4>1. tries'[j] - 1 = tries[j] /\ Spent(task'[j]) = 0
        BY <1>2, <2>1, <3>2 DEF Spent
      <4> QED BY <1>2, <1>4, <2>1, <3>1, <4>1, FullGrows DEF BudgetInv
    <3> QED BY <3>3, <3>4 DEF JobInvOf
  <2>3. CASE ~(tries[j] < MaxTries)
    <3>1. job'[j] = "finished" /\ task'[j] = NoTask /\ result'[j] = "out_of_tries"
      BY <1>1, <1>7, <2>3 DEF Start, Finish
    <3> QED BY <1>2, <1>3, <1>4, <2>1, <3>1 DEF JobInvOf, TriesInv, LogInv, BudgetInv, CleanInv,
                                            AlertInv, OutcomeInv, Clean
  <2> QED BY <2>2, <2>3
<1>8. CASE Record(j) \/ JobTimeout(j)
  <2>1. /\ job[j] = "running" /\ job'[j] = "finished" /\ task'[j] = NoTask /\ tries' = tries
        /\ inbox' = inbox /\ log' = log /\ alerts' = alerts
        /\ trouble[j] \subseteq trouble'[j]
        /\ result'[j] = "timeout" \/ (task[j].pc \in Ended /\ result'[j] = task[j].pc)
    BY <1>1, <1>2, <1>8 DEF Record, JobTimeout, TimeOut, Finish, Trouble, MailUnchanged, Await, Ended
  <2> QED BY <1>2, <1>3, <1>4, <2>1 DEF JobInvOf, TriesInv, LogInv, BudgetInv, CleanInv,
                                        AlertInv, OutcomeInv, Clean, Ended
<1>9. CASE CutOff(j)
  <2>1. /\ job[j] = "running" /\ job'[j] = "finished" /\ task'[j] = NoTask /\ tries' = tries
        /\ log' = log /\ alerts' = alerts /\ result'[j] = "timeout"
    BY <1>1, <1>2, <1>9 DEF CutOff, TimeOut, Finish
  <2>2. \/ inbox'[j] = inbox[j] /\ trouble[j] \subseteq trouble'[j]
        \/ /\ task[j].pc = "smtp" /\ inbox'[j] = inbox[j] + 1
           /\ trouble[j] \cup {"ack"} \subseteq trouble'[j]
    BY <1>1, <1>9 DEF CutOff, Deliver, Trouble
  <2>3. CASE inbox'[j] = inbox[j] /\ trouble[j] \subseteq trouble'[j]
    BY <1>2, <1>3, <1>4, <2>1, <2>3 DEF JobInvOf, TriesInv, LogInv, BudgetInv, CleanInv,
                                        AlertInv, OutcomeInv, Clean
  <2>4. CASE /\ task[j].pc = "smtp" /\ inbox'[j] = inbox[j] + 1
             /\ trouble[j] \cup {"ack"} \subseteq trouble'[j]
    <3>1. inbox[j] <= Full(tries[j] - 1) + (Attempts - 1)
      <4>1. Spent(task[j]) <= Attempts - 1
        <5>1. task[j] \in TaskRow
          BY JobTypes
        <5> QED BY <1>2, <2>4, <5>1 DEF Spent, TaskRow
      <4> QED BY <1>2, <1>4, <1>5, <2>1, <4>1 DEF BudgetInv
    <3>2. inbox'[j] <= Full(MaxTries)
      <4>1. Full(MaxTries) \in Nat
        BY <1>2, FullGrows
      <4> QED BY <1>2, <1>5, <2>1, <2>4, <3>1, <4>1
    <3>3. ~Clean(j)'
      BY <2>4 DEF Clean
    <3> QED BY <1>2, <1>3, <1>4, <2>1, <2>4, <3>2, <3>3
            DEF JobInvOf, TriesInv, LogInv, BudgetInv, CleanInv, AlertInv, OutcomeInv
  <2> QED BY <2>2, <2>3, <2>4
<1>10. CASE WorkerStop
  <2>1. /\ job'[j] = IF job[j] = "running" THEN "queued" ELSE job[j]
        /\ task'[j] = NoTask /\ tries' = tries /\ inbox' = inbox /\ log' = log
        /\ alerts' = alerts /\ trouble' = trouble /\ result' = result
    BY <1>10 DEF WorkerStop, Running, MailUnchanged
  <2>2. job[j] = "running" => inbox[j] <= Full(tries[j])
    BY <1>2, <1>4, <1>5 DEF BudgetInv
  <2> QED BY <1>2, <1>3, <1>4, <2>1, <2>2 DEF JobInvOf, TriesInv, LogInv, BudgetInv, CleanInv,
                                          AlertInv, OutcomeInv, Clean
<1> QED BY <1>6, <1>7, <1>8, <1>9, <1>10

\* The steps of send_email_task: what an await leaves behind is what the next one
\* counts on.
LEMMA TaskKeeps ==
  ASSUME TypeInv, NEW j \in Job, JobInvOf(j), sender = NoProject => sender' = NoProject,
         Task(j)
  PROVE  JobInvOf(j)'
<1>1. /\ DOMAIN job = Job /\ DOMAIN tries = Job /\ DOMAIN task = Job
      /\ DOMAIN result = Job /\ DOMAIN inbox = Job /\ DOMAIN log = Job
      /\ DOMAIN alerts = Job /\ DOMAIN trouble = Job
      /\ log[j] \in [sent : Nat, failed : Nat]
  BY DEF TypeInv, TypeOK
<1>2. /\ job[j] \in {"absent", "queued", "running", "finished"}
      /\ tries[j] \in Nat /\ inbox[j] \in Nat /\ alerts[j] \in Nat
      /\ log[j].sent \in Nat /\ log[j].failed \in Nat
      /\ task[j] \in TaskRow /\ LoopFits(task[j]) /\ Spent(task[j]) \in 0..Attempts
      /\ MaxTries \in Nat \ {0} /\ Attempts \in Nat \ {0}
  BY JobTypes
<1>3. /\ job[j] = "running" /\ task[j].pc # "off"
      /\ task' = [task EXCEPT ![j] = task'[j]]
      /\ task'[j] \in TaskRow /\ LoopFits(task'[j])
      /\ task'[j].pc \notin {"off", "client"}
  BY JobTypes, TaskMoves
<1>4. TriesInv(j) /\ LogInv(j) /\ BudgetInv(j) /\ CleanInv(j) /\ AlertInv(j) /\ OutcomeInv(j)
  BY DEF JobInvOf
<1>5. /\ Full(tries[j] - 1) + Attempts <= Full(MaxTries)
      /\ Full(tries[j] - 1) + Attempts = Full(tries[j])
      /\ Full(tries[j] - 1) \in Nat /\ Full(MaxTries) \in Nat
  <2>1. Full(MaxTries) \in Nat
    BY <1>2, FullGrows
  <2> QED BY <1>3, <1>4, <2>1, BudgetOfTry
<1>6. job' = job /\ tries' = tries /\ result' = result /\ sender' = sender
  BY DEF Task, CreateClient, FetchProject, FetchSender, Reject, SmtpSend, LogSuccess,
         Touch, Backoff, LogFailure, SendTelegramAlert, Goto, ArqUnchanged, BotUnchanged
<1>7. tries[j] >= 1
  BY <1>3, <1>4 DEF TriesInv
<1>8. tries[j] >= 1 /\ TriesInv(j)'
  BY <1>2, <1>3, <1>4, <1>6, <1>7 DEF TriesInv
\* A step that delivers nothing and writes no row.
<1>9. ASSUME inbox'[j] = inbox[j], log'[j] = log[j], alerts'[j] = alerts[j],
             trouble[j] \subseteq trouble'[j],
             Spent(task'[j]) = Spent(task[j]),
             task[j].pc \notin {"log_success", "sent"}, task'[j].pc # "log_success",
             task[j].pc = "touch" => task'[j].pc = "sent" \/ "db" \in trouble'[j],
             task'[j].pc \in {"touch", "sent"} => task[j].pc = "touch",
             task'[j].pc \in {"alert", "raised", "error"}
               => "db" \in trouble'[j] \/ sender = NoProject,
             task[j].pc # "raised"
      PROVE  JobInvOf(j)'
  BY <1>2, <1>3, <1>4, <1>6, <1>8, <1>9
  DEF JobInvOf, LogInv, BudgetInv, CleanInv, AlertInv, OutcomeInv, Clean
<1>10. CASE CreateClient(j) \/ FetchProject(j) \/ FetchSender(j) \/ Touch(j) \/ Backoff(j)
  <2>1. /\ inbox' = inbox /\ log' = log /\ alerts' = alerts
    BY <1>10 DEF CreateClient, FetchProject, FetchSender, Touch, Backoff, MailUnchanged
  <2>2. /\ trouble[j] \subseteq trouble'[j]
        /\ task[j].pc \in {"client", "project", "sender", "touch", "backoff"}
    BY <1>1, <1>10 DEF CreateClient, FetchProject, FetchSender, Touch, Backoff, Trouble
  <2>3. CASE CreateClient(j)
    <3>1. /\ task[j].pc = "client"
          /\ \/ task'[j] = [task[j] EXCEPT !.pc = "raised"] /\ "db" \in trouble'[j]
             \/ task'[j] = [task[j] EXCEPT !.pc = "project"]
      BY <1>1, <2>3 DEF CreateClient, Goto, Trouble
    <3>2. Spent(task'[j]) = Spent(task[j])
      BY <1>2, <3>1 DEF Spent, TaskRow
    <3> QED BY <1>2, <1>9, <2>1, <2>2, <3>1, <3>2 DEF TaskRow
  <2>4. CASE FetchProject(j)
    <3>1. /\ task[j].pc = "project"
          /\ \/ task'[j] = [task[j] EXCEPT !.pc = "raised"] /\ "db" \in trouble'[j]
             \/ task'[j] = [task[j] EXCEPT !.pc = "error"] /\ sender = NoProject
             \/ task'[j] = [task[j] EXCEPT !.pc = "reject"]
             \/ task'[j] = [task[j] EXCEPT !.pc = "sender", !.sender = sender,
                                           !.minutes = ExpiryMinutes]
      BY <1>1, <2>4 DEF FetchProject, Goto, Trouble
    <3>2. Spent(task'[j]) = Spent(task[j])
      BY <1>2, <3>1 DEF Spent, TaskRow
    <3> QED BY <1>2, <1>9, <2>1, <2>2, <3>1, <3>2 DEF TaskRow
  <2>5. CASE FetchSender(j)
    <3>1. task[j].pc = "sender" /\ task[j].attempt = 0
      BY <1>2, <2>5 DEF FetchSender, LoopFits
    <3>2. \/ task'[j] = [task[j] EXCEPT !.pc = "raised"] /\ "db" \in trouble'[j]
          \/ task'[j] = [task[j] EXCEPT !.pc = "reject"]
          \/ task'[j] = [task[j] EXCEPT !.pc = "smtp", !.attempt = 1]
      <4>1. CASE task' = [task EXCEPT ![j].pc = "smtp", ![j].attempt = 1]
        BY <1>1, <4>1
      <4>2. CASE Goto(j, "raised") /\ Trouble(j, {"db"})
        BY <1>1, <4>2 DEF Goto, Trouble
      <4>3. CASE Goto(j, "reject")
        BY <1>1, <4>3 DEF Goto
      <4> QED BY <2>5, <4>1, <4>2, <4>3 DEF FetchSender
    <3>3. /\ task[j].pc = "sender" /\ task[j].attempt = 0
          /\ \/ /\ task'[j].pc \in {"raised", "reject"} /\ task'[j].attempt = 0
                /\ task'[j].pc = "raised" => "db" \in trouble'[j]
             \/ task'[j].pc = "smtp" /\ task'[j].attempt = 1
      BY <1>2, <3>1, <3>2 DEF TaskRow
    <3>4. Spent(task'[j]) = Spent(task[j])
      BY <3>3 DEF Spent
    <3> QED BY <1>2, <1>9, <2>1, <2>2, <3>3, <3>4 DEF TaskRow
  <2>6. CASE Touch(j)
    <3>1. /\ task[j].pc = "touch"
          /\ \/ task'[j] = [task[j] EXCEPT !.pc = "sent"]
             \/ /\ \E step \in {"backoff", "log_failure"} :
                    task'[j] = [task[j] EXCEPT !.pc = step]
                /\ "db" \in trouble'[j]
      BY <1>1, <2>6 DEF Touch, Goto, Trouble, AfterFailure
    <3>2. Spent(task'[j]) = Spent(task[j])
      BY <1>2, <3>1 DEF Spent, TaskRow
    <3> QED BY <1>2, <1>9, <2>1, <2>2, <3>1, <3>2 DEF TaskRow
  <2>7. CASE Backoff(j)
    <3>1. /\ task[j].pc = "backoff"
          /\ task'[j] = [task[j] EXCEPT !.pc = "smtp", !.attempt = @ + 1]
      BY <1>1, <2>7 DEF Backoff
    <3>2. Spent(task'[j]) = Spent(task[j])
      BY <1>2, <3>1 DEF Spent, TaskRow
    <3> QED BY <1>2, <1>9, <2>1, <2>2, <3>1, <3>2 DEF TaskRow
  <2> QED BY <1>10, <2>3, <2>4, <2>5, <2>6, <2>7
<1>11. CASE SmtpSend(j)
  <2>1. task[j].pc = "smtp" /\ log' = log /\ alerts' = alerts
    BY <1>11 DEF SmtpSend
  <2>2. /\ task'[j].attempt = task[j].attempt
        /\ \/ /\ task'[j].pc = "log_success"
              /\ inbox'[j] = inbox[j] + 1 /\ trouble'[j] = trouble[j]
           \/ /\ task'[j].pc \in {"backoff", "log_failure"}
              /\ \/ inbox'[j] = inbox[j] /\ trouble[j] \subseteq trouble'[j]
                 \/ inbox'[j] = inbox[j] + 1 /\ trouble[j] \cup {"ack"} \subseteq trouble'[j]
    BY <1>1, <1>2, <1>11 DEF SmtpSend, Goto, Deliver, Trouble, AfterFailure, TaskRow
  <2>3. /\ Spent(task'[j]) = Spent(task[j]) + 1
        /\ Spent(task'[j]) \in 0..Attempts
    BY <1>2, <1>3, <2>1, <2>2 DEF Spent, TaskRow
  <2>4. LogInv(j)' /\ BudgetInv(j)'
    BY <1>2, <1>3, <1>4, <1>5, <1>6, <2>1, <2>2, <2>3 DEF LogInv, BudgetInv
  <2>5. CleanInv(j)'
    BY <1>2, <1>3, <1>4, <1>6, <2>1, <2>2 DEF CleanInv, Clean
  <2>6. AlertInv(j)'
    BY <1>2, <1>3, <1>4, <1>6, <2>1, <2>2 DEF AlertInv
  <2>7. OutcomeInv(j)'
    BY <1>2, <1>3, <1>4, <1>6, <2>1, <2>2 DEF OutcomeInv
  <2> QED BY <1>8, <2>4, <2>5, <2>6, <2>7 DEF JobInvOf
<1>12. CASE Reject(j) \/ LogSuccess(j) \/ LogFailure(j)
  <2>1. PICK status \in {"sent", "failed"}, step \in {"error", "touch", "alert"} :
               /\ LogRow(j, status) /\ Goto(j, step)
               /\ \/ status = "failed" /\ step = "error" /\ task[j].pc = "reject"
                  \/ status = "sent" /\ step = "touch" /\ task[j].pc = "log_success"
                  \/ status = "failed" /\ step = "alert" /\ task[j].pc = "log_failure"
    BY <1>12 DEF Reject, LogSuccess, LogFailure
  <2>2. /\ inbox' = inbox /\ alerts' = alerts /\ trouble[j] \subseteq trouble'[j]
        /\ task'[j] = [task[j] EXCEPT !.pc = step]
    BY <1>1, <2>1 DEF LogRow, Trouble, Goto
  <2>3. task'[j].pc = step /\ Spent(task'[j]) = Spent(task[j])
    BY <1>2, <2>1, <2>2 DEF TaskRow, Spent
  <2>4. \/ log'[j] = log[j] /\ ("db" \in trouble'[j] \/ sender = NoProject)
        \/ log'[j] = [log[j] EXCEPT ![status] = @ + 1]
    BY <1>1, <2>1 DEF LogRow, Trouble
  <2>5. /\ log'[j].sent \in {log[j].sent, log[j].sent + 1}
        /\ log'[j].failed \in {log[j].failed, log[j].failed + 1}
        /\ log'[j].sent = log[j].sent \/ status = "sent"
        /\ \/ "db" \in trouble'[j] \/ sender = NoProject
           \/ status = "sent" /\ log'[j].sent > 0
           \/ status = "failed" /\ log'[j].failed > 0
    <3>1. CASE status = "sent"
      <4>1. CASE log'[j] = [log[j] EXCEPT !.sent = @ + 1]
        BY <1>1, <1>2, <3>1, <4>1
      <4> QED BY <1>2, <2>4, <3>1, <4>1
    <3>2. CASE status = "failed"
      <4>1. CASE log'[j] = [log[j] EXCEPT !.failed = @ + 1]
        BY <1>1, <1>2, <3>2, <4>1
      <4> QED BY <1>2, <2>4, <3>2, <4>1
    <3> QED BY <3>1, <3>2
  <2>6. LogInv(j)' /\ BudgetInv(j)'
    BY <1>2, <1>3, <1>4, <1>5, <1>6, <2>1, <2>2, <2>3, <2>5 DEF LogInv, BudgetInv
  <2>7. CleanInv(j)' /\ AlertInv(j)'
    BY <1>2, <1>3, <1>4, <1>6, <2>1, <2>2, <2>3 DEF CleanInv, AlertInv, Clean
  <2>8. OutcomeInv(j)'
    BY <1>2, <1>4, <1>6, <2>1, <2>2, <2>3, <2>5 DEF OutcomeInv
  <2> QED BY <1>8, <2>6, <2>7, <2>8 DEF JobInvOf
<1>13. CASE SendTelegramAlert(j)
  <2>1. /\ task[j].pc = "alert" /\ inbox' = inbox /\ log' = log /\ trouble' = trouble
        /\ task'[j] = [task[j] EXCEPT !.pc = "raised"]
        /\ alerts'[j] \in {alerts[j], alerts[j] + 1}
    BY <1>1, <1>13 DEF SendTelegramAlert, Goto
  <2>2. task'[j].pc = "raised" /\ Spent(task'[j]) = Spent(task[j])
    BY <1>2, <2>1 DEF TaskRow, Spent
  <2>3. LogInv(j)' /\ BudgetInv(j)' /\ CleanInv(j)' /\ OutcomeInv(j)'
    BY <1>2, <1>3, <1>4, <1>6, <2>1, <2>2 DEF LogInv, BudgetInv, CleanInv, OutcomeInv, Clean
  <2>4. AlertInv(j)'
    BY <1>2, <1>3, <1>4, <1>6, <2>1, <2>2 DEF AlertInv, CleanInv, Clean
  <2> QED BY <1>8, <2>3, <2>4 DEF JobInvOf
<1> QED BY <1>10, <1>11, <1>12, <1>13 DEF Task

\* Every step keeps what holds of every job.
LEMMA JobStep == TypeInv /\ JobInv /\ [Next]_vars => JobInv'
<1> SUFFICES ASSUME TypeInv, JobInv, [Next]_vars, NEW i \in Job PROVE JobInvOf(i)'
  BY DEF JobInv
<1>1. JobInvOf(i) /\ (sender = NoProject => sender' = NoProject)
  BY ProjectGoes DEF JobInv
<1>2. CASE WorkerStop
  BY <1>1, <1>2, ArqKeeps
<1>3. ASSUME NEW j \in Job,
             Enqueue(j) \/ Start(j) \/ Task(j) \/ Record(j) \/ JobTimeout(j) \/ CutOff(j)
      PROVE  JobInvOf(i)'
  <2>1. CASE i = j
    BY <1>1, <1>3, <2>1, ArqKeeps, TaskKeeps
  <2>2. CASE i # j
    BY <1>1, <1>3, <2>2, OthersRest, JobRests
  <2> QED BY <2>1, <2>2
<1>4. CASE \/ DeleteProject
           \/ \E s \in Sender : AssignSender(s) \/ RemoveSender(s)
           \/ \E n \in Expiries : SetExpiry(n)
           \/ UNCHANGED vars
  <2>1. UNCHANGED <<job, tries, task, result, inbox, log, alerts, trouble>>
    BY <1>4 DEF DeleteProject, AssignSender, RemoveSender, SetExpiry, WorkerUnchanged,
                MailUnchanged, vars
  <2> QED BY <1>1, <2>1, JobRests
<1> QED BY <1>2, <1>3, <1>4 DEF Next

-----------------------------------------------------------------------------
(* The safety properties.                                                  *)

\* Over retries, restarts, failing calls and unnoticed deliveries, email_logs
\* claims no email that was not delivered.
THEOREM LogNeverClaimsMore == Spec => []LogTruthful
<1>1. TypeInv /\ JobInv => LogTruthful
  <2> SUFFICES ASSUME TypeInv, JobInv, NEW j \in Job PROVE log[j].sent <= inbox[j]
    BY DEF LogTruthful
  <2>1. LogInv(j) /\ log[j].sent \in Nat /\ inbox[j] \in Nat
    BY JobTypes DEF JobInv, JobInvOf
  <2> QED BY <2>1 DEF LogInv
<1> QED BY <1>1, TypeInit, TypeStep, JobInit, JobStep, PTL DEF Spec

\* A job that met no trouble mails its recipient at most once for each time the
\* worker took it up.
THEOREM OneMailForEachTry == Spec => []OneMailPerTry
<1>1. JobInv => OneMailPerTry
  BY DEF JobInv, JobInvOf, CleanInv, Clean, OneMailPerTry
<1> QED BY <1>1, TypeInit, TypeStep, JobInit, JobStep, PTL DEF Spec

\* Whatever fails, a recipient gets at most max_tries times len(_RETRY_DELAYS)
\* emails for a code (email.py 178-215, apps/worker/main.py:59).
THEOREM ResendsAreBounded == Spec => []ResendBound
<1>1. JobInv => ResendBound
  BY DEF JobInv, JobInvOf, BudgetInv, Full, ResendBound
<1> QED BY <1>1, TypeInit, TypeStep, JobInit, JobStep, PTL DEF Spec

\* As long as the project is there and Supabase answers, every job that came to an
\* end of its own has its outcome in email_logs.
THEOREM OutcomesAreLogged == Spec => []OutcomeLogged
<1>1. JobInv => OutcomeLogged
  BY DEF JobInv, JobInvOf, OutcomeInv, OutcomeLogged
<1> QED BY <1>1, TypeInit, TypeStep, JobInit, JobStep, PTL DEF Spec

\* The alert of permanent failure (email.py 230 and 285) is never raised for a code
\* that was delivered, unless Supabase failed, a delivery went unnoticed or the
\* worker was restarted under the job.
THEOREM AlertsAreTrue == Spec => []AlertTruthful
<1>1. JobInv => AlertTruthful
  BY DEF JobInv, JobInvOf, AlertInv, Clean, AlertTruthful
<1> QED BY <1>1, TypeInit, TypeStep, JobInit, JobStep, PTL DEF Spec

-----------------------------------------------------------------------------
(* The time a job takes.                                                   *)

\* A job that times out without a slow call was cut off while it sent or slept.
LEMMA TimeoutIsCutOff ==
  ASSUME TypeInv, [Next]_vars, NEW j \in Job,
         result'[j] = "timeout", result[j] = "none", "slow" \notin trouble'[j]
  PROVE  CutOff(j)
<1>1. /\ DOMAIN result = Job /\ DOMAIN trouble = Job
      /\ task[j] \in TaskRow
  BY DEF TypeInv, TypeOK, TaskRow
<1>2. result'[j] # result[j]
  OBVIOUS
<1>3. CASE \/ WorkerStop \/ DeleteProject
           \/ \E s \in Sender : AssignSender(s) \/ RemoveSender(s)
           \/ \E n \in Expiries : SetExpiry(n)
           \/ UNCHANGED vars
  BY <1>2, <1>3 DEF WorkerStop, DeleteProject, AssignSender, RemoveSender, SetExpiry,
                    WorkerUnchanged, vars
<1>4. ASSUME NEW i \in Job,
             Enqueue(i) \/ Start(i) \/ Task(i) \/ Record(i) \/ JobTimeout(i) \/ CutOff(i)
      PROVE  CutOff(j)
  <2>1. i = j
    BY <1>2, <1>4, OthersRest
  <2>2. CASE Enqueue(j) \/ Task(j)
    BY <1>2, <2>2 DEF Enqueue, Task, CreateClient, FetchProject, FetchSender, Reject,
                      SmtpSend, LogSuccess, Touch, Backoff, LogFailure, SendTelegramAlert,
                      Goto, ArqUnchanged
  <2>3. CASE Start(j) \/ Record(j)
    BY <1>1, <1>2, <2>3 DEF Start, Record, Finish, Ended
  <2>4. CASE JobTimeout(j)
    BY <1>1, <2>4 DEF JobTimeout, Trouble
  <2> QED BY <1>4, <2>1, <2>2, <2>3, <2>4
<1> QED BY <1>3, <1>4 DEF Next

\* For every choice of timeouts and delays that fit together (SettingsFit: those of
\* email.py:60 and 187 and of apps/worker/main.py:56 do), and for any number of
\* jobs, only stalled SMTP calls cut a job off, and only in its last attempt.
THEOREM StallsCutOffOnly == ASSUME SettingsFit PROVE Spec => OnlyStallsCutOff
<1>1. TypeInv /\ [Next]_vars =>
        [\A j \in Job :
           result'[j] = "timeout" /\ result[j] = "none" /\ "slow" \notin trouble'[j] =>
             /\ task[j].pc = "smtp"
             /\ task[j].attempt = Attempts
             /\ task[j].stalls = Attempts - 1]_vars
  <2> SUFFICES ASSUME TypeInv, [Next]_vars, NEW j \in Job,
                      result'[j] = "timeout", result[j] = "none", "slow" \notin trouble'[j]
               PROVE  /\ task[j].pc = "smtp"
                      /\ task[j].attempt = Attempts
                      /\ task[j].stalls = Attempts - 1
    OBVIOUS
  <2> DEFINE attempt == task[j].attempt
             stalls == task[j].stalls
  <2>1. CutOff(j)
    BY TimeoutIsCutOff
  <2>2. /\ attempt \in 0..Attempts /\ stalls \in 0..Attempts /\ LoopFits(task[j])
        /\ Attempts \in Nat \ {0}
    BY JobTypes DEF TaskRow
  <2>3. CASE task[j].pc = "smtp" /\ ~InTime(j, SmtpTimeout)
    <3>1. stalls < attempt
      BY <2>2, <2>3 DEF LoopFits
    <3>2. ~(stalls * SmtpTimeout + Slept(attempt) + SmtpTimeout < JobSeconds)
      BY <2>3 DEF InTime, Elapsed
    <3>3. attempt \in 1..Attempts /\ stalls \in 0..Attempts-1
      BY <2>2, <3>1
    <3>4. ~(attempt < Attempts \/ stalls < Attempts - 1)
      BY <3>1, <3>2, <3>3 DEF SettingsFit
    <3> QED BY <2>2, <2>3, <3>3, <3>4
  <2>4. CASE task[j].pc = "backoff" /\ ~InTime(j, Delay(attempt))
    <3>1. attempt \in 1..Attempts-1 /\ stalls <= attempt /\ stalls \in 0..Attempts-1
      BY <2>2, <2>4 DEF LoopFits
    <3>2. ~(stalls * SmtpTimeout + Slept(attempt) + Delay(attempt) < JobSeconds)
      BY <2>4 DEF InTime, Elapsed
    <3> QED BY <3>1, <3>2 DEF SettingsFit
  <2> QED BY <2>1, <2>3, <2>4 DEF CutOff
<1> QED BY <1>1, TypeInit, TypeStep, PTL DEF Spec, OnlyStallsCutOff

=============================================================================
