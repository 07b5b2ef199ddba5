---------------------------- MODULE OtpEndpoints ----------------------------
(***************************************************************************)
(* The two endpoints of apps/api/routes/otp.py over the otp_records table. *)
(*                                                                         *)
(* Each request is a coroutine that the event loop interleaves with the    *)
(* others at every await: an action is the code between two awaits         *)
(* together with the database or Redis call that ends it.  A record of the *)
(* table is identified by its position: rows are created in the order of   *)
(* their created_at and are never deleted.                                 *)
(***************************************************************************)
EXTENDS Integers, Sequences, FiniteSets

CONSTANTS Project,      \* projects of validated API keys
          EmailHash,    \* hmac_email of the addresses
          Code,         \* one-time codes; otp_hash stands for the code it hashes
          Req,          \* requests, each served once
          Limits,       \* values of projects.otp_max_attempts
          Unapplied,    \* calls that may raise with no effect
          Lost,         \* calls that may raise after they took effect
          Serialised    \* pairs of operations that do not overlap for a recipient

ASSUME LimitsAssumption == Limits \subseteq Nat \ {0} /\ Limits # {}
ASSUME ReqAssumption == IsFiniteSet(Req)

VARIABLES
  otp_records,       \* the table, oldest row first
  expired,           \* positions of the rows whose expires_at has passed
  queue,             \* positions whose send_email_task was enqueued
  otp_max_attempts,  \* column of the projects table
  pc,                \* where each request stands in its handler
  body,              \* what each request asks
  limit,             \* project["otp_max_attempts"] of the key's snapshot
  rec,               \* position of `record` in the handler, 0 before it is set
  seen,              \* record["attempt_count"] as it was read
  reply,             \* the response that is decided
  covered,           \* history: how many rows the request's own update covered
  wrong              \* history: requests answered that their code is wrong

vars == <<otp_records, expired, queue, otp_max_attempts, pc, body, limit, rec,
          seen, reply, covered, wrong>>

Recipient == Project \X EmailHash

Row == [to : Recipient, otp_hash : Code, attempt_count : Nat,
        is_verified : BOOLEAN, is_invalidated : BOOLEAN]

SendBody   == [op : {"send"}, to : Recipient]
VerifyBody == [op : {"verify"}, to : Recipient, code : Code]

\* Positions in the two handlers; each names the call that comes next.
Step  == {"limits", "invalidate", "insert", "enqueue",
          "fetch", "check", "count", "mark", "sleep"}
Reply == {"NONE", "RATE_LIMIT_EXCEEDED", "INTERNAL_ERROR", "DB_ERROR", "sent",
          "OTP_NOT_FOUND", "OTP_EXPIRED", "OTP_LOCKED", "INVALID_CODE",
          "VERIFIED"}

ASSUME ModeAssumption ==
  /\ Unapplied \cup Lost \subseteq Step
  /\ Serialised \subseteq {{"send"}, {"verify"}, {"send", "verify"}}

Ids == 1..Len(otp_records)

InFlight == {q \in Req : pc[q] \in Step}

\* Requests for one recipient that are not served at the same time.
Apart(q, s) == body[q].to = body[s].to /\ {body[q].op, body[s].op} \in Serialised

\* An awaited call returns, raises with no effect, or raises after the
\* database applied it.
Outcome(call) == {"ok"} \cup {o \in {"unapplied"} : call \in Unapplied}
                        \cup {o \in {"lost"} : call \in Lost}

MayRaise(call) == call \in Unapplied \cup Lost

Applied(o) == o # "unapplied"

-----------------------------------------------------------------------------
(* The rows.                                                               *)

NewRow(to, c) == [to |-> to, otp_hash |-> c, attempt_count |-> 0,
                  is_verified |-> FALSE, is_invalidated |-> FALSE]

Pending(r) == ~r.is_verified /\ ~r.is_invalidated

\* Mutant: the query without its email_hash filter.
PendingFor_AnyAddress(to) == {i \in Ids : Pending(otp_records[i])}
PendingFor(to) == {i \in Ids : otp_records[i].to = to /\ Pending(otp_records[i])}

\* The latest by created_at, limit 1: no position or one.
Latest(S) == {i \in S : \A j \in S : j <= i}

\* Mutants: an update that spares the rows with attempts, and one without its
\* email_hash filter.
SupersededRow_Untried(r, to) ==
  IF r.to = to /\ Pending(r) /\ r.attempt_count = 0
  THEN [r EXCEPT !.is_invalidated = TRUE] ELSE r

SupersededRow_AnyAddress(r, to) ==
  IF Pending(r) THEN [r EXCEPT !.is_invalidated = TRUE] ELSE r

SupersededRow(r, to) ==
  IF r.to = to /\ Pending(r) THEN [r EXCEPT !.is_invalidated = TRUE] ELSE r

\* Mutants: an update payload that sets is_invalidated to FALSE, and no update.
VerifiedRow_Reopens(r) == [r EXCEPT !.is_verified = TRUE, !.is_invalidated = FALSE]
VerifiedRow_Unmarked(r) == r

VerifiedRow(r) == [r EXCEPT !.is_verified = TRUE, !.is_invalidated = TRUE]

\* Mutants: a payload that always holds is_invalidated, a count that is one too
\* high or one too low, and a lock that comes one attempt late.
CountedRow_Reopens(r, n, max) ==
  [r EXCEPT !.attempt_count = n, !.is_invalidated = n >= max]
CountedRow_Twice(r, n, max) ==
  [r EXCEPT !.attempt_count = n + 1, !.is_invalidated = @ \/ n >= max]
CountedRow_Lost(r, n, max) ==
  [r EXCEPT !.attempt_count = n - 1, !.is_invalidated = @ \/ n >= max]
CountedRow_LateLock(r, n, max) ==
  [r EXCEPT !.attempt_count = n, !.is_invalidated = @ \/ n > max]

\* The update payload holds is_invalidated only when the limit is reached.
CountedRow(r, n, max) ==
  [r EXCEPT !.attempt_count = n, !.is_invalidated = @ \/ n >= max]

\* Write the row at position i unless the call had no effect.
Write(o, i, r) ==
  otp_records' = IF Applied(o) THEN [otp_records EXCEPT ![i] = r] ELSE otp_records

-----------------------------------------------------------------------------
Init ==
  /\ otp_records = <<>>
  /\ expired = {}
  /\ queue = {}
  /\ otp_max_attempts \in [Project -> Limits]
  /\ pc = [q \in Req |-> "idle"]
  /\ body \in [Req -> SendBody \cup VerifyBody]
  /\ limit = [q \in Req |-> 0]
  /\ rec = [q \in Req |-> 0]
  /\ seen = [q \in Req |-> 0]
  /\ reply = [q \in Req |-> "NONE"]
  /\ covered = [q \in Req |-> 0]
  /\ wrong = {}

\* The variables a step of request q leaves alone unless it says otherwise.
TableUnchanged == UNCHANGED <<otp_records, expired, queue, otp_max_attempts>>

\* get_api_key hands the handler a copy of the project row.
Arrive(q) ==
  /\ pc[q] = "idle"
  /\ \A s \in InFlight : ~Apart(q, s)
  /\ pc' = [pc EXCEPT ![q] = IF body[q].op = "send" THEN "limits" ELSE "fetch"]
  /\ limit' = [limit EXCEPT ![q] = otp_max_attempts[body[q].to[1]]]
  /\ TableUnchanged
  /\ UNCHANGED <<body, rec, seen, reply, covered, wrong>>

Respond(q, answer) ==
  /\ pc' = [pc EXCEPT ![q] = "done"]
  /\ reply' = [reply EXCEPT ![q] = answer]

\* The response is decided and the handler still has to wait out its 200 ms.
RespondAfterSleep(q, answer) ==
  /\ pc' = [pc EXCEPT ![q] = "sleep"]
  /\ reply' = [reply EXCEPT ![q] = answer]

\* _enforce_rate_limits: the counters live in RateLimiter; here the outcome is
\* free.  A refusal and a Redis error both leave the handler at once.
RateLimit(q) ==
  /\ pc[q] = "limits"
  /\ \/ /\ pc' = [pc EXCEPT ![q] = "invalidate"]
        /\ UNCHANGED reply
     \/ Respond(q, "RATE_LIMIT_EXCEEDED")
     \/ MayRaise("limits") /\ Respond(q, "INTERNAL_ERROR")
  /\ TableUnchanged
  /\ UNCHANGED <<body, limit, rec, seen, covered, wrong>>

SendInvalidate(q) ==
  /\ pc[q] = "invalidate"
  /\ pc' = [pc EXCEPT ![q] = "insert"]
  /\ \E o \in Outcome("invalidate") :
       IF Applied(o)
       THEN /\ otp_records' = [i \in Ids |-> SupersededRow(otp_records[i], body[q].to)]
            /\ covered' = [covered EXCEPT ![q] = Len(otp_records)]
       ELSE UNCHANGED <<otp_records, covered>>
  /\ UNCHANGED <<expired, queue, otp_max_attempts, body, limit, rec, seen, reply, wrong>>

SendInsert(q) ==
  /\ pc[q] = "insert"
  /\ \E c \in Code, o \in Outcome("insert") :
       /\ otp_records' = IF Applied(o)
                         THEN Append(otp_records, NewRow(body[q].to, c))
                         ELSE otp_records
       /\ rec' = [rec EXCEPT ![q] = IF Applied(o) THEN Len(otp_records) + 1 ELSE 0]
       /\ IF o = "ok"
          THEN pc' = [pc EXCEPT ![q] = "enqueue"] /\ UNCHANGED reply
          ELSE Respond(q, "DB_ERROR")
  /\ UNCHANGED <<expired, queue, otp_max_attempts, body, limit, seen, covered, wrong>>

\* A failure to enqueue is logged and the answer is "sent" all the same.
SendEnqueue(q) ==
  /\ pc[q] = "enqueue"
  /\ \E o \in Outcome("enqueue") : queue' = IF Applied(o) THEN queue \cup {rec[q]} ELSE queue
  /\ RespondAfterSleep(q, "sent")
  /\ UNCHANGED <<otp_records, expired, otp_max_attempts, body, limit, rec, seen,
                 covered, wrong>>

\* Mutant: a verify that finds no row waits for one.
VerifyFetch_Waits(q) ==
  /\ pc[q] = "fetch"
  /\ \E i \in Latest(PendingFor(body[q].to)) :
       /\ rec' = [rec EXCEPT ![q] = i]
       /\ seen' = [seen EXCEPT ![q] = otp_records[i].attempt_count]
  /\ pc' = [pc EXCEPT ![q] = "check"]
  /\ TableUnchanged
  /\ UNCHANGED <<body, limit, reply, covered, wrong>>

VerifyFetch(q) ==
  /\ pc[q] = "fetch"
  /\ \/ /\ MayRaise("fetch")
        /\ Respond(q, "DB_ERROR")
        /\ UNCHANGED <<rec, seen>>
     \/ /\ PendingFor(body[q].to) = {}
        /\ RespondAfterSleep(q, "OTP_NOT_FOUND")
        /\ UNCHANGED <<rec, seen>>
     \/ \E i \in Latest(PendingFor(body[q].to)) :
          /\ rec' = [rec EXCEPT ![q] = i]
          /\ seen' = [seen EXCEPT ![q] = otp_records[i].attempt_count]
          /\ pc' = [pc EXCEPT ![q] = "check"]
          /\ UNCHANGED reply
  /\ TableUnchanged
  /\ UNCHANGED <<body, limit, covered, wrong>>

\* Mutant: the expiry is not looked at.
VerifyCheck_NoExpiry(q) ==
  /\ pc[q] = "check"
  /\ \/ /\ seen[q] >= limit[q]
        /\ RespondAfterSleep(q, "OTP_LOCKED")
     \/ /\ seen[q] < limit[q]
        /\ pc' = [pc EXCEPT ![q] = IF otp_records[rec[q]].otp_hash = body[q].code
                                   THEN "mark" ELSE "count"]
        /\ UNCHANGED reply
  /\ TableUnchanged
  /\ UNCHANGED <<body, limit, rec, seen, covered, wrong>>

\* Everything between the fetch and the next database call: no await but the
\* sleep of the answers decided here.
VerifyCheck(q) ==
  /\ pc[q] = "check"
  /\ \/ /\ rec[q] \in expired
        /\ RespondAfterSleep(q, "OTP_EXPIRED")
     \/ /\ rec[q] \notin expired
        /\ seen[q] >= limit[q]
        /\ RespondAfterSleep(q, "OTP_LOCKED")
     \/ /\ rec[q] \notin expired
        /\ seen[q] < limit[q]
        /\ pc' = [pc EXCEPT ![q] = IF otp_records[rec[q]].otp_hash = body[q].code
                                   THEN "mark" ELSE "count"]
        /\ UNCHANGED reply
  /\ TableUnchanged
  /\ UNCHANGED <<body, limit, rec, seen, covered, wrong>>

\* A wrong code: the count that was read, plus one, is written back by id.
VerifyCount(q) ==
  LET n == seen[q] + 1
  IN  /\ pc[q] = "count"
      /\ \E o \in Outcome("count") :
           Write(o, rec[q], CountedRow(otp_records[rec[q]], n, limit[q]))
      /\ RespondAfterSleep(q, IF n >= limit[q] THEN "OTP_LOCKED" ELSE "INVALID_CODE")
      /\ wrong' = wrong \cup {q}
      /\ UNCHANGED <<expired, queue, otp_max_attempts, body, limit, rec, seen, covered>>

\* The right code: the row is marked by id, whatever became of it since the
\* fetch, and the token is issued even when the update raises.
VerifyMark(q) ==
  /\ pc[q] = "mark"
  /\ \E o \in Outcome("mark") : Write(o, rec[q], VerifiedRow(otp_records[rec[q]]))
  /\ RespondAfterSleep(q, "VERIFIED")
  /\ UNCHANGED <<expired, queue, otp_max_attempts, body, limit, rec, seen, covered, wrong>>

AntiEnumSleep(q) ==
  /\ pc[q] = "sleep"
  /\ pc' = [pc EXCEPT ![q] = "done"]
  /\ TableUnchanged
  /\ UNCHANGED <<body, limit, rec, seen, reply, covered, wrong>>

\* The API process stops: what it was serving is never answered, and the
\* table, the queue and the counters stay as they are.
ApiCrash ==
  /\ InFlight # {}
  /\ pc' = [q \in Req |-> IF q \in InFlight THEN "aborted" ELSE pc[q]]
  /\ TableUnchanged
  /\ UNCHANGED <<body, limit, rec, seen, reply, covered, wrong>>

\* Mutant: the value stored is one less than the one that was checked.
SetOtp_OffByOne(p, n) ==
  /\ otp_max_attempts' = [otp_max_attempts EXCEPT ![p] = n - 1]
  /\ UNCHANGED <<otp_records, expired, queue, pc, body, limit, rec, seen, reply,
                 covered, wrong>>

\* The bot's /setotp writes the project's limit.
SetOtp(p, n) ==
  /\ otp_max_attempts' = [otp_max_attempts EXCEPT ![p] = n]
  /\ UNCHANGED <<otp_records, expired, queue, pc, body, limit, rec, seen, reply,
                 covered, wrong>>

\* expires_at of the row passes.
Expire(i) ==
  /\ expired' = expired \cup {i}
  /\ UNCHANGED <<otp_records, queue, otp_max_attempts, pc, body, limit, rec, seen,
                 reply, covered, wrong>>

\* One step of the handler that serves q.
Handle(q) ==
  \/ RateLimit(q)   \/ SendInvalidate(q) \/ SendInsert(q) \/ SendEnqueue(q)
  \/ VerifyFetch(q) \/ VerifyCheck(q)    \/ VerifyCount(q) \/ VerifyMark(q)
  \/ AntiEnumSleep(q)

Next ==
  \/ \E q \in Req : Arrive(q) \/ Handle(q)
  \/ ApiCrash
  \/ \E p \in Project, n \in Limits : SetOtp(p, n)
  \/ \E i \in Ids : Expire(i)

Spec == Init /\ [][Next]_vars

\* A coroutine that can run is run, and an awaited call ends.
FairSpec == Spec /\ \A q \in Req : WF_vars(Handle(q))

-----------------------------------------------------------------------------
(* Properties.                                                             *)

\* Types of the table and of what the handlers keep; a handler past its fetch
\* or its insert holds the position of an existing row.
TypeOK ==
  /\ otp_records \in Seq(Row)
  /\ expired \subseteq Ids
  /\ queue \subseteq Ids
  /\ otp_max_attempts \in [Project -> Limits]
  /\ pc \in [Req -> Step \cup {"idle", "done", "aborted"}]
  /\ body \in [Req -> SendBody \cup VerifyBody]
  /\ limit \in [Req -> Limits \cup {0}]
  /\ rec \in [Req -> Ids \cup {0}]
  /\ seen \in [Req -> Nat]
  /\ reply \in [Req -> Reply]
  /\ covered \in [Req -> Nat]
  /\ wrong \subseteq Req

\* A row is never lost, never changes recipient or code, and never takes back
\* is_verified or is_invalidated, although two handlers write the same row by
\* id from snapshots that are out of date (otp.py 386-391 and 415-420).
RowsOnlyAge ==
  [][\A i \in Ids :
       /\ i \in DOMAIN otp_records'
       /\ LET old == otp_records[i]
              new == otp_records'[i]
          IN  /\ new.to = old.to /\ new.otp_hash = old.otp_hash
              /\ old.is_verified => new.is_verified
              /\ old.is_invalidated => new.is_invalidated]_vars

\* A request only ever changes rows of the project and address it is for, although
\* the updates after the fetch name the row by its id alone (otp.py 213-221,
\* 386-391, 415-420).
OnlyOwnRows ==
  [][\A i \in Ids : otp_records'[i] # otp_records[i] =>
       \E q \in Req : pc'[q] # pc[q] /\ body[q].to = otp_records[i].to]_vars

\* A token is only issued to who quoted the code of a row of the same project
\* and address, whatever else was sent or verified in the meantime.
TokenSound ==
  \A q \in Req : reply[q] = "VERIFIED" =>
    /\ rec[q] \in Ids
    /\ otp_records[rec[q]].to = body[q].to
    /\ otp_records[rec[q]].otp_hash = body[q].code

\* A row that a send's own update covered never becomes pending again
\* (SECURITY.md:95), although a verify that fetched it before may still write it.
SupersededNeverPending ==
  \A q \in Req : \A i \in Ids :
    i <= covered[q] /\ otp_records[i].to = body[q].to => ~Pending(otp_records[i])

\* The requests that were told their code is wrong for row i.
WrongOn(i) == {q \in wrong : rec[q] = i}

\* Nobody is locked out early: who is answered OTP_LOCKED is locked by at least
\* as many wrong codes as the limit the handler works with, although counts are
\* written from snapshots and writes fail (otp.py 364, 378-396).
LockJustified ==
  \A q \in Req : reply[q] = "OTP_LOCKED" =>
    limit[q] <= Cardinality(WrongOn(rec[q]))

\* SECURITY.md:93: once a row has expired with no verify past its expiry check,
\* it is never redeemed.
ExpiredNeverRedeemed ==
  \A i \in 1..Cardinality(Req) :
    LET Redeemed == i \in Ids /\ otp_records[i].is_verified
    IN  []( /\ i \in expired
            /\ ~Redeemed
            /\ \A q \in Req : ~(pc[q] = "mark" /\ rec[q] = i)
            => []~Redeemed)

\* SECURITY.md:92, otp_max_attempts: a code is compared with at most as many
\* wrong ones as the largest limit the project had.
AttemptLimit ==
  \A i \in Ids : \E m \in Limits : Cardinality(WrongOn(i)) <= m

\* SECURITY.md:94: no row yields two tokens.
OneRedemption ==
  \A q, s \in Req :
    reply[q] = "VERIFIED" /\ reply[s] = "VERIFIED" /\ rec[q] = rec[s] => q = s

\* SECURITY.md:95: at most one pending row for a project and address.
OnePending ==
  \A i, j \in Ids :
    /\ otp_records[i].to = otp_records[j].to
    /\ Pending(otp_records[i]) /\ Pending(otp_records[j])
    => i = j

\* Every request that is taken is answered or dies with its process, whichever
\* calls fail and whatever /setotp and the other requests do meanwhile.
Answered ==
  \A q \in Req : pc[q] \in Step ~> pc[q] \in {"done", "aborted"}

-----------------------------------------------------------------------------
(* What the endpoints promise when requests of a recipient do not overlap. *)

Status(r) == IF r.is_verified THEN "redeemed"
             ELSE IF r.is_invalidated THEN "closed" ELSE "open"

\* The requests that were given a token for row i.
VerifiedOn(i) == {q \in Req : reply[q] = "VERIFIED" /\ rec[q] = i}

Otps == [i \in Ids |-> [to     |-> otp_records[i].to,
                        status |-> Status(otp_records[i]),
                        missed |-> WrongOn(i),
                        passed |-> VerifiedOn(i)]]

Lifecycle == INSTANCE OtpLifecycle WITH otps <- Otps

\* Without overlap for a recipient and without lost updates, the handlers implement
\* the life cycle of a one-time code (SECURITY.md:90-95).
ImplementsLifecycle == Lifecycle!Spec

=============================================================================
