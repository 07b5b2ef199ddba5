# MailGuard in TLA+

MailGuard is a self-hosted service that sends one-time codes by email and
verifies them. Three processes share a Postgres database (Supabase) and a Redis:
the HTTP API, an ARQ worker that delivers the emails, and a Telegram bot for the
administrator. This directory holds models of the parts that keep state, the TLC
runs that check them, and the proofs that the safety properties hold for every size of the system.
Paths are relative to the root of the repository.

1. [The system](#the-system)
2. [The modules](#the-modules)
3. [The runs](#the-runs)
4. [Fairness](#fairness)
5. [The proofs](#the-proofs)
6. [Where code and documents disagree](#where-code-and-documents-disagree)
7. [What is not modelled](#what-is-not-modelled)
8. [The plan](#the-plan)
9. [Running it](#running-it)

## The system

```
   caller ── HTTP ──> API ── rate limits, job queue ──> Redis ── ARQ ──> worker ── SMTP ──> inbox
                       │                                                   │ │
                       └──────────> Supabase <─────────────────────────────┘ └─ alert ─┐
   admin ── Telegram ──> bot ───────────^                                   admin <────┘
```

| component | state | operations | what is hard |
|---|---|---|---|
| OTP endpoints, `apps/api/routes/otp.py` | `otp_records`; the local variables of each handler | `send_otp`, `verify_otp_endpoint` | handlers interleave at every await; rows are written by id from snapshots; most failing calls are logged and ignored |
| Rate limiter, `core/rate_limit.py` | a sorted set with a TTL for each bucket | `check_rate_limit`, tier by tier | the pipeline is no transaction; refused requests are added and then removed |
| Email worker, `apps/worker/` | the ARQ job, `email_logs` | `send_email_task` | retries inside retries, delays and timeouts that must fit into `job_timeout`, restarts, errors after the effect |
| Way of a code, API to worker | the queue, the project row both read | `send_otp`, then `send_email_task` | two processes and `/setotp` act on copies of different age; an answer `sent` before anything is sent |
| API keys, `apps/api/middleware/api_key.py` | `api_keys`, `projects`, background updates | `get_api_key` | a key is revoked between two queries; an update outlives its request |
| Key commands, `apps/bot/commands/keys.py` | `api_keys` | `/genkey`, `/revokekey` (`/keys`, `/testkey` only read) | a key is named by a prefix that is not unique |
| Bot wizards, `apps/bot/wizards/` | conversation states, one `user_data`, `sender_emails`, `projects` | `/addemail`, `/newproject`, `/cancel` | two conversations share their answers; handlers raise half way; restarts |
| Sender and project commands, `apps/bot/commands/` | `sender_emails`, `projects` | `/testsender`, `/removesender`, `/assignsender`, `/setotp` | they run between the steps of all the others |
| Database client, `core/db.py` | one client for each process | `get_client`, `close_client` | created lazily across an await |
| Helpers, configuration, encryption, logs, health | none | pure functions, queries | boundaries of their inputs |

How they interact. A request passes `get_api_key`, which hands the handler a copy
of the project's row, then, for a send, the tiers of the rate limiter. `send_otp`
invalidates the pending rows of the address, inserts a new one and enqueues a
job; the worker reads project and sender afresh and delivers. `verify_otp_endpoint`
reads the latest pending row and writes it back by id. The bot changes projects,
senders and keys under all of them. Nothing locks anything, and no two calls of
the database are one transaction: whatever is correct is so because of the
filters of the queries and the columns of the updates. That is what the models
are about.

What makes each part correct:

- *OTP endpoints*: a token only for who quoted the code of a row of the same
  project and address; no write to the rows of another recipient;
  superseded rows stay closed; nobody is locked out without as many
  wrong codes as the limit; every request is answered. When the requests for one
  address do not overlap, also: one token for a code, one pending code for an address,
  no more wrong codes than the limit.
- *Rate limiter*: a bucket admits what its limit says when checks do not overlap,
  and exceeds it by a bounded number when they do; refused requests leave
  nothing behind.
- *Worker*: the log and the alert never claim what is not so; a recipient gets a
  bounded number of copies; only a server that stalls makes a job run out of time; each job ends.
- *Way of a code*: no email for a code that the caller was told was not stored; the email states the
  lifetime the code has; whoever was told `sent` gets an email, or the log says why not.
- *Helpers*: every code that is sent can be typed back, no two draws give the same code; a stored
  password is read back or refused, and a process that starts has a key it can work with.
- *Keys*: no entry after a revocation, a revocation is for good, a request acts for
  the project its key was issued for.
- *Wizards*: a handler finds the answers it reads; a project gets the sender that
  was confirmed; a verified sender was tested.

## The modules

| module | what it is |
|---|---|
| `OtpEndpoints` | the two endpoints over `otp_records`, `/setotp`, expiry, crash |
| `OtpLifecycle` | abstract: codes are issued, missed, redeemed, closed |
| `RateLimiter` | `check_rate_limit` over Redis, tier by tier, with a clock |
| `SlidingWindow` | abstract: fewer than `limit` in the window before an admission |
| `EmailWorker` | `send_email_task` under ARQ with its seconds, `get_client`, `/assignsender`, `/removesender`, `/setotp` |
| `OtpService` | `OtpEndpoints` and `EmailWorker` composed over the queue and the project |
| `CodeDelivery` | abstract: a code is stored, queued, mailed a bounded number of times, over |
| `ApiKeys` | `get_api_key`, `/genkey`, `/revokekey` |
| `BotWizards` | both wizards, `/cancel`, `/removesender`, `/testsender` |
| `Helpers` | `generate_otp`, `encrypt`, `decrypt`, the check of `ENCRYPTION_KEY`, `_slugify` |
| `OtpEndpointsProofs`, `OtpSerialProofs` | theorems about `OtpEndpoints`: under any overlap and failure; with the requests of one recipient apart |
| `RateLimiterProofs`, `EmailWorkerProofs`, `ApiKeysProofs`, `BotWizardsProofs`, `HelpersProofs` | theorems about the module of that name |
| `OtpServiceProofs` | theorems about the composition, from those about its parts |
| `MC*` | instances for TLC: model values and symmetry |

Conventions. An action is the code from one await to the next, named for the call
it makes or for the handler. `pc`, `task[j].pc` or `req[r].step` names the call
that comes next. A call to Supabase has up to three outcomes: it works, it raises
without effect, it raises after its effect (`Outcome`, `Call`); constants such as
`Unapplied`, `Lost`, `MayFail` and `DbFails` say which of them raise. Variables commented as *history*
are written and read by properties only, never by a guard. Definitions whose name
has an underscore and a suffix, such as `CountedRow_LateLock`, are mutants: wrong
variants used to see that a property notices the bug they stand for.

**OtpEndpoints.** A row is known by its position, since rows are created in the
order of `created_at` and never deleted by the program. `Arrive` takes the copy of the
project's limit that the handler works with; `RateLimit`, `SendInvalidate`,
`SendInsert`, `SendEnqueue` are the awaits of a send, `VerifyFetch`,
`VerifyCheck`, `VerifyCount`, `VerifyMark` those of a verify, `AntiEnumSleep` the
wait before most answers. A code is a model value and the hash of a code is the
code: `verify_otp` compares them as bcrypt would, collisions aside. The rate
limiter's verdict is free here; its own module says what it can be. `Unapplied` and `Lost` are the
calls that may raise before and after they took effect; `Serialised` names the pairs of
operations that callers do not ask for at the same time for one recipient (`Apart`), for the promises that only hold
then. The code serialises nothing; the constant is a hypothesis about its callers.

**RateLimiter.** The four commands of the pipeline and the ZREM are separate
actions, `Tick` advances the clock and drops the buckets whose TTL is due. A request
that passes a bucket goes on to the next tier. Members are pairs of request and
score, as the UUID in the member makes them unique. `Raise` ends a check at any command, which
may have got through all the same; a command that Redis runs after the client gave up counts as given up later.

`disturbed` is a history: TRUE from the first check that came while another one was under
way, or that raised. The bucket is a sliding window up to there. The window is the code's, open at its start; the
comments of `rate_limit.py` would have it closed ([below](#where-code-and-documents-disagree)).
From there on `BoundedOvershoot` and `NoFalseRefusal` bound the two errors of the race, an admission too many and a refusal
too many, each by one for every other check under way.

**EmailWorker.** ARQ is external: it starts a job while a slot is free, counts the
starts, ends the job when the task returns, raises or is cut off by `job_timeout`,
and puts it back in the queue when the worker goes away (`WorkerStop`). Everything
between the start and the recording of the result is the task of
`apps/worker/tasks/email.py`, await by await. There is no clock: the seconds a task has used are a
function of its attempt and of the attempts that ran into the timeout of `aiosmtplib.send` (`Elapsed`),
as the sleeps and those timeouts are the only waits the code itself sets. `CutOff` is `job_timeout`
coming due by them alone; `JobTimeout`, which `TimesOut` switches on, is the case that Supabase, Telegram or
a slow answer has used up the time. `trouble` is a history of what went wrong around a job, so that a
property can say under which circumstances it holds in one run with all the faults.
`CreateClient` is the await inside `get_client`: every task that starts before the first
creation is over makes a client of its own.

**OtpService.** An action of the composition is an action of one part, joined with one of
the other where they touch: `SendEnqueue` of the API is `Enqueue` of the worker, and `/setotp`
writes the limit that the API reads and the expiry that both read. The job of a code is named by the position
of its row. A verify changes nothing the worker reads, and its steps are `ApiStep`s. `lifetime` is a
history of the expiry each request was given with its key.

**CodeDelivery.** What a user of the service can rely on: a code goes from `none` to `stored`, or to `refused`
if its caller is told `DB_ERROR`; only a stored one is queued; only a queued one is mailed, at
most `MaxCopies` times, and not once it is over. The refinement maps table, queue, answers and results to
the stage (`Stage`), the inbox to the copies.

**Helpers.** Each behaviour is one call of one function, on every input of the instance. A digit is a
number, a character one of the few kinds its function tells apart, a byte of AES-GCM a
term made of all that it depends on.

**ApiKeys.** A key is the plaintext that `secrets.token_hex` drew; its prefix and
whether it begins with `mg_test_` are constants, so two keys may share a prefix.
A request carries a history flag that says whether its key was already of no use
when it came. That a project is switched off or deleted is done in Supabase from
outside: no code of the repository does it, but `get_api_key` has a branch for it.

**BotWizards.** `add` and `new` are the states of the two conversations,
`user_data` the dictionary they share. A text goes to `/addemail` if that
conversation is under way, because it is registered first
(`apps/bot/main.py:121`). `AddAnswer` and `NewAnswer` store the answer and
move on unless the reply raises. Updates are handled one at a time, as
python-telegram-bot does by default.

## The runs

Every property of a passing run has a mutant of the code that breaks it.

| run | instance | shows |
|---|---|---|
| `otp_faults` | 3 overlapping requests, 1 address, limits 1 and 2, all faults | types, `SupersededNeverPending`, `LockJustified`, `RowsOnlyAge` |
| `otp_live` | 2 overlapping requests, 2 addresses, limits 1 and 2, all faults, fairness | `TokenSound`, `OnlyOwnRows`, `Answered`, `ExpiredNeverRedeemed` |
| `otp_serial` | 4 requests for 1 address that do not overlap, limit 2, failing inserts, answers lost after every write | `AttemptLimit`, `OneRedemption`, `OnePending`, refinement of `OtpLifecycle` |
| `rl_windows` | 3 requests, up to 2 at a time, 2 tiers, Redis calls may raise | types, `BoundedOvershoot`, `QuietBucketsExact`, `NoFalseRefusal`, refinement of `SlidingWindow` |
| `mail_faults` | 1 job with 3 tries of 3 attempts and the seconds of the code, all faults, fairness | types, `LogTruthful`, `OneMailPerTry`, `ResendBound`, `OutcomeLogged`, `AlertTruthful`, `OnlyStallsCutOff`, `Completes` |
| `service` | 2 overlapping requests (sends and verifies) of 1 address, 1 slot, expiries 30 and 60, API faults, restarts of both processes, fairness | `MailSaysLifetime`, `Settled`, refinement of `CodeDelivery` |
| `key_faults` | 3 keys of which 2 share a prefix, 2 projects, 2 requests, all faults | types, `NoEntryAfterRetired`, `AdmittedAsIssued`, `LastUsedTruthful`, `RevokedForGood` |
| `wizard_faults` | 2 senders, 2 projects, failing calls and replies | types, `IntactIsComplete`, `VerifiedMeansTested`, `NoOtherSender` |
| `helpers` | all codes in base 3, names of up to 9 characters, 2 keys, stored texts that lost their end, had a byte changed or are not hex | `CodesTypeBack`, `SuggestionFits`, `PasswordOrError` |

Three more runs, `otp_double_token`, `mail_stalled` and `key_unrevocable`, end in a
violation on purpose; see [below](#where-code-and-documents-disagree).

What holds only without overlap or without faults is told apart by constants (`Serialised`, `Unapplied`,
`Lost`, `Overlap`, `MayFail`, `DbFails`, `AckLost`, `TimesOut`) or, where one run should do for both, by a history variable in
the premise (`disturbed`, `trouble`). A call to Redis that raises disturbs a bucket for a while only, and
`BoundedOvershoot` and `QuietBucketsExact` say for how long: a check that fails between ZADD and
EXPIRE leaves a member behind and the TTL of the bucket as it was, and the bucket
may then expire between the ZADD and the EXPIRE of a later check that found nothing else in it, which loses
that check's member. A third check that overlaps with this one can lose its member in the same way, a lag after the
window of the failed one, so the bound is a window and a lag (`FailedWithin`); TLC finds the losses when that clause is left out,
and the third check (with four requests, and lag and grace of two seconds) when the lag is.

Bounds, and why they are enough. Every row is written by at most the handlers that
hold it, and every bad case met is between two handlers and, for the row they
contend for, a third that creates, closes or replaces it: three overlapping
requests. Two addresses matter where rows must be told apart, and two requests
suffice for that. Without overlap, four requests make the longest life of interest:
send, wrong code, wrong code, right code with a limit of two, or two sends and
two verifies. `Limits` has two values where requests overlap, so that `/setotp` can raise and
lower the limit under a handler. In `RateLimiter` the clock stops at `MaxTime`, at or after the
moment at which a bucket used at second 0 expires, so that buckets do expire and windows
slide, and windows are in reach that are two of their lengths younger than a failure; the three requests reach the bound of
`NoFalseRefusal` under overlap through a member counted before its check is decided, while refused checks that count each other take a fourth and are left to the proof; a check takes at most `MaxLag` seconds (the Redis client's own
timeout is 5 s, `apps/api/main.py:65`), and the bound on the overshoot is stated
with it. `EmailWorker` has the code's own numbers: three tries, delays of 5, 15 and 45 seconds, timeouts of 15 and
60; jobs share nothing but slots and client, so one job shows what there is to see of a job. `OtpService` has two
jobs for one slot (the code has twenty), so that they do wait for each other; there a job has one try and one
attempt, and `JobSeconds` is 15, so that an attempt that stalls is cut off as the last of three is in the code;
the loops over tries and attempts are those of `mail_faults`. `ExpiryMatters` lets codes expire only where a request
verifies: nothing else asks whether one has, so without it the run would see every behaviour of two sends many times over. The project of `OtpService` keeps an active sender and
Supabase answers the worker, as the ways a job fails for want of either are in `mail_faults`, too. Its expiries are one
below and one at a minute, between which the division by 60 tells. `Helpers` cuts slugs at 5 characters instead of 60,
so that names longer than the cut occur, and counts in base 3, so that all codes of lengths 4, 6 and 8 are few. `ApiKeys` has two keys with one prefix and
one with another. Deadlock is checked in all runs but `rl_windows`, where
the bounded clock stops the system, and `helpers`, where a behaviour is one call; the others can always take a step of the bot
or of the environment, so there the check says little.

## Fairness

`FairSpec` of `OtpEndpoints` asks weak fairness of `Handle(q)` for every request, that of
`EmailWorker` weak fairness of `Progress(j)` (a step of the task, its cut-off or the recording of its result) and
`Start(j)` for every job, that of `OtpService` weak fairness of `Worker`, all of these together: the worker does not rest while there
is something to do, whichever job it does it for. Nothing else is asked. A coroutine that
can run is run by the event loop; an awaited call returns or raises, as the HTTP
client, Redis and SMTP have timeouts; the worker polls its queue. Weak fairness is enough
as nothing but a crash disables a step that is due. No fairness is asked of requests that
arrive, of failures, restarts, timeouts, the clock or the administrator. `Completes` and `Settled` hold without a bound
on restarts, since each start is counted and the tries run out; `Settled` does not ask for the API's handlers to
go on, since it is about what was answered. It is stated as "time and again nothing is owed": jobs are finitely many in
an instance, so that in the end nothing is owed to anybody.

## The proofs

Eight modules state what holds for every set of requests, keys, senders and jobs, and for every number,
delay and limit that the assumptions allow. The runs check the same properties on small instances, and
checked each inductive invariant before it was proved.

| module | theorem | states |
|---|---|---|
| `OtpEndpointsProofs` | `TypeCorrect` | `Spec => []TypeOK` |
| | `TableOnlyAges` | `Spec => RowsOnlyAge` |
| | `SupersededStaysClosed` | `Spec => []SupersededNeverPending` |
| | `TokensAreSound` | `Spec => []TokenSound` |
| | `WritesStayHome` | `Spec => OnlyOwnRows` |
| | `LocksAreJustified` | `Spec => []LockJustified` |
| | `ExpiredStaysUnredeemed` | `Spec => ExpiredNeverRedeemed` |
| `OtpSerialProofs` | `OneCodeAtATime` | `Spec => []OnePending` if the sends of a recipient are apart and no `invalidate` is `Unapplied` |
| | `RedeemedOnce` | `Spec => []OneRedemption` if its verifies are apart and no `mark` is `Unapplied` |
| | `AttemptsAreLimited` | `Spec => []AttemptLimit` if its verifies are apart and no `count` is `Unapplied` |
| | `EndpointsImplementLifecycle` | `Spec => ImplementsLifecycle` if all its requests are apart and none of the three is `Unapplied` |
| `EmailWorkerProofs` | `WorkerTypeCorrect` | `Spec => []TypeOK` |
| | `LogNeverClaimsMore` | `Spec => []LogTruthful` |
| | `OneMailForEachTry` | `Spec => []OneMailPerTry` |
| | `ResendsAreBounded` | `Spec => []ResendBound` |
| | `OutcomesAreLogged` | `Spec => []OutcomeLogged` |
| | `AlertsAreTrue` | `Spec => []AlertTruthful` |
| | `StallsCutOffOnly` | `Spec => OnlyStallsCutOff` if `SettingsFit` |
| `RateLimiterProofs` | `LimiterTypeCorrect` | `Spec => []TypeOK` |
| | `QuietBucketsAreExact` | `Spec => []QuietBucketsExact` if `LagFits` |
| | `RefusalsAreDue` | `Spec => []NoFalseRefusal` if `LagFits`, for checks apart and overlapping |
| | `OvershootIsBounded` | `Spec => []BoundedOvershoot` if `LagFits` |
| | `LimiterImplementsSlidingWindow` | `Spec => ImplementsSlidingWindow` if `LagFits` |
| `ApiKeysProofs` | `KeysTypeCorrect` | `Spec => []TypeOK` |
| | `RevokedStaysRevoked` | `Spec => RevokedForGood` |
| | `RetiredKeysStayOut` | `Spec => []NoEntryAfterRetired` |
| | `AdmissionAsIssued` | `Spec => []AdmittedAsIssued` |
| | `LastUseIsTrue` | `Spec => []LastUsedTruthful` |
| `BotWizardsProofs` | `WizardTypeCorrect` | `Spec => []TypeOK` |
| | `IntactMeansComplete` | `Spec => []IntactIsComplete` |
| | `MarksAreEarned` | `Spec => []VerifiedMeansTested` |
| | `SendersAreConfirmed` | `Spec => []NoOtherSender` |
| `OtpServiceProofs` | `ServiceRunsItsParts` | `Spec => ApiP!Spec /\ MailP!Spec`: what is proved of the parts holds of the service |
| | `MailStatesLifetime` | `Spec => []MailSaysLifetime` |
| | `ServiceImplementsDelivery` | `Spec => ImplementsDelivery` |
| `HelpersProofs` | `CodesReadBack` | `Spec => []CodesTypeBack` |
| | `SuggestionsFit` | `Spec => []SuggestionFits` |
| | `PasswordsReadBack` | `Spec => []PasswordOrError` |

**OTP endpoints.** `TypeOK` is not inductive: it lets a handler past its fetch hold no
row, and the write by id would then be nowhere. `TypeInv` adds `HoldsRow`. On it
rests the lemma the rest is built on: whatever its snapshot, each of the three
writes only lets a row *age* (`SupersededAges`, `VerifiedAges`, `CountedAges`,
gathered for a step of anybody in `StepAges`). A row that ages does not become
pending again, so `SupersededNeverPending` follows once it is known that what a
send covered was in the table (`CoveredInv`). `TokenSound` needs what each handler
knows of the row it holds (`HandlerInv`): the row is of the recipient the request
is for, and at `mark` its code is the one quoted; rows keep recipient and code while
they age. `LockJustified` compares three counters, each of which may be stale: the column is at most the number
of requests that were told their code is wrong (`RowCountInv`), and so is the
count a handler read, and one more once the handler's own answer is decided (`LockInv`);
the wrong answers for a row only gather (`WrongOnGrows`). A write from a snapshot can
set the counter back, which is how overlapping attempts exceed the limit, but never ahead.
A code that expired untouched is lost: it is expired, not redeemed, and no handler is past the check with it,
which no step changes (`GoneForGood`).

**Requests of one recipient.** What SECURITY.md promises of attempts, redemption and pending codes is false under overlap
(`otp_double_token`) and when updates are lost, so the theorems of `OtpSerialProofs` have hypotheses, each the two that
its promise needs and no more: which requests of *one* recipient do not overlap, and which *one* update always takes
effect. Everything else stays free: other recipients, the other pairs of operations, crashes, `/setotp`, expiry, calls that
raise, and the named update raising after it took effect. Each hypothesis is needed: TLC finds a violation with three requests
when it is dropped (for the refinement, also when a send may overlap a verify). `ApartInv` says who can be under way together.
`PendingInv` is about the gap between the update of a send and its insert, `RedeemInv` about the one between
the fetch of a verify and its mark, `CountInv` about the one between fetch and count; in it the counter of a row is the number of
wrong codes answered for it, not only a bound (`CountExact`). Who can write a row at all (`Writers`), where new
rows come from (`NewRows`) and how a handler comes to hold a row (`Moves`) are the lemmas that all three rest on.
A crash ends the handlers and keeps the table, and none of the invariants minds. The
refinement needs all three and `SnapInv`, that what a verify holds is still pending. It maps rows to codes by `Otps`;
every step is one of `OtpLifecycle`'s or leaves `Otps` as it is, as an insert that failed does.

**Email worker.** The invariant of a job (`JobInv`) accounts for its emails try by try: a task has its earlier
tries, each of as many attempts as there are delays, and the attempts it has used up (`Spent`) to spend
(`BudgetInv`); without trouble an attempt that delivers is the last of its try (`CleanInv`); an email is
in the inbox before it is in the log (`LogInv`), and a row is in the log before the task ends
(`OutcomeInv`). Where a task stands in its loop (`LoopFits`) makes attempts and stalls fit together. The number of
clients is bounded as each is made by a task that runs and saw none (`WorkerInv`). `OnlyStallsCutOff` is a fact
about the numbers 15, 5, 45 and 60: its hypothesis `SettingsFit` says what they have in common,
and `MCEmailWorker` has TLC evaluate that on the code's own. The sum of the delays stays unexpanded in the proofs.

**Rate limiter.** A bucket is known only between its members, its TTL and the checks under way (`BucketInv`): each
member was admitted or belongs to a check that has yet to decide or that failed (`OriginInv`); what was admitted, or is
about to be, is there until its window has passed (`KeptInv`, `EnteredInv`); and the TTL outlives the members,
but for those whose EXPIRE is to come or never comes (`SettledInv`), while one of the checks that have evicted read the clock long
before the TTL ends, or came within a window of a failed one (`AheadInv`). So no bucket expires under its users, but for
those that a failed check lured in; and when a check fails on which others relied, it becomes their excuse itself, as none
of them is a window ahead of it. This is where the grace that
`rate_limit.py:80` adds to the window is needed: with checks that may take longer than it, TLC finds
behaviours that break `QuietBucketsExact` and the refinement. `LagFits`, which excludes them and checks that take a whole window, is the hypothesis of all
but the first theorem; the timeouts of the Redis client are its justification, and `MCRateLimiter` has TLC evaluate it.
`SoloInv` follows a check that runs alone, whose count is the number admitted in its window; `OvershootInv` counts
admitted members and the checks that have passed the comparison together, in a window shorter by `MaxLag`. A refusal
under overlap goes the other way round: after its eviction a check finds no member older than its window (`FreshInv`), and each member it counts was
admitted near it, belongs to another check under way, or was left by a call that raised (`CountsInv`).

**API keys.** `TypeInv` adds to the types that issued keys name projects (`NamesRow`). `AdmitInv` says what
a request has established at each await: between its two queries its key was active after it came,
so that, if the key was of no use at its arrival, the project is switched off for good, and the second query
finds it so.

**Bot wizards.** The proofs found what the module took for granted: `MissingAssumption` now says that the mark for an
answer never given is none of the values that an answer can have. `IntactIsComplete` is inductive with the types:
each state needs what the one before it needed and the one answer it adds. `MarkInv` ties the sender to be marked to the
one tested, `SummaryInv` the sender of `user_data` to the one shown.

**The service.** `ServiceRunsItsParts` is the step that makes the theorems about the parts useful: every step of the
composition is one of the handlers' or leaves what is theirs alone (`ApiPart`), and one of the worker's, as long as what is
enqueued is a job that the worker knows (`MailPart`). That it is rests on `RowsFit`: there are no more rows than
requests, by a surjection from sends to rows (`RecInv`, which also says that a verify that got hold of a row
is not answered `DB_ERROR`, so that it refuses nobody's code). `ServiceInv` ties the two parts together: the queue of the API
is what ARQ knows of, only of codes answered `sent` (`QueueInv`); a job has a result when it is over (`ResultInv`); and
while nobody changed the lifetime a request was given, its job has read and mailed no other (`SaidInv`). The
refinement of `CodeDelivery` goes by `Stage`: the insert stores or refuses, the enqueue is of a code that was
stored and that nobody was told had failed, the worker mails and ends only what is queued (`WorkerMoves`),
and everything else moves no code.

**Helpers.** Numbers, names and passwords are data of any length, and what is proved of them needs induction; the
library's theorems of induction take the formula as a parameter and are out of reach. It goes by least elements instead: a
set of numbers that is not empty has one (`LeastNumber`, from strict inclusion of finite sets being well-founded), and a least
counterexample contradicts itself. So the recursive functions are shown to exist (`Reads`, `Builds`), the digits of a draw are shown to add up to it again
(`DigitsAdd`), and a code to survive the blanks around it (`StrippedCode`), which gives `CodesReadBack`. For `SuggestionsFit` the
same argument says that a name becomes letters and hyphens (`HyphenatedIs`) and that what is left when both ends are stripped
begins and ends with a letter (`StrippedSlug`), so that a refused suggestion is too short or was cut behind a hyphen.
Only one password fits a stored text (`OriginalFits`): its first byte tells key and IV, its last byte, which
is one of the tag, tells the password and that nothing is missing at the end, and a byte that was changed is none that was
sealed. The rest is that an accepted key has a length that AESGCM takes. The lemmas about sequences speak
of functions on `1..n` (`Spans`).

What is assumed. The assumptions are those that the modules declare, and TLC evaluates them in the runs: limits, windows, tries and
sizes are positive; switches are Booleans; the sets of requests that are counted are finite; tiers are distinct; the values that
stand for "none" are none of the others. Nothing else is, but for the hypotheses in the table. No proof has an unproved step.

What stays with TLC: liveness (`Answered`, `Completes`, `Settled`) and `ENABLED`, which the
prover does not handle. Every other property of a passing run is a theorem. No module declares a recursive operator.

## Where code and documents disagree

Three runs check one sentence of the repository each and find an execution of
the code against it; `PROJECT.json` quotes the lines.

| run | what happens |
|---|---|
| `otp_double_token` | two overlapping verifies with the right code are both given a token (`otp.py:413`; `SECURITY.md:94`) |
| `mail_stalled` | nothing fails but the SMTP server, which never answers: two attempts and their delays take 50 seconds, `job_timeout` cuts the third off, and the job is over on its first try, with no retry, no log row and no alert (`worker/main.py:56`, `:11`) |
| `key_unrevocable` | of two keys with one prefix the first is revoked; a second `/revokekey` may be told that the key is revoked already while the other is active (`keys.py:222`): a bug |

More were met while modelling. The models contain each of them; no run is kept for
it, and the passing properties are stated so that they are true of the code:

- overlapping wrong codes share one attempt, so `otp_max_attempts` can be exceeded
  (`otp.py:378`, `SECURITY.md:92`): `AttemptLimit` holds when verifies of one recipient are apart;
- overlapping sends, or a send whose invalidation fails, leave two pending rows
  (`otp.py:213`, `SECURITY.md:95`): `OnePending` holds when its sends are apart and the update works;
- a failed enqueue is answered `sent` (`otp.py:273`, `:79`);
- a member exactly one window old is evicted and no longer counts (`rate_limit.py:71` removes the scores up to and including
  the start of the window), where `rate_limit.py:12` removes those `< (now - window_seconds)` and the comment at `:70` those
  "below the window start", so that it would stay and count. A bucket may so admit a request that the documents have it refuse.
  `Evicted` does what the code does, and `NoFalseRefusal` and `SlidingWindow` speak of the window that is open at its start:
  a refusal as the documents have it would break the first, and the second promises less than they do;
- a refused send and a failed call are answered before 200 ms (`otp.py:203`, `:192`);
- a task that raised is over and not run again (`email.py:85`): `Record` ends it;
- the email is delivered, the update of `last_used_at` fails, the later attempts fail, and the administrator is told that
  delivery failed permanently (`email.py:197`, `:287`): `AlertTruthful` holds while Supabase answers;
- `/newproject` takes expiries from 30 seconds (`new_project.py:239`), `/setotp` from 60 (`project.py:187`), and
  the email of a code that lives 30 to 59 seconds says it expires in 0 minutes (`email.py:134`): `MailSaysLifetime` is
  about whole minutes;
- the wizard refuses its own suggestion when a name leaves fewer than three characters or is cut
  behind a hyphen (`new_project.py:52`, `:44`): `SuggestionFits` says that these are the only cases;
- first jobs that overlap create several clients (`db.py:32`), where `db.py:28` has "only one client exists per
  process": `CreateClient` of `EmailWorker`, whose `TypeOK` bounds them by `max_jobs`;
- a revoked key is answered `REVOKED_API_KEY`; `README.md:162` has `INVALID_API_KEY`;
- a project may be created with a sender that was removed since it was picked
  (`new_project.py:284`, `:10`), or with none when the lookup fails (`:294`): `NoOtherSender`;
- with both wizards under way `/cancel` ends `/addemail`, whichever was started last, and
  clears the answers of both (`bot/main.py:121`, `:30`): `IntactIsComplete` is about the others;
- wizards do not survive a restart, and the table meant for them is unused
  (`add_email.py:329`, `006_create_bot_sessions.sql:14`).

## What is not modelled

- `hash_otp`, `verify_otp`, `hmac_email`: calls of bcrypt and HMAC. A hash is the code and an address a
  model value in `OtpEndpoints`.
- `mask_email`, and the validators of `core/config.py` that compare a length or a prefix: one condition each.
- The parsing of the environment.
- `close_client`, and `apps/api/main.py` around it: a linear start and stop of the API, of which the models keep that
  the process ends (`ApiCrash`). Only the API closes its client, when it shuts down.
- Time in the bot, and that handlers of one chat could be run concurrently: python-telegram-bot runs them one at a time
  as the repository sets it up.
- `/senders`, `/projects`, `/keys`, `/testkey`, `/logs`, `/start`, `/help`, `health.py`:
  they read and answer.
- `check_admin`: a comparison without state at the start of every command.
- Headers, CORS, templates, message texts, deployment files.
- `projects.rate_limit_per_hour`: a column that nothing enforces.

## The plan

In this order:

1. *done*: `OtpEndpoints` with its lifecycle and proofs, `RateLimiter`, `EmailWorker`, `ApiKeys`, `BotWizards`.
2. *done*: `OtpService` and `CodeDelivery`, the composition of endpoints, queue and worker.
3. *done*: `get_client` in the worker; the seconds of the task; `Helpers`.
4. *done*: proofs of the safety properties of every module and of the three refinements, and that the
   composition runs its parts.
5. *done*: what the helpers compute, for inputs of every length; which overlaps and lost updates of one recipient
   the promises of SECURITY.md survive; that verifies, overlapping or not, disturb nothing on a code's way to the inbox;
   for how long a Redis call that raised can be felt in a bucket.
6. *open*: `RateLimiter` behind the step `RateLimit` of `OtpEndpoints`. There any send may be refused or fail, which covers
   what the limiter does, so the promises proved of the service hold with it; what would be gained are statements
   about how many codes an address gets in an hour.

## Running it

```
tlc -workers 2 -config otp_faults.cfg MCOtpEndpoints.tla
tlapm OtpEndpointsProofs.tla
```

and in the same way for the other modules of proofs.

Each `.cfg` belongs to the `MC` module of its prefix: `otp` to `MCOtpEndpoints`, `rl` to
`MCRateLimiter`, `mail` to `MCEmailWorker`, `key` to `MCApiKeys`, `wizard` to `MCBotWizards`,
`service` to `MCOtpService`, `helpers` to `MCHelpers`. The longest
run takes about two minutes, and so do the proofs of a module.
