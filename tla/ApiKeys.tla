------------------------------ MODULE ApiKeys -------------------------------
(***************************************************************************)
(* The API keys: get_api_key of apps/api/middleware/api_key.py, which lets *)
(* a request in, while the bot issues and revokes keys (/genkey and        *)
(* /revokekey of apps/bot/commands/keys.py).                               *)
(*                                                                         *)
(* Requests interleave at every await.  The bot handles one command at a   *)
(* time.  A key stands for the random plaintext secrets.token_hex drew, so *)
(* it is issued once; what its text shows is a constant.                   *)
(***************************************************************************)
EXTENDS FiniteSets

CONSTANTS Key,            \* plaintext keys
          NoKey,          \* a request without a bearer token
          TestKeys,       \* the keys that start with mg_test_
          KeyPrefix,      \* [Key -> the first 12 characters]
          Project,        \* rows of projects
          NoProject,
          Req,            \* requests to the API
          Production,     \* settings.is_production
          DbFails         \* whether Supabase calls may raise

ASSUME KeyAssumption == TestKeys \subseteq Key /\ NoKey \notin Key
ASSUME PrefixAssumption ==
  \A k, l \in Key : KeyPrefix[k] = KeyPrefix[l] => (k \in TestKeys <=> l \in TestKeys)
ASSUME ProjectAssumption == NoProject \notin Project
ASSUME SettingAssumption == {Production, DbFails} \subseteq BOOLEAN

VARIABLES
  projects,      \* [Project -> "active", "inactive" or "gone"]
  api_keys,      \* [Key -> row: status, project, is_sandbox]
  last_used,     \* the keys whose last_used_at is set
  req,           \* [Req -> where it stands, its token, what it was told]
  background,    \* the requests whose _update_last_used is still to run
  bot,           \* the command the bot is in: step and key or project
  told           \* history: the prefix the bot just called revoked already

vars == <<projects, api_keys, last_used, req, background, bot, told>>

ApiUnchanged == UNCHANGED <<req, background>>
BotUnchanged == UNCHANGED <<bot, told>>
RowsUnchanged == UNCHANGED <<projects, api_keys, last_used>>

Prefix == {KeyPrefix[k] : k \in Key}

NoRow == [status |-> "absent", project |-> NoProject, is_sandbox |-> FALSE]

Idle == [step |-> "idle", key |-> NoKey, project |-> NoProject, is_sandbox |-> FALSE]

NewReq == [step |-> "new", token |-> NoKey, project |-> NoProject, reply |-> "none",
           retired |-> FALSE]

Issued(k) == api_keys[k].status # "absent"

Active(k) == api_keys[k].status = "active"

\* A key that was of use once and is not any more.
Retired(k) ==
  /\ Issued(k)
  /\ ~Active(k) \/ projects[api_keys[k].project] # "active"

CanFail == IF DbFails THEN {TRUE, FALSE} ELSE {FALSE}

Init ==
  /\ projects \in [Project -> {"active", "inactive"}]
  /\ api_keys = [k \in Key |-> NoRow]
  /\ last_used = {}
  /\ req = [r \in Req |-> NewReq]
  /\ background = {}
  /\ bot = Idle
  /\ told = "none"

-----------------------------------------------------------------------------
(* get_api_key, one action per await.                                      *)

Refuse(r, code) == req' = [req EXCEPT ![r].step = "done", ![r].reply = code]

\* Mutant: test keys are let through in production.
Arrive_TestKeys(r, token) ==
  /\ req[r].step = "new"
  /\ req' = [req EXCEPT ![r].step = IF token = NoKey THEN "done" ELSE "key",
                        ![r].token = token,
                        ![r].retired = token # NoKey /\ Retired(token)]
  /\ UNCHANGED background
  /\ BotUnchanged
  /\ RowsUnchanged

Arrive(r, token) ==
  LET code == IF token = NoKey THEN "MISSING_API_KEY"
              ELSE IF Production /\ token \in TestKeys THEN "TEST_KEY_IN_PRODUCTION"
              ELSE "none"
  IN /\ req[r].step = "new"
     /\ req' = [req EXCEPT ![r].step = IF code = "none" THEN "key" ELSE "done",
                           ![r].token = token,
                           ![r].reply = code,
                           ![r].retired = token # NoKey /\ Retired(token)]
     /\ UNCHANGED background
     /\ BotUnchanged
     /\ RowsUnchanged

\* Mutant: is_active is not looked at.
LookUpKey_AnyRow(r) ==
  LET k == req[r].token
  IN /\ req[r].step = "key"
     /\ \/ Issued(k) /\ req' = [req EXCEPT ![r].step = "project",
                                           ![r].project = api_keys[k].project]
        \/ ~Issued(k) /\ Refuse(r, "INVALID_API_KEY")
     /\ UNCHANGED background
     /\ BotUnchanged
     /\ RowsUnchanged

\* Mutant: the project of the row is not kept.
LookUpKey_NoProject(r) ==
  /\ req[r].step = "key"
  /\ IF Active(req[r].token)
     THEN req' = [req EXCEPT ![r].step = "project"]
     ELSE Refuse(r, "INVALID_API_KEY")
  /\ UNCHANGED background
  /\ BotUnchanged
  /\ RowsUnchanged

LookUpKey(r) ==
  LET k == req[r].token
  IN /\ req[r].step = "key"
     /\ \/ DbFails /\ Refuse(r, "DB_UNAVAILABLE")
        \/ api_keys[k].status \in {"absent", "deleted"} /\ Refuse(r, "INVALID_API_KEY")
        \/ api_keys[k].status = "revoked" /\ Refuse(r, "REVOKED_API_KEY")
        \/ /\ Active(k)
           /\ req' = [req EXCEPT ![r].step = "project",
                                 ![r].project = api_keys[k].project]
     /\ UNCHANGED background
     /\ BotUnchanged
     /\ RowsUnchanged

\* Mutant: the task is created before the project is looked at.
FetchProject_Early(r) ==
  /\ req[r].step = "project"
  /\ IF projects[req[r].project] = "active"
     THEN Refuse(r, "admitted")
     ELSE Refuse(r, "PROJECT_INACTIVE")
  /\ background' = background \cup {r}
  /\ BotUnchanged
  /\ RowsUnchanged

\* Once the project is found active the request is let in, and the update of
\* last_used_at is left to a task nobody waits for.
FetchProject(r) ==
  LET p == req[r].project
  IN /\ req[r].step = "project"
     /\ \/ /\ DbFails
           /\ Refuse(r, "DB_UNAVAILABLE")
           /\ UNCHANGED background
        \/ /\ projects[p] = "gone"
           /\ Refuse(r, "PROJECT_NOT_FOUND")
           /\ UNCHANGED background
        \/ /\ projects[p] = "inactive"
           /\ Refuse(r, "PROJECT_INACTIVE")
           /\ UNCHANGED background
        \/ /\ projects[p] = "active"
           /\ Refuse(r, "admitted")
           /\ background' = background \cup {r}
     /\ BotUnchanged
     /\ RowsUnchanged

\* Mutant: the row is written back as it was read.
UpdateLastUsed_WholeRow(r) ==
  LET k == req[r].token
  IN /\ r \in background
     /\ background' = background \ {r}
     /\ last_used' = last_used \cup {k}
     /\ api_keys' = [api_keys EXCEPT ![k].status = "active"]
     /\ UNCHANGED <<projects, req>>
     /\ BotUnchanged

\* The update touches a row that is still there; its failure is swallowed.
UpdateLastUsed(r) ==
  LET k == req[r].token
  IN /\ r \in background
     /\ background' = background \ {r}
     /\ \E fails \in CanFail :
          last_used' = IF fails \/ api_keys[k].status = "deleted" THEN last_used
                       ELSE last_used \cup {k}
     /\ UNCHANGED <<projects, api_keys, req>>
     /\ BotUnchanged

\* The process ends: requests under way and background tasks are gone.
ApiCrash ==
  /\ req' = [r \in Req |-> IF req[r].step \in {"key", "project"}
                           THEN [req[r] EXCEPT !.step = "done", !.reply = "aborted"]
                           ELSE req[r]]
  /\ background' = {}
  /\ BotUnchanged
  /\ RowsUnchanged

-----------------------------------------------------------------------------
(* The bot: /genkey and /revokekey, a step for each await.                 *)

Answer(already) ==
  /\ bot' = Idle
  /\ told' = already

\* Only an active project is given a key; all else is an answer without effect.
CmdGenKey(p, sandbox) ==
  /\ bot = Idle
  /\ projects[p] = "active"
  /\ bot' = [Idle EXCEPT !.step = "insert", !.project = p, !.is_sandbox = sandbox]
  /\ told' = "none"
  /\ ApiUnchanged
  /\ RowsUnchanged

\* Mutant: --sandbox is stored inverted.
InsertKey_Inverted(k) ==
  /\ bot.step = "insert"
  /\ ~Issued(k)
  /\ k \in TestKeys <=> bot.is_sandbox
  /\ Answer("none")
  /\ api_keys' = [api_keys EXCEPT ![k] = [status |-> "active", project |-> bot.project,
                                          is_sandbox |-> ~bot.is_sandbox]]
  /\ UNCHANGED <<projects, last_used>>
  /\ ApiUnchanged

\* The insert fails when the project went away meanwhile; a raising insert may
\* still have been applied.
InsertKey(k) ==
  /\ bot.step = "insert"
  /\ ~Issued(k)
  /\ k \in TestKeys <=> bot.is_sandbox
  /\ Answer("none")
  /\ \E fails \in CanFail \cup {projects[bot.project] = "gone"} :
       api_keys' = IF fails THEN api_keys
                   ELSE [api_keys EXCEPT ![k] = [status |-> "active",
                                                 project |-> bot.project,
                                                 is_sandbox |-> bot.is_sandbox]]
  /\ UNCHANGED <<projects, last_used>>
  /\ ApiUnchanged

\* limit(1) without an order: any row that has the prefix.
CmdRevokeKey(prefix) ==
  LET Rows == {k \in Key : Issued(k) /\ api_keys[k].status # "deleted"
                                      /\ KeyPrefix[k] = prefix}
  IN /\ bot = Idle
     /\ \/ /\ Rows = {}
           /\ Answer("none")
        \/ \E k \in Rows :
             IF Active(k)
             THEN bot' = [Idle EXCEPT !.step = "revoke", !.key = k] /\ told' = "none"
             ELSE Answer(prefix)
     /\ ApiUnchanged
     /\ RowsUnchanged

\* A raising update may still have been applied.
UpdateRevoked ==
  LET k == bot.key
      revoked == IF Active(k) THEN [api_keys EXCEPT ![k].status = "revoked"] ELSE api_keys
  IN /\ bot.step = "revoke"
     /\ \E fails \in CanFail :
          api_keys' \in IF fails THEN {api_keys, revoked} ELSE {revoked}
     /\ Answer("none")
     /\ UNCHANGED <<projects, last_used>>
     /\ ApiUnchanged

BotCrash ==
  /\ bot # Idle
  /\ Answer("none")
  /\ ApiUnchanged
  /\ RowsUnchanged

-----------------------------------------------------------------------------
(* Supabase, from outside the program: a project is switched off for good or *)
(* deleted with its keys (ON DELETE CASCADE).                              *)

RetireProject(p) ==
  /\ projects[p] # "gone"
  /\ \/ /\ projects' = [projects EXCEPT ![p] = "inactive"]
        /\ UNCHANGED api_keys
     \/ /\ projects' = [projects EXCEPT ![p] = "gone"]
        /\ api_keys' = [k \in Key |-> IF Issued(k) /\ api_keys[k].project = p
                                      THEN [api_keys[k] EXCEPT !.status = "deleted"]
                                      ELSE api_keys[k]]
  /\ UNCHANGED last_used
  /\ ApiUnchanged
  /\ BotUnchanged

Next ==
  \/ \E r \in Req : LookUpKey(r) \/ FetchProject(r) \/ UpdateLastUsed(r)
  \/ \E r \in Req, token \in Key \cup {NoKey} : Arrive(r, token)
  \/ \E p \in Project, sandbox \in BOOLEAN : CmdGenKey(p, sandbox)
  \/ \E k \in Key : InsertKey(k)
  \/ \E prefix \in Prefix : CmdRevokeKey(prefix)
  \/ \E p \in Project : RetireProject(p)
  \/ UpdateRevoked \/ ApiCrash \/ BotCrash

Spec == Init /\ [][Next]_vars

-----------------------------------------------------------------------------
(* Properties.                                                             *)

KeyRow == [status : {"absent", "active", "revoked", "deleted"},
           project : Project \cup {NoProject}, is_sandbox : BOOLEAN]

TypeOK ==
  /\ projects \in [Project -> {"active", "inactive", "gone"}]
  /\ api_keys \in [Key -> KeyRow]
  /\ last_used \subseteq Key
  /\ req \in [Req -> [step : {"new", "key", "project", "done"}, token : Key \cup {NoKey},
                      project : Project \cup {NoProject},
                      reply : {"none", "admitted", "aborted", "MISSING_API_KEY",
                               "TEST_KEY_IN_PRODUCTION", "DB_UNAVAILABLE",
                               "INVALID_API_KEY", "REVOKED_API_KEY",
                               "PROJECT_NOT_FOUND", "PROJECT_INACTIVE"},
                      retired : BOOLEAN]]
  /\ \A r \in Req : req[r].step = "project" => req[r].project \in Project
  /\ background \subseteq Req
  /\ bot \in [step : {"idle", "insert", "revoke"}, key : Key \cup {NoKey},
              project : Project \cup {NoProject}, is_sandbox : BOOLEAN]
  /\ told \in Prefix \cup {"none"}

Admitted(r) == req[r].reply = "admitted"

\* A request that comes after its key was revoked, or after the key's project was
\* switched off, is not let in, whatever the bot does while it is checked.
NoEntryAfterRetired == \A r \in Req : Admitted(r) => ~req[r].retired

\* A request that is let in acts for the project its key was issued for, with the
\* sandbox flag the key shows, and never with a test key in production.
AdmittedAsIssued ==
  \A r \in Req : Admitted(r) =>
    LET k == req[r].token IN
    /\ Issued(k)
    /\ req[r].project = api_keys[k].project
    /\ api_keys[k].is_sandbox <=> k \in TestKeys
    /\ ~(Production /\ api_keys[k].is_sandbox)

\* "Last used" in /keys is the word of a request that was let in.
LastUsedTruthful == \A k \in last_used : \E r \in Req : Admitted(r) /\ req[r].token = k

\* A revoked key never works again: no late background update, failed command or
\* restart brings it back.
RevokedForGood ==
  [][\A k \in Key : Issued(k) /\ ~Active(k) => api_keys'[k].status \in {"revoked", "deleted"}]_vars

\* keys.py:209: /revokekey revokes a key by its prefix, so when the bot says that
\* the key with this prefix is revoked already, no key with it is active.
ToldMeansRevoked ==
  \A k \in Key : KeyPrefix[k] = told => ~Active(k)

=============================================================================
