---------------------------- MODULE ApiKeysProofs ---------------------------
(***************************************************************************)
(* Proofs about ApiKeys for any number of keys, projects and requests, any *)
(* text the keys show, and with calls that fail and crashes of either      *)
(* process.                                                                *)
(***************************************************************************)
EXTENDS ApiKeys, TLAPS

-----------------------------------------------------------------------------
(* Type correctness.                                                       *)

\* TypeOK lets an issued key have no project, or a command work on no key.
NamesRow ==
  /\ \A k \in Key : Issued(k) => api_keys[k].project \in Project
  /\ \A r \in Req : req[r].step \in {"key", "project"} => req[r].token \in Key
  /\ \A r \in background : req[r].token \in Key
  /\ \A r \in background : req[r].step = "done"
  /\ bot.step = "insert" => bot.project \in Project
  /\ bot.step = "revoke" => bot.key \in Key

TypeInv == TypeOK /\ NamesRow

\* The rows TypeOK says a request is in.
Request == [step : {"new", "key", "project", "done"}, token : Key \cup {NoKey},
            project : Project \cup {NoProject},
            reply : {"none", "admitted", "aborted", "MISSING_API_KEY",
                     "TEST_KEY_IN_PRODUCTION", "DB_UNAVAILABLE",
                     "INVALID_API_KEY", "REVOKED_API_KEY",
                     "PROJECT_NOT_FOUND", "PROJECT_INACTIVE"},
            retired : BOOLEAN]

\* A request that is replaced by a well typed one leaves the others as they are.
LEMMA RequestType ==
  ASSUME TypeInv, NEW r \in Req, NEW new \in Request,
         req' = [req EXCEPT ![r] = new],
         new.step \in {"key", "project"} => new.token \in Key,
         new.step = "project" => new.project \in Project,
         r \notin background,
         UNCHANGED <<background, bot, told, projects, api_keys, last_used>>
  PROVE  TypeInv'
<1>1. req' \in [Req -> Request]
  BY DEF TypeInv, TypeOK, Request
<1>2. TypeOK'
  BY <1>1 DEF TypeInv, TypeOK, Request
<1>3. NamesRow'
  BY DEF TypeInv, TypeOK, NamesRow, Issued
<1> QED BY <1>2, <1>3 DEF TypeInv

\* Initially there is no key, no request and no command.
LEMMA TypeInit == Init => TypeInv
BY DEF Init, TypeInv, TypeOK, NamesRow, NoRow, KeyRow, NewReq, Idle, Issued

\* Every step of a request, of the bot or of Supabase keeps the types and the
\* rows that are named.
LEMMA TypeStep == TypeInv /\ [Next]_vars => TypeInv'
<1> SUFFICES ASSUME TypeInv, [Next]_vars PROVE TypeInv'
  OBVIOUS
<1> USE DEF TypeInv, ApiUnchanged, BotUnchanged, RowsUnchanged
<1>1. ASSUME NEW r \in Req, LookUpKey(r) PROVE TypeInv'
  <2>1. req[r].step = "key" /\ req[r].token \in Key
    BY <1>1 DEF LookUpKey, NamesRow
  <2>2. CASE \E code \in {"DB_UNAVAILABLE", "INVALID_API_KEY", "REVOKED_API_KEY"} :
               Refuse(r, code)
    BY <1>1, <2>1, <2>2 DEF LookUpKey, Refuse, TypeOK, NamesRow, Issued
  <2>3. CASE /\ Active(req[r].token)
             /\ req' = [req EXCEPT ![r].step = "project",
                                   ![r].project = api_keys[req[r].token].project]
    <3> DEFINE new == [req[r] EXCEPT !.step = "project",
                                     !.project = api_keys[req[r].token].project]
    <3>1. api_keys[req[r].token].project \in Project
      BY <2>1, <2>3 DEF NamesRow, Issued, Active
    <3>2. new \in Request /\ new.token \in Key /\ new.project \in Project
      BY <2>1, <3>1 DEF TypeOK, Request
    <3>3. req' = [req EXCEPT ![r] = new]
      BY <2>3
    <3>4. r \notin background
      BY <2>1 DEF NamesRow
    <3> HIDE DEF new
    <3> QED BY <1>1, <3>2, <3>3, <3>4, RequestType DEF LookUpKey
  <2> QED BY <1>1, <2>2, <2>3 DEF LookUpKey
<1>2. ASSUME NEW r \in Req, FetchProject(r) PROVE TypeInv'
  BY <1>2 DEF FetchProject, Refuse, TypeOK, NamesRow, Issued
<1>3. ASSUME NEW r \in Req, UpdateLastUsed(r) PROVE TypeInv'
  BY <1>3 DEF UpdateLastUsed, TypeOK, NamesRow, Issued
<1>4. ASSUME NEW r \in Req, NEW token \in Key \cup {NoKey}, Arrive(r, token)
      PROVE  TypeInv'
  <2> DEFINE retired == token # NoKey /\ Retired(token)
  <2>1. retired \in BOOLEAN
    OBVIOUS
  <2>2. PICK code \in {"none", "MISSING_API_KEY", "TEST_KEY_IN_PRODUCTION"} :
               /\ code = "none" => token # NoKey
               /\ req' = [req EXCEPT ![r].step = IF code = "none" THEN "key" ELSE "done",
                                     ![r].token = token,
                                     ![r].reply = code,
                                     ![r].retired = retired]
    BY <1>4 DEF Arrive
  <2> HIDE DEF retired
  <2> DEFINE new == [req[r] EXCEPT !.step = IF code = "none" THEN "key" ELSE "done",
                                   !.token = token,
                                   !.reply = code,
                                   !.retired = retired]
  <2>3. req[r] \in Request /\ r \notin background
    BY <1>4 DEF Arrive, TypeOK, NamesRow, Request
  <2>4. new \in Request /\ (new.step = "key" => new.token \in Key) /\ new.step # "project"
    BY <2>1, <2>2, <2>3 DEF Request
  <2>5. req' = [req EXCEPT ![r] = new]
    BY <2>2
  <2> HIDE DEF new
  <2> QED BY <1>4, <2>3, <2>4, <2>5, RequestType DEF Arrive
<1>5. ASSUME NEW p \in Project, NEW sandbox \in BOOLEAN, CmdGenKey(p, sandbox)
      PROVE  TypeInv'
  BY <1>5 DEF CmdGenKey, Idle, TypeOK, NamesRow, Issued
<1>6. ASSUME NEW k \in Key, InsertKey(k) PROVE TypeInv'
  BY <1>6 DEF InsertKey, Answer, Idle, TypeOK, NamesRow, KeyRow, Issued
<1>7. ASSUME NEW prefix \in Prefix, CmdRevokeKey(prefix) PROVE TypeInv'
  BY <1>7 DEF CmdRevokeKey, Answer, Idle, TypeOK, NamesRow, Issued
<1>8. ASSUME NEW p \in Project, RetireProject(p) PROVE TypeInv'
  BY <1>8 DEF RetireProject, TypeOK, NamesRow, KeyRow, Issued
<1>9. ASSUME UpdateRevoked PROVE TypeInv'
  <2> DEFINE revoked == [api_keys EXCEPT ![bot.key].status = "revoked"]
  <2>1. bot.key \in Key
    BY <1>9 DEF UpdateRevoked, NamesRow
  <2>2. api_keys' = api_keys \/ (Active(bot.key) /\ api_keys' = revoked)
    BY <1>9 DEF UpdateRevoked
  <2>3. api_keys' \in [Key -> KeyRow]
    BY <2>1, <2>2 DEF TypeOK, KeyRow
  <2>4. (\A k \in Key : Issued(k) => api_keys[k].project \in Project)'
    BY <2>1, <2>2 DEF TypeOK, KeyRow, NamesRow, Issued, Active
  <2> QED BY <1>9, <2>3, <2>4 DEF UpdateRevoked, Answer, Idle, TypeOK, NamesRow
<1>10. ASSUME ApiCrash PROVE TypeInv'
  <2> DEFINE Aborted(r) == [req[r] EXCEPT !.step = "done", !.reply = "aborted"]
  <2>1. \A r \in Req : /\ req[r] \in Request /\ Aborted(r) \in Request
                       /\ Aborted(r).step = "done"
    BY DEF TypeOK, Request
  <2>2. req' \in [Req -> Request] /\ \A r \in Req : req'[r] \in {req[r], Aborted(r)}
    BY <1>10, <2>1 DEF ApiCrash
  <2> HIDE DEF Aborted
  <2>3. \A r \in Req : req'[r].step \in {"key", "project"} => req'[r] = req[r]
    BY <2>1, <2>2
  <2>4. TypeOK'
    BY <1>10, <2>2, <2>3 DEF ApiCrash, TypeOK, Request
  <2>5. NamesRow'
    BY <1>10, <2>3 DEF ApiCrash, NamesRow, Issued
  <2> QED BY <2>4, <2>5
<1>11. ASSUME BotCrash PROVE TypeInv'
  BY <1>11 DEF BotCrash, Answer, Idle, TypeOK, NamesRow, Issued
<1>12. ASSUME UNCHANGED vars PROVE TypeInv'
  BY <1>12 DEF vars, TypeOK, NamesRow, Issued
<1> QED
  BY <1>1, <1>2, <1>3, <1>4, <1>5, <1>6, <1>7, <1>8, <1>9, <1>10, <1>11, <1>12 DEF Next

\* Keys, requests and the command of the bot are well typed in every behaviour.
THEOREM KeysTypeCorrect == Spec => []TypeOK
<1>1. TypeInv => TypeOK
  BY DEF TypeInv
<1> QED BY <1>1, TypeInit, TypeStep, PTL DEF Spec

-----------------------------------------------------------------------------
(* Rows of api_keys and projects only fade.                                *)

\* What was issued stays issued, to the same project and with the same flag, and
\* neither a key nor a project comes back.
RowsFade ==
  /\ \A k \in Key : Issued(k) => /\ Issued(k)'
                                 /\ api_keys'[k].project = api_keys[k].project
                                 /\ api_keys'[k].is_sandbox = api_keys[k].is_sandbox
                                 /\ ~Active(k) => ~Active(k)'
  /\ \A p \in Project : projects[p] # "active" => projects'[p] # "active"

\* Of all writes only the insert of a new key makes a key active, and it names a
\* key that has no row.
LEMMA StepFades == TypeInv /\ [Next]_vars => RowsFade
<1> SUFFICES ASSUME TypeInv, [Next]_vars PROVE RowsFade
  OBVIOUS
<1>1. ASSUME UNCHANGED <<projects, api_keys>> PROVE RowsFade
  BY <1>1 DEF RowsFade, Issued, Active
<1>2. ASSUME NEW k \in Key, InsertKey(k) PROVE RowsFade
  BY <1>2 DEF InsertKey, RowsFade, Issued, Active, TypeInv, TypeOK
<1>3. ASSUME NEW p \in Project, RetireProject(p) PROVE RowsFade
  BY <1>3 DEF RetireProject, RowsFade, Issued, Active, TypeInv, TypeOK, KeyRow
<1>4. ASSUME UpdateRevoked PROVE RowsFade
  <2>1. bot.key \in Key /\ UNCHANGED projects
    BY <1>4 DEF UpdateRevoked, TypeInv, NamesRow
  <2>2. api_keys' \in {api_keys, [api_keys EXCEPT ![bot.key].status = "revoked"]}
    BY <1>4 DEF UpdateRevoked
  <2> QED BY <2>1, <2>2 DEF RowsFade, Issued, Active, TypeInv, TypeOK, KeyRow
<1>5. ASSUME \/ \E r \in Req : LookUpKey(r) \/ FetchProject(r) \/ UpdateLastUsed(r)
             \/ \E r \in Req, token \in Key \cup {NoKey} : Arrive(r, token)
             \/ \E p \in Project, sandbox \in BOOLEAN : CmdGenKey(p, sandbox)
             \/ \E prefix \in Prefix : CmdRevokeKey(prefix)
             \/ ApiCrash \/ BotCrash \/ UNCHANGED vars
      PROVE  UNCHANGED <<projects, api_keys>>
  BY <1>5 DEF LookUpKey, FetchProject, UpdateLastUsed, Arrive, CmdGenKey, CmdRevokeKey,
              ApiCrash, BotCrash, RowsUnchanged, vars
<1> QED BY <1>1, <1>2, <1>3, <1>4, <1>5 DEF Next

\* No late background update, failed command or restart makes a key work again
\* that was revoked or deleted (keys.py 247-254, api_key.py 179-190).
THEOREM RevokedStaysRevoked == Spec => RevokedForGood
<1>1. TypeInv /\ [Next]_vars =>
        [\A k \in Key : Issued(k) /\ ~Active(k)
                         => api_keys'[k].status \in {"revoked", "deleted"}]_vars
  <2> SUFFICES ASSUME TypeInv, [Next]_vars, NEW k \in Key, Issued(k), ~Active(k)
               PROVE  api_keys'[k].status \in {"revoked", "deleted"}
    OBVIOUS
  <2>1. Issued(k)' /\ ~Active(k)'
    BY StepFades DEF RowsFade
  <2>2. api_keys'[k] \in KeyRow
    BY TypeStep DEF TypeInv, TypeOK
  <2> QED BY <2>1, <2>2 DEF Issued, Active, KeyRow
<1> QED BY <1>1, TypeInit, TypeStep, PTL DEF Spec, RevokedForGood

-----------------------------------------------------------------------------
(* Who is let in.                                                          *)

\* A key shows what its row says.
FlagsShown ==
  \A k \in Key : Issued(k) => (api_keys[k].is_sandbox <=> k \in TestKeys)

\* What a request has established at each await: its reply is open until it is
\* done; a key that was retired when it came still is; between the two fetches it
\* works on the project of an issued key, which is switched off if the key was
\* of no use when it came, as the key itself was found active.
RequestInvOf(r) ==
  /\ req[r].step # "done" => req[r].reply = "none"
  /\ req[r].step \in {"key", "project"} => ~(Production /\ req[r].token \in TestKeys)
  /\ req[r].step = "key" /\ req[r].retired => Retired(req[r].token)
  /\ req[r].step = "project" =>
       /\ Issued(req[r].token)
       /\ req[r].project = api_keys[req[r].token].project
       /\ req[r].retired => projects[req[r].project] # "active"
  /\ Admitted(r) =>
       /\ req[r].token \in Key
       /\ Issued(req[r].token)
       /\ req[r].project = api_keys[req[r].token].project
       /\ ~(Production /\ req[r].token \in TestKeys)
       /\ ~req[r].retired
  /\ r \in background => Admitted(r)

AdmitInv == FlagsShown /\ \A r \in Req : RequestInvOf(r)

LEMMA AdmitInit == Init => AdmitInv
BY DEF Init, AdmitInv, FlagsShown, RequestInvOf, Admitted, NoRow, NewReq, Issued

\* A request that does not move keeps what it established: rows only fade.
LEMMA OthersKeep ==
  ASSUME TypeInv, RowsFade, NEW r \in Req, RequestInvOf(r),
         req'[r] = req[r], r \in background' => r \in background
  PROVE  RequestInvOf(r)'
<1>1. req[r].step \in {"key", "project"} => req[r].token \in Key
  BY DEF TypeInv, NamesRow
<1>2. \A k \in Key : Retired(k) => Retired(k)'
  BY DEF RowsFade, Retired, TypeInv, NamesRow
<1>3. req[r].step = "project" => req[r].project \in Project
  BY DEF TypeInv, TypeOK
<1> QED BY <1>1, <1>2, <1>3 DEF RequestInvOf, RowsFade, Admitted

\* The steps that move no request.
LEMMA RequestsRest ==
  ASSUME \/ \E r \in Req : UpdateLastUsed(r)
         \/ \E p \in Project, sandbox \in BOOLEAN : CmdGenKey(p, sandbox)
         \/ \E k \in Key : InsertKey(k)
         \/ \E prefix \in Prefix : CmdRevokeKey(prefix)
         \/ \E p \in Project : RetireProject(p)
         \/ UpdateRevoked \/ BotCrash \/ UNCHANGED vars
  PROVE  req' = req /\ background' \subseteq background
BY DEF UpdateLastUsed, CmdGenKey, InsertKey, CmdRevokeKey, RetireProject, UpdateRevoked,
       BotCrash, ApiUnchanged, vars

\* The bot stores the flag that the key it drew shows, and no row changes its flag.
LEMMA FlagsStep == TypeInv /\ FlagsShown /\ [Next]_vars => FlagsShown'
<1> SUFFICES ASSUME TypeInv, FlagsShown, [Next]_vars, NEW k \in Key, Issued(k)'
             PROVE  api_keys'[k].is_sandbox <=> k \in TestKeys
  BY DEF FlagsShown
<1>1. CASE Issued(k)
  BY <1>1, StepFades DEF RowsFade, FlagsShown
<1>2. CASE ~Issued(k)
  <2>1. ASSUME UNCHANGED api_keys PROVE FALSE
    BY <1>2, <2>1 DEF Issued
  <2>2. ASSUME UpdateRevoked PROVE FALSE
    BY <1>2, <2>2 DEF UpdateRevoked, Issued, Active, TypeInv, TypeOK, NamesRow, KeyRow
  <2>3. ASSUME NEW p \in Project, RetireProject(p) PROVE FALSE
    BY <1>2, <2>3 DEF RetireProject, Issued, TypeInv, TypeOK, KeyRow
  <2>4. PICK l \in Key : InsertKey(l)
    BY <2>1, <2>2, <2>3
    DEF Next, LookUpKey, FetchProject, UpdateLastUsed, Arrive, CmdGenKey, CmdRevokeKey,
        ApiCrash, BotCrash, RowsUnchanged, vars
  <2>5. k = l
    BY <1>2, <2>4 DEF InsertKey, Issued, TypeInv, TypeOK
  <2>6. api_keys'[k] = [status |-> "active", project |-> bot.project,
                        is_sandbox |-> bot.is_sandbox]
    BY <1>2, <2>4, <2>5 DEF InsertKey, Issued, TypeInv, TypeOK
  <2> QED BY <2>4, <2>5, <2>6 DEF InsertKey
<1> QED BY <1>1, <1>2

\* Each await of get_api_key hands the next one what it relies on.
LEMMA AdmitStep == TypeInv /\ AdmitInv /\ [Next]_vars => AdmitInv'
<1> SUFFICES ASSUME TypeInv, AdmitInv, [Next]_vars, NEW s \in Req
             PROVE  RequestInvOf(s)'
  BY FlagsStep DEF AdmitInv
<1>1. RowsFade /\ RequestInvOf(s) /\ req[s] \in Request
  BY StepFades DEF AdmitInv, TypeInv, TypeOK, Request
<1>2. ASSUME req'[s] = req[s], s \in background' => s \in background
      PROVE  RequestInvOf(s)'
  BY <1>1, <1>2, OthersKeep
<1>3. ASSUME NEW r \in Req, NEW token \in Key \cup {NoKey},
             Arrive(r, token) \/ LookUpKey(r) \/ FetchProject(r), s # r
      PROVE  RequestInvOf(s)'
  <2>1. req'[s] = req[s] /\ (s \in background' => s \in background)
    BY <1>3 DEF Arrive, LookUpKey, FetchProject, Refuse, TypeInv, TypeOK
  <2> QED BY <1>2, <2>1
<1>4. ASSUME NEW token \in Key \cup {NoKey}, Arrive(s, token) PROVE RequestInvOf(s)'
  <2> DEFINE retired == token # NoKey /\ Retired(token)
  <2>1. PICK code \in {"none", "MISSING_API_KEY", "TEST_KEY_IN_PRODUCTION"} :
               /\ code = "none" => token # NoKey /\ ~(Production /\ token \in TestKeys)
               /\ req' = [req EXCEPT ![s].step = IF code = "none" THEN "key" ELSE "done",
                                     ![s].token = token,
                                     ![s].reply = code,
                                     ![s].retired = retired]
    BY <1>4 DEF Arrive
  <2>2. /\ req'[s].step = IF code = "none" THEN "key" ELSE "done"
        /\ req'[s].token = token /\ req'[s].reply = code /\ req'[s].retired = retired
    BY <1>1, <2>1 DEF TypeInv, TypeOK, Request
  <2>3. s \notin background' /\ UNCHANGED <<projects, api_keys>>
    BY <1>4 DEF Arrive, TypeInv, NamesRow, ApiUnchanged, RowsUnchanged
  <2>4. Retired(token) => Retired(token)'
    BY <2>3 DEF Retired, Issued, Active
  <2>5. req'[s].retired => Retired(token)
    BY <2>2
  <2>6. req'[s].retired => Retired(req[s].token)'
    BY <2>2, <2>4, <2>5
  <2> QED BY <2>1, <2>2, <2>3, <2>6 DEF RequestInvOf, Admitted
<1>5. ASSUME NEW code, Refuse(s, code), req[s].step # "done", code # "admitted",
             UNCHANGED background
      PROVE  RequestInvOf(s)'
  <2>1. req'[s].step = "done" /\ req'[s].reply = code
    BY <1>1, <1>5 DEF Refuse, TypeInv, TypeOK, Request
  <2>2. s \notin background
    BY <1>5 DEF TypeInv, NamesRow
  <2> QED BY <1>5, <2>1, <2>2 DEF RequestInvOf, Admitted
<1>6. CASE LookUpKey(s)
  <2>1. CASE \E code \in {"DB_UNAVAILABLE", "INVALID_API_KEY", "REVOKED_API_KEY"} :
               Refuse(s, code)
    BY <1>5, <1>6, <2>1 DEF LookUpKey
  <2>2. CASE /\ Active(req[s].token)
             /\ req' = [req EXCEPT ![s].step = "project",
                                   ![s].project = api_keys[req[s].token].project]
    <3>1. /\ req'[s].step = "project" /\ req'[s].token = req[s].token
          /\ req'[s].project = api_keys[req[s].token].project
          /\ req'[s].reply = req[s].reply /\ req'[s].retired = req[s].retired
      BY <1>1, <2>2 DEF TypeInv, TypeOK, Request
    <3>2. /\ req[s].step = "key" /\ s \notin background'
          /\ UNCHANGED <<projects, api_keys>>
      BY <1>6 DEF LookUpKey, TypeInv, NamesRow, RowsUnchanged
    <3>3. Issued(req[s].token)
      BY <2>2 DEF Issued, Active
    <3>4. req[s].retired => projects[api_keys[req[s].token].project] # "active"
      BY <1>1, <2>2, <3>2 DEF RequestInvOf, Retired
    <3> QED BY <1>1, <3>1, <3>2, <3>3, <3>4 DEF RequestInvOf, Admitted, Issued
  <2> QED BY <1>6, <2>1, <2>2 DEF LookUpKey
<1>7. CASE FetchProject(s)
  <2>1. req[s].step = "project" /\ UNCHANGED <<projects, api_keys>>
    BY <1>7 DEF FetchProject, RowsUnchanged
  <2>2. CASE UNCHANGED background
    <3>1. PICK code \in {"DB_UNAVAILABLE", "PROJECT_NOT_FOUND", "PROJECT_INACTIVE"} :
                 Refuse(s, code)
      <4>1. s \notin background
        BY <2>1 DEF TypeInv, NamesRow
      <4> QED BY <1>7, <2>2, <4>1 DEF FetchProject
    <3> QED BY <1>5, <2>1, <2>2, <3>1
  <2>3. CASE projects[req[s].project] = "active" /\ Refuse(s, "admitted")
    <3>1. /\ req'[s].step = "done" /\ req'[s].token = req[s].token
          /\ req'[s].project = req[s].project /\ req'[s].reply = "admitted"
          /\ req'[s].retired = req[s].retired
      BY <1>1, <2>3 DEF Refuse, TypeInv, TypeOK, Request
    <3>2. req[s].token \in Key /\ ~req[s].retired
      BY <1>1, <2>1, <2>3 DEF RequestInvOf, TypeInv, NamesRow
    <3> QED BY <1>1, <2>1, <3>1, <3>2 DEF RequestInvOf, Admitted, Issued
  <2> QED BY <1>7, <2>2, <2>3 DEF FetchProject
<1>8. CASE ApiCrash
  <2>1. background' = {}
    BY <1>8 DEF ApiCrash
  <2>2. CASE req[s].step \in {"key", "project"}
    <3>1. req'[s].step = "done" /\ req'[s].reply = "aborted"
      BY <1>1, <1>8, <2>2 DEF ApiCrash, Request
    <3> QED BY <2>1, <3>1 DEF RequestInvOf, Admitted
  <2>3. CASE req[s].step \notin {"key", "project"}
    BY <1>2, <1>8, <2>1, <2>3 DEF ApiCrash
  <2> QED BY <2>2, <2>3
<1>9. CASE \/ \E r \in Req : UpdateLastUsed(r)
           \/ \E p \in Project, sandbox \in BOOLEAN : CmdGenKey(p, sandbox)
           \/ \E k \in Key : InsertKey(k)
           \/ \E prefix \in Prefix : CmdRevokeKey(prefix)
           \/ \E p \in Project : RetireProject(p)
           \/ UpdateRevoked \/ BotCrash \/ UNCHANGED vars
  <2>1. req' = req /\ background' \subseteq background
    BY <1>9, RequestsRest
  <2> QED BY <1>2, <2>1
<1> QED BY <1>3, <1>4, <1>6, <1>7, <1>8, <1>9 DEF Next

\* However the two fetches of a request interleave with /revokekey and with the
\* switching off of its project, it is not let in when the key was of no use at
\* its arrival.
THEOREM RetiredKeysStayOut == Spec => []NoEntryAfterRetired
<1>1. AdmitInv => NoEntryAfterRetired
  BY DEF AdmitInv, RequestInvOf, NoEntryAfterRetired
<1> QED BY <1>1, TypeInit, TypeStep, AdmitInit, AdmitStep, PTL DEF Spec

\* Whoever is let in acts for the project of its key, and in production never with
\* a sandbox key.
THEOREM AdmissionAsIssued == Spec => []AdmittedAsIssued
<1>1. AdmitInv => AdmittedAsIssued
  BY DEF AdmitInv, FlagsShown, RequestInvOf, AdmittedAsIssued, Admitted
<1> QED BY <1>1, TypeInit, TypeStep, AdmitInit, AdmitStep, PTL DEF Spec

-----------------------------------------------------------------------------
(* The time of last use.                                                   *)

LEMMA LastUsedInit == Init => LastUsedTruthful
BY DEF Init, LastUsedTruthful

\* A request that was let in stays so, and only its task sets last_used_at.
LEMMA LastUsedStep ==
  TypeInv /\ AdmitInv /\ LastUsedTruthful /\ [Next]_vars => LastUsedTruthful'
<1> SUFFICES ASSUME TypeInv, AdmitInv, LastUsedTruthful, [Next]_vars
             PROVE  LastUsedTruthful'
  OBVIOUS
<1>1. \A r \in Req : Admitted(r) => req[r].step = "done"
  BY DEF AdmitInv, RequestInvOf, Admitted, TypeInv, TypeOK
<1>2. ASSUME NEW s \in Req, req[s].step = "done" PROVE req'[s] = req[s]
  <2>1. ASSUME NEW r \in Req, NEW token \in Key \cup {NoKey},
               Arrive(r, token) \/ LookUpKey(r) \/ FetchProject(r)
        PROVE  req'[s] = req[s]
    BY <1>2, <2>1 DEF Arrive, LookUpKey, FetchProject, Refuse, TypeInv, TypeOK
  <2>2. CASE ApiCrash
    BY <1>2, <2>2 DEF ApiCrash
  <2> QED BY <2>1, <2>2, RequestsRest DEF Next
<1>3. \A k \in last_used' : k \in last_used \/ \E r \in background : req[r].token = k
  BY DEF Next, LookUpKey, FetchProject, UpdateLastUsed, Arrive, CmdGenKey, InsertKey,
         CmdRevokeKey, RetireProject, UpdateRevoked, ApiCrash, BotCrash, RowsUnchanged,
         vars
<1>4. \A r \in background : r \in Req /\ Admitted(r)
  BY DEF AdmitInv, RequestInvOf, TypeInv, TypeOK
<1> QED BY <1>1, <1>2, <1>3, <1>4 DEF LastUsedTruthful, Admitted

\* The last use that /keys shows is that of a request that was let in with the
\* key, whatever tasks were lost or came late.
THEOREM LastUseIsTrue == Spec => []LastUsedTruthful
BY TypeInit, TypeStep, AdmitInit, AdmitStep, LastUsedInit, LastUsedStep, PTL DEF Spec

=============================================================================
