----------------------------- MODULE BotWizards -----------------------------
(***************************************************************************)
(* The two conversations of the Telegram bot, /addemail                    *)
(* (apps/bot/wizards/add_email.py) and /newproject                         *)
(* (apps/bot/wizards/new_project.py), with /cancel, /removesender and      *)
(* /testsender.                                                            *)
(*                                                                         *)
(* Each conversation has a state of its own, but both keep their answers   *)
(* in one user_data, and each may be started while the other runs.  A text *)
(* goes to the handler registered first, /addemail, whenever that          *)
(* conversation is under way (apps/bot/main.py).  Updates are handled one  *)
(* at a time.  A handler that raises leaves its conversation where it was; *)
(* an answer that is refused changes nothing and is left to stuttering.    *)
(***************************************************************************)
EXTENDS FiniteSets

CONSTANTS Address,        \* email addresses of senders
          NoSender,       \* "(none - assign later)", a null sender_email_id
          Slug,           \* slugs of projects
          Missing,        \* a key that user_data does not hold
          Nothing,        \* no project, no summary
          DbFails,        \* whether Supabase calls may raise
          TelegramFails   \* whether reply_text may raise

ASSUME MissingAssumption ==
  /\ {NoSender, Missing} \cap Address = {} /\ NoSender # Missing
  /\ Missing \notin Slug \cup {TRUE} /\ \A S \in SUBSET Address : S # Missing
ASSUME FaultAssumption == {DbFails, TelegramFails} \subseteq BOOLEAN

VARIABLES
  add,         \* state of the /addemail conversation
  new,         \* state of the /newproject conversation
  user_data,   \* context.user_data, shared by both
  doing,       \* the part of add_email.got_confirm that is still to run
  saved,       \* the addresses in sender_emails
  active,      \* those with is_active
  verified,    \* those with is_verified
  projects,    \* [Slug -> Nothing or row: sender and the sender confirmed]
  shown,       \* history: the sender in the last project summary
  tested,      \* history: senders a test email went out with
  intact       \* history: conversations whose user_data nobody cleared

conversation == <<add, new, user_data, doing>>
rows == <<saved, active, verified, projects>>
history == <<shown, tested, intact>>
vars == <<conversation, rows, history>>

AddState == {"END", "ASK_EMAIL", "ASK_PASSWORD", "ASK_PROVIDER", "ASK_SMTP_HOST", "CONFIRM"}
NewState == {"END", "ASK_NAME", "ASK_SLUG", "ASK_SENDER", "ASK_OTP_LENGTH", "ASK_EXPIRY",
             "CONFIRM"}

\* The keys of user_data; smtp stands for host and port, name for name and
\* suggested_slug.
Empty == [email |-> Missing, password |-> Missing, provider |-> Missing, smtp |-> Missing,
          name |-> Missing, slug |-> Missing, available |-> Missing, sender |-> Missing,
          otp_length |-> Missing, expiry |-> Missing]

Has(keys) == \A f \in keys : user_data[f] # Missing

CanFail(b) == IF b THEN {TRUE, FALSE} ELSE {FALSE}

\* Whether the reply at the end of a handler raises.
Reply == CanFail(TelegramFails)

\* An insert or update: it works, or it raises with or without effect.
Call == {"ok"} \cup (IF DbFails THEN {"unapplied", "lost"} ELSE {})

Init ==
  /\ add = "END"
  /\ new = "END"
  /\ user_data = Empty
  /\ doing = "nothing"
  /\ saved \in SUBSET Address
  /\ active \in SUBSET saved
  /\ verified \in SUBSET saved
  /\ projects = [s \in Slug |-> Nothing]
  /\ shown = Nothing
  /\ tested = verified
  /\ intact = {}

\* Who gets the next update: a text goes to /addemail first.
Idle == doing = "nothing"
AddGets(state) == Idle /\ add = state
NewGets(state) == Idle /\ add = "END" /\ new = state

\* Answers are kept; the conversation moves on unless the reply raises.
AddAnswer(data, next) ==
  /\ user_data' = data
  /\ \E raises \in Reply : add' = IF raises THEN add ELSE next
  /\ UNCHANGED <<new, doing, shown, tested, intact>>

NewAnswer(data, next) ==
  /\ user_data' = data
  /\ \E raises \in Reply : new' = IF raises THEN new ELSE next
  /\ UNCHANGED <<add, doing, tested, intact>>

-----------------------------------------------------------------------------
(* /addemail, /newproject and /cancel.                                     *)

\* A conversation that is under way does not take its own command.
StartAddEmail ==
  /\ AddGets("END")
  /\ user_data' = Empty
  /\ \E raises \in Reply :
       /\ add' = IF raises THEN "END" ELSE "ASK_EMAIL"
       /\ intact' = IF raises THEN {} ELSE {"add"}
  /\ UNCHANGED <<new, doing, shown, tested>>
  /\ UNCHANGED rows

StartNewProject ==
  /\ Idle
  /\ new = "END"
  /\ user_data' = Empty
  /\ \E raises \in Reply :
       /\ new' = IF raises THEN "END" ELSE "ASK_NAME"
       /\ intact' = IF raises THEN {} ELSE {"new"}
  /\ UNCHANGED <<add, doing, shown, tested>>
  /\ UNCHANGED rows

\* cancel_wizard of the first handler that has a conversation.
Cancel ==
  /\ Idle
  /\ add # "END" \/ new # "END"
  /\ user_data' = Empty
  /\ intact' = {}
  /\ \E raises \in Reply :
       /\ add' = IF raises THEN add ELSE "END"
       /\ new' = IF raises \/ add # "END" THEN new ELSE "END"
  /\ UNCHANGED <<doing, shown, tested>>
  /\ UNCHANGED rows

-----------------------------------------------------------------------------
(* add_email.py.                                                           *)

GotEmail(a) ==
  /\ AddGets("ASK_EMAIL")
  /\ AddAnswer([user_data EXCEPT !.email = a], "ASK_PASSWORD")
  /\ UNCHANGED rows

\* Mutant: the password is not kept.
GotPassword_Dropped ==
  /\ AddGets("ASK_PASSWORD")
  /\ AddAnswer(user_data, "ASK_PROVIDER")
  /\ UNCHANGED rows

GotPassword ==
  /\ AddGets("ASK_PASSWORD")
  /\ AddAnswer([user_data EXCEPT !.password = TRUE], "ASK_PROVIDER")
  /\ UNCHANGED rows

\* _show_confirm reads the address: without it the handler raises.
GotProvider ==
  /\ AddGets("ASK_PROVIDER")
  /\ \/ AddAnswer([user_data EXCEPT !.provider = TRUE], "ASK_SMTP_HOST")
     \/ AddAnswer([user_data EXCEPT !.provider = TRUE, !.smtp = TRUE],
                  IF Has({"email"}) THEN "CONFIRM" ELSE add)
  /\ UNCHANGED rows

GotSmtpHost ==
  /\ AddGets("ASK_SMTP_HOST")
  /\ AddAnswer([user_data EXCEPT !.smtp = TRUE],
               IF Has({"email", "provider"}) THEN "CONFIRM" ELSE add)
  /\ UNCHANGED rows

\* "no" clears user_data; a failure before or at the insert does not.
AddRefused ==
  /\ AddGets("CONFIRM")
  /\ add' = "END"
  /\ user_data' = Empty
  /\ intact' = {}
  /\ UNCHANGED <<new, doing, shown, tested>>
  /\ UNCHANGED rows

\* Mutant: the row is inserted as verified.
AddConfirmed_Verified ==
  /\ AddGets("CONFIRM")
  /\ Has({"password", "email"})
  /\ user_data.email \notin saved
  /\ saved' = saved \cup {user_data.email}
  /\ active' = active \cup {user_data.email}
  /\ verified' = verified \cup {user_data.email}
  /\ doing' = "test_send"
  /\ UNCHANGED <<add, new, user_data, projects>>
  /\ UNCHANGED history

AddConfirmed ==
  /\ AddGets("CONFIRM")
  /\ \E call \in Call :
       LET inserts == Has({"password", "email"}) /\ user_data.email \notin saved
                        /\ call # "unapplied"
       IN /\ saved' = IF inserts THEN saved \cup {user_data.email} ELSE saved
          /\ active' = IF inserts THEN active \cup {user_data.email} ELSE active
          /\ IF inserts /\ call = "ok"
             THEN /\ doing' = "test_send"
                  /\ UNCHANGED <<add, intact>>
             ELSE \E raises \in Reply :
                    /\ add' = IF raises THEN add ELSE "END"
                    /\ intact' = IF raises THEN intact ELSE intact \ {"add"}
                    /\ UNCHANGED doing
  /\ UNCHANGED <<new, user_data, verified, projects, shown, tested>>

\* The end of got_confirm, unless the last reply raises.
AddDone ==
  /\ doing' = "nothing"
  /\ \/ TRUE \in Reply /\ UNCHANGED <<add, user_data, intact>>
     \/ add' = "END" /\ user_data' = Empty /\ intact' = {}

\* Mutant: user_data is cleared before it is used up.
TestSend_ClearsFirst ==
  /\ doing = "test_send"
  /\ tested' = tested \cup {user_data.email}
  /\ doing' = "mark"
  /\ user_data' = Empty
  /\ UNCHANGED <<add, new, intact, shown>>
  /\ UNCHANGED rows

TestSend ==
  /\ doing = "test_send"
  /\ \/ /\ tested' = tested \cup {user_data.email}
        /\ doing' = "mark"
        /\ UNCHANGED <<add, user_data, intact>>
     \/ AddDone /\ UNCHANGED tested
  /\ UNCHANGED <<new, shown>>
  /\ UNCHANGED rows

MarkVerified ==
  /\ doing = "mark"
  /\ \E call \in Call :
       verified' = IF call = "unapplied" THEN verified ELSE verified \cup {user_data.email}
  /\ AddDone
  /\ UNCHANGED <<new, saved, active, projects, shown, tested>>

-----------------------------------------------------------------------------
(* new_project.py.                                                         *)

GotName ==
  /\ NewGets("ASK_NAME")
  /\ NewAnswer([user_data EXCEPT !.name = TRUE], "ASK_SLUG")
  /\ UNCHANGED shown
  /\ UNCHANGED rows

\* A free slug is kept; what follows depends on the senders there are.
GotSlug(s) ==
  /\ NewGets("ASK_SLUG")
  /\ projects[s] = Nothing
  /\ \/ /\ active # {}
        /\ NewAnswer([user_data EXCEPT !.slug = s, !.available = active], "ASK_SENDER")
     \/ /\ DbFails
        /\ NewAnswer([user_data EXCEPT !.slug = s], "END")
     \/ /\ active = {} /\ TelegramFails
        /\ NewAnswer([user_data EXCEPT !.slug = s], new)
     \/ /\ active = {}
        /\ new' = "END"
        /\ user_data' = Empty
        /\ intact' = {}
        /\ UNCHANGED <<add, doing, tested>>
  /\ UNCHANGED shown
  /\ UNCHANGED rows

GotSender(a) ==
  /\ NewGets("ASK_SENDER")
  /\ a = NoSender \/ (Has({"available"}) /\ a \in user_data.available)
  /\ NewAnswer([user_data EXCEPT !.sender = a], "ASK_OTP_LENGTH")
  /\ UNCHANGED shown
  /\ UNCHANGED rows

GotOtpLength ==
  /\ NewGets("ASK_OTP_LENGTH")
  /\ NewAnswer([user_data EXCEPT !.otp_length = TRUE], "ASK_EXPIRY")
  /\ UNCHANGED shown
  /\ UNCHANGED rows

\* The summary reads name, slug and length; sender_email may be missing.
GotExpiry ==
  LET complete == Has({"name", "slug", "otp_length"})
  IN /\ NewGets("ASK_EXPIRY")
     /\ NewAnswer([user_data EXCEPT !.expiry = TRUE], IF complete THEN "CONFIRM" ELSE new)
     /\ shown' = IF ~complete THEN shown
                 ELSE IF Has({"sender"}) THEN user_data.sender ELSE NoSender
     /\ UNCHANGED rows

NewRefused ==
  /\ NewGets("CONFIRM")
  /\ new' = "END"
  /\ user_data' = Empty
  /\ intact' = {}
  /\ UNCHANGED <<add, doing, shown, tested>>
  /\ UNCHANGED rows

\* Mutant: the address is not asked for.
Resolved_Any(a) == IF a \in saved THEN saved ELSE {NoSender}

\* The sender's row by its address, active or not; an error leaves the project
\* without a sender.
Resolved(a) == IF a \in saved THEN {a} \cup (IF DbFails THEN {NoSender} ELSE {})
               ELSE {NoSender}

\* A failing insert ends the conversation and leaves user_data.
NewConfirmed ==
  /\ NewGets("CONFIRM")
  /\ \E call \in Call, sender \in Resolved(user_data.sender), raises \in Reply :
       LET inserts == /\ Has({"name", "slug", "otp_length", "expiry"})
                      /\ projects[user_data.slug] = Nothing
                      /\ call # "unapplied"
           done == inserts /\ call = "ok" /\ ~raises
       IN /\ projects' = IF inserts
                         THEN [projects EXCEPT ![user_data.slug] =
                                 [sender |-> sender, shown |-> shown]]
                         ELSE projects
          /\ new' = IF raises THEN new ELSE "END"
          /\ user_data' = IF done THEN Empty ELSE user_data
          /\ intact' = IF done THEN {} ELSE IF raises THEN intact ELSE intact \ {"new"}
  /\ UNCHANGED <<add, doing, saved, active, verified, shown, tested>>

-----------------------------------------------------------------------------
(* Other commands on senders, between the answers of a wizard.             *)

RemoveSender(a) ==
  /\ Idle
  /\ active' = active \ {a}
  /\ UNCHANGED <<saved, verified, projects>>
  /\ UNCHANGED conversation
  /\ UNCHANGED history

\* cmd_test_sender looks the sender up, active or not, and marks it after a send.
TestSender(a) ==
  /\ Idle
  /\ a \in saved
  /\ tested' = tested \cup {a}
  /\ \E call \in Call : verified' = IF call = "unapplied" THEN verified ELSE verified \cup {a}
  /\ UNCHANGED <<saved, active, projects, shown, intact>>
  /\ UNCHANGED conversation

\* Both conversations are persistent=False: the process holds them.
BotCrash ==
  /\ add' = "END"
  /\ new' = "END"
  /\ user_data' = Empty
  /\ doing' = "nothing"
  /\ intact' = {}
  /\ UNCHANGED <<shown, tested>>
  /\ UNCHANGED rows

Next ==
  \/ StartAddEmail \/ StartNewProject \/ Cancel
  \/ \E a \in Address : GotEmail(a)
  \/ GotPassword \/ GotProvider \/ GotSmtpHost
  \/ AddRefused \/ AddConfirmed \/ TestSend \/ MarkVerified
  \/ GotName \/ GotOtpLength \/ GotExpiry \/ NewRefused \/ NewConfirmed
  \/ \E s \in Slug : GotSlug(s)
  \/ \E a \in Address \cup {NoSender} : GotSender(a)
  \/ \E a \in Address : RemoveSender(a) \/ TestSender(a)
  \/ BotCrash

Spec == Init /\ [][Next]_vars

-----------------------------------------------------------------------------
(* Properties.                                                             *)

UserData ==
  [email : Address \cup {Missing}, password : {TRUE, Missing}, provider : {TRUE, Missing},
   smtp : {TRUE, Missing}, name : {TRUE, Missing}, slug : Slug \cup {Missing},
   available : (SUBSET Address) \cup {Missing}, sender : Address \cup {NoSender, Missing},
   otp_length : {TRUE, Missing}, expiry : {TRUE, Missing}]

SenderGiven == Address \cup {NoSender, Nothing}

TypeOK ==
  /\ add \in AddState
  /\ new \in NewState
  /\ user_data \in UserData
  /\ doing \in {"nothing", "test_send", "mark"}
  /\ doing # "nothing" => add = "CONFIRM" /\ user_data.email \in saved
  /\ saved \subseteq Address
  /\ active \subseteq saved
  /\ verified \subseteq saved
  /\ projects \in [Slug -> {Nothing} \cup [sender : Address \cup {NoSender},
                                           shown : SenderGiven]]
  /\ shown \in SenderGiven
  /\ tested \subseteq Address
  /\ intact \subseteq {"add", "new"}

\* What a conversation must have asked for before it is in a given state.
AddNeeds == [state \in AddState |->
  CASE state = "ASK_PASSWORD"  -> {"email"}
    [] state = "ASK_PROVIDER"  -> {"email", "password"}
    [] state = "ASK_SMTP_HOST" -> {"email", "password", "provider"}
    [] state = "CONFIRM"       -> {"email", "password", "provider", "smtp"}
    [] OTHER -> {}]

NewNeeds == [state \in NewState |->
  CASE state = "ASK_SLUG"       -> {"name"}
    [] state = "ASK_SENDER"     -> {"name", "slug", "available"}
    [] state = "ASK_OTP_LENGTH" -> {"name", "slug", "sender"}
    [] state = "ASK_EXPIRY"     -> {"name", "slug", "sender", "otp_length"}
    [] state = "CONFIRM"        -> {"name", "slug", "sender", "otp_length", "expiry"}
    [] OTHER -> {}]

\* A conversation whose answers nobody cleared has every answer that its next
\* handlers read, so none of them raises KeyError, over refused answers, failing
\* replies and the other wizard.
IntactIsComplete ==
  /\ "add" \in intact => Has(AddNeeds[add])
  /\ "new" \in intact => Has(NewNeeds[new])

\* is_verified is the word of a test email that went out, through failing calls,
\* a crash between the two and senders that were removed meanwhile.
VerifiedMeansTested == verified \subseteq tested

\* A project is created with the sender that its summary showed when the
\* administrator said yes, or with none: never with another one, whichever calls
\* fail, whatever the other wizard left in user_data, and whichever senders were
\* added or removed meanwhile.
NoOtherSender ==
  \A s \in Slug :
    projects[s] # Nothing => projects[s].sender \in {projects[s].shown, NoSender}

=============================================================================
