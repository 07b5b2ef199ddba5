-------------------------- MODULE BotWizardsProofs --------------------------
(***************************************************************************)
(* Proofs about BotWizards for any number of senders and slugs, with       *)
(* failing calls and replies, crashes, and any interleaving of the answers *)
(* to the two conversations and of the other commands.                     *)
(***************************************************************************)
EXTENDS BotWizards, TLAPS

USE DEF AddState, NewState

-----------------------------------------------------------------------------
(* Type correctness.                                                       *)

LEMMA EmptyType == Empty \in UserData
BY DEF Empty, UserData

\* Initially there is no conversation and no project.
LEMMA TypeInit == Init => TypeOK
BY EmptyType DEF Init, TypeOK, SenderGiven

\* The types of a step that only answers.
LEMMA AddAnswerType ==
  ASSUME TypeOK, NEW data \in UserData, NEW next \in AddState, Idle,
         AddAnswer(data, next), UNCHANGED rows
  PROVE  TypeOK'
BY DEF TypeOK, AddAnswer, Idle, rows

LEMMA NewAnswerType ==
  ASSUME TypeOK, NEW data \in UserData, NEW next \in NewState, Idle,
         NewAnswer(data, next), UNCHANGED rows, shown' \in SenderGiven
  PROVE  TypeOK'
BY DEF TypeOK, NewAnswer, Idle, rows

\* Every handler, command and crash keeps the types, and the part of got_confirm
\* that follows the insert keeps the address of the row it inserted.
LEMMA TypeStep == TypeOK /\ [Next]_vars => TypeOK'
<1> SUFFICES ASSUME TypeOK, [Next]_vars PROVE TypeOK'
  OBVIOUS
<1>1. user_data \in UserData /\ add \in AddState /\ new \in NewState
  BY DEF TypeOK
<1>2. CASE StartAddEmail \/ StartNewProject \/ Cancel \/ AddRefused \/ NewRefused \/ BotCrash
  BY <1>2, EmptyType DEF TypeOK, StartAddEmail, StartNewProject, Cancel, AddRefused,
       NewRefused, BotCrash, AddGets, NewGets, Idle, rows
<1>3. CASE \/ \E a \in Address : GotEmail(a)
           \/ GotPassword \/ GotProvider \/ GotSmtpHost
  <2>1. \A a \in Address : [user_data EXCEPT !.email = a] \in UserData
    BY <1>1 DEF UserData
  <2>2. /\ [user_data EXCEPT !.password = TRUE] \in UserData
        /\ [user_data EXCEPT !.provider = TRUE] \in UserData
        /\ [user_data EXCEPT !.provider = TRUE, !.smtp = TRUE] \in UserData
        /\ [user_data EXCEPT !.smtp = TRUE] \in UserData
    BY <1>1 DEF UserData
  <2> QED BY <1>1, <1>3, <2>1, <2>2, AddAnswerType DEF GotEmail, GotPassword, GotProvider,
               GotSmtpHost, AddGets
<1>4. CASE AddConfirmed
  <2>1. user_data.email \in Address \cup {Missing}
    BY <1>1 DEF UserData
  <2>2. Has({"password", "email"}) => user_data.email # Missing
    BY DEF Has
  <2> QED BY <1>4, <2>1, <2>2 DEF TypeOK, AddConfirmed, AddGets, Idle
<1>5. CASE TestSend \/ MarkVerified
  <2>1. doing # "nothing" /\ user_data.email \in saved
    BY <1>5 DEF TestSend, MarkVerified, TypeOK
  <2> QED BY <1>5, <2>1, EmptyType DEF TypeOK, TestSend, MarkVerified, AddDone, rows
<1>6. CASE GotName \/ GotOtpLength \/ GotExpiry
           \/ \E a \in Address \cup {NoSender} : GotSender(a)
  <2>1. /\ [user_data EXCEPT !.name = TRUE] \in UserData
        /\ [user_data EXCEPT !.otp_length = TRUE] \in UserData
        /\ [user_data EXCEPT !.expiry = TRUE] \in UserData
        /\ \A a \in Address \cup {NoSender} : [user_data EXCEPT !.sender = a] \in UserData
    BY <1>1 DEF UserData
  <2>2. shown' \in SenderGiven
    <3>1. Has({"sender"}) => user_data.sender \in SenderGiven
      BY <1>1 DEF Has, UserData, SenderGiven
    <3> QED BY <1>6, <3>1 DEF GotName, GotOtpLength, GotExpiry, GotSender, TypeOK, SenderGiven
  <2> QED BY <1>1, <1>6, <2>1, <2>2, NewAnswerType DEF GotName, GotOtpLength, GotExpiry,
               GotSender, NewGets
<1>7. ASSUME NEW s \in Slug, GotSlug(s) PROVE TypeOK'
  <2>1. /\ [user_data EXCEPT !.slug = s] \in UserData
        /\ [user_data EXCEPT !.slug = s, !.available = active] \in UserData
    BY <1>1 DEF UserData, TypeOK
  <2>2. shown' \in SenderGiven /\ Idle /\ UNCHANGED rows
    BY <1>7 DEF GotSlug, TypeOK, NewGets
  <2>3. CASE \E data \in UserData, next \in NewState : NewAnswer(data, next)
    BY <2>2, <2>3, NewAnswerType
  <2>4. CASE /\ new' = "END" /\ user_data' = Empty /\ intact' = {}
             /\ UNCHANGED <<add, doing, tested>>
    BY <2>2, <2>4, EmptyType DEF TypeOK, Idle, rows
  <2> QED BY <1>1, <1>7, <2>1, <2>3, <2>4 DEF GotSlug
<1>8. CASE NewConfirmed
  <2> PICK call \in Call, sender \in Resolved(user_data.sender) :
           /\ projects' \in {projects, [projects EXCEPT ![user_data.slug] =
                                          [sender |-> sender, shown |-> shown]]}
           /\ new' \in {new, "END"} /\ user_data' \in {Empty, user_data}
           /\ intact' \subseteq intact
    BY <1>8 DEF NewConfirmed
  <2>1. sender \in Address \cup {NoSender}
    BY DEF Resolved, TypeOK
  <2>2. projects' \in [Slug -> {Nothing} \cup [sender : Address \cup {NoSender},
                                               shown : SenderGiven]]
    BY <2>1 DEF TypeOK
  <2> QED BY <1>8, <2>2, EmptyType DEF NewConfirmed, NewGets, Idle, TypeOK
<1>9. ASSUME NEW a \in Address, RemoveSender(a) \/ TestSender(a) PROVE TypeOK'
  BY <1>9 DEF RemoveSender, TestSender, Idle, TypeOK, conversation, history
<1>10. CASE UNCHANGED vars
  BY <1>10 DEF vars, conversation, rows, history, TypeOK
<1> QED BY <1>2, <1>3, <1>4, <1>5, <1>6, <1>7, <1>8, <1>9, <1>10 DEF Next

\* The conversations, what they keep and the rows they write are well typed; in
\* particular a test email and the mark that follows it are for a stored sender,
\* whatever the other wizard does to the shared user_data.
THEOREM WizardTypeCorrect == Spec => []TypeOK
BY TypeInit, TypeStep, PTL DEF Spec

-----------------------------------------------------------------------------
(* A mark is the word of a test.                                           *)

\* Between the test email and the mark the tested sender is the one user_data
\* names.
MarkInv == VerifiedMeansTested /\ (doing = "mark" => user_data.email \in tested)

LEMMA MarkInit == Init => MarkInv
BY DEF Init, MarkInv, VerifiedMeansTested

\* No update of the bot is handled between the two, so user_data stays.
LEMMA MarkStep == TypeOK /\ MarkInv /\ [Next]_vars => MarkInv'
<1> SUFFICES ASSUME TypeOK, MarkInv, [Next]_vars PROVE MarkInv'
  OBVIOUS
<1> USE DEF MarkInv, VerifiedMeansTested
<1>1. CASE TestSend \/ MarkVerified
  BY <1>1 DEF TestSend, MarkVerified, AddDone, rows
<1>2. ASSUME UNCHANGED <<verified, tested>>, doing' # "mark" PROVE MarkInv'
  BY <1>2
<1>3. CASE StartAddEmail \/ StartNewProject \/ Cancel \/ AddRefused \/ NewRefused \/ BotCrash
  BY <1>2, <1>3 DEF StartAddEmail, StartNewProject, Cancel, AddRefused, NewRefused, BotCrash,
                    AddGets, NewGets, Idle, rows
<1>4. CASE GotPassword \/ GotProvider \/ GotSmtpHost \/ \E a \in Address : GotEmail(a)
  BY <1>2, <1>4 DEF GotPassword, GotProvider, GotSmtpHost, GotEmail, AddAnswer, AddGets, Idle,
                    rows
<1>5. CASE \/ GotName \/ GotOtpLength \/ GotExpiry \/ \E s \in Slug : GotSlug(s)
           \/ \E a \in Address \cup {NoSender} : GotSender(a)
  BY <1>2, <1>5 DEF GotName, GotOtpLength, GotExpiry, GotSlug, GotSender, NewAnswer, NewGets,
                    Idle, rows
<1>6. CASE AddConfirmed \/ NewConfirmed
  BY <1>2, <1>6 DEF AddConfirmed, NewConfirmed, AddGets, NewGets, Idle
<1>7. ASSUME NEW a \in Address, RemoveSender(a) \/ TestSender(a) PROVE MarkInv'
  BY <1>7 DEF RemoveSender, TestSender, Idle, conversation, history
<1>8. CASE UNCHANGED vars
  BY <1>8 DEF vars, conversation, rows, history
<1> QED BY <1>1, <1>3, <1>4, <1>5, <1>6, <1>7, <1>8 DEF Next

\* No failing call, crash or removed sender leaves a sender marked as verified that
\* no test email went out with.
THEOREM MarksAreEarned == Spec => []VerifiedMeansTested
<1>1. MarkInv => VerifiedMeansTested
  BY DEF MarkInv
<1> QED BY <1>1, TypeInit, TypeStep, MarkInit, MarkStep, PTL DEF Spec

-----------------------------------------------------------------------------
(* A project gets the sender that was confirmed.                           *)

\* While the administrator is asked to confirm, the sender that user_data names is
\* the one of the summary, or was not chosen or is gone.
SummaryInv ==
  /\ NoOtherSender
  /\ new = "CONFIRM" => user_data.sender \in {shown, NoSender, Missing}

LEMMA SummaryInit == Init => SummaryInv
BY DEF Init, SummaryInv, NoOtherSender

\* The steps that leave the project wizard and what it keeps of the sender, or that
\* clear user_data.
LEMMA SummaryRests ==
  ASSUME TypeOK, SummaryInv, UNCHANGED projects, new' \in {new, "END", "ASK_NAME"},
         shown' = shown, user_data' = Empty \/ user_data'.sender = user_data.sender
  PROVE  SummaryInv'
BY DEF SummaryInv, NoOtherSender, Empty

\* The sender is only asked for in a state of its own, before the summary, and the
\* insert looks the sender up under that address.
LEMMA SummaryStep == TypeOK /\ SummaryInv /\ [Next]_vars => SummaryInv'
<1> SUFFICES ASSUME TypeOK, SummaryInv, [Next]_vars PROVE SummaryInv'
  OBVIOUS
<1>1. user_data \in UserData /\ new \in NewState
  BY DEF TypeOK
<1>2. CASE StartAddEmail \/ StartNewProject \/ Cancel \/ AddRefused \/ NewRefused \/ BotCrash
  BY <1>2, SummaryRests DEF StartAddEmail, StartNewProject, Cancel, AddRefused, NewRefused,
                            BotCrash, rows
<1>3. CASE GotPassword \/ GotProvider \/ GotSmtpHost \/ \E a \in Address : GotEmail(a)
  <2>1. user_data'.sender = user_data.sender
    BY <1>1, <1>3 DEF GotPassword, GotProvider, GotSmtpHost, GotEmail, AddAnswer, UserData
  <2>2. UNCHANGED <<projects, new, shown>>
    BY <1>3 DEF GotPassword, GotProvider, GotSmtpHost, GotEmail, AddAnswer, rows
  <2> QED BY <2>1, <2>2, SummaryRests
<1>4. CASE AddConfirmed \/ TestSend \/ MarkVerified
  BY <1>4, SummaryRests DEF AddConfirmed, TestSend, MarkVerified, AddDone, rows
<1>5. CASE GotName \/ GotOtpLength \/ \E s \in Slug : GotSlug(s)
  <2>1. UNCHANGED <<projects, shown>> /\ new # "CONFIRM" /\ new' # "CONFIRM"
    BY <1>5 DEF GotName, GotOtpLength, GotSlug, NewAnswer, NewGets, rows
  <2> QED BY <2>1 DEF SummaryInv, NoOtherSender
<1>6. ASSUME NEW a \in Address \cup {NoSender}, GotSender(a) PROVE SummaryInv'
  <2>1. UNCHANGED <<projects, shown>> /\ new' # "CONFIRM"
    BY <1>6 DEF GotSender, NewAnswer, NewGets, rows
  <2> QED BY <2>1 DEF SummaryInv, NoOtherSender
<1>7. CASE GotExpiry
  <2>1. /\ UNCHANGED projects /\ new = "ASK_EXPIRY" /\ user_data'.sender = user_data.sender
        /\ new' = "CONFIRM" =>
             shown' = IF user_data.sender # Missing THEN user_data.sender ELSE NoSender
    BY <1>1, <1>7 DEF GotExpiry, NewAnswer, NewGets, rows, Has, UserData
  <2> QED BY <2>1 DEF SummaryInv, NoOtherSender
<1>8. CASE NewConfirmed
  <2> PICK call \in Call, sender \in Resolved(user_data.sender) :
           /\ projects' \in {projects, [projects EXCEPT ![user_data.slug] =
                                          [sender |-> sender, shown |-> shown]]}
           /\ new' \in {new, "END"} /\ user_data' \in {Empty, user_data}
    BY <1>8 DEF NewConfirmed
  <2>1. new = "CONFIRM" /\ shown' = shown
    BY <1>8 DEF NewConfirmed, NewGets
  <2>2. sender \in {shown, NoSender}
    BY <2>1, MissingAssumption DEF SummaryInv, Resolved, TypeOK, MissingAssumption
  <2>3. NoOtherSender'
    BY <2>2 DEF SummaryInv, NoOtherSender, TypeOK
  <2>4. (new = "CONFIRM" => user_data.sender \in {shown, NoSender, Missing})'
    BY <2>1 DEF SummaryInv, Empty
  <2> QED BY <2>3, <2>4 DEF SummaryInv
<1>9. ASSUME NEW a \in Address, RemoveSender(a) \/ TestSender(a) PROVE SummaryInv'
  BY <1>9, SummaryRests DEF RemoveSender, TestSender, conversation, history
<1>10. CASE UNCHANGED vars
  BY <1>10, SummaryRests DEF vars, conversation, rows, history
<1> QED BY <1>2, <1>3, <1>4, <1>5, <1>6, <1>7, <1>8, <1>9, <1>10 DEF Next

\* Whichever calls fail, whatever /addemail leaves in the shared user_data and
\* whichever senders come and go: a project is never created with a sender that
\* its summary did not show (new_project.py).
THEOREM SendersAreConfirmed == Spec => []NoOtherSender
<1>1. SummaryInv => NoOtherSender
  BY DEF SummaryInv
<1> QED BY <1>1, TypeInit, TypeStep, SummaryInit, SummaryStep, PTL DEF Spec

-----------------------------------------------------------------------------
(* A conversation that nobody cleared is complete.                         *)

Field == {"email", "password", "provider", "smtp", "name", "slug", "available", "sender",
          "otp_length", "expiry"}

\* What a state needs, without the table.
LEMMA Needs ==
  /\ AddNeeds["END"] = {} /\ AddNeeds["ASK_EMAIL"] = {}
  /\ AddNeeds["ASK_PASSWORD"] = {"email"}
  /\ AddNeeds["ASK_PROVIDER"] = {"email", "password"}
  /\ AddNeeds["ASK_SMTP_HOST"] = {"email", "password", "provider"}
  /\ AddNeeds["CONFIRM"] = {"email", "password", "provider", "smtp"}
  /\ NewNeeds["END"] = {} /\ NewNeeds["ASK_NAME"] = {}
  /\ NewNeeds["ASK_SLUG"] = {"name"}
  /\ NewNeeds["ASK_SENDER"] = {"name", "slug", "available"}
  /\ NewNeeds["ASK_OTP_LENGTH"] = {"name", "slug", "sender"}
  /\ NewNeeds["ASK_EXPIRY"] = {"name", "slug", "sender", "otp_length"}
  /\ NewNeeds["CONFIRM"] = {"name", "slug", "sender", "otp_length", "expiry"}
  /\ \A state \in AddState : AddNeeds[state] \subseteq Field
  /\ \A state \in NewState : NewNeeds[state] \subseteq Field
BY DEF AddNeeds, NewNeeds, Field

\* The answers there are.
Given == {f \in Field : user_data[f] # Missing}

LEMMA HasIsGiven == \A keys \in SUBSET Field : Has(keys) <=> keys \subseteq Given
BY DEF Has, Given

LEMMA CompleteGiven ==
  ASSUME TypeOK
  PROVE  IntactIsComplete <=>
           /\ "add" \in intact => AddNeeds[add] \subseteq Given
           /\ "new" \in intact => NewNeeds[new] \subseteq Given
BY Needs, HasIsGiven DEF IntactIsComplete, TypeOK

LEMMA CompleteNext ==
  ASSUME TypeOK',
         ("add" \in intact => AddNeeds[add] \subseteq Given)',
         ("new" \in intact => NewNeeds[new] \subseteq Given)'
  PROVE  IntactIsComplete'
<1>1. \A keys \in SUBSET Field : Has(keys)' <=> keys \subseteq Given'
  BY DEF Has, Given
<1> QED BY <1>1, Needs DEF IntactIsComplete, TypeOK

\* Nothing is taken back between the clearings: an answer joins the others.
LEMMA AnswerJoins ==
  ASSUME user_data \in UserData
  PROVE  /\ \A f \in Field : \A v : v # Missing /\ user_data' = [user_data EXCEPT ![f] = v]
              => Given' = Given \cup {f}
         /\ \A f, g \in Field : \A v, w :
              v # Missing /\ w # Missing /\ user_data' = [user_data EXCEPT ![f] = v, ![g] = w]
              => Given' = Given \cup {f, g}
<1>1. DOMAIN user_data = Field
  BY DEF UserData, Field
<1> QED BY <1>1 DEF Given

LEMMA NothingMissing ==
  /\ TRUE # Missing /\ \A s \in Slug : s # Missing
  /\ \A S \in SUBSET Address : S # Missing
  /\ \A a \in Address \cup {NoSender} : a # Missing
BY MissingAssumption DEF MissingAssumption

\* An answer of one conversation leaves the other one complete, and its own if the
\* state it moves to needs no more than is given.
LEMMA AddAnswerComplete ==
  ASSUME TypeOK, TypeOK', IntactIsComplete, NEW data, NEW next, AddAnswer(data, next),
         Given \subseteq Given',
         next = add \/ ("add" \in intact => AddNeeds[next] \subseteq Given')
  PROVE  IntactIsComplete'
<1>1. intact' = intact /\ new' = new /\ add' \in {add, next}
  BY DEF AddAnswer
<1>2. "add" \in intact => AddNeeds[add'] \subseteq Given'
  BY <1>1, CompleteGiven
<1>3. "new" \in intact => NewNeeds[new'] \subseteq Given'
  BY <1>1, CompleteGiven
<1> QED BY <1>1, <1>2, <1>3, CompleteNext

LEMMA NewAnswerComplete ==
  ASSUME TypeOK, TypeOK', IntactIsComplete, NEW data, NEW next, NewAnswer(data, next),
         Given \subseteq Given',
         next = new \/ ("new" \in intact => NewNeeds[next] \subseteq Given')
  PROVE  IntactIsComplete'
<1>1. intact' = intact /\ add' = add /\ new' \in {new, next}
  BY DEF NewAnswer
<1>2. "add" \in intact => AddNeeds[add'] \subseteq Given'
  BY <1>1, CompleteGiven
<1>3. "new" \in intact => NewNeeds[new'] \subseteq Given'
  BY <1>1, CompleteGiven
<1> QED BY <1>1, <1>2, <1>3, CompleteNext

\* A step that clears user_data, or leaves it, with a conversation that ends, starts
\* or stays.
LEMMA RestComplete ==
  ASSUME TypeOK, TypeOK', IntactIsComplete,
         \/ /\ user_data' = user_data
            /\ intact' \subseteq intact
            /\ "add" \in intact' => add' \in {add, "END", "ASK_EMAIL"}
            /\ "new" \in intact' => new' \in {new, "END", "ASK_NAME"}
         \/ /\ "add" \in intact' => add' = "ASK_EMAIL"
            /\ "new" \in intact' => new' = "ASK_NAME"
  PROVE  IntactIsComplete'
<1>1. user_data' = user_data => Given' = Given
  BY DEF Given
<1>2. "add" \in intact' => AddNeeds[add'] \subseteq Given'
  BY <1>1, CompleteGiven, Needs
<1>3. "new" \in intact' => NewNeeds[new'] \subseteq Given'
  BY <1>1, CompleteGiven, Needs
<1> QED BY <1>2, <1>3, CompleteNext

LEMMA CompleteInit == Init => IntactIsComplete
BY DEF Init, IntactIsComplete

\* Each state of a conversation adds the answer that the next one needs to those
\* that it needs itself, and every step that clears user_data gives the conversation
\* up or starts it.
LEMMA CompleteStep == TypeOK /\ TypeOK' /\ IntactIsComplete /\ [Next]_vars => IntactIsComplete'
<1> SUFFICES ASSUME TypeOK, TypeOK', IntactIsComplete, [Next]_vars PROVE IntactIsComplete'
  OBVIOUS
<1>1. user_data \in UserData /\ add \in AddState /\ new \in NewState /\ active \in SUBSET Address
  BY DEF TypeOK
<1>a. /\ "add" \in intact => AddNeeds[add] \subseteq Given
      /\ "new" \in intact => NewNeeds[new] \subseteq Given
  BY CompleteGiven
<1>2. CASE StartAddEmail \/ StartNewProject \/ Cancel \/ AddRefused \/ NewRefused \/ BotCrash
  BY <1>2, RestComplete DEF StartAddEmail, StartNewProject, Cancel, AddRefused, NewRefused,
                            BotCrash
<1>3. ASSUME NEW a \in Address, GotEmail(a) PROVE IntactIsComplete'
  <2>1. Given' = Given \cup {"email"}
    BY <1>1, <1>3, AnswerJoins, NothingMissing DEF GotEmail, AddAnswer, Field
  <2> QED BY <1>3, <2>1, AddAnswerComplete, Needs DEF GotEmail
<1>4. CASE GotPassword
  <2>1. Given' = Given \cup {"password"}
    BY <1>1, <1>4, AnswerJoins, NothingMissing DEF GotPassword, AddAnswer, Field
  <2> QED BY <1>4, <1>a, <2>1, AddAnswerComplete, Needs DEF GotPassword, AddGets
<1>5. CASE GotProvider
  <2>1. CASE AddAnswer([user_data EXCEPT !.provider = TRUE], "ASK_SMTP_HOST")
    <3>1. Given' = Given \cup {"provider"}
      BY <1>1, <2>1, AnswerJoins, NothingMissing DEF AddAnswer, Field
    <3> QED BY <1>5, <1>a, <2>1, <3>1, AddAnswerComplete, Needs DEF GotProvider, AddGets
  <2>2. CASE AddAnswer([user_data EXCEPT !.provider = TRUE, !.smtp = TRUE],
                       IF Has({"email"}) THEN "CONFIRM" ELSE add)
    <3>1. Given' = Given \cup {"provider", "smtp"}
      BY <1>1, <2>2, AnswerJoins, NothingMissing DEF AddAnswer, Field
    <3> QED BY <1>5, <1>a, <2>2, <3>1, AddAnswerComplete, Needs DEF GotProvider, AddGets
  <2> QED BY <1>5, <2>1, <2>2 DEF GotProvider
<1>6. CASE GotSmtpHost
  <2>1. Given' = Given \cup {"smtp"}
    BY <1>1, <1>6, AnswerJoins, NothingMissing DEF GotSmtpHost, AddAnswer, Field
  <2> QED BY <1>6, <1>a, <2>1, AddAnswerComplete, Needs DEF GotSmtpHost, AddGets
<1>7. CASE AddConfirmed \/ TestSend \/ MarkVerified \/ NewConfirmed
  <2>1. CASE AddConfirmed \/ TestSend \/ MarkVerified
    BY <2>1, RestComplete DEF AddConfirmed, TestSend, MarkVerified, AddDone, TypeOK
  <2>2. CASE NewConfirmed
    BY <2>2, RestComplete DEF NewConfirmed
  <2> QED BY <1>7, <2>1, <2>2
<1>8. CASE GotName
  <2>1. Given' = Given \cup {"name"}
    BY <1>1, <1>8, AnswerJoins, NothingMissing DEF GotName, NewAnswer, Field
  <2> QED BY <1>8, <1>a, <2>1, NewAnswerComplete, Needs DEF GotName, NewGets
<1>9. ASSUME NEW s \in Slug, GotSlug(s) PROVE IntactIsComplete'
  <2>1. CASE NewAnswer([user_data EXCEPT !.slug = s, !.available = active], "ASK_SENDER")
    <3>1. Given' = Given \cup {"slug", "available"}
      BY <1>1, <2>1, AnswerJoins, NothingMissing DEF NewAnswer, Field
    <3> QED BY <1>9, <1>a, <2>1, <3>1, NewAnswerComplete, Needs DEF GotSlug, NewGets
  <2>2. ASSUME NEW next \in {"END", new}, NewAnswer([user_data EXCEPT !.slug = s], next)
        PROVE  IntactIsComplete'
    <3>1. Given' = Given \cup {"slug"}
      BY <1>1, <2>2, AnswerJoins, NothingMissing DEF NewAnswer, Field
    <3> QED BY <1>a, <2>2, <3>1, NewAnswerComplete, Needs
  <2>3. CASE new' = "END" /\ intact' = {}
    BY <2>3, RestComplete
  <2> QED BY <1>9, <2>1, <2>2, <2>3 DEF GotSlug
<1>10. ASSUME NEW a \in Address \cup {NoSender}, GotSender(a) PROVE IntactIsComplete'
  <2>1. Given' = Given \cup {"sender"}
    BY <1>1, <1>10, AnswerJoins, NothingMissing DEF GotSender, NewAnswer, Field
  <2> QED BY <1>10, <1>a, <2>1, NewAnswerComplete, Needs DEF GotSender, NewGets
<1>11. CASE GotOtpLength
  <2>1. Given' = Given \cup {"otp_length"}
    BY <1>1, <1>11, AnswerJoins, NothingMissing DEF GotOtpLength, NewAnswer, Field
  <2> QED BY <1>11, <1>a, <2>1, NewAnswerComplete, Needs DEF GotOtpLength, NewGets
<1>12. CASE GotExpiry
  <2>1. Given' = Given \cup {"expiry"}
    BY <1>1, <1>12, AnswerJoins, NothingMissing DEF GotExpiry, NewAnswer, Field
  <2> QED BY <1>12, <1>a, <2>1, NewAnswerComplete, Needs DEF GotExpiry, NewGets
<1>13. ASSUME NEW a \in Address, RemoveSender(a) \/ TestSender(a) PROVE IntactIsComplete'
  BY <1>13, RestComplete DEF RemoveSender, TestSender, conversation, history
<1>14. CASE UNCHANGED vars
  BY <1>14, RestComplete DEF vars, conversation, history
<1> QED BY <1>2, <1>3, <1>4, <1>5, <1>6, <1>7, <1>8, <1>9, <1>10, <1>11, <1>12, <1>13, <1>14
        DEF Next

\* Over refused answers, failing replies and calls, a crash, and the other wizard
\* writing to the same user_data: a conversation whose answers nobody cleared has
\* every answer that its next handler reads.
THEOREM IntactMeansComplete == Spec => []IntactIsComplete
BY TypeInit, TypeStep, CompleteInit, CompleteStep, PTL DEF Spec

=============================================================================
