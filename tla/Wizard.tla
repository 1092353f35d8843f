-------------------------------- MODULE Wizard --------------------------------
(***************************************************************************)
(* The five steps of /onboarding, POST /api/onboarding behind the last of  *)
(* them, and the check that keeps a user who has completed it out.         *)
(***************************************************************************)
EXTENDS Site

CONSTANTS
    Channels,    \* the channels the third step offers
    WizardTabs   \* bound: the tabs in which the user goes through the steps

ASSUME WizardTabsAreTabs == WizardTabs \subseteq Tabs
ASSUME NoChannelIsNone == None \notin Channels

\* A token left empty, or one of the right form: one of another form enables
\* nothing but to change it, to go back and to skip.
Tokens == {"", "good"}

Bodies == [key : BOOLEAN, tokens : [Channels -> Tokens]]

VARIABLES
    data,      \* the state of the page and of its steps
    choice,    \* what the user last decided, for the properties
    post       \* the request of the last step

wizard == <<data, choice, post>>

WizardTypeOK ==
    /\ data \in [WizardTabs ->
            [step : 1..5, key : BOOLEAN, skipApiKey : BOOLEAN, channelType : Channels \cup {None},
             tokens : [Channels -> Tokens], skipChannel : BOOLEAN,
             status : {"", "loading", "success", "error"}]]
    /\ choice \in [WizardTabs -> [llm : Llms, channel : Channels \cup {None}]]
    /\ post \in [WizardTabs -> [pc : {"idle", "auth", "create", "insert", "configure", "complete"},
                                body : Bodies]]

NoTokens == [c \in Channels |-> ""]
Fresh == [step |-> 1, key |-> FALSE, skipApiKey |-> TRUE, channelType |-> None,
          tokens |-> NoTokens, skipChannel |-> FALSE, status |-> ""]
Undecided == [llm |-> "gemma_hosted", channel |-> None]
NoPost == [pc |-> "idle", body |-> [key |-> FALSE, tokens |-> NoTokens]]

WizardInit ==
    /\ data = [t \in WizardTabs |-> Fresh]
    /\ choice = [t \in WizardTabs |-> Undecided]
    /\ post = [t \in WizardTabs |-> NoPost]

-----------------------------------------------------------------------------
\* The state of the page and its steps ends when the tab leaves it.
LeaveWizard(t) ==
    /\ data' = [u \in WizardTabs |-> IF u = t THEN Fresh ELSE data[u]]
    /\ choice' = [u \in WizardTabs |-> IF u = t THEN Undecided ELSE choice[u]]
    /\ UNCHANGED post

\* A plausible slip: any row of onboarding_progress counts.
StatusOfAnyRow(t) ==
    /\ Is(t, "onboarding", "loading")
    /\ IF session /\ progress # "none" THEN Goto(t, "dashboard", "requested")
                                       ELSE Goto(t, "onboarding", "shown")
    /\ UNCHANGED <<account, session, database, logins, faults, wizard>>

\* GET /api/onboarding/status: to the dashboard, or the first step.
CheckStatus(t) ==
    /\ Is(t, "onboarding", "loading")
    /\ IF session /\ progress = "completed" THEN Goto(t, "dashboard", "requested")
                                            ELSE Goto(t, "onboarding", "shown")
    /\ UNCHANGED <<account, session, database, logins, faults, wizard>>

\* Whatever goes wrong, the steps are shown.
CheckStatusFails(t) ==
    /\ Is(t, "onboarding", "loading")
    /\ Goto(t, "onboarding", "shown")
    /\ Fault
    /\ UNCHANGED <<account, session, database, logins, wizard>>

-----------------------------------------------------------------------------
\* Steps that are still shown after the onboarding was completed elsewhere are
\* left out, but for the last.
OnStep(t, n) ==
    /\ Is(t, "onboarding", "shown") /\ data[t].step = n
    /\ progress = "completed" => n = 5

\* updateData and onNext or onPrev, which React applies together.
Becomes(t, d) == data' = [data EXCEPT ![t] = d] /\ UNCHANGED <<site, post>>
Decide(t, what) == choice' = [choice EXCEPT ![t] = what]

Step1ApiKey(t) ==
    /\ OnStep(t, 1)
    /\ \/ /\ Becomes(t, [data[t] EXCEPT !.step = 2, !.key = TRUE, !.skipApiKey = FALSE])
          /\ Decide(t, [choice[t] EXCEPT !.llm = "anthropic_byok"])
       \/ /\ Becomes(t, [data[t] EXCEPT !.step = 2, !.key = FALSE, !.skipApiKey = TRUE])
          /\ Decide(t, [choice[t] EXCEPT !.llm = "gemma_hosted"])

\* The texts of the agent are left out.
Step2Agent(t) ==
    /\ OnStep(t, 2)
    /\ \E n \in {1, 3} : Becomes(t, [data[t] EXCEPT !.step = n])
    /\ UNCHANGED choice

\* A plausible slip: the request carries whatever was typed.
BodyOfAllTokens(d) ==
    [key |-> ~d.skipApiKey /\ d.key,
     tokens |-> [c \in Channels |-> IF ~d.skipChannel THEN d.tokens[c] ELSE ""]]

\* The request that step 5 sends when it appears.
Body(d) ==
    [key |-> ~d.skipApiKey /\ d.key,
     tokens |-> [c \in Channels |-> IF d.channelType = c /\ ~d.skipChannel THEN d.tokens[c] ELSE ""]]

\* (A second request while the first is under way is left out.)
Complete(t, d, what) ==
    /\ post[t].pc = "idle"
    /\ data' = [data EXCEPT ![t] = [d EXCEPT !.step = 5, !.status = "loading"]]
    /\ post' = [post EXCEPT ![t] = [pc |-> "auth", body |-> Body(d)]]
    /\ Decide(t, [choice[t] EXCEPT !.channel = what])
    /\ UNCHANGED site

\* "Later" leads through step 4, which has nothing to ask, to step 5.
Step3ChannelSelect(t) ==
    /\ OnStep(t, 3)
    /\ \/ \E c \in Channels :
             /\ Becomes(t, [data[t] EXCEPT !.channelType = c, !.skipChannel = FALSE])
             /\ UNCHANGED choice
       \/ /\ data[t].channelType # None
          /\ Becomes(t, [data[t] EXCEPT !.step = 4]) /\ UNCHANGED choice
       \/ /\ Becomes(t, [data[t] EXCEPT !.step = 2]) /\ UNCHANGED choice
       \/ Complete(t, [data[t] EXCEPT !.channelType = None, !.skipChannel = TRUE], None)

\* Step4Telegram and Step4Slack differ in the form of the token alone.
Step4ChannelSetup(t) ==
    LET c == data[t].channelType IN
    /\ OnStep(t, 4)
    /\ \/ \E v \in Tokens : Becomes(t, [data[t] EXCEPT !.tokens[c] = v]) /\ UNCHANGED choice
       \/ Becomes(t, [data[t] EXCEPT !.step = 3]) /\ UNCHANGED choice
       \/ /\ data[t].tokens[c] = "good"
          /\ Complete(t, [data[t] EXCEPT !.skipChannel = FALSE], c)
       \/ /\ data[t].tokens[c] = ""
          /\ Complete(t, [data[t] EXCEPT !.skipChannel = TRUE], None)
       \/ Complete(t, [data[t] EXCEPT !.skipChannel = TRUE, !.tokens[c] = ""], None)

\* "Try again" shows the spinner; the effect that sends the request depends
\* on data alone and does not run again.
Step5Complete(t) ==
    /\ OnStep(t, 5)
    /\ \/ /\ data[t].status = "error"
          /\ data' = [data EXCEPT ![t].status = "loading"]
          /\ UNCHANGED <<site, post, choice>>
       \/ /\ data[t].status = "success"
          /\ Goto(t, "dashboard", "requested") /\ LeaveWizard(t)
          /\ UNCHANGED <<account, session, database, logins, faults>>

-----------------------------------------------------------------------------
(***************************************************************************)
(* POST /api/onboarding, which goes on when the tab does not wait for it.  *)
(* Connecting the channel comes between "configure" and "complete"; its    *)
(* failures are dropped, and Telegram, whose user name the page does not   *)
(* send, is never connected.                                               *)
(***************************************************************************)
Proceed(t, from, to) ==
    /\ post[t].pc = from
    /\ post' = [post EXCEPT ![t].pc = to]

\* The answer reaches the page if it still shows the request's spinner.
Answer(t, from, status) ==
    /\ post[t].pc = from
    /\ post' = [post EXCEPT ![t] = NoPost]
    /\ data' = IF data[t].step = 5
               THEN [data EXCEPT ![t].status = status] ELSE data
    /\ UNCHANGED choice

Elsewhere == UNCHANGED <<account, session, loc, logins>>

PostAuth(t) ==
    /\ IF session THEN Proceed(t, "auth", "create") /\ UNCHANGED <<data, choice>>
                  ELSE Answer(t, "auth", "error")
    /\ Elsewhere /\ UNCHANGED <<database, faults>>

\* create looks for a row of the user, in one query.  "Instance already
\* exists": the request goes on, and what it would have configured is dropped.
PostCreate(t) ==
    /\ Proceed(t, "create", IF instance = None THEN "insert" ELSE "complete")
    /\ Elsewhere /\ UNCHANGED <<database, faults, data, choice>>

\* And inserts one in the next.  user_id is UNIQUE: the loser of two is told
\* "Failed to create instance".
Inserts ==
    /\ instance = None /\ instance' = [status |-> "creating", llm |-> "gemma_hosted"]
    /\ deleted' = FALSE

PostInsert(t) ==
    /\ \/ Inserts /\ Proceed(t, "insert", "configure") /\ UNCHANGED <<data, choice>>
       \/ instance # None /\ Answer(t, "insert", "error") /\ UNCHANGED <<instance, deleted>>
    /\ Elsewhere /\ UNCHANGED <<apiKey, progress, faults>>

\* The upsert of onboarding_progress leaves completed_at alone.
Begun == IF progress = "none" THEN "begun" ELSE progress

\* The last answer of the creation may be lost.
PostConfigure(t) ==
    /\ \/ Proceed(t, "configure", "complete") /\ UNCHANGED <<faults, data, choice>>
       \/ Answer(t, "configure", "error") /\ Fault
    /\ apiKey' = (apiKey \/ post[t].body.key)
    /\ instance' = IF post[t].body.key /\ instance # None
                   THEN [status |-> "stopped", llm |-> "anthropic_byok"]
                   ELSE WithStatus("stopped")
    /\ progress' = Begun
    /\ Elsewhere /\ UNCHANGED deleted

PostComplete(t) ==
    /\ Answer(t, "complete", "success")
    /\ progress' = "completed"
    /\ Elsewhere /\ UNCHANGED <<instance, deleted, apiKey, faults>>

\* A plausible slip: no failure of the creation ends the request.
PostFailsSilently(t) ==
    /\ \/ Proceed(t, "create", "complete") /\ UNCHANGED <<database, data, choice>>
       \/ /\ Answer(t, "configure", "error")
          /\ instance' = WithStatus("error") /\ progress' = Begun /\ UNCHANGED <<deleted, apiKey>>
       \/ Answer(t, "complete", "success") /\ UNCHANGED database
    /\ Fault
    /\ Elsewhere

\* A look-up that fails counts as one that found nothing, and an upsert that
\* fails goes unnoticed; a creation that throws half-way, at the key, leaves
\* the row in status 'error'.  The page is told of an error also when only the
\* answer is lost.
PostFails(t) ==
    /\ \/ Answer(t, "create", "error") /\ UNCHANGED database
       \/ Proceed(t, "create", "insert") /\ UNCHANGED <<database, data, choice>>
       \/ /\ Answer(t, "insert", "error")
          /\ Inserts \/ UNCHANGED <<instance, deleted>>
          /\ UNCHANGED <<apiKey, progress>>
       \/ /\ Answer(t, "configure", "error")
          /\ instance' = WithStatus("error") /\ progress' = Begun /\ UNCHANGED <<deleted, apiKey>>
       \/ Answer(t, "complete", "success") /\ UNCHANGED database
       \/ /\ Answer(t, "complete", "error") /\ progress' = "completed"
          /\ UNCHANGED <<instance, deleted, apiKey>>
    /\ Fault
    /\ Elsewhere

\* All but PostConfigure, which the settings page has to do with.
WizardStep(t) ==
    \/ Step1ApiKey(t) \/ Step2Agent(t) \/ Step3ChannelSelect(t)
    \/ Step4ChannelSetup(t) \/ Step5Complete(t)
    \/ PostAuth(t) \/ PostCreate(t) \/ PostInsert(t) \/ PostComplete(t) \/ PostFails(t)
=============================================================================
