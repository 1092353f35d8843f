--------------------------------- MODULE Site ---------------------------------
(***************************************************************************)
(* The web application as one person sees it: browser tabs that share a    *)
(* session, the middleware every request passes, the pages that log in and *)
(* out, and the rows the pages read.  Wizard and Dashboard add the pages   *)
(* behind /onboarding and /dashboard, Platform composes them.              *)
(***************************************************************************)
EXTENDS Naturals, FiniteSets

CONSTANTS
    Tabs,
    None,        \* no instance, no channel
    MaxLogins,   \* bound: times the user logs in
    MaxFaults    \* bound: calls between browser, platform, orchestrator and database that
                 \* fail, and calls of other clients of the orchestrator

ASSUME SiteBounds == MaxLogins \in Nat /\ MaxFaults \in Nat

AuthPaths == {"login", "signup"}
DashboardPaths == {"dashboard", "settings"}
Paths == {"home", "onboarding"} \cup AuthPaths \cup DashboardPaths

\* A page is requested, then fetches what it shows, then shows it or an error;
\* "empty" is the dashboard of a user without an instance.  What the settings
\* page fetches is read in two queries, the second of them when "reading".
At == {"requested", "loading", "reading", "shown", "empty", "failed"}

Statuses == {"creating", "stopped", "running", "error"}
Llms == {"gemma_hosted", "anthropic_byok"}
Instances == [status : Statuses, llm : Llms]

ASSUME NoneIsNone == None \notin Instances \cup Tabs

VARIABLES
    account,    \* of the authentication service
    session,    \* the cookie all tabs share
    loc,        \* where each tab is
    instance,   \* the row of "instances"
    deleted,    \* history: the last one was deleted
    apiKey,     \* whether the user has a row in user_api_keys
    progress,   \* onboarding_progress: no row, a row, completed_at set
    logins, faults

database == <<instance, deleted, apiKey, progress>>
site == <<account, session, loc, database, logins, faults>>

SiteTypeOK ==
    /\ account \in {"none", "mailed", "confirmed"}
    /\ session \in BOOLEAN
    /\ loc \in [Tabs -> [path : Paths, at : At]]
    /\ instance \in Instances \cup {None}
    /\ deleted \in BOOLEAN /\ apiKey \in BOOLEAN
    /\ progress \in {"none", "begun", "completed"}
    /\ logins \in 0..MaxLogins
    /\ faults \in 0..MaxFaults

\* The user is new, or signed up some time ago and went no further.
SiteInit ==
    /\ account \in {"none", "confirmed"} /\ session = FALSE
    /\ loc = [t \in Tabs |-> [path |-> "home", at |-> "shown"]]
    /\ instance = None /\ deleted = FALSE /\ apiKey = FALSE /\ progress = "none"
    /\ logins = 0 /\ faults = 0

-----------------------------------------------------------------------------
Goto(t, path, at) == loc' = [loc EXCEPT ![t] = [path |-> path, at |-> at]]
Arrives(path) == IF path \in {"onboarding"} \cup DashboardPaths THEN "loading" ELSE "shown"
Is(t, path, at) == loc[t] = [path |-> path, at |-> at]
Fault == faults < MaxFaults /\ faults' = faults + 1

\* An update finds the row, or none.
WithStatus(st) == IF instance = None THEN None ELSE [instance EXCEPT !.status = st]

\* A link, an address typed in, a reload.
Request(t, path) ==
    /\ loc[t].at \in {"shown", "empty", "failed"}
    /\ Goto(t, path, "requested")
    /\ UNCHANGED <<account, session, database, logins, faults>>

(***************************************************************************)
(* middleware, by the request's path.                                      *)
(***************************************************************************)
Middleware(t) ==
    LET path == loc[t].path IN
    /\ loc[t].at = "requested"
    /\ \/ /\ ~session /\ path \notin {"home"} \cup AuthPaths
          /\ Goto(t, "login", "requested")
       \/ /\ session /\ path \in AuthPaths
          /\ Goto(t, "dashboard", "requested")
       \/ /\ session /\ path \in DashboardPaths /\ progress # "completed"
          /\ Goto(t, "onboarding", "requested")
       \/ /\ session => path \notin AuthPaths
          /\ path \in DashboardPaths => session /\ progress = "completed"
          /\ path = "onboarding" => session
          /\ Goto(t, path, Arrives(path))
    /\ UNCHANGED <<account, session, database, logins, faults>>

\* A query for the progress that fails counts as one not completed.
MiddlewareFails(t) ==
    /\ loc[t].at = "requested" /\ loc[t].path \in DashboardPaths /\ session
    /\ Goto(t, "onboarding", "requested")
    /\ Fault
    /\ UNCHANGED <<account, session, database, logins>>

-----------------------------------------------------------------------------
LogIn == session' = TRUE /\ logins < MaxLogins /\ logins' = logins + 1

HandleEmailLogin(t) ==
    /\ Is(t, "login", "shown") /\ account = "confirmed"
    /\ LogIn
    /\ Goto(t, "dashboard", "requested")
    /\ UNCHANGED <<account, database, faults>>

HandleEmailSignup(t) ==
    /\ Is(t, "signup", "shown") /\ account = "none"
    /\ account' = "mailed"
    /\ UNCHANGED <<session, loc, database, logins, faults>>

\* /auth/callback, from the mailed link in any tab, or from Google and the
\* buttons of the login and signup pages.
Callback(t) ==
    /\ loc[t].at = "shown"
    /\ account = "mailed" \/ loc[t].path \in AuthPaths
    /\ account' = "confirmed"
    /\ LogIn
    /\ Goto(t, "onboarding", "requested")
    /\ UNCHANGED <<database, faults>>

CallbackFails(t) ==
    /\ loc[t].at = "shown"
    /\ account = "mailed" \/ loc[t].path \in AuthPaths
    /\ Goto(t, "login", "requested")
    /\ Fault
    /\ UNCHANGED <<account, session, database, logins>>

HandleLogout(t) ==
    /\ loc[t].path \in DashboardPaths /\ loc[t].at \notin {"requested", "failed"}
    /\ session' = FALSE
    /\ Goto(t, "home", "requested")
    /\ UNCHANGED <<account, database, logins, faults>>

SiteStep(t) ==
    \/ \E path \in Paths : Request(t, path)
    \/ Middleware(t) \/ MiddlewareFails(t)
    \/ HandleEmailLogin(t) \/ HandleEmailSignup(t)
    \/ Callback(t) \/ CallbackFails(t) \/ HandleLogout(t)
=============================================================================
