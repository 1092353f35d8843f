------------------------------- MODULE Dashboard -------------------------------
(***************************************************************************)
(* The pages /dashboard and /dashboard/settings, the routes behind them    *)
(* and what getConfig, updateConfig, restart and delete make of the row.   *)
(* A request to the server takes effect at one time and is answered at a   *)
(* later one; the page may have been left or loaded anew by then.          *)
(* InstanceLifecycle and LlmProxy model the same handlers call by call.    *)
(***************************************************************************)
EXTENDS Site

CONSTANT MaxPuts    \* bound: requests of the settings page

ASSUME PutsBound == MaxPuts \in Nat

Kinds == {"profile", "saveKey", "removeKey", "toHosted", "toByok"}

VARIABLES
    shown,      \* activeLlm and hasApiKey of the settings page
    put,        \* the settings page's request
    restart,    \* the tab whose restart request is under way; one at a time
    behind,     \* tabs whose settings page cannot know what the server has
    puts

dash == <<shown, put, restart, behind, puts>>

\* A request is under way; so it is, but its page is gone; its answer is.
Pcs == {"idle", "sent", "left", "answered"}

DashTypeOK ==
    /\ shown \in [Tabs -> [key : BOOLEAN, llm : Llms]]
    /\ put \in [Tabs -> [kind : Kinds, pc : Pcs]]
    /\ restart \in Tabs \cup {None}
    /\ behind \subseteq Tabs
    /\ puts \in 0..MaxPuts

\* The useState defaults of the page.
Defaults == [key |-> FALSE, llm |-> "gemma_hosted"]
NoPut == [kind |-> "profile", pc |-> "idle"]

DashInit ==
    /\ shown = [t \in Tabs |-> Defaults]
    /\ put = [t \in Tabs |-> NoPut]
    /\ restart = None
    /\ behind = {}
    /\ puts = 0

-----------------------------------------------------------------------------
(***************************************************************************)
(* The dashboard.  statusConfig knows running, stopped and starting: with  *)
(* any other status the page fails to render.  An error stays until the    *)
(* page is loaded again.                                                   *)
(***************************************************************************)
\* What becomes of the page that fetches this row.
Fetched(row) ==
    IF ~session THEN "failed"
    ELSE IF row = None THEN "empty"
    ELSE IF row.status \in {"running", "stopped", "starting"} THEN "shown" ELSE "failed"

FetchInstance(t) ==
    /\ Is(t, "dashboard", "loading")
    /\ Goto(t, "dashboard", Fetched(instance))
    /\ UNCHANGED <<account, session, database, logins, faults, dash>>

FetchInstanceFails(t) ==
    /\ Is(t, "dashboard", "loading")
    /\ Goto(t, "dashboard", "failed")
    /\ Fault
    /\ UNCHANGED <<account, session, database, logins, dash>>

\* The row is 'creating' until the container has started; the page fetches it
\* again after the answer, if it is still there.
HandleRestart(t) ==
    /\ Is(t, "dashboard", "shown") /\ session /\ instance # None /\ restart = None
    /\ instance' = [instance EXCEPT !.status = "creating"]
    /\ restart' = t
    /\ UNCHANGED <<account, session, loc, deleted, apiKey, progress, logins, faults,
                   shown, put, behind, puts>>

\* The session has ended or the instance is gone since the page fetched it.
RefuseRestart(t) ==
    /\ Is(t, "dashboard", "shown") /\ (~session \/ instance = None) /\ restart = None
    /\ Goto(t, "dashboard", "failed")
    /\ UNCHANGED <<account, session, database, logins, faults, dash>>

\* A plausible slip: a status of its own for a container that is up again.
RestartedAsActive(t) ==
    /\ restart = t
    /\ instance' = WithStatus("active")
    /\ restart' = None
    /\ IF Is(t, "dashboard", "shown") THEN Goto(t, "dashboard", Fetched(WithStatus("active")))
                                      ELSE UNCHANGED loc
    /\ UNCHANGED <<account, session, deleted, apiKey, progress, logins, faults,
                   shown, put, behind, puts>>

\* The update finds no row if the instance was deleted meanwhile.
Restarted(t) ==
    /\ restart = t
    /\ instance' = WithStatus("running")
    /\ restart' = None
    /\ IF Is(t, "dashboard", "shown") THEN Goto(t, "dashboard", Fetched(WithStatus("running")))
                                      ELSE UNCHANGED loc
    /\ UNCHANGED <<account, session, deleted, apiKey, progress, logins, faults,
                   shown, put, behind, puts>>

\* A container that does not start leaves the row in 'creating'.
RestartFails(t) ==
    /\ restart = t
    /\ restart' = None
    /\ IF Is(t, "dashboard", "shown") THEN Goto(t, "dashboard", "failed") ELSE UNCHANGED loc
    /\ Fault
    /\ UNCHANGED <<account, session, database, logins, shown, put, behind, puts>>

\* Messages start the container, the idle job and the monitor stop it.
ContainerTurns(status) ==
    /\ instance # None /\ instance.status # status
    /\ instance' = [instance EXCEPT !.status = status]
    /\ UNCHANGED <<account, session, loc, deleted, apiKey, progress, logins, faults, dash>>

-----------------------------------------------------------------------------
(***************************************************************************)
(* The settings page.                                                      *)
(***************************************************************************)
\* Its state ends when the tab leaves it; its request goes on.
LeaveSettings(t) ==
    /\ shown' = [shown EXCEPT ![t] = Defaults]
    /\ behind' = behind \ {t}
    /\ put' = [put EXCEPT ![t] = IF @.pc = "sent" THEN [@ EXCEPT !.pc = "left"]
                                ELSE IF @.pc = "answered" THEN NoPut ELSE @]
    /\ UNCHANGED <<restart, puts>>

Has == [key |-> apiKey, llm |-> instance.llm]

\* getConfig reads the row, then the key.
ReadRow(t) ==
    /\ Is(t, "settings", "loading") /\ session /\ instance # None
    /\ Goto(t, "settings", "reading")
    /\ shown' = [shown EXCEPT ![t].llm = instance.llm]
    /\ UNCHANGED <<account, session, database, logins, faults, put, restart, behind, puts>>

\* What the answer says is shown: a page that waits for it is overtaken by a
\* change no otherwise than one that shows it.
LoadConfig(t) ==
    /\ Is(t, "settings", "reading")
    /\ Goto(t, "settings", "shown")
    /\ shown' = [shown EXCEPT ![t].key = apiKey]
    /\ UNCHANGED <<account, session, database, logins, faults, put, restart, behind, puts>>

\* An error message above the defaults.
RefuseLoad(t) ==
    /\ Is(t, "settings", "loading") /\ (~session \/ instance = None)
    /\ Goto(t, "settings", "shown")
    /\ behind' = behind \cup {t}
    /\ UNCHANGED <<account, session, database, logins, faults, shown, put, restart, puts>>

\* So also when a call fails, but for the look-up of the key, where a failure
\* counts as none.
LoadConfigFails(t) ==
    /\ Is(t, "settings", "loading") \/ Is(t, "settings", "reading")
    /\ Goto(t, "settings", "shown")
    /\ \/ shown' = [shown EXCEPT ![t] = Defaults]
       \/ Is(t, "settings", "reading") /\ UNCHANGED shown
    /\ behind' = behind \cup {t}
    /\ Fault
    /\ UNCHANGED <<account, session, database, logins, put, restart, puts>>

\* The buttons, as the page enables them.
Offered(t) ==
    {k \in Kinds :
        /\ k = "removeKey" => shown[t].key
        /\ k = "toHosted" => shown[t].llm # "gemma_hosted"
        /\ k = "toByok" => shown[t].llm # "anthropic_byok" /\ shown[t].key}

SubmitConfig(t) ==
    /\ Is(t, "settings", "shown") /\ put[t].pc = "idle"
    /\ puts < MaxPuts /\ puts' = puts + 1
    /\ \E k \in Offered(t) : put' = [put EXCEPT ![t] = [kind |-> k, pc |-> "sent"]]
    /\ UNCHANGED <<site, shown, restart, behind>>

\* updateConfig, of the key and active_llm.
Updated(kind, s) ==
    CASE kind = "profile" -> s
      [] kind = "saveKey" -> [s EXCEPT !.key = TRUE, !.llm = "anthropic_byok"]
      [] kind = "removeKey" -> [s EXCEPT !.key = FALSE, !.llm = "gemma_hosted"]
      [] kind = "toHosted" -> [s EXCEPT !.llm = "gemma_hosted"]
      [] kind = "toByok" -> [s EXCEPT !.llm = "anthropic_byok"]

\* A plausible slip: handleRemoveApiKey forgets setActiveLlm.
ShowsOldLlm(kind, s) ==
    [key |-> kind = "saveKey" \/ (s.key /\ kind # "removeKey"),
     llm |-> IF kind \in {"saveKey", "toByok"} THEN "anthropic_byok"
             ELSE IF kind \in {"profile", "removeKey"} THEN s.llm ELSE "gemma_hosted"]

\* What handleSaveProfile, handleSaveApiKey, handleRemoveApiKey and
\* handleSwitchLlm set on success.
Shows(kind, s) ==
    [key |-> kind = "saveKey" \/ (s.key /\ kind # "removeKey"),
     llm |-> IF kind \in {"saveKey", "toByok"} THEN "anthropic_byok"
             ELSE IF kind = "profile" THEN s.llm ELSE "gemma_hosted"]

Refuses(kind) == \/ ~session \/ instance = None
                 \/ kind = "toByok" /\ ~apiKey

Sent(t) == put[t].pc \in {"sent", "left"}
Now(t, pc) == IF put[t].pc = "left" \/ pc = "idle" THEN NoPut ELSE [put[t] EXCEPT !.pc = pc]

\* The tabs that hold something of the server's, or wait for the rest of it.
OnSettings == {t \in Tabs : loc[t].path = "settings" /\ loc[t].at \in {"reading", "shown"}}

\* The pages that other tabs show or load, and this one's if it was loaded
\* meanwhile, do not hear of the change.
UpdateConfig(t) ==
    LET new == Updated(put[t].kind, Has) IN
    /\ Sent(t) /\ ~Refuses(put[t].kind)
    /\ put' = [put EXCEPT ![t] = Now(t, "answered")]
    /\ apiKey' = new.key
    /\ instance' = [instance EXCEPT !.llm = new.llm]
    /\ behind' = behind \cup (OnSettings \ (IF put[t].pc = "sent" THEN {t} ELSE {}))
    /\ UNCHANGED <<account, session, loc, deleted, progress, logins, faults, shown, restart, puts>>

\* What the page shows of a refusal is a message.
RefuseConfig(t) ==
    /\ Sent(t) /\ Refuses(put[t].kind)
    /\ put' = [put EXCEPT ![t] = NoPut]
    /\ UNCHANGED <<site, shown, restart, behind, puts>>

\* The request fails, before it reaches the row or after; or an update whose
\* error nobody looks at is reported as done.
UpdateConfigFails(t) ==
    /\ put[t].pc # "idle"
    /\ \E pc \in {"answered", "idle"} : put' = [put EXCEPT ![t] = Now(t, pc)]
    /\ behind' = IF put[t].pc = "left" THEN behind ELSE behind \cup {t}
    /\ Fault
    /\ UNCHANGED <<account, session, loc, database, logins, shown, restart, puts>>

\* Back on the page: what a success shows follows from the request alone.
ConfigAnswered(t) ==
    /\ put[t].pc = "answered"
    /\ put' = [put EXCEPT ![t] = NoPut]
    /\ shown' = [shown EXCEPT ![t] = Shows(put[t].kind, @)]
    /\ UNCHANGED <<site, restart, behind, puts>>

-----------------------------------------------------------------------------
\* DELETE /instances/me by another client: no page of this application asks
\* for it.  The container goes with the row; user_api_keys and
\* onboarding_progress stay.
DeleteInstance ==
    /\ instance # None
    /\ instance' = None /\ deleted' = TRUE
    /\ behind' = behind \cup OnSettings
    /\ Fault
    /\ UNCHANGED <<account, session, loc, apiKey, progress, logins,
                   shown, put, restart, puts>>

DashStep(t) ==
    \/ FetchInstance(t) \/ FetchInstanceFails(t)
    \/ HandleRestart(t) \/ RefuseRestart(t) \/ Restarted(t) \/ RestartFails(t)
    \/ ReadRow(t) \/ LoadConfig(t) \/ RefuseLoad(t) \/ LoadConfigFails(t)
    \/ SubmitConfig(t)
    \/ UpdateConfig(t) \/ RefuseConfig(t) \/ UpdateConfigFails(t) \/ ConfigAnswered(t)
=============================================================================
