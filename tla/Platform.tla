------------------------------- MODULE Platform -------------------------------
(***************************************************************************)
(* The pages of the web application together: one account, one row of      *)
(* "instances", tabs that go through the onboarding, the dashboard and the *)
(* settings side by side.                                                  *)
(***************************************************************************)
EXTENDS Wizard, Dashboard

vars == <<site, wizard, dash>>

TypeOK == SiteTypeOK /\ WizardTypeOK /\ DashTypeOK

Init == SiteInit /\ WizardInit /\ DashInit

\* Nor do the settings pages shown hear of a key that an onboarding still under
\* way saves, after that of another tab was completed.
ConfiguresUnheard(t) ==
    /\ PostConfigure(t)
    /\ behind' = IF post[t].body.key THEN behind \cup OnSettings ELSE behind
    /\ UNCHANGED <<shown, put, restart, puts>>

\* POST /instances by another client, which races a create of the onboarding.
CreateElsewhere ==
    /\ instance = None /\ instance' = [status |-> "stopped", llm |-> "gemma_hosted"]
    /\ deleted' = FALSE /\ progress' = Begun
    /\ Fault
    /\ Elsewhere /\ UNCHANGED <<apiKey, wizard, dash>>

Next ==
    \/ \E t \in Tabs :
          \/ SiteStep(t) /\ LeaveWizard(t) /\ LeaveSettings(t)
          \/ (CheckStatus(t) \/ CheckStatusFails(t)) /\ UNCHANGED dash
          \/ DashStep(t) /\ UNCHANGED wizard
    \/ \E t \in WizardTabs : (WizardStep(t) /\ UNCHANGED dash) \/ ConfiguresUnheard(t)
    \/ \E s \in {"stopped", "running"} : ContainerTurns(s) /\ UNCHANGED wizard
    \/ CreateElsewhere \/ (DeleteInstance /\ UNCHANGED wizard)

Spec == Init /\ [][Next]_vars

\* A page under way gets on, by the one of these steps that is its next.
GetsOn(t) ==
    /\ loc[t].at \in {"requested", "loading", "reading"}
    /\ \/ Middleware(t) /\ LeaveWizard(t) /\ LeaveSettings(t)
       \/ CheckStatus(t) /\ UNCHANGED dash
       \/ (FetchInstance(t) \/ RefuseLoad(t) \/ ReadRow(t) \/ LoadConfig(t)) /\ UNCHANGED wizard

\* Requests are answered and pages load; nobody has to press a button.
FairSpec == Spec /\ \A t \in Tabs : WF_loc(GetsOn(t))

-----------------------------------------------------------------------------
(***************************************************************************)
(* Properties.                                                             *)
(***************************************************************************)
\* However a user goes back and forth through the steps, the request of the
\* last one carries what was decided last: a key only with the user's own
\* model, a token of the right form for the channel chosen and no other.
PostMatchesChoices ==
    \A t \in WizardTabs : post[t].pc # "idle" /\ data[t].step = 5 =>
        post[t].body =
            [key |-> choice[t].llm = "anthropic_byok",
             tokens |-> [c \in Channels |-> IF c = choice[t].channel THEN "good" ELSE ""]]

\* The middleware lets a user in to the dashboard by onboarding_progress
\* alone, which the platform writes; the orchestrator writes the instance.
\* Whatever fails in between, and whichever of two tabs creates it, who has
\* completed has an instance, until DELETE /instances/me removes it: that
\* leaves completed_at, and the dashboard opens without one.
CompletedHasInstance == progress = "completed" => instance # None \/ deleted

\* The settings page computes what it shows after a change on its own.  It is
\* what the server has, unless the page could not load it, a request failed,
\* or the server changed after it on behalf of another page.
ShownMatchesServer ==
    \A t \in Tabs \ behind :
        Is(t, "settings", "shown") => put[t].pc = "answered" \/ shown[t] = Has

\* The middleware and the onboarding page redirect by the same row, the login
\* page and the middleware by the same session: no tab is sent round for ever.
NavigationRests ==
    \A t \in Tabs :
        loc[t].at \in {"requested", "loading", "reading"} ~>
            loc[t].at \in {"shown", "empty", "failed"}
=============================================================================
