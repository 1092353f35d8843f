------------------------------- MODULE Channels -------------------------------
(***************************************************************************)
(* Slack channels: the page /dashboard/channels in each browser tab, the   *)
(* calls of ChannelsService behind it, the table "channels", and           *)
(* SlackSocketService, which routes messages by that table.                *)
(*                                                                         *)
(* A call is a sequence of round trips, to the database or to Slack, that  *)
(* interleave with those of the other calls.  There are no rows of type    *)
(* 'telegram', and no action for that half of the page: it posts no        *)
(* botUsername, which the DTO requires, so the connect is rejected before  *)
(* it reads or writes anything.                                            *)
(***************************************************************************)
EXTENDS Naturals, FiniteSets, Sequences, SequencesExt

CONSTANTS
    Users,
    Teams,        \* Slack workspaces
    HomeTeam,     \* the one the messages are written in
    Tabs,         \* browser tabs on the page
    Events,       \* messages written in Slack
    None,         \* no row, no team, no user
    MaxRows,      \* bound: rows ever inserted
    MaxPresses,   \* bound: times a button is pressed
    MaxFaults,    \* bound: database and network calls that fail
    MaxRepeats,   \* bound: redeliveries by Slack
    MaxCrashes    \* bound: crashes of the orchestrator process

ASSUME NoneIsNone == None \notin Users \cup Teams \cup Nat
ASSUME HomeTeamIsTeam == HomeTeam \in Teams
ASSUME ChannelBounds == {MaxRows, MaxPresses, MaxFaults, MaxRepeats, MaxCrashes} \subseteq Nat

\* A row's identifier is its place in the order of created_at.
Ids == 1..MaxRows
\* A Slack message that names the bot arrives as two events.
Kinds == {"message", "app_mention"}
Rows == [user : Users, team : Teams, active : BOOLEAN]

VARIABLES
    instance,   \* the users who have a row in "instances"
    rows,       \* channels as inserted; None where one was deleted
    order,      \* their ids, latest connected_at first; a deleted one keeps its place
    owner,      \* the user logged in in each tab
    page,       \* what each tab shows
    conn,       \* handleConnect of each tab and the call behind it
    disc,       \* handleDisconnect of each tab and the call behind it
    stage,      \* where each event stands
    target,     \* the user an event is being dispatched to
    processed,  \* processedEvents
    eligible,   \* users with an active row for its team since an event was sent
    handled,    \* how often an event was dispatched
    forgotten,  \* how often it was dropped from processedEvents
    doubled,    \* users two of whose connects overlapped, or whose lookup failed
    presses, faults, repeats, crashes

table == <<instance, rows, order>>
tabs == <<owner, page, conn, disc, presses>>
socket == <<stage, target, processed, handled, forgotten, repeats>>
vars == <<table, tabs, socket, eligible, doubled, faults, crashes>>

Connecting == {"instance", "auth", "find", "write", "list"}

TypeOK ==
    /\ instance \subseteq Users
    /\ rows \in Seq(Rows \cup {None}) /\ Len(rows) <= MaxRows
    /\ order \in Seq(Ids) /\ ToSet(order) = DOMAIN rows /\ IsInjective(order)
    /\ owner \in [Tabs -> Users]
    /\ page \in [Tabs -> [shown : Ids \cup {None}, modal : BOOLEAN]]
    /\ conn \in [Tabs -> [pc : Connecting \cup {"idle"}, team : Teams \cup {None},
                          found : Ids \cup {None}]]
    /\ disc \in [Tabs -> [pc : {"idle", "delete", "list"}, id : Ids \cup {None}]]
    /\ stage \in [Events \X Kinds -> {"unsent", "waiting", "lookup", "dispatch", "done"}]
    /\ target \in [Events \X Kinds -> Users \cup {None}]
    /\ processed \subseteq Events
    /\ eligible \in [Events -> SUBSET Users]
    /\ handled \in [Events -> Nat] /\ forgotten \in [Events -> Nat]
    /\ doubled \subseteq Users
    /\ presses \in 0..MaxPresses /\ faults \in 0..MaxFaults
    /\ repeats \in 0..MaxRepeats /\ crashes \in 0..MaxCrashes

NotConnecting == [pc |-> "idle", team |-> None, found |-> None]
NotDisconnecting == [pc |-> "idle", id |-> None]

\* Every tab has just been opened: the page fetches the list on mount.
Init ==
    /\ instance = Users
    /\ rows = <<>> /\ order = <<>>
    /\ owner \in [Tabs -> Users]
    /\ page = [t \in Tabs |-> [shown |-> None, modal |-> FALSE]]
    /\ conn = [t \in Tabs |-> NotConnecting]
    /\ disc = [t \in Tabs |-> [pc |-> "list", id |-> None]]
    /\ stage = [e \in Events \X Kinds |-> "unsent"]
    /\ target = [e \in Events \X Kinds |-> None]
    /\ processed = {}
    /\ eligible = [e \in Events |-> {}]
    /\ handled = [e \in Events |-> 0] /\ forgotten = [e \in Events |-> 0]
    /\ doubled = {}
    /\ presses = 0 /\ faults = 0 /\ repeats = 0 /\ crashes = 0

-----------------------------------------------------------------------------
RowsOf(u) == {i \in DOMAIN rows : rows[i] # None /\ rows[i].user = u}

\* GET /api/channels returns inactive rows too, and channels.find takes the
\* one created last.
Listed(u) == IF RowsOf(u) = {} THEN None ELSE Max(RowsOf(u))

\* .single(): no data unless exactly one row matches.
Single(u) == IF Cardinality(RowsOf(u)) = 1 THEN Max(RowsOf(u)) ELSE None

\* The user of the first in the order of those that match.
FirstUser(hits) == IF hits = {} THEN None ELSE rows[order[Min(hits)]].user

\* A plausible slip: the query forgets .eq('is_active', true).
RouteAny(team) ==
    FirstUser({n \in DOMAIN order : rows[order[n]] # None /\ rows[order[n]].team = team})

\* The latest connected of the active rows for the team.
Route(team) ==
    FirstUser({n \in DOMAIN order : LET row == rows[order[n]] IN
                                    row # None /\ row.team = team /\ row.active})

Goto(t, from, to) == conn[t].pc = from /\ conn' = [conn EXCEPT ![t].pc = to]
Fault == faults < MaxFaults /\ faults' = faults + 1

-----------------------------------------------------------------------------
(***************************************************************************)
(* The page.  "connecting" is conn[t].pc # "idle"; a second press of the   *)
(* button is impossible while it is set, but the dialog can be closed and  *)
(* opened again.                                                           *)
(***************************************************************************)
Unpressed == UNCHANGED <<instance, owner, socket, eligible, crashes>>
Unchanged == Unpressed /\ UNCHANGED presses
Press == presses < MaxPresses /\ presses' = presses + 1

Modal(t, open) ==
    /\ page[t].modal = ~open
    /\ page' = [page EXCEPT ![t].modal = open]
    /\ UNCHANGED <<rows, order, conn, disc, doubled, faults>> /\ Unchanged

\* Slack is offered for connection only while no row of it is listed, and the
\* list is shown only once it has been fetched.
OpenModal(t) ==
    /\ page[t].shown = None
    /\ disc[t] # [pc |-> "list", id |-> None]
    /\ Modal(t, TRUE)

CloseModal(t) == Modal(t, FALSE)

HandleConnect(t) ==
    /\ page[t].modal
    /\ Goto(t, "idle", "instance")
    /\ Press
    /\ UNCHANGED <<rows, order, page, disc, doubled, faults>> /\ Unpressed

HandleDisconnect(t) ==
    /\ page[t].shown # None /\ ~page[t].modal /\ disc[t].pc = "idle"
    /\ disc' = [disc EXCEPT ![t] = [pc |-> "delete", id |-> page[t].shown]]
    /\ Press
    /\ UNCHANGED <<rows, order, page, conn, doubled, faults>> /\ Unpressed

\* The catch and finally of handleConnect: an error, and the button again.
ConnectEnds(t) == conn' = [conn EXCEPT ![t] = NotConnecting]

ConnectFails(t) ==
    /\ ConnectEnds(t)
    /\ UNCHANGED <<rows, order, page, disc, doubled>> /\ Unchanged

-----------------------------------------------------------------------------
(***************************************************************************)
(* ChannelsService.connectSlack, one action per round trip.                *)
(***************************************************************************)
ReadInstance(t) ==
    /\ conn[t].pc = "instance"
    /\ owner[t] \in instance
    /\ Goto(t, "instance", "auth")
    /\ UNCHANGED <<rows, order, page, disc, doubled, faults>> /\ Unchanged

RejectWithoutInstance(t) ==
    /\ conn[t].pc = "instance" /\ owner[t] \notin instance
    /\ ConnectFails(t) /\ UNCHANGED faults

\* A plausible slip: connectSlack goes on without a team.
AuthTestUnchecked(t) ==
    /\ conn[t].pc = "auth"
    /\ \E team \in Teams \cup {None} :
          conn' = [conn EXCEPT ![t].pc = "find", ![t].team = team]
    /\ UNCHANGED <<rows, order, page, disc, doubled, faults>> /\ Unchanged

\* auth.test tells the team; without a teamId in the DTO a failure is final.
AuthTest(t) ==
    /\ conn[t].pc = "auth"
    /\ \E team \in Teams : conn' = [conn EXCEPT ![t].pc = "find", ![t].team = team]
    /\ UNCHANGED <<rows, order, page, disc, doubled, faults>> /\ Unchanged

RejectToken(t) == conn[t].pc = "auth" /\ ConnectFails(t) /\ UNCHANGED faults

\* Another connect of the user stands between its lookup and its insert.
Doubles(t) == \E o \in Tabs \ {t} : owner[o] = owner[t] /\ conn[o].pc = "write"

\* A plausible slip: the lookup asks for active rows only.
FindExistingActive(t) ==
    LET i == Single(owner[t]) IN
    /\ conn[t].pc = "find"
    /\ conn' = [conn EXCEPT ![t].pc = "write",
                            ![t].found = IF i # None /\ rows[i].active THEN i ELSE None]
    /\ doubled' = IF Doubles(t) THEN doubled \cup {owner[t]} ELSE doubled
    /\ UNCHANGED <<rows, order, page, disc, faults>> /\ Unchanged

FindExisting(t) ==
    /\ conn[t].pc = "find"
    /\ conn' = [conn EXCEPT ![t].pc = "write", ![t].found = Single(owner[t])]
    /\ doubled' = IF Doubles(t) THEN doubled \cup {owner[t]} ELSE doubled
    /\ UNCHANGED <<rows, order, page, disc, faults>> /\ Unchanged

\* The error of a failing lookup is not looked at: no data, so an insert.
FindFails(t) ==
    /\ conn[t].pc = "find"
    /\ Goto(t, "find", "write")
    /\ doubled' = doubled \cup {owner[t]}
    /\ Fault
    /\ UNCHANGED <<rows, order, page, disc>> /\ Unchanged

\* Every event not yet handled may now go to the user.
Connected(u, team) ==
    eligible' = [e \in Events |-> IF team = HomeTeam THEN eligible[e] \cup {u} ELSE eligible[e]]

\* An update moves its row to the front, an insert comes before all others.
Reconnected(n) ==
    order' = [k \in DOMAIN order |->
                 IF k = 1 THEN order[n] ELSE IF k <= n THEN order[k - 1] ELSE order[k]]
Inserted(i) == order' = <<i>> \o order

\* The update of the row found, or the insert and its event.  Neither has an
\* effect if the instance, and the rows with it, went meanwhile.
WriteRow(t) ==
    LET i == conn[t].found
        row == [user |-> owner[t], team |-> conn[t].team, active |-> TRUE] IN
    /\ Goto(t, "write", "list")
    /\ \/ /\ i # None /\ rows[i] # None
          /\ rows' = [rows EXCEPT ![i] = row]
          /\ \E n \in DOMAIN order : order[n] = i /\ Reconnected(n)
          /\ Connected(owner[t], row.team)
       \/ /\ i = None /\ owner[t] \in instance /\ Len(rows) < MaxRows
          /\ rows' = Append(rows, row)
          /\ Inserted(Len(rows')) /\ Connected(owner[t], row.team)
       \/ /\ owner[t] \notin instance
          /\ UNCHANGED <<rows, order, eligible>>
    /\ page' = [page EXCEPT ![t].modal = FALSE]
    /\ UNCHANGED <<instance, owner, disc, presses, socket, doubled, faults, crashes>>

\* fetchChannels and setConnecting(false); closeModal came before.
ConnectListed(t) ==
    /\ conn[t].pc = "list"
    /\ ConnectEnds(t)
    /\ page' = [page EXCEPT ![t].shown = Listed(owner[t])]
    /\ UNCHANGED <<rows, order, disc, doubled, faults>> /\ Unchanged

\* fetchChannels keeps the list it had, or empties it when the answer is an
\* error of the server.
Unlisted(t) == \E i \in {page[t].shown, None} : page' = [page EXCEPT ![t].shown = i]

\* A request that never comes back as it should.  Before the write it has had
\* no effect.
ConnectBreaks(t) ==
    /\ conn[t].pc # "idle"
    /\ ConnectEnds(t)
    /\ IF conn[t].pc = "list" THEN Unlisted(t) ELSE UNCHANGED page
    /\ Fault
    /\ UNCHANGED <<rows, order, disc, doubled>> /\ Unchanged

-----------------------------------------------------------------------------
(***************************************************************************)
(* disconnectChannel, and the fetch after it or on mount.                  *)
(***************************************************************************)
Delete(t) ==
    /\ disc[t].pc = "delete"
    /\ rows' = IF disc[t].id \in RowsOf(owner[t])
               THEN [rows EXCEPT ![disc[t].id].active = FALSE] ELSE rows
    /\ disc' = [disc EXCEPT ![t].pc = "list"]
    /\ UNCHANGED <<order, page, conn, doubled, faults>> /\ Unchanged

DisconnectListed(t) ==
    /\ disc[t].pc = "list"
    /\ disc' = [disc EXCEPT ![t] = NotDisconnecting]
    /\ page' = [page EXCEPT ![t].shown = Listed(owner[t])]
    /\ UNCHANGED <<rows, order, conn, doubled, faults>> /\ Unchanged

DisconnectBreaks(t) ==
    /\ disc[t].pc # "idle"
    /\ disc' = [disc EXCEPT ![t] = NotDisconnecting]
    /\ IF disc[t].pc = "list" THEN Unlisted(t) ELSE UNCHANGED page
    /\ Fault
    /\ UNCHANGED <<rows, order, conn, doubled>> /\ Unchanged

\* InstancesService.delete: the rows go with the instance.
DeleteInstance(u) ==
    /\ u \in instance
    /\ instance' = instance \ {u}
    /\ rows' = [i \in DOMAIN rows |-> IF i \in RowsOf(u) THEN None ELSE rows[i]]
    /\ UNCHANGED <<order, tabs, socket, eligible, doubled, faults, crashes>>

-----------------------------------------------------------------------------
(***************************************************************************)
(* SlackSocketService.  Between the acknowledgement and the test of        *)
(* processedEvents nothing else runs; the lookup and the dispatch are      *)
(* round trips.                                                            *)
(***************************************************************************)
Aside == UNCHANGED <<table, tabs, doubled>>

ActiveIn(team) == {u \in Users : \E i \in RowsOf(u) : rows[i].team = team /\ rows[i].active}

\* A user writes a message, which may name the bot.
SlackSends(e) ==
    /\ \A k \in Kinds : stage[<<e, k>>] = "unsent"
    /\ \E ks \in {{"message"}, Kinds} :
          stage' = [x \in DOMAIN stage |-> IF x \in {e} \X ks THEN "waiting" ELSE stage[x]]
    /\ eligible' = [eligible EXCEPT ![e] = ActiveIn(HomeTeam)]
    /\ Aside /\ UNCHANGED <<target, processed, handled, forgotten, repeats, faults, crashes>>

\* A plausible slip: the event is remembered only once it was dispatched.
ReceiveUnremembered(e, k) ==
    /\ stage[<<e, k>>] = "waiting"
    /\ stage' = [stage EXCEPT ![<<e, k>>] = IF e \in processed THEN "done" ELSE "lookup"]
    /\ Aside /\ UNCHANGED <<target, processed, eligible, handled, forgotten, repeats, faults, crashes>>

Receive(e, k) ==
    /\ stage[<<e, k>>] = "waiting"
    /\ stage' = [stage EXCEPT ![<<e, k>>] = IF e \in processed THEN "done" ELSE "lookup"]
    /\ processed' = processed \cup {e}
    /\ Aside /\ UNCHANGED <<target, eligible, handled, forgotten, repeats, faults, crashes>>

LookUp(e, k) ==
    /\ stage[<<e, k>>] = "lookup"
    /\ target' = [target EXCEPT ![<<e, k>>] = Route(HomeTeam)]
    /\ stage' = [stage EXCEPT ![<<e, k>>] = IF Route(HomeTeam) = None THEN "done" ELSE "dispatch"]
    /\ Aside /\ UNCHANGED <<processed, eligible, handled, forgotten, repeats, faults, crashes>>

LookUpFails(e, k) ==
    /\ stage[<<e, k>>] = "lookup"
    /\ stage' = [stage EXCEPT ![<<e, k>>] = "done"]
    /\ Fault
    /\ Aside /\ UNCHANGED <<target, processed, eligible, handled, forgotten, repeats, crashes>>

\* The three stamps and messageDispatch.dispatch.
Dispatch(e, k) ==
    /\ stage[<<e, k>>] = "dispatch"
    /\ handled' = [handled EXCEPT ![e] = @ + 1]
    /\ stage' = [stage EXCEPT ![<<e, k>>] = "done"]
    /\ target' = [target EXCEPT ![<<e, k>>] = None]
    /\ Aside /\ UNCHANGED <<processed, eligible, forgotten, repeats, faults, crashes>>

\* Slack did not see the acknowledgement.
Redeliver(e, k) ==
    /\ stage[<<e, k>>] = "done"
    /\ repeats < MaxRepeats /\ repeats' = repeats + 1
    /\ stage' = [stage EXCEPT ![<<e, k>>] = "waiting"]
    /\ Aside /\ UNCHANGED <<target, processed, eligible, handled, forgotten, faults, crashes>>

Forget(es) ==
    /\ processed' = processed \ es
    /\ forgotten' = [e \in Events |-> IF e \in es THEN forgotten[e] + 1 ELSE forgotten[e]]

\* The timer of 60 seconds.
Expire(e) ==
    /\ e \in processed
    /\ Forget({e})
    /\ Aside /\ UNCHANGED <<stage, target, eligible, handled, repeats, faults, crashes>>

\* The events and calls in progress are lost, and processedEvents with them.
OrchestratorCrashes ==
    /\ crashes < MaxCrashes /\ crashes' = crashes + 1
    /\ stage' = [x \in DOMAIN stage |-> IF stage[x] \in {"lookup", "dispatch"} THEN "done"
                                        ELSE stage[x]]
    /\ target' = [x \in DOMAIN target |-> None]
    /\ Forget(processed)
    /\ conn' = [t \in Tabs |-> IF conn[t].pc = "list" THEN conn[t] ELSE NotConnecting]
    /\ disc' = [t \in Tabs |-> IF disc[t].pc = "delete" THEN [disc[t] EXCEPT !.pc = "list"]
                               ELSE disc[t]]
    /\ UNCHANGED <<table, owner, page, presses, eligible, handled, repeats, doubled, faults>>

-----------------------------------------------------------------------------
ConnectStep(t) ==
    \/ ReadInstance(t) \/ RejectWithoutInstance(t)
    \/ AuthTest(t) \/ RejectToken(t)
    \/ FindExisting(t) \/ WriteRow(t) \/ ConnectListed(t)

DisconnectStep(t) == Delete(t) \/ DisconnectListed(t)

SocketStep(e, k) == Receive(e, k) \/ LookUp(e, k) \/ Dispatch(e, k)

Next ==
    \/ \E t \in Tabs :
          \/ OpenModal(t) \/ CloseModal(t) \/ HandleConnect(t) \/ HandleDisconnect(t)
          \/ ConnectStep(t) \/ FindFails(t) \/ ConnectBreaks(t)
          \/ DisconnectStep(t) \/ DisconnectBreaks(t)
    \/ \E u \in Users : DeleteInstance(u)
    \/ \E e \in Events :
          \/ SlackSends(e) \/ Expire(e)
          \/ \E k \in Kinds : SocketStep(e, k) \/ LookUpFails(e, k) \/ Redeliver(e, k)
    \/ OrchestratorCrashes

Spec == Init /\ [][Next]_vars

-----------------------------------------------------------------------------
(***************************************************************************)
(* Properties.                                                             *)
(***************************************************************************)
\* connectSlack updates the user's row where there is one: whatever a user
\* connects, disconnects and connects again in two tabs, a second row comes
\* only of two calls that overlap between lookup and insert, or of a lookup
\* whose error is taken for "no row".
OneRowUnlessDoubled == \A u \in Users \ doubled : Cardinality(RowsOf(u)) <= 1

\* A Slack message, delivered as two events and redelivered, is dispatched
\* once, and once more only for each time the process forgot it.
HandledOnce == \A e \in Events : handled[e] <= 1 + forgotten[e]

\* A message goes to a user who had the team connected at some time since it
\* was written: never to one who had disconnected before.
SentToConnected ==
    \A e \in Events, k \in Kinds : stage[<<e, k>>] = "dispatch" => target[<<e, k>>] \in eligible[e]
=============================================================================
