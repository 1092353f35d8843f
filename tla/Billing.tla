------------------------------- MODULE Billing -------------------------------
(***************************************************************************)
(* The table "subscriptions" between Lemon Squeezy and the guard of paid   *)
(* features.  Both BillingService.handleWebhook and the platform's route   *)
(* /api/billing/webhook consume the store's events.  Webhooks are retried  *)
(* and overtake each other: an event can be handled at any time after it   *)
(* was sent, and again.  An event is handled by its fields at the time it  *)
(* was sent.                                                               *)
(*                                                                         *)
(* Every subscription is bought with the user's id in custom_data, as      *)
(* /api/billing/checkout means to do (it asks a browser client for the     *)
(* session, which on the server has none).  A user is one customer of the  *)
(* store: the column ls_customer_id, UNIQUE, stands for the user.          *)
(***************************************************************************)
EXTENDS Naturals, FiniteSets

CONSTANTS
    Users,
    Subs,       \* subscriptions of the store, each with one order
    NoId,       \* the key '' of an event without attributes.id
    NoUser,     \* a subscription not yet bought
    NoRow       \* no row with that ls_subscription_id

ASSUME NoIdIsNone == NoId \notin Subs
ASSUME NoUserIsNone == NoUser \notin Users

\* What the store says of a subscription.  The column does not know "unpaid".
Columns == {"on_trial", "active", "cancelled", "past_due", "paused", "expired"}
StoreStatuses == Columns \cup {"unpaid"}
Keys == Subs \cup {NoId}
Rows == [user : Users, status : Columns]

ASSUME NoRowIsNone == NoRow \notin Rows

VARIABLES
    identified, \* whether the payload has an attributes.id
    owner,      \* the user_id in an event's custom_data
    seen,       \* the statuses the store has sent for each subscription
    rows,       \* subscriptions, by ls_subscription_id
    payments    \* how many rows of payments each order has

store == <<identified, owner, seen>>
vars == <<store, rows, payments>>

TypeOK ==
    /\ identified \in BOOLEAN
    /\ owner \in [Subs -> Users \cup {NoUser}]
    /\ seen \in [Subs -> SUBSET StoreStatuses]
    /\ rows \in [Keys -> Rows \cup {NoRow}]
    \* ls_order_id and ls_customer_id are UNIQUE
    /\ payments \in [Subs -> {0, 1}]
    /\ \A j, k \in Keys : rows[j] # NoRow /\ rows[k] # NoRow /\ j # k
                            => rows[j].user # rows[k].user

Init ==
    /\ identified \in BOOLEAN
    /\ owner = [s \in Subs |-> NoUser]
    /\ seen = [s \in Subs |-> {}]
    /\ rows = [k \in Keys |-> NoRow]
    /\ payments = [s \in Subs |-> 0]

-----------------------------------------------------------------------------
\* String(attrs.id ?? ''): the identifier is in data.id, where the platform
\* reads it, and attributes need not repeat it.
Key(s) == IF identified THEN s ELSE NoId

RowsOf(u) == {k \in Keys : rows[k] # NoRow /\ rows[k].user = u}

\* requireActiveSubscription: single() wants exactly one row.  No route asks
\* for it yet.
HasAccess(u) == \E k \in Keys : RowsOf(u) = {k} /\ rows[k].status = "active"

MapLsStatus(st) == IF st \in Columns THEN st ELSE "active"

-----------------------------------------------------------------------------
\* A purchase on the store's page.
Purchase(u, s) ==
    /\ owner[s] = NoUser
    /\ owner' = [owner EXCEPT ![s] = u]
    /\ UNCHANGED <<identified, seen, rows, payments>>

\* The store changes the status of a subscription and sends its events.
StoreReports(s, st) ==
    /\ owner[s] # NoUser
    /\ seen' = [seen EXCEPT ![s] = @ \cup {st}]
    /\ UNCHANGED <<identified, owner, rows, payments>>

-----------------------------------------------------------------------------
(***************************************************************************)
(* The orchestrator.                                                       *)
(***************************************************************************)
\* A plausible slip: the upsert leaves an existing status alone.
CreatedKeepsStatus(s) ==
    LET k == Key(s)
        st == IF rows[k] = NoRow THEN "on_trial" ELSE rows[k].status IN
    /\ owner[s] # NoUser
    /\ RowsOf(owner[s]) \subseteq {k}
    /\ rows' = [rows EXCEPT ![k] = [user |-> owner[s], status |-> st]]
    /\ UNCHANGED <<store, payments>>

\* A plausible slip: ls_customer_id without its UNIQUE constraint.
CreatedUnchecked(s) ==
    LET k == Key(s) IN
    /\ owner[s] # NoUser
    /\ rows' = [rows EXCEPT ![k] = [user |-> owner[s], status |-> "on_trial"]]
    /\ UNCHANGED <<store, payments>>

\* The upsert on ls_subscription_id fails when another row holds the
\* customer; the error is not looked at.  No instance is ever 'pending'.
OnSubscriptionCreated(s) ==
    LET k == Key(s) IN
    /\ owner[s] # NoUser
    /\ RowsOf(owner[s]) \subseteq {k}
    /\ rows' = [rows EXCEPT ![k] = [user |-> owner[s], status |-> "on_trial"]]
    /\ UNCHANGED <<store, payments>>

\* A plausible slip: the update finds the rows by another column.
SetStatusOfAll(s, st) ==
    /\ rows' = [k \in Keys |-> IF rows[k] = NoRow THEN NoRow
                               ELSE [rows[k] EXCEPT !.status = st]]
    /\ UNCHANGED <<store, payments>>

\* .update({ status }).eq('ls_subscription_id', lsSubId)
SetStatus(s, st) ==
    /\ rows[Key(s)] # NoRow
    /\ rows' = [rows EXCEPT ![Key(s)].status = st]
    /\ UNCHANGED <<store, payments>>

OnSubscriptionUpdated(s) == \E st \in seen[s] : SetStatus(s, MapLsStatus(st))

OnPaymentFailed(s) == "past_due" \in seen[s] /\ SetStatus(s, "past_due")

OnSubscriptionCancelled(s) == "cancelled" \in seen[s] /\ SetStatus(s, "cancelled")

\* The insert fails when a row has this ls_order_id, '' included.
OnOrderCreated(s) ==
    /\ owner[s] # NoUser
    /\ \A t \in Subs : payments[t] > 0 => Key(t) # Key(s)
    /\ payments' = [payments EXCEPT ![s] = @ + 1]
    /\ UNCHANGED <<store, rows>>

-----------------------------------------------------------------------------
(***************************************************************************)
(* The platform.  upsertSubscription names ls_order_id, a column that      *)
(* "subscriptions" does not have, so the statement fails and the route     *)
(* goes on: what is left of each event is its updateStatus, by user_id.    *)
(***************************************************************************)
UpdateStatus(u, st) ==
    /\ rows' = [k \in Keys |-> IF k \in RowsOf(u) THEN [rows[k] EXCEPT !.status = st]
                               ELSE rows[k]]
    /\ UNCHANGED <<store, payments>>

PlatformReceives(s) ==
    \E st \in seen[s] \cap {"cancelled", "expired", "past_due"} : UpdateStatus(owner[s], st)

-----------------------------------------------------------------------------
Next ==
    \E s \in Subs :
        \/ \E u \in Users : Purchase(u, s)
        \/ \E st \in StoreStatuses : StoreReports(s, st)
        \/ OnSubscriptionCreated(s)
        \/ OnSubscriptionUpdated(s)
        \/ OnPaymentFailed(s)
        \/ OnSubscriptionCancelled(s)
        \/ OnOrderCreated(s)
        \/ PlatformReceives(s)

Spec == Init /\ [][Next]_vars

-----------------------------------------------------------------------------
(***************************************************************************)
(* Properties.                                                             *)
(***************************************************************************)
\* Statuses that mapLsStatus turns into 'active'.
Granting == {st \in StoreStatuses : MapLsStatus(st) = "active"}

\* Whatever two consumers make of late, repeated and reordered events, a user
\* passes requireActiveSubscription only by the one row of a subscription this
\* user bought, and only if the store has reported one whose events find that
\* row as active (or with a status the orchestrator does not know).  Where
\* events name their subscription that is the user's own; where they do not,
\* as in the payload types of the repository, all events find the row with
\* key '', and the report may be of another user's subscription.
AccessIsReported ==
    \A u \in Users : HasAccess(u) =>
        \E s, t \in Subs :
            /\ owner[s] = u /\ RowsOf(u) = {Key(s)}
            /\ Key(t) = Key(s) /\ seen[t] \cap Granting # {}

\* Even in the row with key '' a user gains access only in a row that was
\* this user's before: a subscription_created that takes a row over from a
\* paying user never hands over the status with it.
TakingOverNeverGrants ==
    [][\A u \in Users : HasAccess(u)' /\ ~HasAccess(u) => RowsOf(u)' = RowsOf(u)]_vars
=============================================================================
