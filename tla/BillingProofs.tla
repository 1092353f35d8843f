---------------------------- MODULE BillingProofs ----------------------------
(***************************************************************************)
(* What Billing keeps for any number of users and subscriptions and any    *)
(* order, repetition and delay of the store's events.                      *)
(*                                                                         *)
(* A row belongs to the buyer of a subscription whose events find it, and  *)
(* is active only if the store has reported such a subscription as active, *)
(* not always the same one (Named).                                        *)
(***************************************************************************)
EXTENDS Billing, TLAPS

\* The key of t's events is k, and the store has reported t as active.
Activates(t, k) == Key(t) = k /\ seen[t] \cap Granting # {}

Named ==
    \A k \in Keys : rows[k] # NoRow =>
        /\ \E s \in Subs : Key(s) = k /\ owner[s] = rows[k].user
        /\ rows[k].status = "active" => \E t \in Subs : Activates(t, k)

BillingInv == TypeOK /\ Named

-----------------------------------------------------------------------------
LEMMA BillingInit == Init => BillingInv
<1> SUFFICES ASSUME Init PROVE BillingInv
  OBVIOUS
<1>1. /\ owner = [s \in Subs |-> NoUser] /\ seen = [s \in Subs |-> {}]
      /\ rows = [k \in Keys |-> NoRow] /\ payments = [s \in Subs |-> 0]
  BY DEF Init
<1>2. identified \in BOOLEAN
  BY Zenon DEF Init
<1>3. /\ owner \in [Subs -> Users \cup {NoUser}] /\ seen \in [Subs -> SUBSET StoreStatuses]
      /\ rows \in [Keys -> Rows \cup {NoRow}] /\ payments \in [Subs -> {0, 1}]
  BY <1>1
<1>4. \A k \in Keys : rows[k] = NoRow
  BY <1>1
<1>5. TypeOK
  BY <1>2, <1>3, <1>4, Zenon DEF TypeOK
<1>6. Named
  BY <1>4, Zenon DEF Named
<1> QED BY <1>5, <1>6 DEF BillingInv

\* What the lemmas below need of the invariant.
LEMMA BillingParts ==
    ASSUME BillingInv
    PROVE  /\ TypeOK /\ Named /\ identified \in BOOLEAN
           /\ owner \in [Subs -> Users \cup {NoUser}]
           /\ seen \in [Subs -> SUBSET StoreStatuses]
           /\ rows \in [Keys -> Rows \cup {NoRow}] /\ payments \in [Subs -> {0, 1}]
           /\ \A j, k \in Keys : rows[j] # NoRow /\ rows[k] # NoRow /\ j # k
                                   => rows[j].user # rows[k].user
BY Zenon DEF BillingInv, TypeOK

LEMMA KeyIsKey == ASSUME NEW s \in Subs PROVE Key(s) \in Keys
BY Zenon DEF Key, Keys

\* Whether events name their subscription does not change, nor do keys.
LEMMA KeyStays ==
    ASSUME identified' = identified, NEW s \in Subs
    PROVE  Key(s)' = Key(s)
BY Zenon DEF Key

\* Named holds on while rows stay, owners of bought subscriptions stay, and
\* the store only reports more.
LEMMA NamedStays ==
    ASSUME BillingInv, identified' = identified, rows' = rows,
           \A s \in Subs : owner[s] # NoUser => owner'[s] = owner[s],
           \A s \in Subs : seen[s] \subseteq seen'[s]
    PROVE  Named'
<1> SUFFICES ASSUME NEW k \in Keys, rows[k] # NoRow
             PROVE  /\ \E s \in Subs : Key(s)' = k /\ owner'[s] = rows[k].user
                    /\ rows[k].status = "active" => \E t \in Subs : Activates(t, k)'
  BY Zenon DEF Named
<1>1. PICK s \in Subs : Key(s) = k /\ owner[s] = rows[k].user
  BY BillingParts, Zenon DEF Named
<1>2. rows[k].user \in Users
  BY BillingParts DEF Rows
<1>3. owner'[s] = rows[k].user
  BY <1>1, <1>2, NoUserIsNone
<1>4. Key(s)' = k
  BY <1>1, KeyStays
<1>5. ASSUME rows[k].status = "active"
      PROVE  \E t \in Subs : Activates(t, k)'
  <2>1. PICK t \in Subs : Activates(t, k)
    BY <1>5, BillingParts, Zenon DEF Named
  <2>2. Key(t) = k /\ seen'[t] \cap Granting # {}
    BY <2>1 DEF Activates
  <2>3. Key(t)' = k
    BY <2>2, KeyStays
  <2> QED BY <2>2, <2>3, Zenon DEF Activates
<1> QED BY <1>3, <1>4, <1>5, Zenon

-----------------------------------------------------------------------------
(* Steps of the store and of payments                                      *)

LEMMA PurchaseKeeps ==
    ASSUME BillingInv, NEW u \in Users, NEW s \in Subs, Purchase(u, s)
    PROVE  BillingInv'
<1>1. /\ owner[s] = NoUser /\ owner' = [owner EXCEPT ![s] = u]
      /\ identified' = identified /\ seen' = seen /\ rows' = rows /\ payments' = payments
  BY DEF Purchase
<1>2. owner' \in [Subs -> Users \cup {NoUser}]
  BY <1>1, BillingParts
<1>3. TypeOK'
  BY <1>1, <1>2, BillingParts, Zenon DEF TypeOK
<1>4. Named'
  <2>1. \A t \in Subs : owner[t] # NoUser => owner'[t] = owner[t]
    BY <1>1, BillingParts
  <2> QED BY <1>1, <2>1, NamedStays
<1> QED BY <1>3, <1>4 DEF BillingInv

LEMMA StoreReportsKeeps ==
    ASSUME BillingInv, NEW s \in Subs, NEW st \in StoreStatuses, StoreReports(s, st)
    PROVE  BillingInv'
<1>1. /\ seen' = [seen EXCEPT ![s] = @ \cup {st}]
      /\ identified' = identified /\ owner' = owner /\ rows' = rows /\ payments' = payments
  BY DEF StoreReports
<1>2. seen' \in [Subs -> SUBSET StoreStatuses] /\ \A t \in Subs : seen[t] \subseteq seen'[t]
  BY <1>1, BillingParts
<1>3. TypeOK'
  BY <1>1, <1>2, BillingParts, Zenon DEF TypeOK
<1>4. Named'
  BY <1>1, <1>2, NamedStays
<1> QED BY <1>3, <1>4 DEF BillingInv

LEMMA OrderKeeps ==
    ASSUME BillingInv, NEW s \in Subs, OnOrderCreated(s)
    PROVE  BillingInv'
<1>1. /\ payments' = [payments EXCEPT ![s] = payments[s] + 1]
      /\ identified' = identified /\ owner' = owner /\ seen' = seen /\ rows' = rows
      /\ ~(payments[s] > 0)
  BY DEF OnOrderCreated, store
<1>2. payments[s] = 0
  BY <1>1, BillingParts
<1>3. payments' \in [Subs -> {0, 1}]
  BY <1>1, <1>2, BillingParts
<1>4. TypeOK'
  BY <1>1, <1>3, BillingParts, Zenon DEF TypeOK
<1>5. Named'
  BY <1>1, NamedStays
<1> QED BY <1>4, <1>5 DEF BillingInv

-----------------------------------------------------------------------------
(* Steps that write rows                                                   *)

\* Some rows get a status.
LEMMA StatusKeeps ==
    ASSUME BillingInv, NEW K \in SUBSET Keys, NEW st \in Columns,
           \A k \in K : rows[k] # NoRow,
           rows' = [k \in Keys |-> IF k \in K THEN [rows[k] EXCEPT !.status = st] ELSE rows[k]],
           UNCHANGED <<store, payments>>,
           st = "active" => \A k \in K : \E t \in Subs : Activates(t, k)
    PROVE  BillingInv' /\ \A u \in Users : RowsOf(u)' = RowsOf(u)
<1>1. identified' = identified /\ owner' = owner /\ seen' = seen /\ payments' = payments
  BY DEF store
<1>2. ASSUME NEW k \in K
      PROVE  rows'[k] \in Rows /\ rows'[k].user = rows[k].user /\ rows'[k].status = st
  <2>1. rows[k] \in Rows
    BY BillingParts
  <2>2. rows'[k] = [rows[k] EXCEPT !.status = st]
    OBVIOUS
  <2> QED BY <2>1, <2>2 DEF Rows
<1>3. \A k \in Keys \ K : rows'[k] = rows[k]
  OBVIOUS
<1>4. rows' \in [Keys -> Rows \cup {NoRow}]
  <2>1. \A k \in Keys : rows'[k] \in Rows \cup {NoRow}
    BY <1>2, <1>3, BillingParts
  <2> QED BY <2>1
<1>5. \A k \in Keys : /\ rows'[k] = NoRow <=> rows[k] = NoRow
                      /\ rows[k] # NoRow => rows'[k].user = rows[k].user
  BY <1>2, <1>3, NoRowIsNone, Zenon
<1>6. TypeOK'
  BY <1>1, <1>4, <1>5, BillingParts, ZenonT(30) DEF TypeOK
<1>7. Named'
  <2> SUFFICES ASSUME NEW k \in Keys, rows'[k] # NoRow
               PROVE  /\ \E s \in Subs : Key(s) = k /\ owner[s] = rows'[k].user
                      /\ rows'[k].status = "active" => \E t \in Subs : Activates(t, k)
    BY <1>1, Zenon DEF Named, Activates, Key
  <2>1. rows[k] # NoRow /\ rows'[k].user = rows[k].user
    BY <1>5, Zenon
  <2>2. \E s \in Subs : Key(s) = k /\ owner[s] = rows'[k].user
    BY <2>1, BillingParts, Zenon DEF Named
  <2>3. rows'[k].status = "active" => \E t \in Subs : Activates(t, k)
    <3>1. CASE k \in K
      BY <1>2, <3>1, Zenon
    <3>2. CASE k \notin K
      BY <1>3, <2>1, <3>2, BillingParts, Zenon DEF Named
    <3> QED BY <3>1, <3>2
  <2> QED BY <2>2, <2>3
<1>8. \A u \in Users : RowsOf(u)' = RowsOf(u)
  BY <1>5 DEF RowsOf
<1> QED BY <1>6, <1>7, <1>8 DEF BillingInv

LEMMA SetStatusKeeps ==
    ASSUME BillingInv, NEW s \in Subs, NEW st \in Columns, SetStatus(s, st),
           st = "active" => seen[s] \cap Granting # {}
    PROVE  BillingInv' /\ \A u \in Users : RowsOf(u)' = RowsOf(u)
<1> DEFINE K == {Key(s)}
<1>1. rows[Key(s)] # NoRow /\ UNCHANGED <<store, payments>>
  BY DEF SetStatus
<1>2. rows' = [rows EXCEPT ![Key(s)] = [rows[Key(s)] EXCEPT !.status = st]]
  BY DEF SetStatus
<1>3. rows' = [k \in Keys |-> IF k \in K THEN [rows[k] EXCEPT !.status = st] ELSE rows[k]]
  BY <1>2, BillingParts
<1>4. st = "active" => \A k \in K : \E t \in Subs : Activates(t, k)
  BY Zenon DEF Activates
<1>5. K \in SUBSET Keys /\ \A k \in K : rows[k] # NoRow
  BY <1>1, KeyIsKey
<1> HIDE DEF K
<1> QED BY <1>1, <1>3, <1>4, <1>5, StatusKeeps

LEMMA UpdatedKeeps ==
    ASSUME BillingInv, NEW s \in Subs, OnSubscriptionUpdated(s)
    PROVE  BillingInv' /\ \A u \in Users : RowsOf(u)' = RowsOf(u)
<1>1. PICK st \in seen[s] : SetStatus(s, MapLsStatus(st))
  BY DEF OnSubscriptionUpdated
<1>2. st \in StoreStatuses
  BY BillingParts
<1>3. MapLsStatus(st) \in Columns
  BY DEF MapLsStatus, Columns
<1>4. MapLsStatus(st) = "active" => seen[s] \cap Granting # {}
  BY <1>2, Zenon DEF Granting
<1> QED BY <1>1, <1>3, <1>4, SetStatusKeeps

LEMMA FailedOrCancelledKeeps ==
    ASSUME BillingInv, NEW s \in Subs, OnPaymentFailed(s) \/ OnSubscriptionCancelled(s)
    PROVE  BillingInv' /\ \A u \in Users : RowsOf(u)' = RowsOf(u)
<1>1. PICK st \in {"past_due", "cancelled"} : SetStatus(s, st)
  BY DEF OnPaymentFailed, OnSubscriptionCancelled
<1>2. st \in Columns /\ st # "active"
  BY DEF Columns
<1> QED BY <1>1, <1>2, SetStatusKeeps

LEMMA PlatformKeeps ==
    ASSUME BillingInv, NEW s \in Subs, PlatformReceives(s)
    PROVE  BillingInv' /\ \A u \in Users : RowsOf(u)' = RowsOf(u)
<1>1. PICK st \in seen[s] \cap {"cancelled", "expired", "past_due"} : UpdateStatus(owner[s], st)
  BY DEF PlatformReceives
<1>2. st \in Columns /\ st # "active"
  BY DEF Columns
<1> DEFINE K == RowsOf(owner[s])
<1>3. K \in SUBSET Keys /\ \A k \in K : rows[k] # NoRow
  BY DEF RowsOf
<1>4. /\ rows' = [k \in Keys |-> IF k \in K THEN [rows[k] EXCEPT !.status = st] ELSE rows[k]]
      /\ UNCHANGED <<store, payments>>
  BY <1>1 DEF UpdateStatus
<1> HIDE DEF K
<1> QED BY <1>2, <1>3, <1>4, StatusKeeps

\* subscription_created writes a row that grants nothing, and no user is left
\* with fewer rows than before and one of them active.
LEMMA CreatedKeeps ==
    ASSUME BillingInv, NEW s \in Subs, OnSubscriptionCreated(s)
    PROVE  /\ BillingInv'
           /\ \A u \in Users : HasAccess(u)' /\ ~HasAccess(u) => RowsOf(u)' = RowsOf(u)
<1> DEFINE k == Key(s)
<1> DEFINE r == [user |-> owner[s], status |-> "on_trial"]
<1>1. /\ owner[s] # NoUser /\ RowsOf(owner[s]) \subseteq {k}
      /\ rows' = [rows EXCEPT ![k] = r]
      /\ identified' = identified /\ owner' = owner /\ seen' = seen /\ payments' = payments
  BY DEF OnSubscriptionCreated, store
<1>2. owner[s] \in Users
  BY <1>1, BillingParts
<1>3. r \in Rows /\ r.user = owner[s] /\ r.status = "on_trial" /\ r # NoRow
  BY <1>2, NoRowIsNone DEF Rows, Columns
<1>4. k \in Keys /\ k = Key(s)
  BY KeyIsKey
<1> HIDE DEF r, k
<1>5. /\ rows' \in [Keys -> Rows \cup {NoRow}] /\ rows'[k] = r
      /\ \A j \in Keys : j # k => rows'[j] = rows[j]
  BY <1>1, <1>3, <1>4, BillingParts
<1>6. \A j \in Keys : j # k /\ rows[j] # NoRow => rows[j].user # owner[s]
  BY <1>1 DEF RowsOf
<1>7. TypeOK'
  <2>1. ASSUME NEW i \in Keys, NEW j \in Keys, rows'[i] # NoRow, rows'[j] # NoRow, i # j
        PROVE  rows'[i].user # rows'[j].user
    <3>1. CASE i = k
      BY <1>3, <1>5, <1>6, <2>1, <3>1, Zenon
    <3>2. CASE j = k
      BY <1>3, <1>5, <1>6, <2>1, <3>2, Zenon
    <3>3. CASE i # k /\ j # k
      BY <1>5, <2>1, <3>3, BillingParts, Zenon
    <3> QED BY <3>1, <3>2, <3>3
  <2> QED BY <1>1, <1>5, <2>1, BillingParts, Zenon DEF TypeOK
<1>8. Named'
  <2> SUFFICES ASSUME NEW j \in Keys, rows'[j] # NoRow
               PROVE  /\ \E t \in Subs : Key(t) = j /\ owner[t] = rows'[j].user
                      /\ rows'[j].status = "active" => \E t \in Subs : Activates(t, j)
    BY <1>1, Zenon DEF Named, Activates, Key
  <2>1. CASE j = k
    <3>1. "on_trial" # "active"
      OBVIOUS
    <3> QED BY <1>3, <1>4, <1>5, <2>1, <3>1, Zenon
  <2>2. CASE j # k
    BY <1>5, <2>2, BillingParts, Zenon DEF Named
  <2> QED BY <2>1, <2>2
<1>9. ASSUME NEW u \in Users, HasAccess(u)', ~HasAccess(u)
      PROVE  RowsOf(u)' = RowsOf(u)
  <2>1. PICK j \in Keys : RowsOf(u)' = {j} /\ rows'[j].status = "active"
    BY <1>9 DEF HasAccess
  <2>2. j # k
    <3>1. "on_trial" # "active"
      OBVIOUS
    <3> QED BY <1>3, <1>5, <2>1, <3>1, Zenon
  <2>3. rows[j] # NoRow /\ rows[j].user = u
    <3>1. j \in RowsOf(u)'
      BY <2>1
    <3> QED BY <1>5, <2>2, <3>1 DEF RowsOf
  <2>4. k \notin RowsOf(u)
    BY <1>4, <2>2, <2>3, BillingParts DEF RowsOf
  <2>5. \A i \in Keys : i # k => (i \in RowsOf(u)' <=> i \in RowsOf(u))
    BY <1>5 DEF RowsOf
  <2>6. k \notin RowsOf(u)'
    BY <2>1, <2>2
  <2> QED BY <2>4, <2>5, <2>6 DEF RowsOf
<1> QED BY <1>7, <1>8, <1>9 DEF BillingInv

-----------------------------------------------------------------------------
\* One step of the invariant and of the action property together.
LEMMA BillingStep ==
    ASSUME BillingInv, [Next]_vars
    PROVE  /\ BillingInv'
           /\ \A u \in Users : HasAccess(u)' /\ ~HasAccess(u) => RowsOf(u)' = RowsOf(u)
<1> DEFINE Fixed == \A u \in Users : RowsOf(u)' = RowsOf(u)
<1>1. CASE UNCHANGED vars
  <2>1. /\ identified' = identified /\ owner' = owner /\ seen' = seen /\ rows' = rows
        /\ payments' = payments
    BY <1>1 DEF vars, store
  <2>2. TypeOK'
    BY <2>1, BillingParts, Zenon DEF TypeOK
  <2>3. Named'
    BY <2>1, NamedStays
  <2> QED BY <2>1, <2>2, <2>3 DEF BillingInv, RowsOf
<1>2. CASE Next
  <2>1. PICK s \in Subs :
           \/ \E u \in Users : Purchase(u, s)
           \/ \E st \in StoreStatuses : StoreReports(s, st)
           \/ OnSubscriptionCreated(s) \/ OnSubscriptionUpdated(s) \/ OnPaymentFailed(s)
           \/ OnSubscriptionCancelled(s) \/ OnOrderCreated(s) \/ PlatformReceives(s)
    BY <1>2, Zenon DEF Next
  <2>2. CASE \E u \in Users : Purchase(u, s)
    <3>1. rows' = rows
      BY <2>2 DEF Purchase
    <3> QED BY <2>2, <3>1, PurchaseKeeps DEF RowsOf
  <2>3. CASE \E st \in StoreStatuses : StoreReports(s, st)
    <3>1. rows' = rows
      BY <2>3 DEF StoreReports
    <3> QED BY <2>3, <3>1, StoreReportsKeeps DEF RowsOf
  <2>4. CASE OnSubscriptionCreated(s)
    BY <2>4, CreatedKeeps
  <2>5. CASE OnSubscriptionUpdated(s)
    BY <2>5, UpdatedKeeps, Zenon
  <2>6. CASE OnPaymentFailed(s) \/ OnSubscriptionCancelled(s)
    BY <2>6, FailedOrCancelledKeeps, Zenon
  <2>7. CASE OnOrderCreated(s)
    <3>1. rows' = rows
      BY <2>7 DEF OnOrderCreated, store
    <3> QED BY <2>7, <3>1, OrderKeeps DEF RowsOf
  <2>8. CASE PlatformReceives(s)
    BY <2>8, PlatformKeeps, Zenon
  <2> QED BY <2>1, <2>2, <2>3, <2>4, <2>5, <2>6, <2>7, <2>8, Zenon
<1> QED BY <1>1, <1>2

-----------------------------------------------------------------------------
\* The inductive invariant: every row belongs to the buyer of a subscription
\* whose events find it, and is active only if the store has reported such a
\* subscription, where events do not name theirs perhaps another, as active.
THEOREM BillingInductive == Spec => []BillingInv
<1>1. Init => BillingInv
  BY BillingInit
<1>2. BillingInv /\ [Next]_vars => BillingInv'
  BY BillingStep
<1> QED BY <1>1, <1>2, PTL DEF Spec

\* Two rows never belong to one user, however the two consumers interleave.
THEOREM BillingTyped == Spec => []TypeOK
<1>1. BillingInv => TypeOK
  BY DEF BillingInv
<1> QED BY <1>1, BillingInductive, PTL

\* handleWebhook gives access to nobody but the buyer of a subscription whose
\* events find the row, after the store has reported as active one whose
\* events do: the same one only where events name their subscription.
THEOREM AccessIsEarned == Spec => []AccessIsReported
<1>1. BillingInv => AccessIsReported
  <2> SUFFICES ASSUME BillingInv, NEW u \in Users, HasAccess(u)
               PROVE  \E s, t \in Subs : /\ owner[s] = u /\ RowsOf(u) = {Key(s)}
                                         /\ Key(t) = Key(s) /\ seen[t] \cap Granting # {}
    BY Zenon DEF AccessIsReported
  <2>1. PICK k \in Keys : RowsOf(u) = {k} /\ rows[k].status = "active"
    BY DEF HasAccess
  <2>2. rows[k] # NoRow /\ rows[k].user = u
    BY <2>1 DEF RowsOf
  <2>3. PICK s \in Subs : Key(s) = k /\ owner[s] = u
    BY <2>2, BillingParts, Zenon DEF Named
  <2>4. PICK t \in Subs : Key(t) = k /\ seen[t] \cap Granting # {}
    BY <2>1, <2>2, BillingParts, Zenon DEF Named, Activates
  <2> QED BY <2>1, <2>3, <2>4, Zenon
<1> QED BY <1>1, BillingInductive, PTL

\* No event that moves a row from one user to another gives either access.
THEOREM TakeoverGrantsNothing == Spec => TakingOverNeverGrants
<1>1. BillingInv /\ [Next]_vars =>
         [\A u \in Users : HasAccess(u)' /\ ~HasAccess(u) => RowsOf(u)' = RowsOf(u)]_vars
  BY BillingStep, Zenon
<1> QED BY <1>1, BillingInductive, PTL DEF Spec, TakingOverNeverGrants
=============================================================================
