---------------------------- MODULE ChannelsProofs ----------------------------
(***************************************************************************)
(* SlackSocketService dispatches a message once, and once more only for    *)
(* each time it forgot it, for any number of users, tabs, messages,        *)
(* redeliveries and crashes (Channels).                                    *)
(*                                                                         *)
(* The account is kept per message: the dispatches done and those under    *)
(* way against the times it was forgotten and its place in processedEvents.*)
(*                                                                         *)
(* A user gets a second row only by two connects that overlap, or by a     *)
(* lookup that fails: a call about to write knows all rows (RowsInv).      *)
(*                                                                         *)
(* A message goes to one who had its team connected since it was written:  *)
(* whoever has it connected is counted for every message sent (RouteInv).  *)
(* What the routing query returns needs the types of the table (Typed).    *)
(***************************************************************************)
EXTENDS Channels, FiniteSetTheorems, SequenceTheorems, WellFoundedInduction, TLAPS

Stages == {"unsent", "waiting", "lookup", "dispatch", "done"}

SocketTyped ==
    /\ stage \in [Events \X Kinds -> Stages]
    /\ processed \subseteq Events
    /\ handled \in [Events -> Nat]
    /\ forgotten \in [Events -> Nat]

\* Whether an event in this stage has passed the test of processedEvents and
\* may yet be dispatched.
Busy(st) == IF st \in {"lookup", "dispatch"} THEN 1 ELSE 0

InHand(e) == Busy(stage[<<e, "message">>]) + Busy(stage[<<e, "app_mention">>])
Remembered(e) == IF e \in processed THEN 1 ELSE 0

Balanced(e) == handled[e] + InHand(e) <= forgotten[e] + Remembered(e)

SocketInv == SocketTyped /\ \A e \in Events : Balanced(e)

-----------------------------------------------------------------------------
LEMMA BusyNumber ==
    \A st : Busy(st) \in Nat /\ (st \notin {"lookup", "dispatch"} => Busy(st) = 0)
            /\ (st \in {"lookup", "dispatch"} => Busy(st) = 1)
BY DEF Busy

LEMMA SocketInit == Init => SocketInv
<1> SUFFICES ASSUME Init PROVE SocketInv
  OBVIOUS
<1>1. /\ stage = [e \in Events \X Kinds |-> "unsent"] /\ processed = {}
      /\ handled = [e \in Events |-> 0] /\ forgotten = [e \in Events |-> 0]
  BY DEF Init
<1>2. SocketTyped
  BY <1>1 DEF SocketTyped, Stages
<1>3. ASSUME NEW e \in Events PROVE Balanced(e)
  <2>1. handled[e] = 0 /\ forgotten[e] = 0
    BY <1>1
  <2>2. stage[<<e, "message">>] = "unsent" /\ stage[<<e, "app_mention">>] = "unsent"
    BY <1>1 DEF Kinds
  <2>3. InHand(e) = 0
    BY <2>2, BusyNumber DEF InHand
  <2>4. Remembered(e) = 0
    BY <1>1 DEF Remembered
  <2> QED BY <2>1, <2>3, <2>4 DEF Balanced
<1> QED BY <1>2, <1>3 DEF SocketInv

LEMMA SocketParts ==
    ASSUME SocketInv
    PROVE  /\ SocketTyped /\ \A e \in Events : Balanced(e)
           /\ stage \in [Events \X Kinds -> Stages] /\ processed \subseteq Events
           /\ handled \in [Events -> Nat] /\ forgotten \in [Events -> Nat]
BY DEF SocketInv, SocketTyped

-----------------------------------------------------------------------------
(* The account of one message                                              *)

\* It does not change with the accounts of others.
LEMMA AccountKept ==
    ASSUME SocketInv, NEW d \in Events, \A k \in Kinds : stage'[<<d, k>>] = stage[<<d, k>>],
           handled'[d] = handled[d], forgotten'[d] = forgotten[d],
           d \in processed' <=> d \in processed
    PROVE  Balanced(d)'
<1>1. InHand(d)' = InHand(d)
  BY DEF InHand, Kinds
<1>2. Remembered(d)' = Remembered(d)
  BY Zenon DEF Remembered
<1>3. Balanced(d)
  BY SocketParts
<1> QED BY <1>1, <1>2, <1>3 DEF Balanced

\* One of its two events gets another stage.
LEMMA InHandMoves ==
    ASSUME SocketInv, NEW e \in Events, NEW k \in Kinds, NEW st \in Stages,
           stage' = [stage EXCEPT ![<<e, k>>] = st]
    PROVE  /\ stage' \in [Events \X Kinds -> Stages]
           /\ InHand(e)' - Busy(st) = InHand(e) - Busy(stage[<<e, k>>])
           /\ InHand(e) \in Nat /\ InHand(e)' \in Nat
           /\ \A d \in Events \ {e} : \A j \in Kinds : stage'[<<d, j>>] = stage[<<d, j>>]
<1>1. stage \in [Events \X Kinds -> Stages] /\ <<e, k>> \in Events \X Kinds
  BY SocketParts
<1>2. stage' \in [Events \X Kinds -> Stages]
  BY <1>1
<1>3. /\ stage'[<<e, k>>] = st
      /\ \A j \in Kinds \ {k} : stage'[<<e, j>>] = stage[<<e, j>>]
      /\ \A d \in Events \ {e} : \A j \in Kinds : stage'[<<d, j>>] = stage[<<d, j>>]
  BY <1>1
<1>4. CASE k = "message"
  BY <1>2, <1>3, <1>4, BusyNumber DEF InHand, Kinds
<1>5. CASE k = "app_mention"
  BY <1>2, <1>3, <1>5, BusyNumber DEF InHand, Kinds
<1> QED BY <1>4, <1>5 DEF Kinds

LEMMA RememberedNumber == \A e \in Events : Remembered(e) \in {0, 1}
BY DEF Remembered

-----------------------------------------------------------------------------
(* One lemma per action                                                    *)

LEMMA OthersKeep == ASSUME SocketInv, UNCHANGED socket PROVE SocketInv'
<1>1. stage' = stage /\ processed' = processed /\ handled' = handled /\ forgotten' = forgotten
  BY DEF socket
<1>2. SocketTyped'
  BY <1>1, SocketParts DEF SocketTyped
<1>3. \A d \in Events : Balanced(d)'
  BY <1>1, AccountKept
<1> QED BY <1>2, <1>3 DEF SocketInv

LEMMA SlackSendsKeeps == ASSUME SocketInv, NEW e \in Events, SlackSends(e) PROVE SocketInv'
<1>1. PICK ks \in {{"message"}, Kinds} :
         stage' = [x \in DOMAIN stage |-> IF x \in {e} \X ks THEN "waiting" ELSE stage[x]]
  BY DEF SlackSends
<1>2. processed' = processed /\ handled' = handled /\ forgotten' = forgotten
  BY DEF SlackSends
<1>3. \A k \in Kinds : stage[<<e, k>>] = "unsent"
  BY DEF SlackSends
<1>4. stage \in [Events \X Kinds -> Stages]
  BY SocketParts
<1>5. /\ stage' \in [Events \X Kinds -> Stages]
      /\ \A k \in Kinds : stage'[<<e, k>>] \in {"unsent", "waiting"}
      /\ \A d \in Events \ {e} : \A k \in Kinds : stage'[<<d, k>>] = stage[<<d, k>>]
  BY <1>1, <1>3, <1>4 DEF Stages
<1>6. SocketTyped'
  BY <1>2, <1>5, SocketParts DEF SocketTyped
<1>7. Balanced(e)'
  <2>1. InHand(e)' = 0 /\ InHand(e) = 0
    BY <1>3, <1>5, BusyNumber DEF InHand, Kinds
  <2>2. Remembered(e)' = Remembered(e)
    BY <1>2 DEF Remembered
  <2> QED BY <1>2, <2>1, <2>2, SocketParts DEF Balanced
<1>8. \A d \in Events \ {e} : Balanced(d)'
  BY <1>2, <1>5, AccountKept
<1> QED BY <1>6, <1>7, <1>8 DEF SocketInv

\* The event that passes the test is the one that enters processedEvents.
LEMMA ReceiveKeeps ==
    ASSUME SocketInv, NEW e \in Events, NEW k \in Kinds, Receive(e, k)
    PROVE  SocketInv'
<1> DEFINE st == IF e \in processed THEN "done" ELSE "lookup"
<1>1. /\ stage[<<e, k>>] = "waiting" /\ stage' = [stage EXCEPT ![<<e, k>>] = st]
      /\ processed' = processed \cup {e} /\ handled' = handled /\ forgotten' = forgotten
  BY DEF Receive
<1>2. st \in Stages
  BY DEF Stages
<1>3. Busy(stage[<<e, k>>]) = 0 /\ Busy(st) + Remembered(e) = 1
  BY <1>1 DEF Busy, Remembered
<1> HIDE DEF st
<1>4. /\ stage' \in [Events \X Kinds -> Stages]
      /\ InHand(e)' - Busy(st) = InHand(e) - Busy(stage[<<e, k>>])
      /\ InHand(e) \in Nat /\ InHand(e)' \in Nat
      /\ \A d \in Events \ {e} : \A j \in Kinds : stage'[<<d, j>>] = stage[<<d, j>>]
  BY <1>1, <1>2, InHandMoves
<1>5. SocketTyped'
  BY <1>1, <1>4, SocketParts DEF SocketTyped
<1>6. Balanced(e)'
  <2>1. Remembered(e)' = 1
    BY <1>1 DEF Remembered
  <2>2. Busy(st) \in Nat /\ Remembered(e) \in Nat /\ handled[e] \in Nat /\ forgotten[e] \in Nat
    BY BusyNumber, RememberedNumber, SocketParts
  <2>3. handled[e] + InHand(e) <= forgotten[e] + Remembered(e)
    BY SocketParts DEF Balanced
  <2>4. handled[e] + InHand(e)' <= forgotten[e] + 1
    BY <1>3, <1>4, <2>2, <2>3
  <2> QED BY <1>1, <2>1, <2>4 DEF Balanced
<1>7. \A d \in Events \ {e} : Balanced(d)'
  BY <1>1, <1>4, AccountKept
<1> QED BY <1>5, <1>6, <1>7 DEF SocketInv

\* LookUp, LookUpFails and Redeliver: no event becomes busy.
LEMMA MoveKeeps ==
    ASSUME SocketInv, NEW e \in Events, NEW k \in Kinds, NEW st \in Stages,
           stage' = [stage EXCEPT ![<<e, k>>] = st], Busy(st) <= Busy(stage[<<e, k>>]),
           UNCHANGED <<processed, handled, forgotten>>
    PROVE  SocketInv'
<1>1. /\ stage' \in [Events \X Kinds -> Stages]
      /\ InHand(e)' - Busy(st) = InHand(e) - Busy(stage[<<e, k>>])
      /\ InHand(e) \in Nat /\ InHand(e)' \in Nat
      /\ \A d \in Events \ {e} : \A j \in Kinds : stage'[<<d, j>>] = stage[<<d, j>>]
  BY InHandMoves
<1>2. SocketTyped'
  BY <1>1, SocketParts DEF SocketTyped
<1>3. Balanced(e)'
  <2>1. Remembered(e)' = Remembered(e)
    BY DEF Remembered
  <2>2. /\ Busy(st) \in Nat /\ Busy(stage[<<e, k>>]) \in Nat /\ Remembered(e) \in Nat
        /\ handled[e] \in Nat /\ forgotten[e] \in Nat
    BY BusyNumber, RememberedNumber, SocketParts
  <2>3. handled[e] + InHand(e) <= forgotten[e] + Remembered(e)
    BY SocketParts DEF Balanced
  <2>4. handled[e] + InHand(e)' <= forgotten[e] + Remembered(e)
    BY <1>1, <2>2, <2>3
  <2> QED BY <2>1, <2>4 DEF Balanced
<1>4. \A d \in Events \ {e} : Balanced(d)'
  BY <1>1, AccountKept
<1> QED BY <1>2, <1>3, <1>4 DEF SocketInv

LEMMA LookUpKeeps ==
    ASSUME SocketInv, NEW e \in Events, NEW k \in Kinds, LookUp(e, k) \/ LookUpFails(e, k)
    PROVE  SocketInv'
<1>1. stage[<<e, k>>] = "lookup" /\ UNCHANGED <<processed, handled, forgotten>>
  BY DEF LookUp, LookUpFails
<1>2. PICK st \in {"done", "dispatch"} : stage' = [stage EXCEPT ![<<e, k>>] = st]
  BY DEF LookUp, LookUpFails
<1>3. st \in Stages /\ Busy(st) <= Busy(stage[<<e, k>>])
  BY <1>1 DEF Stages, Busy
<1> QED BY <1>1, <1>2, <1>3, MoveKeeps

LEMMA RedeliverKeeps ==
    ASSUME SocketInv, NEW e \in Events, NEW k \in Kinds, Redeliver(e, k)
    PROVE  SocketInv'
<1>1. /\ stage[<<e, k>>] = "done" /\ stage' = [stage EXCEPT ![<<e, k>>] = "waiting"]
      /\ UNCHANGED <<processed, handled, forgotten>>
  BY DEF Redeliver
<1>2. "waiting" \in Stages /\ Busy("waiting") <= Busy(stage[<<e, k>>])
  BY <1>1 DEF Stages, Busy
<1> QED BY <1>1, <1>2, MoveKeeps

LEMMA DispatchKeeps ==
    ASSUME SocketInv, NEW e \in Events, NEW k \in Kinds, Dispatch(e, k)
    PROVE  SocketInv'
<1>1. /\ stage[<<e, k>>] = "dispatch" /\ stage' = [stage EXCEPT ![<<e, k>>] = "done"]
      /\ handled' = [handled EXCEPT ![e] = @ + 1]
      /\ processed' = processed /\ forgotten' = forgotten
  BY DEF Dispatch
<1>2. "done" \in Stages /\ Busy("done") = 0 /\ Busy(stage[<<e, k>>]) = 1
  BY <1>1 DEF Stages, Busy
<1>3. /\ stage' \in [Events \X Kinds -> Stages]
      /\ InHand(e)' - Busy("done") = InHand(e) - Busy(stage[<<e, k>>])
      /\ InHand(e) \in Nat /\ InHand(e)' \in Nat
      /\ \A d \in Events \ {e} : \A j \in Kinds : stage'[<<d, j>>] = stage[<<d, j>>]
  BY <1>1, <1>2, InHandMoves
<1>4. /\ handled' \in [Events -> Nat] /\ handled'[e] = handled[e] + 1
      /\ \A d \in Events \ {e} : handled'[d] = handled[d]
  BY <1>1, SocketParts
<1>5. SocketTyped'
  BY <1>1, <1>3, <1>4, SocketParts DEF SocketTyped
<1>6. Balanced(e)'
  <2>1. Remembered(e)' = Remembered(e)
    BY <1>1 DEF Remembered
  <2>2. Remembered(e) \in Nat /\ handled[e] \in Nat /\ forgotten[e] \in Nat
    BY RememberedNumber, SocketParts
  <2>3. handled[e] + InHand(e) <= forgotten[e] + Remembered(e)
    BY SocketParts DEF Balanced
  <2>4. handled'[e] + InHand(e)' <= forgotten[e] + Remembered(e)
    BY <1>2, <1>3, <1>4, <2>2, <2>3
  <2> QED BY <1>1, <2>1, <2>4 DEF Balanced
<1>7. \A d \in Events \ {e} : Balanced(d)'
  BY <1>1, <1>3, <1>4, AccountKept
<1> QED BY <1>5, <1>6, <1>7 DEF SocketInv

\* Forgetting a message moves its place in processedEvents to "forgotten".
LEMMA ForgetBalances ==
    ASSUME SocketInv, NEW es \in SUBSET processed, Forget(es)
    PROVE  /\ processed' \subseteq Events /\ forgotten' \in [Events -> Nat]
           /\ \A d \in Events :
                 forgotten'[d] + Remembered(d)' = forgotten[d] + Remembered(d)
<1>1. /\ processed' = processed \ es
      /\ forgotten' = [e \in Events |-> IF e \in es THEN forgotten[e] + 1 ELSE forgotten[e]]
  BY DEF Forget
<1>2. forgotten' \in [Events -> Nat] /\ processed' \subseteq Events
  BY <1>1, SocketParts
<1>3. ASSUME NEW d \in Events
      PROVE  forgotten'[d] + Remembered(d)' = forgotten[d] + Remembered(d)
  <2>1. CASE d \in es
    BY <1>1, <2>1, SocketParts DEF Remembered
  <2>2. CASE d \notin es
    BY <1>1, <2>2, SocketParts DEF Remembered
  <2> QED BY <2>1, <2>2
<1> QED BY <1>2, <1>3

LEMMA ExpireKeeps == ASSUME SocketInv, NEW e \in Events, Expire(e) PROVE SocketInv'
<1>1. e \in processed /\ Forget({e}) /\ stage' = stage /\ handled' = handled
  BY DEF Expire
<1>2. /\ processed' \subseteq Events /\ forgotten' \in [Events -> Nat]
      /\ \A d \in Events : forgotten'[d] + Remembered(d)' = forgotten[d] + Remembered(d)
  BY <1>1, ForgetBalances
<1>3. SocketTyped'
  BY <1>1, <1>2, SocketParts DEF SocketTyped
<1>4. \A d \in Events : InHand(d)' = InHand(d)
  BY <1>1 DEF InHand
<1>5. \A d \in Events : Balanced(d)'
  BY <1>1, <1>2, <1>4, SocketParts DEF Balanced
<1> QED BY <1>3, <1>5 DEF SocketInv

LEMMA CrashKeeps == ASSUME SocketInv, OrchestratorCrashes PROVE SocketInv'
<1>1. /\ Forget(processed) /\ handled' = handled
      /\ stage' = [x \in DOMAIN stage |-> IF stage[x] \in {"lookup", "dispatch"} THEN "done"
                                          ELSE stage[x]]
  BY DEF OrchestratorCrashes
<1>2. /\ processed' \subseteq Events /\ forgotten' \in [Events -> Nat]
      /\ \A d \in Events : forgotten'[d] + Remembered(d)' = forgotten[d] + Remembered(d)
  BY <1>1, ForgetBalances
<1>3. /\ stage' \in [Events \X Kinds -> Stages]
      /\ \A d \in Events, k \in Kinds : stage'[<<d, k>>] \notin {"lookup", "dispatch"}
  BY <1>1, SocketParts DEF Stages
<1>4. SocketTyped'
  BY <1>1, <1>2, <1>3, SocketParts DEF SocketTyped
<1>5. ASSUME NEW d \in Events PROVE Balanced(d)'
  <2>1. InHand(d)' = 0
    BY <1>3, BusyNumber DEF InHand, Kinds
  <2>2. InHand(d) \in Nat
    BY BusyNumber DEF InHand
  <2>3. handled[d] \in Nat /\ handled[d] + InHand(d) <= forgotten[d] + Remembered(d)
    BY SocketParts DEF Balanced
  <2>4. /\ forgotten'[d] + Remembered(d)' = forgotten[d] + Remembered(d)
        /\ Remembered(d) \in Nat /\ forgotten[d] \in Nat
    BY <1>2, RememberedNumber, SocketParts
  <2> QED BY <1>1, <2>1, <2>2, <2>3, <2>4 DEF Balanced
<1> QED BY <1>4, <1>5 DEF SocketInv

-----------------------------------------------------------------------------
\* The page, the calls behind it and the deletion of an instance leave the
\* socket alone.
LEMMA PageAside ==
    ASSUME NEW t \in Tabs,
           \/ OpenModal(t) \/ CloseModal(t) \/ HandleConnect(t) \/ HandleDisconnect(t)
           \/ ConnectStep(t) \/ FindFails(t) \/ ConnectBreaks(t)
           \/ DisconnectStep(t) \/ DisconnectBreaks(t)
    PROVE  UNCHANGED socket
<1> USE DEF Unchanged, Unpressed
<1>1. CASE OpenModal(t) \/ CloseModal(t) \/ HandleConnect(t) \/ HandleDisconnect(t)
  BY <1>1, Zenon DEF OpenModal, CloseModal, Modal, HandleConnect, HandleDisconnect
<1>2. CASE ConnectStep(t)
  BY <1>2, Zenon DEF ConnectStep, ReadInstance, RejectWithoutInstance, AuthTest, RejectToken,
     ConnectFails, FindExisting, WriteRow, ConnectListed
<1>3. CASE FindFails(t) \/ ConnectBreaks(t)
  BY <1>3, Zenon DEF FindFails, ConnectBreaks
<1>4. CASE DisconnectStep(t) \/ DisconnectBreaks(t)
  BY <1>4, Zenon DEF DisconnectStep, Delete, DisconnectListed, DisconnectBreaks
<1> QED BY <1>1, <1>2, <1>3, <1>4, Zenon

LEMMA SocketStepKeeps == SocketInv /\ [Next]_vars => SocketInv'
<1> SUFFICES ASSUME SocketInv, [Next]_vars PROVE SocketInv'
  OBVIOUS
<1>1. CASE \E t \in Tabs :
              \/ OpenModal(t) \/ CloseModal(t) \/ HandleConnect(t) \/ HandleDisconnect(t)
              \/ ConnectStep(t) \/ FindFails(t) \/ ConnectBreaks(t)
              \/ DisconnectStep(t) \/ DisconnectBreaks(t)
  BY <1>1, PageAside, OthersKeep, Zenon
<1>2. CASE \E u \in Users : DeleteInstance(u)
  BY <1>2, OthersKeep DEF DeleteInstance
<1>3. CASE \E e \in Events : SlackSends(e) \/ Expire(e)
  BY <1>3, SlackSendsKeeps, ExpireKeeps, Zenon
<1>4. CASE \E e \in Events, k \in Kinds :
              SocketStep(e, k) \/ LookUpFails(e, k) \/ Redeliver(e, k)
  BY <1>4, ReceiveKeeps, LookUpKeeps, DispatchKeeps, RedeliverKeeps, Zenon DEF SocketStep
<1>5. CASE OrchestratorCrashes
  BY <1>5, CrashKeeps
<1>6. CASE UNCHANGED vars
  BY <1>6, OthersKeep DEF vars
<1> QED BY <1>1, <1>2, <1>3, <1>4, <1>5, <1>6, Zenon DEF Next

\* The account of every message balances in every state.
THEOREM SocketInductive == Spec => []SocketInv
<1>1. Init => SocketInv
  BY SocketInit
<1>2. SocketInv /\ [Next]_vars => SocketInv'
  BY SocketStepKeeps
<1> QED BY <1>1, <1>2, PTL DEF Spec

\* handleMessage dispatches a message, which Slack delivers as two events and
\* may deliver again, once and once more for each time it was forgotten.
THEOREM MessageHandledOnce == Spec => []HandledOnce
<1>1. SocketInv => HandledOnce
  <2> SUFFICES ASSUME SocketInv, NEW e \in Events PROVE handled[e] <= 1 + forgotten[e]
    BY DEF HandledOnce
  <2>1. handled[e] + InHand(e) <= forgotten[e] + Remembered(e)
    BY SocketParts DEF Balanced
  <2>2. InHand(e) \in Nat
    BY BusyNumber DEF InHand
  <2>3. Remembered(e) \in {0, 1} /\ handled[e] \in Nat /\ forgotten[e] \in Nat
    BY RememberedNumber, SocketParts
  <2> QED BY <2>1, <2>2, <2>3
<1> QED BY <1>1, SocketInductive, PTL
-----------------------------------------------------------------------------
(***************************************************************************)
(* One row per user.                                                       *)
(***************************************************************************)
Pcs == Connecting \cup {"idle"}

\* What is found does not matter to the shape.
ConnShaped == \E F : conn \in [Tabs -> [pc : Pcs, team : Teams \cup {None}, found : F]]

\* Which team, is of no matter here either.
SomeRows == [user : Users, team : Teams \cup {None}, active : BOOLEAN] \cup {None}

RowsTyped == rows \in Seq(SomeRows) /\ owner \in [Tabs -> Users]

AtMostOne(u) == \A i, j \in RowsOf(u) : i = j

\* A call about to write knows every row of its user ...
Knows(t) == conn[t].pc = "write" => \A i \in RowsOf(owner[t]) : i = conn[t].found

\* ... and is the only one.
Alone(t) ==
    \A o \in Tabs : conn[t].pc = "write" /\ conn[o].pc = "write" /\ owner[o] = owner[t] => o = t

Undoubled ==
    /\ \A u \in Users \ doubled : AtMostOne(u)
    /\ \A t \in Tabs : owner[t] \notin doubled => Knows(t) /\ Alone(t)

RowsInv == RowsTyped /\ ConnShaped /\ Undoubled

-----------------------------------------------------------------------------
LEMMA RowsInit == Init => RowsInv
<1> SUFFICES ASSUME Init PROVE RowsInv
  OBVIOUS
<1>1. /\ rows = <<>> /\ owner \in [Tabs -> Users]
      /\ conn = [t \in Tabs |-> NotConnecting]
  BY DEF Init
<1>2. conn \in [Tabs -> [pc : Pcs, team : Teams \cup {None}, found : {None}]]
  BY <1>1 DEF NotConnecting, Pcs
<1>3. \A u : RowsOf(u) = {}
  BY <1>1 DEF RowsOf
<1>4. \A t \in Tabs : conn[t].pc = "idle"
  BY <1>1 DEF NotConnecting
<1>5. RowsTyped /\ ConnShaped
  BY <1>1, <1>2, EmptySeq DEF RowsTyped, ConnShaped
<1>6. Undoubled
  BY <1>3, <1>4 DEF Undoubled, AtMostOne, Knows, Alone
<1> QED BY <1>5, <1>6 DEF RowsInv

\* Two rows make no single one, and a single one is all there is.
LEMMA SingleIsAll ==
    ASSUME RowsTyped, NEW u \in Users, AtMostOne(u), NEW i \in RowsOf(u)
    PROVE  i = Single(u)
<1>1. RowsOf(u) = {i}
  BY DEF AtMostOne
<1>2. Cardinality({i}) = 1
  BY FS_Singleton
<1>3. i \in Nat
  BY LenProperties DEF RowsTyped, RowsOf
<1>4. Max({i}) = i
  BY <1>3 DEF Max
<1> QED BY <1>1, <1>2, <1>4 DEF Single

\* Few rows of a user are at most one.
LEMMA AtMostOneCounted ==
    ASSUME NEW u, AtMostOne(u)
    PROVE  Cardinality(RowsOf(u)) <= 1
<1>1. CASE RowsOf(u) = {}
  BY <1>1, FS_EmptySet
<1>2. CASE \E i \in RowsOf(u) : TRUE
  <2>1. PICK i \in RowsOf(u) : TRUE
    BY <1>2
  <2>2. RowsOf(u) = {i}
    BY DEF AtMostOne
  <2> QED BY <2>2, FS_Singleton
<1> QED BY <1>1, <1>2

\* A step that gives nobody a row and brings no call to its write.
LEMMA ShrinkKeeps ==
    ASSUME RowsInv, RowsTyped', ConnShaped', UNCHANGED owner, doubled \subseteq doubled',
           \A u \in Users : RowsOf(u)' \subseteq RowsOf(u),
           \A t \in Tabs : conn'[t].pc = "write" => conn'[t] = conn[t]
    PROVE  RowsInv'
<1>1. \A u \in Users \ doubled' : AtMostOne(u)'
  BY DEF RowsInv, Undoubled, AtMostOne
<1>2. ASSUME NEW t \in Tabs, owner[t] \notin doubled' PROVE Knows(t)' /\ Alone(t)'
  <2>1. Knows(t) /\ Alone(t) /\ owner[t] \in Users
    BY <1>2 DEF RowsInv, RowsTyped, Undoubled
  <2>2. Knows(t)'
    BY <2>1 DEF Knows
  <2>3. Alone(t)'
    BY <2>1 DEF Alone
  <2> QED BY <2>2, <2>3
<1> QED BY <1>1, <1>2 DEF RowsInv, Undoubled

\* A step that leaves rows and connects alone.
LEMMA RowsAside ==
    ASSUME RowsInv, UNCHANGED <<rows, owner, conn, doubled>>
    PROVE  RowsInv'
<1>1. RowsTyped' /\ ConnShaped'
  BY DEF RowsInv, RowsTyped, ConnShaped
<1>2. \A u \in Users : RowsOf(u)' = RowsOf(u)
  BY DEF RowsOf
<1> QED BY <1>1, <1>2, ShrinkKeeps

\* A connect begins, goes on before its lookup or ends.
LEMMA ConnKeeps ==
    ASSUME RowsInv, UNCHANGED <<rows, owner, doubled>>, NEW t \in Tabs,
           \/ conn' = [conn EXCEPT ![t] = NotConnecting]
           \/ \E pc \in Pcs \ {"write"} : conn' = [conn EXCEPT ![t].pc = pc]
           \/ \E team \in Teams : conn' = [conn EXCEPT ![t].pc = "find", ![t].team = team]
    PROVE  RowsInv'
<1>1. PICK F : conn \in [Tabs -> [pc : Pcs, team : Teams \cup {None}, found : F]]
  BY DEF RowsInv, ConnShaped
<1> DEFINE C == [pc : Pcs, team : Teams \cup {None}, found : F \cup {None}]
<1>2. NotConnecting \in C /\ NotConnecting.pc # "write"
  BY DEF NotConnecting, Pcs
<1>3. conn \in [Tabs -> C]
  BY <1>1
<1>4. /\ conn' \in [Tabs -> C]
      /\ \A o \in Tabs : conn'[o].pc = "write" => conn'[o] = conn[o]
  <2>1. CASE conn' = [conn EXCEPT ![t] = NotConnecting]
    BY <1>2, <1>3, <2>1
  <2>2. CASE \E pc \in Pcs \ {"write"} : conn' = [conn EXCEPT ![t].pc = pc]
    BY <1>3, <2>2
  <2>3. CASE \E team \in Teams : conn' = [conn EXCEPT ![t].pc = "find", ![t].team = team]
    BY <1>3, <2>3, ZenonT(40) DEF Pcs, Connecting
  <2> QED BY <2>1, <2>2, <2>3
<1>5. RowsTyped' /\ ConnShaped'
  BY <1>4 DEF RowsInv, RowsTyped, ConnShaped
<1>6. \A u \in Users : RowsOf(u)' = RowsOf(u)
  BY DEF RowsOf
<1> QED BY <1>4, <1>5, <1>6, ShrinkKeeps

\* A lookup brings its call to the write, unless that doubles the user.
LEMMA FindKeeps ==
    ASSUME RowsInv, NEW t \in Tabs, FindExisting(t) \/ FindFails(t)
    PROVE  RowsInv'
<1>1. UNCHANGED <<rows, owner>>
  BY DEF FindExisting, FindFails, Unchanged, Unpressed
<1>2. PICK F : conn \in [Tabs -> [pc : Pcs, team : Teams \cup {None}, found : F]]
  BY DEF RowsInv, ConnShaped
<1> DEFINE G == F \cup {Single(owner[t])}
           C == [pc : Pcs, team : Teams \cup {None}, found : G]
<1>3. /\ conn' \in [Tabs -> C] /\ conn'[t].pc = "write"
      /\ \A o \in Tabs \ {t} : conn'[o] = conn[o]
      /\ doubled \subseteq doubled'
      /\ owner[t] \notin doubled' => conn'[t].found = Single(owner[t]) /\ ~Doubles(t)
  <2>1. CASE FindExisting(t)
    <3>1. conn' = [conn EXCEPT ![t].pc = "write", ![t].found = Single(owner[t])]
      BY <2>1 DEF FindExisting
    <3>2. doubled' = IF Doubles(t) THEN doubled \cup {owner[t]} ELSE doubled
      BY <2>1 DEF FindExisting
    <3>3. /\ conn' \in [Tabs -> C] /\ conn'[t].pc = "write"
          /\ conn'[t].found = Single(owner[t])
          /\ \A o \in Tabs \ {t} : conn'[o] = conn[o]
      BY <1>2, <3>1 DEF Pcs, Connecting
    <3> QED BY <3>2, <3>3
  <2>2. CASE FindFails(t)
    <3>1. conn' = [conn EXCEPT ![t].pc = "write"] /\ doubled' = doubled \cup {owner[t]}
      BY <2>2 DEF FindFails, Goto
    <3> QED BY <1>2, <3>1 DEF Pcs, Connecting
  <2> QED BY <2>1, <2>2
<1> HIDE DEF C, G
<1>4. RowsTyped'
  BY <1>1 DEF RowsInv, RowsTyped
<1>5. ConnShaped'
  BY <1>3 DEF ConnShaped, C
<1>6. \A u : RowsOf(u)' = RowsOf(u)
  BY <1>1 DEF RowsOf
<1>7. \A u \in Users \ doubled' : AtMostOne(u)'
  BY <1>3, <1>6 DEF RowsInv, Undoubled, AtMostOne
<1>8. ASSUME NEW o \in Tabs, owner[o] \notin doubled' PROVE Knows(o)' /\ Alone(o)'
  <2>1. Knows(o) /\ Alone(o) /\ owner[o] \in Users \ doubled /\ AtMostOne(owner[o])
    BY <1>3, <1>8 DEF RowsInv, RowsTyped, Undoubled
  <2>2. Knows(o)'
    <3>1. CASE o = t
      <4>1. \A i \in RowsOf(owner[t]) : i = Single(owner[t])
        BY <2>1, <3>1, SingleIsAll DEF RowsInv
      <4> QED BY <1>1, <1>3, <1>6, <1>8, <3>1, <4>1 DEF Knows
    <3>2. CASE o # t
      BY <1>1, <1>3, <1>6, <2>1, <3>2 DEF Knows
    <3> QED BY <3>1, <3>2
  <2>3. Alone(o)'
    <3>1. owner[o] = owner[t] => \A p \in Tabs \ {t} :
             ~(owner[p] = owner[t] /\ conn[p].pc = "write")
      BY <1>3, <1>8 DEF Doubles
    <3> QED BY <1>1, <1>3, <2>1, <3>1 DEF Alone
  <2> QED BY <2>2, <2>3
<1> QED BY <1>1, <1>4, <1>5, <1>7, <1>8 DEF RowsInv, Undoubled

\* The write makes the row it found, or a first one, the user's only row.
LEMMA WriteKeeps == ASSUME RowsInv, NEW t \in Tabs, WriteRow(t) PROVE RowsInv'
<1> DEFINE i == conn[t].found
           row == [user |-> owner[t], team |-> conn[t].team, active |-> TRUE]
<1>1. /\ conn[t].pc = "write" /\ conn' = [conn EXCEPT ![t].pc = "list"]
      /\ UNCHANGED <<owner, doubled>>
  BY DEF WriteRow, Goto
<1>2. PICK F : conn \in [Tabs -> [pc : Pcs, team : Teams \cup {None}, found : F]]
  BY DEF RowsInv, ConnShaped
<1>3. /\ conn' \in [Tabs -> [pc : Pcs, team : Teams \cup {None}, found : F]]
      /\ conn'[t].pc = "list" /\ \A o \in Tabs \ {t} : conn'[o] = conn[o]
  BY <1>1, <1>2 DEF Pcs, Connecting
<1>4. ConnShaped'
  BY <1>3 DEF ConnShaped
<1>5. /\ rows \in Seq(SomeRows) /\ owner \in [Tabs -> Users] /\ row \in SomeRows
  BY <1>2 DEF RowsInv, RowsTyped, SomeRows
<1>6. \/ i # None /\ rows[i] # None /\ rows' = [rows EXCEPT ![i] = row]
      \/ i = None /\ rows' = Append(rows, row)
      \/ UNCHANGED rows
  BY DEF WriteRow
<1> HIDE DEF row
<1>7. /\ rows' \in Seq(SomeRows)
      /\ \A u \in Users \ {owner[t]} : RowsOf(u)' \subseteq RowsOf(u)
      /\ (\A j \in RowsOf(owner[t]) : j = i) => AtMostOne(owner[t])'
  <2>1. row.user = owner[t]
    BY DEF row
  <2>2. CASE i # None /\ rows[i] # None /\ rows' = [rows EXCEPT ![i] = row]
    <3>1. rows' \in Seq(SomeRows) /\ DOMAIN rows' = DOMAIN rows
      <4>1. CASE i \in 1..Len(rows)
        BY <1>5, <2>2, <4>1, ExceptSeq
      <4>2. CASE i \notin 1..Len(rows)
        <5>1. DOMAIN rows = 1..Len(rows)
          BY <1>5, LenProperties
        <5>2. rows' = rows
          BY <1>5, <2>2, <4>2, <5>1
        <5> QED BY <1>5, <5>2
      <4> QED BY <4>1, <4>2
    <3>2. \A j \in DOMAIN rows : rows'[j] = IF j = i THEN row ELSE rows[j]
      BY <2>2
    <3> QED BY <1>1, <2>1, <3>1, <3>2 DEF RowsOf, AtMostOne
  <2>3. CASE i = None /\ rows' = Append(rows, row)
    <3>1. /\ rows' \in Seq(SomeRows) /\ DOMAIN rows' = 1..(Len(rows) + 1)
          /\ DOMAIN rows = 1..Len(rows) /\ Len(rows) \in Nat
          /\ \A j \in DOMAIN rows : rows'[j] = rows[j]
          /\ rows'[Len(rows) + 1] = row
      BY <1>5, <2>3, AppendProperties, LenProperties
    <3>2. \A j \in DOMAIN rows' : j \in DOMAIN rows \/ j = Len(rows) + 1
      BY <3>1
    <3>3. \A j \in DOMAIN rows : j # None
      BY <3>1, NoneIsNone
    <3> QED BY <1>1, <2>1, <2>3, <3>1, <3>2, <3>3 DEF RowsOf, AtMostOne
  <2>4. CASE UNCHANGED rows
    BY <1>1, <1>5, <2>4 DEF RowsOf, AtMostOne
  <2> QED BY <1>6, <2>2, <2>3, <2>4
<1> HIDE DEF i
<1>8. RowsTyped'
  BY <1>1, <1>5, <1>7 DEF RowsTyped
<1>9. owner[t] \notin doubled => Knows(t) /\ Alone(t)
  BY DEF RowsInv, Undoubled
<1>10. \A u \in Users \ doubled' : AtMostOne(u)'
  <2> SUFFICES ASSUME NEW u \in Users \ doubled PROVE AtMostOne(u)'
    BY <1>1
  <2>1. CASE u = owner[t]
    BY <1>1, <1>7, <1>9, <2>1 DEF Knows, i
  <2>2. CASE u # owner[t]
    BY <1>7, <2>2 DEF RowsInv, Undoubled, AtMostOne
  <2> QED BY <2>1, <2>2
<1>11. ASSUME NEW o \in Tabs, owner[o] \notin doubled' PROVE Knows(o)' /\ Alone(o)'
  <2>1. Knows(o) /\ Alone(o) /\ owner[o] \in Users /\ owner[o] \notin doubled
    BY <1>1, <1>5, <1>11 DEF RowsInv, Undoubled
  <2>2. CASE o = t
    BY <1>3, <2>2 DEF Knows, Alone
  <2>3. CASE o # t
    <3>1. conn[o].pc = "write" => owner[o] # owner[t]
      BY <1>1, <2>1, <2>3 DEF Alone
    <3>2. Knows(o)'
      BY <1>1, <1>3, <1>7, <2>1, <2>3, <3>1 DEF Knows
    <3>3. Alone(o)'
      BY <1>1, <1>3, <2>1, <2>3 DEF Alone
    <3> QED BY <3>2, <3>3
  <2> QED BY <2>2, <2>3
<1> QED BY <1>1, <1>4, <1>8, <1>10, <1>11 DEF RowsInv, Undoubled

\* A channel turned off keeps its user; a deletion takes rows away.
LEMMA TableKeeps ==
    ASSUME RowsInv, (\E t \in Tabs : Delete(t)) \/ (\E u \in Users : DeleteInstance(u))
    PROVE  RowsInv'
<1>1. UNCHANGED <<owner, conn, doubled>>
  BY DEF Delete, DeleteInstance, tabs, Unchanged, Unpressed
<1>2. rows \in Seq(SomeRows) /\ None \in SomeRows
  BY DEF RowsInv, RowsTyped, SomeRows
<1>3. rows' \in Seq(SomeRows) /\ \A v \in Users : RowsOf(v)' \subseteq RowsOf(v)
  <2>1. CASE UNCHANGED rows
    BY <1>2, <2>1 DEF RowsOf
  <2>2. CASE \E t \in Tabs : /\ disc[t].id \in RowsOf(owner[t])
                             /\ rows' = [rows EXCEPT ![disc[t].id].active = FALSE]
    <3>1. PICK d : d \in DOMAIN rows /\ rows[d] # None /\ rows' = [rows EXCEPT ![d].active = FALSE]
      BY <2>2 DEF RowsOf
    <3> DEFINE new == [rows[d] EXCEPT !.active = FALSE]
    <3>2. rows[d] \in SomeRows
      BY <1>2, <3>1, ElementOfSeq, LenProperties
    <3>3. new \in SomeRows /\ new.user = rows[d].user
      BY <3>1, <3>2 DEF SomeRows
    <3>4. rows' = [rows EXCEPT ![d] = new]
      BY <3>1
    <3> HIDE DEF new
    <3>5. rows' \in Seq(SomeRows) /\ DOMAIN rows' = DOMAIN rows
      <4>1. d \in 1..Len(rows)
        BY <1>2, <3>1, LenProperties
      <4>2. rows' \in Seq(SomeRows)
        BY <1>2, <3>3, <3>4, <4>1, ExceptSeq
      <4> QED BY <3>4, <4>2
    <3>6. \A j \in DOMAIN rows : rows'[j] = IF j = d THEN new ELSE rows[j]
      BY <3>4
    <3> QED BY <3>1, <3>3, <3>5, <3>6 DEF RowsOf
  <2>3. CASE \E u \in Users :
                rows' = [j \in DOMAIN rows |-> IF j \in RowsOf(u) THEN None ELSE rows[j]]
    <3>1. PICK u \in Users :
             rows' = [j \in DOMAIN rows |-> IF j \in RowsOf(u) THEN None ELSE rows[j]]
      BY <2>3
    <3>2. /\ DOMAIN rows = 1..Len(rows) /\ Len(rows) \in Nat
          /\ rows \in [1..Len(rows) -> SomeRows]
      BY <1>2, LenProperties
    <3>3. rows' \in [1..Len(rows) -> SomeRows]
      BY <1>2, <3>1, <3>2
    <3>4. rows' \in Seq(SomeRows)
      BY <3>2, <3>3, SeqDef
    <3>5. DOMAIN rows' = DOMAIN rows
          /\ \A j \in DOMAIN rows : rows'[j] # None => rows'[j] = rows[j]
      BY <3>1
    <3> QED BY <3>4, <3>5 DEF RowsOf
  <2> QED BY <2>1, <2>2, <2>3 DEF Delete, DeleteInstance
<1>4. RowsTyped' /\ ConnShaped'
  BY <1>1, <1>3 DEF RowsInv, RowsTyped, ConnShaped
<1> QED BY <1>1, <1>3, <1>4, ShrinkKeeps

\* The calls in progress end.
LEMMA CrashEndsCalls == ASSUME RowsInv, OrchestratorCrashes PROVE RowsInv'
<1>1. /\ UNCHANGED <<rows, owner, doubled>>
      /\ conn' = [t \in Tabs |-> IF conn[t].pc = "list" THEN conn[t] ELSE NotConnecting]
  BY DEF OrchestratorCrashes, table
<1>2. PICK F : conn \in [Tabs -> [pc : Pcs, team : Teams \cup {None}, found : F]]
  BY DEF RowsInv, ConnShaped
<1>3. NotConnecting \in [pc : Pcs, team : Teams \cup {None}, found : F \cup {None}]
  BY DEF NotConnecting, Pcs
<1>4. conn' \in [Tabs -> [pc : Pcs, team : Teams \cup {None}, found : F \cup {None}]]
  BY <1>1, <1>2, <1>3
<1>5. \A t \in Tabs : conn'[t].pc # "write"
  BY <1>1 DEF NotConnecting
<1>6. RowsTyped' /\ ConnShaped'
  BY <1>1, <1>4 DEF RowsInv, RowsTyped, ConnShaped
<1>7. \A u \in Users : RowsOf(u)' = RowsOf(u)
  BY <1>1 DEF RowsOf
<1> QED BY <1>1, <1>5, <1>6, <1>7, ShrinkKeeps

-----------------------------------------------------------------------------
LEMMA TabKeepsRows ==
    ASSUME RowsInv, NEW t \in Tabs,
           \/ OpenModal(t) \/ CloseModal(t) \/ HandleConnect(t) \/ HandleDisconnect(t)
           \/ ConnectStep(t) \/ FindFails(t) \/ ConnectBreaks(t)
           \/ DisconnectStep(t) \/ DisconnectBreaks(t)
    PROVE  RowsInv'
<1> USE DEF Unchanged, Unpressed
<1>1. CASE \/ OpenModal(t) \/ CloseModal(t) \/ HandleDisconnect(t)
           \/ DisconnectListed(t) \/ DisconnectBreaks(t)
  <2>1. UNCHANGED <<rows, owner, conn, doubled>>
    BY <1>1, Zenon DEF OpenModal, CloseModal, Modal, HandleDisconnect, DisconnectListed, DisconnectBreaks
  <2> QED BY <2>1, RowsAside
<1>2. CASE HandleConnect(t) \/ ReadInstance(t)
  <2>1. UNCHANGED <<rows, owner, doubled>>
    BY <1>2 DEF HandleConnect, ReadInstance
  <2>2. conn' = [conn EXCEPT ![t].pc = "instance"] \/ conn' = [conn EXCEPT ![t].pc = "auth"]
    BY <1>2 DEF HandleConnect, ReadInstance, Goto
  <2>3. {"instance", "auth"} \subseteq Pcs \ {"write"}
    BY DEF Pcs, Connecting
  <2> QED BY <2>1, <2>2, <2>3, ConnKeeps
<1>3. CASE RejectWithoutInstance(t) \/ RejectToken(t) \/ ConnectListed(t) \/ ConnectBreaks(t)
  <2>1. UNCHANGED <<rows, owner, doubled>> /\ conn' = [conn EXCEPT ![t] = NotConnecting]
    BY <1>3, Zenon DEF RejectWithoutInstance, RejectToken, ConnectListed, ConnectBreaks, ConnectFails, ConnectEnds
  <2> QED BY <2>1, ConnKeeps
<1>4. CASE AuthTest(t)
  <2>1. UNCHANGED <<rows, owner, doubled>>
    BY <1>4 DEF AuthTest
  <2>2. \E team \in Teams : conn' = [conn EXCEPT ![t].pc = "find", ![t].team = team]
    BY <1>4 DEF AuthTest
  <2> QED BY <2>1, <2>2, ConnKeeps
<1>5. CASE FindExisting(t) \/ FindFails(t)
  BY <1>5, FindKeeps
<1>6. CASE WriteRow(t)
  BY <1>6, WriteKeeps
<1>7. CASE Delete(t)
  BY <1>7, TableKeeps
<1> QED BY <1>1, <1>2, <1>3, <1>4, <1>5, <1>6, <1>7, Zenon DEF ConnectStep, DisconnectStep

LEMMA RowsStep == RowsInv /\ [Next]_vars => RowsInv'
<1> SUFFICES ASSUME RowsInv, [Next]_vars PROVE RowsInv'
  OBVIOUS
<1>1. CASE \E t \in Tabs :
              \/ OpenModal(t) \/ CloseModal(t) \/ HandleConnect(t) \/ HandleDisconnect(t)
              \/ ConnectStep(t) \/ FindFails(t) \/ ConnectBreaks(t)
              \/ DisconnectStep(t) \/ DisconnectBreaks(t)
  BY <1>1, TabKeepsRows, Zenon
<1>2. CASE \E u \in Users : DeleteInstance(u)
  BY <1>2, TableKeeps
<1>3. CASE \E e \in Events :
              \/ SlackSends(e) \/ Expire(e)
              \/ \E k \in Kinds : SocketStep(e, k) \/ LookUpFails(e, k) \/ Redeliver(e, k)
  <2>1. UNCHANGED <<rows, owner, conn, doubled>>
    BY <1>3, Zenon DEF SlackSends, Expire, SocketStep, Receive, LookUp, Dispatch, LookUpFails,
       Redeliver, Aside, table, tabs
  <2> QED BY <2>1, RowsAside
<1>4. CASE OrchestratorCrashes
  BY <1>4, CrashEndsCalls
<1>5. CASE UNCHANGED vars
  BY <1>5, RowsAside DEF vars, table, tabs
<1> QED BY <1>1, <1>2, <1>3, <1>4, <1>5, Zenon DEF Next

\* A call about to write knows all its user's rows, and is the only such call,
\* for every user without an overlap or a failed lookup.
THEOREM RowsInductive == Spec => []RowsInv
<1>1. Init => RowsInv
  BY RowsInit
<1>2. RowsInv /\ [Next]_vars => RowsInv'
  BY RowsStep
<1> QED BY <1>1, <1>2, PTL DEF Spec

\* connectSlack never gives a user a second row but by two calls that overlap
\* between lookup and insert, or by a lookup whose error it does not look at.
THEOREM OneRowEach == Spec => []OneRowUnlessDoubled
<1>1. RowsInv => OneRowUnlessDoubled
  BY AtMostOneCounted DEF RowsInv, Undoubled, OneRowUnlessDoubled
<1> QED BY <1>1, RowsInductive, PTL

-----------------------------------------------------------------------------
(***************************************************************************)
(* The types.  What SocketInv and RowsInv know is used in both states; a   *)
(* call about to write has its team from auth.test (Calls).                *)
(***************************************************************************)
Calls ==
    {c \in [pc : Connecting \cup {"idle"}, team : Teams \cup {None}, found : Ids \cup {None}] :
        c.pc \in {"find", "write"} => c.team \in Teams}
Pages == [shown : Ids \cup {None}, modal : BOOLEAN]
Disconnects == [pc : {"idle", "delete", "list"}, id : Ids \cup {None}]

PagesTyped ==
    page \in [Tabs -> Pages] /\ conn \in [Tabs -> Calls] /\ disc \in [Tabs -> Disconnects]

OrderTyped == order \in Seq(Ids) /\ ToSet(order) = DOMAIN rows /\ IsInjective(order)

TableTyped ==
    /\ instance \subseteq Users
    /\ rows \in Seq(Rows \cup {None}) /\ Len(rows) <= MaxRows
    /\ OrderTyped

RoutesTyped ==
    /\ target \in [Events \X Kinds -> Users \cup {None}]
    /\ eligible \in [Events -> SUBSET Users]
    /\ doubled \subseteq Users

Counted ==
    /\ presses \in 0..MaxPresses /\ faults \in 0..MaxFaults
    /\ repeats \in 0..MaxRepeats /\ crashes \in 0..MaxCrashes

Known == SocketInv /\ RowsInv
Typed == PagesTyped /\ TableTyped /\ RoutesTyped /\ Counted

LEMMA TypedIsTypeOK == Known /\ Typed => TypeOK
<1> SUFFICES ASSUME Known, Typed PROVE TypeOK
  OBVIOUS
<1>1. conn \in [Tabs -> [pc : Connecting \cup {"idle"}, team : Teams \cup {None},
                         found : Ids \cup {None}]]
  BY DEF Typed, PagesTyped, Calls
<1>2. /\ owner \in [Tabs -> Users] /\ processed \subseteq Events
      /\ stage \in [Events \X Kinds -> Stages]
      /\ handled \in [Events -> Nat] /\ forgotten \in [Events -> Nat]
  BY DEF Known, RowsInv, RowsTyped, SocketInv, SocketTyped
<1> QED BY <1>1, <1>2 DEF Typed, PagesTyped, TableTyped, OrderTyped, RoutesTyped, Counted, Pages,
           Disconnects, Stages, TypeOK

LEMMA TypedInit == Init => Typed
<1> SUFFICES ASSUME Init PROVE Typed
  OBVIOUS
<1>1. NotConnecting \in Calls
  BY DEF NotConnecting, Calls
<1>2. PagesTyped
  BY <1>1 DEF Init, PagesTyped, Pages, Disconnects
<1>3. OrderTyped
  <2>1. rows = <<>> /\ order = <<>>
    BY DEF Init
  <2>2. ToSet(order) = DOMAIN rows
    BY <2>1 DEF ToSet
  <2> QED BY <2>1, <2>2, EmptySeq DEF OrderTyped, IsInjective
<1>4. TableTyped
  <2>1. rows \in Seq(Rows \cup {None}) /\ Len(rows) <= MaxRows
    BY ChannelBounds, EmptySeq DEF Init
  <2> QED BY <1>3, <2>1 DEF Init, TableTyped
<1>5. RoutesTyped
  BY DEF Init, RoutesTyped
<1>6. Counted
  BY ChannelBounds DEF Init, Counted
<1> QED BY <1>2, <1>4, <1>5, <1>6 DEF Typed

-----------------------------------------------------------------------------
(* The queries                                                             *)

Less == OpToRel(<, Nat)

LEMMA LessWellFounded == IsWellFoundedOn(Less, Nat)
BY NatLessThanWellFounded, Zenon DEF Less

LEMMA InLess == ASSUME NEW x \in Nat, NEW y \in Nat, x < y PROVE <<x, y>> \in Less
BY Zenon DEF Less, OpToRel

\* A nonempty set of numbers has a least one, and a greatest one if bounded.
LEMMA MinIsOne == ASSUME NEW S \in SUBSET Nat, S # {} PROVE Min(S) \in S
<1>1. PICK x \in S : \A y \in S : <<y, x>> \notin Less
  BY LessWellFounded, WFMin, Zenon
<1>2. \A y \in S : ~(y < x)
  BY <1>1, InLess
<1>3. \A y \in S : x <= y
  BY <1>2
<1>4. \E m \in S : \A y \in S : m <= y
  BY <1>3
<1> QED BY <1>4, Zenon DEF Min

LEMMA MaxIsOne == ASSUME NEW n \in Nat, NEW S \in SUBSET (1..n), S # {} PROVE Max(S) \in S
<1> DEFINE D == {n - x : x \in S}
<1>1. D \subseteq Nat /\ D # {} /\ (\A y \in S : n - y \in D)
  <2>1. \A y \in S : n - y \in Nat
    OBVIOUS
  <2> QED BY <2>1
<1> HIDE DEF D
<1>2. PICK d \in D : \A e \in D : <<e, d>> \notin Less
  <2>1. D \in SUBSET Nat
    BY <1>1
  <2> QED BY <1>1, <2>1, LessWellFounded, WFMin, Zenon
<1>3. \A e \in D : ~(e < d)
  BY <1>1, <1>2, InLess
<1>4. PICK x \in S : d = n - x
  BY DEF D
<1>5. \A y \in S : x >= y
  <2> SUFFICES ASSUME NEW y \in S PROVE x >= y
    OBVIOUS
  <2>1. ~(n - y < n - x) /\ x \in Nat /\ y \in Nat
    BY <1>1, <1>3, <1>4
  <2> QED BY <2>1
<1>6. \E m \in S : \A y \in S : m >= y
  BY <1>5
<1> QED BY <1>6, Zenon DEF Max

LEMMA ListedTyped ==
    ASSUME TableTyped, NEW u
    PROVE  Listed(u) \in Ids \cup {None} /\ Single(u) \in Ids \cup {None}
<1>1. /\ Len(rows) \in Nat /\ DOMAIN rows = 1..Len(rows) /\ Len(rows) <= MaxRows /\ MaxRows \in Nat
  BY LenProperties, ChannelBounds DEF TableTyped
<1>2. RowsOf(u) \in SUBSET (1..Len(rows)) /\ 1..Len(rows) \subseteq Ids
  BY <1>1 DEF RowsOf, Ids
<1>3. RowsOf(u) # {} => Max(RowsOf(u)) \in Ids
  BY <1>1, <1>2, MaxIsOne
<1>4. RowsOf(u) = {} => Cardinality(RowsOf(u)) = 0
  BY FS_EmptySet
<1> QED BY <1>3, <1>4 DEF Listed, Single

\* A message is routed to a user who has the team connected, or to nobody.
LEMMA RouteIsActive ==
    ASSUME TableTyped, NEW team
    PROVE  Route(team) \in ActiveIn(team) \cup {None}
<1> DEFINE hits == {n \in DOMAIN order : LET row == rows[order[n]] IN
                                         row # None /\ row.team = team /\ row.active}
           n == Min(hits)
           i == order[n]
<1>1. Route(team) = IF hits = {} THEN None ELSE rows[i].user
  BY DEF Route, FirstUser
<1>2. CASE hits # {}
  <2>1. hits \in SUBSET Nat /\ hits \subseteq DOMAIN order
    BY LenProperties DEF TableTyped, OrderTyped
  <2>2. n \in hits
    BY <1>2, <2>1, MinIsOne
  <2>3. n \in DOMAIN order /\ rows[i] # None /\ rows[i].team = team /\ rows[i].active
    BY <2>2
  <2>4. i \in DOMAIN rows
    BY <2>3 DEF TableTyped, OrderTyped, ToSet
  <2> HIDE DEF hits, n, i
  <2>5. rows[i] \in Rows
    BY <2>3, <2>4, ElementOfSeq, LenProperties DEF TableTyped
  <2>6. rows[i].user \in Users /\ i \in RowsOf(rows[i].user)
    BY <2>3, <2>4, <2>5 DEF Rows, RowsOf
  <2>7. rows[i].user \in ActiveIn(team)
    BY <2>3, <2>6 DEF ActiveIn
  <2> QED BY <1>1, <1>2, <2>7
<1> QED BY <1>1, <1>2

-----------------------------------------------------------------------------
(* The steps, and the types of what they change                            *)

LEMMA CountedStep ==
    ASSUME Counted, Press \/ UNCHANGED presses, Fault \/ UNCHANGED faults,
           UNCHANGED <<repeats, crashes>>
    PROVE  Counted'
BY ChannelBounds DEF Counted, Press, Fault

LEMMA TableUnchanged == ASSUME TableTyped, UNCHANGED <<instance, rows, order>> PROVE TableTyped'
BY DEF TableTyped, OrderTyped, ToSet, IsInjective

LEMMA RoutesUnchanged ==
    ASSUME RoutesTyped, UNCHANGED <<target, eligible>>, doubled' \subseteq Users
    PROVE  RoutesTyped'
BY DEF RoutesTyped

\* A step of a connect.
LEMMA ConnTyped ==
    ASSUME conn \in [Tabs -> Calls], NEW t \in Tabs,
           \/ conn' = [conn EXCEPT ![t] = NotConnecting]
           \/ \E pc \in (Connecting \cup {"idle"}) \ {"find", "write"} :
                 conn' = [conn EXCEPT ![t].pc = pc]
           \/ \E team \in Teams : conn' = [conn EXCEPT ![t].pc = "find", ![t].team = team]
           \/ conn[t].pc = "find" /\ conn' = [conn EXCEPT ![t].pc = "write"]
           \/ /\ conn[t].pc = "find"
              /\ \E i \in Ids \cup {None} :
                    conn' = [conn EXCEPT ![t].pc = "write", ![t].found = i]
    PROVE  conn' \in [Tabs -> Calls]
<1>1. NotConnecting \in Calls
  BY DEF NotConnecting, Calls
<1>2. ASSUME NEW pc \in (Connecting \cup {"idle"}) \ {"find", "write"}
      PROVE  [conn[t] EXCEPT !.pc = pc] \in Calls
  BY DEF Calls
<1>3. ASSUME NEW team \in Teams
      PROVE  [conn[t] EXCEPT !.pc = "find", !.team = team] \in Calls
  BY DEF Calls, Connecting
<1>4. ASSUME conn[t].pc = "find"
      PROVE  /\ [conn[t] EXCEPT !.pc = "write"] \in Calls
             /\ \A i \in Ids \cup {None} : [conn[t] EXCEPT !.pc = "write", !.found = i] \in Calls
  BY <1>4, ZenonT(40) DEF Calls, Connecting
<1> HIDE DEF NotConnecting
<1>5. \E c \in Calls : conn' = [conn EXCEPT ![t] = c]
  BY <1>1, <1>2, <1>3, <1>4
<1> QED BY <1>5

\* What the page shows after a fetch, and what becomes of its disconnect.
LEMMA PageTyped ==
    ASSUME page \in [Tabs -> Pages], NEW t \in Tabs,
           \/ \E i \in Ids \cup {None} : page' = [page EXCEPT ![t].shown = i]
           \/ \E open \in BOOLEAN : page' = [page EXCEPT ![t].modal = open]
           \/ UNCHANGED page
    PROVE  page' \in [Tabs -> Pages]
<1>1. ASSUME NEW i \in Ids \cup {None} PROVE [page[t] EXCEPT !.shown = i] \in Pages
  BY DEF Pages
<1>2. ASSUME NEW open \in BOOLEAN PROVE [page[t] EXCEPT !.modal = open] \in Pages
  BY DEF Pages
<1> QED BY <1>1, <1>2

LEMMA DiscTyped ==
    ASSUME disc \in [Tabs -> Disconnects], NEW t \in Tabs,
           \/ disc' = [disc EXCEPT ![t] = NotDisconnecting]
           \/ disc' = [disc EXCEPT ![t].pc = "list"]
           \/ \E i \in Ids \cup {None} : disc' = [disc EXCEPT ![t] = [pc |-> "delete", id |-> i]]
           \/ UNCHANGED disc
    PROVE  disc' \in [Tabs -> Disconnects]
BY DEF Disconnects, NotDisconnecting

LEMMA UnlistedTyped ==
    ASSUME PagesTyped, NEW t \in Tabs, Unlisted(t)
    PROVE  \E i \in Ids \cup {None} : page' = [page EXCEPT ![t].shown = i]
BY DEF PagesTyped, Pages, Unlisted

\* Every step of a tab but WriteRow and Delete leaves the table alone.
LEMMA TabTyped ==
    ASSUME Known, Typed, NEW t \in Tabs,
           \/ OpenModal(t) \/ CloseModal(t) \/ HandleConnect(t) \/ HandleDisconnect(t)
           \/ ReadInstance(t) \/ RejectWithoutInstance(t) \/ AuthTest(t) \/ RejectToken(t)
           \/ FindExisting(t) \/ FindFails(t) \/ ConnectListed(t) \/ ConnectBreaks(t)
           \/ DisconnectListed(t) \/ DisconnectBreaks(t)
    PROVE  Typed'
<1>1. PagesTyped /\ TableTyped /\ RoutesTyped /\ Counted
  BY DEF Typed
<1>2. UNCHANGED <<instance, rows, order, target, eligible, repeats, crashes>>
  BY Zenon DEF OpenModal, CloseModal, Modal, HandleConnect, HandleDisconnect, ReadInstance,
     RejectWithoutInstance, ConnectFails, AuthTest, RejectToken, FindExisting, FindFails,
     ConnectListed, ConnectBreaks, DisconnectListed, DisconnectBreaks, Unchanged, Unpressed, socket
<1>3. (Press \/ UNCHANGED presses) /\ (Fault \/ UNCHANGED faults)
  BY Zenon DEF OpenModal, CloseModal, Modal, HandleConnect, HandleDisconnect, ReadInstance,
     RejectWithoutInstance, ConnectFails, AuthTest, RejectToken, FindExisting, FindFails,
     ConnectListed, ConnectBreaks, DisconnectListed, DisconnectBreaks, Unchanged
<1>4. doubled' \subseteq Users
  <2>1. doubled' \in {doubled, doubled \cup {owner[t]}}
    BY DEF OpenModal, CloseModal, Modal, HandleConnect, HandleDisconnect, ReadInstance,
       RejectWithoutInstance, ConnectFails, AuthTest, RejectToken, FindExisting, FindFails,
       ConnectListed, ConnectBreaks, DisconnectListed, DisconnectBreaks
  <2> QED BY <1>1, <2>1 DEF Known, RowsInv, RowsTyped, RoutesTyped
<1>5. TableTyped' /\ RoutesTyped' /\ Counted'
  BY <1>1, <1>2, <1>3, <1>4, TableUnchanged, RoutesUnchanged, CountedStep
<1>6. /\ page \in [Tabs -> Pages] /\ conn \in [Tabs -> Calls] /\ disc \in [Tabs -> Disconnects]
      /\ Listed(owner[t]) \in Ids \cup {None} /\ Single(owner[t]) \in Ids \cup {None}
  BY <1>1, ListedTyped DEF PagesTyped
<1>7. ASSUME UNCHANGED <<conn, disc>>, page' \in [Tabs -> Pages] PROVE PagesTyped'
  BY <1>6, <1>7 DEF PagesTyped
<1>8. ASSUME UNCHANGED <<page, disc>>, conn' \in [Tabs -> Calls] PROVE PagesTyped'
  BY <1>6, <1>8 DEF PagesTyped
<1>9. CASE OpenModal(t) \/ CloseModal(t)
  <2>1. \E open \in BOOLEAN : page' = [page EXCEPT ![t].modal = open]
    BY <1>9 DEF OpenModal, CloseModal, Modal
  <2>2. UNCHANGED <<conn, disc>>
    BY <1>9 DEF OpenModal, CloseModal, Modal
  <2> QED BY <1>5, <1>6, <1>7, <2>1, <2>2, PageTyped DEF Typed
<1>10. CASE HandleConnect(t) \/ ReadInstance(t)
  <2>1. \E pc \in {"instance", "auth"} : conn' = [conn EXCEPT ![t].pc = pc]
    BY <1>10 DEF HandleConnect, ReadInstance, Goto
  <2>2. {"instance", "auth"} \subseteq (Connecting \cup {"idle"}) \ {"find", "write"}
    BY DEF Connecting
  <2>3. UNCHANGED <<page, disc>>
    BY <1>10 DEF HandleConnect, ReadInstance
  <2> QED BY <1>5, <1>6, <1>8, <2>1, <2>2, <2>3, ConnTyped DEF Typed
<1>11. CASE HandleDisconnect(t)
  <2>1. \E i \in Ids \cup {None} : disc' = [disc EXCEPT ![t] = [pc |-> "delete", id |-> i]]
    BY <1>6, <1>11 DEF HandleDisconnect, Pages
  <2>2. UNCHANGED <<page, conn>>
    BY <1>11 DEF HandleDisconnect
  <2> QED BY <1>5, <1>6, <2>1, <2>2, DiscTyped DEF Typed, PagesTyped
<1>12. CASE RejectWithoutInstance(t) \/ RejectToken(t)
  <2>1. conn' = [conn EXCEPT ![t] = NotConnecting] /\ UNCHANGED <<page, disc>>
    BY <1>12 DEF RejectWithoutInstance, RejectToken, ConnectFails, ConnectEnds
  <2> QED BY <1>5, <1>6, <1>8, <2>1, ConnTyped DEF Typed
<1>13. CASE AuthTest(t)
  <2>1. \E team \in Teams : conn' = [conn EXCEPT ![t].pc = "find", ![t].team = team]
    BY <1>13 DEF AuthTest
  <2>2. UNCHANGED <<page, disc>>
    BY <1>13 DEF AuthTest
  <2> QED BY <1>5, <1>6, <1>8, <2>1, <2>2, ConnTyped DEF Typed
<1>14. CASE FindExisting(t) \/ FindFails(t)
  <2>1. /\ conn[t].pc = "find"
        /\ \/ conn' = [conn EXCEPT ![t].pc = "write"]
           \/ conn' = [conn EXCEPT ![t].pc = "write", ![t].found = Single(owner[t])]
    BY <1>14 DEF FindExisting, FindFails, Goto
  <2>2. UNCHANGED <<page, disc>>
    BY <1>14 DEF FindExisting, FindFails
  <2> QED BY <1>5, <1>6, <1>8, <2>1, <2>2, ConnTyped DEF Typed
<1>15. CASE ConnectListed(t)
  <2>1. /\ conn' = [conn EXCEPT ![t] = NotConnecting] /\ UNCHANGED disc
        /\ page' = [page EXCEPT ![t].shown = Listed(owner[t])]
    BY <1>15 DEF ConnectListed, ConnectEnds
  <2> QED BY <1>5, <1>6, <2>1, ConnTyped, PageTyped DEF Typed, PagesTyped
<1>16. CASE ConnectBreaks(t)
  <2>1. /\ conn' = [conn EXCEPT ![t] = NotConnecting] /\ UNCHANGED disc
        /\ Unlisted(t) \/ UNCHANGED page
    BY <1>16 DEF ConnectBreaks, ConnectEnds
  <2> QED BY <1>1, <1>5, <1>6, <2>1, ConnTyped, PageTyped, UnlistedTyped DEF Typed, PagesTyped
<1>17. CASE DisconnectListed(t)
  <2>1. /\ disc' = [disc EXCEPT ![t] = NotDisconnecting] /\ UNCHANGED conn
        /\ page' = [page EXCEPT ![t].shown = Listed(owner[t])]
    BY <1>17 DEF DisconnectListed
  <2> QED BY <1>5, <1>6, <2>1, DiscTyped, PageTyped DEF Typed, PagesTyped
<1>18. CASE DisconnectBreaks(t)
  <2>1. /\ disc' = [disc EXCEPT ![t] = NotDisconnecting] /\ UNCHANGED conn
        /\ Unlisted(t) \/ UNCHANGED page
    BY <1>18 DEF DisconnectBreaks
  <2> QED BY <1>1, <1>5, <1>6, <2>1, DiscTyped, PageTyped, UnlistedTyped DEF Typed, PagesTyped
<1> QED BY <1>9, <1>10, <1>11, <1>12, <1>13, <1>14, <1>15, <1>16, <1>17, <1>18

\* The deleted row's place, or the one updated, is filled by those before it.
LEMMA ReconnectedTyped ==
    ASSUME OrderTyped, NEW n \in DOMAIN order, Reconnected(n), DOMAIN rows' = DOMAIN rows
    PROVE  OrderTyped'
<1>1. /\ order \in Seq(Ids) /\ IsInjective(order) /\ ToSet(order) = DOMAIN rows
      /\ DOMAIN order = 1..Len(order) /\ Len(order) \in Nat
  BY LenProperties DEF OrderTyped
<1> DEFINE f(k) == IF k = 1 THEN n ELSE IF k <= n THEN k - 1 ELSE k
           g(k) == IF k = n THEN 1 ELSE IF k < n THEN k + 1 ELSE k
<1>2. \A k \in DOMAIN order : f(k) \in DOMAIN order /\ g(k) \in DOMAIN order
  BY <1>1
<1>3. \A k \in DOMAIN order : f(g(k)) = k /\ g(f(k)) = k
  BY <1>1
<1>4. DOMAIN order' = DOMAIN order /\ \A k \in DOMAIN order : order'[k] = order[f(k)]
  BY DEF Reconnected
<1> HIDE DEF f, g
<1>5. order' \in [1..Len(order) -> Ids]
  <2>1. order' = [k \in 1..Len(order) |-> order'[k]]
    BY <1>1, <1>4 DEF Reconnected
  <2>2. \A k \in 1..Len(order) : order'[k] \in Ids
    BY <1>1, <1>2, <1>4, ElementOfSeq
  <2> QED BY <2>1, <2>2
<1>6. order' \in Seq(Ids)
  BY <1>1, <1>5, SeqDef
<1>7. IsInjective(order')
  <2> SUFFICES ASSUME NEW a \in DOMAIN order, NEW b \in DOMAIN order, order'[a] = order'[b]
               PROVE  a = b
    BY <1>4 DEF IsInjective
  <2>1. f(a) = f(b)
    BY <1>1, <1>2, <1>4 DEF IsInjective
  <2> QED BY <1>3, <2>1
<1>8. ToSet(order') = ToSet(order)
  <2>1. \A k \in DOMAIN order : order[k] = order'[g(k)]
    BY <1>2, <1>3, <1>4
  <2> QED BY <1>2, <1>4, <2>1 DEF ToSet
<1> QED BY <1>1, <1>6, <1>7, <1>8 DEF OrderTyped

LEMMA InsertedTyped ==
    ASSUME OrderTyped, NEW i \in Ids, i \notin DOMAIN rows, Inserted(i),
           DOMAIN rows' = DOMAIN rows \cup {i}
    PROVE  OrderTyped'
<1> DEFINE len == Len(order)
<1>1. /\ order \in Seq(Ids) /\ IsInjective(order) /\ ToSet(order) = DOMAIN rows
      /\ DOMAIN order = 1..len /\ len \in Nat
  BY LenProperties DEF OrderTyped
<1>2. <<i>> \in Seq(Ids) /\ Len(<<i>>) = 1 /\ <<i>>[1] = i
  OBVIOUS
<1>3. /\ order' \in Seq(Ids) /\ Len(order') = 1 + len
      /\ \A k \in 1..(1 + len) : order'[k] = IF k <= 1 THEN <<i>>[k] ELSE order[k - 1]
  BY <1>1, <1>2, ConcatProperties DEF Inserted
<1> HIDE DEF len
<1>4. /\ DOMAIN order' = 1..(1 + len)
      /\ \A k \in DOMAIN order' : \/ k = 1 /\ order'[k] = i
                                  \/ k - 1 \in DOMAIN order /\ order'[k] = order[k - 1]
  <2>1. DOMAIN order' = 1..(1 + len)
    BY <1>3, LenProperties
  <2> QED BY <1>1, <1>2, <1>3, <2>1
<1>5. \A k \in DOMAIN order : order[k] # i /\ k + 1 \in DOMAIN order' /\ order'[k + 1] = order[k]
  <2> SUFFICES ASSUME NEW k \in DOMAIN order
               PROVE  order[k] # i /\ k + 1 \in DOMAIN order' /\ order'[k + 1] = order[k]
    OBVIOUS
  <2>1. order[k] \in DOMAIN rows
    BY <1>1 DEF ToSet
  <2>2. k + 1 \in 1..(1 + len) /\ ~(k + 1 <= 1) /\ (k + 1) - 1 = k
    BY <1>1
  <2> QED BY <1>3, <1>4, <2>1, <2>2
<1>6. IsInjective(order')
  <2> SUFFICES ASSUME NEW a \in DOMAIN order', NEW b \in DOMAIN order', order'[a] = order'[b]
               PROVE  a = b
    BY DEF IsInjective
  <2>1. a \in Nat /\ b \in Nat
    BY <1>1, <1>4
  <2>2. CASE a = 1 \/ b = 1
    <3>1. 1 - 1 \notin DOMAIN order
      BY <1>1
    <3> QED BY <1>4, <1>5, <2>2, <3>1
  <2>3. CASE a # 1 /\ b # 1
    <3>1. /\ a - 1 \in DOMAIN order /\ order'[a] = order[a - 1]
          /\ b - 1 \in DOMAIN order /\ order'[b] = order[b - 1]
      BY <1>4, <2>3
    <3>2. \A x, y \in DOMAIN order : order[x] = order[y] => x = y
      BY <1>1 DEF IsInjective
    <3>3. a - 1 = b - 1
      BY <3>1, <3>2
    <3> QED BY <2>1, <3>3
  <2> QED BY <2>2, <2>3
<1>7. ToSet(order') = ToSet(order) \cup {i}
  <2>1. 1 \in DOMAIN order' /\ order'[1] = i
    BY <1>1, <1>2, <1>3, <1>4
  <2> QED BY <1>4, <1>5, <2>1 DEF ToSet
<1> QED BY <1>1, <1>3, <1>6, <1>7 DEF OrderTyped

LEMMA WriteTyped == ASSUME Known, Typed, NEW t \in Tabs, WriteRow(t) PROVE Typed'
<1> DEFINE i == conn[t].found
           row == [user |-> owner[t], team |-> conn[t].team, active |-> TRUE]
<1>1. /\ conn[t].pc = "write" /\ conn' = [conn EXCEPT ![t].pc = "list"]
      /\ page' = [page EXCEPT ![t].modal = FALSE]
      /\ UNCHANGED <<instance, disc, presses, target, doubled, faults, repeats, crashes>>
  BY DEF WriteRow, Goto, socket
<1>2. /\ PagesTyped /\ TableTyped /\ RoutesTyped /\ Counted
      /\ owner \in [Tabs -> Users]
  BY DEF Typed, Known, RowsInv, RowsTyped
<1>3. PagesTyped'
  <2>1. "list" \in (Connecting \cup {"idle"}) \ {"find", "write"}
    BY DEF Connecting
  <2> QED BY <1>1, <1>2, <2>1, ConnTyped, PageTyped DEF PagesTyped
<1>4. row \in Rows /\ i \in Ids \cup {None}
  BY <1>1, <1>2 DEF PagesTyped, Calls, Rows
<1>5. Counted'
  BY <1>1, <1>2 DEF Counted
<1>6. /\ rows \in Seq(Rows \cup {None}) /\ Len(rows) \in Nat /\ Len(rows) <= MaxRows
      /\ MaxRows \in Nat /\ DOMAIN rows = 1..Len(rows) /\ order \in Seq(Ids)
      /\ DOMAIN order = 1..Len(order) /\ instance' \subseteq Users
  BY <1>1, <1>2, LenProperties, ChannelBounds DEF TableTyped, OrderTyped
<1>7. \/ /\ i # None /\ rows[i] # None /\ rows' = [rows EXCEPT ![i] = row]
         /\ \E n \in DOMAIN order : order[n] = i /\ Reconnected(n)
         /\ Connected(owner[t], row.team)
      \/ /\ i = None /\ Len(rows) < MaxRows
         /\ rows' = Append(rows, row) /\ Inserted(Len(rows'))
         /\ Connected(owner[t], row.team)
      \/ UNCHANGED <<rows, order, eligible>>
  BY DEF WriteRow
<1> HIDE DEF row
<1>8. RoutesTyped'
  <2>1. eligible' \in [Events -> SUBSET Users]
    BY <1>2, <1>7 DEF RoutesTyped, Connected
  <2> QED BY <1>1, <1>2, <2>1 DEF RoutesTyped
<1> HIDE DEF i
<1>9. TableTyped'
  <2>1. CASE /\ rows' = [rows EXCEPT ![i] = row]
             /\ \E n \in DOMAIN order : order[n] = i /\ Reconnected(n)
    <3>1. PICK n \in DOMAIN order : order[n] = i /\ Reconnected(n)
      BY <2>1
    <3>2. i \in 1..Len(rows)
      BY <1>2, <1>6, <3>1 DEF TableTyped, OrderTyped, ToSet
    <3>3. rows' \in Seq(Rows \cup {None}) /\ Len(rows') = Len(rows)
      BY <1>4, <1>6, <2>1, <3>2, ExceptSeq
    <3>4. DOMAIN rows' = DOMAIN rows
      BY <2>1
    <3>5. OrderTyped'
      BY <1>2, <3>1, <3>4, ReconnectedTyped DEF TableTyped
    <3> QED BY <1>6, <3>3, <3>5 DEF TableTyped
  <2>2. CASE Len(rows) < MaxRows /\ rows' = Append(rows, row) /\ Inserted(Len(rows'))
    <3>1. /\ rows' \in Seq(Rows \cup {None}) /\ Len(rows') = Len(rows) + 1
      BY <1>4, <1>6, <2>2, AppendProperties
    <3>2. DOMAIN rows' = 1..(Len(rows) + 1)
      BY <3>1, LenProperties
    <3>3. /\ Len(rows') \in Ids /\ Len(rows') \notin DOMAIN rows
          /\ DOMAIN rows' = DOMAIN rows \cup {Len(rows')}
      BY <1>6, <2>2, <3>1, <3>2 DEF Ids
    <3>4. OrderTyped'
      BY <1>2, <2>2, <3>3, InsertedTyped DEF TableTyped
    <3> QED BY <1>6, <2>2, <3>1, <3>4 DEF TableTyped
  <2>3. CASE UNCHANGED <<rows, order>>
    BY <1>1, <1>2, <2>3, TableUnchanged
  <2> QED BY <1>7, <2>1, <2>2, <2>3
<1> QED BY <1>3, <1>5, <1>8, <1>9 DEF Typed

\* Rows are turned off, or taken away; their places stay.
LEMMA RowsTurned ==
    ASSUME TableTyped, instance' \subseteq Users, UNCHANGED order,
           \E R : /\ rows' = [j \in DOMAIN rows |-> R[j]]
                  /\ \A j \in DOMAIN rows : R[j] \in Rows \cup {None}
    PROVE  TableTyped'
<1>1. PICK R : /\ rows' = [j \in DOMAIN rows |-> R[j]]
               /\ \A j \in DOMAIN rows : R[j] \in Rows \cup {None}
  OBVIOUS
<1>2. DOMAIN rows = 1..Len(rows) /\ Len(rows) \in Nat /\ Len(rows) <= MaxRows
  BY LenProperties DEF TableTyped
<1>3. rows' \in [1..Len(rows) -> Rows \cup {None}]
  BY <1>1, <1>2
<1>4. rows' \in Seq(Rows \cup {None}) /\ DOMAIN rows' = DOMAIN rows
  BY <1>2, <1>3, SeqDef
<1>5. Len(rows') = Len(rows)
  BY <1>2, <1>4, LenProperties
<1>6. OrderTyped'
  BY <1>4 DEF TableTyped, OrderTyped, ToSet, IsInjective
<1> QED BY <1>2, <1>4, <1>5, <1>6 DEF TableTyped

LEMMA DeleteTyped == ASSUME Known, Typed, NEW t \in Tabs, Delete(t) PROVE Typed'
<1>1. /\ disc' = [disc EXCEPT ![t].pc = "list"]
      /\ UNCHANGED <<instance, order, page, conn, target, eligible, doubled, presses, faults,
                     repeats, crashes>>
  BY DEF Delete, Unchanged, Unpressed, socket
<1>2. PagesTyped /\ TableTyped /\ RoutesTyped /\ Counted
  BY DEF Typed
<1>3. PagesTyped' /\ RoutesTyped' /\ Counted'
  BY <1>1, <1>2, DiscTyped DEF PagesTyped, RoutesTyped, Counted
<1>4. TableTyped'
  <2>1. CASE UNCHANGED rows
    BY <1>1, <1>2, <2>1, TableUnchanged
  <2>2. CASE /\ disc[t].id \in RowsOf(owner[t])
             /\ rows' = [rows EXCEPT ![disc[t].id].active = FALSE]
    <3>1. PICK d : d \in DOMAIN rows /\ rows[d] # None /\ rows' = [rows EXCEPT ![d].active = FALSE]
      BY <2>2 DEF RowsOf
    <3> DEFINE R == [j \in DOMAIN rows |->
                        IF j = d THEN [rows[d] EXCEPT !.active = FALSE] ELSE rows[j]]
    <3>2. \A j \in DOMAIN rows : rows[j] \in Rows \cup {None}
      BY <1>2, ElementOfSeq, LenProperties DEF TableTyped
    <3>3. [rows[d] EXCEPT !.active = FALSE] \in Rows
      <4>1. rows[d] \in Rows
        BY <3>1, <3>2
      <4> QED BY <4>1 DEF Rows
    <3>4. \A j \in DOMAIN rows : R[j] \in Rows \cup {None}
      BY <3>2, <3>3
    <3>5. rows = [j \in DOMAIN rows |-> rows[j]]
      BY <1>2, LenProperties, SeqDef DEF TableTyped
    <3>6. rows' = [j \in DOMAIN rows |-> R[j]]
      BY <3>1, <3>5
    <3> HIDE DEF R
    <3> QED BY <1>1, <1>2, <3>4, <3>6, RowsTurned DEF TableTyped
  <2> QED BY <2>1, <2>2 DEF Delete
<1> QED BY <1>3, <1>4 DEF Typed

LEMMA DeleteInstanceTyped ==
    ASSUME Known, Typed, NEW u \in Users, DeleteInstance(u) PROVE Typed'
<1>1. /\ instance' = instance \ {u}
      /\ rows' = [j \in DOMAIN rows |-> IF j \in RowsOf(u) THEN None ELSE rows[j]]
      /\ UNCHANGED <<order, page, conn, disc, target, eligible, doubled, presses, faults, repeats,
                     crashes>>
  BY DEF DeleteInstance, tabs, socket
<1>2. PagesTyped /\ TableTyped /\ RoutesTyped /\ Counted
  BY DEF Typed
<1>3. PagesTyped' /\ RoutesTyped' /\ Counted'
  BY <1>1, <1>2 DEF PagesTyped, RoutesTyped, Counted
<1>4. TableTyped'
  <2>1. \A j \in DOMAIN rows : rows[j] \in Rows \cup {None}
    BY <1>2, ElementOfSeq, LenProperties DEF TableTyped
  <2>2. \A j \in DOMAIN rows : rows'[j] \in Rows \cup {None}
    BY <1>1, <2>1
  <2>3. rows' = [j \in DOMAIN rows |-> rows'[j]]
    BY <1>1
  <2>4. instance' \subseteq Users
    BY <1>1, <1>2 DEF TableTyped
  <2> QED BY <1>1, <1>2, <2>2, <2>3, <2>4, RowsTurned
<1> QED BY <1>3, <1>4 DEF Typed

\* The socket's steps.
LEMMA SocketTypedStep ==
    ASSUME Known, Typed, NEW e \in Events, NEW k \in Kinds,
           \/ SlackSends(e) \/ Expire(e) \/ SocketStep(e, k) \/ LookUpFails(e, k) \/ Redeliver(e, k)
    PROVE  Typed'
<1>1. PagesTyped /\ TableTyped /\ RoutesTyped /\ Counted
  BY DEF Typed
<1>2. UNCHANGED <<table, tabs, doubled, crashes>>
  BY DEF SlackSends, Expire, SocketStep, Receive, LookUp, Dispatch, LookUpFails, Redeliver, Aside
<1>3. PagesTyped' /\ TableTyped'
  BY <1>1, <1>2, TableUnchanged DEF PagesTyped, table, tabs
<1>4. Counted'
  <2>1. Fault \/ UNCHANGED faults
    BY DEF SlackSends, Expire, SocketStep, Receive, LookUp, Dispatch, LookUpFails, Redeliver
  <2>2. (repeats < MaxRepeats /\ repeats' = repeats + 1) \/ UNCHANGED repeats
    BY DEF SlackSends, Expire, SocketStep, Receive, LookUp, Dispatch, LookUpFails, Redeliver
  <2>3. UNCHANGED <<presses, crashes>>
    BY <1>2 DEF tabs
  <2> QED BY <1>1, <2>1, <2>2, <2>3, ChannelBounds DEF Counted, Fault
<1>5. \A team : ActiveIn(team) \subseteq Users
  BY DEF ActiveIn
<1>6. eligible' \in [Events -> SUBSET Users]
  <2>1. UNCHANGED eligible \/ eligible' = [eligible EXCEPT ![e] = ActiveIn(HomeTeam)]
    BY DEF SlackSends, Expire, SocketStep, Receive, LookUp, Dispatch, LookUpFails, Redeliver
  <2> QED BY <1>1, <1>5, <2>1 DEF RoutesTyped
<1>7. target' \in [Events \X Kinds -> Users \cup {None}]
  <2>1. \/ UNCHANGED target
        \/ \E v \in {Route(HomeTeam), None} : target' = [target EXCEPT ![<<e, k>>] = v]
    BY DEF SlackSends, Expire, SocketStep, Receive, LookUp, Dispatch, LookUpFails, Redeliver
  <2>2. Route(HomeTeam) \in Users \cup {None}
    BY <1>1, <1>5, RouteIsActive
  <2> QED BY <1>1, <2>1, <2>2 DEF RoutesTyped
<1> QED BY <1>1, <1>2, <1>3, <1>4, <1>6, <1>7 DEF RoutesTyped, Typed

LEMMA CrashTyped == ASSUME Known, Typed, OrchestratorCrashes PROVE Typed'
<1>1. PagesTyped /\ TableTyped /\ RoutesTyped /\ Counted
  BY DEF Typed
<1>2. /\ crashes < MaxCrashes /\ crashes' = crashes + 1
      /\ UNCHANGED <<instance, rows, order, page, presses, eligible, repeats, doubled, faults>>
      /\ target' = [x \in DOMAIN target |-> None]
      /\ conn' = [t \in Tabs |-> IF conn[t].pc = "list" THEN conn[t] ELSE NotConnecting]
      /\ disc' = [t \in Tabs |-> IF disc[t].pc = "delete" THEN [disc[t] EXCEPT !.pc = "list"]
                                 ELSE disc[t]]
  BY DEF OrchestratorCrashes, table
<1>3. TableTyped'
  BY <1>1, <1>2, TableUnchanged
<1>4. Counted'
  BY <1>1, <1>2, ChannelBounds DEF Counted
<1>5. RoutesTyped'
  BY <1>1, <1>2 DEF RoutesTyped
<1>6. conn' \in [Tabs -> Calls]
  <2>1. NotConnecting \in Calls
    BY DEF NotConnecting, Calls
  <2> QED BY <1>1, <1>2, <2>1 DEF PagesTyped
<1>7. disc' \in [Tabs -> Disconnects]
  BY <1>1, <1>2 DEF PagesTyped, Disconnects
<1> QED BY <1>1, <1>2, <1>3, <1>4, <1>5, <1>6, <1>7 DEF PagesTyped, Typed

LEMMA TypedStep == Known /\ Typed /\ [Next]_vars => Typed'
<1> SUFFICES ASSUME Known, Typed, [Next]_vars PROVE Typed'
  OBVIOUS
<1>1. ASSUME NEW t \in Tabs,
             \/ OpenModal(t) \/ CloseModal(t) \/ HandleConnect(t) \/ HandleDisconnect(t)
             \/ ConnectStep(t) \/ FindFails(t) \/ ConnectBreaks(t)
             \/ DisconnectStep(t) \/ DisconnectBreaks(t)
      PROVE  Typed'
  BY <1>1, TabTyped, WriteTyped, DeleteTyped, Zenon DEF ConnectStep, DisconnectStep
<1>2. ASSUME NEW u \in Users, DeleteInstance(u) PROVE Typed'
  BY <1>2, DeleteInstanceTyped
<1>3. ASSUME NEW e \in Events,
             \/ SlackSends(e) \/ Expire(e)
             \/ \E k \in Kinds : SocketStep(e, k) \/ LookUpFails(e, k) \/ Redeliver(e, k)
      PROVE  Typed'
  <2>1. "message" \in Kinds
    BY DEF Kinds
  <2> QED BY <1>3, <2>1, SocketTypedStep, Zenon
<1>4. CASE OrchestratorCrashes
  BY <1>4, CrashTyped
<1>5. CASE UNCHANGED vars
  <2>1. UNCHANGED <<page, conn, disc, instance, rows, order, target, eligible, doubled, presses,
                    faults, repeats, crashes>>
    BY <1>5 DEF vars, table, tabs, socket
  <2>2. PagesTyped' /\ RoutesTyped' /\ Counted'
    BY <2>1 DEF Typed, PagesTyped, RoutesTyped, Counted
  <2> QED BY <2>1, <2>2, TableUnchanged DEF Typed
<1> QED BY <1>1, <1>2, <1>3, <1>4, <1>5, Zenon DEF Next

LEMMA KnownStep == Known /\ [Next]_vars => Known'
BY SocketStepKeeps, RowsStep DEF Known

\* Every variable has its type: in particular the order of connected_at lists
\* each row ever inserted once, whatever is updated, inserted or deleted in
\* whichever tab.
THEOREM ChannelsTyped == Spec => []TypeOK
<1>1. Init => Known /\ Typed
  BY SocketInit, RowsInit, TypedInit DEF Known
<1>2. Known /\ Typed /\ [Next]_vars => (Known /\ Typed)'
  BY KnownStep, TypedStep
<1>3. Known /\ Typed => TypeOK
  BY TypedIsTypeOK
<1> QED BY <1>1, <1>2, <1>3, PTL DEF Spec

-----------------------------------------------------------------------------
(***************************************************************************)
(* Who gets a message.  Once it is sent, whoever has the team connected is *)
(* among those it may go to: a user comes in only by WriteRow, which       *)
(* counts him for every message, and a lookup takes one of those who are   *)
(* in at that moment.                                                      *)
(***************************************************************************)
Sent(e) == \E k \in Kinds : stage[<<e, k>>] # "unsent"
InCounted(e) == Sent(e) => ActiveIn(HomeTeam) \subseteq eligible[e]
ToCounted(e) ==
    \A k \in Kinds : stage[<<e, k>>] = "dispatch" => target[<<e, k>>] \in eligible[e]

RouteInv == \A e \in Events : InCounted(e) /\ ToCounted(e)

\* Whoever leaves the table, and whoever comes in counted, keeps it.
LEMMA CountedIn ==
    ASSUME RouteInv, UNCHANGED <<stage, target>>,
           \A e \in Events : eligible[e] \subseteq eligible'[e],
           \A e \in Events : ActiveIn(HomeTeam)' \subseteq ActiveIn(HomeTeam) \cup eligible'[e]
    PROVE  RouteInv'
BY DEF RouteInv, InCounted, ToCounted, Sent

LEMMA ActiveUnchanged == ASSUME UNCHANGED rows PROVE \A team : ActiveIn(team)' = ActiveIn(team)
BY DEF ActiveIn, RowsOf

LEMMA TabRoutes ==
    ASSUME RouteInv, NEW t \in Tabs,
           \/ OpenModal(t) \/ CloseModal(t) \/ HandleConnect(t) \/ HandleDisconnect(t)
           \/ ReadInstance(t) \/ RejectWithoutInstance(t) \/ AuthTest(t) \/ RejectToken(t)
           \/ FindExisting(t) \/ FindFails(t) \/ ConnectListed(t) \/ ConnectBreaks(t)
           \/ DisconnectListed(t) \/ DisconnectBreaks(t)
    PROVE  RouteInv'
<1>1. UNCHANGED <<rows, stage, target, eligible>>
  BY Zenon DEF OpenModal, CloseModal, Modal, HandleConnect, HandleDisconnect, ReadInstance,
     RejectWithoutInstance, ConnectFails, AuthTest, RejectToken, FindExisting, FindFails,
     ConnectListed, ConnectBreaks, DisconnectListed, DisconnectBreaks, Unchanged, Unpressed, socket
<1> QED BY <1>1, ActiveUnchanged, CountedIn

LEMMA WriteRoutes ==
    ASSUME Typed, RouteInv, NEW t \in Tabs, WriteRow(t) PROVE RouteInv'
<1> DEFINE i == conn[t].found
           row == [user |-> owner[t], team |-> conn[t].team, active |-> TRUE]
<1>1. UNCHANGED <<stage, target>>
  BY DEF WriteRow, socket
<1>2. \/ rows' = [rows EXCEPT ![i] = row] /\ Connected(owner[t], row.team)
      \/ rows' = Append(rows, row) /\ Connected(owner[t], row.team)
      \/ UNCHANGED <<rows, eligible>>
  BY DEF WriteRow
<1>3. row.user = owner[t]
  OBVIOUS
<1>4. rows \in Seq(Rows \cup {None}) /\ eligible \in [Events -> SUBSET Users]
  BY DEF Typed, TableTyped, RoutesTyped
<1> HIDE DEF row, i
<1>5. CASE UNCHANGED <<rows, eligible>>
  BY <1>1, <1>5, ActiveUnchanged, CountedIn
<1>6. CASE /\ rows' = [rows EXCEPT ![i] = row] \/ rows' = Append(rows, row)
           /\ Connected(owner[t], row.team)
  <2>1. \A j \in DOMAIN rows' : rows'[j] = row \/ (j \in DOMAIN rows /\ rows'[j] = rows[j])
    <3>1. CASE rows' = [rows EXCEPT ![i] = row]
      BY <3>1
    <3>2. CASE rows' = Append(rows, row)
      <4>1. /\ DOMAIN rows' = 1..(Len(rows) + 1) /\ DOMAIN rows = 1..Len(rows)
            /\ Len(rows) \in Nat /\ rows'[Len(rows) + 1] = row
            /\ \A j \in 1..Len(rows) : rows'[j] = rows[j]
        <5>1. row \in Rows \cup {None} \cup {row} /\ rows \in Seq(Rows \cup {None} \cup {row})
          BY <1>4
        <5> QED BY <3>2, <5>1, AppendProperties, LenProperties
      <4> QED BY <4>1
    <3> QED BY <1>6, <3>1, <3>2
  <2>2. ASSUME NEW u \in ActiveIn(HomeTeam)'
        PROVE  u \in ActiveIn(HomeTeam) \/ (u = owner[t] /\ row.team = HomeTeam)
    <3>1. PICK j \in DOMAIN rows' : /\ u \in Users /\ rows'[j] # None /\ rows'[j].user = u
                                    /\ rows'[j].team = HomeTeam /\ rows'[j].active
      BY <2>2, Zenon DEF ActiveIn, RowsOf
    <3> QED BY <1>3, <2>1, <3>1 DEF ActiveIn, RowsOf
  <2>3. \A e \in Events :
           eligible'[e] = IF row.team = HomeTeam THEN eligible[e] \cup {owner[t]} ELSE eligible[e]
    BY <1>6 DEF Connected
  <2> QED BY <1>1, <2>2, <2>3, CountedIn
<1> QED BY <1>2, <1>5, <1>6

LEMMA LeaveRoutes ==
    ASSUME Typed, RouteInv, (\E t \in Tabs : Delete(t)) \/ (\E u \in Users : DeleteInstance(u))
    PROVE  RouteInv'
<1>1. UNCHANGED <<stage, target, eligible>>
  BY DEF Delete, DeleteInstance, Unchanged, Unpressed, socket
<1>2. \A j \in DOMAIN rows' :
         rows'[j] # None =>
            /\ j \in DOMAIN rows
            /\ \/ rows'[j] = rows[j]
               \/ rows[j] # None /\ rows'[j] = [rows[j] EXCEPT !.active = FALSE]
  BY DEF Delete, DeleteInstance, RowsOf
<1>3. ASSUME NEW u \in ActiveIn(HomeTeam)' PROVE u \in ActiveIn(HomeTeam)
  <2>1. PICK j \in DOMAIN rows' : /\ u \in Users /\ rows'[j] # None /\ rows'[j].user = u
                                  /\ rows'[j].team = HomeTeam /\ rows'[j].active
    BY <1>3, Zenon DEF ActiveIn, RowsOf
  <2>2. \A d \in DOMAIN rows : rows[d] \in Rows \cup {None}
    BY ElementOfSeq, LenProperties DEF Typed, TableTyped
  <2>3. \A d \in DOMAIN rows : rows[d] # None => ~[rows[d] EXCEPT !.active = FALSE].active
    BY <2>2 DEF Rows
  <2>4. j \in DOMAIN rows /\ rows'[j] = rows[j]
    BY <1>2, <2>1, <2>3
  <2> QED BY <2>1, <2>4 DEF ActiveIn, RowsOf
<1> QED BY <1>1, <1>3, CountedIn

LEMMA SocketRoutes ==
    ASSUME Known, Typed, RouteInv, NEW e \in Events, NEW k \in Kinds,
           \/ SlackSends(e) \/ Expire(e) \/ SocketStep(e, k) \/ LookUpFails(e, k) \/ Redeliver(e, k)
    PROVE  RouteInv'
<1>1. /\ UNCHANGED rows
      /\ stage \in [Events \X Kinds -> Stages] /\ target \in [Events \X Kinds -> Users \cup {None}]
      /\ eligible \in [Events -> SUBSET Users] /\ TableTyped
  BY DEF Known, SocketInv, SocketTyped, Typed, RoutesTyped, SlackSends, Expire, SocketStep, Receive,
     LookUp, Dispatch, LookUpFails, Redeliver, Aside, table
<1>2. ActiveIn(HomeTeam)' = ActiveIn(HomeTeam)
  BY <1>1, ActiveUnchanged
<1>3. CASE SlackSends(e)
  <2>1. PICK ks \in {{"message"}, Kinds} :
           stage' = [x \in DOMAIN stage |-> IF x \in {e} \X ks THEN "waiting" ELSE stage[x]]
    BY <1>3 DEF SlackSends
  <2>2. /\ \A j \in Kinds : stage[<<e, j>>] = "unsent"
        /\ eligible' = [eligible EXCEPT ![e] = ActiveIn(HomeTeam)] /\ UNCHANGED target
    BY <1>3 DEF SlackSends
  <2>3. ASSUME NEW j \in Kinds PROVE stage'[<<e, j>>] # "dispatch"
    BY <1>1, <2>1, <2>2
  <2>4. ASSUME NEW x \in Events, x # e, NEW j \in Kinds
        PROVE  stage'[<<x, j>>] = stage[<<x, j>>] /\ eligible'[x] = eligible[x]
    BY <1>1, <2>1, <2>2, <2>4
  <2>5. eligible'[e] = ActiveIn(HomeTeam)
    BY <1>1, <2>2
  <2>6. InCounted(e)' /\ ToCounted(e)'
    BY <1>2, <2>3, <2>5 DEF InCounted, ToCounted
  <2>7. ASSUME NEW x \in Events, x # e PROVE InCounted(x)' /\ ToCounted(x)'
    BY <1>2, <2>2, <2>4, <2>7 DEF RouteInv, InCounted, ToCounted, Sent
  <2> QED BY <2>6, <2>7 DEF RouteInv
<1>4. CASE Expire(e)
  BY <1>2, <1>4, CountedIn DEF Expire
<1>5. CASE SocketStep(e, k) \/ LookUpFails(e, k) \/ Redeliver(e, k)
  <2>1. UNCHANGED eligible
    BY <1>5 DEF SocketStep, Receive, LookUp, Dispatch, LookUpFails, Redeliver
  <2>2. /\ stage[<<e, k>>] # "unsent"
        /\ \E st \in Stages : stage' = [stage EXCEPT ![<<e, k>>] = st]
        /\ \/ UNCHANGED target
           \/ \E v : target' = [target EXCEPT ![<<e, k>>] = v]
    BY <1>5 DEF SocketStep, Receive, LookUp, Dispatch, LookUpFails, Redeliver, Stages
  <2>3. \A x \in Events, j \in Kinds :
           <<x, j>> # <<e, k>> => /\ stage'[<<x, j>>] = stage[<<x, j>>]
                                  /\ target'[<<x, j>>] = target[<<x, j>>]
    BY <1>1, <2>2
  <2>4. Sent(e) /\ \A x \in Events : Sent(x)' => Sent(x)
    BY <2>2, <2>3 DEF Sent
  <2>5. stage'[<<e, k>>] = "dispatch" => target'[<<e, k>>] \in eligible[e]
    <3>1. CASE LookUp(e, k)
      <4>1. /\ target' = [target EXCEPT ![<<e, k>>] = Route(HomeTeam)]
            /\ stage' = [stage EXCEPT ![<<e, k>>] =
                            IF Route(HomeTeam) = None THEN "done" ELSE "dispatch"]
        BY <3>1 DEF LookUp
      <4>2. Route(HomeTeam) \in ActiveIn(HomeTeam) \cup {None}
        BY <1>1, RouteIsActive
      <4>3. ActiveIn(HomeTeam) \subseteq eligible[e]
        BY <2>4 DEF RouteInv, InCounted
      <4> QED BY <1>1, <4>1, <4>2, <4>3
    <3>2. CASE Receive(e, k) \/ Dispatch(e, k) \/ LookUpFails(e, k) \/ Redeliver(e, k)
      BY <1>1, <3>2 DEF Receive, Dispatch, LookUpFails, Redeliver
    <3> QED BY <1>5, <3>1, <3>2 DEF SocketStep
  <2>6. ASSUME NEW x \in Events PROVE InCounted(x)' /\ ToCounted(x)'
    BY <1>2, <2>1, <2>3, <2>4, <2>5 DEF RouteInv, InCounted, ToCounted
  <2> QED BY <2>6 DEF RouteInv
<1> QED BY <1>3, <1>4, <1>5

LEMMA CrashRoutes == ASSUME Known, Typed, RouteInv, OrchestratorCrashes PROVE RouteInv'
<1>1. /\ UNCHANGED <<rows, eligible>>
      /\ stage' = [x \in DOMAIN stage |-> IF stage[x] \in {"lookup", "dispatch"} THEN "done"
                                          ELSE stage[x]]
      /\ stage \in [Events \X Kinds -> Stages]
  BY DEF OrchestratorCrashes, table, Known, SocketInv, SocketTyped
<1>2. \A e \in Events, k \in Kinds :
         /\ stage'[<<e, k>>] # "dispatch"
         /\ stage'[<<e, k>>] # "unsent" => stage[<<e, k>>] # "unsent"
  BY <1>1
<1> QED BY <1>1, <1>2, ActiveUnchanged DEF RouteInv, InCounted, ToCounted, Sent

LEMMA RouteStep == Known /\ Typed /\ RouteInv /\ [Next]_vars => RouteInv'
<1> SUFFICES ASSUME Known, Typed, RouteInv, [Next]_vars PROVE RouteInv'
  OBVIOUS
<1>1. ASSUME NEW t \in Tabs,
             \/ OpenModal(t) \/ CloseModal(t) \/ HandleConnect(t) \/ HandleDisconnect(t)
             \/ ConnectStep(t) \/ FindFails(t) \/ ConnectBreaks(t)
             \/ DisconnectStep(t) \/ DisconnectBreaks(t)
      PROVE  RouteInv'
  BY <1>1, TabRoutes, WriteRoutes, LeaveRoutes, Zenon DEF ConnectStep, DisconnectStep
<1>2. ASSUME NEW u \in Users, DeleteInstance(u) PROVE RouteInv'
  BY <1>2, LeaveRoutes
<1>3. ASSUME NEW e \in Events,
             \/ SlackSends(e) \/ Expire(e)
             \/ \E k \in Kinds : SocketStep(e, k) \/ LookUpFails(e, k) \/ Redeliver(e, k)
      PROVE  RouteInv'
  <2>1. "message" \in Kinds
    BY DEF Kinds
  <2> QED BY <1>3, <2>1, SocketRoutes, Zenon
<1>4. CASE OrchestratorCrashes
  BY <1>4, CrashRoutes
<1>5. CASE UNCHANGED vars
  BY <1>5, ActiveUnchanged, CountedIn DEF vars, table, socket
<1> QED BY <1>1, <1>2, <1>3, <1>4, <1>5, Zenon DEF Next

\* A message goes to a user who had its team connected at some time since it
\* was written, and to nobody who had disconnected before.
THEOREM RoutedToConnected == Spec => []SentToConnected
<1>1. Init => Known /\ Typed /\ RouteInv
  <2>1. Init => RouteInv
    <3> SUFFICES ASSUME Init PROVE RouteInv
      OBVIOUS
    <3>1. \A e \in Events, k \in Kinds : stage[<<e, k>>] = "unsent"
      BY DEF Init
    <3> QED BY <3>1 DEF RouteInv, InCounted, ToCounted, Sent
  <2> QED BY <2>1, SocketInit, RowsInit, TypedInit DEF Known
<1>2. Known /\ Typed /\ RouteInv /\ [Next]_vars => (Known /\ Typed /\ RouteInv)'
  BY KnownStep, TypedStep, RouteStep
<1>3. RouteInv => SentToConnected
  BY DEF RouteInv, ToCounted, SentToConnected
<1> QED BY <1>1, <1>2, <1>3, PTL DEF Spec
=============================================================================
