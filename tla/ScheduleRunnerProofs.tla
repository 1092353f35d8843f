------------------------- MODULE ScheduleRunnerProofs -------------------------
(***************************************************************************)
(* The accounts of the scheduler, for any number of schedules and of       *)
(* overlapping ticks, failing dispatches and crashes (ScheduleRunner).     *)
(*                                                                         *)
(* What a tick writes at its end it selected long before.  LogInv bounds   *)
(* every value a tick may still write by what has been logged meanwhile;   *)
(* Exclusive says, for as long as no two ticks overlapped, which of the    *)
(* schedules the one tick has already dispatched.                          *)
(***************************************************************************)
EXTENDS ScheduleRunner, TLAPS

\* What a tick may write is never more than what was logged.
SnapLogged == \A t \in Ticks, s \in rows : snap[t][s] <= logs[s]

\* By the time it writes, its own run is logged too.
UpdateLogged ==
    \A t \in Ticks :
        pc[t] = "update" /\ cur[t] \in rows => snap[t][cur[t]] < logs[cur[t]]

LogInv == NeverOvercounts /\ NoneLost /\ SnapLogged /\ UpdateLogged

OneTick == \A t, u \in Ticks : pc[t] # "free" /\ pc[u] # "free" => t = u

\* What the tick has yet to run was not dispatched since it fell due.
TodoUnsent ==
    \A t \in Ticks : pc[t] # "free" =>
        \A s \in todo[t] : s \in rows => s \in due /\ sent[s] = 0

\* What it is running is still due, so it cannot fall due again meanwhile.
CurUnsent ==
    \A t \in Ticks : pc[t] \in {"dispatch", "log", "update"} /\ cur[t] \in rows =>
        /\ cur[t] \in due /\ cur[t] \notin todo[t]
        /\ pc[t] = "dispatch" => sent[cur[t]] = 0

\* A schedule that could be selected was not dispatched, but for the one whose
\* tick has not got to its update.
SelectedUnsent ==
    \A s \in Selected :
        sent[s] = 0 \/ \E t \in Ticks : pc[t] \in {"log", "update"} /\ cur[t] = s

SentOnce == \A s \in rows : sent[s] <= 1

Exclusive == OneTick /\ TodoUnsent /\ CurUnsent /\ SelectedUnsent /\ SentOnce

RunnerInv == TypeOK /\ LogInv /\ (~overlapped => Exclusive)

-----------------------------------------------------------------------------
LEMMA RunnerInit == Init => RunnerInv
<1> SUFFICES ASSUME Init PROVE RunnerInv
  OBVIOUS
<1> USE DEF Init, NothingRun
<1>1. TypeOK
  <2>1. NothingRun \in [Schedules -> Nat]
    BY DEF NothingRun
  <2>2. 0 \in 0..MaxDue /\ 0 \in 0..MaxFaults /\ 0 \in 0..MaxCrashes
    BY Bounds
  <2>3. overlapped \in BOOLEAN
    BY Zenon
  <2> HIDE DEF NothingRun
  <2>4. /\ todo \in [Ticks -> SUBSET Schedules]
        /\ snap \in [Ticks -> [Schedules -> Nat]]
        /\ cur \in [Ticks -> Schedules \cup {NoSchedule}]
        /\ pc \in [Ticks -> {"free", "next", "dispatch", "log", "update"}]
        /\ \A t \in Ticks : pc[t] \in {"dispatch", "log", "update"} => cur[t] \in Schedules
    BY <2>1
  <2> QED BY <2>1, <2>2, <2>3, <2>4 DEF TypeOK
<1>2. LogInv
  BY DEF LogInv, NeverOvercounts, NoneLost, SnapLogged, UpdateLogged
<1>3. Exclusive
  BY DEF Exclusive, OneTick, TodoUnsent, CurUnsent, SelectedUnsent, Selected, SentOnce
<1> QED BY <1>1, <1>2, <1>3 DEF RunnerInv

-----------------------------------------------------------------------------
LEMMA RunnerType == TypeOK /\ [Next]_vars => TypeOK'
<1> SUFFICES ASSUME TypeOK, [Next]_vars PROVE TypeOK'
  OBVIOUS
<1> USE DEF TypeOK, table, tick, history, Goto
<1>1. ASSUME NEW t \in Ticks, Tick(t) PROVE TypeOK'
  BY <1>1 DEF Tick, Selected
<1>2. ASSUME NEW t \in Ticks, NextSchedule(t) PROVE TypeOK'
  <2>1. CASE todo[t] = {} /\ EndTick(t) /\ UNCHANGED todo
    BY <1>2, <2>1 DEF NextSchedule, EndTick, NothingRun
  <2>2. CASE \E s \in todo[t] :
               /\ todo' = [todo EXCEPT ![t] = @ \ {s}]
               /\ cur' = [cur EXCEPT ![t] = s]
               /\ Goto(t, IF s \in Blank THEN "next" ELSE "dispatch")
               /\ UNCHANGED snap
    BY <1>2, <2>2 DEF NextSchedule
  <2> QED BY <1>2, <2>1, <2>2 DEF NextSchedule
<1>3. ASSUME NEW t \in Ticks, Dispatch(t) PROVE TypeOK'
  <2>1. cur[t] \in Schedules
    BY <1>3 DEF Dispatch
  <2> QED BY <1>3, <2>1, Bounds, SMTT(20) DEF Dispatch
<1>4. ASSUME NEW t \in Ticks, LogRun(t) PROVE TypeOK'
  BY <1>4 DEF LogRun
<1>5. ASSUME NEW t \in Ticks, UpdateSchedule(t) PROVE TypeOK'
  <2>1. cur[t] \in Schedules /\ snap[t][cur[t]] + 1 \in Nat
    BY <1>5 DEF UpdateSchedule
  <2> QED BY <1>5, <2>1 DEF UpdateSchedule
<1>6. ASSUME FallsDue PROVE TypeOK'
  BY <1>6, Bounds DEF FallsDue
<1>7. ASSUME DeleteInstance PROVE TypeOK'
  BY <1>7 DEF DeleteInstance, NothingRun
<1>8. ASSUME OrchestratorCrashes PROVE TypeOK'
  BY <1>8, Bounds DEF OrchestratorCrashes, NothingRun
<1>9. ASSUME UNCHANGED vars PROVE TypeOK'
  BY <1>9 DEF vars
<1> QED BY <1>1, <1>2, <1>3, <1>4, <1>5, <1>6, <1>7, <1>8, <1>9 DEF Next, Step

-----------------------------------------------------------------------------
LEMMA RunnerLog == TypeOK /\ LogInv /\ [Next]_vars => LogInv'
<1> SUFFICES ASSUME TypeOK, LogInv, [Next]_vars PROVE LogInv'
  OBVIOUS
<1> USE DEF LogInv, NeverOvercounts, NoneLost, SnapLogged, UpdateLogged,
            table, tick, history, Goto
<1>0. /\ rows \subseteq Schedules
      /\ count \in [Schedules -> Nat] /\ logs \in [Schedules -> Nat]
      /\ snap \in [Ticks -> [Schedules -> Nat]]
      /\ pc \in [Ticks -> {"free", "next", "dispatch", "log", "update"}]
      /\ cur \in [Ticks -> Schedules \cup {NoSchedule}]
      /\ \A t \in Ticks : pc[t] = "update" => cur[t] \in Schedules
  BY DEF TypeOK
<1>1. ASSUME NEW t \in Ticks, Tick(t) PROVE LogInv'
  BY <1>0, <1>1 DEF Tick
<1>2. ASSUME NEW t \in Ticks, NextSchedule(t) PROVE LogInv'
  <2>1. /\ UNCHANGED <<rows, active, count, logs>>
        /\ \A u \in Ticks \ {t} : pc'[u] = pc[u] /\ cur'[u] = cur[u]
        /\ pc'[t] # "update"
    BY <1>0, <1>2 DEF NextSchedule, EndTick
  <2>2. \A u \in Ticks : snap'[u] = snap[u] \/ (u = t /\ snap'[u] = NothingRun)
    BY <1>0, <1>2 DEF NextSchedule, EndTick
  <2>3. \A u \in Ticks \ {t} : pc[u] = "update" => snap'[u] = snap[u]
    BY <2>2
  <2>4. \A u \in Ticks, s \in rows : snap'[u][s] <= logs[s]
    BY <1>0, <2>2 DEF NothingRun
  <2> QED BY <2>1, <2>3, <2>4
<1>3. ASSUME NEW t \in Ticks, Dispatch(t) PROVE LogInv'
  BY <1>0, <1>3 DEF Dispatch
<1>4. ASSUME NEW t \in Ticks, LogRun(t) PROVE LogInv'
  <2>1. \A s \in rows : logs'[s] = IF s = cur[t] THEN logs[s] + 1 ELSE logs[s]
    BY <1>0, <1>4 DEF LogRun
  <2>2. /\ UNCHANGED <<rows, active, count, snap, cur>>
        /\ \A u \in Ticks \ {t} : pc'[u] = pc[u]
    BY <1>0, <1>4 DEF LogRun
  <2>3. \A s \in rows : logs[s] \in Nat /\ logs[s] <= logs'[s]
    BY <1>0, <2>1
  <2>4. \A s \in rows : count[s] \in Nat /\ \A u \in Ticks : snap[u][s] \in Nat
    BY <1>0
  <2>5. NeverOvercounts' /\ NoneLost' /\ SnapLogged'
    BY <2>1, <2>2, <2>3, <2>4
  <2>6. UpdateLogged'
    <3>1. cur[t] \in rows => snap[t][cur[t]] < logs'[cur[t]]
      BY <2>1, <2>3, <2>4
    <3>2. \A u \in Ticks \ {t} : pc[u] = "update" /\ cur[u] \in rows =>
                                    snap[u][cur[u]] < logs'[cur[u]]
      BY <2>1, <2>3, <2>4
    <3> QED BY <2>2, <3>1, <3>2
  <2> QED BY <2>5, <2>6
<1>5. ASSUME NEW t \in Ticks, UpdateSchedule(t) PROVE LogInv'
  <2>1. cur[t] \in Schedules /\ (cur[t] \in rows => logs[cur[t]] > 0 /\ snap[t][cur[t]] + 1 <= logs[cur[t]])
    BY <1>0, <1>5 DEF UpdateSchedule
  <2>2. \A s \in rows : count'[s] = count[s] \/ (s = cur[t] /\ count'[s] = snap[t][s] + 1)
    BY <1>0, <1>5 DEF UpdateSchedule
  <2>3. \A s \in rows \ active' : s = cur[t] \/ s \notin active
    BY <1>0, <1>5 DEF UpdateSchedule
  <2>4. UNCHANGED <<rows, logs, snap, cur>> /\ \A u \in Ticks : pc'[u] = "update" => pc[u] = "update"
    BY <1>0, <1>5 DEF UpdateSchedule
  <2>5. NeverOvercounts' /\ NoneLost'
    BY <1>0, <2>1, <2>2, <2>3, <2>4
  <2>6. SnapLogged' /\ UpdateLogged'
    BY <2>4
  <2> QED BY <2>5, <2>6
<1>6. ASSUME FallsDue PROVE LogInv'
  BY <1>0, <1>6 DEF FallsDue
<1>7. ASSUME DeleteInstance PROVE LogInv'
  BY <1>0, <1>7 DEF DeleteInstance
<1>8. ASSUME OrchestratorCrashes PROVE LogInv'
  BY <1>0, <1>8 DEF OrchestratorCrashes, NothingRun
<1>9. ASSUME UNCHANGED vars PROVE LogInv'
  BY <1>0, <1>9 DEF vars
<1> QED BY <1>1, <1>2, <1>3, <1>4, <1>5, <1>6, <1>7, <1>8, <1>9 DEF Next, Step

-----------------------------------------------------------------------------
(* Exclusive, one lemma for the steps of a tick and one for the others     *)

LEMMA TickExclusive ==
    ASSUME TypeOK, Exclusive, NEW t \in Ticks, Tick(t), \A u \in Ticks : pc[u] = "free"
    PROVE  Exclusive'
<1> USE DEF TypeOK, table
<1>1. /\ pc' = [pc EXCEPT ![t] = "next"] /\ todo' = [todo EXCEPT ![t] = Selected]
      /\ UNCHANGED <<rows, active, due, cur, sent>>
  BY DEF Tick, Goto
<1>2. \A u \in Ticks : pc'[u] # "free" => u = t /\ pc'[u] = "next"
  BY <1>1
<1>3. \A s \in Selected : sent[s] = 0 /\ s \in due
  BY DEF Exclusive, SelectedUnsent, Selected
<1>4. OneTick' /\ TodoUnsent' /\ CurUnsent'
  BY <1>1, <1>2, <1>3 DEF OneTick, TodoUnsent, CurUnsent
<1>5. SelectedUnsent' /\ SentOnce'
  BY <1>1, <1>3 DEF SelectedUnsent, SentOnce, Selected, Exclusive
<1> QED BY <1>4, <1>5 DEF Exclusive

LEMMA StepExclusive ==
    ASSUME TypeOK, Exclusive, NEW t \in Ticks, Step(t)
    PROVE  Exclusive'
<1> USE DEF TypeOK, table, history
<1>1. \A u \in Ticks \ {t} : pc[u] = "free"
  BY DEF Exclusive, OneTick, Step, NextSchedule, Dispatch, LogRun, UpdateSchedule
<1>2. CASE NextSchedule(t)
  <2>1. UNCHANGED <<rows, active, due, sent>> /\ pc[t] = "next"
    BY <1>2 DEF NextSchedule
  <2>2. CASE todo[t] = {} /\ EndTick(t) /\ UNCHANGED todo
    <3>1. \A u \in Ticks : pc'[u] = "free"
      BY <1>1, <2>2 DEF EndTick, Goto
    <3>2. \A s \in Selected : sent[s] = 0
      BY <1>1, <2>1 DEF Exclusive, SelectedUnsent
    <3>3. OneTick' /\ TodoUnsent' /\ CurUnsent'
      BY <3>1 DEF OneTick, TodoUnsent, CurUnsent
    <3> QED BY <2>1, <3>2, <3>3 DEF Exclusive, SelectedUnsent, SentOnce, Selected
  <2>3. CASE \E s \in todo[t] :
               /\ todo' = [todo EXCEPT ![t] = @ \ {s}]
               /\ cur' = [cur EXCEPT ![t] = s]
               /\ Goto(t, IF s \in Blank THEN "next" ELSE "dispatch")
               /\ UNCHANGED snap
    <3>1. PICK s \in todo[t] :
               /\ todo' = [todo EXCEPT ![t] = @ \ {s}]
               /\ cur' = [cur EXCEPT ![t] = s]
               /\ pc' = [pc EXCEPT ![t] = IF s \in Blank THEN "next" ELSE "dispatch"]
      BY <2>3 DEF Goto
    <3>2. /\ \A u \in Ticks : pc'[u] # "free" => u = t
          /\ pc'[t] \in {"next", "dispatch"}
          /\ todo'[t] = todo[t] \ {s} /\ cur'[t] = s
      BY <1>1, <3>1
    <3>3. \A r \in todo[t] : r \in rows => r \in due /\ sent[r] = 0
      BY <2>1 DEF Exclusive, TodoUnsent
    <3>4. \A r \in Selected : sent[r] = 0
      BY <1>1, <2>1 DEF Exclusive, SelectedUnsent
    <3>5. OneTick' /\ TodoUnsent' /\ CurUnsent'
      BY <2>1, <3>2, <3>3 DEF OneTick, TodoUnsent, CurUnsent
    <3> QED BY <2>1, <3>4, <3>5 DEF Exclusive, SelectedUnsent, SentOnce, Selected
  <2> QED BY <1>2, <2>2, <2>3 DEF NextSchedule
<1>3. CASE Dispatch(t)
  <2>1. /\ pc[t] = "dispatch" /\ pc' = [pc EXCEPT ![t] = "log"]
        /\ UNCHANGED <<rows, active, due, todo, cur>>
        /\ cur[t] \in Schedules
    BY <1>3 DEF Dispatch, Goto
  <2>2. \A s \in Schedules : sent'[s] = sent[s] \/ (s = cur[t] /\ sent'[s] = sent[s] + 1)
    BY <1>3, <2>1 DEF Dispatch
  <2>3. cur[t] \in rows => cur[t] \in due /\ cur[t] \notin todo[t] /\ sent[cur[t]] = 0
    BY <2>1 DEF Exclusive, CurUnsent
  <2>4. /\ \A u \in Ticks : pc'[u] # "free" => u = t
        /\ pc'[t] = "log"
    BY <1>1, <2>1
  <2>5. OneTick' /\ CurUnsent'
    BY <2>1, <2>3, <2>4 DEF OneTick, CurUnsent
  <2>6. TodoUnsent'
    <3>1. \A s \in todo[t] : s \in rows => s \in due /\ sent[s] = 0
      BY <2>1 DEF Exclusive, TodoUnsent
    <3>2. \A s \in todo[t] : s \in rows => sent'[s] = 0
      BY <2>2, <2>3, <3>1
    <3> QED BY <2>1, <2>4, <3>1, <3>2 DEF TodoUnsent
  <2>7. SelectedUnsent'
    <3>1. \A s \in Selected : sent[s] = 0
      BY <1>1, <2>1 DEF Exclusive, SelectedUnsent
    <3>2. \A s \in Selected : sent'[s] = 0 \/ s = cur[t]
      BY <2>2, <3>1 DEF Selected
    <3> QED BY <2>1, <2>4, <3>2 DEF SelectedUnsent, Selected
  <2>8. SentOnce'
    BY <2>1, <2>2, <2>3 DEF Exclusive, SentOnce
  <2> QED BY <2>5, <2>6, <2>7, <2>8 DEF Exclusive
<1>4. CASE LogRun(t)
  <2>1. /\ pc[t] = "log" /\ pc' = [pc EXCEPT ![t] = "update"]
        /\ UNCHANGED <<rows, active, due, todo, cur, sent>>
    BY <1>4 DEF LogRun, Goto
  <2>2. /\ \A u \in Ticks : pc'[u] # "free" => u = t
        /\ pc'[t] = "update"
    BY <1>1, <2>1
  <2>3. OneTick' /\ TodoUnsent' /\ CurUnsent'
    BY <2>1, <2>2 DEF Exclusive, OneTick, TodoUnsent, CurUnsent
  <2>4. SelectedUnsent' /\ SentOnce'
    BY <1>1, <2>1, <2>2 DEF Exclusive, SelectedUnsent, SentOnce, Selected
  <2> QED BY <2>3, <2>4 DEF Exclusive
<1>5. CASE UpdateSchedule(t)
  <2>1. /\ pc[t] = "update" /\ pc' = [pc EXCEPT ![t] = "next"]
        /\ UNCHANGED <<rows, todo, cur, sent>>
        /\ active' \subseteq active /\ due' \subseteq due /\ due \subseteq due' \cup {cur[t]}
        /\ cur[t] \notin active' \cap due'
    BY <1>5 DEF UpdateSchedule, Goto
  <2>2. /\ \A u \in Ticks : pc'[u] # "free" => u = t
        /\ pc'[t] = "next"
    BY <1>1, <2>1
  <2>3. cur[t] \in rows => cur[t] \notin todo[t]
    BY <2>1 DEF Exclusive, CurUnsent
  <2>4. OneTick' /\ CurUnsent'
    BY <2>2 DEF OneTick, CurUnsent
  <2>5. TodoUnsent'
    <3>1. \A s \in todo[t] : s \in rows => s \in due /\ sent[s] = 0
      BY <2>1 DEF Exclusive, TodoUnsent
    <3> QED BY <2>1, <2>2, <2>3, <3>1 DEF TodoUnsent
  <2>6. SelectedUnsent'
    <3>1. \A s \in Selected' : s \in Selected /\ s # cur[t]
      BY <2>1 DEF Selected
    <3>2. \A s \in Selected' : sent[s] = 0
      BY <1>1, <3>1 DEF Exclusive, SelectedUnsent
    <3> QED BY <2>1, <3>2 DEF SelectedUnsent
  <2>7. SentOnce'
    BY <2>1 DEF Exclusive, SentOnce
  <2> QED BY <2>4, <2>5, <2>6, <2>7 DEF Exclusive
<1> QED BY <1>2, <1>3, <1>4, <1>5 DEF Step

LEMMA FallsDueExclusive ==
    ASSUME TypeOK, Exclusive, FallsDue
    PROVE  Exclusive'
<1> USE DEF TypeOK, tick
<1>1. PICK s \in rows \ due : due' = due \cup {s} /\ sent' = [sent EXCEPT ![s] = 0]
  BY DEF FallsDue
<1>2. UNCHANGED <<rows, active, pc, todo, cur>>
  BY DEF FallsDue
<1>3. \A r \in Schedules : sent'[r] = IF r = s THEN 0 ELSE sent[r]
  BY <1>1
<1>4. OneTick' /\ TodoUnsent' /\ CurUnsent'
  BY <1>1, <1>2, <1>3 DEF Exclusive, OneTick, TodoUnsent, CurUnsent
<1>5. SelectedUnsent' /\ SentOnce'
  BY <1>1, <1>2, <1>3 DEF Exclusive, SelectedUnsent, SentOnce, Selected
<1> QED BY <1>4, <1>5 DEF Exclusive

LEMMA RunnerExclusive ==
    ASSUME TypeOK, ~overlapped => Exclusive, [Next]_vars, ~overlapped'
    PROVE  Exclusive'
<1>1. ASSUME NEW t \in Ticks, Tick(t) PROVE Exclusive'
  <2>1. ~overlapped /\ \A u \in Ticks : pc[u] = "free"
    BY <1>1 DEF Tick
  <2> QED BY <1>1, <2>1, TickExclusive
<1>2. ASSUME NEW t \in Ticks, Step(t) PROVE Exclusive'
  <2>1. ~overlapped
    BY <1>2 DEF Step, NextSchedule, Dispatch, LogRun, UpdateSchedule, history
  <2> QED BY <1>2, <2>1, StepExclusive
<1>3. ASSUME FallsDue PROVE Exclusive'
  <2>1. ~overlapped
    BY <1>3 DEF FallsDue
  <2> QED BY <1>3, <2>1, FallsDueExclusive
<1>4. ASSUME DeleteInstance PROVE Exclusive'
  <2>1. ~overlapped /\ UNCHANGED <<pc, todo, cur>> /\ rows' = {}
    BY <1>4 DEF DeleteInstance, history, tick
  <2> QED BY <2>1 DEF Exclusive, OneTick, TodoUnsent, CurUnsent, SelectedUnsent, SentOnce, Selected
<1>5. ASSUME OrchestratorCrashes PROVE Exclusive'
  BY <1>5 DEF OrchestratorCrashes
<1>6. ASSUME UNCHANGED vars PROVE Exclusive'
  <2>1. ~overlapped /\ UNCHANGED <<rows, active, due, pc, todo, cur, sent>>
    BY <1>6 DEF vars, table, tick, history
  <2> QED BY <2>1 DEF Exclusive, OneTick, TodoUnsent, CurUnsent, SelectedUnsent, SentOnce, Selected
<1> QED BY <1>1, <1>2, <1>3, <1>4, <1>5, <1>6 DEF Next

-----------------------------------------------------------------------------
\* The invariant holds in every state, for any number of schedules and ticks,
\* whatever fails or crashes.
THEOREM RunnerInductive == Spec => []RunnerInv
<1>1. RunnerInv /\ [Next]_vars => RunnerInv'
  BY RunnerType, RunnerLog, RunnerExclusive DEF RunnerInv
<1> QED BY RunnerInit, <1>1, PTL DEF Spec

\* Every variable of the scheduler keeps its type.
THEOREM RunnerTypeCorrect == Spec => []TypeOK
<1>1. RunnerInv => TypeOK
  BY DEF RunnerInv
<1> QED BY RunnerInductive, <1>1, PTL

\* run_count never exceeds the number of runs logged, however many ticks write
\* back the value they selected.
THEOREM NoOvercount == Spec => []NeverOvercounts
<1>1. RunnerInv => NeverOvercounts
  BY DEF RunnerInv, LogInv
<1> QED BY RunnerInductive, <1>1, PTL

\* No schedule is deactivated before a run of it was logged.
THEOREM NoScheduleLost == Spec => []NoneLost
<1>1. RunnerInv => NoneLost
  BY DEF RunnerInv, LogInv
<1> QED BY RunnerInductive, <1>1, PTL

\* Without an overlap or a crash, a schedule is dispatched at most once each
\* time it falls due.
THEOREM DispatchedOncePerDue == Spec => []OncePerDue
<1>1. RunnerInv => OncePerDue
  BY DEF RunnerInv, Exclusive, SentOnce, OncePerDue
<1> QED BY RunnerInductive, <1>1, PTL
=============================================================================
