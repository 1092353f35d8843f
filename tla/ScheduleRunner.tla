---------------------------- MODULE ScheduleRunner ----------------------------
(***************************************************************************)
(* SchedulerService.runDueSchedules and runSchedule over the table         *)
(* "schedules".  The cron decorator fires every minute whether or not the  *)
(* tick before has ended, and a tick dispatches its schedules one after    *)
(* the other, each taking as long as its container takes to start, so      *)
(* ticks overlap.  A tick works on the rows as it selected them.           *)
(***************************************************************************)
EXTENDS Naturals, FiniteSets

CONSTANTS
    Schedules,  \* the rows of "schedules"
    RunOnce,    \* those with run_once
    Blank,      \* those with a blank prompt
    Ticks,      \* ticks that may be in flight together
    NoSchedule, \* no schedule is being run
    MaxDue,     \* bound: times a schedule falls due
    MaxFaults,  \* bound: dispatches that fail
    MaxCrashes  \* bound: crashes of the orchestrator process

ASSUME Kinds == RunOnce \subseteq Schedules /\ Blank \subseteq Schedules
ASSUME NoScheduleIsNone == NoSchedule \notin Schedules
ASSUME Bounds == MaxDue \in Nat /\ MaxFaults \in Nat /\ MaxCrashes \in Nat

VARIABLES
    rows,       \* the schedules that exist
    active,     \* is_active
    due,        \* those with next_run_at in the past
    count,      \* run_count
    logs,       \* how many rows of schedule_run_logs each schedule has
    pc,         \* where each tick stands
    todo,       \* the selected schedules each tick has yet to run
    snap,       \* run_count as each tick selected it
    cur,        \* the schedule each tick is running
    sent,       \* prompts dispatched since the schedule last fell due
    fell,       \* times a schedule fell due so far
    faults,     \* failed dispatches so far
    crashes,    \* crashes so far
    overlapped  \* whether two ticks overlapped or a tick crashed

table == <<rows, active, due, count, logs>>
tick == <<pc, todo, snap, cur>>
history == <<sent, fell, faults, crashes, overlapped>>
vars == <<table, tick, history>>

TypeOK ==
    /\ rows \subseteq Schedules
    /\ active \subseteq Schedules
    /\ due \subseteq Schedules
    /\ count \in [Schedules -> Nat]
    /\ logs \in [Schedules -> Nat]
    /\ pc \in [Ticks -> {"free", "next", "dispatch", "log", "update"}]
    /\ todo \in [Ticks -> SUBSET Schedules]
    /\ snap \in [Ticks -> [Schedules -> Nat]]
    /\ cur \in [Ticks -> Schedules \cup {NoSchedule}]
    /\ \A t \in Ticks : pc[t] \in {"dispatch", "log", "update"} => cur[t] \in Schedules
    /\ sent \in [Schedules -> Nat]
    /\ fell \in 0..MaxDue
    /\ faults \in 0..MaxFaults
    /\ crashes \in 0..MaxCrashes
    /\ overlapped \in BOOLEAN

NothingRun == [s \in Schedules |-> 0]

\* createOnboardingSequences inserts active rows, due on a later day.
Init ==
    /\ rows = Schedules /\ active = Schedules /\ due = {}
    /\ count = NothingRun /\ logs = NothingRun
    /\ pc = [t \in Ticks |-> "free"]
    /\ todo = [t \in Ticks |-> {}]
    /\ snap = [t \in Ticks |-> NothingRun]
    /\ cur = [t \in Ticks |-> NoSchedule]
    /\ sent = NothingRun
    /\ fell = 0 /\ faults = 0 /\ crashes = 0
    /\ overlapped = FALSE

-----------------------------------------------------------------------------
Selected == rows \cap active \cap due

Goto(t, point) == pc' = [pc EXCEPT ![t] = point]

\* Mutant: is_active is not part of the query.
TickIgnoresActive(t) ==
    /\ pc[t] = "free"
    /\ rows \cap due # {}
    /\ todo' = [todo EXCEPT ![t] = rows \cap due]
    /\ snap' = [snap EXCEPT ![t] = count]
    /\ Goto(t, "next")
    /\ overlapped' = (overlapped \/ \E u \in Ticks : pc[u] # "free")
    /\ UNCHANGED <<table, cur, sent, fell, faults, crashes>>

\* The cron job fires and selects what is due; nothing due, nothing done.
Tick(t) ==
    /\ pc[t] = "free"
    /\ Selected # {}
    /\ todo' = [todo EXCEPT ![t] = Selected]
    /\ snap' = [snap EXCEPT ![t] = count]
    /\ Goto(t, "next")
    /\ overlapped' = (overlapped \/ \E u \in Ticks : pc[u] # "free")
    /\ UNCHANGED <<table, cur, sent, fell, faults, crashes>>

\* The tick returns; its locals are gone.
EndTick(t) ==
    /\ Goto(t, "free")
    /\ cur' = [cur EXCEPT ![t] = NoSchedule]
    /\ snap' = [snap EXCEPT ![t] = NothingRun]

\* Mutant: a blank prompt ends the tick instead of being skipped.
NextUntilBlank(t) ==
    /\ pc[t] = "next"
    /\ \/ /\ todo[t] = {}
          /\ EndTick(t)
          /\ UNCHANGED todo
       \/ \E s \in todo[t] :
            /\ todo' = [todo EXCEPT ![t] = IF s \in Blank THEN {} ELSE @ \ {s}]
            /\ cur' = [cur EXCEPT ![t] = s]
            /\ Goto(t, IF s \in Blank THEN "next" ELSE "dispatch")
            /\ UNCHANGED snap
    /\ UNCHANGED <<table, history>>

\* The next schedule of the tick; one with a blank prompt is passed over and
\* stays due.
NextSchedule(t) ==
    /\ pc[t] = "next"
    /\ \/ /\ todo[t] = {}
          /\ EndTick(t)
          /\ UNCHANGED todo
       \/ \E s \in todo[t] :
            /\ todo' = [todo EXCEPT ![t] = @ \ {s}]
            /\ cur' = [cur EXCEPT ![t] = s]
            /\ Goto(t, IF s \in Blank THEN "next" ELSE "dispatch")
            /\ UNCHANGED snap
    /\ UNCHANGED <<table, history>>

\* Mutant: a failed dispatch is not logged.
DispatchLogsSuccess(t) ==
    /\ pc[t] = "dispatch"
    /\ \/ /\ sent' = [sent EXCEPT ![cur[t]] = @ + 1]
          /\ Goto(t, "log")
          /\ UNCHANGED faults
       \/ /\ faults < MaxFaults
          /\ faults' = faults + 1
          /\ Goto(t, "update")
          /\ UNCHANGED sent
    /\ UNCHANGED <<table, todo, snap, cur, fell, crashes, overlapped>>

\* Mutant: the error handler loses the schedule it was running.
DispatchForgets(t) ==
    /\ pc[t] = "dispatch"
    /\ \/ /\ sent' = [sent EXCEPT ![cur[t]] = @ + 1]
          /\ UNCHANGED <<cur, faults>>
       \/ /\ faults < MaxFaults
          /\ faults' = faults + 1
          /\ cur' = [cur EXCEPT ![t] = NoSchedule]
          /\ UNCHANGED sent
    /\ Goto(t, "log")
    /\ UNCHANGED <<table, todo, snap, fell, crashes, overlapped>>

\* MessageDispatchService.dispatch hands the prompt over, or throws.
Dispatch(t) ==
    /\ pc[t] = "dispatch"
    /\ \/ /\ sent' = [sent EXCEPT ![cur[t]] = @ + 1]
          /\ UNCHANGED faults
       \/ /\ faults < MaxFaults
          /\ faults' = faults + 1
          /\ UNCHANGED sent
    /\ Goto(t, "log")
    /\ UNCHANGED <<table, todo, snap, cur, fell, crashes, overlapped>>

\* The inserts into schedule_run_logs and usage_logs, of failed runs as well.
\* The foreign key rejects a log whose schedule is gone, and nobody looks.
LogRun(t) ==
    /\ pc[t] = "log"
    /\ logs' = IF cur[t] \in rows THEN [logs EXCEPT ![cur[t]] = @ + 1] ELSE logs
    /\ Goto(t, "update")
    /\ UNCHANGED <<rows, active, due, count, todo, snap, cur, history>>

\* run_once: is_active = false.  Otherwise next_run_at is the next time the
\* cron expression names, which is in the future, and run_count one more than
\* it was when the tick selected the row.
UpdateSchedule(t) ==
    LET s == cur[t]
    IN  /\ pc[t] = "update"
        /\ IF s \in RunOnce
           THEN active' = active \ {s} /\ UNCHANGED <<due, count>>
           ELSE /\ due' = due \ {s}
                /\ count' = IF s \in rows THEN [count EXCEPT ![s] = snap[t][s] + 1] ELSE count
                /\ UNCHANGED active
        /\ Goto(t, "next")
        /\ UNCHANGED <<rows, logs, todo, snap, cur, history>>

-----------------------------------------------------------------------------
\* next_run_at passes.
FallsDue ==
    /\ fell < MaxDue
    /\ \E s \in rows \ due :
         due' = due \cup {s} /\ sent' = [sent EXCEPT ![s] = 0]
    /\ fell' = fell + 1
    /\ UNCHANGED <<rows, active, count, logs, tick, faults, crashes, overlapped>>

\* Deleting the instance deletes its schedules and their logs (CASCADE).
DeleteInstance ==
    /\ rows # {}
    /\ rows' = {} /\ active' = {} /\ due' = {}
    /\ count' = NothingRun /\ logs' = NothingRun
    /\ UNCHANGED <<tick, history>>

\* The process dies with its ticks.
OrchestratorCrashes ==
    /\ crashes < MaxCrashes
    /\ \E t \in Ticks : pc[t] # "free"
    /\ crashes' = crashes + 1
    /\ pc' = [t \in Ticks |-> "free"]
    /\ todo' = [t \in Ticks |-> {}]
    /\ cur' = [t \in Ticks |-> NoSchedule]
    /\ snap' = [t \in Ticks |-> NothingRun]
    /\ overlapped' = TRUE
    /\ UNCHANGED <<table, sent, fell, faults>>

-----------------------------------------------------------------------------
Step(t) == NextSchedule(t) \/ Dispatch(t) \/ LogRun(t) \/ UpdateSchedule(t)

Next ==
    \/ \E t \in Ticks : Tick(t) \/ Step(t)
    \/ FallsDue \/ DeleteInstance \/ OrchestratorCrashes

Spec == Init /\ [][Next]_vars

\* A tick goes on, and the cron job keeps firing: it waits for a free slot
\* only here, because the slots are finite.
FairSpec == Spec /\ \A t \in Ticks : WF_vars(Step(t)) /\ SF_vars(Tick(t))

-----------------------------------------------------------------------------
\* Overlapping ticks may lose an update of run_count, but it never exceeds the
\* number of runs logged.
NeverOvercounts == \A s \in rows : count[s] <= logs[s]

\* Without an overlap or a crash a schedule is dispatched at most once each
\* time it falls due, and a run_once schedule at most once at all.
OncePerDue ==
    ~overlapped => \A s \in rows : sent[s] <= 1

\* A schedule leaves the active ones only after a run of it was logged.
NoneLost == \A s \in rows \ active : logs[s] > 0

\* Every due schedule that has a prompt is run, whatever crashes, failed
\* dispatches and blank prompts of other schedules come first.
DueIsRun ==
    \A s \in Schedules \ Blank : s \in Selected ~> s \notin Selected

-----------------------------------------------------------------------------
(* What the repository says and the code does not do                       *)

\* COMMENT ON COLUMN schedules.run_once: TRUE runs once, then deactivates.
RunOnceRunsOnce == \A s \in RunOnce : sent[s] <= 1
=============================================================================
