--------------------------- MODULE InstanceLifecycle ---------------------------
(***************************************************************************)
(* Every handler of the orchestrator that changes a user's instance row or *)
(* container, interleaved at its awaits: the REST handlers of              *)
(* InstancesService, MessageDispatchService as called by Slack and by the  *)
(* scheduler, the webhook handlers, and the idle and crash cron jobs.      *)
(* stopContainer and startContainer are in ContainerManager.               *)
(*                                                                         *)
(* A handler's first action is its first database read; it holds what it   *)
(* read in loc[s] and acts on it later, when the row may have changed.     *)
(***************************************************************************)
EXTENDS ContainerManager

CONSTANTS
    Operations,   \* the operations this instance of the model issues
    MaxRequests,  \* bound: requests and messages that arrive
    MaxDeaths,    \* bound: containers that stop by themselves
    MaxCrashes    \* bound: crashes of the orchestrator process

AllOperations == {"create", "restart", "delete", "config", "switch",
                  "slack", "schedule", "webhook", "idle", "monitor"}

ASSUME OperationsKnown == Operations \subseteq AllOperations
ASSUME Bounds == MaxRequests \in Nat /\ MaxDeaths \in Nat /\ MaxCrashes \in Nat

VARIABLES
    arrived,  \* requests so far
    deaths,   \* containers that stopped by themselves so far
    crashes,  \* crashes of the orchestrator so far
    solo      \* the slot of the last handler, if nothing disturbed it

envVars == <<arrived, deaths, crashes, solo>>
vars == <<cmVars, envVars>>

Points == {"free",
           "create_insert", "create_stopped", "create_key",
           "restart_creating", "restart_running", "delete_row",
           "config_llm", "config_running",
           "dispatch_read", "dispatch_alive", "dispatch_label", "dispatch_update",
           "webhook_running", "webhook_touch", "idle_null",
           "monitor_check", "monitor_null",
           "stop_inspect", "stop_stop", "stop_remove", "stop_revoke",
           "start_resolve", "start_llm", "start_inspect", "start_remove",
           "start_issue", "start_create", "start_start"}

Locals == [op: AllOperations \cup {"none"},
           ref: ContainerIds \cup {NoRef, ByName},
           iid: InstanceIds \cup {NoInstance},
           llm: Llms,
           tok: TokenIds \cup {NoToken},
           label: InstanceIds \cup {NoInstance},
           seen: 0..MaxFaults]

TypeOK ==
    /\ row \in Rows \cup {NoRow}
    /\ docker \in Containers \cup {NoContainer}
    /\ minted \in [iid: Nat, cid: Nat, jti: Nat]
    /\ pc \in [Slots -> Points]
    /\ loc \in [Slots -> Locals]
    /\ faults \in 0..MaxFaults
    /\ mended \in 0..MaxFaults
    /\ arrived \in 0..MaxRequests
    /\ deaths \in 0..MaxDeaths
    /\ crashes \in 0..MaxCrashes
    /\ solo \in Slots \cup {NoSlot}

Quiescent == \A s \in Slots : pc[s] = "free"

Init ==
    /\ row = NoRow
    /\ docker = NoContainer
    /\ minted = [iid |-> 0, cid |-> 0, jti |-> 0]
    /\ pc = [s \in Slots |-> "free"]
    /\ loc = [s \in Slots |-> NoLocals]
    /\ faults = 0 /\ mended = 0 /\ arrived = 0 /\ deaths = 0 /\ crashes = 0
    /\ solo = NoSlot

-----------------------------------------------------------------------------
\* A handler starts in a free slot with the locals its first read gives it.
Enter(s, op, ref, point) ==
    /\ op \in Operations
    /\ pc[s] = "free"
    /\ Goto(s, point)
    /\ loc' = [loc EXCEPT ![s] =
                 [op |-> op, ref |-> ref,
                  iid |-> IF row = NoRow THEN NoInstance ELSE row.iid,
                  llm |-> IF row = NoRow THEN Gemma ELSE row.llm,
                  tok |-> NoToken, label |-> NoInstance, seen |-> faults]]
    /\ solo' = IF Quiescent THEN s ELSE NoSlot
    /\ UNCHANGED <<docker, minted, deaths, crashes>>

\* A handler begins by reading; if that read fails it ends at once, as if it
\* had not begun.
Reads == UNCHANGED row /\ Succeeds

\* Requests and messages are bounded; the cron jobs are not.
Request(s, op, ref, point) ==
    /\ arrived < MaxRequests
    /\ arrived' = arrived + 1
    /\ Enter(s, op, ref, point)

Cron(s, op, ref, point) == Enter(s, op, ref, point) /\ UNCHANGED arrived

\* UPDATE instances SET ... WHERE user_id = the user, or WHERE id = iid.  No
\* handler looks at the error of one.
Update(new) == Write(IF row = NoRow THEN row ELSE new)
UpdateById(iid, new) == Write(IF RowIs(iid) THEN new ELSE row)

-----------------------------------------------------------------------------
(* InstancesService.create                                                 *)

BeginCreate(s) ==
    /\ row = NoRow
    /\ Request(s, "create", NoRef, "create_insert")
    /\ Reads

\* Mutant: the insert leaves status to the column's default.
InsertDefaultStatus(s) ==
    /\ pc[s] = "create_insert"
    /\ row = NoRow
    /\ minted' = [minted EXCEPT !.iid = @ + 1]
    /\ row' = [iid |-> minted.iid + 1, status |-> "pending", cid |-> NoRef,
               jti |-> NoToken, llm |-> Gemma, activity |-> "null"]
    /\ loc' = [loc EXCEPT ![s].iid = minted.iid + 1]
    /\ Goto(s, "create_stopped")
    /\ UNCHANGED <<docker, faultVars, envVars>>

Insert ==
    /\ row = NoRow
    /\ minted' = [minted EXCEPT !.iid = @ + 1]
    /\ row' = [iid |-> minted.iid + 1, status |-> "creating", cid |-> NoRef,
               jti |-> NoToken, llm |-> Gemma, activity |-> "null"]

\* The insert: UNIQUE (user_id) rejects it if a row appeared since the check.
\* Any error is thrown on, also one that comes after the row was inserted.
CreateInsert(s) ==
    /\ pc[s] = "create_insert"
    /\ \/ /\ Insert
          /\ loc' = [loc EXCEPT ![s].iid = minted.iid + 1]
          /\ Goto(s, "create_stopped")
          /\ Succeeds
       \/ /\ Insert
          /\ Finish(s)
          /\ Fails
       \/ /\ UNCHANGED <<row, minted>>
          /\ Finish(s)
          /\ IF row = NoRow THEN Fails ELSE Succeeds
    /\ UNCHANGED <<docker, envVars>>

\* status = 'stopped' WHERE id = the new row, whatever happened to it since.
CreateStopped(s) ==
    /\ pc[s] = "create_stopped"
    /\ UpdateById(loc[s].iid, [row EXCEPT !.status = "stopped"])
    /\ \/ Finish(s)
       \/ Goto(s, "create_key") /\ UNCHANGED loc
    /\ UNCHANGED <<docker, minted, envVars>>

\* With an API key: active_llm = 'anthropic_byok', or the encryption throws
\* and the catch records the error.
CreateKey(s) ==
    /\ pc[s] = "create_key"
    /\ \/ UpdateById(loc[s].iid, [row EXCEPT !.llm = Byok])
       \/ UpdateById(loc[s].iid, [row EXCEPT !.status = "error"])
    /\ Finish(s)
    /\ UNCHANGED <<docker, minted, envVars>>

-----------------------------------------------------------------------------
(* InstancesService.restart                                                *)

BeginRestart(s) ==
    /\ row # NoRow
    /\ Request(s, "restart", row.cid,
               IF row.cid = NoRef THEN "restart_creating" ELSE "stop_inspect")
    /\ Reads

RestartCreating(s) ==
    /\ pc[s] = "restart_creating"
    /\ Update([row EXCEPT !.status = "creating", !.cid = NoRef])
    /\ Goto(s, "start_resolve")
    /\ UNCHANGED <<docker, minted, loc, envVars>>

RestartRunning(s) ==
    /\ pc[s] = "restart_running"
    /\ Update([row EXCEPT !.status = "running", !.cid = loc[s].ref])
    /\ Finish(s)
    /\ UNCHANGED <<docker, minted, envVars>>

-----------------------------------------------------------------------------
(* InstancesService.delete                                                 *)

\* Mutant: the row is deleted without stopping its container.
DeleteWithoutStop(s) ==
    /\ row # NoRow
    /\ Request(s, "delete", row.cid, "delete_row")
    /\ Reads

BeginDelete(s) ==
    /\ row # NoRow
    /\ Request(s, "delete", row.cid,
               IF row.cid = NoRef THEN "delete_row" ELSE "stop_inspect")
    /\ Reads

DeleteRow(s) ==
    /\ pc[s] = "delete_row"
    /\ Write(NoRow)
    /\ Finish(s)
    /\ UNCHANGED <<docker, minted, envVars>>

-----------------------------------------------------------------------------
(* InstancesService.updateConfig.  "config" changes the name or CLAUDE.md, *)
(* which restarts a container the row knew when the handler began;         *)
(* "switch" does not.  Either may also change the LLM.                     *)

AfterConfig(op, ref) ==
    IF op = "config" /\ ref # NoRef THEN "stop_inspect" ELSE "free"

BeginConfig(s) ==
    /\ row # NoRow
    /\ \/ Request(s, "config", row.cid, "config_llm")
       \/ Request(s, "switch", row.cid, "config_llm")
       \/ row.cid # NoRef /\ Request(s, "config", row.cid, "stop_inspect")
    /\ Reads

\* The LLM is set and the restart follows, or the handler throws: no API key
\* is registered, or the new one cannot be encrypted.
ConfigLlm(s) ==
    /\ pc[s] = "config_llm"
    /\ \/ /\ \E llm \in Llms : Update([row EXCEPT !.llm = llm])
          /\ IF AfterConfig(loc[s].op, loc[s].ref) = "free"
             THEN Finish(s)
             ELSE Goto(s, "stop_inspect") /\ UNCHANGED loc
       \/ UNCHANGED row /\ Finish(s) /\ Succeeds
    /\ UNCHANGED <<docker, minted, envVars>>

ConfigRunning(s) ==
    /\ pc[s] = "config_running"
    /\ Update([row EXCEPT !.status = "running", !.cid = loc[s].ref])
    /\ Finish(s)
    /\ UNCHANGED <<docker, minted, envVars>>

-----------------------------------------------------------------------------
(* MessageDispatchService.dispatch                                         *)

\* SlackSocketService.handleMessage stamps last_activity, then dispatches.
BeginSlack(s) ==
    /\ row # NoRow
    /\ Request(s, "slack", NoRef, "dispatch_read")
    /\ Write([row EXCEPT !.activity = "recent"])

\* SchedulerService.runSchedule dispatches without stamping it.
BeginSchedule(s) ==
    /\ row # NoRow
    /\ Request(s, "schedule", NoRef, "dispatch_read")
    /\ Reads

\* A failing read counts as no instance, and so as no container.
DispatchRead(s) ==
    LET named == row # NoRow /\ row.cid # NoRef
    IN  /\ pc[s] = "dispatch_read"
        /\ \/ /\ named
              /\ loc' = [loc EXCEPT ![s].ref = row.cid, ![s].llm = row.llm]
              /\ Goto(s, "dispatch_alive")
              /\ Succeeds
           \/ /\ Goto(s, "start_resolve")
              /\ UNCHANGED loc
              /\ IF named THEN Fails ELSE Succeeds
        /\ UNCHANGED <<row, docker, minted, envVars>>

\* Mutant: a container_id on record is taken for a running container.
DispatchUnchecked(s) ==
    /\ pc[s] = "dispatch_alive"
    /\ Goto(s, "dispatch_label")
    /\ UNCHANGED <<row, docker, minted, loc, faultVars, envVars>>

\* isContainerRunning: any error of the inspection counts as not running.
DispatchAlive(s) ==
    LET alive == Found(loc[s].ref) /\ Running
    IN  /\ pc[s] = "dispatch_alive"
        /\ \/ alive /\ Goto(s, "dispatch_label") /\ Succeeds
           \/ /\ Goto(s, "start_resolve")
              /\ IF alive THEN Fails ELSE Succeeds
        /\ UNCHANGED <<row, docker, minted, loc, envVars>>

\* Mutant: the LLM label is not compared.
DispatchAnyLabel(s) ==
    /\ pc[s] = "dispatch_label"
    /\ Finish(s)
    /\ UNCHANGED <<row, docker, minted, faultVars, envVars>>

\* A container running for another LLM than the row's is replaced; otherwise
\* the message goes to it at once.  An error of the inspection gives no label,
\* and with no label the container is kept.
DispatchLabel(s) ==
    LET differs == Found(loc[s].ref) /\ docker.llm # loc[s].llm
    IN  /\ pc[s] = "dispatch_label"
        /\ \/ /\ differs
              /\ Goto(s, "stop_inspect")
              /\ UNCHANGED loc
              /\ Succeeds
           \/ /\ Finish(s)
              /\ IF differs THEN Fails ELSE Succeeds
        /\ UNCHANGED <<row, docker, minted, envVars>>

\* Mutant: the update does not record the container.
DispatchUpdateUnnamed(s) ==
    /\ pc[s] = "dispatch_update"
    /\ Update([row EXCEPT !.status = "running", !.activity = "recent"])
    /\ Finish(s)
    /\ UNCHANGED <<docker, minted, envVars>>

DispatchUpdate(s) ==
    /\ pc[s] = "dispatch_update"
    /\ Update([row EXCEPT !.status = "running", !.cid = loc[s].ref, !.activity = "recent"])
    /\ Finish(s)
    /\ UNCHANGED <<docker, minted, envVars>>

-----------------------------------------------------------------------------
(* WebhooksService.handleTelegram and handleSlack                          *)

BeginWebhook(s) ==
    /\ row # NoRow
    /\ Request(s, "webhook", row.cid,
               IF row.cid = NoRef THEN "start_resolve" ELSE "webhook_touch")
    /\ Reads

\* updateContainerId(newContainerId)
WebhookRunning(s) ==
    /\ pc[s] = "webhook_running"
    /\ Update([row EXCEPT !.status = "running", !.cid = loc[s].ref, !.activity = "recent"])
    /\ Goto(s, "webhook_touch")
    /\ UNCHANGED <<docker, minted, loc, envVars>>

\* updateLastActivity
WebhookTouch(s) ==
    /\ pc[s] = "webhook_touch"
    /\ Update([row EXCEPT !.activity = "recent"])
    /\ Finish(s)
    /\ UNCHANGED <<docker, minted, envVars>>

-----------------------------------------------------------------------------
(* SchedulerService.stopIdleContainers                                     *)

BeginIdle(s) ==
    /\ row # NoRow
    /\ row.status = "running" /\ row.activity = "old"
    /\ Cron(s, "idle", row.cid, IF row.cid = NoRef THEN "idle_null" ELSE "stop_inspect")
    /\ Reads

\* updateContainerId(null)
IdleNull(s) ==
    /\ pc[s] = "idle_null"
    /\ Update([row EXCEPT !.status = "stopped", !.cid = NoRef, !.activity = "recent"])
    /\ Finish(s)
    /\ UNCHANGED <<docker, minted, envVars>>

-----------------------------------------------------------------------------
(* MonitorService.detectCrashedContainers.  No code increments             *)
(* restart_count, so the branch on MAX_AUTO_RESTART is never taken.        *)

BeginMonitor(s) ==
    /\ row # NoRow
    /\ row.status = "running" /\ row.cid # NoRef
    /\ Cron(s, "monitor", row.cid, "monitor_check")
    /\ Reads

\* Mutant: a container that exists counts as running.
MonitorChecksExistence(s) ==
    /\ pc[s] = "monitor_check"
    /\ IF Found(loc[s].ref)
       THEN Finish(s)
       ELSE Goto(s, "monitor_null") /\ UNCHANGED loc
    /\ UNCHANGED <<row, docker, minted, faultVars, envVars>>

\* getTaskStatus: any error of the inspection counts as 'stopped'.
MonitorCheck(s) ==
    LET alive == Found(loc[s].ref) /\ Running
    IN  /\ pc[s] = "monitor_check"
        /\ \/ alive /\ Finish(s) /\ Succeeds
           \/ /\ Goto(s, "monitor_null")
              /\ UNCHANGED loc
              /\ IF alive THEN Fails ELSE Succeeds
        /\ UNCHANGED <<row, docker, minted, envVars>>

\* Mutant: container_id is cleared and the status left alone.
MonitorKeepsStatus(s) ==
    /\ pc[s] = "monitor_null"
    /\ row' = IF RowIs(loc[s].iid) THEN [row EXCEPT !.cid = NoRef] ELSE row
    /\ Finish(s)
    /\ UNCHANGED <<docker, minted, faultVars, envVars>>

MonitorNull(s) ==
    /\ pc[s] = "monitor_null"
    /\ UpdateById(loc[s].iid, [row EXCEPT !.status = "stopped", !.cid = NoRef])
    /\ Finish(s)
    /\ UNCHANGED <<docker, minted, envVars>>

-----------------------------------------------------------------------------
(* The environment                                                         *)

\* A container stops for good: killed by hand or by the host, so that Docker's
\* restart policy does not bring it back.
ContainerDies ==
    /\ Running
    /\ deaths < MaxDeaths
    /\ deaths' = deaths + 1
    /\ docker' = [docker EXCEPT !.state = "exited"]
    /\ solo' = NoSlot
    /\ UNCHANGED <<row, minted, pc, loc, faultVars, arrived, crashes>>

\* The idle timeout passes.  It is an hour, and a handler takes seconds.
TimePasses ==
    /\ Quiescent
    /\ row # NoRow /\ row.activity = "recent"
    /\ row' = [row EXCEPT !.activity = "old"]
    /\ UNCHANGED <<docker, minted, pc, loc, faultVars, envVars>>

\* The process dies with every handler in it; Postgres and Docker go on.
OrchestratorCrashes ==
    /\ crashes < MaxCrashes
    /\ ~Quiescent
    /\ crashes' = crashes + 1
    /\ pc' = [s \in Slots |-> "free"]
    /\ loc' = [s \in Slots |-> NoLocals]
    /\ solo' = NoSlot
    /\ UNCHANGED <<row, docker, minted, faultVars, arrived, deaths>>

-----------------------------------------------------------------------------
Begin(s) ==
    \/ BeginCreate(s) \/ BeginRestart(s) \/ BeginDelete(s) \/ BeginConfig(s)
    \/ BeginSlack(s) \/ BeginSchedule(s) \/ BeginWebhook(s)
    \/ BeginIdle(s) \/ BeginMonitor(s)

Step(s) ==
    \/ ContainerStep(s) /\ UNCHANGED envVars
    \/ CreateInsert(s) \/ CreateStopped(s) \/ CreateKey(s)
    \/ RestartCreating(s) \/ RestartRunning(s) \/ DeleteRow(s)
    \/ ConfigLlm(s) \/ ConfigRunning(s)
    \/ DispatchRead(s) \/ DispatchAlive(s) \/ DispatchLabel(s) \/ DispatchUpdate(s)
    \/ WebhookRunning(s) \/ WebhookTouch(s) \/ IdleNull(s)
    \/ MonitorCheck(s) \/ MonitorNull(s)

Environment == ContainerDies \/ TimePasses \/ OrchestratorCrashes

Next == (\E s \in Slots : Begin(s) \/ Step(s)) \/ Environment

Spec == Init /\ [][Next]_vars

\* A handler in flight goes on, the cron jobs keep firing, and time passes.
\* In the code a cron job always fires; it waits for a free slot only here,
\* because slots are finite, so it gets strong fairness.
HandlersGoOn == \A s \in Slots : WF_vars(Step(s))
MonitorFires == SF_vars(\E s \in Slots : BeginMonitor(s))
IdleJobFires == SF_vars(\E s \in Slots : BeginIdle(s)) /\ SF_vars(TimePasses)

MonitoredSpec == Spec /\ HandlersGoOn /\ MonitorFires
FairSpec == MonitoredSpec /\ IdleJobFires

-----------------------------------------------------------------------------
(* Properties that hold under every interleaving and crash                 *)

\* A row in status 'running' always names a container, so the crash monitor,
\* which selects status = 'running' AND container_id IS NOT NULL, sees every
\* row the idle job would select (monitor.service.ts, scheduler.service.ts).
RunningHasContainer ==
    row # NoRow /\ row.status = "running" => row.cid # NoRef

\* The proxy accepts a token while its jti is the row's.
Live(t) == row # NoRow /\ row.jti = t

\* A token the proxy refuses is refused for ever: no handler that finishes
\* late writes back a jti that a restart, a stop or a newer start replaced.
TokensNeverRevive ==
    [][\A t \in 1..minted.jti : Live(t)' => Live(t)]_vars

\* The good token is with a handler between issue and createContainer, and
\* then in the environment of the container that was created with it.
LiveToken == IF row = NoRow THEN NoToken ELSE row.jti

InContainer == docker # NoContainer /\ docker.tok = LiveToken
WithHandler == \E s \in Slots : pc[s] = "start_create" /\ loc[s].tok = LiveToken

Place ==
    IF LiveToken = NoToken THEN "none"
    ELSE IF InContainer THEN "held"
    ELSE IF WithHandler THEN "pending"
    ELSE "spent"

Registry == INSTANCE TokenRegistry WITH
              live <- LiveToken, issued <- minted.jti, place <- Place

\* Overlapping starts, stops, deletes and creates, cut off by crashes and
\* failing calls, implement the register: a token the proxy takes goes to one
\* container at most, that of the start it was issued to, and is never given
\* out again after that container is gone or that start has failed.
ImplementsTokenRegistry == Registry!Spec

\* Slot s ends a dispatch that had the system to itself from its first read,
\* with its message written to the user's inbound queue.
Delivers(s) ==
    /\ solo = s /\ solo' = s
    /\ pc[s] \in {"dispatch_label", "dispatch_update"}
    /\ pc'[s] = "free"

\* Whatever races, crashes and failing calls left behind, and whatever call of
\* its own fails, a dispatch that then runs alone hands its message to a
\* running container, and the row refers to it unless that last write failed.
DispatchHeals ==
    [][\A s \in Slots :
         Delivers(s) =>
           /\ Running'
           /\ Succeeds => row' # NoRow /\ Found(row.cid)']_vars

\* The row and the container agree on instance, LLM, token and status.
Serving ==
    /\ Running /\ row # NoRow
    /\ row.status = "running"
    /\ Found(row.cid)
    /\ docker.iid = row.iid
    /\ docker.llm = row.llm
    /\ docker.tok \in {NoToken, row.jti}

\* A restart that had the system to itself ends with a running container,
\* which the row names unless that last write failed.  If it found a container
\* to stop and none of its calls failed, it repairs everything: instance label,
\* LLM, status and a token the proxy takes.  With a failing stop it does not:
\* it adopts the container whose token it has revoked.
RestartHeals ==
    [][\A s \in Slots :
         /\ solo = s /\ solo' = s
         /\ pc[s] = "restart_running" /\ pc'[s] = "free"
         => /\ Running'
            /\ Succeeds => row'.status = "running" /\ Found(row.cid)'
            /\ loc[s].label # NoInstance /\ faults' = loc[s].seen => Serving']_vars

-----------------------------------------------------------------------------
(* Properties that hold while handlers do not overlap or crash             *)

\* A call has failed and since then no handler has started a container without
\* a failing call of its own.  Until one does, row and container may disagree.
Astray == mended < faults

\* Between handlers a running container is the one the row refers to, belongs
\* to the row's instance and carries the token the proxy accepts; in
\* particular delete leaves no container running.  A failing call can break
\* this, and a handler that then starts a container restores it.
Coherent ==
    Quiescent /\ Running /\ ~Astray =>
        /\ row # NoRow
        /\ row.status = "running"
        /\ Found(row.cid)
        /\ docker.iid = row.iid
        /\ docker.tok \in {NoToken, row.jti}

\* Between handlers no token is on record that no container can present,
\* except after a failing call, as when createContainer fails after issue.
NoTokenWithoutContainer ==
    Quiescent /\ row # NoRow /\ docker = NoContainer /\ ~Astray => row.jti = NoToken

\* A dispatch reaches a container that runs the LLM the user has selected,
\* except after a failing call, as when the inspection of the label fails.
DispatchUsesSelectedLlm ==
    [][\A s \in Slots : Delivers(s) /\ ~Astray' => docker.llm' = row.llm']_vars

-----------------------------------------------------------------------------
(* Liveness, the first under MonitoredSpec, the second under FairSpec      *)

\* The row points to a container that no longer runs.
Stale == row # NoRow /\ row.status = "running" /\ ~(Running /\ Found(row.cid))

\* The monitor, or a handler, repairs a row whose container is gone, however
\* its steps interleave with the requests still in flight.
StaleRowIsRepaired == Stale ~> ~Stale

\* While handlers do not overlap or crash, a container whose row was ever
\* stamped with an activity is eventually stopped by the idle job, unless a
\* call fails: the idle job clears the row also when its stop failed, and the
\* container then runs on unseen until the next start.
StampedContainerStops ==
    (Running /\ row # NoRow /\ row.activity # "null" /\ ~Astray) ~> (~Running \/ Astray)

-----------------------------------------------------------------------------
(* What the repository says and the code does not do                       *)

\* ideas/nanoclaw-saas-platform-V3.md and docs/deployment.md: a container that
\* gets no message for CONTAINER_IDLE_TIMEOUT_MS is stopped.
IdleContainerStops == Running ~> ~Running
=============================================================================
