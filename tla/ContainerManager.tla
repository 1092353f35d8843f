--------------------------- MODULE ContainerManager ---------------------------
(***************************************************************************)
(* The orchestrator's ContainerManagerService together with the two stores *)
(* it writes: the user's row of the Postgres table "instances" and the     *)
(* Docker daemon.  One user is modelled.  Rows and container names are per *)
(* user and no operation touches two users, so users do not interact.      *)
(*                                                                         *)
(* The orchestrator is one Node process.  A handler runs without           *)
(* interruption between two awaits and any other handler may run at an     *)
(* await, so startContainer and stopContainer are one action per database  *)
(* or Docker round trip.  The handlers that call them are in               *)
(* InstanceLifecycle.                                                      *)
(*                                                                         *)
(* Any of these calls may fail, before it has taken effect or after, and   *)
(* each action says what its caller then does: most errors are caught and  *)
(* logged, or are in a field that nobody reads.                            *)
(***************************************************************************)
EXTENDS Integers, FiniteSets

CONSTANTS
    Slots,        \* handler executions that may be in flight together
    NoRow,        \* the user has no row in "instances"
    NoContainer,  \* Docker knows no container by the user's name
    NoRef,        \* container_id IS NULL
    ByName,       \* a container_id holding the container's NAME
    NoToken,      \* internal_token_jti IS NULL, or no token in the env
    NoInstance,   \* an instance id that was never read
    NoSlot,       \* no handler has had the system to itself
    MaxFaults     \* bound: Docker and database calls that fail

ASSUME NullsAreDistinct ==
    /\ NoRef \notin Nat /\ ByName \notin Nat /\ NoRef # ByName
    /\ NoToken \notin Nat
    /\ NoInstance \notin Nat
    /\ NoSlot \notin Slots

ASSUME HandlersRun == Slots # {}
ASSUME FaultBound == MaxFaults \in Nat

VARIABLES
    row,      \* the row of "instances", or NoRow
    docker,   \* the container holding the user's name, or NoContainer
    minted,   \* how many row ids, container ids and token ids exist so far
    pc,       \* where each handler execution stands
    loc,      \* the local variables of each handler execution
    faults,   \* calls that have failed so far
    mended    \* how many of them were past when the last handler began that
              \* went on to start a container; no action reads it

faultVars == <<faults, mended>>
cmVars == <<row, docker, minted, pc, loc, faultVars>>

-----------------------------------------------------------------------------
Gemma == "gemma_hosted"
Byok  == "anthropic_byok"
Llms  == {Gemma, Byok}

\* The statuses the code writes; the column's CHECK also allows 'pending'
\* and 'stopping', which no code writes.
Statuses == {"creating", "stopped", "running", "error"}

InstanceIds  == Nat \ {0}
ContainerIds == Nat \ {0}
TokenIds     == Nat \ {0}

\* last_activity: never set, within the idle timeout, or before it.
Activities == {"null", "recent", "old"}

Rows == [iid: InstanceIds, status: Statuses, cid: ContainerIds \cup {NoRef, ByName},
         jti: TokenIds \cup {NoToken}, llm: Llms, activity: Activities]

Containers == [id: ContainerIds, state: {"created", "running", "exited"},
               tok: TokenIds \cup {NoToken}, iid: InstanceIds, llm: Llms]

ASSUME NullsAreNotRecords == NoRow \notin Rows /\ NoContainer \notin Containers

\* Locals: the operation, a container reference, the instance id and LLM read
\* by the operation, the token just issued, the instance-id label inspected;
\* and, read by no action, the calls that had failed when the handler began.
NoLocals == [op |-> "none", ref |-> NoRef, iid |-> NoInstance, llm |-> Gemma,
             tok |-> NoToken, label |-> NoInstance, seen |-> 0]

\* Docker resolves a reference by id or by name.
Found(ref) ==
    /\ docker # NoContainer
    /\ ref = ByName \/ ref = docker.id

Running == docker # NoContainer /\ docker.state = "running"

RowIs(iid) == row # NoRow /\ row.iid = iid

-----------------------------------------------------------------------------
\* What becomes of a call to Docker or to the database.
Succeeds == UNCHANGED faultVars
Fails == faults < MaxFaults /\ faults' = faults + 1 /\ UNCHANGED mended

\* supabase-js reports a failed write in a field of its result.  Where nobody
\* reads that field the write is lost and the handler goes on.
Write(new) == (row' = new /\ Succeeds) \/ (UNCHANGED row /\ Fails)

Goto(s, point) == pc' = [pc EXCEPT ![s] = point]

\* The handler returns or throws: its locals are gone.
Finish(s) ==
    /\ pc' = [pc EXCEPT ![s] = "free"]
    /\ loc' = [loc EXCEPT ![s] = NoLocals]

\* Where the caller of stopContainer and of startContainer goes on.
AfterStop(op) ==
    CASE op = "restart" -> "restart_creating"
      [] op = "delete"  -> "delete_row"
      [] op = "idle"    -> "idle_null"
      [] OTHER          -> "start_resolve"

AfterStart(op) ==
    CASE op = "restart" -> "restart_running"
      [] op = "config"  -> "config_running"
      [] op = "webhook" -> "webhook_running"
      [] OTHER          -> "dispatch_update"

-----------------------------------------------------------------------------
(* stopContainer(ref)                                                      *)

\* inspect(): any error is caught, and without a label nothing is revoked.
StopInspect(s) ==
    /\ pc[s] = "stop_inspect"
    /\ \/ /\ Found(loc[s].ref)
          /\ loc' = [loc EXCEPT ![s].label = docker.iid]
          /\ Goto(s, "stop_stop")
          /\ Succeeds
       \/ /\ Goto(s, AfterStop(loc[s].op))
          /\ UNCHANGED loc
          /\ IF Found(loc[s].ref) THEN Fails ELSE Succeeds
    /\ UNCHANGED <<row, docker, minted>>

\* Mutant: the container is removed without being stopped first.
StopWithoutStopping(s) ==
    /\ pc[s] = "stop_stop"
    /\ Goto(s, "stop_remove")
    /\ UNCHANGED <<row, docker, minted, loc, faultVars>>

\* stop({t: 10}): Docker answers 304 to a container that does not run and 404
\* to a missing one; these reject like any failure, and the catch skips
\* remove() and goes on to revoke, although the container may be running.
StopStop(s) ==
    LET running == Found(loc[s].ref) /\ Running
        stopped == [docker EXCEPT !.state = "exited"]
    IN  /\ pc[s] = "stop_stop"
        /\ \/ /\ running
              /\ docker' = stopped
              /\ Goto(s, "stop_remove")
              /\ Succeeds
           \/ /\ running
              /\ docker' \in {docker, stopped}
              /\ Goto(s, "stop_revoke")
              /\ Fails
           \/ /\ ~running
              /\ Goto(s, "stop_revoke")
              /\ UNCHANGED docker
              /\ Succeeds
        /\ UNCHANGED <<row, minted, loc>>

\* remove() without force: refused while the container runs.  An error leaves
\* the container there and is caught.
StopRemove(s) ==
    /\ pc[s] = "stop_remove"
    /\ \/ /\ docker' = IF Found(loc[s].ref) /\ ~Running THEN NoContainer ELSE docker
          /\ Succeeds
       \/ UNCHANGED docker /\ Fails
    /\ Goto(s, "stop_revoke")
    /\ UNCHANGED <<row, minted, loc>>

\* InternalTokenService.revoke: by the instance id on the container's label.
Revoked(iid) == IF RowIs(iid) THEN [row EXCEPT !.jti = NoToken] ELSE row

\* Mutant: the token of a stopped container stays on record.
StopWithoutRevoke(s) ==
    /\ pc[s] = "stop_revoke"
    /\ Goto(s, AfterStop(loc[s].op))
    /\ UNCHANGED <<row, docker, minted, loc, faultVars>>

\* An error is thrown by revoke and caught here.
StopRevoke(s) ==
    /\ pc[s] = "stop_revoke"
    /\ Write(Revoked(loc[s].label))
    /\ Goto(s, AfterStop(loc[s].op))
    /\ UNCHANGED <<docker, minted, loc>>

-----------------------------------------------------------------------------
(* startContainer(userId)                                                  *)

\* resolveInstance: no row, or an error, throws NotFoundException.
StartResolve(s) ==
    /\ pc[s] = "start_resolve"
    /\ \/ /\ row # NoRow
          /\ loc' = [loc EXCEPT ![s].iid = row.iid]
          /\ Goto(s, "start_llm")
          /\ Succeeds
       \/ /\ Finish(s)
          /\ IF row # NoRow THEN Fails ELSE Succeeds
    /\ UNCHANGED <<row, docker, minted>>

\* The second read of the row; an error, or a row gone by now, reads as
\* gemma_hosted.
StartReadLlm(s) ==
    /\ pc[s] = "start_llm"
    /\ \/ /\ loc' = [loc EXCEPT ![s].llm = IF row = NoRow THEN Gemma ELSE row.llm]
          /\ Succeeds
       \/ /\ loc' = [loc EXCEPT ![s].llm = Gemma]
          /\ Fails
    /\ Goto(s, "start_inspect")
    /\ UNCHANGED <<row, docker, minted>>

\* A running container is adopted whatever its labels say, and the handle's
\* id, which is the name it was looked up by, is returned.  Every error of the
\* inspection is swallowed.
StartInspect(s) ==
    /\ pc[s] = "start_inspect"
    /\ \/ /\ Running
          /\ loc' = [loc EXCEPT ![s].ref = ByName]
          /\ Goto(s, AfterStart(loc[s].op))
          /\ Succeeds
       \/ /\ docker # NoContainer /\ ~Running
          /\ Goto(s, "start_remove")
          /\ UNCHANGED loc
          /\ Succeeds
       \/ /\ Goto(s, "start_issue")
          /\ UNCHANGED loc
          /\ IF docker # NoContainer THEN Fails ELSE Succeeds
    /\ UNCHANGED <<row, docker, minted>>

\* remove() of the stale container, by name; an error is swallowed too.
StartRemove(s) ==
    /\ pc[s] = "start_remove"
    /\ \/ /\ docker' = IF Running THEN docker ELSE NoContainer
          /\ Succeeds
       \/ UNCHANGED docker /\ Fails
    /\ Goto(s, "start_issue")
    /\ UNCHANGED <<row, minted, loc>>

\* Mutant: a token that is on record is used again instead of a fresh one.
IssueReusesToken(s) ==
    LET tok == IF RowIs(loc[s].iid) /\ row.jti # NoToken THEN row.jti ELSE minted.jti + 1
    IN  /\ pc[s] = "start_issue"
        /\ minted' = [minted EXCEPT !.jti = @ + 1]
        /\ row' = IF RowIs(loc[s].iid) THEN [row EXCEPT !.jti = tok] ELSE row
        /\ loc' = [loc EXCEPT ![s].tok = tok]
        /\ Goto(s, "start_create")
        /\ UNCHANGED <<docker, faultVars>>

\* InternalTokenService.issue: a fresh jti, written to the row if it exists.
\* An error is thrown on, whether or not the write took effect.
StartIssue(s) ==
    LET tok == minted.jti + 1
        recorded == IF RowIs(loc[s].iid) THEN [row EXCEPT !.jti = tok] ELSE row
    IN  /\ pc[s] = "start_issue"
        /\ minted' = [minted EXCEPT !.jti = tok]
        /\ \/ /\ row' = recorded
              /\ loc' = [loc EXCEPT ![s].tok = tok]
              /\ Goto(s, "start_create")
              /\ Succeeds
           \/ /\ row' \in {row, recorded}
              /\ Finish(s)
              /\ Fails
        /\ UNCHANGED docker

\* Mutant: the token is recorded again once its container exists.
CreateRecordsToken(s) ==
    /\ pc[s] = "start_create"
    /\ docker = NoContainer
    /\ minted' = [minted EXCEPT !.cid = @ + 1]
    /\ docker' = [id |-> minted.cid + 1, state |-> "created", tok |-> loc[s].tok,
                  iid |-> loc[s].iid, llm |-> loc[s].llm]
    /\ row' = IF RowIs(loc[s].iid) THEN [row EXCEPT !.jti = loc[s].tok] ELSE row
    /\ loc' = [loc EXCEPT ![s].ref = minted.cid + 1]
    /\ Goto(s, "start_start")
    /\ UNCHANGED faultVars

\* What createContainer does.  Only a BYOK container gets the token in its
\* environment.
Create(s) ==
    /\ docker = NoContainer
    /\ minted' = [minted EXCEPT !.cid = @ + 1]
    /\ docker' = [id |-> minted.cid + 1, state |-> "created",
                  tok |-> IF loc[s].llm = Byok THEN loc[s].tok ELSE NoToken,
                  iid |-> loc[s].iid, llm |-> loc[s].llm]

\* The name is unique, a taken one is a 409; that and every other error is
\* thrown on, with the token already on record.
StartCreate(s) ==
    /\ pc[s] = "start_create"
    /\ \/ /\ Create(s)
          /\ loc' = [loc EXCEPT ![s].ref = minted.cid + 1]
          /\ Goto(s, "start_start")
          /\ Succeeds
       \/ /\ Create(s)
          /\ Finish(s)
          /\ Fails
       \/ /\ UNCHANGED <<docker, minted>>
          /\ Finish(s)
          /\ IF docker = NoContainer THEN Fails ELSE Succeeds
    /\ UNCHANGED row

\* start(): rejects if the container was removed meanwhile or Docker fails,
\* after the container was started or before.
StartStart(s) ==
    LET started == [docker EXCEPT !.state = "running"]
    IN  /\ pc[s] = "start_start"
        /\ \/ /\ Found(loc[s].ref) /\ docker.state = "created"
              /\ docker' = started
              /\ Goto(s, AfterStart(loc[s].op))
              /\ mended' = loc[s].seen
              /\ UNCHANGED <<loc, faults>>
           \/ /\ Found(loc[s].ref)
              /\ docker' \in {docker, started}
              /\ Finish(s)
              /\ Fails
           \/ /\ ~Found(loc[s].ref)
              /\ Finish(s)
              /\ UNCHANGED docker
              /\ Succeeds
        /\ UNCHANGED <<row, minted>>

-----------------------------------------------------------------------------
ContainerStep(s) ==
    \/ StopInspect(s) \/ StopStop(s) \/ StopRemove(s) \/ StopRevoke(s)
    \/ StartResolve(s) \/ StartReadLlm(s) \/ StartInspect(s) \/ StartRemove(s)
    \/ StartIssue(s) \/ StartCreate(s) \/ StartStart(s)
=============================================================================
