---------------------- MODULE InstanceLifecycleInvariant ----------------------
(***************************************************************************)
(* The inductive invariant behind the theorems of InstanceLifecycleProofs: *)
(* what a handler's locals hold at each point, which tokens a row can      *)
(* record, and how far a handler that nothing disturbed can rely on what   *)
(* it read.                                                                *)
(***************************************************************************)
EXTENDS InstanceLifecycle

Preparing == {"start_llm", "start_inspect", "start_remove", "start_issue", "start_create"}
LlmRead   == {"start_inspect", "start_remove", "start_issue", "start_create"}
Started   == {"restart_running", "config_running", "webhook_running", "dispatch_update"}
Unstopped == {"config_llm", "dispatch_read", "dispatch_alive", "dispatch_label",
              "stop_inspect"}
Stopped   == {"stop_remove", "stop_revoke", "restart_creating", "start_resolve",
              "start_start"} \cup Preparing

\* A handler has an instance id before it labels a container with it, a
\* container before it records one, and no inspected label before it inspects.
LocalsKnown ==
    \A s \in Slots :
        /\ pc[s] \in Preparing => loc[s].iid # NoInstance
        /\ pc[s] \in Started \cup {"start_start"} => loc[s].ref # NoRef
        /\ pc[s] \in Unstopped => loc[s].label = NoInstance

\* The jti on record has been minted.
TokenMinted == LiveToken # NoToken => LiveToken <= minted.jti

\* The container serves the row's instance, LLM and token.
Matches ==
    /\ docker.iid = row.iid
    /\ docker.llm = row.llm
    /\ docker.tok \in {NoToken, row.jti}

\* No call of the handler in slot s has failed.
Unfailing(s) == loc[s].seen = faults

\* What holds at slot s while its handler has the system to itself.
Undisturbed(s) ==
    /\ \A t \in Slots \ {s} : pc[t] = "free"
    /\ pc[s] \in {"dispatch_alive", "dispatch_label"} => row # NoRow /\ row.cid = loc[s].ref
    /\ pc[s] = "dispatch_label" => Running /\ Found(loc[s].ref)
    /\ pc[s] \in Preparing => row # NoRow /\ loc[s].iid = row.iid
    /\ pc[s] = "start_create" => loc[s].tok = row.jti
    /\ pc[s] = "start_start" => row # NoRow /\ Found(loc[s].ref) /\ docker.state = "created"
    /\ pc[s] \in Started => row # NoRow /\ Found(loc[s].ref) /\ Running
    /\ pc[s] = "stop_stop" => Found(loc[s].ref)
    /\ Unfailing(s) =>
         /\ pc[s] \in LlmRead => loc[s].llm = row.llm
         /\ pc[s] = "start_start" => Matches
         /\ pc[s] \in Started /\ loc[s].label # NoInstance => Matches
         /\ pc[s] \in Stopped /\ loc[s].label # NoInstance => ~Running

SoloInv == \A s \in Slots : solo = s => Undisturbed(s)

\* What handlers and history saw of the failures is past.
FaultsPast == mended <= faults /\ \A s \in Slots : loc[s].seen <= faults

\* Tokens about to be given to a container are each for one, and new to it.
Awaiting(s) == pc[s] = "start_create"

TokensApart ==
    /\ \A s \in Slots : Awaiting(s) => loc[s].tok # NoToken /\ loc[s].tok <= minted.jti
    /\ \A s, t \in Slots : Awaiting(s) /\ Awaiting(t) /\ loc[s].tok = loc[t].tok => s = t
    /\ docker # NoContainer /\ docker.tok # NoToken =>
         /\ docker.tok <= minted.jti
         /\ \A s \in Slots : Awaiting(s) => loc[s].tok # docker.tok

\* The inductive invariant.
IInv == /\ TypeOK /\ LocalsKnown /\ RunningHasContainer
        /\ TokenMinted /\ TokensApart /\ FaultsPast /\ SoloInv
-----------------------------------------------------------------------------
(***************************************************************************)
(* The same for handlers that do not overlap, in a process that does not   *)
(* crash.  Containers may still die, and any call may still fail.          *)
(***************************************************************************)
Sequential ==
    /\ crashes = 0
    /\ \A s, t \in Slots : pc[s] # "free" /\ pc[t] # "free" => s = t

Reading  == {"config_llm", "dispatch_alive", "dispatch_label", "monitor_check", "stop_inspect"}
Intact   == Reading \cup {"free", "dispatch_read", "webhook_touch", "stop_stop"}
Down     == {"create_insert", "create_stopped", "create_key", "delete_row", "idle_null",
             "monitor_null"} \cup Stopped

\* The row names the container, whose instance and token are the row's.
Named ==
    /\ row # NoRow
    /\ row.status = "running"
    /\ Found(row.cid)
    /\ docker.iid = row.iid
    /\ docker.tok \in {NoToken, row.jti}

Backed == row # NoRow /\ docker = NoContainer => row.jti = NoToken

\* What holds at slot s while no other handler is in flight: whatever failed,
Kept(s) ==
    /\ pc[s] \in Reading => row # NoRow /\ row.cid = loc[s].ref
    /\ pc[s] \in {"dispatch_alive", "dispatch_label"} => loc[s].llm = row.llm
    /\ pc[s] = "stop_stop" => Found(loc[s].ref) /\ loc[s].label = docker.iid
    /\ pc[s] \in Preparing => RowIs(loc[s].iid)
    /\ pc[s] = "start_create" => loc[s].tok = row.jti
    /\ pc[s] = "start_start" => row # NoRow /\ docker # NoContainer /\ docker.id = loc[s].ref

\* if no call of its handler failed,
Trusted(s) ==
    /\ pc[s] \in LlmRead => loc[s].llm = row.llm
    /\ pc[s] = "start_start" => Matches

\* and if a handler started a container since any call failed.
Steady(s) ==
    /\ pc[s] \in Intact /\ Running => Named
    /\ pc[s] \in Down => ~Running
    /\ pc[s] \in Started /\ Running => row # NoRow /\ Found(loc[s].ref) /\ Matches
    /\ pc[s] \notin {"stop_revoke", "start_issue", "start_create"} => Backed
    /\ pc[s] = "stop_revoke" => Backed \/ RowIs(loc[s].label)
    /\ pc[s] = "stop_remove" => RowIs(loc[s].label)

Held(s) ==
    /\ Kept(s)
    /\ Unfailing(s) => Trusted(s)
    /\ ~Astray => Steady(s)

Lone(s) == \A t \in Slots \ {s} : pc[t] = "free"

SeqInv == \A s \in Slots : Lone(s) => Held(s)
=============================================================================
