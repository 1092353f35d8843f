---------------------------- MODULE SessionMailbox ----------------------------
(***************************************************************************)
(* SessionDbService: one user's two SQLite files, through which the        *)
(* orchestrator and the agent in the container exchange messages.  The     *)
(* orchestrator appends to messages_in and records in "delivered" what it  *)
(* handed on; the agent appends to messages_out.                           *)
(*                                                                         *)
(* MessageDispatchService.dispatch writes the message, starts waitForReply *)
(* and returns; the wait polls every 500 ms for up to five minutes.  One   *)
(* waiter exists per message, so waiters are named by their message.       *)
(* better-sqlite3 is synchronous: everything between two sleeps is one     *)
(* step, the write and the first poll included.                            *)
(***************************************************************************)
EXTENDS Naturals, FiniteSets, Sequences

CONSTANTS
    Messages,    \* messages dispatched to this user
    MaxReplies,  \* bound: rows the agent writes
    MaxFaults,   \* bound: SQLite and Slack calls that fail
    MaxCrashes   \* bound: crashes of the orchestrator process

ASSUME Bounds == MaxReplies \in Nat /\ MaxFaults \in Nat /\ MaxCrashes \in Nat

VARIABLES
    inbox,      \* messages_in: a sequence of [msg, seq]
    created,    \* whether outbound.db and its messages_out table exist
    outbox,     \* messages_out: a sequence of [to, text, due]
    delivered,  \* the rows of messages_out recorded in "delivered"
    waiter,     \* the state of waitForReply and of its continuation
    posted,     \* what was sent to the channel: [msg, reply]
    unmarked,   \* rows whose INSERT INTO delivered failed
    faults,     \* failures injected so far
    crashes     \* crashes so far

vars == <<inbox, created, outbox, delivered, waiter, posted, unmarked, faults, crashes>>

-----------------------------------------------------------------------------
\* A reply answers one message; its content has a non-blank text or not; its
\* deliver_after has passed or not.
Replies == [to: Messages, text: BOOLEAN, due: BOOLEAN]
Row == 1..Len(outbox)

\* deliveredIds (seen), whether timeoutMs have passed (late), the row returned
\* (0: none) and how much of the outbox predates the message (before, a
\* history variable).
Waiters == [state: {"none", "waiting", "posting", "ended"}, late: BOOLEAN,
            seen: SUBSET Nat, reply: Nat, before: Nat]

Fresh == [state |-> "waiting", late |-> FALSE, seen |-> {}, reply |-> 0,
          before |-> Len(outbox)]

TypeOK ==
    /\ inbox \in Seq([msg: Messages, seq: Nat])
    /\ created \in BOOLEAN
    /\ outbox \in Seq(Replies)
    /\ delivered \subseteq Row
    /\ waiter \in [Messages -> Waiters]
    /\ \A m \in Messages : waiter[m].seen \subseteq Row /\ waiter[m].reply \in 0..Len(outbox)
    /\ posted \subseteq [msg: Messages, reply: Row]
    /\ unmarked \subseteq Row
    /\ faults \in 0..MaxFaults
    /\ crashes \in 0..MaxCrashes

Init ==
    /\ inbox = <<>> /\ outbox = <<>>
    /\ created = FALSE
    /\ delivered = {} /\ posted = {} /\ unmarked = {}
    /\ waiter = [m \in Messages |-> [state |-> "none", late |-> FALSE, seen |-> {},
                                    reply |-> 0, before |-> 0]]
    /\ faults = 0 /\ crashes = 0

-----------------------------------------------------------------------------
MaxSeq == IF inbox = <<>> THEN 0 ELSE inbox[Len(inbox)].seq

\* Mutant: the next number.
NextSeqByOne == MaxSeq + 1

\* The next even number.
NextSeq == IF MaxSeq % 2 = 0 THEN MaxSeq + 2 ELSE MaxSeq + 1

\* SELECT ... WHERE deliver_after IS NULL OR deliver_after <= now.
Visible == IF created THEN {i \in Row : outbox[i].due} ELSE {}

\* The oldest of a set of rows: ORDER BY timestamp is the order of insertion.
Oldest(rows) == CHOOSE r \in rows : \A q \in rows : r <= q

Fault == faults < MaxFaults /\ faults' = faults + 1

\* Mutant: the row after the one returned is recorded.
MarkDeliveredNext(r) ==
    \/ delivered' = delivered \cup {r + 1} /\ UNCHANGED <<unmarked, faults>>
    \/ Fault /\ unmarked' = unmarked \cup {r + 1} /\ UNCHANGED delivered

\* markDelivered: a failure is logged and the reply returned all the same.
MarkDelivered(r) ==
    \/ delivered' = delivered \cup {r} /\ UNCHANGED <<unmarked, faults>>
    \/ Fault /\ unmarked' = unmarked \cup {r} /\ UNCHANGED delivered

\* Mutant: a row without text is returned like any other.
PollAnyRow(m, w) ==
    LET fresh == Visible \ w.seen
    IN  IF fresh # {}
        THEN /\ waiter' = [waiter EXCEPT ![m] =
                   [w EXCEPT !.state = "posting", !.reply = Oldest(fresh)]]
             /\ MarkDelivered(Oldest(fresh))
        ELSE /\ waiter' = [waiter EXCEPT ![m] = w]
             /\ UNCHANGED <<delivered, unmarked, faults>>

\* Mutant: rows that are not due yet are skipped, but remembered as seen.
PollSeesDeferred(m, w) ==
    LET texts == {i \in Visible \ w.seen : outbox[i].text}
    IN  IF texts # {}
        THEN /\ waiter' = [waiter EXCEPT ![m] =
                   [w EXCEPT !.state = "posting", !.reply = Oldest(texts)]]
             /\ MarkDelivered(Oldest(texts))
        ELSE /\ waiter' = [waiter EXCEPT ![m] = [w EXCEPT !.seen = Row]]
             /\ UNCHANGED <<delivered, unmarked, faults>>

\* Mutant: the row is returned without being recorded.
PollUnrecorded(m, w) ==
    LET texts == {i \in Visible \ w.seen : outbox[i].text}
    IN  /\ waiter' = [waiter EXCEPT ![m] =
              IF texts # {} THEN [w EXCEPT !.state = "posting", !.reply = Oldest(texts)]
              ELSE [w EXCEPT !.seen = @ \cup Visible]]
        /\ UNCHANGED <<delivered, unmarked, faults>>

\* One pass over the visible rows by waiter w of message m: the first row not
\* yet seen that has a text is recorded and returned.
PollRows(m, w) ==
    LET texts == {i \in Visible \ w.seen : outbox[i].text}
    IN  IF texts # {}
        THEN /\ waiter' = [waiter EXCEPT ![m] =
                   [w EXCEPT !.state = "posting", !.reply = Oldest(texts)]]
             /\ MarkDelivered(Oldest(texts))
        ELSE /\ waiter' = [waiter EXCEPT ![m] = [w EXCEPT !.seen = @ \cup Visible]]
             /\ UNCHANGED <<delivered, unmarked, faults>>

\* An error of the query is logged and the loop goes on, which changes nothing;
\* openOutbound is called outside the try, so that its error ends the wait.
PollOnce(m, w) ==
    \/ PollRows(m, w)
    \/ /\ Fault
       /\ waiter' = [waiter EXCEPT ![m] = [w EXCEPT !.state = "ended"]]
       /\ UNCHANGED <<delivered, unmarked>>

\* dispatch, once the container runs: writeInbound and the first poll of
\* waitForReply.  The insert may fail; dispatch then rejects.
WriteInbound(m) ==
    /\ waiter[m].state = "none"
    /\ \/ /\ inbox' = Append(inbox, [msg |-> m, seq |-> NextSeq])
          /\ PollOnce(m, Fresh)
       \/ /\ Fault
          /\ waiter' = [waiter EXCEPT ![m].state = "ended"]
          /\ UNCHANGED <<inbox, delivered, unmarked>>
    /\ UNCHANGED <<created, outbox, posted, crashes>>

\* The poll after a sleep.
Poll(m) ==
    /\ waiter[m].state = "waiting" /\ ~waiter[m].late
    /\ PollOnce(m, waiter[m])
    /\ UNCHANGED <<inbox, created, outbox, posted, crashes>>

\* Mutant: a missing outbound.db is waited for without looking at the clock.
TimeOutOnceCreated(m) ==
    /\ waiter[m].state = "waiting" /\ waiter[m].late
    /\ created
    /\ waiter' = [waiter EXCEPT ![m].state = "ended"]
    /\ UNCHANGED <<inbox, created, outbox, delivered, posted, unmarked, faults, crashes>>

\* The loop condition fails after a sleep, and null is returned.
TimeOut(m) ==
    /\ waiter[m].state = "waiting" /\ waiter[m].late
    /\ waiter' = [waiter EXCEPT ![m].state = "ended"]
    /\ UNCHANGED <<inbox, created, outbox, delivered, posted, unmarked, faults, crashes>>

\* onReply: chat.postMessage.  Its failure is logged and the reply is lost.
Post(m) ==
    /\ waiter[m].state = "posting"
    /\ waiter' = [waiter EXCEPT ![m].state = "ended"]
    /\ \/ posted' = posted \cup {[msg |-> m, reply |-> waiter[m].reply]} /\ UNCHANGED faults
       \/ Fault /\ UNCHANGED posted
    /\ UNCHANGED <<inbox, created, outbox, delivered, unmarked, crashes>>

\* Date.now() reaches the start of the wait plus timeoutMs.
DeadlinePasses(m) ==
    /\ waiter[m].state = "waiting" /\ ~waiter[m].late
    /\ waiter' = [waiter EXCEPT ![m].late = TRUE]
    /\ UNCHANGED <<inbox, created, outbox, delivered, posted, unmarked, faults, crashes>>

\* The process dies: nobody waits any more, the files stay.
OrchestratorCrashes ==
    /\ crashes < MaxCrashes
    /\ \E m \in Messages : waiter[m].state \in {"waiting", "posting"}
    /\ crashes' = crashes + 1
    /\ waiter' = [m \in Messages |->
                    IF waiter[m].state = "none" THEN waiter[m]
                    ELSE [waiter[m] EXCEPT !.state = "ended"]]
    /\ UNCHANGED <<inbox, created, outbox, delivered, posted, unmarked, faults>>

-----------------------------------------------------------------------------
(* The agent: packages/engine, not part of the repository                  *)

\* The container's first start creates outbound.db and the table.
AgentStarts ==
    /\ ~created
    /\ created' = TRUE
    /\ UNCHANGED <<inbox, outbox, delivered, waiter, posted, unmarked, faults, crashes>>

\* The agent answers any message it was given, more than once if it likes.
AgentReplies ==
    /\ created
    /\ Len(outbox) < MaxReplies
    /\ \E i \in 1..Len(inbox), text, due \in BOOLEAN :
         outbox' = Append(outbox, [to |-> inbox[i].msg, text |-> text, due |-> due])
    /\ UNCHANGED <<inbox, created, delivered, waiter, posted, unmarked, faults, crashes>>

\* The deliver_after of a row passes.
BecomesDue ==
    /\ \E r \in Row : ~outbox[r].due /\ outbox' = [outbox EXCEPT ![r].due = TRUE]
    /\ UNCHANGED <<inbox, created, delivered, waiter, posted, unmarked, faults, crashes>>

-----------------------------------------------------------------------------
Waits(m) == Poll(m) \/ TimeOut(m) \/ Post(m)

Next ==
    \/ \E m \in Messages : WriteInbound(m) \/ Waits(m) \/ DeadlinePasses(m)
    \/ OrchestratorCrashes
    \/ AgentStarts \/ AgentReplies \/ BecomesDue

Spec == Init /\ [][Next]_vars

\* Timers fire and the clock advances, whatever the agent does.
FairSpec == Spec /\ \A m \in Messages : WF_vars(Waits(m)) /\ WF_vars(DeadlinePasses(m))

-----------------------------------------------------------------------------
\* messages_in is numbered with strictly increasing even numbers, so the
\* agent, which reads by seq, sees messages in the order of their dispatch.
SeqsIncrease ==
    \A i \in 1..Len(inbox) :
        /\ inbox[i].seq % 2 = 0
        /\ \A j \in 1..(i - 1) : inbox[j].seq < inbox[i].seq

\* While no text row is older than a message, its waiter returns a reply the
\* agent wrote after it was given the message.
FreshUnlessBacklog ==
    \A m \in Messages :
        LET w == waiter[m]
        IN  w.reply # 0 /\ (\A r \in 1..w.before : ~outbox[r].text) => w.reply > w.before

\* Nothing reaches the channel that was not recorded in "delivered" first,
\* unless recording it failed, even if the process dies in between.
RecordedBeforePosted ==
    \A p \in posted : p.reply \in delivered \cup unmarked

\* A waiter never passes over a text row for good: what it leaves behind when
\* it times out became due after its last poll.
NoTextPassedOver ==
    \A m \in Messages :
        waiter[m].state = "waiting" => \A r \in waiter[m].seen : ~outbox[r].text

\* Every wait ends, even if the container never creates outbound.db.
WaitsEnd ==
    \A m \in Messages :
        waiter[m].state \in {"waiting", "posting"} ~> waiter[m].state = "ended"

-----------------------------------------------------------------------------
(* What the repository says and the code does not do                       *)

\* docs/architecture.md, message flow: the user's message goes to the agent,
\* the agent writes its answer, the orchestrator sends that answer to Slack.
AnswersItsMessage ==
    \A p \in posted : outbox[p.reply].to = p.msg
=============================================================================
