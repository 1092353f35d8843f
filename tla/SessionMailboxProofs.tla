------------------------- MODULE SessionMailboxProofs -------------------------
(***************************************************************************)
(* What the mailbox keeps for any number of messages, rows, failures and   *)
(* crashes (SessionMailbox): the order of messages_in, and that a reply    *)
(* has a text, was recorded before it was posted, and was not passed over. *)
(*                                                                         *)
(* Each waiter is judged on its own against the rows of messages_out and   *)
(* those recorded (Good); that both only grow is all it needs of others.   *)
(***************************************************************************)
EXTENDS SessionMailbox, SequenceTheorems, WellFoundedInduction, TLAPS

\* A waiter v, given the rows of messages_out and those recorded: it returns
\* only recorded rows with a text, and has seen none without returning it.
Good(v, box, recorded) ==
    /\ v \in Waiters
    /\ v.seen \subseteq 1..Len(box)
    /\ v.reply # 0 => v.reply \in 1..Len(box) /\ box[v.reply].text
    /\ v.state = "posting" => v.reply \in recorded /\ v.reply # 0
    /\ v.state = "waiting" => \A r \in v.seen : ~box[r].text

WaitersGood == \A m \in Messages : Good(waiter[m], outbox, delivered \cup unmarked)

\* TypeOK without what it says of the waiters.
RestTyped ==
    /\ inbox \in Seq([msg: Messages, seq: Nat])
    /\ created \in BOOLEAN
    /\ outbox \in Seq(Replies)
    /\ delivered \subseteq Row
    /\ posted \subseteq [msg: Messages, reply: Row]
    /\ unmarked \subseteq Row
    /\ faults \in 0..MaxFaults
    /\ crashes \in 0..MaxCrashes

WaitersTyped == waiter \in [Messages -> Waiters]

MailboxInv ==
    RestTyped /\ WaitersTyped /\ WaitersGood /\ SeqsIncrease /\ RecordedBeforePosted

-----------------------------------------------------------------------------
(* The oldest of a set of rows                                             *)

Less == OpToRel(<, Nat)

LEMMA LessWellFounded == IsWellFoundedOn(Less, Nat)
BY NatLessThanWellFounded, Zenon DEF Less

LEMMA InLess ==
    ASSUME NEW x \in Nat, NEW y \in Nat, x < y
    PROVE  <<x, y>> \in Less
BY Zenon DEF Less, OpToRel

\* CHOOSE finds the least of a nonempty set of numbers.
LEMMA OldestIsOne ==
    ASSUME NEW S \in SUBSET Nat, S # {}
    PROVE  Oldest(S) \in S
<1>1. PICK x \in S : \A y \in S : <<y, x>> \notin Less
  BY LessWellFounded, WFMin, Zenon
<1>2. \A y \in S : ~(y < x)
  BY <1>1, InLess
<1>3. \A y \in S : x <= y
  BY <1>2
<1>4. \E r \in S : \A q \in S : r <= q
  BY <1>3
<1> QED BY <1>4, Zenon DEF Oldest

-----------------------------------------------------------------------------
(* What the steps make of a waiter                                         *)

LEMMA GoodKept ==
    ASSUME NEW v, NEW box \in Seq(Replies), NEW recorded, Good(v, box, recorded),
           NEW box2 \in Seq(Replies), NEW recorded2, recorded \subseteq recorded2,
           Len(box) <= Len(box2), \A r \in 1..Len(box) : box2[r].text = box[r].text
    PROVE  Good(v, box2, recorded2)
<1>1. 1..Len(box) \subseteq 1..Len(box2)
  OBVIOUS
<1> QED BY <1>1, Zenon DEF Good

LEMMA GoodEnded ==
    ASSUME NEW v, NEW box, NEW recorded, Good(v, box, recorded)
    PROVE  Good([v EXCEPT !.state = "ended"], box, recorded)
<1> DEFINE w == [v EXCEPT !.state = "ended"]
<1>1. v \in Waiters
  BY DEF Good
<1>2. w \in Waiters /\ w.seen = v.seen /\ w.reply = v.reply /\ w.state = "ended"
  BY <1>1 DEF Waiters
<1> HIDE DEF w
<1>3. Good(w, box, recorded)
  BY <1>2, Zenon DEF Good
<1> QED BY <1>3 DEF w

LEMMA GoodLate ==
    ASSUME NEW v, NEW box, NEW recorded, Good(v, box, recorded)
    PROVE  Good([v EXCEPT !.late = TRUE], box, recorded)
<1> DEFINE w == [v EXCEPT !.late = TRUE]
<1>1. v \in Waiters
  BY DEF Good
<1>2. w \in Waiters /\ w.seen = v.seen /\ w.reply = v.reply /\ w.state = v.state
  BY <1>1 DEF Waiters
<1> HIDE DEF w
<1>3. Good(w, box, recorded)
  BY <1>2, Zenon DEF Good
<1> QED BY <1>3 DEF w

LEMMA GoodPosting ==
    ASSUME NEW v, NEW box \in Seq(Replies), NEW recorded, Good(v, box, recorded),
           NEW r \in 1..Len(box), box[r].text, r \in recorded
    PROVE  Good([v EXCEPT !.state = "posting", !.reply = r], box, recorded)
<1> DEFINE w == [v EXCEPT !.state = "posting", !.reply = r]
<1>1. v \in Waiters /\ v.seen \subseteq 1..Len(box)
  BY DEF Good
<1>2. r \in Nat /\ r # 0
  OBVIOUS
<1>3. w \in Waiters /\ w.seen = v.seen /\ w.reply = r /\ w.state = "posting"
  BY <1>1, <1>2 DEF Waiters
<1>4. "posting" # "waiting"
  OBVIOUS
<1> HIDE DEF w
<1>5. Good(w, box, recorded)
  BY <1>1, <1>2, <1>3, <1>4, Zenon DEF Good
<1> QED BY <1>5 DEF w

LEMMA GoodSeen ==
    ASSUME NEW v, NEW box \in Seq(Replies), NEW recorded, Good(v, box, recorded),
           v.state = "waiting",
           NEW S \in SUBSET (1..Len(box)), \A r \in S \ v.seen : ~box[r].text
    PROVE  Good([v EXCEPT !.seen = @ \cup S], box, recorded)
<1> DEFINE w == [v EXCEPT !.seen = @ \cup S]
<1>1. v \in Waiters /\ v.seen \subseteq 1..Len(box) /\ S \subseteq Nat
  BY DEF Good
<1>2. /\ w \in Waiters /\ w.seen = v.seen \cup S
      /\ w.reply = v.reply /\ w.state = v.state
  BY <1>1 DEF Waiters
<1> HIDE DEF w
<1>3. Good(w, box, recorded)
  BY <1>1, <1>2, Zenon DEF Good
<1> QED BY <1>3 DEF w

LEMMA GoodFresh ==
    ASSUME RestTyped, NEW recorded
    PROVE  Good(Fresh, outbox, recorded) /\ Fresh.state = "waiting"
<1>1. Len(outbox) \in Nat
  BY DEF RestTyped
<1>2. /\ Fresh \in Waiters /\ Fresh.seen = {} /\ Fresh.reply = 0
      /\ Fresh.state = "waiting"
  BY <1>1 DEF Fresh, Waiters
<1>3. "waiting" # "posting"
  OBVIOUS
<1> QED BY <1>2, <1>3, Zenon DEF Good

-----------------------------------------------------------------------------
(* What a poll does                                                        *)

\* The outcome of a poll: rows recorded, one waiter changed to a good one.
LEMMA PollGood ==
    ASSUME RestTyped, WaitersTyped, NEW m \in Messages, NEW w,
           Good(w, outbox, delivered \cup unmarked), w.state = "waiting",
           PollOnce(m, w)
    PROVE  /\ delivered \subseteq delivered' /\ delivered' \subseteq Row
           /\ unmarked \subseteq unmarked' /\ unmarked' \subseteq Row
           /\ faults' \in 0..MaxFaults
           /\ \E v : /\ Good(v, outbox, delivered' \cup unmarked')
                     /\ waiter' = [waiter EXCEPT ![m] = v]
<1>0. /\ delivered \subseteq Row /\ unmarked \subseteq Row /\ faults \in 0..MaxFaults
      /\ outbox \in Seq(Replies) /\ Row \subseteq Nat /\ Row = 1..Len(outbox)
  BY DEF RestTyped, Row
<1>1. CASE PollRows(m, w)
  <2> DEFINE texts == {i \in Visible \ w.seen : outbox[i].text}
  <2>1. Visible \subseteq Row /\ texts \subseteq Row
    BY DEF Visible
  <2>2. CASE texts # {}
    <3> DEFINE r == Oldest(texts)
    <3>1. r \in texts
      BY <2>1, <2>2, <1>0, OldestIsOne
    <3>2. r \in Row /\ outbox[r].text
      BY <2>1, <3>1
    <3>3. waiter' = [waiter EXCEPT ![m] = [w EXCEPT !.state = "posting", !.reply = r]]
      BY <1>1, <2>2, Zenon DEF PollRows
    <3>4. MarkDelivered(r)
      BY <1>1, <2>2, Zenon DEF PollRows
    <3> HIDE DEF r
    <3>5. /\ \/ delivered' = delivered \cup {r} /\ unmarked' = unmarked
             \/ unmarked' = unmarked \cup {r} /\ delivered' = delivered
          /\ faults' \in 0..MaxFaults
      BY <3>4, <1>0, Bounds DEF MarkDelivered, Fault
    <3>6. /\ delivered \subseteq delivered' /\ delivered' \subseteq Row
          /\ unmarked \subseteq unmarked' /\ unmarked' \subseteq Row
          /\ r \in delivered' \cup unmarked'
      BY <3>2, <3>5, <1>0
    <3>7. Good(w, outbox, delivered' \cup unmarked')
      <4>1. /\ delivered \cup unmarked \subseteq delivered' \cup unmarked'
            /\ Len(outbox) <= Len(outbox)
        BY <1>0, <3>6
      <4> QED BY <1>0, <4>1, GoodKept
    <3>8. Good([w EXCEPT !.state = "posting", !.reply = r], outbox, delivered' \cup unmarked')
      BY <1>0, <3>2, <3>6, <3>7, GoodPosting
    <3> QED BY <3>3, <3>5, <3>6, <3>8
  <2>3. CASE texts = {}
    <3>1. /\ waiter' = [waiter EXCEPT ![m] = [w EXCEPT !.seen = @ \cup Visible]]
          /\ UNCHANGED <<delivered, unmarked, faults>>
      BY <1>1, <2>3, Zenon DEF PollRows
    <3>2. \A r \in Visible \ w.seen : ~outbox[r].text
      BY <2>3
    <3>3. Good([w EXCEPT !.seen = @ \cup Visible], outbox, delivered \cup unmarked)
      BY <1>0, <2>1, <3>2, GoodSeen
    <3> QED BY <1>0, <3>1, <3>3
  <2> QED BY <2>2, <2>3
<1>2. CASE /\ Fault
           /\ waiter' = [waiter EXCEPT ![m] = [w EXCEPT !.state = "ended"]]
           /\ UNCHANGED <<delivered, unmarked>>
  <2>1. faults' \in 0..MaxFaults
    BY <1>0, <1>2, Bounds DEF Fault
  <2>2. Good([w EXCEPT !.state = "ended"], outbox, delivered \cup unmarked)
    BY GoodEnded
  <2> QED BY <1>0, <1>2, <2>1, <2>2
<1> QED BY <1>1, <1>2 DEF PollOnce

-----------------------------------------------------------------------------
LEMMA MailboxInit == Init => MailboxInv
<1> SUFFICES ASSUME Init PROVE MailboxInv
  OBVIOUS
<1> DEFINE none == [state |-> "none", late |-> FALSE, seen |-> {}, reply |-> 0, before |-> 0]
<1>1. RestTyped
  <2>1. /\ inbox = <<>> /\ outbox = <<>> /\ delivered = {} /\ posted = {} /\ unmarked = {}
        /\ faults = 0 /\ crashes = 0
    BY DEF Init
  <2>2. created \in BOOLEAN
    BY Zenon DEF Init
  <2> QED BY <2>1, <2>2, Bounds DEF RestTyped
<1>2. /\ none \in Waiters /\ none.seen = {} /\ none.reply = 0
      /\ none.state # "posting" /\ none.state # "waiting"
  BY DEF Waiters
<1>3. waiter = [m \in Messages |-> none]
  BY Zenon DEF Init
<1> HIDE DEF none
<1>4. WaitersTyped
  BY <1>2, <1>3 DEF WaitersTyped
<1>5. Good(none, outbox, delivered \cup unmarked)
  BY <1>2, Zenon DEF Good
<1>6. WaitersGood
  BY <1>3, <1>5 DEF WaitersGood
<1>7. SeqsIncrease /\ RecordedBeforePosted
  BY DEF Init, SeqsIncrease, RecordedBeforePosted
<1> QED BY <1>1, <1>4, <1>6, <1>7 DEF MailboxInv

-----------------------------------------------------------------------------
\* The number a message is given is even and above all others.
LEMMA NextSeqIncreases ==
    ASSUME RestTyped, SeqsIncrease
    PROVE  /\ NextSeq \in Nat /\ NextSeq % 2 = 0
           /\ \A i \in 1..Len(inbox) : inbox[i].seq < NextSeq
<1>1. /\ inbox \in Seq([msg: Messages, seq: Nat]) /\ Len(inbox) \in Nat
      /\ \A i \in 1..Len(inbox) : inbox[i].seq \in Nat
  <2>1. inbox \in Seq([msg: Messages, seq: Nat])
    BY Zenon DEF RestTyped
  <2>2. Len(inbox) \in Nat /\ \A i \in 1..Len(inbox) : inbox[i] \in [msg: Messages, seq: Nat]
    BY <2>1, ElementOfSeq, LenProperties
  <2>3. \A e \in [msg: Messages, seq: Nat] : e.seq \in Nat
    OBVIOUS
  <2> QED BY <2>1, <2>2, <2>3, Zenon
<1>2. CASE inbox = <<>>
  BY <1>2 DEF NextSeq, MaxSeq
<1>3. CASE inbox # <<>>
  <2>1. Len(inbox) \in 1..Len(inbox)
    BY <1>1, <1>3
  <2>2. MaxSeq = inbox[Len(inbox)].seq /\ MaxSeq \in Nat /\ MaxSeq % 2 = 0
    BY <1>1, <1>3, <2>1 DEF MaxSeq, SeqsIncrease
  <2>3. NextSeq = MaxSeq + 2
    BY <2>2 DEF NextSeq
  <2>4. \A i \in 1..Len(inbox) : inbox[i].seq <= MaxSeq
    BY <1>1, <2>1, <2>2 DEF SeqsIncrease
  <2> QED BY <1>1, <2>2, <2>3, <2>4
<1> QED BY <1>2, <1>3

LEMMA AppendIncreases ==
    ASSUME RestTyped, SeqsIncrease, NEW m \in Messages,
           inbox' = Append(inbox, [msg |-> m, seq |-> NextSeq])
    PROVE  inbox' \in Seq([msg: Messages, seq: Nat]) /\ SeqsIncrease'
<1> DEFINE e == [msg |-> m, seq |-> NextSeq]
<1>1. NextSeq \in Nat /\ NextSeq % 2 = 0 /\ \A i \in 1..Len(inbox) : inbox[i].seq < NextSeq
  BY NextSeqIncreases
<1>2. e \in [msg: Messages, seq: Nat] /\ e.seq = NextSeq
  BY <1>1
<1>3. inbox \in Seq([msg: Messages, seq: Nat]) /\ inbox' = Append(inbox, e)
  BY DEF RestTyped
<1> HIDE DEF e
<1>4. /\ inbox' \in Seq([msg: Messages, seq: Nat])
      /\ Len(inbox') = Len(inbox) + 1 /\ Len(inbox) \in Nat
      /\ \A i \in 1..Len(inbox) : inbox'[i] = inbox[i]
      /\ inbox'[Len(inbox) + 1] = e
  BY <1>2, <1>3, AppendProperties, LenProperties
<1>5. \A i \in 1..Len(inbox') :
         /\ inbox'[i].seq % 2 = 0
         /\ \A j \in 1..(i - 1) : inbox'[j].seq < inbox'[i].seq
  <2> SUFFICES ASSUME NEW i \in 1..Len(inbox')
               PROVE  /\ inbox'[i].seq % 2 = 0
                      /\ \A j \in 1..(i - 1) : inbox'[j].seq < inbox'[i].seq
    OBVIOUS
  <2>1. CASE i = Len(inbox) + 1
    <3>1. inbox'[i].seq = NextSeq
      BY <1>2, <1>4, <2>1
    <3>2. \A j \in 1..(i - 1) : j \in 1..Len(inbox)
      BY <1>4, <2>1
    <3>3. \A j \in 1..(i - 1) : inbox'[j] = inbox[j] /\ inbox[j].seq < NextSeq
      BY <1>1, <1>4, <3>2
    <3> QED BY <1>1, <3>1, <3>3
  <2>2. CASE i \in 1..Len(inbox)
    BY <1>4, <2>2 DEF SeqsIncrease
  <2> QED BY <1>4, <2>1, <2>2
<1> QED BY <1>4, <1>5 DEF SeqsIncrease

-----------------------------------------------------------------------------
\* Good waiters stay good when one is replaced and what is recorded grows.
LEMMA OneWaiter ==
    ASSUME RestTyped, WaitersTyped, WaitersGood, NEW m \in Messages, NEW v,
           waiter' = [waiter EXCEPT ![m] = v], UNCHANGED outbox,
           delivered \subseteq delivered', unmarked \subseteq unmarked',
           Good(v, outbox, delivered' \cup unmarked')
    PROVE  WaitersTyped' /\ WaitersGood'
<1>1. v \in Waiters
  BY DEF Good
<1>2. WaitersTyped'
  BY <1>1 DEF WaitersTyped
<1>3. outbox \in Seq(Replies) /\ Len(outbox) \in Nat
  BY DEF RestTyped
<1>4. ASSUME NEW n \in Messages PROVE Good(waiter'[n], outbox, delivered' \cup unmarked')
  <2>1. CASE n = m
    BY <2>1 DEF WaitersTyped
  <2>2. CASE n # m
    <3>1. waiter'[n] = waiter[n]
      BY <2>2 DEF WaitersTyped
    <3>2. Good(waiter[n], outbox, delivered' \cup unmarked')
      BY <1>3, GoodKept DEF WaitersGood
    <3> QED BY <3>1, <3>2
  <2> QED BY <2>1, <2>2
<1>5. outbox' = outbox
  OBVIOUS
<1>6. WaitersGood'
  BY <1>4, <1>5 DEF WaitersGood
<1> QED BY <1>2, <1>6

-----------------------------------------------------------------------------
(* Three kinds of step                                                     *)

\* A poll, whatever the caller does to messages_in.
LEMMA PollKeeps ==
    ASSUME MailboxInv, NEW m \in Messages, NEW w,
           Good(w, outbox, delivered \cup unmarked), w.state = "waiting",
           PollOnce(m, w), UNCHANGED <<created, outbox, posted, crashes>>,
           inbox' \in Seq([msg: Messages, seq: Nat]), SeqsIncrease'
    PROVE  MailboxInv'
<1>1. RestTyped /\ WaitersTyped /\ WaitersGood /\ RecordedBeforePosted
  BY Zenon DEF MailboxInv
<1>2. /\ delivered \subseteq delivered' /\ delivered' \subseteq Row
      /\ unmarked \subseteq unmarked' /\ unmarked' \subseteq Row
      /\ faults' \in 0..MaxFaults
      /\ \E v : /\ Good(v, outbox, delivered' \cup unmarked')
                /\ waiter' = [waiter EXCEPT ![m] = v]
  BY <1>1, PollGood, Zenon
<1>3. WaitersTyped' /\ WaitersGood'
  BY <1>1, <1>2, OneWaiter, Zenon
<1>4. Row' = Row
  BY DEF Row
<1>5. RestTyped'
  BY <1>1, <1>2, <1>4, Zenon DEF RestTyped
<1>6. RecordedBeforePosted'
  BY <1>1, <1>2, Zenon DEF RecordedBeforePosted
<1> QED BY <1>3, <1>5, <1>6, Zenon DEF MailboxInv

\* A step of one waiter that leaves the files alone.
LEMMA WaiterKeeps ==
    ASSUME MailboxInv, NEW m \in Messages, NEW v,
           waiter' = [waiter EXCEPT ![m] = v], Good(v, outbox, delivered \cup unmarked),
           UNCHANGED <<inbox, created, outbox, delivered, unmarked, crashes>>,
           faults' \in 0..MaxFaults, posted' \subseteq [msg: Messages, reply: Row],
           \A p \in posted' : p.reply \in delivered \cup unmarked
    PROVE  MailboxInv'
<1>1. RestTyped /\ WaitersTyped /\ WaitersGood /\ SeqsIncrease
  BY Zenon DEF MailboxInv
<1>2. WaitersTyped' /\ WaitersGood'
  BY <1>1, OneWaiter, Zenon
<1>3. Row' = Row
  BY DEF Row
<1>4. RestTyped'
  BY <1>1, <1>3, Zenon DEF RestTyped
<1>5. SeqsIncrease' /\ RecordedBeforePosted'
  BY <1>1, Zenon DEF SeqsIncrease, RecordedBeforePosted
<1> QED BY <1>1, <1>2, <1>4, <1>5, Zenon DEF MailboxInv

\* A step of the agent: messages_out grows, and no row changes its text.
LEMMA AgentKeeps ==
    ASSUME MailboxInv, created' \in BOOLEAN, outbox' \in Seq(Replies),
           Len(outbox) <= Len(outbox'),
           \A r \in 1..Len(outbox) : outbox'[r].text = outbox[r].text,
           UNCHANGED <<inbox, delivered, waiter, posted, unmarked, faults, crashes>>
    PROVE  MailboxInv'
<1>1. RestTyped /\ WaitersTyped /\ WaitersGood /\ SeqsIncrease /\ RecordedBeforePosted
  BY Zenon DEF MailboxInv
<1>2. outbox \in Seq(Replies)
  BY <1>1, Zenon DEF RestTyped
<1>3. Row \subseteq Row'
  BY <1>2 DEF Row
<1>4. RestTyped'
  <2>1. posted \subseteq [msg: Messages, reply: Row']
    BY <1>1, <1>3 DEF RestTyped
  <2> QED BY <1>1, <1>3, <2>1, Zenon DEF RestTyped
<1>5. ASSUME NEW n \in Messages PROVE Good(waiter[n], outbox', delivered \cup unmarked)
  <2>1. Good(waiter[n], outbox, delivered \cup unmarked)
    BY <1>1 DEF WaitersGood
  <2> QED BY <1>2, <2>1, GoodKept
<1>6. WaitersTyped' /\ WaitersGood'
  BY <1>1, <1>5, Zenon DEF WaitersTyped, WaitersGood
<1>7. SeqsIncrease' /\ RecordedBeforePosted'
  BY <1>1, Zenon DEF SeqsIncrease, RecordedBeforePosted
<1> QED BY <1>4, <1>6, <1>7, Zenon DEF MailboxInv

-----------------------------------------------------------------------------
(* One lemma per action                                                    *)

\* What the lemmas below need of the invariant.
LEMMA Parts ==
    ASSUME MailboxInv
    PROVE  /\ RestTyped /\ WaitersTyped /\ WaitersGood /\ SeqsIncrease
           /\ RecordedBeforePosted
           /\ \A m \in Messages : Good(waiter[m], outbox, delivered \cup unmarked)
           /\ outbox \in Seq(Replies) /\ faults \in 0..MaxFaults
           /\ inbox \in Seq([msg: Messages, seq: Nat])
           /\ created \in BOOLEAN
           /\ posted \subseteq [msg: Messages, reply: Row]
           /\ \A p \in posted : p.reply \in delivered \cup unmarked
BY Zenon DEF MailboxInv, RestTyped, WaitersGood, RecordedBeforePosted

LEMMA FaultCounted == ASSUME faults \in 0..MaxFaults, Fault PROVE faults' \in 0..MaxFaults
BY Bounds DEF Fault

LEMMA WriteInboundKeeps ==
    ASSUME MailboxInv, NEW m \in Messages, WriteInbound(m)
    PROVE  MailboxInv'
<1>1. CASE /\ inbox' = Append(inbox, [msg |-> m, seq |-> NextSeq])
           /\ PollOnce(m, Fresh)
  <2>1. UNCHANGED <<created, outbox, posted, crashes>>
    BY DEF WriteInbound
  <2>2. Good(Fresh, outbox, delivered \cup unmarked) /\ Fresh.state = "waiting"
    BY Parts, GoodFresh, Zenon
  <2>3. inbox' \in Seq([msg: Messages, seq: Nat]) /\ SeqsIncrease'
    BY <1>1, Parts, AppendIncreases, Zenon
  <2> QED BY <1>1, <2>1, <2>2, <2>3, PollKeeps
<1>2. CASE /\ Fault
           /\ waiter' = [waiter EXCEPT ![m].state = "ended"]
           /\ UNCHANGED <<inbox, delivered, unmarked>>
  <2>1. UNCHANGED <<created, outbox, posted, crashes>>
    BY DEF WriteInbound
  <2>2. Good([waiter[m] EXCEPT !.state = "ended"], outbox, delivered \cup unmarked)
    BY Parts, GoodEnded
  <2>3. waiter' = [waiter EXCEPT ![m] = [waiter[m] EXCEPT !.state = "ended"]]
    BY <1>2
  <2>4. faults' \in 0..MaxFaults
    BY <1>2, Parts, FaultCounted
  <2>5. /\ posted' \subseteq [msg: Messages, reply: Row]
        /\ \A p \in posted' : p.reply \in delivered \cup unmarked
    BY <2>1, Parts, Zenon
  <2> QED BY <1>2, <2>1, <2>2, <2>3, <2>4, <2>5, WaiterKeeps
<1> QED BY <1>1, <1>2, Zenon DEF WriteInbound

LEMMA PollActionKeeps == ASSUME MailboxInv, NEW m \in Messages, Poll(m) PROVE MailboxInv'
<1>1. /\ waiter[m].state = "waiting" /\ PollOnce(m, waiter[m])
      /\ UNCHANGED <<inbox, created, outbox, posted, crashes>>
  BY Zenon DEF Poll
<1>2. Good(waiter[m], outbox, delivered \cup unmarked)
  BY Parts
<1>3. inbox' \in Seq([msg: Messages, seq: Nat]) /\ SeqsIncrease'
  BY <1>1, Parts, Zenon DEF SeqsIncrease
<1> QED BY <1>1, <1>2, <1>3, PollKeeps

LEMMA TimeOutKeeps == ASSUME MailboxInv, NEW m \in Messages, TimeOut(m) PROVE MailboxInv'
<1>1. /\ waiter' = [waiter EXCEPT ![m] = [waiter[m] EXCEPT !.state = "ended"]]
      /\ UNCHANGED <<inbox, created, outbox, delivered, posted, unmarked, faults, crashes>>
  BY DEF TimeOut
<1>2. Good([waiter[m] EXCEPT !.state = "ended"], outbox, delivered \cup unmarked)
  BY Parts, GoodEnded
<1>3. /\ faults' \in 0..MaxFaults /\ posted' \subseteq [msg: Messages, reply: Row]
      /\ \A p \in posted' : p.reply \in delivered \cup unmarked
  BY <1>1, Parts, Zenon
<1> QED BY <1>1, <1>2, <1>3, WaiterKeeps

LEMMA DeadlinePassesKeeps ==
    ASSUME MailboxInv, NEW m \in Messages, DeadlinePasses(m)
    PROVE  MailboxInv'
<1>1. /\ waiter' = [waiter EXCEPT ![m] = [waiter[m] EXCEPT !.late = TRUE]]
      /\ UNCHANGED <<inbox, created, outbox, delivered, posted, unmarked, faults, crashes>>
  BY DEF DeadlinePasses
<1>2. Good([waiter[m] EXCEPT !.late = TRUE], outbox, delivered \cup unmarked)
  BY Parts, GoodLate
<1>3. /\ faults' \in 0..MaxFaults /\ posted' \subseteq [msg: Messages, reply: Row]
      /\ \A p \in posted' : p.reply \in delivered \cup unmarked
  BY <1>1, Parts, Zenon
<1> QED BY <1>1, <1>2, <1>3, WaiterKeeps

\* What is posted is the row the waiter returned, which is a recorded one.
LEMMA PostKeeps == ASSUME MailboxInv, NEW m \in Messages, Post(m) PROVE MailboxInv'
<1>1. /\ waiter' = [waiter EXCEPT ![m] = [waiter[m] EXCEPT !.state = "ended"]]
      /\ UNCHANGED <<inbox, created, outbox, delivered, unmarked, crashes>>
  BY DEF Post
<1>2. Good([waiter[m] EXCEPT !.state = "ended"], outbox, delivered \cup unmarked)
  BY Parts, GoodEnded
<1>3. faults' \in 0..MaxFaults
  BY Parts, FaultCounted DEF Post
<1>4. waiter[m].reply \in Row /\ waiter[m].reply \in delivered \cup unmarked
  <2>1. waiter[m].state = "posting" /\ Good(waiter[m], outbox, delivered \cup unmarked)
    BY Parts, Zenon DEF Post
  <2> QED BY <2>1, Zenon DEF Good, Row
<1> DEFINE e == [msg |-> m, reply |-> waiter[m].reply]
<1>5. e \in [msg: Messages, reply: Row] /\ e.reply \in delivered \cup unmarked
  BY <1>4
<1>6. posted' \subseteq posted \cup {e}
  BY DEF Post
<1> HIDE DEF e
<1>7. /\ posted' \subseteq [msg: Messages, reply: Row]
      /\ \A p \in posted' : p.reply \in delivered \cup unmarked
  BY <1>5, <1>6, Parts
<1> QED BY <1>1, <1>2, <1>3, <1>7, WaiterKeeps

LEMMA CrashKeeps == ASSUME MailboxInv, OrchestratorCrashes PROVE MailboxInv'
<1> DEFINE then(m) == IF waiter[m].state = "none" THEN waiter[m]
                      ELSE [waiter[m] EXCEPT !.state = "ended"]
<1>1. /\ waiter' = [m \in Messages |-> then(m)]
      /\ UNCHANGED <<inbox, created, outbox, delivered, posted, unmarked, faults>>
  BY DEF OrchestratorCrashes
<1>2. crashes' \in 0..MaxCrashes
  <2>1. crashes \in 0..MaxCrashes /\ crashes < MaxCrashes /\ crashes' = crashes + 1
    BY Zenon DEF MailboxInv, RestTyped, OrchestratorCrashes
  <2> QED BY <2>1, Bounds
<1>3. ASSUME NEW m \in Messages PROVE Good(then(m), outbox, delivered \cup unmarked)
  <2>1. Good(waiter[m], outbox, delivered \cup unmarked)
    BY Parts
  <2>2. Good([waiter[m] EXCEPT !.state = "ended"], outbox, delivered \cup unmarked)
    BY <2>1, GoodEnded
  <2> QED BY <2>1, <2>2
<1> HIDE DEF then
<1>4. \A m \in Messages : then(m) \in Waiters
  BY <1>3, Zenon DEF Good
<1>5. WaitersTyped' /\ WaitersGood'
  BY <1>1, <1>3, <1>4 DEF WaitersTyped, WaitersGood
<1>6. Row' = Row
  BY <1>1 DEF Row
<1>7. RestTyped'
  BY <1>1, <1>2, <1>6, Parts, Zenon DEF RestTyped
<1>8. SeqsIncrease' /\ RecordedBeforePosted'
  BY <1>1, Parts, Zenon DEF SeqsIncrease, RecordedBeforePosted
<1> QED BY <1>5, <1>7, <1>8, Zenon DEF MailboxInv

LEMMA AgentStartsKeeps == ASSUME MailboxInv, AgentStarts PROVE MailboxInv'
<1>1. created' \in BOOLEAN /\ UNCHANGED outbox
  BY Zenon DEF AgentStarts
<1>2. UNCHANGED <<inbox, delivered, waiter, posted, unmarked, faults, crashes>>
  BY DEF AgentStarts
<1>3. outbox' \in Seq(Replies) /\ Len(outbox) <= Len(outbox')
  <2>1. outbox \in Seq(Replies)
    BY Parts
  <2> QED BY <1>1, <2>1, LenProperties
<1> QED BY <1>1, <1>2, <1>3, AgentKeeps

LEMMA AgentRepliesKeeps == ASSUME MailboxInv, AgentReplies PROVE MailboxInv'
<1>1. PICK i \in 1..Len(inbox), text \in BOOLEAN, due \in BOOLEAN :
         outbox' = Append(outbox, [to |-> inbox[i].msg, text |-> text, due |-> due])
  BY Zenon DEF AgentReplies
<1>2. UNCHANGED <<inbox, created, delivered, waiter, posted, unmarked, faults, crashes>>
  BY DEF AgentReplies
<1> DEFINE e == [to |-> inbox[i].msg, text |-> text, due |-> due]
<1>3. outbox \in Seq(Replies) /\ inbox \in Seq([msg: Messages, seq: Nat])
  BY Parts
<1>4. inbox[i].msg \in Messages
  <2>1. inbox[i] \in [msg: Messages, seq: Nat]
    BY <1>3, ElementOfSeq
  <2> QED BY <2>1
<1>5. e \in Replies
  BY <1>4, Zenon DEF Replies
<1> HIDE DEF e
<1>6. outbox' = Append(outbox, e)
  BY <1>1 DEF e
<1>7. /\ outbox' \in Seq(Replies) /\ Len(outbox') = Len(outbox) + 1 /\ Len(outbox) \in Nat
      /\ \A r \in 1..Len(outbox) : outbox'[r] = outbox[r]
  BY <1>3, <1>5, <1>6, AppendProperties, LenProperties
<1>8. Len(outbox) <= Len(outbox') /\ \A r \in 1..Len(outbox) : outbox'[r].text = outbox[r].text
  BY <1>7
<1>9. created' \in BOOLEAN
  BY <1>2, Parts, Zenon
<1> QED BY <1>2, <1>7, <1>8, <1>9, AgentKeeps

LEMMA BecomesDueKeeps == ASSUME MailboxInv, BecomesDue PROVE MailboxInv'
<1>1. PICK r \in Row : outbox' = [outbox EXCEPT ![r].due = TRUE]
  BY Zenon DEF BecomesDue
<1>2. UNCHANGED <<inbox, created, delivered, waiter, posted, unmarked, faults, crashes>>
  BY DEF BecomesDue
<1>3. outbox \in Seq(Replies) /\ r \in 1..Len(outbox)
  BY Parts DEF Row
<1> DEFINE e == [outbox[r] EXCEPT !.due = TRUE]
<1>4. outbox[r] \in Replies
  BY <1>3, ElementOfSeq
<1>5. e \in Replies /\ e.text = outbox[r].text
  BY <1>4, Zenon DEF Replies
<1>6. outbox' = [outbox EXCEPT ![r] = e]
  BY <1>1
<1> HIDE DEF e
<1>7. /\ outbox' \in Seq(Replies) /\ Len(outbox') = Len(outbox) /\ Len(outbox) \in Nat
      /\ \A q \in 1..Len(outbox) : outbox'[q] = IF q = r THEN e ELSE outbox[q]
  BY <1>3, <1>5, <1>6, ExceptSeq, LenProperties
<1>8. \A q \in 1..Len(outbox) : outbox'[q].text = outbox[q].text
  BY <1>5, <1>7, Zenon
<1>9. created' \in BOOLEAN /\ Len(outbox) <= Len(outbox')
  <2>1. created' \in BOOLEAN
    BY <1>2, Parts, Zenon
  <2> QED BY <1>7, <2>1
<1> QED BY <1>2, <1>7, <1>8, <1>9, AgentKeeps

LEMMA StutterKeeps == ASSUME MailboxInv, UNCHANGED vars PROVE MailboxInv'
<1>1. UNCHANGED <<inbox, delivered, waiter, posted, unmarked, faults, crashes>>
  BY DEF vars
<1>2. UNCHANGED <<created, outbox>>
  BY DEF vars
<1>3. outbox' \in Seq(Replies) /\ Len(outbox) <= Len(outbox')
  <2>1. outbox \in Seq(Replies)
    BY Parts
  <2> QED BY <1>2, <2>1, LenProperties
<1>4. created' \in BOOLEAN
  BY <1>2, Parts, Zenon
<1> QED BY <1>1, <1>2, <1>3, <1>4, AgentKeeps

-----------------------------------------------------------------------------
LEMMA StepKeepsMailbox == MailboxInv /\ [Next]_vars => MailboxInv'
<1> SUFFICES ASSUME MailboxInv, [Next]_vars PROVE MailboxInv'
  OBVIOUS
<1>1. CASE \E m \in Messages : WriteInbound(m) \/ Waits(m) \/ DeadlinePasses(m)
  <2>1. PICK m \in Messages : WriteInbound(m) \/ Waits(m) \/ DeadlinePasses(m)
    BY <1>1
  <2>2. CASE WriteInbound(m)
    BY <2>2, WriteInboundKeeps
  <2>3. CASE Poll(m)
    BY <2>3, PollActionKeeps
  <2>4. CASE TimeOut(m)
    BY <2>4, TimeOutKeeps
  <2>5. CASE Post(m)
    BY <2>5, PostKeeps
  <2>6. CASE DeadlinePasses(m)
    BY <2>6, DeadlinePassesKeeps
  <2> QED BY <2>1, <2>2, <2>3, <2>4, <2>5, <2>6, Zenon DEF Waits
<1>2. CASE OrchestratorCrashes
  BY <1>2, CrashKeeps
<1>3. CASE AgentStarts
  BY <1>3, AgentStartsKeeps
<1>4. CASE AgentReplies
  BY <1>4, AgentRepliesKeeps
<1>5. CASE BecomesDue
  BY <1>5, BecomesDueKeeps
<1>6. CASE UNCHANGED vars
  BY <1>6, StutterKeeps
<1> QED BY <1>1, <1>2, <1>3, <1>4, <1>5, <1>6, Zenon DEF Next

\* The inductive invariant: the files and every waiter on its own.
THEOREM MailboxInductive == Spec => []MailboxInv
<1>1. Init => MailboxInv
  BY MailboxInit
<1>2. MailboxInv /\ [Next]_vars => MailboxInv'
  BY StepKeepsMailbox
<1> QED BY <1>1, <1>2, PTL DEF Spec

\* Every waiter refers only to rows of messages_out that exist.
THEOREM MailboxTyped == Spec => []TypeOK
<1>1. MailboxInv => TypeOK
  <2> SUFFICES ASSUME MailboxInv PROVE TypeOK
    OBVIOUS
  <2>1. ASSUME NEW m \in Messages
        PROVE  waiter[m].seen \subseteq Row /\ waiter[m].reply \in 0..Len(outbox)
    <3>1. /\ waiter[m].seen \subseteq 1..Len(outbox)
          /\ waiter[m].reply # 0 => waiter[m].reply \in 1..Len(outbox)
      BY Parts, Zenon DEF Good
    <3>2. outbox \in Seq(Replies)
      BY Parts
    <3>3. 1..Len(outbox) \subseteq 0..Len(outbox) /\ 0 \in 0..Len(outbox)
      BY <3>2, LenProperties
    <3> QED BY <3>1, <3>3, Zenon DEF Row
  <2> QED BY <2>1, Zenon DEF MailboxInv, RestTyped, WaitersTyped, TypeOK
<1> QED BY <1>1, MailboxInductive, PTL

\* writeInbound numbers messages_in with strictly increasing even numbers.
THEOREM InboxOrdered == Spec => []SeqsIncrease
<1>1. MailboxInv => SeqsIncrease
  BY Zenon DEF MailboxInv
<1> QED BY <1>1, MailboxInductive, PTL

\* A reply posted to Slack was recorded first, or recording it failed, through
\* any number of crashes.
THEOREM PostsAreRecorded == Spec => []RecordedBeforePosted
<1>1. MailboxInv => RecordedBeforePosted
  BY Zenon DEF MailboxInv
<1> QED BY <1>1, MailboxInductive, PTL

\* No waiter of waitForReply counts a row with a text as seen.
THEOREM TextsAreReturned == Spec => []NoTextPassedOver
<1>1. MailboxInv => NoTextPassedOver
  BY Zenon DEF MailboxInv, WaitersGood, Good, NoTextPassedOver
<1> QED BY <1>1, MailboxInductive, PTL

\* Without an older text row, a waiter returns what came after its message.
THEOREM RepliesAreFresh == Spec => []FreshUnlessBacklog
<1>1. MailboxInv => FreshUnlessBacklog
  <2> SUFFICES ASSUME MailboxInv, NEW m \in Messages, waiter[m].reply # 0,
                      \A r \in 1..waiter[m].before : ~outbox[r].text
               PROVE  waiter[m].reply > waiter[m].before
    BY Zenon DEF FreshUnlessBacklog
  <2>1. /\ waiter[m] \in Waiters /\ waiter[m].reply \in 1..Len(outbox)
        /\ outbox[waiter[m].reply].text
    BY Parts, Zenon DEF Good
  <2>2. waiter[m].reply \notin 1..waiter[m].before
    BY <2>1, Zenon
  <2>3. waiter[m].before \in Nat /\ waiter[m].reply \in Nat /\ waiter[m].reply # 0
    BY <2>1 DEF Waiters
  <2> QED BY <2>2, <2>3
<1> QED BY <1>1, MailboxInductive, PTL
=============================================================================
