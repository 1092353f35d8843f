------------------------------- MODULE UsageTap -------------------------------
(***************************************************************************)
(* The usage taps of the LLM proxy: a Transform that passes the response   *)
(* of the upstream on as it comes and reads the token counts off it.  The  *)
(* network cuts the response into chunks anywhere, in the middle of a line *)
(* and between the two newlines that end an event included.                *)
(*                                                                         *)
(* Of the bytes of an event only pieces are told apart: the line that      *)
(* names it, two halves of its data line, and newlines.  A character whose *)
(* bytes are cut apart is decoded wrongly, which matters only in the text  *)
(* of an answer: the events that count carry none.                         *)
(***************************************************************************)
EXTENDS Naturals, Sequences, FiniteSetsExt

CONSTANTS
    Models,     \* names of models
    Counts,     \* numbers of tokens a payload may state
    None,       \* a field that is missing
    MaxEvents   \* bound: events the upstream sends

ASSUME CountsNat == Counts \subseteq Nat \ {0}
ASSUME NoneIsNone == None \notin Counts \cup Models
ASSUME Bound == MaxEvents \in Nat

\* What an event says: message.usage.input_tokens of a message_start and its
\* message.model, usage.output_tokens of a message_delta.
Payloads ==
    [type: {"message_start"}, tokens: Counts \cup {None}, model: Models \cup {None}]
        \cup [type: {"message_delta"}, tokens: Counts \cup {None}, model: {None}]
        \cup [type: {"content_block_delta"}, tokens: {None}, model: {None}]

\* The body of a response that is not streamed.
Bodies == [type: {"message"}, tokens: Counts \cup {None}, output: Counts \cup {None},
           model: Models \cup {None}]
              \cup [type: {"error page"}]

ASSUME NoPayloadIsNone == None \notin Payloads \cup Bodies

VARIABLES
    streaming,  \* body.stream === true, which chooses the tap
    sent,       \* the payloads the upstream sent (history)
    wire,       \* pieces on their way
    passed,     \* how many pieces went through the tap (history)
    buffer,     \* sseBuffer, or body
    ended,      \* whether the response has ended
    inputTokens, outputTokens, model

counters == <<inputTokens, outputTokens, model>>
vars == <<streaming, sent, wire, passed, buffer, ended, counters>>

-----------------------------------------------------------------------------
Piece(e, half) == [of |-> e, half |-> half]
Newline == Piece(None, "newline")
Name == Piece(None, "event")

\* event: ...  data: {...}  and an empty line.
Serialized(e) == <<Name, Newline, Piece(e, "data"), Piece(e, "rest"), Newline, Newline>>

SerializedBody(b) == <<Piece(b, "data"), Piece(b, "rest")>>

Said == IF streaming THEN Payloads ELSE Bodies
Pieces == {Newline, Name} \cup {Piece(e, h) : e \in Said, h \in {"data", "rest"}}

Counted == Counts \cup {0}

TypeOK ==
    /\ streaming \in BOOLEAN /\ ended \in BOOLEAN
    /\ sent \in Seq(Said) /\ Len(sent) <= MaxEvents
    /\ passed \in Nat
    /\ wire \in Seq(Pieces) /\ buffer \in Seq(Pieces)
    /\ inputTokens \in Counted /\ outputTokens \in Counted
    /\ model \in Models \cup {None}

Init ==
    /\ streaming \in BOOLEAN
    /\ sent = <<>> /\ wire = <<>> /\ passed = 0 /\ buffer = <<>>
    /\ ended = FALSE
    /\ inputTokens = 0 /\ outputTokens = 0 /\ model = None

-----------------------------------------------------------------------------
\* The upstream.
Send ==
    /\ ~ended
    /\ Len(sent) < MaxEvents
    /\ IF streaming
       THEN \E e \in Payloads : sent' = Append(sent, e) /\ wire' = wire \o Serialized(e)
       ELSE /\ sent = <<>>
            /\ \E b \in Bodies : sent' = <<b>> /\ wire' = SerializedBody(b)
    /\ UNCHANGED <<streaming, passed, buffer, ended, counters>>

-----------------------------------------------------------------------------
\* extractCompleteSseEvents: an empty line ends an event, and the search for
\* the next one starts after it, so of three newlines only two are taken.
EmptyLines(b) == {i \in 2..Len(b) : b[i - 1] = Newline /\ b[i] = Newline}
Ends(b) ==
    CHOOSE ends \in SUBSET EmptyLines(b) :
        \A i \in EmptyLines(b) : i \in ends <=> i - 1 \notin ends

\* Where the event begins that place i belongs to.
StartOf(b, i) == 1 + Max({0} \cup {j \in Ends(b) : j < i})

\* The event that ends at place i, without its empty line.
Event(b, i) == SubSeq(b, StartOf(b, i), i - 2)

\* Mutant: what follows the last complete event is dropped.
NoRemainder(b) == <<>>

Remainder(b) == SubSeq(b, StartOf(b, Len(b) + 1), Len(b))

\* parseEvent: the first line that starts with "data: ", unless it is cut off.
Parse(raw) ==
    LET starts == {i \in DOMAIN raw : raw[i].half = "data"}
        i == CHOOSE i \in starts : \A j \in starts : i <= j
    IN  IF starts # {} /\ i < Len(raw) /\ raw[i + 1] = Piece(raw[i].of, "rest")
        THEN raw[i].of
        ELSE None

\* Mutant: the fields are copied without looking at their types.
CountingUnchecked(c, raw) ==
    LET e == Parse(raw)
    IN  CASE e = None -> c
          [] e # None /\ e.type = "message_start" ->
                [c EXCEPT !.model = IF @ = None THEN e.model ELSE @, !.input = e.tokens]
          [] e # None /\ e.type = "message_delta" -> [c EXCEPT !.output = e.tokens]
          [] OTHER -> c

\* What one event makes of the counters c.
Counting(c, raw) ==
    LET e == Parse(raw)
    IN  CASE e = None -> c
          [] e # None /\ e.type = "message_start" ->
                [c EXCEPT !.model = IF @ = None THEN e.model ELSE @,
                          !.input = IF e.tokens # None THEN e.tokens ELSE @]
          [] e # None /\ e.type = "message_delta" ->
                [c EXCEPT !.output = IF e.tokens # None THEN e.tokens ELSE @]
          [] OTHER -> c

\* What the events that end in the first i pieces of b make of the counters c.
Tally(c, b) ==
    LET tally[i \in 0..Len(b)] ==
            IF i = 0 THEN c
            ELSE IF i \in Ends(b) THEN Counting(tally[i - 1], Event(b, i))
            ELSE tally[i - 1]
    IN  tally

\* transform of the streaming tap: the first n pieces on the wire are a chunk.
TapEvents(n) ==
    /\ streaming /\ n \in 1..Len(wire)
    /\ LET b == buffer \o SubSeq(wire, 1, n)
           c == Tally([input |-> inputTokens, output |-> outputTokens, model |-> model], b)[Len(b)]
       IN  /\ buffer' = Remainder(b)
           /\ inputTokens' = c.input /\ outputTokens' = c.output /\ model' = c.model
    /\ wire' = SubSeq(wire, n + 1, Len(wire)) /\ passed' = passed + n
    /\ UNCHANGED <<streaming, sent, ended>>

\* transform of the other tap, which collects the body.
TapBody(n) ==
    /\ ~streaming /\ n \in 1..Len(wire)
    /\ buffer' = buffer \o SubSeq(wire, 1, n)
    /\ wire' = SubSeq(wire, n + 1, Len(wire)) /\ passed' = passed + n
    /\ UNCHANGED <<streaming, sent, ended, counters>>

\* The response ends; the streaming tap has no flush, the other one parses
\* the body here.  A response that breaks off never gets here: it ends the
\* process (LlmProxy).
End ==
    /\ ~ended /\ wire = <<>>
    /\ ended' = TRUE
    /\ LET b == Parse(buffer)
       IN  IF streaming \/ b = None \/ b.type = "error page"
           THEN UNCHANGED counters
           ELSE /\ model' = b.model
                /\ inputTokens' = IF b.tokens = None THEN 0 ELSE b.tokens
                /\ outputTokens' = IF b.output = None THEN 0 ELSE b.output
    /\ UNCHANGED <<streaming, sent, wire, passed, buffer>>

Next == Send \/ (\E n \in 1..Len(wire) : TapEvents(n) \/ TapBody(n)) \/ End

Spec == Init /\ [][Next]_vars

-----------------------------------------------------------------------------
\* How many events have passed the streaming tap as a whole.
EventLen == 6
Whole == passed \div EventLen

Stating(type) == {i \in 1..Whole : sent[i].type = type /\ sent[i].tokens # None}
Naming == {i \in 1..Whole : sent[i].model # None}

\* However the network cuts a stream, the tap has counted exactly the events
\* that passed as a whole: the input of the last message_start and the output
\* of the last message_delta that state one, the model of the first that names
\* it.  So what usage_logs records does not depend on the chunks.  Nor does it
\* for a body that is not streamed, which counts when it is complete.
CountsWholeEvents ==
    /\ streaming =>
          LET starts == Stating("message_start")
              deltas == Stating("message_delta")
          IN  /\ inputTokens = IF starts = {} THEN 0 ELSE sent[Max(starts)].tokens
              /\ outputTokens = IF deltas = {} THEN 0 ELSE sent[Max(deltas)].tokens
              /\ model = IF Naming = {} THEN None ELSE sent[Min(Naming)].model
    /\ ~streaming /\ ended /\ sent # <<>> /\ sent[1].type = "message" =>
          /\ inputTokens = IF sent[1].tokens = None THEN 0 ELSE sent[1].tokens
          /\ outputTokens = IF sent[1].output = None THEN 0 ELSE sent[1].output
          /\ model = sent[1].model
=============================================================================
