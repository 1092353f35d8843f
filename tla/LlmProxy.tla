------------------------------- MODULE LlmProxy -------------------------------
(***************************************************************************)
(* The LLM proxy for one user: POST /llm/v1/messages from the agent is     *)
(* routed by the row of "instances" and the key in "user_api_keys",        *)
(* checked against the daily budget when it goes to the hosted model,      *)
(* forwarded, streamed back, and logged in "usage_logs".  The record is    *)
(* not awaited: it is inserted some time after the response has ended.     *)
(* updateConfig changes key and route meanwhile.                           *)
(*                                                                         *)
(* One action per database or upstream round trip.  A call that the guard  *)
(* refuses (InternalTokenService, see ContainerManager) changes nothing,   *)
(* so calls start once they are verified.                                  *)
(***************************************************************************)
EXTENDS Integers, FiniteSets

CONSTANTS
    Calls,        \* calls that can be outstanding at once
    Handlers,     \* updateConfig handlers that can be in flight at once
    Limit,        \* freeTierDailyTokenLimit
    MaxTokens,    \* most tokens one call can use
    MaxArrivals,  \* bound: calls
    MaxConfigs,   \* bound: configuration requests
    MaxFaults,    \* bound: database calls that fail
    MaxNights     \* bound: midnights (UTC)

ASSUME CallsFinite == IsFiniteSet(Calls)
ASSUME LimitPositive == Limit \in Nat \ {0}
ASSUME MaxTokensNat == MaxTokens \in Nat

VARIABLES
    llm,      \* instances.active_llm
    key,      \* whether user_api_keys has a key
    handler,  \* what each updateConfig handler has yet to write to active_llm
    call,     \* control point and locals of each call
    hosted,   \* tokens of hosted calls in today's usage_logs
    own,      \* tokens of calls with the user's key in today's usage_logs
    spent,    \* tokens used by the hosted calls that ended today (history)
    open,     \* calls let through today because the budget query failed (history)
    lost,     \* hosted calls that used tokens today and are never logged (history)
    removed,  \* whether a key was ever removed (history)
    arrivals, configs, faults, nights

conf == <<llm, key, handler, removed, configs>>
usage == <<hosted, own, spent, lost>>
vars == <<conf, call, usage, open, arrivals, faults, nights>>

-----------------------------------------------------------------------------
Points == {"idle", "resolving", "keying", "metering", "fetching", "streaming",
           "stalled", "recording"}
CallStates == [pc: Points, backend: {"none", "ollama", "anthropic"},
               fell: BOOLEAN, out: 0..MaxTokens]
Idle == [pc |-> "idle", backend |-> "none", fell |-> FALSE, out |-> 0]

TypeOK ==
    /\ llm \in {"gemma_hosted", "anthropic_byok"}
    /\ key \in BOOLEAN /\ removed \in BOOLEAN
    /\ handler \in [Handlers -> {"none", "gemma_hosted", "anthropic_byok"}]
    /\ call \in [Calls -> CallStates]
    /\ hosted \in Nat /\ own \in Nat /\ spent \in Nat
    /\ open \in Nat /\ lost \in Nat
    /\ arrivals \in Nat /\ configs \in Nat /\ faults \in Nat /\ nights \in Nat

Init ==
    /\ llm = "gemma_hosted" /\ key = FALSE /\ removed = FALSE
    /\ handler = [h \in Handlers |-> "none"]
    /\ call = [c \in Calls |-> Idle]
    /\ hosted = 0 /\ own = 0 /\ spent = 0 /\ open = 0 /\ lost = 0
    /\ arrivals = 0 /\ configs = 0 /\ faults = 0 /\ nights = 0

Fault == faults < MaxFaults /\ faults' = faults + 1

At(c, pc) == call[c].pc = pc
GoTo(c, pc) == call' = [call EXCEPT ![c].pc = pc]
Send(c, backend, fell) ==
    call' = [call EXCEPT ![c].pc = "fetching", ![c].backend = backend, ![c].fell = fell]
End(c) == call' = [call EXCEPT ![c] = Idle]

\* Hosted calls from the moment the budget lets them through until they are
\* logged or lost.
Outstanding ==
    {c \in Calls : call[c].backend = "ollama"
                   /\ call[c].pc \in {"fetching", "streaming", "stalled", "recording"}}

\* Call c ends without a record after its upstream has used n tokens.
Lose(c, n) ==
    /\ End(c)
    /\ IF c \in Outstanding THEN spent' = spent + n /\ lost' = lost + 1
       ELSE UNCHANGED <<spent, lost>>
    /\ UNCHANGED <<hosted, own>>

\* An 'error' event without listener: the process exits and everything in
\* flight is gone, upstream calls and inserts of the recorder alike.
ProcessDies ==
    /\ call' = [c \in Calls |-> Idle]
    /\ handler' = [h \in Handlers |-> "none"]
    /\ \E n \in 0..(MaxTokens * Cardinality(Outstanding)) : spent' = spent + n
    /\ lost' = lost + Cardinality(Outstanding)
    /\ UNCHANGED <<llm, key, removed, configs, hosted, own>>

-----------------------------------------------------------------------------
Arrive(c) ==
    /\ At(c, "idle")
    /\ arrivals < MaxArrivals /\ arrivals' = arrivals + 1
    /\ GoTo(c, "resolving")
    /\ UNCHANGED <<conf, usage, open, faults, nights>>

\* RoutingService.resolve: the row.  It may be gone, and then the call ends.
Resolve(c) ==
    /\ At(c, "resolving")
    /\ \/ GoTo(c, IF llm = "anthropic_byok" THEN "keying" ELSE "metering")
       \/ End(c)
    /\ UNCHANGED <<conf, usage, open, arrivals, faults, nights>>

\* loadAnthropicKey: without a key that can be read and decrypted the call
\* falls back to the hosted model.
LoadKey(c) ==
    /\ At(c, "keying")
    /\ \/ key /\ Send(c, "anthropic", FALSE) /\ UNCHANGED faults
       \/ /\ IF key THEN Fault ELSE UNCHANGED faults
          /\ call' = [call EXCEPT ![c].pc = "metering", ![c].fell = TRUE]
    /\ UNCHANGED <<conf, usage, open, arrivals, nights>>

\* Mutant: used <= limit.
MeterInclusive(c) ==
    /\ At(c, "metering")
    /\ \/ /\ IF hosted + own <= Limit THEN Send(c, "ollama", call[c].fell) ELSE End(c)
          /\ UNCHANGED <<open, faults>>
       \/ Fault /\ Send(c, "ollama", call[c].fell) /\ open' = open + 1
    /\ UNCHANGED <<conf, usage, arrivals, nights>>

\* BudgetService.snapshot sums today's llm_request rows of both backends; a
\* failing query lets the call through, a used-up budget answers 429.
Meter(c) ==
    /\ At(c, "metering")
    /\ \/ /\ IF hosted + own < Limit THEN Send(c, "ollama", call[c].fell) ELSE End(c)
          /\ UNCHANGED <<open, faults>>
       \/ Fault /\ Send(c, "ollama", call[c].fell) /\ open' = open + 1
    /\ UNCHANGED <<conf, usage, arrivals, nights>>

\* The upstream's headers have arrived and its body is piped to the client; an
\* answer without body is over.
Respond(c) ==
    /\ At(c, "fetching")
    /\ GoTo(c, "streaming") \/ GoTo(c, "recording")
    /\ UNCHANGED <<conf, usage, open, arrivals, faults, nights>>

\* fetch rejects, because the upstream cannot be reached, breaks off or the
\* client has gone: 502 or 504, and no record.
FetchFails(c) ==
    /\ At(c, "fetching")
    /\ \E n \in 0..MaxTokens : Lose(c, n)
    /\ UNCHANGED <<conf, open, arrivals, faults, nights>>

\* Mutant: the cumulative output_tokens of each message_delta are added up.
StreamEndsAddingUp(c) ==
    /\ At(c, "streaming")
    /\ \E n, m \in 0..MaxTokens :
         call' = [call EXCEPT ![c].pc = "recording", ![c].out = n + m]
    /\ UNCHANGED <<conf, usage, open, arrivals, faults, nights>>

\* The last byte has passed the usage tap: forward resolves and the snapshot
\* holds the tokens of the call.
StreamEnds(c) ==
    /\ At(c, "streaming")
    /\ \E n \in 0..MaxTokens :
         call' = [call EXCEPT ![c].pc = "recording", ![c].out = n]
    /\ UNCHANGED <<conf, usage, open, arrivals, faults, nights>>

\* The upstream breaks off within the body.  The error is emitted by the source
\* stream, and pipe does not pass it on to the stream that is listened to.
StreamBreaks(c) ==
    /\ call[c].pc \in {"streaming", "stalled"}
    /\ ProcessDies
    /\ UNCHANGED <<open, arrivals, faults, nights>>

\* The client closes the connection within the body: pipe stops, and neither
\* 'end' nor 'error' of the last stream will come.
ClientLeaves(c) ==
    /\ At(c, "streaming")
    /\ GoTo(c, "stalled")
    /\ UNCHANGED <<conf, usage, open, arrivals, faults, nights>>

\* What was left of the body has fitted into the buffers of the pipe, and
\* forward never settles.
Abandon(c) ==
    /\ At(c, "stalled")
    /\ \E n \in 0..MaxTokens : Lose(c, n)
    /\ UNCHANGED <<conf, open, arrivals, faults, nights>>

\* Mutant: the timer is cleared when the headers arrive.
TimeOutOnlyFetch(c) ==
    /\ At(c, "fetching")
    /\ (\E n \in 0..MaxTokens : Lose(c, n)) /\ UNCHANGED conf
    /\ UNCHANGED <<open, arrivals, faults, nights>>

\* requestTimeoutMs have passed: the abort makes fetch reject, or breaks the
\* body.
TimeOut(c) ==
    /\ \/ At(c, "fetching") /\ (\E n \in 0..MaxTokens : Lose(c, n)) /\ UNCHANGED conf
       \/ call[c].pc \in {"streaming", "stalled"} /\ ProcessDies
    /\ UNCHANGED <<open, arrivals, faults, nights>>

\* UsageRecorderService.record; an error is logged and the record is lost.
Record(c) ==
    /\ At(c, "recording")
    /\ End(c)
    /\ spent' = IF c \in Outstanding THEN spent + call[c].out ELSE spent
    /\ \/ /\ IF c \in Outstanding
             THEN hosted' = hosted + call[c].out /\ UNCHANGED own
             ELSE own' = own + call[c].out /\ UNCHANGED hosted
          /\ UNCHANGED <<lost, faults>>
       \/ /\ Fault
          /\ lost' = IF c \in Outstanding THEN lost + 1 ELSE lost
          /\ UNCHANGED <<hosted, own>>
    /\ UNCHANGED <<conf, open, arrivals, nights>>

\* The day of startOfTodayIso begins: no row is of today.
Midnight ==
    /\ nights < MaxNights /\ nights' = nights + 1
    /\ hosted' = 0 /\ own' = 0 /\ spent' = 0 /\ open' = 0 /\ lost' = 0
    /\ UNCHANGED <<conf, call, arrivals, faults>>

-----------------------------------------------------------------------------
(* updateConfig.  Errors of these updates are not looked at.  A request may *)
(* carry a new key and its removal: two handlers, one after the other.      *)

NewRequest(h) ==
    /\ handler[h] = "none"
    /\ configs < MaxConfigs /\ configs' = configs + 1

\* Mutant: active_llm is written first and the key after it.
SetKeyLast(h) ==
    \/ /\ NewRequest(h)
       /\ handler' = [handler EXCEPT ![h] = "anthropic_byok"]
       /\ llm' = "anthropic_byok"
       /\ UNCHANGED <<key, removed, call, usage, open, arrivals, faults, nights>>
    \/ /\ handler[h] = "anthropic_byok"
       /\ key' = TRUE
       /\ handler' = [handler EXCEPT ![h] = "none"]
       /\ UNCHANGED <<llm, removed, configs, call, usage, open, arrivals, faults, nights>>

SetKey(h) ==
    /\ NewRequest(h)
    /\ handler' = [handler EXCEPT ![h] = "anthropic_byok"]
    /\ \/ key' = TRUE /\ UNCHANGED faults
       \/ Fault /\ UNCHANGED key
    /\ UNCHANGED <<llm, removed, call, usage, open, arrivals, nights>>

RemoveKey(h) ==
    /\ NewRequest(h)
    /\ handler' = [handler EXCEPT ![h] = "gemma_hosted"]
    /\ removed' = TRUE
    /\ \/ key' = FALSE /\ UNCHANGED faults
       \/ Fault /\ UNCHANGED key
    /\ UNCHANGED <<llm, call, usage, open, arrivals, nights>>

\* The switch to anthropic_byok is refused (400) without a key.
Choose(h) ==
    /\ NewRequest(h)
    /\ \E choice \in {"gemma_hosted", "anthropic_byok"} :
         /\ choice = "anthropic_byok" => key
         /\ handler' = [handler EXCEPT ![h] = choice]
    /\ UNCHANGED <<llm, key, removed, call, usage, open, arrivals, faults, nights>>

WriteLlm(h) ==
    /\ handler[h] # "none"
    /\ handler' = [handler EXCEPT ![h] = "none"]
    /\ \/ llm' = handler[h] /\ UNCHANGED faults
       \/ Fault /\ UNCHANGED llm
    /\ UNCHANGED <<key, removed, configs, call, usage, open, arrivals, nights>>

-----------------------------------------------------------------------------
Proceeds(c) == Resolve(c) \/ LoadKey(c) \/ Meter(c) \/ Record(c)
Upstream(c) == Respond(c) \/ FetchFails(c) \/ StreamEnds(c) \/ StreamBreaks(c)
Client(c) == ClientLeaves(c) \/ Abandon(c)
Configure(h) == SetKey(h) \/ RemoveKey(h) \/ Choose(h) \/ WriteLlm(h)

Next ==
    \/ \E c \in Calls : Arrive(c) \/ Proceeds(c) \/ Upstream(c) \/ Client(c) \/ TimeOut(c)
    \/ \E h \in Handlers : Configure(h)
    \/ Midnight

Spec == Init /\ [][Next]_vars

\* Database calls return and the timer fires; nothing is assumed of the
\* upstream or the client.
FairSpec == Spec /\ \A c \in Calls : WF_vars(Proceeds(c)) /\ WF_vars(TimeOut(c))

-----------------------------------------------------------------------------
\* BudgetService and record: what the hosted calls of a day have used, plus
\* all that those outstanding may still use, stays below the limit plus one
\* whole call per call outstanding at the same time, but for calls let through
\* by a failing query and calls that were never logged.
OvershootBounded ==
    spent + MaxTokens * Cardinality(Outstanding)
        <= (Limit - 1) + MaxTokens * (Cardinality(Calls) + open + lost)

\* As long as no key was removed and no database call failed, no call of a user
\* who selected their own key falls back to the hosted model: updateConfig
\* stores the key before it switches, and switches only with a key stored.
FallbackNeedsRemoval ==
    \A c \in Calls : call[c].fell => removed \/ faults > 0

\* A call whose upstream answers slowly, or never, is over in the end.
CallsEnd == \A c \in Calls : ~At(c, "idle") ~> At(c, "idle")
=============================================================================
