--------------------------- MODULE LlmProxyProofs ---------------------------
(***************************************************************************)
(* The daily budget of the hosted model for any number of calls, any limit *)
(* and any number of failures (LlmProxy).  OvershootBounded speaks of what *)
(* the model used, which no step knows: the inductive invariant splits it  *)
(* into what the log bounds (LogBounded) and what the log misses           *)
(* (LogMisses).                                                            *)
(*                                                                         *)
(* And who chose their own key is answered by the hosted model only after  *)
(* a removal or a failure: a key is there wherever one is relied on.       *)
(***************************************************************************)
EXTENDS LlmProxy, FiniteSetTheorems, TLAPS

\* What is logged, plus all the calls outstanding may still add to it.
LogBounded ==
    hosted + MaxTokens * Cardinality(Outstanding)
        <= (Limit - 1) + MaxTokens * (Cardinality(Calls) + open)

\* What was used is logged or lost.
LogMisses == spent <= hosted + MaxTokens * lost

BudgetInv == TypeOK /\ LogBounded /\ LogMisses

-----------------------------------------------------------------------------
(* Arithmetic and cardinalities                                            *)

LEMMA TimesMonotone ==
    ASSUME NEW m \in Nat, NEW x \in Nat, NEW y \in Nat, x <= y
    PROVE  m * x <= m * y /\ m * x \in Nat
<1>1. PICK d \in Nat : y = x + d
  <2>1. y - x \in Nat /\ y = x + (y - x)
    OBVIOUS
  <2> QED BY <2>1
<1>2. m * d \in Nat /\ m * x \in Nat
  OBVIOUS
<1>3. m * y = m * x + m * d
  BY <1>1
<1> QED BY <1>2, <1>3

LEMMA TimesSum ==
    ASSUME NEW m \in Nat, NEW x \in Nat, NEW y \in Nat
    PROVE  m * (x + y) = m * x + m * y /\ m * (x + 1) = m * x + m
           /\ m * x \in Nat /\ m * y \in Nat
OBVIOUS

\* The sets of calls are finite, before and after a step.
LEMMA Counted ==
    ASSUME NEW S \in SUBSET Calls
    PROVE  /\ IsFiniteSet(S) /\ Cardinality(S) \in Nat
           /\ Cardinality(Calls) \in Nat /\ Cardinality(S) <= Cardinality(Calls)
BY CallsFinite, FS_Subset, FS_CardinalityType

LEMMA Joined ==
    ASSUME NEW S \in SUBSET Calls, NEW c \in Calls, c \notin S
    PROVE  Cardinality(S \cup {c}) = Cardinality(S) + 1
BY Counted, FS_AddElement

LEMMA Left ==
    ASSUME NEW S \in SUBSET Calls, NEW c \in S
    PROVE  Cardinality(S \ {c}) = Cardinality(S) - 1 /\ Cardinality(S) >= 1
<1>1. Cardinality(S \ {c}) = Cardinality(S) - 1
  BY Counted, FS_RemoveElement
<1>2. S \ {c} \in SUBSET Calls
  OBVIOUS
<1>3. Cardinality(S \ {c}) \in Nat /\ Cardinality(S) \in Nat
  BY <1>2, Counted
<1> QED BY <1>1, <1>3

-----------------------------------------------------------------------------
(* Types                                                                   *)

LEMMA TypeInit == Init => TypeOK
<1> SUFFICES ASSUME Init PROVE TypeOK
  OBVIOUS
<1>1. Idle \in CallStates
  BY MaxTokensNat DEF Idle, CallStates, Points
<1>2. key \in BOOLEAN /\ removed \in BOOLEAN
  BY Zenon DEF Init
<1> QED BY <1>1, <1>2 DEF Init, TypeOK

\* Setting the control point and the locals of a call keeps its type.
LEMMA CallTyped ==
    ASSUME TypeOK, NEW c \in Calls
    PROVE  /\ Idle \in CallStates
           /\ End(c) => call' \in [Calls -> CallStates]
           /\ \A pc \in Points : GoTo(c, pc) => call' \in [Calls -> CallStates]
           /\ \A b \in {"none", "ollama", "anthropic"}, f \in BOOLEAN :
                Send(c, b, f) => call' \in [Calls -> CallStates]
           /\ call[c] \in CallStates
<1>1. Idle \in CallStates
  BY MaxTokensNat DEF Idle, CallStates, Points
<1>2. call \in [Calls -> CallStates] /\ call[c] \in CallStates
  BY DEF TypeOK
<1>3. End(c) => call' \in [Calls -> CallStates]
  BY <1>1, <1>2 DEF End
<1>4. \A pc \in Points : GoTo(c, pc) => call' \in [Calls -> CallStates]
  BY <1>2 DEF GoTo, CallStates
<1>5. \A b \in {"none", "ollama", "anthropic"}, f \in BOOLEAN :
        Send(c, b, f) => call' \in [Calls -> CallStates]
  <2> SUFFICES ASSUME NEW b \in {"none", "ollama", "anthropic"}, NEW f \in BOOLEAN,
                      Send(c, b, f)
               PROVE  call' \in [Calls -> CallStates]
    OBVIOUS
  <2>1. "fetching" \in Points
    BY DEF Points
  <2>2. [call[c] EXCEPT !.pc = "fetching", !.backend = b, !.fell = f] \in CallStates
    BY <1>2, <2>1, Zenon DEF CallStates
  <2> QED BY <1>2, <2>2 DEF Send
<1> QED BY <1>1, <1>2, <1>3, <1>4, <1>5

LEMMA LoseTyped ==
    ASSUME TypeOK, NEW c \in Calls, NEW n \in 0..MaxTokens, Lose(c, n)
    PROVE  call' \in [Calls -> CallStates] /\ spent' \in Nat /\ lost' \in Nat
           /\ hosted' \in Nat /\ own' \in Nat
<1>1. n \in Nat
  BY MaxTokensNat
<1>2. call' \in [Calls -> CallStates]
  BY CallTyped DEF Lose
<1> QED BY <1>1, <1>2 DEF Lose, TypeOK

LEMMA DeathTyped ==
    ASSUME TypeOK, ProcessDies
    PROVE  /\ call' \in [Calls -> CallStates]
           /\ handler' \in [Handlers -> {"none", "gemma_hosted", "anthropic_byok"}]
           /\ spent' \in Nat /\ lost' \in Nat /\ hosted' \in Nat /\ own' \in Nat
           /\ llm' = llm /\ key' = key /\ removed' = removed /\ configs' = configs
<1>1. Idle \in CallStates
  BY MaxTokensNat DEF Idle, CallStates, Points
<1>2. Outstanding \in SUBSET Calls
  BY DEF Outstanding
<1>3. Cardinality(Outstanding) \in Nat
  BY <1>2, Counted
<1>4. MaxTokens * Cardinality(Outstanding) \in Nat
  BY <1>3, MaxTokensNat, TimesSum
<1>5. spent' \in Nat
  BY <1>4 DEF ProcessDies, TypeOK
<1>6. lost' \in Nat
  BY <1>3 DEF ProcessDies, TypeOK
<1> QED BY <1>1, <1>5, <1>6 DEF ProcessDies, TypeOK

LEMMA CallTypeStep ==
    ASSUME TypeOK, NEW c \in Calls,
           Arrive(c) \/ Proceeds(c) \/ Upstream(c) \/ Client(c) \/ TimeOut(c)
    PROVE  TypeOK'
<1> USE DEF TypeOK, usage, conf
<1>1. CASE Arrive(c)
  <2>1. call' \in [Calls -> CallStates]
    BY <1>1, CallTyped DEF Arrive, Points
  <2> QED BY <1>1, <2>1 DEF Arrive
<1>2. CASE Resolve(c)
  <2>1. call' \in [Calls -> CallStates]
    BY <1>2, CallTyped DEF Resolve, Points
  <2> QED BY <1>2, <2>1 DEF Resolve
<1>3. CASE LoadKey(c)
  <2>1. call' \in [Calls -> CallStates]
    <3>1. CASE Send(c, "anthropic", FALSE)
      BY <3>1, CallTyped
    <3>2. CASE call' = [call EXCEPT ![c].pc = "metering", ![c].fell = TRUE]
      <4>1. "metering" \in Points /\ call[c] \in CallStates
        BY CallTyped DEF Points
      <4>2. [call[c] EXCEPT !.pc = "metering", !.fell = TRUE] \in CallStates
        BY <4>1, Zenon DEF CallStates
      <4> QED BY <3>2, <4>2
    <3> QED BY <1>3, <3>1, <3>2 DEF LoadKey
  <2>2. key' = key /\ removed' = removed /\ UNCHANGED <<llm, handler, configs>>
        /\ UNCHANGED <<hosted, own, spent, lost, open, arrivals, nights>>
    BY <1>3, Zenon DEF LoadKey
  <2>3. faults' = faults \/ faults' = faults + 1
    BY <1>3, Zenon DEF LoadKey, Fault
  <2> QED BY <2>1, <2>2, <2>3
<1>4. CASE Meter(c)
  <2>1. call' \in [Calls -> CallStates]
    <3>1. call[c].fell \in BOOLEAN
      BY CallTyped DEF CallStates
    <3> QED BY <1>4, <3>1, CallTyped DEF Meter
  <2> QED BY <1>4, <2>1 DEF Meter, Fault
<1>5. CASE Record(c)
  <2>1. call' \in [Calls -> CallStates] /\ call[c].out \in Nat
    BY <1>5, CallTyped, MaxTokensNat DEF Record, CallStates
  <2> QED BY <1>5, <2>1 DEF Record, Fault
<1>6. CASE Respond(c)
  <2>1. call' \in [Calls -> CallStates]
    BY <1>6, CallTyped DEF Respond, Points
  <2> QED BY <1>6, <2>1 DEF Respond
<1>7. CASE FetchFails(c)
  BY <1>7, LoseTyped DEF FetchFails
<1>8. CASE StreamEnds(c)
  <2>1. PICK n \in 0..MaxTokens : call' = [call EXCEPT ![c].pc = "recording", ![c].out = n]
    BY <1>8 DEF StreamEnds
  <2>2. call' \in [Calls -> CallStates]
    BY <2>1, CallTyped, ZenonT(40) DEF CallStates, Points
  <2> QED BY <1>8, <2>2 DEF StreamEnds
<1>9. CASE StreamBreaks(c)
  BY <1>9, DeathTyped DEF StreamBreaks
<1>10. CASE ClientLeaves(c)
  <2>1. call' \in [Calls -> CallStates]
    BY <1>10, CallTyped DEF ClientLeaves, Points
  <2> QED BY <1>10, <2>1 DEF ClientLeaves
<1>11. CASE Abandon(c)
  BY <1>11, LoseTyped DEF Abandon
<1>12. CASE TimeOut(c)
  BY <1>12, LoseTyped, DeathTyped DEF TimeOut
<1> QED BY <1>1, <1>2, <1>3, <1>4, <1>5, <1>6, <1>7, <1>8, <1>9, <1>10, <1>11, <1>12
     DEF Proceeds, Upstream, Client

LEMMA TypeStep == TypeOK /\ [Next]_vars => TypeOK'
<1> SUFFICES ASSUME TypeOK, [Next]_vars PROVE TypeOK'
  OBVIOUS
<1>1. ASSUME NEW c \in Calls,
             Arrive(c) \/ Proceeds(c) \/ Upstream(c) \/ Client(c) \/ TimeOut(c)
      PROVE  TypeOK'
  BY <1>1, CallTypeStep
<1>2. ASSUME NEW h \in Handlers, Configure(h)
      PROVE  TypeOK'
  <2> USE DEF TypeOK, usage, NewRequest, Fault
  <2>1. CASE SetKey(h)
    <3>1. key' \in BOOLEAN /\ removed' \in BOOLEAN
      BY <2>1, Zenon DEF SetKey
    <3>2. faults' \in Nat /\ configs' \in Nat
      BY <2>1 DEF SetKey
    <3>3. handler' \in [Handlers -> {"none", "gemma_hosted", "anthropic_byok"}]
      BY <2>1 DEF SetKey
    <3>4. UNCHANGED <<llm, call, hosted, own, spent, lost, open, arrivals, nights>>
      BY <2>1 DEF SetKey
    <3> QED BY <3>1, <3>2, <3>3, <3>4
  <2>2. CASE RemoveKey(h)
    <3>1. key' \in BOOLEAN /\ removed' \in BOOLEAN
      BY <2>2, Zenon DEF RemoveKey
    <3>2. faults' \in Nat /\ configs' \in Nat
      BY <2>2 DEF RemoveKey
    <3>3. handler' \in [Handlers -> {"none", "gemma_hosted", "anthropic_byok"}]
      BY <2>2 DEF RemoveKey
    <3>4. UNCHANGED <<llm, call, hosted, own, spent, lost, open, arrivals, nights>>
      BY <2>2 DEF RemoveKey
    <3> QED BY <3>1, <3>2, <3>3, <3>4
  <2>3. CASE Choose(h)
    BY <2>3 DEF Choose
  <2>4. CASE WriteLlm(h)
    BY <2>4 DEF WriteLlm
  <2> QED BY <1>2, <2>1, <2>2, <2>3, <2>4 DEF Configure
<1>3. CASE Midnight
  BY <1>3 DEF Midnight, TypeOK, conf
<1>4. CASE UNCHANGED vars
  BY <1>4 DEF vars, conf, usage, TypeOK
<1> QED BY <1>1, <1>2, <1>3, <1>4 DEF Next

-----------------------------------------------------------------------------
(* The budget                                                              *)

\* A step that touches none of what the two bounds are made of.
LEMMA Untouched ==
    ASSUME BudgetInv, Outstanding' = Outstanding, UNCHANGED <<hosted, spent, open, lost>>
    PROVE  LogBounded' /\ LogMisses'
BY DEF BudgetInv, LogBounded, LogMisses

\* The numbers the bounds are made of.
LEMMA Numbers ==
    ASSUME TypeOK
    PROVE  /\ Outstanding \in SUBSET Calls /\ Cardinality(Outstanding) \in Nat
           /\ Cardinality(Calls) \in Nat
           /\ hosted \in Nat /\ spent \in Nat /\ open \in Nat /\ lost \in Nat
           /\ MaxTokens \in Nat /\ Limit \in Nat /\ Limit >= 1
           /\ MaxTokens * Cardinality(Outstanding) \in Nat /\ MaxTokens * lost \in Nat
           /\ MaxTokens * (Cardinality(Calls) + open) \in Nat
<1>1. Outstanding \in SUBSET Calls
  BY DEF Outstanding
<1>2. Cardinality(Outstanding) \in Nat /\ Cardinality(Calls) \in Nat
  BY <1>1, Counted
<1>3. hosted \in Nat /\ spent \in Nat /\ open \in Nat /\ lost \in Nat
      /\ MaxTokens \in Nat /\ Limit \in Nat /\ Limit >= 1
  BY MaxTokensNat, LimitPositive DEF TypeOK
<1> QED BY <1>1, <1>2, <1>3, TimesSum

\* A hosted call that ends moves its tokens from what it may still use to what
\* was used; logged or lost, both bounds hold.
LEMMA EndBudget ==
    ASSUME BudgetInv, NEW c \in Outstanding, Outstanding' = Outstanding \ {c},
           NEW n \in 0..MaxTokens, spent' = spent + n, UNCHANGED open,
           \/ hosted' = hosted + n /\ lost' = lost
           \/ hosted' = hosted /\ lost' = lost + 1
    PROVE  LogBounded' /\ LogMisses'
<1> USE DEF BudgetInv
<1> DEFINE O == Cardinality(Outstanding) - 1
<1>1. Cardinality(Outstanding') = O /\ O \in Nat /\ Cardinality(Outstanding) = O + 1
  <2>1. Outstanding \in SUBSET Calls /\ Cardinality(Outstanding) \in Nat
    BY Numbers
  <2>2. Cardinality(Outstanding \ {c}) = O /\ Cardinality(Outstanding) >= 1
    BY <2>1, Left
  <2> QED BY <2>1, <2>2
<1>2. MaxTokens * (O + 1) = MaxTokens * O + MaxTokens /\ MaxTokens * O \in Nat
  BY <1>1, MaxTokensNat, TimesSum
<1>3. MaxTokens * (lost + 1) = MaxTokens * lost + MaxTokens
  BY Numbers, TimesSum
<1>4. n \in Nat /\ n <= MaxTokens
  BY MaxTokensNat
<1>5. hosted + (MaxTokens * O + MaxTokens)
        <= (Limit - 1) + MaxTokens * (Cardinality(Calls) + open)
  BY <1>1, <1>2 DEF LogBounded
<1> HIDE DEF O
<1>6. LogBounded'
  BY <1>1, <1>2, <1>4, <1>5, Numbers DEF LogBounded
<1>7. LogMisses'
  BY <1>3, <1>4, Numbers DEF LogMisses
<1> QED BY <1>6, <1>7

LEMMA LoseBudget ==
    ASSUME BudgetInv, NEW c \in Calls, NEW n \in 0..MaxTokens, Lose(c, n), UNCHANGED open
    PROVE  LogBounded' /\ LogMisses'
<1>1. Outstanding' = Outstanding \ {c}
  BY DEF BudgetInv, TypeOK, Lose, End, Outstanding, Idle
<1>2. CASE c \notin Outstanding
  <2>1. Outstanding' = Outstanding /\ UNCHANGED <<hosted, spent, open, lost>>
    BY <1>1, <1>2 DEF Lose
  <2> QED BY <2>1, Untouched
<1>3. CASE c \in Outstanding
  <2>1. hosted' = hosted /\ spent' = spent + n /\ lost' = lost + 1
    BY <1>3 DEF Lose
  <2> QED BY <1>1, <1>3, <2>1, EndBudget
<1> QED BY <1>2, <1>3

LEMMA RecordBudget ==
    ASSUME BudgetInv, NEW c \in Calls, Record(c)
    PROVE  LogBounded' /\ LogMisses'
<1>1. call \in [Calls -> CallStates]
  BY DEF BudgetInv, TypeOK
<1>2. Outstanding' = Outstanding \ {c} /\ open' = open
  BY <1>1 DEF Record, End, Outstanding, Idle
<1>3. CASE c \notin Outstanding
  <2>1. Outstanding' = Outstanding /\ UNCHANGED <<hosted, spent, open, lost>>
    BY <1>2, <1>3 DEF Record
  <2> QED BY <2>1, Untouched
<1>4. CASE c \in Outstanding
  <2>1. call[c].out \in 0..MaxTokens
    BY <1>1 DEF CallStates
  <2>2. spent' = spent + call[c].out
        /\ \/ hosted' = hosted + call[c].out /\ lost' = lost
           \/ hosted' = hosted /\ lost' = lost + 1
    BY <1>4 DEF Record
  <2> QED BY <1>2, <1>4, <2>1, <2>2, EndBudget
<1> QED BY <1>3, <1>4

\* When the process dies, everything outstanding is lost at once.
LEMMA DeathBudget ==
    ASSUME BudgetInv, ProcessDies, UNCHANGED open
    PROVE  LogBounded' /\ LogMisses'
<1> USE DEF BudgetInv
<1> DEFINE O == Cardinality(Outstanding)
<1>1. Outstanding' = {}
  BY DEF ProcessDies, Outstanding, Idle
<1>2. Cardinality(Outstanding') = 0
  BY <1>1, FS_EmptySet
<1>3. PICK n \in 0..(MaxTokens * O) : spent' = spent + n
  BY DEF ProcessDies
<1>4. hosted' = hosted /\ lost' = lost + O
  BY DEF ProcessDies
<1>5. LogBounded'
  <2>1. MaxTokens * 0 = 0
    BY Numbers
  <2> QED BY <1>2, <1>4, <2>1, Numbers DEF LogBounded
<1>6. LogMisses'
  <2>1. MaxTokens * (lost + O) = MaxTokens * lost + MaxTokens * O
    BY Numbers, TimesSum
  <2>2. n \in Nat /\ n <= MaxTokens * O
    BY Numbers
  <2> QED BY <1>3, <1>4, <2>1, <2>2, Numbers DEF LogMisses
<1> QED BY <1>5, <1>6

\* A call let through: the log was below the limit, and all that is
\* outstanding, this call included, is at most one call per slot.
LEMMA MeterBudget ==
    ASSUME BudgetInv, NEW c \in Calls, Meter(c)
    PROVE  LogBounded' /\ LogMisses'
<1> USE DEF BudgetInv
<1>1. call \in [Calls -> CallStates] /\ c \notin Outstanding
  BY DEF TypeOK, Meter, At, Outstanding
<1>2. UNCHANGED <<hosted, spent, lost>>
  BY DEF Meter, usage
<1>3. LogMisses'
  BY <1>2 DEF LogMisses
<1>4. CASE End(c) /\ open' = open
  <2>1. Outstanding' = Outstanding
    BY <1>1, <1>4 DEF End, Outstanding, Idle
  <2> QED BY <1>2, <1>4, <2>1, Untouched
<1>5. CASE Send(c, "ollama", call[c].fell)
  <2>1. Outstanding' = Outstanding \cup {c}
    BY <1>1, <1>5 DEF Send, Outstanding, CallStates
  <2>2. Cardinality(Outstanding') = Cardinality(Outstanding) + 1
    BY <1>1, <2>1, Joined, Numbers
  <2>3. (hosted + own < Limit /\ open' = open) \/ open' = open + 1
    BY <1>1, <1>5 DEF Meter, Send, End, Idle, CallStates
  <2>4. CASE hosted + own < Limit /\ open' = open
    <3>1. Outstanding' \in SUBSET Calls
      BY <2>1, Numbers
    <3>2. Cardinality(Outstanding') \in Nat /\ Cardinality(Calls) + open \in Nat
          /\ Cardinality(Outstanding') <= Cardinality(Calls) + open
      BY <3>1, Counted, Numbers
    <3>3. MaxTokens * Cardinality(Outstanding') <= MaxTokens * (Cardinality(Calls) + open)
          /\ MaxTokens * Cardinality(Outstanding') \in Nat
      BY <3>2, MaxTokensNat, TimesMonotone
    <3>4. hosted <= Limit - 1
      BY <2>4, Numbers DEF TypeOK
    <3>5. LogBounded'
      BY <1>2, <2>4, <3>3, <3>4, Numbers DEF LogBounded
    <3> QED BY <1>3, <3>5
  <2>5. CASE open' = open + 1
    <3>1. MaxTokens * ((Cardinality(Calls) + open) + 1)
            = MaxTokens * (Cardinality(Calls) + open) + MaxTokens
      BY Numbers, TimesSum
    <3>2. (Cardinality(Calls) + open) + 1 = Cardinality(Calls) + (open + 1)
      BY Numbers
    <3>3. MaxTokens * (Cardinality(Outstanding) + 1)
            = MaxTokens * Cardinality(Outstanding) + MaxTokens
      BY Numbers, TimesSum
    <3>4. LogBounded'
      BY <1>2, <2>2, <2>5, <3>1, <3>2, <3>3, Numbers DEF LogBounded
    <3> QED BY <1>3, <3>4
  <2> QED BY <2>3, <2>4, <2>5
<1> QED BY <1>4, <1>5 DEF Meter

LEMMA CallBudgetStep ==
    ASSUME BudgetInv, NEW c \in Calls,
           Arrive(c) \/ Proceeds(c) \/ Upstream(c) \/ Client(c) \/ TimeOut(c)
    PROVE  LogBounded' /\ LogMisses'
<1>1. call \in [Calls -> CallStates]
  BY DEF BudgetInv, TypeOK
<1>2. CASE Arrive(c)
  <2>1. Outstanding' = Outstanding
    BY <1>1, <1>2 DEF Arrive, At, GoTo, Outstanding, CallStates
  <2> QED BY <1>2, <2>1, Untouched DEF Arrive, usage
<1>3. CASE Resolve(c)
  <2>1. Outstanding' = Outstanding
    BY <1>1, <1>3 DEF Resolve, At, GoTo, End, Idle, Outstanding, CallStates
  <2> QED BY <1>3, <2>1, Untouched DEF Resolve, usage
<1>4. CASE LoadKey(c)
  <2>1. Outstanding' = Outstanding
    BY <1>1, <1>4 DEF LoadKey, At, Send, Outstanding, CallStates
  <2> QED BY <1>4, <2>1, Untouched DEF LoadKey, usage
<1>5. CASE Meter(c)
  BY <1>5, MeterBudget
<1>6. CASE Record(c)
  BY <1>6, RecordBudget
<1>7. CASE Respond(c)
  <2>1. Outstanding' = Outstanding
    BY <1>1, <1>7 DEF Respond, At, GoTo, Outstanding, CallStates
  <2> QED BY <1>7, <2>1, Untouched DEF Respond, usage
<1>8. CASE FetchFails(c)
  BY <1>8, LoseBudget DEF FetchFails
<1>9. CASE StreamEnds(c)
  <2>1. Outstanding' = Outstanding
    BY <1>1, <1>9 DEF StreamEnds, At, Outstanding, CallStates
  <2> QED BY <1>9, <2>1, Untouched DEF StreamEnds, usage
<1>10. CASE StreamBreaks(c)
  BY <1>10, DeathBudget DEF StreamBreaks
<1>11. CASE ClientLeaves(c)
  <2>1. Outstanding' = Outstanding
    BY <1>1, <1>11 DEF ClientLeaves, At, GoTo, Outstanding, CallStates
  <2> QED BY <1>11, <2>1, Untouched DEF ClientLeaves, usage
<1>12. CASE Abandon(c)
  BY <1>12, LoseBudget DEF Abandon
<1>13. CASE TimeOut(c)
  BY <1>13, LoseBudget, DeathBudget DEF TimeOut
<1> QED BY <1>2, <1>3, <1>4, <1>5, <1>6, <1>7, <1>8, <1>9, <1>10, <1>11, <1>12, <1>13
     DEF Proceeds, Upstream, Client

LEMMA BudgetStep == BudgetInv /\ [Next]_vars => BudgetInv'
<1> SUFFICES ASSUME BudgetInv, [Next]_vars PROVE BudgetInv'
  OBVIOUS
<1>1. TypeOK'
  BY TypeStep DEF BudgetInv
<1>2. ASSUME NEW c \in Calls,
             Arrive(c) \/ Proceeds(c) \/ Upstream(c) \/ Client(c) \/ TimeOut(c)
      PROVE  LogBounded' /\ LogMisses'
  BY <1>2, CallBudgetStep
<1>3. ASSUME NEW h \in Handlers, Configure(h)
      PROVE  LogBounded' /\ LogMisses'
  <2>1. UNCHANGED <<call, hosted, spent, open, lost>>
    BY <1>3 DEF Configure, SetKey, RemoveKey, Choose, WriteLlm, usage
  <2>2. Outstanding' = Outstanding
    BY <2>1 DEF Outstanding
  <2> QED BY <2>1, <2>2, Untouched
<1>4. CASE Midnight
  <2>1. Outstanding' = Outstanding /\ hosted' = 0 /\ spent' = 0 /\ open' = 0 /\ lost' = 0
    BY <1>4 DEF Midnight, Outstanding
  <2>2. Outstanding \in SUBSET Calls /\ Limit >= 1 /\ Limit \in Nat
    BY Numbers DEF BudgetInv
  <2>3. MaxTokens * Cardinality(Outstanding) <= MaxTokens * Cardinality(Calls)
        /\ MaxTokens * Cardinality(Outstanding) \in Nat
        /\ MaxTokens * Cardinality(Calls) \in Nat
    BY <2>2, Counted, TimesMonotone, MaxTokensNat
  <2>4. Cardinality(Calls) + 0 = Cardinality(Calls) /\ MaxTokens * 0 = 0
    BY <2>2, Counted, MaxTokensNat
  <2> QED BY <1>1, <2>1, <2>2, <2>3, <2>4 DEF BudgetInv, LogBounded, LogMisses
<1>5. CASE UNCHANGED vars
  <2>1. UNCHANGED <<call, hosted, spent, open, lost>>
    BY <1>5 DEF vars, usage
  <2>2. Outstanding' = Outstanding
    BY <2>1 DEF Outstanding
  <2> QED BY <1>1, <2>1, <2>2, Untouched DEF BudgetInv
<1> QED BY <1>1, <1>2, <1>3, <1>4, <1>5 DEF Next, BudgetInv

\* The inductive invariant, for any number of calls, handlers and faults.
THEOREM BudgetInductive == Spec => []BudgetInv
<1>1. Init => BudgetInv
  <2> SUFFICES ASSUME Init PROVE BudgetInv
    OBVIOUS
  <2>1. TypeOK
    BY TypeInit
  <2>2. Outstanding = {}
    BY DEF Init, Outstanding, Idle
  <2>3. Cardinality(Outstanding) = 0
    BY <2>2, FS_EmptySet
  <2>4. MaxTokens * 0 = 0
    BY MaxTokensNat
  <2> QED BY <2>1, <2>3, <2>4, Numbers DEF Init, BudgetInv, LogBounded, LogMisses
<1> QED BY <1>1, BudgetStep, PTL DEF Spec

\* The variables of the proxy keep their types.
THEOREM ProxyTypeCorrect == Spec => []TypeOK
<1>1. BudgetInv => TypeOK
  BY DEF BudgetInv
<1> QED BY <1>1, BudgetInductive, PTL

\* The overshoot of the daily budget is bounded by the calls outstanding at one
\* time, the failing queries and the calls never logged.
THEOREM BudgetOvershoot == Spec => []OvershootBounded
<1>1. BudgetInv => OvershootBounded
  <2> SUFFICES ASSUME BudgetInv PROVE OvershootBounded
    OBVIOUS
  <2>1. Cardinality(Calls) + open \in Nat /\ lost \in Nat
    BY Numbers DEF BudgetInv
  <2>2. MaxTokens * ((Cardinality(Calls) + open) + lost)
          = MaxTokens * (Cardinality(Calls) + open) + MaxTokens * lost
    BY <2>1, MaxTokensNat, TimesSum
  <2> QED BY <2>2, Numbers DEF BudgetInv, LogBounded, LogMisses, OvershootBounded
<1> QED BY <1>1, BudgetInductive, PTL

-----------------------------------------------------------------------------
(***************************************************************************)
(* The route.  While no key was removed and no query failed, a key is      *)
(* there wherever something relies on it: in the row that routes to it, in *)
(* the handler about to write that row, in the call about to load it.      *)
(***************************************************************************)
Impaired == removed \/ faults > 0

KeyIsThere ==
    /\ llm = "anthropic_byok" => key
    /\ \A h \in Handlers : handler[h] = "anthropic_byok" => key
    /\ \A c \in Calls : At(c, "keying") => key

NoneFell == \A c \in Calls : ~call[c].fell

RouteInv == Impaired \/ (KeyIsThere /\ NoneFell)

\* Neither a removal nor a failure is undone.
LEMMA StaysImpaired ==
    ASSUME TypeOK, [Next]_vars, Impaired
    PROVE  Impaired'
<1>1. removed' = removed \/ removed'
  BY Zenon DEF Next, Arrive, Proceeds, Upstream, Client, TimeOut, Configure, Midnight, Resolve,
     LoadKey, Meter, Record, Respond, FetchFails, StreamEnds, StreamBreaks, ClientLeaves, Abandon,
     ProcessDies, SetKey, RemoveKey, Choose, WriteLlm, conf, vars
<1>2. faults' = faults \/ Fault
  BY Zenon DEF Next, Arrive, Proceeds, Upstream, Client, TimeOut, Configure, Midnight, Resolve,
     LoadKey, Meter, Record, Respond, FetchFails, StreamEnds, StreamBreaks, ClientLeaves, Abandon,
     SetKey, RemoveKey, Choose, WriteLlm, vars
<1>3. faults > 0 => faults' > 0
  BY <1>2 DEF Fault, TypeOK
<1> QED BY <1>1, <1>3, Zenon DEF Impaired

\* A failure shows.
LEMMA FaultImpairs == ASSUME TypeOK, Fault PROVE Impaired'
<1>1. faults' > 0
  BY DEF Fault, TypeOK
<1> QED BY <1>1, Zenon DEF Impaired

\* A call comes to load the key only where the row says so, and falls back
\* only without one or by a failure.
LEMMA CallRoutes ==
    ASSUME TypeOK, KeyIsThere, NoneFell, NEW c \in Calls, ~Impaired',
           Arrive(c) \/ Proceeds(c) \/ Upstream(c) \/ Client(c) \/ TimeOut(c)
    PROVE  KeyIsThere' /\ NoneFell'
<1>1. ~Fault
  BY FaultImpairs
<1>2. UNCHANGED <<llm, key>>
  BY Zenon DEF Arrive, Proceeds, Upstream, Client, TimeOut, Resolve, LoadKey, Meter, Record, Respond,
     FetchFails, StreamEnds, StreamBreaks, ClientLeaves, Abandon, ProcessDies, conf
<1>3. call \in [Calls -> CallStates] /\ ~call[c].fell
  BY DEF TypeOK, NoneFell
<1>4. ~Idle.fell /\ Idle.pc # "keying"
  BY DEF Idle
<1>5. CASE ProcessDies
  <2>1. /\ \A d \in Calls : call'[d] = Idle
        /\ \A h \in Handlers : handler'[h] = "none"
    BY <1>5 DEF ProcessDies
  <2>2. llm' = "anthropic_byok" => key'
    BY <1>2, Zenon DEF KeyIsThere
  <2>3. NoneFell' /\ \A d \in Calls : ~At(d, "keying")'
    BY <1>4, <2>1 DEF NoneFell, At
  <2>4. \A h \in Handlers : handler'[h] # "anthropic_byok"
    BY <2>1
  <2> QED BY <2>2, <2>3, <2>4, Zenon DEF KeyIsThere
<1>6. CASE ~ProcessDies
  <2>1. UNCHANGED handler
    BY <1>6, Zenon DEF Arrive, Proceeds, Upstream, Client, TimeOut, Resolve, LoadKey, Meter, Record,
       Respond, FetchFails, StreamEnds, StreamBreaks, ClientLeaves, Abandon, conf
  <2>2. \A d \in Calls : d # c => call'[d] = call[d]
    BY <1>3, <1>6 DEF Arrive, Proceeds, Upstream, Client, TimeOut, Resolve, LoadKey, Meter, Record,
       Respond, FetchFails, StreamEnds, StreamBreaks, ClientLeaves, Abandon, Lose, End, GoTo, Send
  <2>3. At(c, "keying")' => llm = "anthropic_byok"
    <3>1. call[c] \in CallStates /\ DOMAIN call = Calls
      BY <1>3
    <3>2. CASE Resolve(c)
      BY <1>4, <3>1, <3>2 DEF Resolve, End, GoTo, At, CallStates
    <3>3. CASE Arrive(c) \/ LoadKey(c) \/ Meter(c) \/ Record(c)
      BY <1>4, <3>1, <3>3 DEF Arrive, LoadKey, Meter, Record, End, GoTo, Send, At, CallStates
    <3>4. CASE Upstream(c) \/ Client(c) \/ TimeOut(c)
      BY <1>4, <1>6, <3>1, <3>4 DEF Upstream, Client, TimeOut, Respond, FetchFails, StreamEnds,
         StreamBreaks, ClientLeaves, Abandon, Lose, End, GoTo, At, CallStates
    <3> QED BY <3>2, <3>3, <3>4, Zenon DEF Proceeds
  <2>4. ~call'[c].fell
    <3>1. CASE LoadKey(c)
      <4>1. key
        BY <3>1, Zenon DEF LoadKey, KeyIsThere
      <4>2. Send(c, "anthropic", FALSE)
        BY <1>1, <3>1, <4>1, Zenon DEF LoadKey
      <4> QED BY <1>3, <4>2 DEF Send
    <3>2. CASE \/ End(c)
               \/ \E pc \in Points : GoTo(c, pc)
               \/ Send(c, "ollama", call[c].fell)
               \/ \E n \in Nat : call' = [call EXCEPT ![c].pc = "recording", ![c].out = n]
      BY <1>3, <1>4, <3>2 DEF End, GoTo, Send, CallStates
    <3>3. CASE Arrive(c) \/ Resolve(c) \/ Respond(c) \/ ClientLeaves(c)
      <4>1. End(c) \/ \E pc \in Points : GoTo(c, pc)
        BY <3>3 DEF Arrive, Resolve, Respond, ClientLeaves, Points
      <4> QED BY <3>2, <4>1
    <3>4. CASE Meter(c) \/ Record(c)
      BY <3>2, <3>4 DEF Meter, Record
    <3>5. CASE FetchFails(c) \/ StreamEnds(c) \/ Abandon(c) \/ TimeOut(c) \/ StreamBreaks(c)
      <4>1. \A n \in 0..MaxTokens : n \in Nat
        BY MaxTokensNat
      <4> QED BY <1>6, <3>2, <3>5, <4>1 DEF FetchFails, StreamEnds, StreamBreaks, Abandon, TimeOut,
                 Lose
    <3> QED BY <3>1, <3>3, <3>4, <3>5, Zenon DEF Proceeds, Upstream, Client
  <2>5. NoneFell'
    BY <2>2, <2>4, Zenon DEF NoneFell
  <2>6. \A d \in Calls : At(d, "keying")' => At(d, "keying") \/ llm = "anthropic_byok"
    BY <2>2, <2>3, Zenon DEF At
  <2> QED BY <1>2, <2>1, <2>5, <2>6, Zenon DEF KeyIsThere
<1> QED BY <1>5, <1>6

\* updateConfig stores the key before it switches to it.
LEMMA ConfigRoutes ==
    ASSUME TypeOK, KeyIsThere, NoneFell, NEW h \in Handlers, ~Impaired', Configure(h)
    PROVE  KeyIsThere' /\ NoneFell'
<1>1. ~Fault /\ ~removed'
  BY FaultImpairs, Zenon DEF Impaired
<1>2. ~RemoveKey(h)
  BY <1>1, Zenon DEF RemoveKey
<1>3. UNCHANGED call
  BY Zenon DEF Configure, SetKey, RemoveKey, Choose, WriteLlm
<1>4. handler \in [Handlers -> {"none", "gemma_hosted", "anthropic_byok"}]
  BY DEF TypeOK
<1>5. key' = key \/ key'
  BY <1>2, <1>1, Zenon DEF Configure, SetKey, Choose, WriteLlm
<1>6. llm' = "anthropic_byok" => key'
  <2>1. llm' = llm \/ llm' = handler[h]
    BY <1>2, <1>1, Zenon DEF Configure, SetKey, Choose, WriteLlm
  <2> QED BY <1>5, <2>1, Zenon DEF KeyIsThere
<1>7. ASSUME NEW g \in Handlers, handler'[g] = "anthropic_byok" PROVE key'
  <2>1. CASE SetKey(h)
    BY <1>1, <2>1, Zenon DEF SetKey
  <2>2. CASE Choose(h)
    <3>1. PICK choice \in {"gemma_hosted", "anthropic_byok"} :
             /\ choice = "anthropic_byok" => key
             /\ handler' = [handler EXCEPT ![h] = choice]
      BY <2>2, Zenon DEF Choose
    <3>2. handler'[g] = handler[g] \/ handler'[g] = choice
      BY <1>4, <3>1
    <3> QED BY <1>5, <1>7, <3>1, <3>2, Zenon DEF KeyIsThere
  <2>3. CASE WriteLlm(h)
    <3>1. handler'[g] = handler[g]
      BY <1>4, <1>7, <2>3 DEF WriteLlm
    <3> QED BY <1>5, <1>7, <3>1, Zenon DEF KeyIsThere
  <2> QED BY <1>2, <2>1, <2>2, <2>3, Zenon DEF Configure
<1>8. \A c \in Calls : At(c, "keying")' => key'
  BY <1>3, <1>5, Zenon DEF At, KeyIsThere
<1>9. NoneFell'
  BY <1>3, Zenon DEF NoneFell
<1> QED BY <1>6, <1>7, <1>8, <1>9, Zenon DEF KeyIsThere

LEMMA RouteStep == TypeOK /\ RouteInv /\ [Next]_vars => RouteInv'
<1> SUFFICES ASSUME TypeOK, RouteInv, [Next]_vars, ~Impaired' PROVE KeyIsThere' /\ NoneFell'
  BY Zenon DEF RouteInv
<1>1. KeyIsThere /\ NoneFell
  BY StaysImpaired, Zenon DEF RouteInv
<1>2. ASSUME NEW c \in Calls,
             Arrive(c) \/ Proceeds(c) \/ Upstream(c) \/ Client(c) \/ TimeOut(c)
      PROVE  KeyIsThere' /\ NoneFell'
  BY <1>1, <1>2, CallRoutes
<1>3. ASSUME NEW h \in Handlers, Configure(h) PROVE KeyIsThere' /\ NoneFell'
  BY <1>1, <1>3, ConfigRoutes
<1>4. CASE Midnight \/ UNCHANGED vars
  <2>1. UNCHANGED <<llm, key, handler, call>>
    BY <1>4, Zenon DEF Midnight, vars, conf
  <2> QED BY <1>1, <2>1, Zenon DEF KeyIsThere, NoneFell, At
<1> QED BY <1>2, <1>3, <1>4, Zenon DEF Next

\* While no key was removed and no query failed, no call of a user who chose
\* their own key is answered by the hosted model, however the configuration
\* requests and the calls overlap.
THEOREM FallbackExplained == Spec => []FallbackNeedsRemoval
<1>1. Init => TypeOK /\ RouteInv
  <2> SUFFICES ASSUME Init PROVE RouteInv
    BY TypeInit
  <2>1. /\ llm = "gemma_hosted" /\ handler = [h \in Handlers |-> "none"]
        /\ call = [c \in Calls |-> Idle]
    BY DEF Init
  <2>2. NoneFell /\ \A c \in Calls : ~At(c, "keying")
    BY <2>1 DEF NoneFell, At, Idle
  <2>3. llm # "anthropic_byok" /\ \A h \in Handlers : handler[h] # "anthropic_byok"
    BY <2>1
  <2> QED BY <2>2, <2>3, Zenon DEF RouteInv, KeyIsThere
<1>2. TypeOK /\ RouteInv /\ [Next]_vars => (TypeOK /\ RouteInv)'
  BY TypeStep, RouteStep
<1>3. RouteInv => FallbackNeedsRemoval
  BY Zenon DEF RouteInv, Impaired, NoneFell, FallbackNeedsRemoval
<1> QED BY <1>1, <1>2, <1>3, PTL DEF Spec
=============================================================================
