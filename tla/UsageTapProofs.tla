----------------------------- MODULE UsageTapProofs -----------------------------
(***************************************************************************)
(* The streaming tap counts every event of the response once, whatever the *)
(* chunks the response arrives in, and the other tap reads the whole body. *)
(*                                                                         *)
(* What is on the wire and in the buffer is a stretch of the stream, and   *)
(* the buffer begins where an event does (TapInv).  So the empty lines of  *)
(* a buffer with a chunk are at every sixth place (EndsOf), each event is  *)
(* cut out as it was sent (EventOf), and by induction along the buffer the *)
(* tally after its k-th event is what the first Whole + k events say       *)
(* (TallyOf).                                                              *)
(***************************************************************************)
EXTENDS UsageTap, SequenceTheorems, WellFoundedInduction, TLAPS

-----------------------------------------------------------------------------
(* Least and greatest numbers                                              *)

Less == OpToRel(<, Nat)

LEMMA LessWellFounded == IsWellFoundedOn(Less, Nat)
BY NatLessThanWellFounded, Zenon DEF Less

LEMMA InLess ==
    ASSUME NEW x \in Nat, NEW y \in Nat, x < y
    PROVE  <<x, y>> \in Less
BY Zenon DEF Less, OpToRel

LEMMA LeastExists ==
    ASSUME NEW S \in SUBSET Nat, S # {}
    PROVE  \E x \in S : \A y \in S : x <= y
<1>1. PICK x \in S : \A y \in S : <<y, x>> \notin Less
  BY LessWellFounded, WFMin, Zenon
<1>2. \A y \in S : ~(y < x)
  BY <1>1, InLess
<1> QED BY <1>2

LEMMA MaxIs ==
    ASSUME NEW S \in SUBSET Nat, NEW m \in S, \A y \in S : m >= y
    PROVE  Max(S) = m
<1>1. \E x \in S : \A y \in S : x >= y
  OBVIOUS
<1>2. Max(S) \in S /\ \A y \in S : Max(S) >= y
  BY <1>1, Zenon DEF Max
<1>3. m \in Nat /\ Max(S) \in Nat
  BY <1>2
<1>4. m <= Max(S) /\ Max(S) <= m
  BY <1>2, <1>3
<1> QED BY <1>3, <1>4

LEMMA MinIs ==
    ASSUME NEW S \in SUBSET Nat, NEW m \in S, \A y \in S : m <= y
    PROVE  Min(S) = m
<1>1. \E x \in S : \A y \in S : x <= y
  OBVIOUS
<1>2. Min(S) \in S /\ \A y \in S : Min(S) <= y
  BY <1>1, Zenon DEF Min
<1>3. m \in Nat /\ Min(S) \in Nat
  BY <1>2
<1>4. m <= Min(S) /\ Min(S) <= m
  BY <1>2, <1>3
<1> QED BY <1>3, <1>4

\* A place of the stream is a place of one of its events.
LEMMA PlaceOf ==
    ASSUME NEW i \in Nat
    PROVE  \E q \in Nat, r \in 0..5 : i = 6 * q + r
<1>1. i = 6 * (i \div 6) + (i % 6) /\ i \div 6 \in Nat /\ i % 6 \in 0..5
  OBVIOUS
<1> QED BY <1>1

LEMMA Divided ==
    ASSUME NEW q \in Nat, NEW r \in 0..5
    PROVE  (6 * q + r) \div 6 = q
OBVIOUS

-----------------------------------------------------------------------------
(* The tally                                                               *)

Tallies(g, c, b) ==
    g = [i \in 0..Len(b) |->
            IF i = 0 THEN c
            ELSE IF i \in Ends(b) THEN Counting(g[i - 1], Event(b, i))
            ELSE g[i - 1]]

\* The recursion of Tally has a solution.
LEMMA TallyExists ==
    ASSUME NEW c, NEW b, Len(b) \in Nat
    PROVE  \E g : Tallies(g, c, b)
<1> DEFINE After(x, i) == IF i \in Ends(b) THEN Counting(x, Event(b, i)) ELSE x
           Solves(g, m) == /\ g[0] = c
                           /\ \A i \in 1..m : g[i] = After(g[i - 1], i)
           Bad == {m \in Nat : ~\E g : Solves(g, m)}
<1>1. Bad = {}
  <2> SUFFICES ASSUME Bad # {} PROVE FALSE
    OBVIOUS
  <2>1. PICK m \in Bad : \A k \in Bad : m <= k
    BY LeastExists
  <2>2. m # 0
    <3>1. Solves([i \in {0} |-> c], 0)
      BY DEF Solves
    <3> QED BY <2>1, <3>1
  <2>3. m \in Nat
    BY <2>1
  <2>6. m - 1 \notin Bad
    <3> HIDE DEF Bad
    <3> QED BY <2>1, <2>2, <2>3
  <2> HIDE DEF After
  <2>4. PICK g : Solves(g, m - 1)
    BY <2>2, <2>3, <2>6
  <2> DEFINE h == [i \in 0..m |-> IF i = m THEN After(g[m - 1], m) ELSE g[i]]
  <2>5. Solves(h, m)
    BY <2>1, <2>2, <2>4
  <2> QED BY <2>1, <2>5
<1>2. PICK g : Solves(g, Len(b))
  BY <1>1
<1> HIDE DEF After
<1> DEFINE h == [i \in 0..Len(b) |-> g[i]]
<1>3. \A i \in 0..Len(b) : h[i] = IF i = 0 THEN c ELSE After(h[i - 1], i)
  BY <1>2
<1>4. h = [i \in 0..Len(b) |-> IF i = 0 THEN c ELSE After(h[i - 1], i)]
  BY <1>3
<1>5. Tallies(h, c, b)
  BY <1>4 DEF After, Tallies
<1> QED BY <1>5

LEMMA TallyIs ==
    ASSUME NEW c, NEW b, Len(b) \in Nat
    PROVE  /\ Tally(c, b)[0] = c
           /\ \A i \in 1..Len(b) :
                 Tally(c, b)[i] = IF i \in Ends(b)
                                  THEN Counting(Tally(c, b)[i - 1], Event(b, i))
                                  ELSE Tally(c, b)[i - 1]
<1> DEFINE g == Tally(c, b)
<1>1. g = CHOOSE x : Tallies(x, c, b)
  BY DEF Tally, Tallies
<1>2. Tallies(g, c, b)
  BY <1>1, TallyExists
<1> HIDE DEF g
<1> QED BY <1>2 DEF g, Tallies

-----------------------------------------------------------------------------
(* The events in a stretch of the stream                                   *)

LEMMA Cut ==
    ASSUME NEW S, NEW s \in Seq(S), NEW m \in Nat \ {0}, NEW n \in Nat, m <= n + 1, n <= Len(s)
    PROVE  /\ SubSeq(s, m, n) \in Seq(S)
           /\ Len(SubSeq(s, m, n)) = n - m + 1
           /\ \A i \in 1..n - m + 1 : SubSeq(s, m, n)[i] = s[m + i - 1]
<1>1. m \in Int /\ n \in Int /\ \A i \in m..n : s[i] \in S
  BY ElementOfSeq
<1>2. /\ SubSeq(s, m, n) \in Seq(S)
      /\ Len(SubSeq(s, m, n)) = IF m <= n THEN n - m + 1 ELSE 0
      /\ \A i \in 1..n - m + 1 : SubSeq(s, m, n)[i] = s[m + i - 1]
  BY <1>1, SubSeqProperties
<1> QED BY <1>2

\* b is the stretch of the stream s after its first `from` pieces.
Holds(s, b, from) ==
    /\ Len(b) \in Nat /\ from + Len(b) <= 6 * Len(s)
    /\ \A q \in Nat, j \in 1..6 :
          6 * q + j - from \in 1..Len(b) => b[6 * q + j - from] = Serialized(s[q + 1])[j]

LEMMA SerializedIs ==
    ASSUME NEW e
    PROVE  /\ Serialized(e)[1] = Name /\ Serialized(e)[2] = Newline
           /\ Serialized(e)[3] = Piece(e, "data") /\ Serialized(e)[4] = Piece(e, "rest")
           /\ Serialized(e)[5] = Newline /\ Serialized(e)[6] = Newline
           /\ Len(Serialized(e)) = 6
BY DEF Serialized

LEMMA PiecesDiffer ==
    /\ Name # Newline /\ Name.half = "event" /\ Newline.half = "newline"
    /\ \A e, h : Piece(e, h).of = e /\ Piece(e, h).half = h
    /\ \A e : Piece(e, "data") # Newline /\ Piece(e, "rest") # Newline
BY DEF Name, Newline, Piece

LEMMA NewlineAt ==
    ASSUME NEW e, NEW j \in 1..6
    PROVE  Serialized(e)[j] = Newline <=> j \in {2, 5, 6}
<1>1. CASE j \in {1, 3, 4}
  <2>1. Serialized(e)[1] # Newline /\ Serialized(e)[3] # Newline /\ Serialized(e)[4] # Newline
    BY DEF Serialized, Piece, Name, Newline
  <2>2. Serialized(e)[j] # Newline
    BY <1>1, <2>1, Zenon
  <2> QED BY <1>1, <2>2
<1>2. CASE j \in {2, 5, 6}
  BY <1>2, SerializedIs, Zenon
<1> QED BY <1>1, <1>2

\* In a buffer that begins where an event does, every sixth piece ends one.
LEMMA EndsOf ==
    ASSUME NEW s, NEW b, NEW w \in Nat, Len(s) \in Nat, Holds(s, b, 6 * w)
    PROVE  Ends(b) = {i \in 1..Len(b) : \E k \in Nat : i = 6 * k}
<1> DEFINE sixth == {i \in 1..Len(b) : \E k \in Nat : i = 6 * k}
<1>1. Len(b) \in Nat
  BY DEF Holds
<1>2. ASSUME NEW i \in 1..Len(b), NEW q \in Nat, NEW j \in 1..6, i = 6 * q + j
      PROVE  b[i] = Newline <=> j \in {2, 5, 6}
  <2>1. 6 * (w + q) + j - 6 * w = i /\ w + q \in Nat
    BY <1>2
  <2>2. b[i] = Serialized(s[w + q + 1])[j]
    BY <2>1 DEF Holds
  <2> QED BY <2>2, NewlineAt
<1>3. EmptyLines(b) = sixth
  <2>1. ASSUME NEW i \in 2..Len(b)
        PROVE  b[i - 1] = Newline /\ b[i] = Newline <=> \E k \in Nat : i = 6 * k
    <3>0. i - 1 \in Nat
      BY <1>1
    <3>1. PICK q \in Nat, r \in 0..5 : i - 1 = 6 * q + r
      BY <3>0, PlaceOf
    <3>2. CASE r = 0
      <4>1. q \in Nat \ {0} /\ i = 6 * q + 1
        BY <3>1, <3>2
      <4>2. b[i] # Newline
        BY <4>1, <1>1, <1>2
      <4> QED BY <4>1, <4>2
    <3>3. CASE r # 0
      <4>1. i = 6 * q + (r + 1) /\ r + 1 \in 1..6 /\ r \in 1..6 /\ i - 1 \in 1..Len(b) /\ i \in 1..Len(b)
        BY <3>1, <3>3, <1>1
      <4>2. b[i - 1] = Newline <=> r \in {2, 5, 6}
        BY <4>1, <3>1, <1>2
      <4>3. b[i] = Newline <=> r + 1 \in {2, 5, 6}
        BY <4>1, <1>2
      <4>4. b[i - 1] = Newline /\ b[i] = Newline <=> r = 5
        BY <4>2, <4>3, <3>1
      <4>5. (\E k \in Nat : i = 6 * k) <=> r = 5
        <5>1. ASSUME r = 5 PROVE i = 6 * (q + 1) /\ q + 1 \in Nat
          BY <4>1, <5>1
        <5>2. ASSUME NEW k \in Nat, i = 6 * k PROVE r = 5
          BY <4>1, <5>2
        <5> QED BY <5>1, <5>2
      <4> QED BY <4>4, <4>5
    <3> QED BY <3>2, <3>3
  <2>2. \A i \in sixth : i \in 2..Len(b)
    BY <1>1
  <2>3. \A i \in EmptyLines(b) : i \in sixth
    BY <2>1, <1>1 DEF EmptyLines
  <2>4. \A i \in sixth : i \in EmptyLines(b)
    BY <2>1, <2>2, <1>1 DEF EmptyLines
  <2> HIDE DEF sixth
  <2> QED BY <2>3, <2>4
<1>4. \A i \in sixth : i - 1 \notin sixth
  BY <1>1
<1> DEFINE Cuts(ends) == \A i \in EmptyLines(b) : i \in ends <=> i - 1 \notin ends
<1>5. sixth \in SUBSET EmptyLines(b) /\ Cuts(sixth)
  BY <1>3, <1>4
<1>6. \A ends \in SUBSET EmptyLines(b) : Cuts(ends) => ends = sixth
  BY <1>3, <1>4
<1>7. Ends(b) = CHOOSE ends \in SUBSET EmptyLines(b) : Cuts(ends)
  BY DEF Ends
<1> HIDE DEF Cuts, sixth
<1>8. Ends(b) \in SUBSET EmptyLines(b) /\ Cuts(Ends(b))
  BY <1>5, <1>7
<1> QED BY <1>6, <1>8 DEF sixth

LEMMA StartIs ==
    ASSUME NEW s, NEW b, NEW w \in Nat, Len(s) \in Nat, Holds(s, b, 6 * w),
           NEW k \in Nat, NEW i \in 6 * k + 1 .. 6 * k + 6, i <= Len(b) + 1
    PROVE  StartOf(b, i) = 6 * k + 1
<1> DEFINE before == {0} \cup {j \in Ends(b) : j < i}
<1>1. Len(b) \in Nat
  BY DEF Holds
<1>2. before \in SUBSET Nat
  BY <1>1, EndsOf
<1>3. 6 * k \in before
  <2>1. CASE k = 0
    BY <2>1
  <2>2. CASE k # 0
    BY <2>2, <1>1, EndsOf
  <2> QED BY <2>1, <2>2
<1>4. \A j \in before : 6 * k >= j
  BY <1>1, EndsOf
<1>5. Max(before) = 6 * k
  <2> HIDE DEF before
  <2> QED BY <1>2, <1>3, <1>4, MaxIs
<1> QED BY <1>5 DEF StartOf

\* parseEvent finds the data line.
LEMMA ParseAt ==
    ASSUME NEW raw, Len(raw) \in Nat, DOMAIN raw = 1..Len(raw),
           NEW p \in 1..Len(raw) - 1, NEW e,
           raw[p] = Piece(e, "data"), raw[p + 1] = Piece(e, "rest"),
           \A i \in 1..p - 1 : raw[i].half # "data"
    PROVE  Parse(raw) = e
<1> DEFINE starts == {i \in DOMAIN raw : raw[i].half = "data"}
           first == CHOOSE i \in starts : \A j \in starts : i <= j
<1>0. raw[p].half = "data" /\ raw[p].of = e
  BY DEF Piece
<1>1. p \in starts /\ \A j \in starts : p <= j
  BY <1>0
<1>2. first \in starts /\ \A j \in starts : first <= j
  <2>1. \E i \in starts : \A j \in starts : i <= j
    BY <1>1
  <2> QED BY <2>1, Zenon
<1>3. first = p
  <2>1. starts \in SUBSET Nat
    OBVIOUS
  <2> HIDE DEF first, starts
  <2> QED BY <2>1, <1>1, <1>2
<1> HIDE DEF starts, first
<1>4. starts # {} /\ first < Len(raw) /\ raw[first + 1] = Piece(raw[first].of, "rest") /\ raw[first].of = e
  BY <1>0, <1>1, <1>3
<1> QED BY <1>4, Zenon DEF Parse, starts, first

\* Each event is cut out as the upstream sent it.
LEMMA EventOf ==
    ASSUME NEW s, NEW S, NEW b \in Seq(S), NEW w \in Nat, Len(s) \in Nat, Holds(s, b, 6 * w),
           NEW k \in Nat, 6 * k + 6 <= Len(b)
    PROVE  Parse(Event(b, 6 * k + 6)) = s[w + k + 1]
<1> DEFINE e == s[w + k + 1]
           raw == Event(b, 6 * k + 6)
<1>1. Len(b) \in Nat
  BY DEF Holds
<1>2. raw = SubSeq(b, 6 * k + 1, 6 * k + 4)
  BY <1>1, StartIs DEF Event
<1>3. \A j \in 1..6 : b[6 * k + j] = Serialized(e)[j]
  <2> SUFFICES ASSUME NEW j \in 1..6 PROVE b[6 * k + j] = Serialized(e)[j]
    OBVIOUS
  <2>1. 6 * (w + k) + j - 6 * w = 6 * k + j /\ w + k \in Nat /\ 6 * k + j \in 1..Len(b)
    BY <1>1
  <2> QED BY <2>1 DEF Holds
<1>4. raw \in Seq(S) /\ Len(raw) = 4 /\ \A j \in 1..4 : raw[j] = b[6 * k + j]
  <2>1. 6 * k + 1 \in Nat \ {0} /\ 6 * k + 4 \in Nat /\ 6 * k + 1 <= 6 * k + 4 + 1
        /\ 6 * k + 4 <= Len(b)
    BY <1>1
  <2>2. 6 * k + 4 - (6 * k + 1) + 1 = 4 /\ \A j \in 1..4 : 6 * k + 1 + j - 1 = 6 * k + j
    OBVIOUS
  <2> HIDE DEF raw
  <2>3. /\ raw \in Seq(S) /\ Len(raw) = 6 * k + 4 - (6 * k + 1) + 1
        /\ \A j \in 1 .. 6 * k + 4 - (6 * k + 1) + 1 : raw[j] = b[6 * k + 1 + j - 1]
    BY <1>2, <2>1, Cut
  <2> QED BY <2>2, <2>3
<1> HIDE DEF raw
<1>5. /\ raw[1] = Name /\ raw[2] = Newline
      /\ raw[3] = Piece(e, "data") /\ raw[4] = Piece(e, "rest")
  BY <1>3, <1>4, SerializedIs
<1>6. DOMAIN raw = 1..4
  BY <1>4
<1>7. \A i \in 1..2 : raw[i].half # "data"
  BY <1>5, PiecesDiffer
<1>8. Parse(raw) = e
  <2>1. 3 \in 1..Len(raw) - 1 /\ 3 + 1 = 4 /\ 1..3 - 1 = 1..2 /\ Len(raw) = 4
    BY <1>4
  <2>2. /\ raw[3] = Piece(e, "data") /\ raw[3 + 1] = Piece(e, "rest")
        /\ DOMAIN raw = 1..Len(raw) /\ Len(raw) \in Nat
        /\ \A i \in 1..3 - 1 : raw[i].half # "data"
    BY <2>1, <1>5, <1>6, <1>7
  <2> HIDE DEF e
  <2> QED BY <2>1, <2>2, ParseAt
<1> QED BY <1>8 DEF raw

-----------------------------------------------------------------------------
(* What the first w events of the stream state                             *)

StatingIn(s, type, w) == {i \in 1..w : s[i].type = type /\ s[i].tokens # None}
NamingIn(s, w) == {i \in 1..w : s[i].model # None}

Stated(s, type, w) == IF StatingIn(s, type, w) = {} THEN 0 ELSE s[Max(StatingIn(s, type, w))].tokens
Named(s, w) == IF NamingIn(s, w) = {} THEN None ELSE s[Min(NamingIn(s, w))].model

CountedTo(s, w) ==
    [input |-> Stated(s, "message_start", w), output |-> Stated(s, "message_delta", w), model |-> Named(s, w)]

Totals == [input : Counted, output : Counted, model : Models \cup {None}]

LEMMA StatedNext ==
    ASSUME NEW s, NEW w \in Nat, NEW type
    PROVE  Stated(s, type, w + 1) = IF s[w + 1].type = type /\ s[w + 1].tokens # None
                                 THEN s[w + 1].tokens ELSE Stated(s, type, w)
<1>1. StatingIn(s, type, w + 1) \in SUBSET Nat /\ \A i \in StatingIn(s, type, w + 1) : w + 1 >= i
  BY DEF StatingIn
<1>2. CASE s[w + 1].type = type /\ s[w + 1].tokens # None
  <2>1. w + 1 \in StatingIn(s, type, w + 1)
    BY <1>2 DEF StatingIn
  <2>2. Max(StatingIn(s, type, w + 1)) = w + 1
    BY <1>1, <2>1, MaxIs
  <2> QED BY <1>2, <2>1, <2>2 DEF Stated
<1>3. CASE ~(s[w + 1].type = type /\ s[w + 1].tokens # None)
  <2>1. \A i \in 1..w + 1 : i \in 1..w \/ i = w + 1
    OBVIOUS
  <2>2. \A i \in 1..w : i \in 1..w + 1
    OBVIOUS
  <2>3. StatingIn(s, type, w + 1) = StatingIn(s, type, w)
    BY <1>3, <2>1, <2>2, Zenon DEF StatingIn
  <2> QED BY <1>3, <2>3, Zenon DEF Stated
<1> QED BY <1>2, <1>3

LEMMA NamedNext ==
    ASSUME NEW s, NEW w \in Nat
    PROVE  Named(s, w + 1) = IF Named(s, w) = None THEN s[w + 1].model ELSE Named(s, w)
<1>1. NamingIn(s, w) \in SUBSET Nat /\ NamingIn(s, w + 1) \in SUBSET Nat
  BY DEF NamingIn
<1>2. \A i : i \in NamingIn(s, w + 1) <=> i \in NamingIn(s, w) \/ (i = w + 1 /\ s[w + 1].model # None)
  BY DEF NamingIn
<1>3. CASE NamingIn(s, w) = {}
  <2>1. Named(s, w) = None
    BY <1>3 DEF Named
  <2>2. CASE s[w + 1].model = None
    <3>1. NamingIn(s, w + 1) = {}
      BY <1>2, <1>3, <2>2
    <3> QED BY <2>1, <2>2, <3>1 DEF Named
  <2>3. CASE s[w + 1].model # None
    <3>1. w + 1 \in NamingIn(s, w + 1) /\ \A i \in NamingIn(s, w + 1) : i = w + 1
      BY <1>2, <1>3, <2>3
    <3>2. Min(NamingIn(s, w + 1)) = w + 1
      BY <1>1, <3>1, MinIs
    <3> QED BY <2>1, <3>1, <3>2 DEF Named
  <2> QED BY <2>2, <2>3
<1>4. CASE NamingIn(s, w) # {}
  <2>1. PICK m \in NamingIn(s, w) : \A i \in NamingIn(s, w) : m <= i
    BY <1>1, <1>4, LeastExists
  <2>2. Min(NamingIn(s, w)) = m
    BY <1>1, <2>1, MinIs
  <2>3. m \in 1..w /\ s[m].model # None
    BY <2>1 DEF NamingIn
  <2>4. m \in NamingIn(s, w + 1) /\ \A i \in NamingIn(s, w + 1) : m <= i
    BY <1>2, <2>1, <2>3
  <2>5. Min(NamingIn(s, w + 1)) = m
    BY <1>1, <2>4, MinIs
  <2> QED BY <1>4, <2>2, <2>3, <2>4, <2>5 DEF Named
<1> QED BY <1>3, <1>4

LEMMA NothingCounted ==
    ASSUME NEW s
    PROVE  CountedTo(s, 0) = [input |-> 0, output |-> 0, model |-> None]
<1>1. \A type : StatingIn(s, type, 0) = {}
  BY DEF StatingIn
<1>2. NamingIn(s, 0) = {}
  BY DEF NamingIn
<1> QED BY <1>1, <1>2 DEF CountedTo, Stated, Named

LEMMA TotalsTurned ==
    ASSUME NEW c \in Totals, NEW x, NEW y, NEW d, d = [c EXCEPT !.model = x, !.input = y]
    PROVE  d = [input |-> y, output |-> c.output, model |-> x]
<1>1. DOMAIN c = {"input", "output", "model"}
  BY DEF Totals
<1>2. d = [f \in {"input", "output", "model"} |->
              IF f = "model" THEN x ELSE IF f = "input" THEN y ELSE c[f]]
  BY <1>1
<1> QED BY <1>2

\* What one more event makes of it.
LEMMA CountOne ==
    ASSUME NEW s \in Seq(Payloads), NEW w \in Nat, w + 1 <= Len(s),
           CountedTo(s, w) \in Totals, NEW raw, Parse(raw) = s[w + 1]
    PROVE  /\ Counting(CountedTo(s, w), raw) = CountedTo(s, w + 1)
           /\ CountedTo(s, w + 1) \in Totals
<1> DEFINE e == s[w + 1]
           c == CountedTo(s, w)
<1>1. e \in Payloads /\ e # None
  BY NoPayloadIsNone
<1>2. c.input = Stated(s, "message_start", w) /\ c.output = Stated(s, "message_delta", w) /\ c.model = Named(s, w)
  BY DEF CountedTo
<1>3. Parse(raw) = e
  OBVIOUS
<1>4. CountedTo(s, w + 1) =
         [input |-> IF e.type = "message_start" /\ e.tokens # None THEN e.tokens ELSE c.input,
          output |-> IF e.type = "message_delta" /\ e.tokens # None THEN e.tokens ELSE c.output,
          model |-> IF c.model = None THEN e.model ELSE c.model]
  BY <1>2, StatedNext, NamedNext DEF CountedTo
<1> HIDE DEF e, c
<1>5. c \in Totals
  BY DEF c
<1>6. CASE e.type = "message_start"
  <2>1. e.tokens \in Counts \cup {None} /\ e.model \in Models \cup {None}
    BY <1>1, <1>6 DEF Payloads
  <2>2. CountedTo(s, w + 1) =
           [input |-> IF e.tokens # None THEN e.tokens ELSE c.input, output |-> c.output,
            model |-> IF c.model = None THEN e.model ELSE c.model]
    BY <1>4, <1>6
  <2>3. Counting(c, raw) =
           [c EXCEPT !.model = IF c.model = None THEN e.model ELSE c.model,
                     !.input = IF e.tokens # None THEN e.tokens ELSE c.input]
    BY <1>1, <1>3, <1>6 DEF Counting
  <2>4. Counting(c, raw) = CountedTo(s, w + 1)
    <3> DEFINE x == IF c.model = None THEN e.model ELSE c.model
               y == IF e.tokens # None THEN e.tokens ELSE c.input
    <3>1. Counting(c, raw) = [c EXCEPT !.model = x, !.input = y]
      BY <2>3
    <3>2. CountedTo(s, w + 1) = [input |-> y, output |-> c.output, model |-> x]
      BY <2>2
    <3> HIDE DEF x, y
    <3> QED BY <1>5, <3>1, <3>2, TotalsTurned
  <2>5. CountedTo(s, w + 1) \in Totals
    BY <1>5, <2>1, <2>2 DEF Totals, Counted
  <2> QED BY <2>4, <2>5 DEF c
<1>7. CASE e.type = "message_delta"
  <2>1. e.tokens \in Counts \cup {None} /\ e.model = None
    BY <1>1, <1>7 DEF Payloads
  <2>2. CountedTo(s, w + 1) =
           [input |-> c.input, output |-> IF e.tokens # None THEN e.tokens ELSE c.output,
            model |-> c.model]
    BY <1>4, <1>7, <2>1
  <2>3. Counting(c, raw) = [c EXCEPT !.output = IF e.tokens # None THEN e.tokens ELSE c.output]
    BY <1>1, <1>3, <1>7 DEF Counting
  <2>4. Counting(c, raw) = CountedTo(s, w + 1)
    BY <1>5, <2>2, <2>3 DEF Totals
  <2>5. CountedTo(s, w + 1) \in Totals
    BY <1>5, <2>1, <2>2 DEF Totals, Counted
  <2> QED BY <2>4, <2>5 DEF c
<1>8. CASE e.type \notin {"message_start", "message_delta"}
  <2>1. e.model = None
    BY <1>1, <1>8 DEF Payloads
  <2>2. CountedTo(s, w + 1) = [input |-> c.input, output |-> c.output, model |-> c.model]
    BY <1>4, <1>8, <2>1
  <2>3. Counting(c, raw) = c
    BY <1>1, <1>3, <1>8 DEF Counting
  <2>4. CountedTo(s, w + 1) = c
    BY <1>5, <2>2 DEF Totals
  <2> QED BY <1>5, <2>3, <2>4 DEF c
<1> QED BY <1>6, <1>7, <1>8

\* Along a buffer that begins after w events, the tally grows by one event at
\* every sixth piece.
LEMMA TallyOf ==
    ASSUME NEW s \in Seq(Payloads), NEW S, NEW b \in Seq(S), NEW w \in Nat, Holds(s, b, 6 * w),
           CountedTo(s, w) \in Totals,
           NEW k \in Nat, NEW r \in 0..5, 6 * k + r <= Len(b)
    PROVE  /\ Tally(CountedTo(s, w), b)[6 * k + r] = CountedTo(s, w + k)
           /\ CountedTo(s, w + k) \in Totals
<1> DEFINE g == Tally(CountedTo(s, w), b)
           Right(i) == \A l \in Nat, t \in 0..5 :
                          i = 6 * l + t => g[i] = CountedTo(s, w + l) /\ CountedTo(s, w + l) \in Totals
           Bad == {i \in 0..Len(b) : ~Right(i)}
<1>1. Len(b) \in Nat /\ Len(s) \in Nat /\ 6 * w + Len(b) <= 6 * Len(s)
  BY DEF Holds
<1>2. /\ g[0] = CountedTo(s, w)
      /\ \A i \in 1..Len(b) : g[i] = IF i \in Ends(b) THEN Counting(g[i - 1], Event(b, i)) ELSE g[i - 1]
  BY <1>1, TallyIs
<1>3. Ends(b) = {i \in 1..Len(b) : \E l \in Nat : i = 6 * l}
  BY <1>1, EndsOf
<1> HIDE DEF g
<1>4. Right(0)
  <2> SUFFICES ASSUME NEW l \in Nat, NEW t \in 0..5, 0 = 6 * l + t
               PROVE  g[0] = CountedTo(s, w + l) /\ CountedTo(s, w + l) \in Totals
    OBVIOUS
  <2>1. l = 0 /\ w + l = w
    OBVIOUS
  <2> QED BY <1>2, <2>1
<1>5. ASSUME NEW i \in 1..Len(b), Right(i - 1) PROVE Right(i)
  <2> SUFFICES ASSUME NEW l \in Nat, NEW t \in 0..5, i = 6 * l + t
               PROVE  g[i] = CountedTo(s, w + l) /\ CountedTo(s, w + l) \in Totals
    OBVIOUS
  <2>1. CASE t = 0
    <3>1. i \in Ends(b)
      BY <1>3, <2>1
    <3>2. PICK m \in Nat : l = m + 1
      <4>1. l - 1 \in Nat /\ l = (l - 1) + 1
        BY <2>1
      <4> QED BY <4>1
    <3>3. i = 6 * m + 6 /\ i - 1 = 6 * m + 5 /\ w + l = w + m + 1 /\ w + m \in Nat
          /\ w + m + 1 <= Len(s) /\ 5 \in 0..5
      BY <1>1, <2>1, <3>2
    <3>4. g[i - 1] = CountedTo(s, w + m) /\ CountedTo(s, w + m) \in Totals
      BY <1>5, <3>3
    <3>5. Parse(Event(b, i)) = s[w + m + 1]
      <4>1. 6 * m + 6 <= Len(b)
        BY <3>3
      <4>2. Parse(Event(b, 6 * m + 6)) = s[w + m + 1]
        BY <1>1, <4>1, EventOf, ZenonT(60)
      <4> QED BY <3>3, <4>2
    <3>6. g[i] = Counting(CountedTo(s, w + m), Event(b, i))
      BY <1>2, <3>1, <3>4
    <3> HIDE DEF Right
    <3>7. /\ Counting(CountedTo(s, w + m), Event(b, i)) = CountedTo(s, w + m + 1)
          /\ CountedTo(s, w + m + 1) \in Totals
      BY <3>3, <3>4, <3>5, CountOne
    <3> QED BY <3>3, <3>6, <3>7
  <2>2. CASE t # 0
    <3>1. i \notin Ends(b)
      BY <1>3, <2>2
    <3>2. t - 1 \in 0..5 /\ i - 1 = 6 * l + (t - 1)
      BY <2>2
    <3>3. g[i] = g[i - 1]
      BY <1>2, <3>1
    <3> QED BY <1>5, <3>2, <3>3
  <2> QED BY <2>1, <2>2
<1> HIDE DEF Right
<1>6. Bad = {}
  <2> SUFFICES ASSUME Bad # {} PROVE FALSE
    OBVIOUS
  <2>1. Bad \in SUBSET Nat
    BY <1>1
  <2>2. PICK i \in Bad : \A j \in Bad : i <= j
    BY <2>1, LeastExists
  <2>3. i \in 1..Len(b) /\ ~Right(i)
    BY <1>1, <1>4, <2>2
  <2>4. i - 1 \notin Bad
    <3> HIDE DEF Bad
    <3> QED BY <2>1, <2>2
  <2>5. Right(i - 1)
    BY <1>1, <2>3, <2>4
  <2> QED BY <1>5, <2>3, <2>5
<1>7. Right(6 * k + r)
  BY <1>1, <1>6
<1> QED BY <1>7 DEF Right, g

-----------------------------------------------------------------------------
(* Stretches of the stream                                                 *)

LEMMA SerializedTyped ==
    ASSUME streaming, NEW e \in Payloads
    PROVE  Serialized(e) \in Seq(Pieces)
<1>1. {Name, Newline, Piece(e, "data"), Piece(e, "rest")} \subseteq Pieces
  BY DEF Pieces, Said
<1> QED BY <1>1 DEF Serialized

LEMMA HoldsRest ==
    ASSUME NEW s, NEW S, NEW b \in Seq(S), NEW from \in Nat, Len(s) \in Nat, Holds(s, b, from),
           NEW n \in 0..Len(b)
    PROVE  /\ SubSeq(b, n + 1, Len(b)) \in Seq(S)
           /\ Len(SubSeq(b, n + 1, Len(b))) = Len(b) - n
           /\ Holds(s, SubSeq(b, n + 1, Len(b)), from + n)
<1> DEFINE rest == SubSeq(b, n + 1, Len(b))
<1>1. /\ n + 1 \in Nat \ {0} /\ Len(b) \in Nat /\ n + 1 <= Len(b) + 1 /\ Len(b) <= Len(b)
      /\ Len(b) - (n + 1) + 1 = Len(b) - n
  OBVIOUS
<1>2. /\ rest \in Seq(S) /\ Len(rest) = Len(b) - n
      /\ \A i \in 1..Len(b) - n : rest[i] = b[n + 1 + i - 1]
  <2>1. /\ rest \in Seq(S) /\ Len(rest) = Len(b) - (n + 1) + 1
        /\ \A i \in 1..Len(b) - (n + 1) + 1 : rest[i] = b[n + 1 + i - 1]
    BY <1>1, Cut, ZenonT(60)
  <2> HIDE DEF rest
  <2> QED BY <1>1, <2>1
<1> HIDE DEF rest
<1>3. ASSUME NEW q \in Nat, NEW j \in 1..6, 6 * q + j - (from + n) \in 1..Len(rest)
      PROVE  rest[6 * q + j - (from + n)] = Serialized(s[q + 1])[j]
  <2>1. /\ 6 * q + j - from \in 1..Len(b)
        /\ 6 * q + j - (from + n) \in 1..Len(b) - n
        /\ n + 1 + (6 * q + j - (from + n)) - 1 = 6 * q + j - from
    BY <1>1, <1>2, <1>3
  <2>2. rest[6 * q + j - (from + n)] = b[6 * q + j - from]
    BY <1>2, <2>1
  <2> QED BY <2>1, <2>2 DEF Holds
<1>4. Len(rest) \in Nat /\ from + n + Len(rest) <= 6 * Len(s)
  BY <1>1, <1>2 DEF Holds
<1>5. Holds(s, rest, from + n)
  BY <1>3, <1>4 DEF Holds
<1> QED BY <1>2, <1>5 DEF rest

LEMMA HoldsBoth ==
    ASSUME NEW s, NEW S, NEW a \in Seq(S), NEW b \in Seq(S), NEW from \in Nat, Len(s) \in Nat,
           Holds(s, a, from), Holds(s, b, from + Len(a)), NEW n \in 0..Len(b)
    PROVE  /\ a \o SubSeq(b, 1, n) \in Seq(S)
           /\ Len(a \o SubSeq(b, 1, n)) = Len(a) + n
           /\ Holds(s, a \o SubSeq(b, 1, n), from)
<1> DEFINE chunk == SubSeq(b, 1, n)
           c == a \o chunk
<1>1. 1 \in Nat \ {0} /\ n \in Nat /\ 1 <= n + 1 /\ n <= Len(b) /\ n - 1 + 1 = n
      /\ Len(a) \in Nat /\ Len(b) \in Nat
  OBVIOUS
<1>2. chunk \in Seq(S) /\ Len(chunk) = n /\ \A i \in 1..n : chunk[i] = b[i]
  <2>1. /\ chunk \in Seq(S) /\ Len(chunk) = n - 1 + 1
        /\ \A i \in 1..n - 1 + 1 : chunk[i] = b[1 + i - 1]
    BY <1>1, Cut
  <2>2. \A i \in 1..n : 1 + i - 1 = i
    OBVIOUS
  <2> HIDE DEF chunk
  <2> QED BY <1>1, <2>1, <2>2
<1> HIDE DEF chunk
<1>3. /\ c \in Seq(S) /\ Len(c) = Len(a) + n
      /\ \A i \in 1..Len(a) + n : c[i] = IF i <= Len(a) THEN a[i] ELSE chunk[i - Len(a)]
  BY <1>2, ConcatProperties
<1> HIDE DEF c
<1>4. ASSUME NEW q \in Nat, NEW j \in 1..6, 6 * q + j - from \in 1..Len(c)
      PROVE  c[6 * q + j - from] = Serialized(s[q + 1])[j]
  <2>1. CASE 6 * q + j - from <= Len(a)
    <3>1. 6 * q + j - from \in 1..Len(a) /\ c[6 * q + j - from] = a[6 * q + j - from]
      BY <1>1, <1>3, <1>4, <2>1
    <3> QED BY <3>1 DEF Holds
  <2>2. CASE ~(6 * q + j - from <= Len(a))
    <3>1. /\ 6 * q + j - from - Len(a) \in 1..n
          /\ 6 * q + j - from - Len(a) = 6 * q + j - (from + Len(a))
          /\ 6 * q + j - (from + Len(a)) \in 1..Len(b)
      BY <1>1, <1>3, <1>4, <2>2
    <3>2. c[6 * q + j - from] = chunk[6 * q + j - from - Len(a)]
      BY <1>3, <1>4, <2>2
    <3>3. chunk[6 * q + j - from - Len(a)] = b[6 * q + j - (from + Len(a))]
      BY <1>2, <3>1
    <3> QED BY <3>1, <3>2, <3>3 DEF Holds
  <2> QED BY <2>1, <2>2
<1>5. Len(c) \in Nat /\ from + Len(c) <= 6 * Len(s)
  BY <1>1, <1>3 DEF Holds
<1>6. Holds(s, c, from)
  BY <1>4, <1>5 DEF Holds
<1> QED BY <1>3, <1>6 DEF c, chunk

\* The upstream sends one more event.
LEMMA HoldsLonger ==
    ASSUME NEW S, NEW s \in Seq(S), NEW e \in S, NEW b, NEW from \in Nat, Holds(s, b, from)
    PROVE  Holds(Append(s, e), b, from)
<1> DEFINE t == Append(s, e)
<1>1. Len(t) = Len(s) + 1 /\ Len(s) \in Nat /\ \A i \in 1..Len(s) : t[i] = s[i]
  BY AppendProperties
<1> HIDE DEF t
<1>2. ASSUME NEW q \in Nat, NEW j \in 1..6, 6 * q + j - from \in 1..Len(b)
      PROVE  b[6 * q + j - from] = Serialized(t[q + 1])[j]
  <2>1. q + 1 \in 1..Len(s)
    BY <1>1, <1>2 DEF Holds
  <2> QED BY <1>1, <1>2, <2>1 DEF Holds
<1>3. Holds(t, b, from)
  BY <1>1, <1>2 DEF Holds
<1> QED BY <1>3 DEF t

LEMMA HoldsMore ==
    ASSUME NEW S, NEW s \in Seq(S), NEW e \in S, NEW T, NEW b \in Seq(T), NEW from \in Nat,
           Serialized(e) \in Seq(T), Holds(s, b, from), from + Len(b) = 6 * Len(s)
    PROVE  /\ b \o Serialized(e) \in Seq(T)
           /\ Len(b \o Serialized(e)) = Len(b) + 6
           /\ Holds(Append(s, e), b \o Serialized(e), from)
<1> DEFINE t == Append(s, e)
           c == b \o Serialized(e)
<1>1. Len(t) = Len(s) + 1 /\ Len(s) \in Nat /\ t[Len(s) + 1] = e /\ Len(b) \in Nat
  BY AppendProperties
<1>2. Holds(t, b, from)
  BY HoldsLonger
<1>3. Len(Serialized(e)) = 6
  BY SerializedIs
<1>4. /\ c \in Seq(T) /\ Len(c) = Len(b) + 6
      /\ \A i \in 1..Len(b) + 6 : c[i] = IF i <= Len(b) THEN b[i] ELSE Serialized(e)[i - Len(b)]
  <2>1. /\ c \in Seq(T) /\ Len(c) = Len(b) + Len(Serialized(e))
        /\ \A i \in 1..Len(b) + Len(Serialized(e)) :
              c[i] = IF i <= Len(b) THEN b[i] ELSE Serialized(e)[i - Len(b)]
    BY ConcatProperties
  <2> HIDE DEF c
  <2> QED BY <1>3, <2>1
<1> HIDE DEF t, c
<1>5. ASSUME NEW q \in Nat, NEW j \in 1..6, 6 * q + j - from \in 1..Len(c)
      PROVE  c[6 * q + j - from] = Serialized(t[q + 1])[j]
  <2>1. CASE 6 * q + j - from <= Len(b)
    <3>1. 6 * q + j - from \in 1..Len(b) /\ c[6 * q + j - from] = b[6 * q + j - from]
      BY <1>1, <1>4, <1>5, <2>1
    <3> QED BY <1>2, <3>1 DEF Holds
  <2>2. CASE ~(6 * q + j - from <= Len(b))
    <3>1. 6 * q + j - from > Len(b) /\ 6 * q + j - from <= Len(b) + 6
      BY <1>1, <1>4, <1>5, <2>2
    <3>2. 6 * q + j > 6 * Len(s) /\ 6 * q + j <= 6 * Len(s) + 6
      BY <1>1, <3>1
    <3>3. q = Len(s)
      BY <1>1, <3>2
    <3>4. 6 * q + j - from - Len(b) = j
      BY <1>1, <3>3
    <3>5. ASSUME NEW x, x = 6 * q + j - from PROVE c[x] = Serialized(e)[j]
      <4>1. x \in 1..Len(b) + 6 /\ ~(x <= Len(b)) /\ x - Len(b) = j
        BY <1>4, <1>5, <2>2, <3>4, <3>5
      <4>2. c[x] = Serialized(e)[x - Len(b)]
        BY <1>4, <4>1
      <4> QED BY <4>1, <4>2
    <3> QED BY <1>1, <3>3, <3>5
  <2> QED BY <2>1, <2>2
<1>6. Holds(t, c, from)
  BY <1>1, <1>4, <1>5 DEF Holds
<1> QED BY <1>4, <1>6 DEF t, c

LEMMA MaxIn ==
    ASSUME NEW w \in Nat, NEW S \in SUBSET (1..w), S # {}
    PROVE  Max(S) \in S
<1> DEFINE gaps == {w - x : x \in S}
<1>1. gaps \in SUBSET Nat /\ gaps # {}
  <2>1. \A x \in S : w - x \in Nat
    OBVIOUS
  <2>2. PICK x \in S : TRUE
    OBVIOUS
  <2>3. w - x \in gaps
    OBVIOUS
  <2> QED BY <2>1, <2>3
<1>2. PICK g \in gaps : \A h \in gaps : g <= h
  BY <1>1, LeastExists
<1>3. PICK m \in S : g = w - m
  BY <1>2
<1>4. \A y \in S : m >= y
  <2> SUFFICES ASSUME NEW y \in S PROVE m >= y
    OBVIOUS
  <2>1. w - y \in gaps
    OBVIOUS
  <2>2. g <= w - y /\ y \in Nat /\ m \in Nat
    BY <1>2, <2>1
  <2> QED BY <1>3, <2>2
<1>5. S \in SUBSET Nat
  OBVIOUS
<1> QED BY <1>4, <1>5, MaxIs

\* What more the upstream sends changes nothing about the events before.
LEMMA CountedLonger ==
    ASSUME NEW S, NEW s \in Seq(S), NEW e \in S, NEW w \in Nat, w <= Len(s)
    PROVE  CountedTo(Append(s, e), w) = CountedTo(s, w)
<1> DEFINE t == Append(s, e)
<1>1. \A i \in 1..w : t[i] = s[i]
  BY AppendProperties
<1> HIDE DEF t
<1>2. ASSUME NEW type PROVE Stated(t, type, w) = Stated(s, type, w)
  <2>1. StatingIn(t, type, w) = StatingIn(s, type, w)
    BY <1>1, Zenon DEF StatingIn
  <2>2. StatingIn(s, type, w) # {} => Max(StatingIn(s, type, w)) \in 1..w
    <3>1. StatingIn(s, type, w) \in SUBSET (1..w)
      BY DEF StatingIn
    <3> QED BY <3>1, MaxIn
  <2> QED BY <1>1, <2>1, <2>2, Zenon DEF Stated
<1>3. Named(t, w) = Named(s, w)
  <2>1. NamingIn(t, w) = NamingIn(s, w)
    BY <1>1, Zenon DEF NamingIn
  <2>2. NamingIn(s, w) # {} => Min(NamingIn(s, w)) \in 1..w
    <3>1. NamingIn(s, w) \in SUBSET Nat /\ NamingIn(s, w) \subseteq 1..w
      BY DEF NamingIn
    <3>2. ASSUME NamingIn(s, w) # {} PROVE Min(NamingIn(s, w)) \in NamingIn(s, w)
      <4>1. PICK m \in NamingIn(s, w) : \A i \in NamingIn(s, w) : m <= i
        BY <3>1, <3>2, LeastExists
      <4> QED BY <3>1, <4>1, MinIs
    <3> QED BY <3>1, <3>2
  <2> QED BY <1>1, <2>1, <2>2, Zenon DEF Named
<1>4. CountedTo(t, w) = CountedTo(s, w)
  BY <1>2, <1>3, Zenon DEF CountedTo
<1> QED BY <1>4 DEF t

-----------------------------------------------------------------------------
(***************************************************************************)
(* The inductive invariant.  The stream is what was counted, what is in    *)
(* the buffer, which begins an event, and what is on the wire; a body is   *)
(* what is in the buffer and on the wire.                                  *)
(***************************************************************************)
Totalled == [input |-> inputTokens, output |-> outputTokens, model |-> model]

StreamInv ==
    /\ passed + Len(wire) = 6 * Len(sent) /\ Holds(sent, wire, passed)
    /\ 6 * Whole + Len(buffer) = passed /\ Holds(sent, buffer, 6 * Whole)
    /\ Totalled = CountedTo(sent, Whole)

BodyCounted ==
    sent # <<>> /\ sent[1].type = "message" =>
        /\ inputTokens = IF sent[1].tokens = None THEN 0 ELSE sent[1].tokens
        /\ outputTokens = IF sent[1].output = None THEN 0 ELSE sent[1].output
        /\ model = sent[1].model

BodyInv ==
    /\ sent = <<>> => wire = <<>> /\ buffer = <<>>
    /\ sent # <<>> =>
          /\ Len(buffer) + Len(wire) = 2
          /\ \A i \in 1..2 : SerializedBody(sent[1])[i]
                                 = IF i <= Len(buffer) THEN buffer[i] ELSE wire[i - Len(buffer)]
    /\ ended => wire = <<>> /\ BodyCounted

TapInv == TypeOK /\ (streaming => StreamInv) /\ (~streaming => BodyInv)

LEMMA TapInit == Init => TapInv
<1> SUFFICES ASSUME Init PROVE TapInv
  OBVIOUS
<1>1. TypeOK
  <2>1. <<>> \in Seq(Said) /\ <<>> \in Seq(Pieces) /\ Len(sent) = 0
    BY DEF Init
  <2>2. 0 <= MaxEvents /\ 0 \in Nat
    BY Bound
  <2> QED BY <2>1, <2>2 DEF Init, TypeOK, Counted
<1>2. Len(sent) = 0 /\ Len(wire) = 0 /\ Len(buffer) = 0 /\ passed = 0
  BY DEF Init
<1>3. Whole = 0
  <2>1. (6 * 0 + 0) \div 6 = 0
    BY Divided
  <2> QED BY <1>2, <2>1 DEF Whole, EventLen
<1>4. StreamInv
  <2>1. Totalled = CountedTo(sent, Whole)
    BY <1>3, NothingCounted DEF Init, Totalled
  <2> QED BY <1>2, <1>3, <2>1 DEF StreamInv, Holds
<1>5. BodyInv
  BY DEF Init, BodyInv
<1> QED BY <1>1, <1>4, <1>5 DEF TapInv

LEMMA SendKeeps == ASSUME TapInv, Send PROVE TapInv'
<1>1. /\ UNCHANGED <<streaming, passed, buffer, ended, inputTokens, outputTokens, model>>
      /\ ~ended /\ Len(sent) < MaxEvents
  BY DEF Send, counters
<1>2. UNCHANGED <<Said, Pieces, Whole, Totalled>>
  BY <1>1 DEF Said, Pieces, Whole, Totalled
<1>3. CASE streaming
  <2>1. PICK e \in Payloads : sent' = Append(sent, e) /\ wire' = wire \o Serialized(e)
    BY <1>3 DEF Send
  <2>2. /\ sent \in Seq(Payloads) /\ Len(sent) \in Nat /\ passed \in Nat
        /\ wire \in Seq(Pieces) /\ buffer \in Seq(Pieces) /\ Len(buffer) \in Nat
    BY <1>3 DEF TapInv, TypeOK, Said
  <2>3. StreamInv
    BY <1>3 DEF TapInv
  <2>4. Whole \in Nat
    BY <2>2 DEF Whole, EventLen
  <2>5. sent' \in Seq(Payloads) /\ Len(sent') = Len(sent) + 1
    BY <2>1, <2>2, AppendProperties
  <2>6. Serialized(e) \in Seq(Pieces)
    BY <1>3, SerializedTyped
  <2>7. wire' \in Seq(Pieces) /\ Len(wire') = Len(wire) + 6 /\ Holds(sent', wire', passed)
    BY <2>1, <2>2, <2>3, <2>6, HoldsMore DEF StreamInv
  <2>8. Holds(sent', buffer, 6 * Whole)
    BY <2>1, <2>2, <2>3, <2>4, HoldsLonger DEF StreamInv
  <2>9. CountedTo(sent', Whole) = CountedTo(sent, Whole)
    <3>1. Whole <= Len(sent)
      BY <2>2, <2>3, <2>4 DEF StreamInv, Holds
    <3> QED BY <2>1, <2>2, <2>4, <3>1, CountedLonger
  <2>10. passed' + Len(wire') = 6 * Len(sent')
    <3>1. Len(wire) \in Nat
      BY <2>2
    <3> QED BY <1>1, <2>2, <2>3, <2>5, <2>7, <3>1 DEF StreamInv
  <2>11. StreamInv'
    BY <1>1, <1>2, <2>3, <2>7, <2>8, <2>9, <2>10, Zenon DEF StreamInv
  <2>12. TypeOK'
    <3>1. sent' \in Seq(Said) /\ Len(sent') <= MaxEvents
      BY <1>1, <1>3, <2>2, <2>5, Bound DEF Said
    <3> QED BY <1>1, <1>2, <2>7, <3>1 DEF TapInv, TypeOK
  <2> QED BY <1>1, <1>3, <2>11, <2>12 DEF TapInv
<1>4. CASE ~streaming
  <2>1. PICK b \in Bodies : sent = <<>> /\ sent' = <<b>> /\ wire' = SerializedBody(b)
    BY <1>4 DEF Send
  <2>2. buffer = <<>> /\ Len(buffer) = 0
    BY <1>4, <2>1 DEF TapInv, BodyInv
  <2>3. sent'[1] = b /\ sent' # <<>> /\ Len(sent') = 1 /\ sent' \in Seq(Bodies)
    BY <2>1
  <2>4. wire' \in Seq(Pieces) /\ Len(wire') = 2
    <3>1. {Piece(b, "data"), Piece(b, "rest")} \subseteq Pieces
      BY <1>4 DEF Pieces, Said
    <3> QED BY <2>1, <3>1 DEF SerializedBody
  <2>5. BodyInv'
    BY <1>1, <2>1, <2>2, <2>3, <2>4 DEF BodyInv
  <2>6. TypeOK'
    <3>1. sent' \in Seq(Said) /\ Len(sent') <= MaxEvents
      BY <1>1, <1>4, <2>1, <2>3, Bound DEF Said
    <3> QED BY <1>1, <1>2, <2>4, <3>1 DEF TapInv, TypeOK
  <2> QED BY <1>1, <1>4, <2>5, <2>6 DEF TapInv
<1> QED BY <1>3, <1>4

\* A chunk: the tally moves past the events it completes, the rest is buffered.
LEMMA TapEventsKeeps == ASSUME TapInv, NEW n \in 1..Len(wire), TapEvents(n) PROVE TapInv'
<1> DEFINE w == Whole
           b == buffer \o SubSeq(wire, 1, n)
           rest == SubSeq(wire, n + 1, Len(wire))
<1>1. /\ streaming /\ UNCHANGED <<streaming, sent, ended>>
      /\ wire' = rest /\ passed' = passed + n
      /\ buffer' = Remainder(b)
      /\ Totalled' = [input |-> Tally(Totalled, b)[Len(b)].input,
                      output |-> Tally(Totalled, b)[Len(b)].output,
                      model |-> Tally(Totalled, b)[Len(b)].model]
  BY DEF TapEvents, Totalled
<1>2. /\ sent \in Seq(Payloads) /\ Len(sent) \in Nat /\ passed \in Nat
      /\ wire \in Seq(Pieces) /\ buffer \in Seq(Pieces)
      /\ Len(buffer) \in Nat /\ Len(wire) \in Nat
      /\ \A i \in 1..Len(sent) : sent[i] \in Payloads
  BY <1>1, ElementOfSeq DEF TapInv, TypeOK, Said
<1>3. StreamInv /\ w \in Nat
  BY <1>1, <1>2 DEF TapInv, Whole, EventLen
<1>4. Totalled = CountedTo(sent, w) /\ CountedTo(sent, w) \in Totals
  <2>1. Totalled \in Totals
    BY DEF TapInv, TypeOK, Totalled, Totals
  <2> QED BY <1>3, <2>1 DEF StreamInv
<1>5. /\ b \in Seq(Pieces) /\ Len(b) = Len(buffer) + n /\ Holds(sent, b, 6 * w)
  BY <1>2, <1>3, HoldsBoth DEF StreamInv
<1>6. /\ rest \in Seq(Pieces) /\ Len(rest) = Len(wire) - n /\ Holds(sent, rest, passed + n)
  BY <1>2, <1>3, HoldsRest DEF StreamInv
<1>7. UNCHANGED <<Said, Pieces>>
  BY <1>1 DEF Said, Pieces
<1> HIDE DEF w, b, rest
<1>8. Len(b) \in Nat
  BY <1>2, <1>5
<1>9. PICK m \in Nat, r \in 0..5 : Len(b) = 6 * m + r
  BY <1>8, PlaceOf
<1>10. Tally(Totalled, b)[Len(b)] = CountedTo(sent, w + m) /\ CountedTo(sent, w + m) \in Totals
  <2>1. 6 * m + r <= Len(b)
    BY <1>8, <1>9
  <2>2. /\ Tally(CountedTo(sent, w), b)[6 * m + r] = CountedTo(sent, w + m)
        /\ CountedTo(sent, w + m) \in Totals
    BY <1>2, <1>3, <1>4, <1>5, <2>1, TallyOf
  <2> QED BY <1>4, <1>9, <2>2, Zenon
<1>11. Totalled' = CountedTo(sent, w + m)
  BY <1>1, <1>10 DEF CountedTo
<1>12. Remainder(b) = SubSeq(b, 6 * m + 1, Len(b))
  <2>1. Len(b) + 1 \in 6 * m + 1 .. 6 * m + 6 /\ Len(b) + 1 <= Len(b) + 1
    BY <1>9
  <2>2. StartOf(b, Len(b) + 1) = 6 * m + 1
    BY <1>2, <1>3, <1>5, <1>9, <2>1, StartIs, ZenonT(60)
  <2> QED BY <2>2, Zenon DEF Remainder
<1>13. /\ buffer' \in Seq(Pieces) /\ Len(buffer') = r /\ Holds(sent, buffer', 6 * (w + m))
  <2>1. 6 * w \in Nat /\ 6 * m \in 0..Len(b) /\ 6 * w + 6 * m = 6 * (w + m) /\ Len(b) - 6 * m = r
    BY <1>3, <1>9
  <2>2. /\ SubSeq(b, 6 * m + 1, Len(b)) \in Seq(Pieces)
        /\ Len(SubSeq(b, 6 * m + 1, Len(b))) = Len(b) - 6 * m
        /\ Holds(sent, SubSeq(b, 6 * m + 1, Len(b)), 6 * w + 6 * m)
    BY <1>2, <1>5, <2>1, HoldsRest
  <2> QED BY <1>1, <1>12, <2>1, <2>2
<1>14. passed' = 6 * (w + m) + r
  BY <1>1, <1>2, <1>3, <1>5, <1>9 DEF StreamInv, w
<1>15. Whole' = w + m
  <2>1. (6 * (w + m) + r) \div 6 = w + m
    BY <1>3, Divided
  <2>2. Whole' = passed' \div 6
    BY DEF Whole, EventLen
  <2> QED BY <1>14, <2>1, <2>2
<1>16. StreamInv'
  <2>1. passed' + Len(wire') = 6 * Len(sent')
    <3>1. passed + Len(wire) = 6 * Len(sent) /\ n \in Nat
      BY <1>2, <1>3 DEF StreamInv
    <3>2. passed + n + (Len(wire) - n) = 6 * Len(sent)
      BY <1>2, <3>1
    <3>3. Len(wire') = Len(wire) - n /\ sent' = sent
      BY <1>1, <1>6
    <3> QED BY <1>1, <3>2, <3>3, Zenon
  <2>2. Holds(sent', wire', passed')
    BY <1>1, <1>6
  <2>3. 6 * Whole' + Len(buffer') = passed'
    BY <1>13, <1>14, <1>15
  <2>4. Holds(sent', buffer', 6 * Whole')
    BY <1>1, <1>13, <1>15
  <2>5. Totalled' = CountedTo(sent', Whole')
    BY <1>1, <1>11, <1>15
  <2> QED BY <2>1, <2>2, <2>3, <2>4, <2>5, Zenon DEF StreamInv
<1>17. TypeOK'
  <2>1. inputTokens' \in Counted /\ outputTokens' \in Counted /\ model' \in Models \cup {None}
    <3>1. Totalled' \in Totals
      BY <1>10, <1>11
    <3> QED BY <3>1 DEF Totalled, Totals, Counted
  <2>2. passed' \in Nat
    BY <1>1, <1>2
  <2>3. wire' \in Seq(Pieces) /\ buffer' \in Seq(Pieces)
    BY <1>1, <1>6, <1>13
  <2> QED BY <1>1, <1>7, <2>1, <2>2, <2>3 DEF TapInv, TypeOK, Counted
<1> QED BY <1>1, <1>16, <1>17 DEF TapInv

LEMMA TapBodyKeeps == ASSUME TapInv, NEW n \in 1..Len(wire), TapBody(n) PROVE TapInv'
<1> DEFINE chunk == SubSeq(wire, 1, n)
           b == buffer \o chunk
           rest == SubSeq(wire, n + 1, Len(wire))
<1>1. /\ ~streaming /\ UNCHANGED <<streaming, sent, ended, inputTokens, outputTokens, model>>
      /\ wire' = rest /\ passed' = passed + n /\ buffer' = b
  BY DEF TapBody, counters
<1>2. /\ wire \in Seq(Pieces) /\ buffer \in Seq(Pieces) /\ passed \in Nat
      /\ Len(buffer) \in Nat /\ Len(wire) \in Nat /\ n \in Nat /\ n <= Len(wire) /\ n >= 1
  BY DEF TapInv, TypeOK
<1>3. BodyInv
  BY <1>1 DEF TapInv
<1>4. chunk \in Seq(Pieces) /\ Len(chunk) = n /\ \A i \in 1..n : chunk[i] = wire[i]
  <2>1. /\ chunk \in Seq(Pieces) /\ Len(chunk) = n - 1 + 1
        /\ \A i \in 1..n - 1 + 1 : chunk[i] = wire[1 + i - 1]
    BY <1>2, Cut
  <2>2. n - 1 + 1 = n /\ \A i \in 1..n : 1 + i - 1 = i
    OBVIOUS
  <2> HIDE DEF chunk
  <2> QED BY <2>1, <2>2
<1>5. rest \in Seq(Pieces) /\ Len(rest) = Len(wire) - n /\ \A i \in 1..Len(wire) - n : rest[i] = wire[n + i]
  <2>0. n + 1 \in Nat \ {0} /\ n + 1 <= Len(wire) + 1 /\ Len(wire) <= Len(wire)
        /\ Len(wire) - (n + 1) + 1 = Len(wire) - n
    BY <1>2
  <2>1. /\ rest \in Seq(Pieces) /\ Len(rest) = Len(wire) - (n + 1) + 1
        /\ \A i \in 1..Len(wire) - (n + 1) + 1 : rest[i] = wire[n + 1 + i - 1]
    BY <1>2, <2>0, Cut
  <2>2. \A i \in 1..Len(wire) - n : n + 1 + i - 1 = n + i
    BY <1>2
  <2> HIDE DEF rest
  <2> QED BY <2>0, <2>1, <2>2
<1> HIDE DEF chunk, rest
<1>6. /\ b \in Seq(Pieces) /\ Len(b) = Len(buffer) + n
      /\ \A i \in 1..Len(buffer) + n : b[i] = IF i <= Len(buffer) THEN buffer[i] ELSE chunk[i - Len(buffer)]
  BY <1>2, <1>4, ConcatProperties
<1> HIDE DEF b
<1>7. sent # <<>> /\ ~ended
  <2>1. wire # <<>>
    BY <1>2
  <2> QED BY <1>3, <2>1 DEF BodyInv
<1>8. Len(b) + Len(rest) = 2
  BY <1>2, <1>3, <1>5, <1>6, <1>7 DEF BodyInv
<1>9. ASSUME NEW i \in 1..2
      PROVE  SerializedBody(sent[1])[i] = IF i <= Len(b) THEN b[i] ELSE rest[i - Len(b)]
  <2>0. /\ Len(buffer) + Len(wire) = 2
        /\ SerializedBody(sent[1])[i] = IF i <= Len(buffer) THEN buffer[i] ELSE wire[i - Len(buffer)]
    BY <1>3, <1>7 DEF BodyInv
  <2>1. CASE i <= Len(buffer)
    <3>1. i <= Len(b) /\ i \in 1..Len(buffer) + n
      BY <1>2, <1>6, <2>1
    <3> QED BY <1>6, <2>0, <2>1, <3>1
  <2>2. CASE ~(i <= Len(buffer)) /\ i <= Len(b)
    <3>1. i \in 1..Len(buffer) + n /\ i - Len(buffer) \in 1..n
      BY <1>2, <1>6, <2>2
    <3> QED BY <1>4, <1>6, <2>0, <2>2, <3>1
  <2>3. CASE ~(i <= Len(b))
    <3>1. /\ i - Len(b) \in 1..Len(wire) - n /\ n + (i - Len(b)) = i - Len(buffer)
          /\ ~(i <= Len(buffer))
      BY <1>2, <1>6, <2>0, <2>3
    <3> QED BY <1>5, <2>0, <2>3, <3>1
  <2> QED BY <2>1, <2>2, <2>3
<1>10. BodyInv'
  BY <1>1, <1>7, <1>8, <1>9 DEF BodyInv
<1>11. TypeOK'
  <2>1. UNCHANGED <<Said, Pieces>>
    BY <1>1 DEF Said, Pieces
  <2>2. passed' \in Nat
    BY <1>1, <1>2
  <2> QED BY <1>1, <1>5, <1>6, <2>1, <2>2 DEF TapInv, TypeOK
<1> QED BY <1>1, <1>10, <1>11 DEF TapInv

LEMMA EndKeeps == ASSUME TapInv, End PROVE TapInv'
<1>1. /\ UNCHANGED <<streaming, sent, wire, passed, buffer>>
      /\ ~ended /\ wire = <<>> /\ ended'
  BY DEF End
<1>2. UNCHANGED <<Said, Pieces, Whole>>
  BY <1>1 DEF Said, Pieces, Whole
<1>3. CASE streaming
  <2>1. UNCHANGED <<inputTokens, outputTokens, model>>
    BY <1>3 DEF End, counters
  <2>2. StreamInv'
    BY <1>1, <1>2, <1>3, <2>1 DEF TapInv, StreamInv, Totalled
  <2>3. TypeOK'
    BY <1>1, <1>2, <2>1 DEF TapInv, TypeOK
  <2> QED BY <1>1, <1>3, <2>2, <2>3 DEF TapInv
<1>4. CASE ~streaming
  <2>0. BodyInv /\ TypeOK
    BY <1>4 DEF TapInv
  <2>1. CASE sent = <<>>
    <3>1. buffer = <<>>
      BY <2>0, <2>1 DEF BodyInv
    <3>2. DOMAIN buffer = {}
      BY <3>1
    <3>3. Parse(buffer) = None
      BY <3>2 DEF Parse
    <3>4. UNCHANGED <<inputTokens, outputTokens, model>>
      BY <3>3 DEF End, counters
    <3>5. BodyInv'
      BY <1>1, <2>0, <2>1 DEF BodyInv, BodyCounted
    <3>6. TypeOK'
      BY <1>1, <1>2, <2>0, <3>4 DEF TypeOK
    <3> QED BY <1>1, <1>4, <3>5, <3>6 DEF TapInv
  <2>2. CASE sent # <<>>
    <3> DEFINE body == sent[1]
    <3>1. body \in Bodies
      <4>1. sent \in Seq(Bodies)
        BY <1>4, <2>0 DEF TypeOK, Said
      <4>2. Len(sent) \in Nat /\ Len(sent) # 0
        BY <4>1, <2>2, EmptySeq
      <4>3. 1 \in 1..Len(sent)
        BY <4>2
      <4> QED BY <4>1, <4>3, ElementOfSeq
    <3>2. /\ Len(buffer) = 2 /\ DOMAIN buffer = 1..2
          /\ buffer[1] = Piece(body, "data") /\ buffer[2] = Piece(body, "rest")
      <4>1. Len(wire) = 0 /\ buffer \in Seq(Pieces) /\ Len(buffer) \in Nat
        BY <1>1, <2>0 DEF TypeOK
      <4>2. Len(buffer) = 2
        BY <2>0, <2>2, <4>1 DEF BodyInv
      <4>3. \A i \in 1..2 : SerializedBody(body)[i] = buffer[i]
        BY <2>0, <2>2, <4>2 DEF BodyInv
      <4>4. SerializedBody(body)[1] = Piece(body, "data") /\ SerializedBody(body)[2] = Piece(body, "rest")
        BY DEF SerializedBody
      <4> QED BY <4>1, <4>2, <4>3, <4>4
    <3> HIDE DEF body
    <3>3. Parse(buffer) = body
      <4>1. 1 \in 1..Len(buffer) - 1 /\ Len(buffer) \in Nat /\ 1 + 1 = 2 /\ 1..1 - 1 = {}
        BY <3>2
      <4> QED BY <3>2, <4>1, ParseAt
    <3>4. body # None
      BY <3>1, NoPayloadIsNone
    <3>5. CASE body.type = "error page"
      <4>1. UNCHANGED <<inputTokens, outputTokens, model>>
        BY <3>3, <3>5 DEF End, counters
      <4>2. BodyInv'
        BY <1>1, <2>0, <3>5 DEF BodyInv, BodyCounted, body
      <4>3. TypeOK'
        BY <1>1, <1>2, <2>0, <4>1 DEF TypeOK
      <4> QED BY <1>1, <1>4, <4>2, <4>3 DEF TapInv
    <3>6. CASE body.type # "error page"
      <4>1. body \in [type: {"message"}, tokens: Counts \cup {None}, output: Counts \cup {None},
                      model: Models \cup {None}]
        BY <3>1, <3>6 DEF Bodies
      <4>2. /\ model' = body.model
            /\ inputTokens' = IF body.tokens = None THEN 0 ELSE body.tokens
            /\ outputTokens' = IF body.output = None THEN 0 ELSE body.output
        BY <1>4, <3>3, <3>4, <3>6 DEF End
      <4>3. BodyCounted'
        BY <1>1, <4>2 DEF BodyCounted, body
      <4>4. BodyInv'
        BY <1>1, <2>0, <2>2, <4>3 DEF BodyInv
      <4>5. TypeOK'
        <5>1. body.tokens \in Counts \cup {None} /\ body.output \in Counts \cup {None}
              /\ body.model \in Models \cup {None}
          BY <4>1
        <5>2. inputTokens' \in Counted /\ outputTokens' \in Counted /\ model' \in Models \cup {None}
          BY <4>2, <5>1 DEF Counted
        <5> QED BY <1>1, <1>2, <2>0, <5>2 DEF TypeOK, Counted
      <4> QED BY <1>1, <1>4, <4>4, <4>5 DEF TapInv
    <3> QED BY <3>5, <3>6
  <2> QED BY <2>1, <2>2
<1> QED BY <1>3, <1>4

LEMMA TapStep == TapInv /\ [Next]_vars => TapInv'
<1> SUFFICES ASSUME TapInv, [Next]_vars PROVE TapInv'
  OBVIOUS
<1>1. CASE Send
  BY <1>1, SendKeeps
<1>2. CASE \E n \in 1..Len(wire) : TapEvents(n) \/ TapBody(n)
  BY <1>2, TapEventsKeeps, TapBodyKeeps
<1>3. CASE End
  BY <1>3, EndKeeps
<1>4. CASE UNCHANGED vars
  BY <1>4 DEF vars, counters, TapInv, TypeOK, StreamInv, BodyInv, BodyCounted, Totalled, Whole, Said, Pieces
<1> QED BY <1>1, <1>2, <1>3, <1>4 DEF Next

-----------------------------------------------------------------------------
(* The theorems                                                            *)

\* At every moment of a streamed response its pieces are those of the events
\* counted, of the buffer, which begins where an event does, and of the wire;
\* those of a body are in the buffer and on the wire (usage-tap.ts, sseBuffer
\* and body).
THEOREM TapInductive == Spec => []TapInv
<1> QED BY TapInit, TapStep, PTL DEF Spec

\* The counters hold numbers the upstream stated, or 0, and the model a name
\* it stated, whatever fields its events lack.
THEOREM TapTyped == Spec => []TypeOK
<1>1. TapInv => TypeOK
  BY DEF TapInv
<1> QED BY <1>1, TapInductive, PTL

\* However the network cuts a response, of any length, the tap has counted
\* exactly the events that passed as a whole, and a body when it is complete.
THEOREM EventsCountedWhole == Spec => []CountsWholeEvents
<1>1. TapInv => CountsWholeEvents
  <2> SUFFICES ASSUME TapInv PROVE CountsWholeEvents
    OBVIOUS
  <2>1. ASSUME NEW type PROVE Stating(type) = StatingIn(sent, type, Whole)
    BY DEF Stating, StatingIn
  <2>2. Naming = NamingIn(sent, Whole)
    BY DEF Naming, NamingIn
  <2>3. CASE streaming
    <3>1. Totalled = CountedTo(sent, Whole)
      BY <2>3 DEF TapInv, StreamInv
    <3>2. /\ inputTokens = Stated(sent, "message_start", Whole)
          /\ outputTokens = Stated(sent, "message_delta", Whole)
          /\ model = Named(sent, Whole)
      BY <3>1 DEF Totalled, CountedTo
    <3> QED BY <2>1, <2>2, <2>3, <3>2, Zenon DEF CountsWholeEvents, Stated, Named
  <2>4. CASE ~streaming
    BY <2>4 DEF TapInv, BodyInv, BodyCounted, CountsWholeEvents
  <2> QED BY <2>3, <2>4
<1> QED BY <1>1, TapInductive, PTL
=============================================================================
