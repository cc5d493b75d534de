------------------------ MODULE OrderingChannelProofs ------------------------
(***************************************************************************)
(* Proofs about an ordering channel (OrderingChannel): for every number of *)
(* messages, every mix of kinds, every range and every start of the        *)
(* indices, and every order of arrival, messages are handed over in the    *)
(* order sent, ordered ones each once and without a gap, and nothing that  *)
(* may be handed over stays in the heap.                                   *)
(*                                                                         *)
(* An index counts modulo NumRange; the proofs count ordered messages      *)
(* without a bound, as levels.  The invariant says that an index that is   *)
(* looked at, of a message that may arrive or is in the heap, stands for   *)
(* one level only, because the receiver is less than half the range behind *)
(* the sender.  Then comparing indices is comparing levels, heap weights   *)
(* order messages as they were sent, and the loop over the heap pops what  *)
(* follows without a gap.                                                  *)
(***************************************************************************)
EXTENDS OrderingChannel, WellFoundedInduction, FiniteSetTheorems, SequenceTheorems, TLAPS

(* The least element of a non-empty set of naturals.                       *)
LEMMA LeastNat ==
    ASSUME NEW S \in SUBSET Nat, S /= {}
    PROVE  \E k \in S : \A j \in S : k <= j
<1>1. PICK k \in S : \A j \in S : ~(<<j, k>> \in OpToRel(<, Nat))
  BY NatLessThanWellFounded, WFMin
<1>2. \A j \in S : ~(j < k)
  BY <1>1 DEF OpToRel
<1> QED
  BY <1>2

-----------------------------------------------------------------------------
(* Counting                                                                *)

(* How many of the first k naturals are in B.                              *)
Count(B, k) == Cardinality({i \in 1 .. k : i \in B})

(* Counts are naturals, of finite sets.                                    *)
LEMMA CountNat ==
    ASSUME NEW B, NEW k \in Nat
    PROVE  IsFiniteSet({i \in 1 .. k : i \in B}) /\ Count(B, k) \in Nat
<1>1. PICK S, T : S = 1 .. k /\ T = {i \in 1 .. k : i \in B}
  OBVIOUS
<1>2. IsFiniteSet(S) /\ T \in SUBSET S
  <2>1. 1 \in Int /\ k \in Int
    OBVIOUS
  <2> QED
    BY <1>1, <2>1, FS_Interval
<1>3. IsFiniteSet(T)
  BY <1>2, FS_Subset, Zenon
<1>4. Cardinality(T) \in Nat
  BY <1>3, FS_CardinalityType, Zenon
<1> QED
  BY <1>1, <1>3, <1>4 DEF Count

(* The count goes up at the elements of B.                                 *)
LEMMA CountStep ==
    ASSUME NEW B, NEW k \in Nat \ {0}
    PROVE  Count(B, k) = Count(B, k - 1) + (IF k \in B THEN 1 ELSE 0)
<1>1. PICK S, T : S = {i \in 1 .. k - 1 : i \in B} /\ T = {i \in 1 .. k : i \in B}
  OBVIOUS
<1>2. k - 1 \in Nat
  OBVIOUS
<1>3. IsFiniteSet(S) /\ Cardinality(S) \in Nat
  BY <1>1, <1>2, CountNat DEF Count
<1>4. CASE k \in B
  <2>1. T = S \cup {k} /\ k \notin S
    BY <1>1, <1>4
  <2>2. Cardinality(T) = Cardinality(S) + 1
    BY <1>3, <2>1, FS_AddElement
  <2> QED
    BY <1>1, <1>4, <2>2 DEF Count
<1>5. CASE k \notin B
  <2>1. T = S
    BY <1>1, <1>5
  <2>2. Count(B, k) = Count(B, k - 1)
    BY <1>1, <2>1 DEF Count
  <2>3. Count(B, k - 1) \in Nat
    BY <1>2, CountNat
  <2> QED
    BY <1>5, <2>2, <2>3
<1> QED
  BY <1>4, <1>5

(* Of no naturals none is in B.                                            *)
LEMMA CountZero ==
    ASSUME NEW B
    PROVE  Count(B, 0) = 0
<1>1. {i \in 1 .. 0 : i \in B} = {}
  OBVIOUS
<1> QED
  BY <1>1, FS_EmptySet DEF Count

(* The count never goes down.                                              *)
LEMMA CountGrows ==
    ASSUME NEW B, NEW j \in Nat, NEW k \in Nat, j <= k
    PROVE  Count(B, j) <= Count(B, k)
<1>1. PICK S, T : S = {i \in 1 .. j : i \in B} /\ T = {i \in 1 .. k : i \in B}
  OBVIOUS
<1>2. IsFiniteSet(T) /\ S \in SUBSET T
  BY <1>1, CountNat
<1>3. Cardinality(S) <= Cardinality(T)
  BY <1>2, FS_Subset, Zenon
<1> QED
  BY <1>1, <1>3 DEF Count

(* Every count on the way is the count before some element.                *)
LEMMA CountHits ==
    ASSUME NEW B, NEW k \in Nat, NEW d \in Nat, d < Count(B, k)
    PROVE  \E i \in 1 .. k : i \in B /\ Count(B, i - 1) = d
<1> DEFINE above == {i \in 0 .. k : d < Count(B, i)}
<1>1. above \in SUBSET Nat /\ above /= {}
  OBVIOUS
<1>2. PICK i \in above : \A j \in above : i <= j
  BY <1>1, LeastNat
<1>3. i \in Nat /\ i <= k /\ d < Count(B, i)
  BY <1>2
<1>4. i /= 0
  BY <1>3, CountZero
<1>5. i - 1 \in Nat /\ i - 1 \notin above
  BY <1>2, <1>3, <1>4
<1>6. ~(d < Count(B, i - 1)) /\ Count(B, i - 1) \in Nat
  <2>1. Count(B, i - 1) \in Nat
    BY <1>5, CountNat
  <2>2. i - 1 \in 0 .. k
    BY <1>3, <1>5
  <2> QED
    BY <1>5, <2>1, <2>2
<1>7. Count(B, i) = Count(B, i - 1) + (IF i \in B THEN 1 ELSE 0)
  BY <1>3, <1>4, CountStep
<1>8. i \in B /\ Count(B, i - 1) = d
  BY <1>3, <1>6, <1>7
<1> QED
  BY <1>3, <1>4, <1>8

-----------------------------------------------------------------------------
(* Indices                                                                 *)

(* The range of the indices, spelled out.                                  *)
LEMMA RangeFacts ==
    /\ NumRange \in Nat /\ NumRange >= 8
    /\ HalfRange \in Nat /\ NumRange = 2 * HalfRange + 2
    /\ Number = 0 .. NumRange - 1 /\ MaxNumber = NumRange - 1
    /\ HalfRange >= 3
BY NumRangeAssumption DEF HalfRange, MaxNumber, Number

(* How far x and y are behind w tells how far they are apart.              *)
LEMMA MinusFacts ==
    ASSUME NEW w \in Number, NEW x \in Number, NEW y \in Number
    PROVE  /\ Minus(w, x) \in Number
           /\ Minus(w, w) = 0
           /\ Minus(w, x) = Minus(w, y) => x = y
           /\ Minus(w, x) <= Minus(w, y) => Minus(x, y) = Minus(w, y) - Minus(w, x)
BY RangeFacts DEF Minus

(* Counting an index up, at the sender's end or at the receiver's.         *)
LEMMA PlusFacts ==
    ASSUME NEW w \in Number, NEW x \in Number, NEW d \in Number
    PROVE  /\ Plus(x, d) \in Number
           /\ Minus(w, x) < MaxNumber => Minus(Plus(w, 1), x) = Minus(w, x) + 1
           /\ d <= Minus(w, x) => Minus(w, Plus(x, d)) = Minus(w, x) - d
BY RangeFacts DEF Minus, Plus

(* IsOlderOrderedPacket on indices less than half the range apart.         *)
LEMMA OlderFacts ==
    ASSUME NEW x \in Number, NEW y \in Number
    PROVE  /\ Minus(y, x) \in 1 .. HalfRange - 1 => IsOlderOrderedPacket(x, y)
           /\ Minus(x, y) \in 1 .. HalfRange => ~IsOlderOrderedPacket(x, y)
           /\ x <= HalfRange /\ y <= HalfRange => (IsOlderOrderedPacket(x, y) <=> x < y)
BY RangeFacts DEF Minus, IsOlderOrderedPacket


-----------------------------------------------------------------------------
(* The inductive invariant                                                 *)

(* How many ordered messages were sent, how many before message m, and how *)
(* many were handed over: the numbers that the indices stand for.          *)
Sent     == OrderedUpTo(Len(log))
Level(m) == OrderedUpTo(m - 1)
Behind(index) == Minus(orderedWriteIndex, index)
Done     == Sent - Behind(orderedReadIndex)

(* Where the weights of the heap start.                                    *)
HeapStart == Sent - Behind(heapIndexOffset)

(* The part of a weight that orders the messages of a level.               *)
Rank(m) == IF IsOrdered(m) THEN SeqWeight - 1 ELSE log[m].sequencingIndex

(* Later messages have a higher level, or the same and a higher rank.      *)
LogInOrder ==
    /\ \A m \in DOMAIN log : Rank(m) \in 0 .. SeqWeight - 1
    /\ \A m \in DOMAIN log : ~IsOrdered(m) => Rank(m) < SeqWeight - 1
    /\ \A m, n \in DOMAIN log : m < n =>
          Level(m) < Level(n) \/ (Level(m) = Level(n) /\ Rank(m) < Rank(n))
    /\ \A m \in DOMAIN log : ~IsOrdered(m) /\ Level(m) = Sent => Rank(m) < sequencedWriteIndex
    /\ sequencedWriteIndex \in 0 .. SeqWeight - 1

(* The index of a message m says how far back it was sent.                 *)
IndexIsTrue(m) == Behind(log[m].orderingIndex) = Sent - Level(m)

(* A copy that may still arrive is of a recent message.                    *)
CopiesAreRecent ==
    \A m \in DOMAIN log : copies[m] > 0 =>
        Sent - OrderedUpTo(m) <= MaxSpan /\ IndexIsTrue(m)

InHeap(m) == \E i \in DOMAIN orderingHeap : orderingHeap[i].id = m

(* An ordered message is on its way, or in the heap, or was handed over.   *)
OrderedInv ==
    /\ Done >= 0
    /\ \A m \in DOMAIN log : IsOrdered(m) =>
          /\ copies[m] \in {0, 1}
          /\ Level(m) < Done => copies[m] = 0
          /\ Level(m) >= Done => (copies[m] = 0 <=> InHeap(m))

(* Message m comes before n.  Copies of a sequenced message may follow     *)
(* each other.                                                             *)
Precedes(m, n) == m <= n /\ (IsOrdered(m) => m < n)

(* An entry of the heap is of a level to come.                             *)
EntryInv(entry) ==
    /\ Level(entry.id) > Done
    /\ IndexIsTrue(entry.id)
    /\ entry.weight = (Level(entry.id) - HeapStart) * SeqWeight + Rank(entry.id)

(* The heap holds its entries in the order sent.                           *)
HeapInv ==
    /\ orderingHeap /= <<>> => HeapStart <= Done
    /\ \A i \in DOMAIN orderingHeap : EntryInv(orderingHeap[i])
    /\ \A i, j \in DOMAIN orderingHeap : i < j => Precedes(orderingHeap[i].id, orderingHeap[j].id)

(* What was handed over is of the levels before, or sequenced, of this one *)
(* and not above the highest sequencing index.                             *)
IsPast(m) ==
    \/ Level(m) < Done
    \/ Level(m) = Done /\ ~IsOrdered(m) /\ Rank(m) <= highestSequencedReadIndex

OutputInv ==
    /\ highestSequencedReadIndex \in 0 .. SeqWeight - 1
    /\ \A i \in DOMAIN outputQueue : IsPast(outputQueue[i])
    /\ \A m \in DOMAIN log : IsOrdered(m) /\ Level(m) < Done =>
          \E i \in DOMAIN outputQueue : outputQueue[i] = m
    /\ \A i, j \in DOMAIN outputQueue : i < j => Precedes(outputQueue[i], outputQueue[j])

ChannelInv ==
    TypeOK /\ LogInOrder /\ CopiesAreRecent /\ OrderedInv /\ HeapInv /\ OutputInv

-----------------------------------------------------------------------------
(* Levels                                                                  *)

OrderedIds == {n \in Nat : IsOrdered(n)}

(* OrderedUpTo counts the ordered messages.                                *)
LEMMA UpToIsCount ==
    ASSUME NEW k \in Nat
    PROVE  OrderedUpTo(k) = Count(OrderedIds, k)
<1>1. {n \in 1 .. k : IsOrdered(n)} = {n \in 1 .. k : n \in OrderedIds}
  BY DEF OrderedIds
<1> QED
  BY <1>1 DEF OrderedUpTo, Count

(* Levels go up by one with every ordered message.                         *)
LEMMA LevelFacts ==
    ASSUME log \in Seq(Message)
    PROVE  /\ Sent \in Nat
           /\ \A m \in DOMAIN log :
                 /\ m \in Nat /\ m >= 1
                 /\ Level(m) \in Nat
                 /\ OrderedUpTo(m) = Level(m) + (IF IsOrdered(m) THEN 1 ELSE 0)
                 /\ OrderedUpTo(m) <= Sent
           /\ \A m, n \in DOMAIN log : m < n => OrderedUpTo(m) <= Level(n)
<1> DEFINE len == Len(log)
<1>1. len \in Nat /\ DOMAIN log = 1 .. len
  OBVIOUS
<1> HIDE DEF len
<1>2. Sent \in Nat
  BY <1>1, UpToIsCount, CountNat DEF Sent, len
<1>3. ASSUME NEW m \in DOMAIN log
      PROVE  /\ m \in Nat /\ m >= 1
             /\ Level(m) \in Nat
             /\ OrderedUpTo(m) = Level(m) + (IF IsOrdered(m) THEN 1 ELSE 0)
             /\ OrderedUpTo(m) <= Sent
  <2>1. m \in Nat \ {0} /\ m - 1 \in Nat /\ m <= len
    BY <1>1, <1>3
  <2>2. Level(m) = Count(OrderedIds, m - 1) /\ Level(m) \in Nat
    BY <2>1, UpToIsCount, CountNat DEF Level
  <2>3. OrderedUpTo(m) = Count(OrderedIds, m)
    BY <2>1, UpToIsCount
  <2>4. Count(OrderedIds, m) = Count(OrderedIds, m - 1) + (IF m \in OrderedIds THEN 1 ELSE 0)
    BY <2>1, CountStep
  <2>5. m \in OrderedIds <=> IsOrdered(m)
    BY <2>1 DEF OrderedIds
  <2>6. Sent = Count(OrderedIds, len)
    BY <1>1, UpToIsCount DEF Sent, len
  <2>7. Count(OrderedIds, m) <= Count(OrderedIds, len)
    BY <1>1, <2>1, CountGrows
  <2> QED
    BY <2>1, <2>2, <2>3, <2>4, <2>5, <2>6, <2>7
<1>4. ASSUME NEW m \in DOMAIN log, NEW n \in DOMAIN log, m < n
      PROVE  OrderedUpTo(m) <= Level(n)
  <2>1. m \in Nat /\ n - 1 \in Nat /\ m <= n - 1
    BY <1>1, <1>4
  <2>2. OrderedUpTo(m) = Count(OrderedIds, m) /\ Level(n) = Count(OrderedIds, n - 1)
    BY <2>1, UpToIsCount DEF Level
  <2> QED
    BY <2>1, <2>2, CountGrows
<1> QED
  BY <1>2, <1>3, <1>4

(* Every level below that of a message is the level of an ordered one      *)
(* before it.                                                              *)
LEMMA LevelHits ==
    ASSUME log \in Seq(Message), NEW k \in 0 .. Len(log), NEW d \in Nat, d < OrderedUpTo(k)
    PROVE  \E m \in 1 .. k : m \in DOMAIN log /\ IsOrdered(m) /\ Level(m) = d
<1>1. Len(log) \in Nat /\ DOMAIN log = 1 .. Len(log) /\ k \in Nat
  OBVIOUS
<1>2. d < Count(OrderedIds, k)
  BY <1>1, UpToIsCount
<1>3. PICK m \in 1 .. k : m \in OrderedIds /\ Count(OrderedIds, m - 1) = d
  BY <1>1, <1>2, CountHits
<1>4. m - 1 \in Nat
  BY <1>1, <1>3
<1>5. Level(m) = d
  BY <1>3, <1>4, UpToIsCount DEF Level
<1>6. m \in DOMAIN log
  BY <1>1, <1>3
<1> QED
  BY <1>3, <1>5, <1>6 DEF OrderedIds

(* What TypeOK says of each variable and of the elements of each sequence. *)
LEMMA TypeFacts ==
    ASSUME TypeOK
    PROVE  /\ log \in Seq(Message)
           /\ copies \in [DOMAIN log -> 0 .. MaxCopies + 1]
           /\ orderedWriteIndex \in Number /\ sequencedWriteIndex \in Number
           /\ orderedReadIndex \in Number /\ highestSequencedReadIndex \in Number
           /\ heapIndexOffset \in Number
           /\ orderingHeap \in Seq([weight : Nat, id : DOMAIN log])
           /\ outputQueue \in Seq(DOMAIN log)
           /\ \A m \in DOMAIN log : log[m] \in Message
           /\ \A m \in DOMAIN log : log[m].orderingIndex \in Number /\ log[m].sequencingIndex \in Number
           /\ \A i \in DOMAIN orderingHeap : orderingHeap[i] \in [weight : Nat, id : DOMAIN log]
           /\ \A i \in DOMAIN orderingHeap : orderingHeap[i].id \in DOMAIN log
           /\ \A i \in DOMAIN outputQueue : outputQueue[i] \in DOMAIN log
<1>1. log \in Seq(Message)
  BY DEF TypeOK
<1>2. \A m \in DOMAIN log : log[m] \in Message
  BY <1>1
<1>3. \A x \in Message : x.orderingIndex \in Number /\ x.sequencingIndex \in Number
  BY DEF Message
<1>4. PICK E, h : E = [weight : Nat, id : DOMAIN log] /\ h = orderingHeap /\ h \in Seq(E)
  BY DEF TypeOK
<1>5. \A i \in DOMAIN h : h[i] \in E
  <2>1. h \in Seq(E)
    BY <1>4
  <2> QED
    BY <2>1
<1>6. \A e \in E : e.id \in DOMAIN log
  BY <1>4
<1>7. \A i \in DOMAIN outputQueue : outputQueue[i] \in DOMAIN log
  BY DEF TypeOK
<1> QED
  BY <1>2, <1>3, <1>4, <1>5, <1>6, <1>7 DEF TypeOK

(* The channel waits for an ordered message that is on its way, so that it *)
(* is never far behind the sender.                                         *)
LEMMA SpanBound ==
    ASSUME TypeOK, CopiesAreRecent, OrderedInv, HeapInv
    PROVE  /\ Done \in Nat /\ Done <= Sent /\ Sent \in Nat
           /\ Sent - Done = Behind(orderedReadIndex)
           /\ Sent - Done <= MaxSpan + 1
           /\ Done < Sent => \E m \in DOMAIN log : IsOrdered(m) /\ Level(m) = Done /\ copies[m] = 1
<1>0. log \in Seq(Message) /\ Sent \in Nat
  BY TypeFacts, LevelFacts
<1>1. Behind(orderedReadIndex) \in Nat
  <2>1. Minus(orderedWriteIndex, orderedReadIndex) \in Number
    BY TypeFacts, MinusFacts
  <2> QED
    BY <2>1, RangeFacts DEF Behind
<1>2. Done \in Nat /\ Done <= Sent /\ Sent - Done = Behind(orderedReadIndex)
  BY <1>0, <1>1 DEF Done, OrderedInv
<1>3. ASSUME Done < Sent
      PROVE  /\ Sent - Done <= MaxSpan + 1
             /\ \E m \in DOMAIN log : IsOrdered(m) /\ Level(m) = Done /\ copies[m] = 1
  <2>1. PICK m \in DOMAIN log : IsOrdered(m) /\ Level(m) = Done
    <3>1. Done < OrderedUpTo(Len(log)) /\ Len(log) \in 0 .. Len(log)
      BY <1>0, <1>3 DEF Sent
    <3> QED
      BY <1>0, <1>2, <3>1, LevelHits
  <2>2. ~InHeap(m)
    BY <1>2, <2>1 DEF HeapInv, EntryInv, InHeap
  <2>3. copies[m] = 1
    BY <1>2, <2>1, <2>2 DEF OrderedInv
  <2>4. Sent - OrderedUpTo(m) <= MaxSpan
    BY <2>1, <2>3 DEF CopiesAreRecent
  <2>5. OrderedUpTo(m) = Done + 1
    BY <1>0, <2>1, LevelFacts
  <2> QED
    BY <1>0, <1>2, <2>1, <2>3, <2>4, <2>5, OrderingAssumption
<1> QED
  BY <1>0, <1>2, <1>3, OrderingAssumption

(* What the receiver finds out about a message by comparing indices.       *)
LEMMA LiveFacts ==
    ASSUME TypeOK, CopiesAreRecent, OrderedInv, HeapInv,
           NEW m \in DOMAIN log, copies[m] > 0
    PROVE  /\ HasCurrentIndex(m) <=> Level(m) = Done
           /\ ~HasCurrentIndex(m) =>
                 (IsOlderOrderedPacket(log[m].orderingIndex, orderedReadIndex) <=> Level(m) < Done)
           /\ IsOrdered(m) => Level(m) >= Done /\ copies[m] = 1 /\ ~InHeap(m)
<1>0. PICK x \in Number, y \in Number, w \in Number :
         x = log[m].orderingIndex /\ y = orderedReadIndex /\ w = orderedWriteIndex
  BY TypeFacts
<1>1. PICK L \in Nat, D \in Nat, S \in Nat : L = Level(m) /\ D = Done /\ S = Sent
  BY TypeFacts, LevelFacts, SpanBound
<1>2. Minus(w, x) = S - L /\ Minus(w, y) = S - D
  BY <1>0, <1>1, SpanBound DEF CopiesAreRecent, IndexIsTrue, Behind
<1>3. S - D <= MaxSpan + 1 /\ D <= S
  BY <1>1, SpanBound
<1>4. IsOrdered(m) => Level(m) >= Done /\ copies[m] = 1 /\ ~InHeap(m)
  <2>1. log \in Seq(Message) /\ copies[m] \in Nat
    BY TypeFacts, OrderingAssumption
  <2> QED
    BY <2>1, <1>1 DEF OrderedInv
<1>5. L <= S /\ (L < D => S - L <= MaxSpan)
  <2>1. Sent - OrderedUpTo(m) <= MaxSpan
    BY DEF CopiesAreRecent
  <2>2. OrderedUpTo(m) = L + (IF IsOrdered(m) THEN 1 ELSE 0) /\ OrderedUpTo(m) <= Sent
    BY <1>1, TypeFacts, LevelFacts
  <2> QED
    BY <1>1, <1>4, <2>1, <2>2
<1>6. x = y <=> L = D
  <2>1. Minus(w, x) = Minus(w, y) => x = y
    BY MinusFacts
  <2> QED
    BY <2>1, <1>2
<1>7. L < D => IsOlderOrderedPacket(x, y)
  <2>1. SUFFICES ASSUME L < D PROVE IsOlderOrderedPacket(x, y)
    OBVIOUS
  <2>2. Minus(y, x) = D - L
    BY <1>0, <1>1, <1>2, <2>1, MinusFacts
  <2>3. Minus(y, x) \in 1 .. HalfRange - 1
    BY <1>1, <1>3, <1>5, <2>1, <2>2, OrderingAssumption, RangeFacts
  <2> QED
    BY <2>3, OlderFacts
<1>8. L > D => ~IsOlderOrderedPacket(x, y)
  <2>1. SUFFICES ASSUME L > D PROVE ~IsOlderOrderedPacket(x, y)
    OBVIOUS
  <2>2. Minus(x, y) = L - D
    BY <1>0, <1>1, <1>2, <2>1, MinusFacts
  <2>3. Minus(x, y) \in 1 .. HalfRange
    BY <1>1, <1>3, <1>5, <2>1, <2>2, OrderingAssumption, RangeFacts
  <2> QED
    BY <2>3, OlderFacts
<1> QED
  BY <1>0, <1>1, <1>4, <1>6, <1>7, <1>8 DEF HasCurrentIndex

-----------------------------------------------------------------------------
(* The sender                                                              *)

(* A new connection has sent and handed over nothing.                      *)
LEMMA ChannelInitial == Init => ChannelInv
<1> SUFFICES ASSUME Init PROVE ChannelInv
  OBVIOUS
<1>1. /\ log = <<>> /\ copies = <<>> /\ orderingHeap = <<>> /\ outputQueue = <<>>
      /\ orderedWriteIndex \in Number /\ orderedReadIndex = orderedWriteIndex
      /\ sequencedWriteIndex = 0 /\ highestSequencedReadIndex = 0 /\ heapIndexOffset = 0
  BY OrderingAssumption DEF Init
<1>2. DOMAIN log = {} /\ DOMAIN orderingHeap = {} /\ DOMAIN outputQueue = {} /\ Len(log) = 0
  BY <1>1
<1>3. 0 \in Number /\ SeqWeight - 1 \in Nat
  BY RangeFacts, OrderingAssumption
<1>4. TypeOK
  BY <1>1, <1>2, <1>3 DEF TypeOK
<1>5. Sent = 0
  BY <1>2, UpToIsCount, CountZero DEF Sent
<1>6. Done = 0
  <2>1. Minus(orderedWriteIndex, orderedReadIndex) = 0
    BY <1>1, MinusFacts
  <2> QED
    BY <1>5, <2>1 DEF Done, Behind
<1>7. LogInOrder
  BY <1>1, <1>2, <1>3 DEF LogInOrder
<1>8. CopiesAreRecent /\ OrderedInv /\ HeapInv
  BY <1>1, <1>2, <1>6 DEF CopiesAreRecent, OrderedInv, HeapInv
<1>9. OutputInv
  BY <1>1, <1>2, <1>3 DEF OutputInv
<1> QED
  BY <1>4, <1>7, <1>8, <1>9 DEF ChannelInv

(* Message m0 is added to the log.                                         *)
LogGrows(m0, r) ==
    /\ log' \in Seq(Message)
    /\ m0 \in Nat /\ m0 = Len(log) + 1 /\ m0 = Len(log')
    /\ DOMAIN log' = DOMAIN log \cup {m0} /\ m0 \notin DOMAIN log
    /\ \A m \in DOMAIN log : m < m0
    /\ log'[m0] = r
    /\ \A m \in DOMAIN log :
          /\ log'[m] = log[m]
          /\ IsOrdered(m)' <=> IsOrdered(m)
          /\ (OrderedUpTo(m))' = OrderedUpTo(m)
          /\ (Level(m))' = Level(m)
          /\ (Rank(m))' = Rank(m)
    /\ (Level(m0))' = Sent
    /\ Sent' = Sent + (IF r.kind = Ordered THEN 1 ELSE 0)
    /\ (OrderedUpTo(m0))' = Sent'

(* What a new message leaves as it was, and its own level.                 *)
LEMMA AppendGrowsLog ==
    ASSUME log \in Seq(Message), NEW r \in Message, log' = Append(log, r),
           NEW m0, m0 = Len(log) + 1
    PROVE  LogGrows(m0, r)
<1>1. PICK n \in Nat : n = Len(log) /\ DOMAIN log = 1 .. n
  OBVIOUS
<1>2. /\ log' \in Seq(Message) /\ m0 = n + 1 /\ m0 \in Nat \ {0}
      /\ DOMAIN log' = 1 .. n + 1 /\ Len(log') = n + 1
      /\ log'[m0] = r
      /\ \A m \in 1 .. n : log'[m] = log[m]
  BY <1>1
<1>3. \A m \in DOMAIN log : IsOrdered(m)' <=> IsOrdered(m)
  BY <1>1, <1>2 DEF IsOrdered
<1>4. ASSUME NEW k \in 0 .. n
      PROVE  (OrderedUpTo(k))' = OrderedUpTo(k)
  <2>1. {i \in 1 .. k : IsOrdered(i)'} = {i \in 1 .. k : IsOrdered(i)}
    BY <1>1, <1>3, <1>4
  <2> QED
    BY <2>1 DEF OrderedUpTo
<1>5. \A m \in DOMAIN log : (OrderedUpTo(m))' = OrderedUpTo(m) /\ (Level(m))' = Level(m)
  BY <1>1, <1>4 DEF Level
<1>6. \A m \in DOMAIN log : (Rank(m))' = Rank(m)
  BY <1>1, <1>2, <1>3 DEF Rank
<1>7. (Level(m0))' = Sent
  <2>1. n \in 0 .. n /\ m0 - 1 = n
    BY <1>1, <1>2
  <2>2. (OrderedUpTo(n))' = OrderedUpTo(n)
    BY <2>1, <1>4
  <2> QED
    BY <1>1, <2>1, <2>2 DEF Level, Sent
<1>8. (OrderedUpTo(m0))' = Sent + (IF r.kind = Ordered THEN 1 ELSE 0)
  <2>1. PICK B : B = {i \in Nat : IsOrdered(i)'}
    OBVIOUS
  <2>2. {i \in 1 .. m0 : IsOrdered(i)'} = {i \in 1 .. m0 : i \in B}
    BY <2>1, <1>2
  <2>3. {i \in 1 .. n : IsOrdered(i)'} = {i \in 1 .. n : i \in B}
    BY <2>1, <1>2
  <2>4. (OrderedUpTo(m0))' = Count(B, m0)
    BY <2>2 DEF OrderedUpTo, Count
  <2>5. (OrderedUpTo(n))' = Count(B, n)
    BY <2>3 DEF OrderedUpTo, Count
  <2>6. Count(B, n) = Sent
    <3>1. n \in 0 .. n
      OBVIOUS
    <3>2. (OrderedUpTo(n))' = OrderedUpTo(n)
      BY <3>1, <1>4
    <3> QED
      BY <2>5, <3>2, <1>1 DEF Sent
  <2>7. Count(B, m0) = Count(B, m0 - 1) + (IF m0 \in B THEN 1 ELSE 0)
    BY <1>2, CountStep
  <2>8. m0 \in B <=> r.kind = Ordered
    BY <1>2, <2>1 DEF IsOrdered
  <2>9. m0 - 1 = n
    BY <1>1, <1>2
  <2> QED
    BY <2>4, <2>6, <2>7, <2>8, <2>9
<1>9. Sent' = (OrderedUpTo(m0))'
  BY <1>2 DEF Sent
<1>10. DOMAIN log' = DOMAIN log \cup {m0} /\ m0 \notin DOMAIN log /\ \A m \in DOMAIN log : m < m0
  BY <1>1, <1>2
<1> QED
  BY <1>1, <1>2, <1>3, <1>5, <1>6, <1>7, <1>8, <1>9, <1>10 DEF LogGrows

(* What the receiver has is not affected by a new message.                 *)
SendsMessage(m0, r) ==
    /\ LogGrows(m0, r)
    /\ DOMAIN copies' = DOMAIN log' /\ \A m \in DOMAIN log : copies'[m] = copies[m]
    /\ IsOrdered(m0)' => copies'[m0] = 1
    /\ Done' = Done
    /\ orderingHeap /= <<>> => HeapStart' = HeapStart
    /\ \A m \in DOMAIN log : InHeap(m) => IndexIsTrue(m)'
    /\ orderingHeap' = orderingHeap /\ outputQueue' = outputQueue
    /\ highestSequencedReadIndex' = highestSequencedReadIndex

(* The receiver's part of the invariant, when a message is sent.           *)
LEMMA ReceiverStays ==
    ASSUME ChannelInv, NEW m0, NEW r, SendsMessage(m0, r)
    PROVE  OrderedInv' /\ HeapInv' /\ OutputInv'
<1>0. /\ TypeOK /\ OrderedInv /\ HeapInv /\ OutputInv /\ LogGrows(m0, r)
      /\ Done \in Nat /\ Done <= Sent /\ Sent \in Nat
  BY SpanBound DEF ChannelInv, SendsMessage
<1>1. /\ DOMAIN log' = DOMAIN log \cup {m0} /\ m0 \notin DOMAIN log
      /\ \A m \in DOMAIN log : /\ IsOrdered(m)' <=> IsOrdered(m)
                               /\ (Level(m))' = Level(m)
                               /\ (Rank(m))' = Rank(m)
                               /\ copies'[m] = copies[m]
      /\ (Level(m0))' = Sent
      /\ Done' = Done
      /\ orderingHeap' = orderingHeap /\ outputQueue' = outputQueue
      /\ highestSequencedReadIndex' = highestSequencedReadIndex
  BY <1>0 DEF LogGrows, SendsMessage
<1>2. \A i \in DOMAIN orderingHeap : orderingHeap[i].id \in DOMAIN log
  BY <1>0, TypeFacts
<1>3. \A i \in DOMAIN outputQueue : outputQueue[i] \in DOMAIN log
  BY <1>0, TypeFacts
<1>4. \A m : InHeap(m)' <=> InHeap(m)
  BY <1>1 DEF InHeap
<1>5. ~InHeap(m0)
  BY <1>1, <1>2 DEF InHeap
<1>6. OrderedInv'
  <2>1. ASSUME NEW m \in DOMAIN log', IsOrdered(m)'
        PROVE  /\ copies'[m] \in {0, 1}
               /\ (Level(m))' < Done' => copies'[m] = 0
               /\ (Level(m))' >= Done' => (copies'[m] = 0 <=> InHeap(m)')
    <3>1. CASE m = m0
      <4>1. copies'[m] = 1
        BY <3>1, <2>1 DEF SendsMessage
      <4>2. ~((Level(m))' < Done')
        BY <3>1, <1>0, <1>1
      <4> QED
        BY <3>1, <4>1, <4>2, <1>4, <1>5
    <3>2. CASE m \in DOMAIN log
      BY <3>2, <2>1, <1>0, <1>1, <1>4 DEF OrderedInv
    <3> QED
      BY <3>1, <3>2, <1>1
  <2>2. Done' >= 0
    BY <1>0, <1>1
  <2> QED
    BY <2>1, <2>2 DEF OrderedInv
<1>7. \A m, n \in DOMAIN log : Precedes(m, n)' <=> Precedes(m, n)
  BY <1>1 DEF Precedes
<1>8. HeapInv'
  <2>0. orderingHeap /= <<>> => HeapStart' = HeapStart
    BY DEF SendsMessage
  <2>1. orderingHeap' /= <<>> => HeapStart' <= Done'
    BY <1>0, <1>1, <2>0 DEF HeapInv
  <2>2. ASSUME NEW i \in DOMAIN orderingHeap, NEW e, e = orderingHeap[i]
        PROVE  EntryInv(e)'
    <3>1. e.id \in DOMAIN log /\ orderingHeap /= <<>>
      BY <1>2, <2>2
    <3>2. EntryInv(e)
      BY <1>0, <2>2 DEF HeapInv
    <3>3. IndexIsTrue(e.id)'
      BY <2>2, <3>1 DEF SendsMessage, InHeap
    <3>4. (Level(e.id))' = Level(e.id) /\ (Rank(e.id))' = Rank(e.id) /\ HeapStart' = HeapStart
      BY <1>1, <2>0, <3>1
    <3> QED
      BY <1>1, <3>2, <3>3, <3>4 DEF EntryInv
  <2>3. ASSUME NEW i \in DOMAIN orderingHeap, NEW j \in DOMAIN orderingHeap, i < j,
               NEW m, NEW n, m = orderingHeap[i].id, n = orderingHeap[j].id
        PROVE  Precedes(m, n)'
    BY <1>0, <1>2, <1>7, <2>3 DEF HeapInv
  <2> QED
    BY <2>1, <2>2, <2>3, <1>1 DEF HeapInv
<1>9. OutputInv'
  <2>1. ASSUME NEW i \in DOMAIN outputQueue, NEW m, m = outputQueue[i]
        PROVE  IsPast(m)'
    <3>1. m \in DOMAIN log /\ IsPast(m)
      BY <1>0, <1>3, <2>1 DEF OutputInv
    <3> QED
      BY <3>1, <1>1 DEF IsPast
  <2>2. ASSUME NEW m \in DOMAIN log', IsOrdered(m)', (Level(m))' < Done'
        PROVE  \E i \in DOMAIN outputQueue' : outputQueue'[i] = m
    <3>1. m /= m0
      BY <2>2, <1>0, <1>1
    <3> QED
      BY <3>1, <2>2, <1>0, <1>1 DEF OutputInv
  <2>3. ASSUME NEW i \in DOMAIN outputQueue, NEW j \in DOMAIN outputQueue, i < j,
               NEW m, NEW n, m = outputQueue[i], n = outputQueue[j]
        PROVE  Precedes(m, n)'
    BY <1>0, <1>3, <1>7, <2>3 DEF OutputInv
  <2>4. highestSequencedReadIndex' \in 0 .. SeqWeight - 1
    BY <1>0, <1>1 DEF OutputInv
  <2> QED
    BY <2>1, <2>2, <2>3, <2>4, <1>1 DEF OutputInv
<1> QED
  BY <1>6, <1>8, <1>9

(* A message that is sent comes last.                                      *)
LEMMA LogStaysInOrder ==
    ASSUME ChannelInv, NEW m0, NEW r \in Message, LogGrows(m0, r),
           r.sequencingIndex = sequencedWriteIndex \/ r.kind = Ordered,
           r.kind /= Ordered => /\ sequencedWriteIndex < SeqWeight - 1
                                /\ sequencedWriteIndex' = sequencedWriteIndex + 1,
           r.kind = Ordered => sequencedWriteIndex' = 0
    PROVE  LogInOrder'
<1>0. /\ log \in Seq(Message) /\ LogInOrder /\ Sent \in Nat /\ SeqWeight \in Nat /\ SeqWeight > 1
      /\ sequencedWriteIndex \in 0 .. SeqWeight - 1
  BY TypeFacts, LevelFacts, OrderingAssumption DEF ChannelInv, LogInOrder
<1>1. /\ DOMAIN log' = DOMAIN log \cup {m0} /\ m0 \notin DOMAIN log
      /\ \A m \in DOMAIN log : m < m0 /\ m \in Nat
      /\ m0 \in Nat
      /\ \A m \in DOMAIN log : /\ IsOrdered(m)' <=> IsOrdered(m)
                               /\ (Level(m))' = Level(m)
                               /\ (Rank(m))' = Rank(m)
      /\ (Level(m0))' = Sent
      /\ Sent' = Sent + (IF r.kind = Ordered THEN 1 ELSE 0)
  BY <1>0, LevelFacts DEF LogGrows
<1>2. /\ IsOrdered(m0)' <=> r.kind = Ordered
      /\ (Rank(m0))' = IF r.kind = Ordered THEN SeqWeight - 1 ELSE sequencedWriteIndex
  BY DEF LogGrows, IsOrdered, Rank
<1>3. \A m \in DOMAIN log : /\ Level(m) \in Nat /\ Level(m) <= Sent
                            /\ IsOrdered(m) => Level(m) < Sent
                            /\ Rank(m) \in 0 .. SeqWeight - 1
                            /\ ~IsOrdered(m) => Rank(m) < SeqWeight - 1
                            /\ ~IsOrdered(m) /\ Level(m) = Sent => Rank(m) < sequencedWriteIndex
  <2> SUFFICES ASSUME NEW m \in DOMAIN log
               PROVE  /\ Level(m) \in Nat /\ Level(m) <= Sent
                      /\ IsOrdered(m) => Level(m) < Sent
    BY <1>0 DEF LogInOrder
  <2>1. /\ Level(m) \in Nat
        /\ OrderedUpTo(m) = Level(m) + (IF IsOrdered(m) THEN 1 ELSE 0)
        /\ OrderedUpTo(m) <= Sent
    BY <1>0, LevelFacts
  <2> QED
    BY <2>1, <1>0
<1>4. ASSUME NEW m \in DOMAIN log'
      PROVE  /\ (Rank(m))' \in 0 .. SeqWeight - 1
             /\ ~IsOrdered(m)' => (Rank(m))' < SeqWeight - 1
             /\ ~IsOrdered(m)' /\ (Level(m))' = Sent' => (Rank(m))' < sequencedWriteIndex'
  <2>1. CASE m = m0
    BY <2>1, <1>0, <1>1, <1>2
  <2>2. CASE m \in DOMAIN log
    BY <2>2, <1>0, <1>1, <1>3
  <2> QED
    BY <2>1, <2>2, <1>1
<1>5. ASSUME NEW m \in DOMAIN log', NEW n \in DOMAIN log', m < n
      PROVE  (Level(m))' < (Level(n))' \/ ((Level(m))' = (Level(n))' /\ (Rank(m))' < (Rank(n))')
  <2>1. CASE m = m0
    BY <2>1, <1>1, <1>5
  <2>2. CASE m \in DOMAIN log /\ n = m0
    <3>1. Level(m) = Sent => ~IsOrdered(m) /\ Rank(m) < SeqWeight - 1 /\ Rank(m) < sequencedWriteIndex
      BY <2>2, <1>3
    <3>2. Rank(m) < (Rank(n))' \/ Level(m) /= Sent
      BY <3>1, <2>2, <1>2
    <3> QED
      BY <3>2, <2>2, <1>0, <1>1, <1>3
  <2>3. CASE m \in DOMAIN log /\ n \in DOMAIN log
    BY <2>3, <1>5, <1>0, <1>1 DEF LogInOrder
  <2> QED
    BY <2>1, <2>2, <2>3, <1>1
<1>6. sequencedWriteIndex' \in 0 .. SeqWeight - 1
  BY <1>0
<1> QED
  BY <1>4, <1>5, <1>6 DEF LogInOrder

(* Appending to a sequence, as a function.                                 *)
Extended(g, S, f, n, x) ==
    /\ g \in [1 .. n + 1 -> S]
    /\ \A i \in 1 .. n : g[i] = f[i]
    /\ g[n + 1] = x

(* Append makes such a function of one.                                    *)
LEMMA CopiesGrow ==
    ASSUME NEW n \in Nat, NEW S, NEW f \in [1 .. n -> S], NEW x \in S
    PROVE  Extended(Append(f, x), S, f, n, x)
<1>1. f \in Seq(S) /\ Len(f) = n
  OBVIOUS
<1>2. PICK g : g = Append(f, x)
  OBVIOUS
<1>3. g \in Seq(S) /\ Len(g) = n + 1 /\ DOMAIN g = 1 .. (n + 1)
  BY <1>1, <1>2
<1>4. \A i \in 1 .. (n + 1) : g[i] = IF i = n + 1 THEN x ELSE f[i]
  BY <1>1, <1>2
<1>5. g \in [1 .. n + 1 -> S]
  BY <1>3
<1>6. (\A i \in 1 .. n : g[i] = f[i]) /\ g[n + 1] = x
  BY <1>4
<1> QED
  BY <1>2, <1>5, <1>6 DEF Extended

(* The types after a message was sent.                                     *)
LEMMA TypesGrow ==
    ASSUME TypeOK, NEW m0, NEW r, LogGrows(m0, r),
           NEW c \in 0 .. MaxCopies + 1, copies' = Append(copies, c),
           orderedWriteIndex' \in Number, sequencedWriteIndex' \in Number,
           UNCHANGED <<heapVars, readVars, outputQueue>>
    PROVE  /\ TypeOK'
           /\ DOMAIN copies' = DOMAIN log'
           /\ \A m \in DOMAIN log : copies'[m] = copies[m]
           /\ copies'[m0] = c
<1>1. PICK n \in Nat : n = Len(log) /\ DOMAIN log = 1 .. n /\ m0 = n + 1
  <2>1. log \in Seq(Message) /\ m0 = Len(log) + 1
    BY TypeFacts DEF LogGrows
  <2> QED
    BY <2>1
<1>2. /\ log' \in Seq(Message) /\ DOMAIN log' = DOMAIN log \cup {m0}
  BY DEF LogGrows
<1>3. DOMAIN log' = 1 .. n + 1
  BY <1>1, <1>2
<1>4. copies \in [1 .. n -> 0 .. MaxCopies + 1]
  BY <1>1, TypeFacts
<1>5. /\ copies' \in [1 .. n + 1 -> 0 .. MaxCopies + 1]
      /\ \A i \in 1 .. n : copies'[i] = copies[i]
      /\ copies'[n + 1] = c
  <2>1. PICK S, f, y : S = 0 .. MaxCopies + 1 /\ f = copies /\ y = c /\ f \in [1 .. n -> S] /\ y \in S
    BY <1>4
  <2>2. Extended(Append(f, y), S, f, n, y)
    BY <2>1, CopiesGrow
  <2>3. copies' = Append(f, y)
    BY <2>1
  <2> QED
    BY <2>1, <2>2, <2>3 DEF Extended
<1>6. /\ orderingHeap' = orderingHeap /\ outputQueue' = outputQueue
      /\ heapIndexOffset' = heapIndexOffset /\ orderedReadIndex' = orderedReadIndex
      /\ highestSequencedReadIndex' = highestSequencedReadIndex
  BY DEF heapVars, readVars
<1>7. orderingHeap \in Seq([weight : Nat, id : DOMAIN log'])
  <2>1. [weight : Nat, id : DOMAIN log] \subseteq [weight : Nat, id : DOMAIN log']
    BY <1>2
  <2>2. PICK S, T, h : /\ S = [weight : Nat, id : DOMAIN log] /\ T = [weight : Nat, id : DOMAIN log']
                       /\ h = orderingHeap
    OBVIOUS
  <2>3. S \subseteq T /\ h \in Seq(S)
    BY <2>1, <2>2, TypeFacts, Zenon
  <2>4. h \in Seq(T)
    BY <2>3
  <2> QED
    BY <2>2, <2>4, Zenon
<1>8. outputQueue \in Seq(DOMAIN log')
  <2>1. PICK S, T, h : S = DOMAIN log /\ T = DOMAIN log' /\ h = outputQueue
    OBVIOUS
  <2>2. S \subseteq T /\ h \in Seq(S)
    BY <2>1, <1>2, TypeFacts, Zenon
  <2>3. h \in Seq(T)
    BY <2>2
  <2> QED
    BY <2>1, <2>3, Zenon
<1>9. TypeOK'
  BY <1>2, <1>3, <1>5, <1>6, <1>7, <1>8, TypeFacts DEF TypeOK
<1> QED
  BY <1>1, <1>3, <1>5, <1>9

(* Send of an ordered message.                                             *)
LEMMA SendOrderedKeeps ==
    ASSUME ChannelInv, SendOrdered
    PROVE  ChannelInv'
<1>0. /\ TypeOK /\ CopiesAreRecent /\ OrderedInv /\ HeapInv /\ log \in Seq(Message)
      /\ Done \in Nat /\ Done <= Sent /\ Sent \in Nat
      /\ Sent - Done = Behind(orderedReadIndex)
      /\ Sent - Done <= MaxSpan + 1
      /\ MaxSpan \in Nat /\ MaxSpan + 1 <= HalfRange
      /\ HalfRange \in Nat /\ MaxNumber \in Nat /\ HalfRange < MaxNumber
  BY SpanBound, TypeFacts, OrderingAssumption, RangeFacts DEF ChannelInv
<1>1. PICK m0, r : m0 = Len(log) + 1
         /\ r = [kind |-> Ordered, orderingIndex |-> orderedWriteIndex, sequencingIndex |-> 0]
  OBVIOUS
<1>2. r \in Message /\ r.kind = Ordered /\ r.orderingIndex = orderedWriteIndex
  BY <1>0, <1>1, TypeFacts, RangeFacts DEF Message
<1>3. LogGrows(m0, r)
  BY <1>0, <1>1, <1>2, AppendGrowsLog DEF SendOrdered
<1>4. PICK w \in Number, v \in Number :
         /\ w = orderedWriteIndex /\ v = orderedWriteIndex'
         /\ v = Plus(w, 1)
         /\ \A x \in Number : Minus(w, x) < MaxNumber => Minus(v, x) = Minus(w, x) + 1
  <2>1. orderedWriteIndex \in Number /\ 1 \in Number
    BY <1>0, TypeFacts, RangeFacts
  <2>2. PICK w \in Number : w = orderedWriteIndex
    BY <2>1
  <2>3. Plus(w, 1) \in Number /\ \A x \in Number : Minus(w, x) < MaxNumber => Minus(Plus(w, 1), x) = Minus(w, x) + 1
    BY <2>1, PlusFacts
  <2> QED
    BY <2>2, <2>3 DEF SendOrdered
<1>5. /\ Sent' = Sent + 1 /\ (Level(m0))' = Sent
      /\ (OrderedUpTo(m0))' = Sent'
      /\ DOMAIN log' = DOMAIN log \cup {m0}
      /\ log'[m0] = r
      /\ \A m \in DOMAIN log : /\ log'[m] = log[m]
                               /\ (OrderedUpTo(m))' = OrderedUpTo(m)
                               /\ (Level(m))' = Level(m)
  BY <1>2, <1>3 DEF LogGrows
<1>6. UNCHANGED <<heapVars, readVars, outputQueue>>
  BY DEF SendOrdered
<1>7. /\ TypeOK' /\ DOMAIN copies' = DOMAIN log'
      /\ \A m \in DOMAIN log : copies'[m] = copies[m]
      /\ copies'[m0] = 1
  <2>1. 1 \in 0 .. MaxCopies + 1 /\ copies' = Append(copies, 1) /\ sequencedWriteIndex' \in Number
    BY OrderingAssumption, RangeFacts DEF SendOrdered
  <2>2. orderedWriteIndex' \in Number
    BY <1>4
  <2> QED
    BY <1>0, <1>3, <1>6, <2>1, <2>2, TypesGrow
<1>8. LogInOrder'
  <2>1. sequencedWriteIndex' = 0
    BY DEF SendOrdered
  <2> QED
    BY <2>1, <1>2, <1>3, LogStaysInOrder
<1>9. Done' = Done
  <2>1. PICK y \in Number : y = orderedReadIndex /\ y = orderedReadIndex'
    BY <1>0, <1>6, TypeFacts DEF readVars
  <2>2. Minus(v, y) = Minus(w, y) + 1
    BY <1>0, <1>4, <2>1 DEF Behind
  <2>3. Done = Sent - Minus(w, y) /\ Done' = Sent' - Minus(v, y)
    BY <1>4, <2>1 DEF Done, Behind
  <2>4. Minus(w, y) \in Nat
    BY <1>0, <1>4, <2>1 DEF Behind
  <2> QED
    BY <1>0, <1>5, <2>2, <2>3, <2>4
<1>10. orderingHeap /= <<>> => HeapStart' = HeapStart
  <2> SUFFICES ASSUME orderingHeap /= <<>> PROVE HeapStart' = HeapStart
    OBVIOUS
  <2>1. PICK y \in Number : y = heapIndexOffset /\ y = heapIndexOffset'
    BY <1>0, <1>6, TypeFacts DEF heapVars
  <2>2. Minus(w, y) < MaxNumber
    BY <1>4, <2>1 DEF SendOrdered, HeapIsYoung
  <2>3. Minus(v, y) = Minus(w, y) + 1 /\ Minus(w, y) \in Nat
    BY <1>4, <2>2, MinusFacts, RangeFacts
  <2>4. HeapStart = Sent - Minus(w, y) /\ HeapStart' = Sent' - Minus(v, y)
    BY <1>4, <2>1 DEF HeapStart, Behind
  <2> QED
    BY <1>0, <1>5, <2>3, <2>4
<1>11. ASSUME NEW m \in DOMAIN log, IndexIsTrue(m), Sent - Level(m) < MaxNumber
       PROVE  IndexIsTrue(m)'
  <2>1. PICK x \in Number : x = log[m].orderingIndex /\ x = log'[m].orderingIndex
    BY <1>0, <1>5, TypeFacts
  <2>2. Minus(w, x) = Sent - Level(m)
    BY <1>11, <1>4, <2>1 DEF IndexIsTrue, Behind
  <2>3. Minus(v, x) = Minus(w, x) + 1
    BY <1>4, <1>11, <2>2
  <2>4. Level(m) \in Nat
    BY <1>0, LevelFacts
  <2>5. Minus(v, x) = Sent' - (Level(m))'
    BY <1>0, <1>5, <2>2, <2>3, <2>4
  <2> QED
    BY <1>4, <2>1, <2>5 DEF IndexIsTrue, Behind
<1>12. IndexIsTrue(m0)'
  <2>1. Minus(v, w) = 1
    BY <1>0, <1>4, MinusFacts
  <2> QED
    BY <1>0, <1>2, <1>4, <1>5, <2>1 DEF IndexIsTrue, Behind
<1>13. \A m \in DOMAIN log : InHeap(m) => IndexIsTrue(m)'
  <2> SUFFICES ASSUME NEW m \in DOMAIN log, InHeap(m) PROVE IndexIsTrue(m)'
    OBVIOUS
  <2>1. Level(m) > Done /\ IndexIsTrue(m)
    BY <1>0 DEF InHeap, HeapInv, EntryInv
  <2>2. Level(m) \in Nat
    BY <1>0, LevelFacts
  <2> QED
    BY <2>1, <2>2, <1>0, <1>11
<1>14. CopiesAreRecent'
  <2> SUFFICES ASSUME NEW m \in DOMAIN log', copies'[m] > 0
               PROVE  Sent' - (OrderedUpTo(m))' <= MaxSpan /\ IndexIsTrue(m)'
    BY DEF CopiesAreRecent
  <2>1. CASE m = m0
    BY <2>1, <1>0, <1>5, <1>12
  <2>2. CASE m \in DOMAIN log
    <3>1. copies[m] > 0
      BY <2>2, <1>7
    <3>2. OrderedUpTo(Len(log)) - OrderedUpTo(m) < MaxSpan
      BY <2>2, <3>1 DEF SendOrdered
    <3>3. Sent - OrderedUpTo(m) < MaxSpan /\ IndexIsTrue(m)
      BY <2>2, <3>1, <3>2, <1>0 DEF Sent, CopiesAreRecent
    <3>4. /\ Level(m) \in Nat
          /\ OrderedUpTo(m) = Level(m) + (IF IsOrdered(m) THEN 1 ELSE 0)
      BY <2>2, <1>0, LevelFacts
    <3>5. Sent - Level(m) < MaxNumber
      BY <3>3, <3>4, <1>0
    <3>6. IndexIsTrue(m)'
      BY <2>2, <3>3, <3>5, <1>11
    <3>7. OrderedUpTo(m) \in Nat
      BY <3>4
    <3> QED
      BY <2>2, <3>3, <3>6, <3>7, <1>0, <1>5
  <2> QED
    BY <2>1, <2>2, <1>5
<1>15. SendsMessage(m0, r)
  BY <1>3, <1>6, <1>7, <1>9, <1>10, <1>13 DEF SendsMessage, heapVars, readVars
<1>16. OrderedInv' /\ HeapInv' /\ OutputInv'
  BY <1>15, ReceiverStays
<1> QED
  BY <1>7, <1>8, <1>14, <1>16 DEF ChannelInv

(* Send of a sequenced message.                                            *)
LEMMA SendSequencedKeeps ==
    ASSUME ChannelInv, NEW kind \in Sequenced, NEW n \in 0 .. MaxCopies, SendSequenced(kind, n)
    PROVE  ChannelInv'
<1>0. /\ TypeOK /\ CopiesAreRecent /\ OrderedInv /\ HeapInv /\ log \in Seq(Message)
      /\ Sent \in Nat /\ MaxSpan \in Nat
  BY SpanBound, TypeFacts, OrderingAssumption DEF ChannelInv
<1>1. PICK m0, r : m0 = Len(log) + 1
         /\ r = [kind |-> kind, orderingIndex |-> orderedWriteIndex,
                 sequencingIndex |-> sequencedWriteIndex]
  OBVIOUS
<1>2. /\ r \in Message /\ r.kind /= Ordered /\ r.orderingIndex = orderedWriteIndex
      /\ r.sequencingIndex = sequencedWriteIndex
  BY <1>0, <1>1, TypeFacts DEF Message, Sequenced, Ordered
<1>3. LogGrows(m0, r)
  BY <1>0, <1>1, <1>2, AppendGrowsLog DEF SendSequenced
<1>4. /\ Sent' = Sent /\ (Level(m0))' = Sent
      /\ (OrderedUpTo(m0))' = Sent'
      /\ DOMAIN log' = DOMAIN log \cup {m0}
      /\ log'[m0] = r
      /\ \A m \in DOMAIN log : /\ log'[m] = log[m]
                               /\ (OrderedUpTo(m))' = OrderedUpTo(m)
                               /\ (Level(m))' = Level(m)
  BY <1>0, <1>2, <1>3 DEF LogGrows
<1>5. UNCHANGED <<heapVars, readVars, outputQueue>> /\ orderedWriteIndex' = orderedWriteIndex
  BY DEF SendSequenced
<1>6. sequencedWriteIndex < SeqWeight - 1 /\ sequencedWriteIndex' = sequencedWriteIndex + 1
  <2>1. /\ sequencedWriteIndex < SeqWeight - 1
        /\ sequencedWriteIndex' = Plus(sequencedWriteIndex, 1)
    BY DEF SendSequenced
  <2>2. PICK w \in Number : w = sequencedWriteIndex
    BY <1>0, TypeFacts
  <2>3. w < SeqWeight - 1 => Plus(w, 1) = w + 1
    BY OrderingAssumption, RangeFacts DEF Plus
  <2> QED
    BY <2>1, <2>2, <2>3
<1>7. /\ TypeOK' /\ DOMAIN copies' = DOMAIN log'
      /\ \A m \in DOMAIN log : copies'[m] = copies[m]
  <2>1. n \in 0 .. MaxCopies + 1 /\ copies' = Append(copies, n)
    BY OrderingAssumption DEF SendSequenced
  <2>2. orderedWriteIndex' \in Number /\ sequencedWriteIndex' \in Number
    BY <1>0, <1>5, <1>6, TypeFacts, OrderingAssumption, RangeFacts
  <2> QED
    BY <1>0, <1>3, <1>5, <2>1, <2>2, TypesGrow
<1>8. LogInOrder'
  BY <1>2, <1>3, <1>6, LogStaysInOrder
<1>9. Done' = Done /\ HeapStart' = HeapStart
  BY <1>4, <1>5 DEF Done, HeapStart, Behind, heapVars, readVars
<1>10. \A m \in DOMAIN log : IndexIsTrue(m) => IndexIsTrue(m)'
  BY <1>4, <1>5 DEF IndexIsTrue, Behind
<1>11. IndexIsTrue(m0)'
  <2>1. Minus(orderedWriteIndex, orderedWriteIndex) = 0
    BY <1>0, TypeFacts, MinusFacts
  <2> QED
    BY <1>0, <1>2, <1>4, <1>5, <2>1 DEF IndexIsTrue, Behind
<1>12. CopiesAreRecent'
  <2> SUFFICES ASSUME NEW m \in DOMAIN log', copies'[m] > 0
               PROVE  Sent' - (OrderedUpTo(m))' <= MaxSpan /\ IndexIsTrue(m)'
    BY DEF CopiesAreRecent
  <2>1. CASE m = m0
    BY <2>1, <1>0, <1>4, <1>11
  <2>2. CASE m \in DOMAIN log
    BY <2>2, <1>0, <1>4, <1>7, <1>10 DEF CopiesAreRecent
  <2> QED
    BY <2>1, <2>2, <1>4
<1>13. SendsMessage(m0, r)
  <2>1. \A m \in DOMAIN log : InHeap(m) => IndexIsTrue(m)'
    BY <1>0, <1>10 DEF InHeap, HeapInv, EntryInv
  <2>2. ~IsOrdered(m0)'
    BY <1>2, <1>4 DEF IsOrdered
  <2> QED
    BY <2>1, <2>2, <1>3, <1>5, <1>7, <1>9 DEF SendsMessage, heapVars, readVars
<1>14. OrderedInv' /\ HeapInv' /\ OutputInv'
  BY <1>13, ReceiverStays
<1> QED
  BY <1>7, <1>8, <1>12, <1>14 DEF ChannelInv

-----------------------------------------------------------------------------
(* The receiver                                                            *)

(* What depends on the log and the sender only.                            *)
LEMMA SameLog ==
    ASSUME UNCHANGED senderVars
    PROVE  /\ log' = log /\ orderedWriteIndex' = orderedWriteIndex
           /\ sequencedWriteIndex' = sequencedWriteIndex
           /\ Sent' = Sent
           /\ \A m : /\ IsOrdered(m)' <=> IsOrdered(m)
                     /\ (OrderedUpTo(m))' = OrderedUpTo(m)
                     /\ (Level(m))' = Level(m)
                     /\ (Rank(m))' = Rank(m)
                     /\ IndexIsTrue(m)' <=> IndexIsTrue(m)
           /\ \A m, n : Precedes(m, n)' <=> Precedes(m, n)
<1>1. /\ log' = log /\ orderedWriteIndex' = orderedWriteIndex
      /\ sequencedWriteIndex' = sequencedWriteIndex
  BY DEF senderVars
<1>2. \A m : IsOrdered(m)' <=> IsOrdered(m)
  BY <1>1 DEF IsOrdered
<1>3. ASSUME NEW m PROVE (OrderedUpTo(m))' = OrderedUpTo(m)
  BY <1>2 DEF OrderedUpTo
<1>4. Sent' = Sent /\ \A m : (Level(m))' = Level(m)
  BY <1>1, <1>3 DEF Sent, Level
<1>5. \A m : /\ (Rank(m))' = Rank(m)
             /\ IndexIsTrue(m)' <=> IndexIsTrue(m)
  BY <1>1, <1>2, <1>4 DEF Rank, IndexIsTrue, Behind
<1>6. \A m, n : Precedes(m, n)' <=> Precedes(m, n)
  BY <1>2 DEF Precedes
<1> QED
  BY <1>1, <1>2, <1>3, <1>4, <1>5, <1>6

(* An arrival uses up a copy.                                              *)
LEMMA ArrivesFacts ==
    ASSUME ChannelInv, NEW m \in DOMAIN log, Arrives(m)
    PROVE  /\ copies[m] > 0 /\ copies[m] \in Nat
           /\ copies' \in [DOMAIN log -> 0 .. MaxCopies + 1]
           /\ copies'[m] = copies[m] - 1
           /\ \A n \in DOMAIN log : n /= m => copies'[n] = copies[n]
           /\ UNCHANGED senderVars
           /\ LogInOrder' /\ CopiesAreRecent'
<1>0. copies \in [DOMAIN log -> 0 .. MaxCopies + 1] /\ MaxCopies \in Nat /\ copies[m] > 0
  BY TypeFacts, OrderingAssumption DEF ChannelInv, Arrives
<1>1. copies[m] \in 0 .. MaxCopies + 1 /\ copies[m] - 1 \in 0 .. MaxCopies + 1
  BY <1>0
<1>2. copies' = [copies EXCEPT ![m] = copies[m] - 1] /\ UNCHANGED senderVars
  BY DEF Arrives
<1>3. /\ copies' \in [DOMAIN log -> 0 .. MaxCopies + 1]
      /\ copies'[m] = copies[m] - 1
      /\ \A n \in DOMAIN log : n /= m => copies'[n] = copies[n]
  BY <1>0, <1>1, <1>2
<1>4. LogInOrder'
  BY <1>2, SameLog DEF ChannelInv, LogInOrder
<1>5. CopiesAreRecent'
  <2> SUFFICES ASSUME NEW n \in DOMAIN log', copies'[n] > 0
               PROVE  Sent' - (OrderedUpTo(n))' <= MaxSpan /\ IndexIsTrue(n)'
    BY DEF CopiesAreRecent
  <2>1. n \in DOMAIN log
    BY <1>2, SameLog
  <2>2. copies[n] > 0
    BY <2>1, <1>0, <1>3
  <2>3. Sent - OrderedUpTo(n) <= MaxSpan /\ IndexIsTrue(n)
    BY <2>1, <2>2 DEF ChannelInv, CopiesAreRecent
  <2> QED
    BY <2>3, <1>2, SameLog
<1> QED
  BY <1>0, <1>1, <1>2, <1>3, <1>4, <1>5

(* A sequenced message that leaves the heap and the ordering index alone.  *)
LEMMA OrderedStay ==
    ASSUME ChannelInv, NEW m \in DOMAIN log, Arrives(m), ~IsOrdered(m),
           orderedReadIndex' = orderedReadIndex, UNCHANGED heapVars
    PROVE  Done' = Done /\ OrderedInv' /\ HeapInv'
<1>0. /\ OrderedInv /\ HeapInv
      /\ orderingHeap' = orderingHeap /\ heapIndexOffset' = heapIndexOffset
      /\ UNCHANGED senderVars
  BY ArrivesFacts DEF ChannelInv, heapVars
<1>1. Done' = Done /\ HeapStart' = HeapStart
  BY <1>0, SameLog DEF Done, HeapStart, Behind
<1>2. \A n : InHeap(n)' <=> InHeap(n)
  BY <1>0 DEF InHeap
<1>3. OrderedInv'
  <2>1. \A n \in DOMAIN log : IsOrdered(n) => copies'[n] = copies[n]
    BY ArrivesFacts
  <2> QED
    BY <2>1, <1>0, <1>1, <1>2, SameLog DEF OrderedInv
<1>4. \A e : EntryInv(e) => EntryInv(e)'
  BY <1>0, <1>1, SameLog DEF EntryInv
<1>5. HeapInv'
  BY <1>0, <1>1, <1>4, SameLog DEF HeapInv
<1> QED
  BY <1>1, <1>3, <1>5

(* A late message is discarded; an ordered one never is.                   *)
LEMMA DiscardKeeps ==
    ASSUME ChannelInv, NEW m \in DOMAIN log, Discard(m)
    PROVE  ChannelInv'
<1>0. /\ Arrives(m) /\ IsLate(m) /\ TypeOK /\ CopiesAreRecent /\ OrderedInv /\ HeapInv /\ OutputInv
      /\ orderedReadIndex' = orderedReadIndex
      /\ highestSequencedReadIndex' = highestSequencedReadIndex
      /\ UNCHANGED heapVars /\ outputQueue' = outputQueue
  BY DEF Discard, ChannelInv, readVars
<1>1. /\ copies[m] > 0
      /\ copies' \in [DOMAIN log -> 0 .. MaxCopies + 1]
      /\ UNCHANGED senderVars
      /\ LogInOrder' /\ CopiesAreRecent'
  BY <1>0, ArrivesFacts
<1>2. ~IsOrdered(m)
  <2> SUFFICES ASSUME IsOrdered(m) PROVE FALSE
    OBVIOUS
  <2>1. /\ IsOrdered(m) => Level(m) >= Done
        /\ ~HasCurrentIndex(m) =>
              (IsOlderOrderedPacket(log[m].orderingIndex, orderedReadIndex) <=> Level(m) < Done)
    BY <1>0, <1>1, LiveFacts
  <2>2. Level(m) < Done
    BY <1>0, <2>1 DEF IsLate
  <2>3. Level(m) \in Nat /\ Done \in Nat
    BY <1>0, TypeFacts, LevelFacts, SpanBound
  <2> QED
    BY <2>1, <2>2, <2>3
<1>3. Done' = Done /\ OrderedInv' /\ HeapInv'
  BY <1>0, <1>2, OrderedStay
<1>4. OutputInv'
  <2>1. \A n : IsPast(n) => IsPast(n)'
    BY <1>0, <1>1, <1>3, SameLog DEF IsPast
  <2> QED
    BY <2>1, <1>0, <1>1, <1>3, SameLog DEF OutputInv
<1>5. TypeOK'
  BY <1>0, <1>1, SameLog DEF TypeOK, heapVars
<1> QED
  BY <1>1, <1>3, <1>4, <1>5 DEF ChannelInv

(* Nothing handed over before follows a message that is of the present     *)
(* level and ordered, or not below the highest sequencing index.           *)
LEMMA PastPrecedes ==
    ASSUME ChannelInv, NEW m \in DOMAIN log, Level(m) = Done,
           IsOrdered(m) \/ highestSequencedReadIndex <= Rank(m),
           NEW o \in DOMAIN log, IsPast(o)
    PROVE  Precedes(o, m)
<1>1. /\ Level(m) \in Nat /\ Level(o) \in Nat /\ Done \in Nat /\ m \in Nat /\ o \in Nat
      /\ Rank(m) \in Nat /\ Rank(o) \in Nat /\ highestSequencedReadIndex \in Nat
  BY TypeFacts, LevelFacts, SpanBound, OrderingAssumption DEF ChannelInv, LogInOrder, OutputInv
<1>2. m < o => Level(m) < Level(o) \/ (Level(m) = Level(o) /\ Rank(m) < Rank(o))
  BY DEF ChannelInv, LogInOrder
<1>3. m < o /\ IsOrdered(m) => Level(m) < Level(o)
  <2> SUFFICES ASSUME m < o, IsOrdered(m) PROVE Level(m) < Level(o)
    OBVIOUS
  <2>1. OrderedUpTo(m) = Level(m) + 1 /\ OrderedUpTo(m) <= Level(o)
    BY TypeFacts, LevelFacts DEF ChannelInv
  <2> QED
    BY <2>1, <1>1
<1>4. ~(m < o)
  BY <1>1, <1>2, <1>3 DEF IsPast
<1>5. IsOrdered(o) => o /= m
  BY <1>1 DEF IsPast
<1> QED
  BY <1>1, <1>4, <1>5 DEF Precedes

(* A sequenced message of the present level is handed over.                *)
LEMMA DeliverSequencedKeeps ==
    ASSUME ChannelInv, NEW m \in DOMAIN log, DeliverSequenced(m)
    PROVE  ChannelInv'
<1>0. /\ Arrives(m) /\ HasCurrentIndex(m) /\ ~IsOrdered(m)
      /\ TypeOK /\ CopiesAreRecent /\ OrderedInv /\ HeapInv /\ OutputInv /\ LogInOrder
      /\ orderedReadIndex' = orderedReadIndex
      /\ UNCHANGED heapVars /\ outputQueue' = Append(outputQueue, m)
  BY DEF DeliverSequenced, ChannelInv
<1>1. /\ copies[m] > 0
      /\ copies' \in [DOMAIN log -> 0 .. MaxCopies + 1]
      /\ UNCHANGED senderVars
      /\ LogInOrder' /\ CopiesAreRecent'
  BY <1>0, ArrivesFacts
<1>2. Level(m) = Done
  BY <1>0, <1>1, LiveFacts
<1>3. PICK s : s = log[m].sequencingIndex
  OBVIOUS
<1>4. /\ s \in Number /\ s = Rank(m) /\ s \in 0 .. SeqWeight - 2
      /\ SeqWeight \in Nat /\ SeqWeight > 1 /\ SeqWeight <= HalfRange
  <2>1. s \in Number /\ s = Rank(m)
    BY <1>0, <1>3, TypeFacts DEF Rank
  <2>2. Rank(m) \in 0 .. SeqWeight - 1 /\ Rank(m) < SeqWeight - 1
    BY <1>0 DEF LogInOrder
  <2> QED
    BY <2>1, <2>2, OrderingAssumption
<1>5. PICK g : g = highestSequencedReadIndex /\ g \in Number /\ g \in 0 .. SeqWeight - 1
  BY <1>0, TypeFacts DEF OutputInv
<1>6. g <= s
  <2>1. ~IsOlderOrderedPacket(s, g)
    BY <1>3, <1>5 DEF DeliverSequenced
  <2>2. s <= HalfRange /\ g <= HalfRange
    BY <1>4, <1>5, RangeFacts
  <2>3. ~(s < g)
    BY <1>4, <1>5, <2>1, <2>2, OlderFacts
  <2> QED
    BY <1>4, <1>5, <2>3
<1>7. highestSequencedReadIndex' = s + 1 /\ s + 1 \in 0 .. SeqWeight - 1 /\ s + 1 \in Number
  BY <1>3, <1>4, RangeFacts DEF DeliverSequenced, Plus
<1>8. Done' = Done /\ OrderedInv' /\ HeapInv'
  BY <1>0, OrderedStay
<1>9. \A o \in DOMAIN log : IsPast(o) => IsPast(o)' /\ Precedes(o, m)
  <2> SUFFICES ASSUME NEW o \in DOMAIN log, IsPast(o) PROVE IsPast(o)' /\ Precedes(o, m)
    OBVIOUS
  <2>1. Precedes(o, m)
    BY <1>2, <1>4, <1>5, <1>6, PastPrecedes
  <2>2. Rank(o) \in 0 .. SeqWeight - 1
    BY <1>0 DEF LogInOrder
  <2>3. Rank(o) <= g => Rank(o) <= s + 1
    BY <2>2, <1>4, <1>5, <1>6
  <2>4. IsPast(o)'
    BY <2>3, <1>1, <1>5, <1>7, <1>8, SameLog DEF IsPast
  <2> QED
    BY <2>1, <2>4
<1>10. IsPast(m)'
  BY <1>0, <1>1, <1>2, <1>4, <1>7, <1>8, SameLog DEF IsPast
<1>11. PICK n, q, q2 :
         /\ q = outputQueue /\ q2 = outputQueue' /\ n = Len(q)
         /\ n \in Nat /\ DOMAIN q = 1 .. n /\ DOMAIN q2 = 1 .. n + 1
         /\ q2 \in Seq(DOMAIN log)
         /\ \A i \in 1 .. n : q2[i] = q[i] /\ q[i] \in DOMAIN log
         /\ q2[n + 1] = m
  <2>1. PICK q, S : q = outputQueue /\ S = DOMAIN log /\ q \in Seq(S) /\ m \in S
    BY <1>0, TypeFacts
  <2>2. /\ Append(q, m) \in Seq(S) /\ Len(q) \in Nat /\ DOMAIN q = 1 .. Len(q)
        /\ DOMAIN Append(q, m) = 1 .. Len(q) + 1
        /\ \A i \in 1 .. Len(q) : Append(q, m)[i] = q[i] /\ q[i] \in S
        /\ Append(q, m)[Len(q) + 1] = m
    BY <2>1
  <2> QED
    BY <2>1, <2>2, <1>0
<1>12. OutputInv'
  <2>1. \A i \in DOMAIN q2 : IsPast(q2[i])'
    BY <1>0, <1>9, <1>10, <1>11 DEF OutputInv
  <2>2. ASSUME NEW k \in DOMAIN log, IsOrdered(k), Level(k) < Done
        PROVE  \E i \in DOMAIN q2 : q2[i] = k
    <3>1. PICK i \in DOMAIN q : q[i] = k
      BY <2>2, <1>0, <1>11 DEF OutputInv
    <3>2. i \in 1 .. n /\ i \in 1 .. n + 1
      BY <3>1, <1>11
    <3> QED
      BY <3>1, <3>2, <1>11
  <2>3. ASSUME NEW i \in DOMAIN q2, NEW j \in DOMAIN q2, i < j
        PROVE  Precedes(q2[i], q2[j])
    <3>1. i \in 1 .. n /\ (j \in 1 .. n \/ j = n + 1)
      BY <2>3, <1>11
    <3>2. q[i] \in DOMAIN log /\ IsPast(q[i]) /\ q2[i] = q[i]
      BY <3>1, <1>0, <1>11 DEF OutputInv
    <3>3. CASE j = n + 1
      <4>1. q2[j] = m
        BY <1>11, <3>3
      <4>2. Precedes(q[i], m)
        BY <3>2, <1>9
      <4> QED
        BY <4>1, <4>2, <3>2
    <3>4. CASE j \in 1 .. n
      BY <3>1, <3>4, <2>3, <1>0, <1>11 DEF OutputInv
    <3> QED
      BY <3>1, <3>3, <3>4
  <2> QED
    BY <2>1, <2>2, <2>3, <1>1, <1>7, <1>8, <1>11, SameLog DEF OutputInv
<1>13. TypeOK'
  BY <1>0, <1>1, <1>7, <1>11, SameLog DEF TypeOK, heapVars
<1> QED
  BY <1>1, <1>8, <1>12, <1>13 DEF ChannelInv

-----------------------------------------------------------------------------
(* The heap                                                                *)

(* The weight orders by level, then by rank.                               *)
LEMMA WeightOrder ==
    ASSUME NEW s \in Nat, NEW a \in Nat, NEW b \in Nat,
           NEW p \in 0 .. s - 1, NEW q \in 0 .. s - 1,
           a < b \/ (a = b /\ p < q)
    PROVE  a * s + p < b * s + q
<1>1. CASE a < b
  <2>1. PICK d \in Nat : b = a + 1 + d
    <3>1. b - a - 1 \in Nat /\ b = a + 1 + (b - a - 1)
      BY <1>1
    <3> QED
      BY <3>1
  <2>2. b * s = a * s + s + d * s
    BY <2>1
  <2>3. d * s >= 0 /\ d * s \in Nat /\ a * s \in Nat
    OBVIOUS
  <2> QED
    BY <2>2, <2>3
<1>2. CASE a = b /\ p < q
  <2>1. a * s \in Nat
    OBVIOUS
  <2> QED
    BY <2>1, <1>2
<1> QED
  BY <1>1, <1>2

(* g is h with an entry e behind the first c entries.                      *)
InsertedAt(g, h, n, c, e) ==
    /\ DOMAIN g = 1 .. n + 1
    /\ \A i \in 1 .. c : g[i] = h[i]
    /\ g[c + 1] = e
    /\ \A i \in c + 2 .. n + 1 : g[i] = h[i - 1]

(* InsertAt does so.                                                       *)
LEMMA InsertAtFacts ==
    ASSUME NEW E, NEW h \in Seq(E), NEW e \in E, NEW n \in Nat, Len(h) = n, NEW c \in 0 .. n
    PROVE  InsertAt(h, c + 1, e) \in Seq(E) /\ InsertedAt(InsertAt(h, c + 1, e), h, n, c, e)
<1>1. PICK a, b : a = SubSeq(h, 1, c) /\ b = SubSeq(h, c + 1, n)
  OBVIOUS
<1>2. /\ a \in Seq(E) /\ Len(a) = c /\ \A i \in 1 .. c : a[i] = h[i]
      /\ b \in Seq(E) /\ Len(b) = n - c /\ \A i \in 1 .. n - c : b[i] = h[c + i]
  BY <1>1
<1>3. PICK s, d, g : s = <<e>> /\ d = a \o s /\ g = d \o b
  OBVIOUS
<1>4. /\ d \in Seq(E) /\ Len(d) = c + 1 /\ d[c + 1] = e /\ \A i \in 1 .. c : d[i] = h[i]
  <2>1. s \in Seq(E) /\ Len(s) = 1 /\ s[1] = e
    BY <1>3
  <2>2. d \in Seq(E) /\ Len(d) = Len(a) + Len(s)
        /\ \A i \in 1 .. Len(d) : d[i] = IF i <= Len(a) THEN a[i] ELSE s[i - Len(a)]
    BY <1>2, <1>3, <2>1, ConcatProperties
  <2>3. Len(d) = c + 1
    BY <1>2, <2>1, <2>2
  <2>4. d[c + 1] = e
    BY <1>2, <2>1, <2>2, <2>3
  <2>5. \A i \in 1 .. c : d[i] = h[i]
    BY <1>2, <2>2, <2>3
  <2> QED
    BY <2>2, <2>3, <2>4, <2>5
<1>5. /\ g \in Seq(E) /\ Len(g) = n + 1 /\ DOMAIN g = 1 .. n + 1
      /\ \A i \in 1 .. c + 1 : g[i] = d[i]
      /\ \A i \in c + 2 .. n + 1 : g[i] = b[i - (c + 1)]
  <2>0. d \in Seq(E) /\ b \in Seq(E) /\ g = d \o b
    BY <1>2, <1>3, <1>4
  <2>1. g \in Seq(E) /\ Len(g) = Len(d) + Len(b)
        /\ \A i \in 1 .. Len(d) + Len(b) : g[i] = IF i <= Len(d) THEN d[i] ELSE b[i - Len(d)]
    BY <2>0, ConcatProperties
  <2>2. Len(g) = n + 1 /\ DOMAIN g = 1 .. n + 1
    BY <1>2, <1>4, <2>1
  <2>3. Len(d) = c + 1 /\ Len(d) + Len(b) = n + 1
    BY <1>2, <1>4
  <2>4. \A i \in 1 .. n + 1 : g[i] = IF i <= c + 1 THEN d[i] ELSE b[i - (c + 1)]
    BY <2>1, <2>3, Zenon
  <2>5. ASSUME NEW i \in 1 .. c + 1 PROVE g[i] = d[i]
    <3>1. i \in 1 .. n + 1 /\ i <= c + 1
      OBVIOUS
    <3> QED
      BY <3>1, <2>4
  <2>6. ASSUME NEW i \in c + 2 .. n + 1 PROVE g[i] = b[i - (c + 1)]
    <3>1. i \in 1 .. n + 1 /\ ~(i <= c + 1)
      OBVIOUS
    <3> QED
      BY <3>1, <2>4
  <2> QED
    BY <2>1, <2>2, <2>5, <2>6
<1>6. \A i \in c + 2 .. n + 1 : g[i] = h[i - 1]
  <2> SUFFICES ASSUME NEW i \in c + 2 .. n + 1 PROVE g[i] = h[i - 1]
    OBVIOUS
  <2>1. i - (c + 1) \in 1 .. n - c /\ c + (i - (c + 1)) = i - 1
    OBVIOUS
  <2>2. b[i - (c + 1)] = h[c + (i - (c + 1))]
    BY <2>1, <1>2
  <2> QED
    BY <2>1, <2>2, <1>5
<1>7. InsertAt(h, c + 1, e) = g
  <2>1. c + 1 - 1 = c
    OBVIOUS
  <2> QED
    BY <2>1, <1>1, <1>3 DEF InsertAt
<1>8. (\A i \in 1 .. c : g[i] = h[i]) /\ g[c + 1] = e
  BY <1>4, <1>5
<1> QED
  BY <1>5, <1>6, <1>7, <1>8 DEF InsertedAt

(* g is h with an entry e behind those that are not heavier.               *)
WeightsSorted(h, n) == \A i, j \in 1 .. n : i < j => h[i].weight <= h[j].weight

PushedAt(g, h, n, c, e) ==
    /\ InsertedAt(g, h, n, c, e)
    /\ \A i \in 1 .. c : h[i].weight <= e.weight
    /\ \A i \in c + 1 .. n : h[i].weight > e.weight

(* HeapPush keeps the entries in the order of their weights.               *)
LEMMA PushFacts ==
    ASSUME NEW E, NEW h \in Seq(E), NEW e \in E, NEW n \in Nat, Len(h) = n,
           \A x \in E : x.weight \in Nat, WeightsSorted(h, n)
    PROVE  \E c \in 0 .. n : HeapPush(h, e) \in Seq(E) /\ PushedAt(HeapPush(h, e), h, n, c, e)
<1> DEFINE heavy == {i \in 1 .. n + 1 : i = n + 1 \/ h[i].weight > e.weight}
<1>1. heavy \in SUBSET Nat /\ heavy /= {}
  OBVIOUS
<1>2. PICK f \in heavy : \A j \in heavy : f <= j
  BY <1>1, LeastNat
<1>3. f \in 1 .. n + 1 /\ (f = n + 1 \/ h[f].weight > e.weight)
  BY <1>2
<1>4. \A i \in 1 .. n : h[i] \in E /\ h[i].weight \in Nat
  OBVIOUS
<1>5. e.weight \in Nat
  OBVIOUS
<1>6. ASSUME NEW i \in 1 .. n, i < f PROVE h[i].weight <= e.weight
  <2>1. i \notin heavy
    BY <1>2, <1>3, <1>6
  <2>2. ~(h[i].weight > e.weight)
    BY <2>1
  <2> QED
    BY <2>2, <1>4, <1>5
<1>7. ASSUME NEW i \in 1 .. n, f <= i PROVE h[i].weight > e.weight
  <2>1. f \in 1 .. n /\ h[f].weight > e.weight
    BY <1>3, <1>7
  <2>2. h[f].weight <= h[i].weight
    <3>1. CASE f = i
      BY <3>1, <1>4
    <3>2. CASE f < i
      BY <3>2, <2>1 DEF WeightsSorted
    <3> QED
      BY <3>1, <3>2, <1>3, <1>7
  <2> QED
    BY <2>1, <2>2, <1>4, <1>5
<1> HIDE DEF heavy
<1>8. PICK c \in 0 .. n : c = f - 1
  BY <1>3
<1>9. {i \in DOMAIN h : h[i].weight <= e.weight} = 1 .. c
  <2>1. DOMAIN h = 1 .. n
    OBVIOUS
  <2>2. \A i \in 1 .. n : h[i].weight <= e.weight <=> i <= c
    BY <1>3, <1>4, <1>5, <1>6, <1>7, <1>8
  <2> QED
    BY <2>1, <2>2, <1>8
<1>10. Cardinality(1 .. c) = c
  <2>1. 1 \in Int /\ c \in Int
    BY <1>8
  <2>2. Cardinality(1 .. c) = IF 1 > c THEN 0 ELSE c - 1 + 1
    BY <2>1, FS_Interval
  <2> QED
    BY <2>2, <1>8
<1>11. HeapPush(h, e) = InsertAt(h, c + 1, e)
  BY <1>9, <1>10 DEF HeapPush
<1>12. HeapPush(h, e) \in Seq(E) /\ InsertedAt(HeapPush(h, e), h, n, c, e)
  BY <1>8, <1>11, InsertAtFacts
<1>13. /\ \A i \in 1 .. c : h[i].weight <= e.weight
       /\ \A i \in c + 1 .. n : h[i].weight > e.weight
  BY <1>3, <1>6, <1>7, <1>8
<1> QED
  BY <1>8, <1>12, <1>13 DEF PushedAt

(* Weights that count from the level start order messages as they were     *)
(* sent.                                                                   *)
LEMMA WeightsInOrder ==
    ASSUME LogInOrder, log \in Seq(Message), NEW start \in Int,
           NEW a \in DOMAIN log, NEW b \in DOMAIN log, a < b, start <= Level(a)
    PROVE  (Level(a) - start) * SeqWeight + Rank(a) < (Level(b) - start) * SeqWeight + Rank(b)
<1>1. Level(a) \in Nat /\ Level(b) \in Nat /\ SeqWeight \in Nat
  BY LevelFacts, OrderingAssumption
<1>2. Level(a) < Level(b) \/ (Level(a) = Level(b) /\ Rank(a) < Rank(b))
  BY DEF LogInOrder
<1>3. PICK x, y : x = Level(a) - start /\ y = Level(b) - start
  OBVIOUS
<1>4. x \in Nat /\ y \in Nat /\ (x < y \/ (x = y /\ Rank(a) < Rank(b)))
  BY <1>1, <1>2, <1>3
<1>5. Rank(a) \in 0 .. SeqWeight - 1 /\ Rank(b) \in 0 .. SeqWeight - 1
  BY DEF LogInOrder
<1>6. x * SeqWeight + Rank(a) < y * SeqWeight + Rank(b)
  BY <1>1, <1>4, <1>5, WeightOrder
<1> QED
  BY <1>3, <1>6

(* A message ahead of the channel joins the heap.                          *)
LEMMA BufferAheadKeeps ==
    ASSUME ChannelInv, NEW m \in DOMAIN log, BufferAhead(m)
    PROVE  ChannelInv'
<1>0. /\ Arrives(m) /\ TypeOK /\ CopiesAreRecent /\ OrderedInv /\ HeapInv /\ OutputInv /\ LogInOrder
      /\ orderedReadIndex' = orderedReadIndex
      /\ highestSequencedReadIndex' = highestSequencedReadIndex
      /\ outputQueue' = outputQueue /\ log \in Seq(Message)
  BY TypeFacts DEF BufferAhead, ChannelInv, readVars
<1>1. /\ copies[m] > 0 /\ copies[m] \in Nat
      /\ copies' \in [DOMAIN log -> 0 .. MaxCopies + 1]
      /\ copies'[m] = copies[m] - 1
      /\ \A n \in DOMAIN log : n /= m => copies'[n] = copies[n]
      /\ UNCHANGED senderVars
      /\ LogInOrder' /\ CopiesAreRecent'
  BY <1>0, ArrivesFacts
<1>2. /\ Done \in Nat /\ Sent \in Nat /\ Done <= Sent /\ Behind(orderedReadIndex) = Sent - Done
      /\ Level(m) \in Nat /\ IndexIsTrue(m)
  BY <1>0, <1>1, SpanBound, LevelFacts DEF CopiesAreRecent
<1>3. Level(m) > Done
  <2>1. /\ HasCurrentIndex(m) <=> Level(m) = Done
        /\ ~HasCurrentIndex(m) =>
              (IsOlderOrderedPacket(log[m].orderingIndex, orderedReadIndex) <=> Level(m) < Done)
    BY <1>0, <1>1, LiveFacts
  <2>2. ~HasCurrentIndex(m) /\ ~IsOlderOrderedPacket(log[m].orderingIndex, orderedReadIndex)
    BY DEF BufferAhead
  <2> QED
    BY <2>1, <2>2, <1>2
<1>4. Done' = Done
  BY <1>0, <1>1, SameLog DEF Done, Behind
<1>5. PICK start \in Int : /\ start = HeapStart' /\ start <= Done
                           /\ orderingHeap /= <<>> => start = HeapStart
  <2>1. orderedWriteIndex' = orderedWriteIndex /\ Sent' = Sent
    BY <1>1, SameLog
  <2>2. CASE orderingHeap = <<>>
    <3>1. heapIndexOffset' = orderedReadIndex
      BY <2>2 DEF BufferAhead
    <3>2. HeapStart' = Done
      BY <3>1, <2>1 DEF HeapStart, Done, Behind
    <3> QED
      BY <3>2, <2>2, <1>2
  <2>3. CASE orderingHeap /= <<>>
    <3>1. heapIndexOffset' = heapIndexOffset
      BY <2>3 DEF BufferAhead
    <3>2. HeapStart' = HeapStart /\ HeapStart <= Done
      BY <3>1, <2>1, <2>3, <1>0 DEF HeapStart, Behind, HeapInv
    <3>3. HeapStart \in Int
      <4>1. Minus(orderedWriteIndex, heapIndexOffset) \in Number
        BY <1>0, TypeFacts, MinusFacts
      <4>2. Minus(orderedWriteIndex, heapIndexOffset) \in Int
        BY <4>1, RangeFacts
      <4> QED
        BY <4>2, <1>2 DEF HeapStart, Behind
    <3> QED
      BY <3>2, <3>3
  <2> QED
    BY <2>2, <2>3
<1>6. PICK y \in Number : y = heapIndexOffset' /\ Minus(orderedWriteIndex, y) = Sent - start
  <2>1. heapIndexOffset' \in Number
    BY <1>0, TypeFacts DEF BufferAhead
  <2>2. PICK y \in Number : y = heapIndexOffset'
    BY <2>1
  <2>3. HeapStart' = Sent - Minus(orderedWriteIndex, y)
    BY <2>2, <1>1, SameLog DEF HeapStart, Behind
  <2>4. Minus(orderedWriteIndex, y) \in Int
    BY <1>0, TypeFacts, MinusFacts, RangeFacts
  <2> QED
    BY <2>2, <2>3, <2>4, <1>2, <1>5
<1>7. PICK e0 : e0 = [weight |-> HeapWeight(m, y), id |-> m]
  OBVIOUS
<1>8. e0.id = m /\ e0.weight = (Level(m) - start) * SeqWeight + Rank(m)
  <2>1. PICK x \in Number, w \in Number : x = log[m].orderingIndex /\ w = orderedWriteIndex
    BY <1>0, TypeFacts
  <2>2. Minus(w, x) = Sent - Level(m) /\ Minus(w, y) = Sent - start
    BY <2>1, <1>2, <1>6 DEF IndexIsTrue, Behind
  <2>3. Minus(w, x) <= Minus(w, y)
    BY <2>2, <1>2, <1>3, <1>5
  <2>4. Minus(x, y) = Minus(w, y) - Minus(w, x)
    BY <2>3, MinusFacts
  <2>5. Minus(x, y) = Level(m) - start
    BY <2>2, <2>4, <1>2, <1>5
  <2>6. HeapWeight(m, y) = Minus(x, y) * SeqWeight + Rank(m)
    BY <2>1 DEF HeapWeight, Rank
  <2> QED
    BY <2>5, <2>6, <1>7
<1>9. \A a \in DOMAIN log : Rank(a) \in 0 .. SeqWeight - 1 /\ a \in Nat /\ Level(a) \in Nat
  BY <1>0, LevelFacts DEF LogInOrder
<1>10. PICK E : E = [weight : Nat, id : DOMAIN log]
  OBVIOUS
<1>11. e0 \in E
  <2>1. PICK k \in Nat : k = Level(m) - start
    BY <1>2, <1>3, <1>5
  <2>2. PICK p \in Nat : p = Rank(m)
    BY <1>9, OrderingAssumption
  <2>3. k * SeqWeight + p \in Nat
    BY OrderingAssumption
  <2>4. e0.weight \in Nat
    BY <2>1, <2>2, <2>3, <1>8
  <2>5. HeapWeight(m, y) \in Nat
    BY <2>4, <1>7
  <2> QED
    BY <2>5, <1>7, <1>10
<1>12. PICK h, n : /\ h = orderingHeap /\ n = Len(h) /\ n \in Nat /\ DOMAIN h = 1 .. n
                   /\ h \in Seq(E)
                   /\ \A i \in 1 .. n : h[i].id \in DOMAIN log
  <2>1. orderingHeap \in Seq(E) /\ \A i \in DOMAIN orderingHeap : orderingHeap[i].id \in DOMAIN log
    BY <1>0, <1>10, TypeFacts
  <2> QED
    BY <2>1
<1>13. \A i \in 1 .. n : /\ h[i].weight = (Level(h[i].id) - start) * SeqWeight + Rank(h[i].id)
                         /\ Level(h[i].id) > Done /\ IndexIsTrue(h[i].id)
  <2> SUFFICES ASSUME NEW i \in 1 .. n
               PROVE  /\ h[i].weight = (Level(h[i].id) - start) * SeqWeight + Rank(h[i].id)
                      /\ Level(h[i].id) > Done /\ IndexIsTrue(h[i].id)
    OBVIOUS
  <2>1. orderingHeap /= <<>>
    BY <1>12
  <2>2. start = HeapStart
    BY <2>1, <1>5
  <2>3. EntryInv(h[i])
    BY <1>0, <1>12 DEF HeapInv
  <2> QED
    BY <2>2, <2>3 DEF EntryInv
<1>14. ASSUME NEW a \in DOMAIN log, NEW b \in DOMAIN log, a < b, Level(a) > Done
       PROVE  (Level(a) - start) * SeqWeight + Rank(a) < (Level(b) - start) * SeqWeight + Rank(b)
  <2>1. start <= Level(a)
    BY <1>2, <1>5, <1>9, <1>14
  <2> QED
    BY <2>1, <1>0, <1>14, WeightsInOrder
<1>15. \A x \in E : x.weight \in Nat /\ x.id \in DOMAIN log
  BY <1>10
<1>16. \A i \in 1 .. n : h[i] \in E /\ h[i].weight \in Nat
  <2>1. \A i \in 1 .. n : h[i] \in E
    BY <1>12
  <2> QED
    BY <2>1, <1>15
<1>17. WeightsSorted(h, n)
  <2> SUFFICES ASSUME NEW i \in 1 .. n, NEW j \in 1 .. n, i < j
               PROVE  h[i].weight <= h[j].weight
    BY DEF WeightsSorted
  <2>1. Precedes(h[i].id, h[j].id)
    BY <1>0, <1>12 DEF HeapInv
  <2>2. PICK a \in DOMAIN log, b \in DOMAIN log : a = h[i].id /\ b = h[j].id
    BY <1>12
  <2>3. a <= b
    BY <2>1, <2>2 DEF Precedes
  <2>4. CASE a = b
    <3>1. h[i].weight = (Level(a) - start) * SeqWeight + Rank(a)
      BY <2>2, <1>13
    <3>2. h[j].weight = (Level(a) - start) * SeqWeight + Rank(a)
      BY <2>2, <2>4, <1>13
    <3>3. h[i].weight = h[j].weight
      BY <3>1, <3>2, Zenon
    <3> QED
      BY <3>3, <1>16
  <2>5. CASE a < b
    BY <2>2, <2>5, <1>13, <1>14, <1>16
  <2> QED
    BY <2>3, <2>4, <2>5, <1>9
<1>18. PICK c, g : /\ c \in 0 .. n /\ g = orderingHeap' /\ g \in Seq(E)
                   /\ PushedAt(g, h, n, c, e0)
  <2>1. orderingHeap' = HeapPush(h, e0)
    BY <1>6, <1>7, <1>12 DEF BufferAhead
  <2>2. \E c \in 0 .. n : HeapPush(h, e0) \in Seq(E) /\ PushedAt(HeapPush(h, e0), h, n, c, e0)
    BY <1>11, <1>12, <1>15, <1>17, PushFacts
  <2> QED
    BY <2>1, <2>2
<1>19. /\ DOMAIN g = 1 .. n + 1
       /\ \A i \in 1 .. c : g[i] = h[i] /\ h[i].weight <= e0.weight
       /\ g[c + 1] = e0
       /\ \A i \in c + 2 .. n + 1 : g[i] = h[i - 1] /\ i - 1 \in c + 1 .. n
       /\ \A i \in c + 1 .. n : h[i].weight > e0.weight
  <2>1. /\ InsertedAt(g, h, n, c, e0)
        /\ \A i \in 1 .. c : h[i].weight <= e0.weight
        /\ \A i \in c + 1 .. n : h[i].weight > e0.weight
    BY <1>18 DEF PushedAt
  <2>2. /\ DOMAIN g = 1 .. n + 1
        /\ \A i \in 1 .. c : g[i] = h[i]
        /\ g[c + 1] = e0
        /\ \A i \in c + 2 .. n + 1 : g[i] = h[i - 1]
    BY <2>1 DEF InsertedAt
  <2>3. \A i \in c + 2 .. n + 1 : i - 1 \in c + 1 .. n
    <3>1. c \in Nat /\ n \in Nat
      BY <1>12, <1>18
    <3> QED
      BY <3>1
  <2> QED
    BY <2>1, <2>2, <2>3
<1>20. ASSUME NEW i \in 1 .. c PROVE Precedes(h[i].id, m)
  <2>0. i \in 1 .. n
    BY <1>12, <1>18
  <2>1. PICK a \in DOMAIN log : a = h[i].id
    BY <2>0, <1>12
  <2>2. h[i].weight = (Level(a) - start) * SeqWeight + Rank(a) /\ h[i].weight \in Nat
    BY <2>0, <2>1, <1>13, <1>16
  <2>3. ~(m < a)
    <3> SUFFICES ASSUME m < a PROVE FALSE
      OBVIOUS
    <3>1. e0.weight < h[i].weight
      BY <2>2, <1>3, <1>8, <1>14
    <3>2. h[i].weight <= e0.weight /\ e0.weight \in Nat
      BY <1>11, <1>15, <1>19
    <3> QED
      BY <3>1, <3>2, <2>2
  <2>4. IsOrdered(a) => a /= m
    <3>1. InHeap(a)
      BY <2>0, <2>1, <1>12 DEF InHeap
    <3>2. IsOrdered(m) => ~InHeap(m)
      BY <1>0, <1>1, LiveFacts
    <3> QED
      BY <3>1, <3>2
  <2> QED
    BY <2>1, <2>3, <2>4, <1>9 DEF Precedes
<1>21. ASSUME NEW i \in c + 1 .. n PROVE Precedes(m, h[i].id)
  <2>0. i \in 1 .. n
    BY <1>12, <1>18
  <2>1. PICK a \in DOMAIN log : a = h[i].id
    BY <2>0, <1>12
  <2>2. h[i].weight = (Level(a) - start) * SeqWeight + Rank(a) /\ h[i].weight \in Nat /\ Level(a) > Done
    BY <2>0, <2>1, <1>13, <1>16
  <2>3. h[i].weight > e0.weight /\ e0.weight \in Nat
    BY <1>11, <1>15, <1>19
  <2>4. a /= m
    <3> SUFFICES ASSUME a = m PROVE FALSE
      OBVIOUS
    <3>1. h[i].weight = e0.weight
      BY <2>2, <1>8, Zenon
    <3> QED
      BY <3>1, <2>3
  <2>5. ~(a < m)
    <3> SUFFICES ASSUME a < m PROVE FALSE
      OBVIOUS
    <3>1. h[i].weight < e0.weight
      BY <2>2, <1>8, <1>14
    <3> QED
      BY <3>1, <2>2, <2>3
  <2> QED
    BY <2>1, <2>4, <2>5, <1>9 DEF Precedes
<1>22. ASSUME NEW i \in 1 .. n + 1
       PROVE  \/ i \in 1 .. c /\ g[i] = h[i]
              \/ i = c + 1 /\ g[i] = e0
              \/ i \in c + 2 .. n + 1 /\ g[i] = h[i - 1] /\ i - 1 \in c + 1 .. n
  <2>1. i \in 1 .. c \/ i = c + 1 \/ i \in c + 2 .. n + 1
    BY <1>12, <1>18
  <2> QED
    BY <2>1, <1>19
<1>23. \A i \in 1 .. n + 1 : EntryInv(g[i])'
  <2>1. EntryInv(e0)'
    BY <1>1, <1>2, <1>3, <1>4, <1>5, <1>8, SameLog DEF EntryInv
  <2>2. \A i \in 1 .. n : EntryInv(h[i])'
    BY <1>1, <1>4, <1>5, <1>13, SameLog DEF EntryInv
  <2>3. \A i \in 1 .. n + 1 : g[i] = e0 \/ \E j \in 1 .. n : g[i] = h[j]
    <3> SUFFICES ASSUME NEW i \in 1 .. n + 1 PROVE g[i] = e0 \/ \E j \in 1 .. n : g[i] = h[j]
      OBVIOUS
    <3>1. CASE i \in 1 .. c /\ g[i] = h[i]
      BY <3>1, <1>12, <1>18
    <3>2. CASE i = c + 1 /\ g[i] = e0
      BY <3>2
    <3>3. CASE i \in c + 2 .. n + 1 /\ g[i] = h[i - 1] /\ i - 1 \in c + 1 .. n
      <4>1. i - 1 \in 1 .. n
        BY <3>3, <1>12, <1>18
      <4> QED
        BY <3>3, <4>1
    <3> QED
      BY <3>1, <3>2, <3>3, <1>22
  <2> QED
    BY <2>1, <2>2, <2>3
<1>24. ASSUME NEW i \in 1 .. n + 1, NEW j \in 1 .. n + 1, i < j
       PROVE  Precedes(g[i].id, g[j].id)
  <2>0. \A k, l \in 1 .. n : k < l => Precedes(h[k].id, h[l].id)
    BY <1>0, <1>12 DEF HeapInv
  <2>1. CASE i \in 1 .. c /\ g[i] = h[i]
    <3>1. CASE j \in 1 .. c /\ g[j] = h[j]
      <4>1. i \in 1 .. n /\ j \in 1 .. n
        BY <2>1, <3>1, <1>12, <1>18
      <4> QED
        BY <2>1, <3>1, <4>1, <1>24, <2>0
    <3>2. CASE j = c + 1 /\ g[j] = e0
      <4>1. g[j].id = m
        BY <3>2, <1>8
      <4> QED
        BY <2>1, <4>1, <1>20
    <3>3. CASE j \in c + 2 .. n + 1 /\ g[j] = h[j - 1] /\ j - 1 \in c + 1 .. n
      <4>1. i \in 1 .. n /\ j - 1 \in 1 .. n /\ i < j - 1
        BY <2>1, <3>3, <1>12, <1>18
      <4> QED
        BY <2>1, <3>3, <4>1, <2>0
    <3> QED
      BY <3>1, <3>2, <3>3, <1>22
  <2>2. CASE i = c + 1 /\ g[i] = e0
    <3>1. j \in c + 2 .. n + 1
      BY <2>2, <1>24, <1>12, <1>18
    <3>2. g[j] = h[j - 1] /\ j - 1 \in c + 1 .. n
      BY <3>1, <1>19
    <3>3. g[i].id = m
      BY <2>2, <1>8
    <3> QED
      BY <3>2, <3>3, <1>21
  <2>3. CASE i \in c + 2 .. n + 1 /\ g[i] = h[i - 1] /\ i - 1 \in c + 1 .. n
    <3>1. j \in c + 2 .. n + 1
      BY <2>3, <1>24, <1>12, <1>18
    <3>2. g[j] = h[j - 1]
      BY <3>1, <1>19
    <3>3. i - 1 \in 1 .. n /\ j - 1 \in 1 .. n /\ i - 1 < j - 1
      BY <2>3, <3>1, <1>24, <1>12, <1>18
    <3> QED
      BY <2>3, <3>2, <3>3, <2>0
  <2> QED
    BY <2>1, <2>2, <2>3, <1>22
<1>25. HeapInv'
  <2>1. HeapStart' <= Done'
    BY <1>4, <1>5
  <2>2. \A i, j \in DOMAIN g : i < j => Precedes(g[i].id, g[j].id)'
    BY <1>1, <1>19, <1>24, SameLog
  <2>3. \A i \in DOMAIN g : EntryInv(g[i])'
    BY <1>19, <1>23
  <2> QED
    BY <2>1, <2>2, <2>3, <1>18 DEF HeapInv
<1>26. \A k : InHeap(k)' <=> InHeap(k) \/ k = m
  <2> SUFFICES ASSUME NEW k PROVE InHeap(k)' <=> InHeap(k) \/ k = m
    OBVIOUS
  <2>1. InHeap(k)' <=> \E i \in 1 .. n + 1 : g[i].id = k
    BY <1>18, <1>19 DEF InHeap
  <2>2. InHeap(k) <=> \E i \in 1 .. n : h[i].id = k
    BY <1>12 DEF InHeap
  <2>3. ASSUME NEW i \in 1 .. n + 1, g[i].id = k PROVE InHeap(k) \/ k = m
    <3>1. CASE i \in 1 .. c /\ g[i] = h[i]
      <4>1. i \in 1 .. n
        BY <3>1, <1>12, <1>18
      <4> QED
        BY <4>1, <3>1, <2>2, <2>3
    <3>2. CASE i = c + 1 /\ g[i] = e0
      BY <3>2, <2>3, <1>8
    <3>3. CASE i \in c + 2 .. n + 1 /\ g[i] = h[i - 1] /\ i - 1 \in c + 1 .. n
      <4>1. i - 1 \in 1 .. n
        BY <3>3, <1>12, <1>18
      <4> QED
        BY <4>1, <3>3, <2>2, <2>3
    <3> QED
      BY <3>1, <3>2, <3>3, <1>22
  <2>4. ASSUME NEW i \in 1 .. n, h[i].id = k PROVE \E j \in 1 .. n + 1 : g[j].id = k
    <3>1. CASE i <= c
      <4>1. i \in 1 .. c /\ i \in 1 .. n + 1
        BY <3>1, <1>12, <1>18
      <4>2. g[i] = h[i]
        BY <4>1, <1>19
      <4> QED
        BY <4>1, <4>2, <2>4
    <3>2. CASE c < i
      <4>1. i + 1 \in c + 2 .. n + 1 /\ i + 1 \in 1 .. n + 1 /\ i + 1 - 1 = i
        BY <3>2, <1>12, <1>18
      <4>2. g[i + 1] = h[i + 1 - 1]
        BY <4>1, <1>19
      <4>3. g[i + 1].id = k
        BY <4>1, <4>2, <2>4
      <4> QED
        BY <4>1, <4>3
    <3> QED
      BY <3>1, <3>2, <1>12, <1>18
  <2>5. \E j \in 1 .. n + 1 : g[j].id = m
    <3>1. c + 1 \in 1 .. n + 1 /\ g[c + 1].id = m
      BY <1>8, <1>12, <1>18, <1>19
    <3> QED
      BY <3>1
  <2> QED
    BY <2>1, <2>2, <2>3, <2>4, <2>5
<1>27. OrderedInv'
  <2>1. ASSUME NEW k \in DOMAIN log, IsOrdered(k)
        PROVE  /\ copies'[k] \in {0, 1}
               /\ Level(k) < Done => copies'[k] = 0
               /\ Level(k) >= Done => (copies'[k] = 0 <=> InHeap(k)')
    <3>1. CASE k = m
      <4>1. copies[m] = 1
        BY <3>1, <2>1, <1>0, <1>1, LiveFacts
      <4>2. copies'[m] = 0
        BY <4>1, <1>1
      <4> QED
        BY <3>1, <4>2, <1>26
    <3>2. CASE k /= m
      BY <3>2, <2>1, <1>0, <1>1, <1>26 DEF OrderedInv
    <3> QED
      BY <3>1, <3>2
  <2> QED
    BY <2>1, <1>1, <1>2, <1>4, SameLog DEF OrderedInv
<1>28. OutputInv'
  <2>1. \A k : IsPast(k) => IsPast(k)'
    BY <1>0, <1>1, <1>4, SameLog DEF IsPast
  <2> QED
    BY <2>1, <1>0, <1>1, <1>4, SameLog DEF OutputInv
<1>29. TypeOK'
  <2>1. orderingHeap' \in Seq([weight : Nat, id : DOMAIN log])
    BY <1>10, <1>18
  <2>2. heapIndexOffset' \in Number
    BY <1>6
  <2> QED
    BY <2>1, <2>2, <1>0, <1>1, SameLog DEF TypeOK
<1> QED
  BY <1>1, <1>25, <1>27, <1>28, <1>29 DEF ChannelInv

-----------------------------------------------------------------------------
(* The heap is popped                                                      *)

(* Levels never go down, and go up behind an ordered message.              *)
LEMMA LevelsAscend ==
    ASSUME log \in Seq(Message), NEW a \in DOMAIN log, NEW b \in DOMAIN log, Precedes(a, b)
    PROVE  Level(a) + (IF IsOrdered(a) THEN 1 ELSE 0) <= Level(b)
<1>1. /\ a \in Nat /\ b \in Nat /\ Level(a) \in Nat /\ Level(b) \in Nat
      /\ OrderedUpTo(a) = Level(a) + (IF IsOrdered(a) THEN 1 ELSE 0)
      /\ a < b => OrderedUpTo(a) <= Level(b)
  BY LevelFacts
<1>2. CASE a < b
  BY <1>1, <1>2
<1>3. CASE a = b /\ ~IsOrdered(a)
  BY <1>1, <1>3
<1> QED
  BY <1>1, <1>2, <1>3 DEF Precedes

(* An ordered message is the only one of its level that is.                *)
LEMMA OneOrderedPerLevel ==
    ASSUME log \in Seq(Message), NEW a \in DOMAIN log, NEW b \in DOMAIN log,
           IsOrdered(a), IsOrdered(b), Level(a) = Level(b)
    PROVE  a = b
<1>1. a \in Nat /\ b \in Nat /\ Level(a) \in Nat /\ Level(b) \in Nat
  BY LevelFacts
<1>2. a < b => Level(a) + 1 <= Level(b)
  BY LevelsAscend DEF Precedes
<1>3. b < a => Level(b) + 1 <= Level(a)
  BY LevelsAscend DEF Precedes
<1> QED
  BY <1>1, <1>2, <1>3

OrderedEntries(heap) == {i \in Nat : IsOrdered(heap[i].id)}

(* OrderedAmong counts the ordered entries of the heap.                    *)
LEMMA AmongIsCount ==
    ASSUME NEW heap, NEW k \in Nat
    PROVE  OrderedAmong(heap, k) = Count(OrderedEntries(heap), k)
<1>1. {i \in 1 .. k : IsOrdered(heap[i].id)} = {i \in 1 .. k : i \in OrderedEntries(heap)}
  BY DEF OrderedEntries
<1> QED
  BY <1>1 DEF OrderedAmong, Count

(* The number of ordered entries goes up at the ordered ones.              *)
LEMMA AmongFacts ==
    ASSUME NEW heap
    PROVE  /\ OrderedAmong(heap, 0) = 0
           /\ \A k \in Nat : OrderedAmong(heap, k) \in Nat
           /\ \A k \in Nat \ {0} : OrderedAmong(heap, k) =
                 OrderedAmong(heap, k - 1) + (IF IsOrdered(heap[k].id) THEN 1 ELSE 0)
<1>1. OrderedAmong(heap, 0) = 0
  BY AmongIsCount, CountZero
<1>2. \A k \in Nat : OrderedAmong(heap, k) \in Nat
  BY AmongIsCount, CountNat
<1>3. ASSUME NEW k \in Nat \ {0}
      PROVE  OrderedAmong(heap, k) =
                 OrderedAmong(heap, k - 1) + (IF IsOrdered(heap[k].id) THEN 1 ELSE 0)
  <2>1. k - 1 \in Nat
    OBVIOUS
  <2>2. k \in OrderedEntries(heap) <=> IsOrdered(heap[k].id)
    BY DEF OrderedEntries
  <2> QED
    BY <2>1, <2>2, AmongIsCount, CountStep
<1> QED
  BY <1>1, <1>2, <1>3

(* The loop stops at the first entry that is not next.                     *)
LEMMA PopCountFacts ==
    ASSUME NEW heap, NEW index, NEW n \in Nat, Len(heap) = n
    PROVE  /\ PopCount(heap, index) \in 0 .. n
           /\ \A i \in 1 .. PopCount(heap, index) : IsNextOut(heap, index, i)
           /\ PopCount(heap, index) < n => ~IsNextOut(heap, index, PopCount(heap, index) + 1)
<1> DEFINE stops == {k \in 0 .. n : k = n \/ ~IsNextOut(heap, index, k + 1)}
           good(k) == /\ \A i \in 1 .. k : IsNextOut(heap, index, i)
                      /\ k < n => ~IsNextOut(heap, index, k + 1)
<1>1. n \in stops /\ stops \in SUBSET Nat
  OBVIOUS
<1>2. PICK k \in stops : \A j \in stops : k <= j
  BY <1>1, LeastNat
<1>3. k \in 0 .. n /\ (k < n => ~IsNextOut(heap, index, k + 1))
  BY <1>2
<1>4. ASSUME NEW i \in 1 .. k PROVE IsNextOut(heap, index, i)
  <2>1. i - 1 \in 0 .. n /\ i - 1 < k /\ i - 1 /= n /\ i - 1 + 1 = i
    BY <1>3
  <2>2. i - 1 \notin stops
    BY <2>1, <1>2, <1>3
  <2>3. IsNextOut(heap, index, i - 1 + 1)
    BY <2>1, <2>2
  <2> QED
    BY <2>1, <2>3
<1>5. \E l \in 0 .. n : good(l)
  BY <1>3, <1>4
<1>6. PopCount(heap, index) = CHOOSE l \in 0 .. n : good(l)
  BY DEF PopCount
<1> HIDE DEF good
<1>7. PopCount(heap, index) \in 0 .. n /\ good(PopCount(heap, index))
  BY <1>5, <1>6
<1> QED
  BY <1>7 DEF good

(* The ordering index that the loop has come to stands for a level.        *)
LEMMA NextOutFacts ==
    ASSUME TypeOK, CopiesAreRecent, OrderedInv, HeapInv, Done < Sent,
           NEW d \in Nat, Done + 1 + d <= Sent
    PROVE  LET index == Plus(Plus(orderedReadIndex, 1), d) IN
           /\ index \in Number
           /\ Behind(index) = Sent - (Done + 1 + d)
           /\ \A a \in DOMAIN log : IndexIsTrue(a) =>
                 (log[a].orderingIndex = index <=> Level(a) = Done + 1 + d)
<1>0. PICK y \in Number, w \in Number, D \in Nat, S \in Nat :
         y = orderedReadIndex /\ w = orderedWriteIndex /\ D = Done /\ S = Sent
  BY TypeFacts, SpanBound
<1>1. Minus(w, y) = S - D /\ Minus(w, y) \in Number
  BY <1>0, SpanBound, MinusFacts DEF Behind
<1>2. 1 \in Number /\ d \in Number
  BY <1>0, <1>1, RangeFacts
<1>3. PICK z : z = Plus(y, 1)
  OBVIOUS
<1>4. z \in Number /\ Minus(w, z) = S - D - 1
  <2>1. 1 <= Minus(w, y)
    BY <1>0, <1>1
  <2>2. z \in Number /\ Minus(w, z) = Minus(w, y) - 1
    BY <1>2, <1>3, <2>1, PlusFacts
  <2> QED
    BY <2>2, <1>1
<1>5. PICK x : x = Plus(z, d)
  OBVIOUS
<1>6. x \in Number /\ Minus(w, x) = S - (D + 1 + d)
  <2>1. d <= Minus(w, z)
    BY <1>0, <1>4
  <2>2. x \in Number /\ Minus(w, x) = Minus(w, z) - d
    BY <1>2, <1>4, <1>5, <2>1, PlusFacts
  <2> QED
    BY <2>2, <1>4
<1>7. ASSUME NEW a \in DOMAIN log, IndexIsTrue(a)
      PROVE  log[a].orderingIndex = x <=> Level(a) = Done + 1 + d
  <2>1. PICK v \in Number, L \in Nat : v = log[a].orderingIndex /\ L = Level(a)
    BY TypeFacts, LevelFacts
  <2>2. Minus(w, v) = S - L
    BY <1>0, <1>7, <2>1 DEF IndexIsTrue, Behind
  <2>3. Minus(w, v) = Minus(w, x) => v = x
    BY <1>6, MinusFacts
  <2>4. v = x <=> L = D + 1 + d
    BY <2>2, <2>3, <1>6
  <2> QED
    BY <2>1, <2>4, <1>0
<1> QED
  BY <1>0, <1>3, <1>5, <1>6, <1>7 DEF Behind

(* The first k entries of the heap are those that follow the levels up to  *)
(* the present one without a gap.                                          *)
PopsInOrder(h, n, k) ==
    /\ k \in 0 .. n
    /\ Done + 1 + OrderedAmong(h, k) <= Sent
    /\ \A i \in 1 .. k : /\ Level(h[i].id) = Done + 1 + OrderedAmong(h, i - 1)
                         /\ OrderedAmong(h, i - 1) \in Nat
    /\ \A i \in k + 1 .. n : Level(h[i].id) > Done + 1 + OrderedAmong(h, k)

(* PopCount pops just these.                                               *)
LEMMA PopsTheNext ==
    ASSUME ChannelInv, Done < Sent,
           NEW n \in Nat, Len(orderingHeap) = n, NEW k,
           k = PopCount(orderingHeap, Plus(orderedReadIndex, 1))
    PROVE  PopsInOrder(orderingHeap, n, k)
<1>0. /\ TypeOK /\ CopiesAreRecent /\ OrderedInv /\ HeapInv /\ log \in Seq(Message)
      /\ Done \in Nat /\ Sent \in Nat
  BY TypeFacts, SpanBound DEF ChannelInv
<1>1. PICK h, index : h = orderingHeap /\ index = Plus(orderedReadIndex, 1)
  OBVIOUS
<1>2. /\ DOMAIN h = 1 .. n
      /\ \A i \in 1 .. n : /\ h[i].id \in DOMAIN log /\ IndexIsTrue(h[i].id)
                           /\ Level(h[i].id) \in Nat /\ Level(h[i].id) > Done
      /\ \A i, j \in 1 .. n : i < j => Precedes(h[i].id, h[j].id)
  <2>1. DOMAIN h = 1 .. n
    BY <1>0, <1>1, TypeFacts
  <2>2. \A i \in 1 .. n : h[i].id \in DOMAIN log
    BY <1>0, <1>1, <2>1, TypeFacts
  <2>3. \A i \in 1 .. n : EntryInv(h[i])
    BY <1>0, <1>1, <2>1 DEF HeapInv
  <2>4. \A i, j \in 1 .. n : i < j => Precedes(h[i].id, h[j].id)
    BY <1>0, <1>1, <2>1 DEF HeapInv
  <2> QED
    BY <2>1, <2>2, <2>3, <2>4, <1>0, LevelFacts DEF EntryInv
<1>3. /\ k \in 0 .. n
      /\ \A i \in 1 .. k : IsNextOut(h, index, i)
      /\ k < n => ~IsNextOut(h, index, k + 1)
  BY <1>1, PopCountFacts
<1> DEFINE A(i) == OrderedAmong(h, i)
<1>4. /\ A(0) = 0
      /\ \A i \in Nat : A(i) \in Nat
      /\ \A i \in Nat \ {0} : A(i) = A(i - 1) + (IF IsOrdered(h[i].id) THEN 1 ELSE 0)
  BY AmongFacts
<1>5. ASSUME NEW i \in 1 .. n, Done + 1 + A(i - 1) <= Sent
      PROVE  IsNextOut(h, index, i) <=> Level(h[i].id) = Done + 1 + A(i - 1)
  <2>1. PICK d \in Nat, a \in DOMAIN log : d = A(i - 1) /\ a = h[i].id /\ IndexIsTrue(a)
    <3>1. i - 1 \in Nat
      OBVIOUS
    <3> QED
      BY <3>1, <1>2, <1>4
  <2>2. log[a].orderingIndex = Plus(index, d) <=> Level(a) = Done + 1 + d
    BY <2>1, <1>0, <1>1, <1>5, NextOutFacts
  <2> QED
    BY <2>1, <2>2 DEF IsNextOut
<1> HIDE DEF A
<1>6. ASSUME NEW i \in 0 .. k PROVE Done + 1 + A(i) <= Sent
  <2> DEFINE bad == {j \in 0 .. k : ~(Done + 1 + A(j) <= Sent)}
  <2>1. SUFFICES ASSUME bad /= {} PROVE FALSE
    OBVIOUS
  <2>2. bad \in SUBSET Nat
    BY <1>3
  <2>3. PICK j \in bad : \A l \in bad : j <= l
    BY <2>1, <2>2, LeastNat
  <2>4. j \in 0 .. k /\ ~(Done + 1 + A(j) <= Sent)
    BY <2>3
  <2>5. j /= 0
    BY <2>4, <1>0, <1>4
  <2>6. j \in Nat \ {0} /\ j - 1 \in 0 .. k /\ j \in 1 .. n /\ j \in 1 .. k
    BY <2>4, <2>5, <1>3
  <2>7. j - 1 \notin bad
    BY <2>3, <2>4
  <2>8. Done + 1 + A(j - 1) <= Sent
    BY <2>6, <2>7
  <2>9. Level(h[j].id) = Done + 1 + A(j - 1)
    BY <2>6, <2>8, <1>3, <1>5
  <2>10. OrderedUpTo(h[j].id) = Level(h[j].id) + (IF IsOrdered(h[j].id) THEN 1 ELSE 0)
         /\ OrderedUpTo(h[j].id) <= Sent
    BY <2>6, <1>0, <1>2, LevelFacts
  <2>11. A(j) = A(j - 1) + (IF IsOrdered(h[j].id) THEN 1 ELSE 0)
    BY <2>6, <1>4
  <2>12. A(j - 1) \in Nat
    <3>1. j - 1 \in Nat
      BY <2>6
    <3> QED
      BY <3>1, <1>4
  <2> QED
    BY <2>4, <2>9, <2>10, <2>11, <2>12, <1>0
<1>7. ASSUME NEW i \in 1 .. k
      PROVE  Level(h[i].id) = Done + 1 + A(i - 1) /\ A(i - 1) \in Nat
  <2>1. i - 1 \in 0 .. k /\ i \in 1 .. n /\ i - 1 \in Nat
    BY <1>3
  <2>2. Done + 1 + A(i - 1) <= Sent
    BY <2>1, <1>6
  <2> QED
    BY <2>1, <2>2, <1>3, <1>4, <1>5
<1>8. ASSUME k < n PROVE Level(h[k + 1].id) > Done + 1 + A(k)
  <2>1. k + 1 \in 1 .. n /\ k + 1 - 1 = k /\ k \in 0 .. k /\ k \in Nat
    BY <1>3, <1>8
  <2>2. Level(h[k + 1].id) /= Done + 1 + A(k)
    <3>1. Done + 1 + A(k) <= Sent
      BY <2>1, <1>6
    <3>2. Done + 1 + A(k + 1 - 1) <= Sent
      BY <3>1, <2>1
    <3>3. ~IsNextOut(h, index, k + 1)
      BY <1>3, <1>8
    <3>4. Level(h[k + 1].id) /= Done + 1 + A(k + 1 - 1)
      BY <2>1, <3>2, <3>3, <1>5
    <3> QED
      BY <3>4, <2>1
  <2>3. Level(h[k + 1].id) >= Done + 1 + A(k)
    <3>1. CASE k = 0
      <4>1. A(k) = 0
        BY <3>1, <1>4
      <4>2. Level(h[k + 1].id) > Done /\ Level(h[k + 1].id) \in Nat
        BY <2>1, <1>2
      <4> QED
        BY <4>1, <4>2, <1>0
    <3>2. CASE k /= 0
      <4>1. k \in 1 .. k /\ k \in 1 .. n /\ k \in Nat \ {0}
        BY <3>2, <2>1, <1>3
      <4>2. Precedes(h[k].id, h[k + 1].id)
        BY <4>1, <2>1, <1>2
      <4>3. Level(h[k].id) + (IF IsOrdered(h[k].id) THEN 1 ELSE 0) <= Level(h[k + 1].id)
        BY <4>1, <4>2, <2>1, <1>0, <1>2, LevelsAscend
      <4>4. Level(h[k].id) = Done + 1 + A(k - 1) /\ A(k - 1) \in Nat
        BY <4>1, <1>7
      <4>5. A(k) = A(k - 1) + (IF IsOrdered(h[k].id) THEN 1 ELSE 0)
        BY <4>1, <1>4
      <4> QED
        BY <4>3, <4>4, <4>5, <1>0
    <3> QED
      BY <3>1, <3>2
  <2>4. Level(h[k + 1].id) \in Nat /\ A(k) \in Nat
    BY <2>1, <1>2, <1>4
  <2> QED
    BY <2>2, <2>3, <2>4, <1>0
<1>9. ASSUME NEW i \in k + 1 .. n PROVE Level(h[i].id) > Done + 1 + A(k)
  <2>1. k < n /\ i \in 1 .. n /\ k + 1 \in 1 .. n /\ k \in Nat /\ (i = k + 1 \/ k + 1 < i)
    BY <1>3
  <2>2. CASE i = k + 1
    BY <2>1, <2>2, <1>8
  <2>3. CASE k + 1 < i
    <3>1. Precedes(h[k + 1].id, h[i].id)
      BY <2>1, <2>3, <1>2
    <3>2. Level(h[k + 1].id) + (IF IsOrdered(h[k + 1].id) THEN 1 ELSE 0) <= Level(h[i].id)
      BY <2>1, <3>1, <1>0, <1>2, LevelsAscend
    <3>3. Level(h[k + 1].id) > Done + 1 + A(k)
      BY <2>1, <1>8
    <3>4. Level(h[k + 1].id) \in Nat /\ Level(h[i].id) \in Nat /\ A(k) \in Nat
      BY <2>1, <1>2, <1>4
    <3> QED
      BY <3>2, <3>3, <3>4, <1>0
  <2> QED
    BY <2>1, <2>2, <2>3
<1>10. Done + 1 + A(k) <= Sent
  <2>1. k \in 0 .. k
    BY <1>3
  <2> QED
    BY <2>1, <1>6
<1> QED
  BY <1>1, <1>3, <1>7, <1>9, <1>10 DEF PopsInOrder, A

(* The entries that follow each other below the new level: all ordered     *)
(* messages between the two levels, and no other.                          *)
LEMMA PoppedOrdered ==
    ASSUME ChannelInv, NEW h, h = orderingHeap, NEW n \in Nat, Len(h) = n,
           NEW k, PopsInOrder(h, n, k),
           NEW a \in DOMAIN log, IsOrdered(a), Done < Level(a)
    PROVE  Level(a) < Done + 1 + OrderedAmong(h, k) <=> \E i \in 1 .. k : h[i].id = a
<1>0. /\ log \in Seq(Message) /\ Done \in Nat /\ Level(a) \in Nat
      /\ k \in 0 .. n /\ k \in Nat
      /\ \A i \in 1 .. k : h[i].id \in DOMAIN log
  <2>1. k \in 0 .. n
    BY DEF PopsInOrder
  <2>2. TypeOK /\ log \in Seq(Message) /\ Done \in Nat
    BY TypeFacts, SpanBound DEF ChannelInv
  <2>3. \A i \in DOMAIN h : h[i].id \in DOMAIN log
    BY <2>2, TypeFacts
  <2>4. DOMAIN h = 1 .. n
    BY <2>2, TypeFacts
  <2> QED
    BY <2>1, <2>2, <2>3, <2>4, LevelFacts
<1>1. OrderedAmong(h, k) \in Nat /\ OrderedAmong(h, k) = Count(OrderedEntries(h), k)
  BY <1>0, AmongFacts, AmongIsCount
<1>2. ASSUME Level(a) < Done + 1 + OrderedAmong(h, k)
      PROVE  \E i \in 1 .. k : h[i].id = a
  <2>1. PICK d \in Nat : d = Level(a) - Done - 1
    BY <1>0
  <2>2. d < Count(OrderedEntries(h), k)
    BY <2>1, <1>0, <1>1, <1>2
  <2>3. PICK i \in 1 .. k : i \in OrderedEntries(h) /\ Count(OrderedEntries(h), i - 1) = d
    BY <2>2, <1>0, CountHits
  <2>4. i - 1 \in Nat
    BY <2>3, <1>0
  <2>5. OrderedAmong(h, i - 1) = d
    BY <2>3, <2>4, AmongIsCount
  <2>6. Level(h[i].id) = Done + 1 + OrderedAmong(h, i - 1)
    BY <2>3 DEF PopsInOrder
  <2>7. Level(h[i].id) = Level(a)
    <3>1. Done \in Nat /\ Level(a) \in Nat
      BY <1>0
    <3>2. Done + 1 + d = Level(a)
      BY <3>1, <2>1
    <3> QED
      BY <3>2, <2>5, <2>6, Zenon
  <2>8. h[i].id = a
    BY <2>3, <2>7, <1>0, OneOrderedPerLevel DEF OrderedEntries
  <2> QED
    BY <2>3, <2>8
<1>3. ASSUME NEW i \in 1 .. k, h[i].id = a
      PROVE  Level(a) < Done + 1 + OrderedAmong(h, k)
  <2>1. i \in Nat \ {0} /\ i <= k
    BY <1>0
  <2>2. Level(a) = Done + 1 + OrderedAmong(h, i - 1) /\ OrderedAmong(h, i - 1) \in Nat
    BY <1>3 DEF PopsInOrder
  <2>3. OrderedAmong(h, i) = OrderedAmong(h, i - 1) + 1
    BY <1>3, <2>1, AmongFacts
  <2>4. OrderedAmong(h, i) <= OrderedAmong(h, k)
    BY <2>1, <1>0, AmongIsCount, CountGrows
  <2> QED
    BY <2>2, <2>3, <2>4, <1>0, <1>1
<1> QED
  BY <1>2, <1>3

(* A message of a lower level comes before.                                *)
LEMMA LowerPrecedes ==
    ASSUME log \in Seq(Message), NEW a \in DOMAIN log, NEW b \in DOMAIN log,
           Level(a) < Level(b)
    PROVE  Precedes(a, b)
<1>1. a \in Nat /\ b \in Nat /\ Level(a) \in Nat /\ Level(b) \in Nat
  BY LevelFacts
<1>2. ~(b < a)
  <2> SUFFICES ASSUME b < a PROVE FALSE
    OBVIOUS
  <2>1. Level(b) + (IF IsOrdered(b) THEN 1 ELSE 0) <= Level(a)
    BY <1>1, LevelsAscend DEF Precedes
  <2> QED
    BY <2>1, <1>1
<1>3. a /= b
  BY <1>1
<1> QED
  BY <1>1, <1>2, <1>3 DEF Precedes

(* The greatest element of a non-empty set of numbers up to k.             *)
LEMMA GreatestUpTo ==
    ASSUME NEW k \in Nat, NEW S \in SUBSET (1 .. k), S /= {}
    PROVE  Max(S) \in S /\ \A i \in S : i <= Max(S)
<1> DEFINE below == {d \in 0 .. k : k - d \in S}
<1>1. below \in SUBSET Nat /\ below /= {}
  <2>1. PICK i \in S : TRUE
    OBVIOUS
  <2>2. k - i \in 0 .. k /\ k - (k - i) \in S
    <3>1. i \in 1 .. k
      BY <2>1
    <3>2. k - (k - i) = i
      BY <3>1
    <3> QED
      BY <3>1, <3>2, <2>1
  <2>3. k - i \in below
    BY <2>2
  <2>4. \A d \in below : d \in Nat
    OBVIOUS
  <2> HIDE DEF below
  <2> QED
    BY <2>3, <2>4
<1>2. PICK d \in below : \A e \in below : d <= e
  BY <1>1, LeastNat
<1>3. d \in 0 .. k /\ k - d \in S
  BY <1>2
<1>4. ASSUME NEW i \in S PROVE k - d >= i
  <2>1. i \in 1 .. k
    OBVIOUS
  <2>2. k - i \in 0 .. k /\ k - (k - i) = i
    BY <2>1
  <2>3. k - i \in below
    BY <2>2
  <2> QED
    BY <2>1, <2>3, <1>2, <1>3
<1> DEFINE top(x) == \A y \in S : x >= y
<1>5. \E x \in S : top(x)
  BY <1>3, <1>4
<1>6. Max(S) = CHOOSE x \in S : top(x)
  BY DEF Max
<1> HIDE DEF top
<1>7. Max(S) \in S /\ top(Max(S))
  BY <1>5, <1>6
<1> QED
  BY <1>7 DEF top

(* What the loop leaves in highestSequencedReadIndex is not below the rank *)
(* of any sequenced message of the new level that it popped.               *)
LEMMA HighestFacts ==
    ASSUME ChannelInv, NEW h, h = orderingHeap, NEW n \in Nat, Len(h) = n,
           NEW k, PopsInOrder(h, n, k)
    PROVE  /\ HighestAfterPop(h, k, 0) \in 0 .. SeqWeight - 1
           /\ HighestAfterPop(h, k, 0) \in Number
           /\ \A i \in 1 .. k :
                 ~IsOrdered(h[i].id) /\ Level(h[i].id) = Done + 1 + OrderedAmong(h, k)
                    => Rank(h[i].id) <= HighestAfterPop(h, k, 0)
<1>0. /\ log \in Seq(Message) /\ LogInOrder
      /\ k \in 0 .. n /\ k \in Nat /\ Done \in Nat
      /\ \A i \in 1 .. k : i \in 1 .. n
      /\ \A i \in 1 .. n : h[i].id \in DOMAIN log
      /\ \A i, j \in 1 .. n : i < j => Precedes(h[i].id, h[j].id)
      /\ SeqWeight \in Nat /\ SeqWeight > 1
  <2>1. TypeOK /\ log \in Seq(Message) /\ HeapInv /\ LogInOrder /\ Done \in Nat
    BY TypeFacts, SpanBound DEF ChannelInv
  <2>2. DOMAIN h = 1 .. n
    BY <2>1, TypeFacts
  <2>3. \A i \in 1 .. n : h[i].id \in DOMAIN log
    BY <2>1, <2>2, TypeFacts
  <2>4. \A i, j \in 1 .. n : i < j => Precedes(h[i].id, h[j].id)
    BY <2>1, <2>2 DEF HeapInv
  <2>5. k \in 0 .. n
    BY DEF PopsInOrder
  <2> QED
    BY <2>1, <2>3, <2>4, <2>5, OrderingAssumption
<1>1. PICK S : S = {i \in 1 .. k : ~IsOrdered(h[i].id)}
  OBVIOUS
<1>2. CASE S = {}
  <2>1. HighestAfterPop(h, k, 0) = 0
    BY <1>1, <1>2 DEF HighestAfterPop
  <2>2. 0 \in 0 .. SeqWeight - 1 /\ 0 \in Number
    BY <1>0, RangeFacts
  <2> QED
    BY <1>1, <1>2, <2>1, <2>2
<1>3. CASE S /= {}
  <2>1. S \in SUBSET (1 .. k)
    BY <1>1
  <2>2. PICK j : j = Max(S) /\ j \in S /\ \A i \in S : i <= j
    BY <1>0, <1>3, <2>1, GreatestUpTo
  <2>3. j \in 1 .. k /\ ~IsOrdered(h[j].id) /\ j \in 1 .. n
    BY <1>0, <1>1, <2>2
  <2>4. PICK b \in DOMAIN log : b = h[j].id /\ ~IsOrdered(b)
    BY <1>0, <2>3
  <2>5. HighestAfterPop(h, k, 0) = Rank(b)
    BY <1>1, <1>3, <2>2, <2>4 DEF HighestAfterPop, Rank
  <2>6. Rank(b) \in 0 .. SeqWeight - 1 /\ Rank(b) \in Number
    BY <1>0, <2>4, OrderingAssumption, RangeFacts DEF LogInOrder
  <2>7. ASSUME NEW i \in 1 .. k, ~IsOrdered(h[i].id),
               Level(h[i].id) = Done + 1 + OrderedAmong(h, k)
        PROVE  Rank(h[i].id) <= Rank(b)
    <3>1. i \in S /\ i <= j /\ i \in 1 .. n
      BY <2>7, <1>0, <1>1, <2>2
    <3>2. PICK a \in DOMAIN log : a = h[i].id
      BY <1>0, <3>1
    <3>3. Rank(a) \in 0 .. SeqWeight - 1
      BY <1>0 DEF LogInOrder
    <3>4. CASE i = j
      BY <3>2, <3>3, <3>4, <2>4, <2>6
    <3>5. CASE i < j
      <4>1. /\ Level(a) = Done + 1 + OrderedAmong(h, i - 1)
            /\ Level(b) = Done + 1 + OrderedAmong(h, j - 1)
        BY <3>2, <2>3, <2>4 DEF PopsInOrder
      <4>2. i - 1 \in Nat /\ j - 1 \in Nat /\ i - 1 <= j - 1 /\ j - 1 <= k
        BY <3>5, <2>3, <1>0
      <4>3. OrderedAmong(h, i - 1) \in Nat /\ OrderedAmong(h, j - 1) \in Nat /\ OrderedAmong(h, k) \in Nat
        BY <4>2, <1>0, AmongFacts
      <4>4. OrderedAmong(h, j - 1) <= OrderedAmong(h, k) /\ OrderedAmong(h, i - 1) <= OrderedAmong(h, j - 1)
        BY <4>2, <1>0, AmongIsCount, CountGrows
      <4>5. Level(a) = Level(b) /\ Level(a) \in Nat
        BY <4>1, <4>3, <4>4, <3>2, <2>7, <1>0
      <4>6. Precedes(a, b)
        BY <3>1, <3>2, <3>5, <2>3, <2>4, <1>0
      <4>7. a < b => Rank(a) < Rank(b)
        BY <4>5, <1>0 DEF LogInOrder
      <4>8. a \in Nat /\ b \in Nat
        BY <1>0, LevelFacts
      <4>9. a < b \/ a = b
        BY <4>6, <4>8 DEF Precedes
      <4>10. Rank(a) <= Rank(b)
        BY <4>7, <4>9, <3>3, <2>6, <1>0
      <4> QED
        BY <4>10, <3>2
    <3> QED
      BY <3>1, <3>4, <3>5, <2>3, <1>0
  <2> QED
    BY <2>5, <2>6, <2>7
<1> QED
  BY <1>2, <1>3

(* What is handed over: the message, and the entries popped behind it.     *)
Handed(q, m, h, k) == Append(q, m) \o [i \in 1 .. k |-> h[i].id]

HandsOver(q2, q, N, m, h, k) ==
    /\ DOMAIN q2 = 1 .. N + 1 + k
    /\ \A i \in 1 .. N : q2[i] = q[i]
    /\ q2[N + 1] = m
    /\ \A i \in 1 .. k : q2[N + 1 + i] = h[i].id

(* The output queue afterwards, entry by entry.                            *)
LEMMA HandsOverFacts ==
    ASSUME NEW S, NEW q \in Seq(S), NEW N \in Nat, Len(q) = N, NEW m \in S,
           NEW h, NEW k \in Nat, \A i \in 1 .. k : h[i].id \in S
    PROVE  /\ Handed(q, m, h, k) \in Seq(S)
           /\ HandsOver(Handed(q, m, h, k), q, N, m, h, k)
<1>1. PICK a, b : a = Append(q, m) /\ b = [i \in 1 .. k |-> h[i].id]
  OBVIOUS
<1>2. a \in Seq(S) /\ Len(a) = N + 1 /\ a[N + 1] = m /\ \A i \in 1 .. N : a[i] = q[i]
  BY <1>1
<1>3. b \in Seq(S) /\ Len(b) = k /\ \A i \in 1 .. k : b[i] = h[i].id
  BY <1>1
<1>4. PICK q2 : q2 = a \o b
  OBVIOUS
<1>5. q2 \in Seq(S) /\ Len(q2) = Len(a) + Len(b)
      /\ \A i \in 1 .. Len(a) + Len(b) : q2[i] = IF i <= Len(a) THEN a[i] ELSE b[i - Len(a)]
  <2>1. a \in Seq(S) /\ b \in Seq(S) /\ q2 = a \o b
    BY <1>2, <1>3, <1>4
  <2> QED
    BY <2>1, ConcatProperties
<1>6. Len(a) + Len(b) = N + 1 + k
  BY <1>2, <1>3
<1>7. \A i \in 1 .. N + 1 + k : q2[i] = IF i <= N + 1 THEN a[i] ELSE b[i - (N + 1)]
  BY <1>2, <1>5, <1>6, Zenon
<1>8. DOMAIN q2 = 1 .. N + 1 + k
  BY <1>5, <1>6
<1>9. ASSUME NEW i \in 1 .. N PROVE q2[i] = q[i]
  <2>1. i \in 1 .. N + 1 + k /\ i <= N + 1
    OBVIOUS
  <2> QED
    BY <2>1, <1>2, <1>7
<1>10. q2[N + 1] = m
  <2>1. N + 1 \in 1 .. N + 1 + k /\ N + 1 <= N + 1
    OBVIOUS
  <2> QED
    BY <2>1, <1>2, <1>7
<1>11. ASSUME NEW i \in 1 .. k PROVE q2[N + 1 + i] = h[i].id
  <2>1. N + 1 + i \in 1 .. N + 1 + k /\ ~(N + 1 + i <= N + 1) /\ N + 1 + i - (N + 1) = i
    OBVIOUS
  <2>2. PICK j : j = N + 1 + i
    OBVIOUS
  <2>3. j \in 1 .. N + 1 + k /\ ~(j <= N + 1) /\ j - (N + 1) = i
    BY <2>1, <2>2
  <2>4. q2[j] = b[i]
    BY <2>3, <1>7
  <2> QED
    BY <2>2, <2>4, <1>3
<1>12. HandsOver(q2, q, N, m, h, k)
  BY <1>8, <1>9, <1>10, <1>11 DEF HandsOver
<1> QED
  BY <1>1, <1>4, <1>5, <1>12, Zenon DEF Handed

(* The ordered message the channel waits for, and what follows it.         *)
LEMMA DeliverOrderedKeeps ==
    ASSUME ChannelInv, NEW m \in DOMAIN log, DeliverOrdered(m)
    PROVE  ChannelInv'
<1>0. /\ Arrives(m) /\ HasCurrentIndex(m) /\ IsOrdered(m)
      /\ TypeOK /\ CopiesAreRecent /\ OrderedInv /\ HeapInv /\ OutputInv /\ LogInOrder
      /\ heapIndexOffset' = heapIndexOffset /\ log \in Seq(Message)
  BY TypeFacts DEF DeliverOrdered, ChannelInv
<1>1. /\ copies[m] > 0 /\ copies[m] \in Nat
      /\ copies' \in [DOMAIN log -> 0 .. MaxCopies + 1]
      /\ copies'[m] = copies[m] - 1
      /\ \A n \in DOMAIN log : n /= m => copies'[n] = copies[n]
      /\ UNCHANGED senderVars
      /\ LogInOrder' /\ CopiesAreRecent'
  BY <1>0, ArrivesFacts
<1>2. Level(m) = Done /\ copies[m] = 1
  BY <1>0, <1>1, LiveFacts
<1>3. PICK D \in Nat, S \in Nat : D = Done /\ S = Sent /\ D < S
  <2>1. Done \in Nat /\ Sent \in Nat
    BY <1>0, SpanBound
  <2>2. OrderedUpTo(m) = Level(m) + 1 /\ OrderedUpTo(m) <= Sent
    BY <1>0, LevelFacts
  <2> QED
    BY <2>1, <2>2, <1>2
<1>4. PICK E, h : /\ E = [weight : Nat, id : DOMAIN log] /\ h = orderingHeap /\ h \in Seq(E)
  BY <1>0, TypeFacts
<1>5. PICK n \in Nat : n = Len(h) /\ DOMAIN h = 1 .. n
  <2>1. h \in Seq(E)
    BY <1>4
  <2> QED
    BY <2>1
<1>6. PICK k : k = PopCount(h, Plus(orderedReadIndex, 1))
  OBVIOUS
<1>7. PopsInOrder(h, n, k)
  BY <1>3, <1>4, <1>5, <1>6, PopsTheNext
<1>8. k \in 0 .. n /\ k \in Nat
  BY <1>7 DEF PopsInOrder
<1>9. PICK A \in Nat : A = OrderedAmong(h, k)
  BY <1>8, AmongFacts
<1>10. /\ D + 1 + A <= S
       /\ \A i \in k + 1 .. n : Level(h[i].id) > D + 1 + A
  BY <1>3, <1>7, <1>9 DEF PopsInOrder
<1>11. /\ orderedReadIndex' = Plus(Plus(orderedReadIndex, 1), A)
       /\ highestSequencedReadIndex' = HighestAfterPop(h, k, 0)
       /\ orderingHeap' = SubSeq(h, k + 1, n)
       /\ outputQueue' = Append(outputQueue, m) \o [i \in 1 .. k |-> h[i].id]
  BY <1>4, <1>5, <1>6, <1>9 DEF DeliverOrdered
<1>12. orderedReadIndex' \in Number /\ Done' = D + 1 + A
  <2>1. PICK x : x = Plus(Plus(orderedReadIndex, 1), A)
    OBVIOUS
  <2>2. x \in Number /\ Behind(x) = S - (D + 1 + A)
    BY <2>1, <1>0, <1>3, <1>10, NextOutFacts
  <2>3. orderedReadIndex' = x
    BY <2>1, <1>11
  <2>4. Done' = S - Behind(x)
    BY <2>3, <1>1, <1>3, SameLog DEF Done, Behind
  <2> QED
    BY <2>2, <2>3, <2>4
<1>13. PICK g : g = highestSequencedReadIndex' /\ g \in Number /\ g \in 0 .. SeqWeight - 1
                /\ \A i \in 1 .. k : ~IsOrdered(h[i].id) /\ Level(h[i].id) = D + 1 + A
                                        => Rank(h[i].id) <= g
  BY <1>3, <1>4, <1>5, <1>7, <1>9, <1>11, HighestFacts
<1>14. /\ \A i \in 1 .. n : h[i].id \in DOMAIN log /\ EntryInv(h[i]) /\ Level(h[i].id) > D
       /\ \A i, j \in 1 .. n : i < j => Precedes(h[i].id, h[j].id)
  <2>1. \A i \in 1 .. n : h[i].id \in DOMAIN log
    BY <1>0, <1>4, <1>5, TypeFacts
  <2>2. \A i \in 1 .. n : EntryInv(h[i])
    BY <1>0, <1>4, <1>5 DEF HeapInv
  <2>3. \A i, j \in 1 .. n : i < j => Precedes(h[i].id, h[j].id)
    BY <1>0, <1>4, <1>5 DEF HeapInv
  <2>4. \A i \in 1 .. n : Level(h[i].id) > D
    BY <2>2, <1>3 DEF EntryInv
  <2> QED
    BY <2>1, <2>2, <2>3, <2>4
<1>15. \A a \in DOMAIN log : Level(a) \in Nat
  BY <1>0, LevelFacts
<1>16. ASSUME NEW a \in DOMAIN log, IsOrdered(a), D < Level(a)
       PROVE  Level(a) < D + 1 + A <=> \E i \in 1 .. k : h[i].id = a
  BY <1>3, <1>4, <1>5, <1>7, <1>9, <1>16, PoppedOrdered
<1>17. ASSUME NEW a \in DOMAIN log, IsOrdered(a), Level(a) = D
       PROVE  a = m
  BY <1>0, <1>2, <1>3, <1>17, OneOrderedPerLevel
<1>18. PICK r : /\ r = orderingHeap' /\ r \in Seq(E) /\ DOMAIN r = 1 .. n - k
                /\ \A i \in 1 .. n - k : r[i] = h[k + i] /\ k + i \in k + 1 .. n /\ k + i \in 1 .. n
  <2>1. PICK r : r = SubSeq(h, k + 1, n)
    OBVIOUS
  <2>2. h \in Seq(E) /\ n = Len(h) /\ k + 1 \in 1 .. n + 1
    BY <1>4, <1>5, <1>8
  <2>3. r \in Seq(E) /\ Len(r) = n - k /\ \A i \in 1 .. n - k : r[i] = h[k + i]
    BY <2>1, <2>2, <1>5, <1>8
  <2>4. DOMAIN r = 1 .. n - k
    <3>1. r \in Seq(E)
      BY <2>3
    <3> QED
      BY <2>3, <3>1
  <2>5. \A i \in 1 .. n - k : k + i \in k + 1 .. n /\ k + i \in 1 .. n
    BY <1>5, <1>8
  <2> QED
    BY <2>1, <2>3, <2>4, <2>5, <1>11
<1>19. PICK q, N, q2 :
         /\ q = outputQueue /\ q2 = outputQueue' /\ N = Len(q)
         /\ N \in Nat /\ DOMAIN q = 1 .. N
         /\ \A i \in 1 .. N : q[i] \in DOMAIN log /\ IsPast(q[i])
         /\ q2 \in Seq(DOMAIN log)
         /\ HandsOver(q2, q, N, m, h, k)
  <2>1. PICK q, T : q = outputQueue /\ T = DOMAIN log /\ q \in Seq(T) /\ m \in T
    BY <1>0, TypeFacts
  <2>2. Len(q) \in Nat /\ DOMAIN q = 1 .. Len(q) /\ \A i \in 1 .. Len(q) : q[i] \in T
    BY <2>1
  <2>3. \A i \in 1 .. Len(q) : IsPast(q[i])
    BY <1>0, <2>1, <2>2 DEF OutputInv
  <2>4. PICK q2 : q2 = Handed(q, m, h, k)
    OBVIOUS
  <2>5. \A i \in 1 .. k : h[i].id \in T
    BY <2>1, <1>5, <1>8, <1>14
  <2>6. q2 \in Seq(T) /\ HandsOver(q2, q, Len(q), m, h, k)
    <3>1. q \in Seq(T) /\ m \in T /\ k \in Nat
      BY <2>1, <1>8
    <3>2. PICK M \in Nat : M = Len(q)
      BY <2>2
    <3>3. q2 \in Seq(T) /\ HandsOver(q2, q, M, m, h, k)
      BY <3>1, <3>2, <2>4, <2>5, HandsOverFacts
    <3> QED
      BY <3>2, <3>3
  <2>7. q2 = outputQueue'
    BY <2>1, <2>4, <1>11 DEF Handed
  <2> QED
    BY <2>1, <2>2, <2>3, <2>6, <2>7
<1>20. OrderedInv'
  <2>1. ASSUME NEW a \in DOMAIN log, IsOrdered(a)
        PROVE  /\ copies'[a] \in {0, 1}
               /\ Level(a) < D + 1 + A => copies'[a] = 0
               /\ Level(a) >= D + 1 + A => (copies'[a] = 0 <=> InHeap(a)')
    <3>0. Level(a) \in Nat
      BY <1>15
    <3>1. CASE a = m
      BY <3>1, <1>1, <1>2, <1>3
    <3>2. CASE a /= m
      <4>1. copies'[a] = copies[a] /\ copies[a] \in {0, 1}
        BY <3>2, <2>1, <1>0, <1>1 DEF OrderedInv
      <4>2. Level(a) /= D
        BY <3>2, <2>1, <1>17
      <4>3. ASSUME Level(a) < D + 1 + A PROVE copies[a] = 0
        <5>1. CASE Level(a) < D
          BY <5>1, <2>1, <1>0, <1>3 DEF OrderedInv
        <5>2. CASE D < Level(a)
          <6>1. PICK i \in 1 .. k : h[i].id = a
            BY <5>2, <4>3, <2>1, <1>16
          <6>2. i \in 1 .. n
            BY <6>1, <1>5, <1>8
          <6>3. InHeap(a)
            BY <6>1, <6>2, <1>4, <1>5 DEF InHeap
          <6>4. Level(a) >= Done
            BY <5>2, <3>0, <1>3
          <6> QED
            BY <6>3, <6>4, <2>1, <1>0 DEF OrderedInv
        <5> QED
          BY <5>1, <5>2, <4>2, <3>0
      <4>4. ASSUME Level(a) >= D + 1 + A PROVE copies[a] = 0 <=> InHeap(a)'
        <5>1. D < Level(a) /\ ~(Level(a) < D + 1 + A)
          BY <4>4, <3>0, <1>3, <1>9
        <5>2. ~ \E i \in 1 .. k : h[i].id = a
          BY <5>1, <2>1, <1>16
        <5>3. copies[a] = 0 <=> \E i \in 1 .. n : h[i].id = a
          <6>1. InHeap(a) <=> \E i \in 1 .. n : h[i].id = a
            BY <1>4, <1>5 DEF InHeap
          <6>2. Level(a) >= Done
            BY <5>1, <3>0, <1>3
          <6> QED
            BY <6>1, <6>2, <2>1, <1>0 DEF OrderedInv
        <5>4. InHeap(a)' <=> \E i \in 1 .. n - k : r[i].id = a
          BY <1>18 DEF InHeap
        <5>5. ASSUME NEW i \in 1 .. n, h[i].id = a PROVE \E j \in 1 .. n - k : r[j].id = a
          <6>1. ~(i <= k)
            BY <5>2, <5>5, <1>8
          <6>2. i - k \in 1 .. n - k /\ k + (i - k) = i
            BY <6>1, <1>5, <1>8
          <6>3. r[i - k] = h[k + (i - k)]
            BY <6>2, <1>18
          <6>4. r[i - k].id = a
            BY <6>2, <6>3, <5>5
          <6> QED
            BY <6>2, <6>4
        <5>6. ASSUME NEW j \in 1 .. n - k, r[j].id = a PROVE \E i \in 1 .. n : h[i].id = a
          <6>1. k + j \in 1 .. n /\ r[j] = h[k + j]
            BY <1>18
          <6>2. h[k + j].id = a
            BY <6>1, <5>6
          <6> QED
            BY <6>1, <6>2
        <5> QED
          BY <5>3, <5>4, <5>5, <5>6
      <4> QED
        BY <4>1, <4>3, <4>4
    <3> QED
      BY <3>1, <3>2
  <2>2. Done' >= 0
    BY <1>12
  <2> QED
    BY <2>1, <2>2, <1>1, <1>12, SameLog DEF OrderedInv
<1>21. HeapInv'
  <2>1. HeapStart' = HeapStart
    BY <1>0, <1>1, SameLog DEF HeapStart, Behind
  <2>2. \A i \in DOMAIN r : EntryInv(r[i])'
    <3> SUFFICES ASSUME NEW i \in DOMAIN r PROVE EntryInv(r[i])'
      OBVIOUS
    <3>1. PICK j : j = k + i /\ j \in 1 .. n /\ j \in k + 1 .. n /\ r[i] = h[j]
      BY <1>18
    <3>2. PICK e : e = h[j] /\ EntryInv(e) /\ Level(e.id) > D + 1 + A
      BY <3>1, <1>10, <1>14
    <3>3. EntryInv(e)'
      BY <3>2, <2>1, <1>1, <1>12, SameLog DEF EntryInv
    <3> QED
      BY <3>1, <3>2, <3>3
  <2>3. ASSUME NEW i \in DOMAIN r, NEW j \in DOMAIN r, i < j PROVE Precedes(r[i].id, r[j].id)
    <3>1. PICK c, d : /\ c = k + i /\ d = k + j /\ c \in 1 .. n /\ d \in 1 .. n
                      /\ r[i] = h[c] /\ r[j] = h[d]
      BY <1>18
    <3>2. c < d
      BY <3>1, <2>3, <1>8, <1>18
    <3>3. Precedes(h[c].id, h[d].id)
      BY <3>1, <3>2, <1>14
    <3> QED
      BY <3>1, <3>3
  <2>4. r /= <<>> => HeapStart <= D + 1 + A
    <3> SUFFICES ASSUME r /= <<>> PROVE HeapStart <= D + 1 + A
      OBVIOUS
    <3>1. h /= <<>>
      <4> SUFFICES ASSUME h = <<>> PROVE FALSE
        OBVIOUS
      <4>1. n = 0
        BY <1>5
      <4>2. DOMAIN r = {}
        BY <4>1, <1>8, <1>18
      <4>3. r \in Seq(E)
        BY <1>18
      <4> QED
        BY <4>2, <4>3
    <3>2. HeapStart <= D
      BY <3>1, <1>0, <1>3, <1>4 DEF HeapInv
    <3>3. HeapStart \in Int
      <4>1. Minus(orderedWriteIndex, heapIndexOffset) \in Number
        BY <1>0, TypeFacts, MinusFacts
      <4>2. Minus(orderedWriteIndex, heapIndexOffset) \in Int
        BY <4>1, RangeFacts
      <4> QED
        BY <4>2, <1>3 DEF HeapStart, Behind
    <3> QED
      BY <3>2, <3>3, <1>3, <1>9
  <2>5. \A i, j \in DOMAIN r : i < j => Precedes(r[i].id, r[j].id)'
    BY <2>3, <1>1, SameLog
  <2> QED
    BY <2>1, <2>2, <2>4, <2>5, <1>12, <1>18 DEF HeapInv
<1>22. /\ DOMAIN q2 = 1 .. N + 1 + k
       /\ \A i \in 1 .. N : q2[i] = q[i]
       /\ q2[N + 1] = m
       /\ \A i \in 1 .. k : q2[N + 1 + i] = h[i].id
  BY <1>19 DEF HandsOver
<1>23. ASSUME NEW i \in 1 .. N + 1 + k
       PROVE  \/ i \in 1 .. N /\ q2[i] = q[i]
              \/ i = N + 1 /\ q2[i] = m
              \/ \E j \in 1 .. k : i = N + 1 + j /\ q2[i] = h[j].id /\ j \in 1 .. n
  <2>1. CASE i \in 1 .. N
    BY <2>1, <1>22
  <2>2. CASE i = N + 1
    BY <2>2, <1>22
  <2>3. CASE i > N + 1
    <3>1. PICK j \in 1 .. k : i = N + 1 + j
      <4>1. i - (N + 1) \in 1 .. k /\ i = N + 1 + (i - (N + 1))
        BY <2>3, <1>8, <1>19
      <4> QED
        BY <4>1
    <3>2. j \in 1 .. n /\ q2[N + 1 + j] = h[j].id
      BY <3>1, <1>5, <1>8, <1>22
    <3> QED
      BY <3>1, <3>2
  <2> QED
    BY <2>1, <2>2, <2>3, <1>8, <1>19
<1>24. ASSUME NEW j \in 1 .. k PROVE IsPast(h[j].id)'
  <2>1. j \in 1 .. n /\ j - 1 \in Nat /\ j - 1 <= k
    BY <1>5, <1>8
  <2>2. PICK a \in DOMAIN log : a = h[j].id
    BY <2>1, <1>14
  <2>3. PICK B \in Nat : B = OrderedAmong(h, j - 1) /\ Level(a) = D + 1 + B
    BY <2>2, <1>3, <1>7 DEF PopsInOrder
  <2>4. B <= A
    BY <2>1, <2>3, <1>8, <1>9, AmongIsCount, CountGrows
  <2>5. CASE B < A
    <3>1. Level(a) < D + 1 + A
      BY <2>3, <2>5, <1>3, <1>9
    <3> QED
      BY <3>1, <2>2, <1>1, <1>12, SameLog DEF IsPast
  <2>6. CASE B = A
    <3>1. ~IsOrdered(a)
      <4> SUFFICES ASSUME IsOrdered(a) PROVE FALSE
        OBVIOUS
      <4>1. D < Level(a)
        BY <2>3, <1>3
      <4>2. Level(a) < D + 1 + A
        BY <4>1, <2>2, <1>16
      <4> QED
        BY <4>2, <2>3, <2>6, <1>3
    <3>2. Level(a) = D + 1 + A
      BY <2>3, <2>6
    <3>3. Rank(a) <= g
      BY <3>1, <3>2, <2>2, <1>13
    <3> QED
      BY <3>1, <3>2, <3>3, <2>2, <1>1, <1>12, <1>13, SameLog DEF IsPast
  <2> QED
    BY <2>4, <2>5, <2>6, <1>9
<1>25. \A a \in DOMAIN log : Level(a) <= D => IsPast(a)'
  <2> SUFFICES ASSUME NEW a \in DOMAIN log, Level(a) <= D PROVE IsPast(a)'
    OBVIOUS
  <2>1. Level(a) < D + 1 + A
    BY <1>3, <1>9, <1>15
  <2> QED
    BY <2>1, <1>1, <1>12, SameLog DEF IsPast
<1>26. \A i \in 1 .. N : q[i] \in DOMAIN log /\ Level(q[i]) <= D /\ Level(q[i]) \in Nat
  BY <1>3, <1>15, <1>19 DEF IsPast
<1>27. ASSUME NEW i \in DOMAIN q2 PROVE IsPast(q2[i])'
  <2>0. i \in 1 .. N + 1 + k
    BY <1>22
  <2>1. CASE i \in 1 .. N /\ q2[i] = q[i]
    BY <2>1, <1>25, <1>26
  <2>2. CASE i = N + 1 /\ q2[i] = m
    BY <2>2, <1>2, <1>3, <1>25
  <2>3. CASE \E j \in 1 .. k : i = N + 1 + j /\ q2[i] = h[j].id /\ j \in 1 .. n
    BY <2>3, <1>24
  <2> QED
    BY <2>0, <2>1, <2>2, <2>3, <1>23
<1>28. ASSUME NEW a \in DOMAIN log, IsOrdered(a), Level(a) < D + 1 + A
       PROVE  \E i \in DOMAIN q2 : q2[i] = a
  <2>0. Level(a) \in Nat
    BY <1>15
  <2>1. CASE Level(a) < D
    <3>1. PICK i \in DOMAIN q : q[i] = a
      BY <2>1, <1>28, <1>0, <1>3, <1>19 DEF OutputInv
    <3>2. i \in 1 .. N /\ i \in 1 .. N + 1 + k
      BY <3>1, <1>8, <1>19
    <3> QED
      BY <3>1, <3>2, <1>22
  <2>2. CASE Level(a) = D
    <3>1. a = m
      BY <2>2, <1>17, <1>28
    <3>2. N + 1 \in 1 .. N + 1 + k
      BY <1>8, <1>19
    <3> QED
      BY <3>1, <3>2, <1>22
  <2>3. CASE D < Level(a)
    <3>1. PICK j \in 1 .. k : h[j].id = a
      BY <2>3, <1>16, <1>28
    <3>2. N + 1 + j \in 1 .. N + 1 + k /\ q2[N + 1 + j] = a
      BY <3>1, <1>8, <1>19, <1>22
    <3> QED
      BY <3>2, <1>22
  <2> QED
    BY <2>0, <2>1, <2>2, <2>3, <1>3
<1>29. ASSUME NEW i \in DOMAIN q2, NEW j \in DOMAIN q2, i < j
       PROVE  Precedes(q2[i], q2[j])
  <2>0. i \in 1 .. N + 1 + k /\ j \in 1 .. N + 1 + k /\ N \in Nat
    BY <1>19, <1>22
  <2>1. CASE i \in 1 .. N /\ q2[i] = q[i]
    <3>1. q[i] \in DOMAIN log /\ IsPast(q[i]) /\ Level(q[i]) <= D /\ Level(q[i]) \in Nat
      BY <2>1, <1>19, <1>26
    <3>2. CASE j \in 1 .. N /\ q2[j] = q[j]
      BY <2>1, <3>2, <1>29, <1>0, <1>19 DEF OutputInv
    <3>3. CASE j = N + 1 /\ q2[j] = m
      <4>1. Precedes(q[i], m)
        BY <3>1, <1>0, <1>2, PastPrecedes
      <4> QED
        BY <4>1, <2>1, <3>3
    <3>4. CASE \E l \in 1 .. k : j = N + 1 + l /\ q2[j] = h[l].id /\ l \in 1 .. n
      <4>1. PICK l \in 1 .. n : q2[j] = h[l].id
        BY <3>4
      <4>2. h[l].id \in DOMAIN log /\ Level(h[l].id) > D /\ Level(h[l].id) \in Nat
        BY <1>14, <1>15
      <4>3. Level(q[i]) < Level(h[l].id)
        BY <4>2, <3>1, <1>3
      <4>4. Precedes(q[i], h[l].id)
        BY <4>2, <4>3, <3>1, <1>0, LowerPrecedes
      <4> QED
        BY <4>1, <4>4, <2>1
    <3> QED
      BY <2>0, <3>2, <3>3, <3>4, <1>23
  <2>2. CASE i = N + 1 /\ q2[i] = m
    <3>1. PICK l \in 1 .. n : q2[j] = h[l].id
      <4>1. ~(j \in 1 .. N) /\ j /= N + 1
        BY <2>0, <2>2, <1>29
      <4> QED
        BY <4>1, <2>0, <1>23
    <3>2. h[l].id \in DOMAIN log /\ Level(m) < Level(h[l].id)
      BY <1>2, <1>3, <1>14
    <3>3. Precedes(m, h[l].id)
      BY <3>2, <1>0, LowerPrecedes
    <3> QED
      BY <3>1, <3>3, <2>2
  <2>3. CASE \E l \in 1 .. k : i = N + 1 + l /\ q2[i] = h[l].id /\ l \in 1 .. n
    <3>1. PICK l \in 1 .. n : i = N + 1 + l /\ q2[i] = h[l].id
      BY <2>3
    <3>2. ~(j \in 1 .. N) /\ j /= N + 1
      BY <3>1, <2>0, <1>29
    <3>3. PICK o \in 1 .. n : j = N + 1 + o /\ q2[j] = h[o].id
      BY <3>2, <2>0, <1>23
    <3>4. l < o
      BY <3>1, <3>3, <2>0, <1>29
    <3> QED
      BY <3>1, <3>3, <3>4, <1>14
  <2> QED
    BY <2>0, <2>1, <2>2, <2>3, <1>23
<1>30. OutputInv'
  <2>1. \A i \in DOMAIN q2 : IsPast(q2[i])'
    BY <1>27
  <2>2. \A a \in DOMAIN log' : IsOrdered(a)' /\ (Level(a))' < Done' => \E i \in DOMAIN q2 : q2[i] = a
    BY <1>1, <1>12, <1>28, SameLog
  <2>3. \A i, j \in DOMAIN q2 : i < j => Precedes(q2[i], q2[j])'
    BY <1>1, <1>29, SameLog
  <2> QED
    BY <2>1, <2>2, <2>3, <1>13, <1>19 DEF OutputInv
<1>31. TypeOK'
  <2>1. orderingHeap' \in Seq([weight : Nat, id : DOMAIN log])
    BY <1>4, <1>18
  <2>2. outputQueue' \in Seq(DOMAIN log)
    BY <1>19
  <2>3. highestSequencedReadIndex' \in Number
    BY <1>13
  <2> QED
    BY <2>1, <2>2, <2>3, <1>0, <1>1, <1>12, SameLog DEF TypeOK
<1> QED
  BY <1>1, <1>20, <1>21, <1>30, <1>31 DEF ChannelInv

-----------------------------------------------------------------------------
(* The theorems                                                            *)

(* A stuttering step.                                                      *)
LEMMA StutterKeeps ==
    ASSUME ChannelInv, UNCHANGED vars
    PROVE  ChannelInv'
<1>1. /\ UNCHANGED senderVars /\ copies' = copies
      /\ orderingHeap' = orderingHeap /\ heapIndexOffset' = heapIndexOffset
      /\ orderedReadIndex' = orderedReadIndex
      /\ highestSequencedReadIndex' = highestSequencedReadIndex
      /\ outputQueue' = outputQueue
  BY DEF vars, heapVars, readVars
<1>2. Done' = Done /\ HeapStart' = HeapStart
  BY <1>1, SameLog DEF Done, HeapStart, Behind
<1>3. TypeOK' /\ LogInOrder' /\ CopiesAreRecent'
  <2>1. TypeOK'
    BY <1>1, SameLog DEF ChannelInv, TypeOK
  <2>2. LogInOrder'
    BY <1>1, SameLog DEF ChannelInv, LogInOrder
  <2>3. CopiesAreRecent'
    BY <1>1, SameLog DEF ChannelInv, CopiesAreRecent
  <2> QED
    BY <2>1, <2>2, <2>3
<1>4. OrderedInv'
  <2>1. \A n : InHeap(n)' <=> InHeap(n)
    BY <1>1 DEF InHeap
  <2> QED
    BY <2>1, <1>1, <1>2, SameLog DEF ChannelInv, OrderedInv
<1>5. HeapInv'
  <2>1. \A e : EntryInv(e) => EntryInv(e)'
    BY <1>1, <1>2, SameLog DEF EntryInv
  <2> QED
    BY <2>1, <1>1, <1>2, SameLog DEF ChannelInv, HeapInv
<1>6. OutputInv'
  <2>1. \A n : IsPast(n) => IsPast(n)'
    BY <1>1, <1>2, SameLog DEF IsPast
  <2> QED
    BY <2>1, <1>1, <1>2, SameLog DEF ChannelInv, OutputInv
<1> QED
  BY <1>3, <1>4, <1>5, <1>6 DEF ChannelInv

(* Every step keeps the invariant.                                         *)
LEMMA ChannelStep == ChannelInv /\ [Next]_vars => ChannelInv'
<1> SUFFICES ASSUME ChannelInv, [Next]_vars PROVE ChannelInv'
  OBVIOUS
<1>1. CASE SendOrdered
  BY <1>1, SendOrderedKeeps
<1>2. ASSUME NEW kind \in Sequenced, NEW n \in 0 .. MaxCopies, SendSequenced(kind, n)
      PROVE  ChannelInv'
  BY <1>2, SendSequencedKeeps
<1>3. ASSUME NEW m \in DOMAIN log, DeliverSequenced(m) PROVE ChannelInv'
  BY <1>3, DeliverSequencedKeeps
<1>4. ASSUME NEW m \in DOMAIN log, Discard(m) PROVE ChannelInv'
  BY <1>4, DiscardKeeps
<1>5. ASSUME NEW m \in DOMAIN log, DeliverOrdered(m) PROVE ChannelInv'
  BY <1>5, DeliverOrderedKeeps
<1>6. ASSUME NEW m \in DOMAIN log, BufferAhead(m) PROVE ChannelInv'
  BY <1>6, BufferAheadKeeps
<1>7. CASE UNCHANGED vars
  BY <1>7, StutterKeeps
<1> QED
  BY <1>1, <1>2, <1>3, <1>4, <1>5, <1>6, <1>7 DEF Next, Receive

(* Every state of a channel satisfies the invariant: the ordering index of *)
(* a message that may still arrive or waits in the heap tells its level,   *)
(* the heap is in the order sent, and what was handed over is past.        *)
THEOREM ChannelInvariant == Spec => []ChannelInv
<1>1. Init => ChannelInv
  BY ChannelInitial
<1>2. ChannelInv /\ [Next]_vars => ChannelInv'
  BY ChannelStep
<1> QED
  BY <1>1, <1>2, PTL DEF Spec

(* Send and HandleSocketReceiveFromConnectedPlayer keep every index within *)
(* its width, and every entry of the heap and of the output queue stands   *)
(* for a message that was sent.                                            *)
THEOREM ChannelTypeCorrect == Spec => []TypeOK
<1>1. ChannelInv => TypeOK
  BY DEF ChannelInv
<1> QED
  BY <1>1, ChannelInvariant, PTL

(* "Sequenced and ordered messages sent on the same channel will arrive in *)
(* the order sent" (PacketPriority.h), whatever order the network makes of *)
(* them and wherever the ordering index wraps.                             *)
THEOREM MessagesArriveInOrder == Spec => []ArriveInOrderSent
<1>1. ChannelInv => ArriveInOrderSent
  BY DEF ChannelInv, OutputInv, Precedes, ArriveInOrderSent
<1> QED
  BY <1>1, ChannelInvariant, PTL

(* An ordered message is handed over at most once, behind everything that  *)
(* went before it, and never before an earlier ordered one: the indices    *)
(* that HandleSocketReceiveFromConnectedPlayer compares leave no gap.      *)
THEOREM NoOrderedGap == Spec => []OrderedWithoutGap
<1>1. ASSUME ChannelInv PROVE OrderedWithoutGap
  <2>0. /\ TypeOK /\ OutputInv /\ log \in Seq(Message) /\ Done \in Nat
        /\ \A i \in DOMAIN outputQueue : outputQueue[i] \in DOMAIN log
    BY <1>1, TypeFacts, SpanBound DEF ChannelInv
  <2>1. PICK n \in Nat : DOMAIN outputQueue = 1 .. n
    <3>1. outputQueue \in Seq(DOMAIN log)
      BY <2>0, TypeFacts
    <3>2. Len(outputQueue) \in Nat /\ DOMAIN outputQueue = 1 .. Len(outputQueue)
      BY <3>1
    <3> QED
      BY <3>2
  <2>2. PICK l \in Nat : DOMAIN log = 1 .. l
    BY <2>0
  <2> SUFFICES ASSUME NEW i \in DOMAIN outputQueue, IsOrdered(outputQueue[i])
               PROVE  /\ \A j \in 1 .. i - 1 : outputQueue[j] < outputQueue[i]
                      /\ \A m \in 1 .. outputQueue[i] :
                            IsOrdered(m) => \E j \in 1 .. i : outputQueue[j] = m
    BY DEF OrderedWithoutGap
  <2>3. PICK b \in DOMAIN log : b = outputQueue[i] /\ IsOrdered(b) /\ Level(b) < Done
    BY <2>0 DEF OutputInv, IsPast
  <2>4. ASSUME NEW j \in 1 .. i - 1 PROVE outputQueue[j] < b
    <3>1. j \in DOMAIN outputQueue /\ j < i
      BY <2>1
    <3>2. PICK a \in DOMAIN log : a = outputQueue[j] /\ Precedes(a, b)
      BY <2>0, <2>3, <3>1 DEF OutputInv
    <3>3. a < b
      BY <2>2, <2>3, <3>2 DEF Precedes
    <3> QED
      BY <3>2, <3>3
  <2>5. ASSUME NEW m \in 1 .. b, IsOrdered(m) PROVE \E j \in 1 .. i : outputQueue[j] = m
    <3>1. m \in DOMAIN log /\ m <= b /\ m \in Nat /\ b \in Nat
      BY <2>2, <2>3
    <3>2. Level(m) < Done
      <4>1. Level(m) \in Nat /\ Level(b) \in Nat
        BY <2>0, <3>1, LevelFacts
      <4>2. m < b => Level(m) + 1 <= Level(b)
        BY <2>0, <2>5, <3>1, LevelsAscend DEF Precedes
      <4> QED
        BY <4>1, <4>2, <2>0, <2>3, <3>1
    <3>3. PICK j \in DOMAIN outputQueue : outputQueue[j] = m
      BY <2>0, <2>5, <3>1, <3>2 DEF OutputInv
    <3>4. ~(i < j)
      <4> SUFFICES ASSUME i < j PROVE FALSE
        OBVIOUS
      <4>1. Precedes(b, m)
        BY <2>0, <2>3, <3>3 DEF OutputInv
      <4> QED
        BY <4>1, <2>3, <3>1 DEF Precedes
    <3>5. j \in 1 .. i
      BY <2>1, <3>3, <3>4
    <3> QED
      BY <3>3, <3>5
  <2> QED
    BY <2>3, <2>4, <2>5
<1> QED
  BY <1>1, ChannelInvariant, PTL

(* The loop that returns messages off orderingHeaps stops only at one that *)
(* waits for an ordered message still to arrive: nothing is stranded.      *)
THEOREM NoneStranded == Spec => []NothingStranded
<1>1. ASSUME ChannelInv PROVE NothingStranded
  <2>0. /\ TypeOK /\ CopiesAreRecent /\ OrderedInv /\ HeapInv /\ log \in Seq(Message)
        /\ Done \in Nat /\ Sent \in Nat
    BY <1>1, TypeFacts, SpanBound DEF ChannelInv
  <2> SUFFICES ASSUME NEW i \in DOMAIN orderingHeap
               PROVE  \E m \in DOMAIN log :
                         m < orderingHeap[i].id /\ IsOrdered(m) /\ copies[m] > 0
    BY DEF NothingStranded
  <2>1. PICK a \in DOMAIN log : a = orderingHeap[i].id /\ Level(a) > Done
    BY <2>0, TypeFacts DEF HeapInv, EntryInv
  <2>2. Level(a) \in Nat /\ Level(a) <= Sent
    BY <2>0, LevelFacts
  <2>3. Done < Sent
    BY <2>0, <2>1, <2>2
  <2>4. PICK m \in DOMAIN log : IsOrdered(m) /\ Level(m) = Done /\ copies[m] = 1
    BY <2>0, <2>3, SpanBound
  <2>5. Precedes(m, a)
    BY <2>0, <2>1, <2>4, LowerPrecedes
  <2> QED
    BY <2>1, <2>4, <2>5 DEF Precedes
<1> QED
  BY <1>1, ChannelInvariant, PTL

============================================================================
