-------------------------- MODULE RangeListProofs --------------------------
(***************************************************************************)
(* Proofs about the list of ranges of datagram numbers: for every range of *)
(* numbers and every room in the datagram, the list stays ascending and    *)
(* stands for exactly the numbers inserted and not yet told to the peer.   *)
(***************************************************************************)
EXTENDS RangeList, RangesProofs

-----------------------------------------------------------------------------
(* Serialize.                                                              *)

(* How many ranges are written is defined: those before it fitted, and the *)
(* next one, if there is one, does not.                                    *)
LEMMA CountWrittenDef ==
    ASSUME NEW list \in Seq(RangeNode), NEW maxBits
    PROVE  /\ CountWritten(list, maxBits) \in 0 .. Len(list)
           /\ \A k \in 0 .. CountWritten(list, maxBits) - 1 : FitsAfter(list, k, maxBits)
<1> DEFINE P(n)  == /\ \A k \in 0 .. n - 1 : FitsAfter(list, k, maxBits)
                    /\ n < Len(list) => ~FitsAfter(list, n, maxBits)
           Stops == {n \in Nat : n = Len(list) \/ (n < Len(list) /\ ~FitsAfter(list, n, maxBits))}
<1>1. Len(list) \in Nat
  OBVIOUS
<1>2. Stops \in SUBSET Nat /\ Len(list) \in Stops
  BY <1>1
<1>3. PICK n \in Stops : \A m \in Stops : n <= m
  BY <1>2, LeastOf
<1>4. n \in 0 .. Len(list) /\ (n < Len(list) => ~FitsAfter(list, n, maxBits))
  BY <1>1, <1>3
<1>5. ASSUME NEW k \in 0 .. n - 1 PROVE FitsAfter(list, k, maxBits)
  <2>1. k \in Nat /\ k < n /\ k < Len(list)
    BY <1>1, <1>4
  <2>2. k \notin Stops
    BY <1>3, <1>4, <2>1
  <2> QED
    BY <2>1, <2>2
<1>6. P(n)
  BY <1>4, <1>5
<1>7. CountWritten(list, maxBits) = CHOOSE m \in 0 .. Len(list) : P(m)
  BY DEF CountWritten
<1>8. CountWritten(list, maxBits) \in 0 .. Len(list) /\ P(CountWritten(list, maxBits))
  BY <1>4, <1>6, <1>7
<1> QED
  BY <1>8

(* The two parts of a list that is cut after n ranges.                     *)
LEMMA CutEntries ==
    ASSUME NEW list \in Seq(RangeNode), NEW n \in 0 .. Len(list)
    PROVE  /\ SubSeq(list, 1, n) \in Seq(RangeNode)
           /\ Len(SubSeq(list, 1, n)) = n
           /\ \A k \in 1 .. n : SubSeq(list, 1, n)[k] = list[k]
           /\ SubSeq(list, n + 1, Len(list)) \in Seq(RangeNode)
           /\ Len(SubSeq(list, n + 1, Len(list))) = Len(list) - n
           /\ \A k \in 1 .. Len(list) - n : SubSeq(list, n + 1, Len(list))[k] = list[n + k]
<1> DEFINE len == Len(list)
           front == SubSeq(list, 1, n)
           back == SubSeq(list, n + 1, len)
<1>1. n \in Nat /\ len \in Nat /\ n <= len /\ \A k \in 1 .. len : list[k] \in RangeNode
  BY RangeEntries
<1> HIDE DEF len
<1>2. /\ front \in Seq(RangeNode)
      /\ Len(front) = IF 1 <= n THEN n - 1 + 1 ELSE 0
      /\ \A k \in 1 .. n - 1 + 1 : front[k] = list[1 + k - 1]
  <2>1. 1 \in Int /\ n \in Int /\ \A k \in 1 .. n : list[k] \in RangeNode
    BY <1>1
  <2> QED
    BY <2>1, SubSeqProperties
<1>3. /\ back \in Seq(RangeNode)
      /\ Len(back) = IF n + 1 <= len THEN len - (n + 1) + 1 ELSE 0
      /\ \A k \in 1 .. len - (n + 1) + 1 : back[k] = list[(n + 1) + k - 1]
  <2>1. n + 1 \in Int /\ len \in Int /\ \A k \in n + 1 .. len : list[k] \in RangeNode
    BY <1>1
  <2> QED
    BY <2>1, SubSeqProperties
<1> HIDE DEF front, back
<1>4. Len(front) = n /\ Len(back) = len - n
  BY <1>1, <1>2, <1>3
<1>5. \A k \in 1 .. n : front[k] = list[k]
  <2>1. n - 1 + 1 = n /\ \A k \in 1 .. n : 1 + k - 1 = k
    BY <1>1
  <2> QED
    BY <1>2, <2>1
<1>6. \A k \in 1 .. len - n : back[k] = list[n + k]
  <2>1. len - (n + 1) + 1 = len - n /\ \A k \in 1 .. len - n : (n + 1) + k - 1 = n + k
    BY <1>1
  <2> QED
    BY <1>3, <2>1
<1> QED
  BY <1>2, <1>3, <1>4, <1>5, <1>6 DEF front, back, len

(* Cutting an ascending list leaves two ascending lists, and the numbers   *)
(* of the second are those the first does not have.                        *)
LEMMA CutList ==
    ASSUME NEW list \in Seq(RangeNode), IsDeserialized(list), NEW n \in 0 .. Len(list)
    PROVE  /\ IsDeserialized(SubSeq(list, 1, n))
           /\ IsDeserialized(SubSeq(list, n + 1, Len(list)))
           /\ Members(SubSeq(list, n + 1, Len(list)))
                = Members(list) \ Members(SubSeq(list, 1, n))
<1> DEFINE len == Len(list)
           front == SubSeq(list, 1, n)
           back == SubSeq(list, n + 1, len)
<1>1. n \in Nat /\ len \in Nat /\ n <= len
  BY RangeEntries
<1>2. /\ DOMAIN list = 1 .. len
      /\ \A k \in 1 .. len : list[k].minIndex \in Nat /\ list[k].maxIndex \in Nat
  BY RangeEntries
<1>3. /\ \A k \in 1 .. len : list[k].minIndex <= list[k].maxIndex
      /\ \A k \in 2 .. len : list[k].minIndex > list[k - 1].maxIndex
  BY <1>2 DEF IsDeserialized
<1>4. /\ Len(front) = n /\ DOMAIN front = 1 .. n
      /\ \A k \in 1 .. n : front[k] = list[k]
  <2>1. front \in Seq(RangeNode) /\ Len(front) = n /\ \A k \in 1 .. n : front[k] = list[k]
    BY CutEntries
  <2> HIDE DEF front
  <2> QED
    BY <2>1, RangeEntries
<1>5. /\ Len(back) = len - n /\ DOMAIN back = 1 .. len - n
      /\ \A k \in 1 .. len - n : back[k] = list[n + k]
  <2>1. back \in Seq(RangeNode) /\ Len(back) = len - n /\ \A k \in 1 .. len - n : back[k] = list[n + k]
    BY CutEntries
  <2> HIDE DEF back
  <2> QED
    BY <2>1, RangeEntries
<1>6. ASSUME NEW i \in 1 .. n, NEW j \in n + 1 .. len
      PROVE  list[i].maxIndex < list[j].minIndex
  <2>1. i \in 1 .. Len(list) /\ j \in 1 .. Len(list) /\ i < j
    BY <1>1
  <2> QED
    BY <2>1, FarApart
<1> HIDE DEF len, front, back
<1>7. IsDeserialized(front)
  <2>1. ASSUME NEW k \in 1 .. n PROVE front[k].minIndex <= front[k].maxIndex
    <3>1. k \in 1 .. len
      BY <1>1
    <3> QED
      BY <1>3, <1>4, <3>1
  <2>2. ASSUME NEW k \in 2 .. n PROVE front[k].minIndex > front[k - 1].maxIndex
    <3>1. k \in 2 .. len /\ k \in 1 .. n /\ k - 1 \in 1 .. n
      BY <1>1
    <3> QED
      BY <1>3, <1>4, <3>1
  <2> QED
    BY <1>4, <2>1, <2>2 DEF IsDeserialized
<1>8. IsDeserialized(back)
  <2>1. ASSUME NEW k \in 1 .. len - n PROVE back[k].minIndex <= back[k].maxIndex
    <3>1. n + k \in 1 .. len
      BY <1>1
    <3> QED
      BY <1>3, <1>5, <3>1
  <2>2. ASSUME NEW k \in 2 .. len - n PROVE back[k].minIndex > back[k - 1].maxIndex
    <3>1. n + k \in 2 .. len /\ k \in 1 .. len - n /\ k - 1 \in 1 .. len - n
          /\ n + (k - 1) = (n + k) - 1
      BY <1>1
    <3>2. back[k] = list[n + k] /\ back[k - 1] = list[(n + k) - 1]
      BY <1>5, <3>1
    <3> QED
      BY <1>3, <3>1, <3>2
  <2> QED
    BY <1>5, <2>1, <2>2 DEF IsDeserialized
<1>9. ASSUME NEW x \in Number
      PROVE  IsWithinRange(back, x) <=> IsWithinRange(list, x) /\ ~IsWithinRange(front, x)
  <2>0. x \in Nat
    BY NumRangeAssumption DEF Number
  <2>1. ASSUME NEW k \in 1 .. len - n, back[k].minIndex <= x, x <= back[k].maxIndex
        PROVE  IsWithinRange(list, x) /\ ~IsWithinRange(front, x)
    <3>1. n + k \in 1 .. len /\ n + k \in n + 1 .. len /\ back[k] = list[n + k]
      BY <1>1, <1>5
    <3>2. IsWithinRange(list, x)
      BY <1>2, <2>1, <3>1 DEF IsWithinRange
    <3>3. ASSUME NEW i \in 1 .. n, front[i].minIndex <= x, x <= front[i].maxIndex
          PROVE  FALSE
      <4>1. list[i].maxIndex < list[n + k].minIndex /\ front[i] = list[i] /\ i \in 1 .. len
        BY <1>1, <1>4, <1>6, <3>1
      <4> QED
        BY <1>2, <2>0, <2>1, <3>1, <3>3, <4>1
    <3> QED
      BY <1>4, <3>2, <3>3 DEF IsWithinRange
  <2>2. ASSUME NEW k \in 1 .. len, list[k].minIndex <= x, x <= list[k].maxIndex,
               ~IsWithinRange(front, x)
        PROVE  IsWithinRange(back, x)
    <3>1. CASE k <= n
      <4>1. k \in 1 .. n
        BY <1>1, <3>1
      <4> QED
        BY <1>4, <2>2, <4>1 DEF IsWithinRange
    <3>2. CASE k > n
      <4>1. k - n \in 1 .. len - n /\ n + (k - n) = k
        BY <1>1, <3>2
      <4>2. back[k - n] = list[k]
        BY <1>5, <4>1
      <4> QED
        BY <1>5, <2>2, <4>1, <4>2 DEF IsWithinRange
    <3> QED
      BY <1>1, <3>1, <3>2
  <2> QED
    BY <1>2, <1>5, <2>1, <2>2 DEF IsWithinRange
<1>10. Members(back) = Members(list) \ Members(front)
  BY <1>9 DEF Members
<1> QED
  BY <1>7, <1>8, <1>10 DEF front, back, len

(* One more range is at most one more range of two numbers.                *)
LEMMA OneMoreRange ==
    ASSUME NEW list, NEW n \in Nat, n > 0
    PROVE  /\ BitsCounted(list, n - 1) \in Nat
           /\ 32 * n + 24 * Cardinality({i \in 1 .. n : list[i].minIndex # list[i].maxIndex})
                <= BitsCounted(list, n - 1) + 56
<1> DEFINE Wide(m) == {i \in 1 .. m : list[i].minIndex # list[i].maxIndex}
<1>1. ASSUME NEW m \in Nat
      PROVE  IsFiniteSet(Wide(m)) /\ Cardinality(Wide(m)) \in Nat
  <2>1. IsFiniteSet(1 .. m)
    BY FS_Interval
  <2>2. Wide(m) \in SUBSET (1 .. m)
    OBVIOUS
  <2>3. IsFiniteSet(Wide(m))
    BY <2>1, <2>2, FS_Subset
  <2> QED
    BY <2>3, FS_CardinalityType
<1>2. Wide(n) \in SUBSET (Wide(n - 1) \cup {n})
  <2>1. ASSUME NEW i \in Wide(n) PROVE i \in Wide(n - 1) \cup {n}
    <3>1. i \in 1 .. n - 1 \/ i = n
      OBVIOUS
    <3> QED
      BY <3>1
  <2> QED
    BY <2>1
<1>3. n - 1 \in Nat
  OBVIOUS
<1>4. /\ IsFiniteSet(Wide(n - 1)) /\ Cardinality(Wide(n - 1)) \in Nat
      /\ IsFiniteSet(Wide(n)) /\ Cardinality(Wide(n)) \in Nat
  BY <1>1, <1>3
<1>5. BitsCounted(list, n - 1) = 40 * (n - 1) + 32 * Cardinality(Wide(n - 1))
  BY DEF BitsCounted
<1> HIDE DEF Wide
<1>6. /\ IsFiniteSet(Wide(n - 1) \cup {n})
      /\ Cardinality(Wide(n - 1) \cup {n})
           = IF n \in Wide(n - 1) THEN Cardinality(Wide(n - 1)) ELSE Cardinality(Wide(n - 1)) + 1
  BY <1>4, FS_AddElement
<1>7. Cardinality(Wide(n)) <= Cardinality(Wide(n - 1) \cup {n})
  BY <1>2, <1>6, FS_Subset
<1>8. Cardinality(Wide(n)) <= Cardinality(Wide(n - 1)) + 1
  BY <1>4, <1>6, <1>7
<1>9. /\ BitsCounted(list, n - 1) \in Nat
      /\ 32 * n + 24 * Cardinality(Wide(n)) <= BitsCounted(list, n - 1) + 56
  BY <1>3, <1>4, <1>5, <1>8
<1> QED
  BY <1>9 DEF Wide

(* The ranges that are written take no more than the room they were given; *)
(* a list of which nothing fits is written as its count alone.             *)
LEMMA WrittenFits ==
    ASSUME NEW list \in Seq(RangeNode), NEW maxBits \in Nat
    PROVE  BitsInStream(SubSeq(list, 1, CountWritten(list, maxBits)))
             <= (IF CountWritten(list, maxBits) = 0 THEN 16 ELSE maxBits)
<1> DEFINE n     == CountWritten(list, maxBits)
           front == SubSeq(list, 1, n)
<1>1. n \in 0 .. Len(list) /\ \A k \in 0 .. n - 1 : FitsAfter(list, k, maxBits)
  BY CountWrittenDef
<1>2. n \in Nat /\ n \in 0 .. Len(list)
  BY <1>1
<1> HIDE DEF n
<1>3. front \in Seq(RangeNode) /\ Len(front) = n /\ \A k \in 1 .. n : front[k] = list[k]
  BY <1>2, CutEntries
<1> HIDE DEF front
<1>4. DOMAIN front = 1 .. n
  BY <1>3, RangeEntries
<1>5. {i \in DOMAIN front : front[i].minIndex # front[i].maxIndex}
        = {i \in 1 .. n : list[i].minIndex # list[i].maxIndex}
  BY <1>3, <1>4
<1>6. BitsInStream(front)
        = 16 + 32 * n + 24 * Cardinality({i \in 1 .. n : list[i].minIndex # list[i].maxIndex})
  BY <1>3, <1>5 DEF BitsInStream
<1>7. CASE n = 0
  <2>1. {i \in 1 .. n : list[i].minIndex # list[i].maxIndex} = {}
    BY <1>7
  <2>2. Cardinality({i \in 1 .. n : list[i].minIndex # list[i].maxIndex}) = 0
    BY <2>1, FS_EmptySet
  <2>3. BitsInStream(front) <= 16
    BY <1>6, <1>7, <2>2
  <2> QED
    BY <1>7, <2>3 DEF front, n
<1>8. CASE n > 0
  <2> DEFINE c == Cardinality({i \in 1 .. n : list[i].minIndex # list[i].maxIndex})
             b == BitsCounted(list, n - 1)
  <2>1. b \in Nat /\ 32 * n + 24 * c <= b + 56
    BY <1>2, <1>8, OneMoreRange
  <2>2. n - 1 \in 0 .. n - 1
    BY <1>2, <1>8
  <2>3. 16 + b + 65 <= maxBits
    BY <1>1, <2>2 DEF FitsAfter
  <2>4. c \in Nat
    <3>1. IsFiniteSet(1 .. n)
      BY <1>2, FS_Interval
    <3>2. {i \in 1 .. n : list[i].minIndex # list[i].maxIndex} \in SUBSET (1 .. n)
      OBVIOUS
    <3>3. IsFiniteSet({i \in 1 .. n : list[i].minIndex # list[i].maxIndex})
      BY <3>1, <3>2, FS_Subset
    <3> QED
      BY <3>3, FS_CardinalityType
  <2>5. BitsInStream(front) = 16 + 32 * n + 24 * c
    BY <1>6
  <2> HIDE DEF c, b
  <2>6. BitsInStream(front) <= maxBits
    BY <1>2, <2>1, <2>3, <2>4, <2>5
  <2>7. n # 0
    BY <1>2, <1>8
  <2> QED
    BY <2>6, <2>7 DEF front, n
<1> QED
  BY <1>2, <1>7, <1>8

-----------------------------------------------------------------------------
(* The specification.                                                      *)

(* The list is typed, ascending, and stands for what is pending: each part *)
(* is needed for the next, as the search is only right on an ascending     *)
(* list and the list is only told apart from pending by what it contains.  *)
RangeInv == TypeOK /\ AscendingRanges /\ RepresentsPending

(* RangeInv holds in every reachable state.                                *)
THEOREM RangeInvariant == Spec => []RangeInv
<1>1. Init => RangeInv
  <2>1. SUFFICES ASSUME Init PROVE RangeInv
    OBVIOUS
  <2>2. ranges = <<>> /\ pending = {}
    BY <2>1 DEF Init
  <2>3. TypeOK
    BY <2>2 DEF TypeOK
  <2>4. AscendingRanges
    BY <2>2 DEF AscendingRanges, IsDeserialized
  <2>5. RepresentsPending
    BY <2>2 DEF RepresentsPending, Members, IsWithinRange
  <2> QED
    BY <2>3, <2>4, <2>5 DEF RangeInv
<1>2. RangeInv /\ [Next]_vars => RangeInv'
  <2>1. SUFFICES ASSUME RangeInv, [Next]_vars PROVE RangeInv'
    OBVIOUS
  <2>2. /\ ranges \in Seq(RangeNode) /\ pending \subseteq Number
        /\ IsDeserialized(ranges) /\ Members(ranges) = pending
    BY <2>1 DEF RangeInv, TypeOK, AscendingRanges, RepresentsPending
  <2>3. SUFFICES /\ ranges' \in Seq(RangeNode) /\ pending' \subseteq Number
                 /\ IsDeserialized(ranges') /\ Members(ranges') = pending'
    BY DEF RangeInv, TypeOK, AscendingRanges, RepresentsPending
  <2>4. ASSUME NEW index \in Number, Insert(index) PROVE <2>3!1
    <3>1. ranges' = Inserted(ranges, index) /\ pending' = pending \cup {index}
      BY <2>4 DEF Insert
    <3>2. IsInsertion(ranges, index, ranges')
      BY <2>2, <3>1, InsertedIsInsertion
    <3> QED
      BY <2>2, <3>1, <3>2 DEF IsInsertion
  <2>5. ASSUME NEW maxBits \in BitLimits, Serialize(maxBits) PROVE <2>3!1
    <3> DEFINE n    == CountWritten(ranges, maxBits)
               sent == SubSeq(ranges, 1, n)
               rest == SubSeq(ranges, n + 1, Len(ranges))
    <3>1. /\ ranges' = rest
          /\ pending' = IF IsDeserialized(sent) THEN pending \ Members(sent) ELSE pending
      BY <2>5 DEF Serialize
    <3>2. n \in 0 .. Len(ranges)
      BY <2>2, CountWrittenDef
    <3> HIDE DEF n
    <3>3. /\ IsDeserialized(sent) /\ IsDeserialized(rest)
          /\ Members(rest) = Members(ranges) \ Members(sent)
      BY <2>2, <3>2, CutList
    <3>4. rest \in Seq(RangeNode)
      BY <2>2, <3>2, CutEntries
    <3> HIDE DEF rest, sent
    <3> QED
      BY <2>2, <3>1, <3>3, <3>4
  <2>6. CASE Clear
    <3>1. ranges' = <<>> /\ pending' = {}
      BY <2>6 DEF Clear
    <3>2. IsDeserialized(ranges')
      BY <3>1 DEF IsDeserialized
    <3>3. Members(ranges') = {}
      BY <3>1 DEF Members, IsWithinRange
    <3> QED
      BY <3>1, <3>2, <3>3
  <2>7. CASE UNCHANGED vars
    <3>1. ranges' = ranges /\ pending' = pending
      BY <2>7 DEF vars
    <3> QED
      BY <2>2, <3>1
  <2> QED
    BY <2>1, <2>4, <2>5, <2>6, <2>7 DEF Next
<1> QED
  BY <1>1, <1>2, PTL DEF Spec

(* The list of ranges stays a list of ranges of numbers of 24 bits.        *)
THEOREM RangesTypeCorrect == Spec => []TypeOK
<1>1. RangeInv => TypeOK
  BY DEF RangeInv
<1> QED
  BY <1>1, RangeInvariant, PTL

(* No acknowledgement is lost and none invented: the list stands for the   *)
(* numbers inserted and not yet told to the peer.                          *)
THEOREM RangesRepresentPending == Spec => []RepresentsPending
<1>1. RangeInv => RepresentsPending
  BY DEF RangeInv
<1> QED
  BY <1>1, RangeInvariant, PTL

(* The ranges stay ascending and disjoint: the binary search is right and  *)
(* the peer never refuses a list.                                          *)
THEOREM RangesStayAscending == Spec => []AscendingRanges
<1>1. RangeInv => AscendingRanges
  BY DEF RangeInv
<1> QED
  BY <1>1, RangeInvariant, PTL

(* What Serialize writes fits the room it was given, for every room.       *)
THEOREM SerializedFitsDatagram == Spec => FitsDatagram
<1> DEFINE Fits == \A maxBits \in BitLimits :
          Serialize(maxBits) =>
              BitsInStream(SubSeq(ranges, 1, CountWritten(ranges, maxBits)))
                  <= (IF CountWritten(ranges, maxBits) = 0 THEN 16 ELSE maxBits)
<1>1. RangeInv /\ [Next]_vars => [Fits]_vars
  <2>1. SUFFICES ASSUME RangeInv, NEW maxBits \in BitLimits
                 PROVE  BitsInStream(SubSeq(ranges, 1, CountWritten(ranges, maxBits)))
                          <= (IF CountWritten(ranges, maxBits) = 0 THEN 16 ELSE maxBits)
    OBVIOUS
  <2>2. ranges \in Seq(RangeNode) /\ maxBits \in Nat
    BY <2>1, BitLimitsAssumption DEF RangeInv, TypeOK
  <2> QED
    BY <2>2, WrittenFits
<1> QED
  BY <1>1, RangeInvariant, PTL DEF Spec, FitsDatagram

=============================================================================
