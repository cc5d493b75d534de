---------------------------- MODULE RangesProofs ----------------------------
(***************************************************************************)
(* Proofs about the operations on lists of ranges: what Inserted does to a *)
(* list, for every range of numbers and every list.  The range list and    *)
(* both lists of answers of the reliability layer rest on it.              *)
(***************************************************************************)
EXTENDS Ranges, FiniteSetTheorems, SequenceTheorems, WellFoundedInduction, TLAPS

-----------------------------------------------------------------------------
(* Facts about lists of ranges.                                            *)

(* A nonempty set of naturals has a least element.                         *)
LEMMA LeastOf ==
    ASSUME NEW S \in SUBSET Nat, S # {}
    PROVE  \E n \in S : \A m \in S : n <= m
<1> DEFINE R == OpToRel(<, Nat)
<1>1. IsWellFoundedOn(R, Nat)
  BY NatLessThanWellFounded
<1>2. PICK n \in S : \A m \in S : ~(<<m, n>> \in R)
  BY <1>1, WFMin
<1>3. ASSUME NEW m \in S
      PROVE  n <= m
  <2>1. m \in Nat /\ n \in Nat
    OBVIOUS
  <2>2. m < n => <<m, n>> \in R
    BY <2>1 DEF OpToRel
  <2> HIDE DEF R
  <2>3. ~(m < n)
    BY <1>2, <2>2
  <2> QED
    BY <2>1, <2>3
<1> QED
  BY <1>3

(* The entries of a list are ranges of numbers, its positions 1 to Len.    *)
LEMMA RangeEntries ==
    ASSUME NEW list \in Seq(RangeNode)
    PROVE  /\ Len(list) \in Nat
           /\ DOMAIN list = 1 .. Len(list)
           /\ \A i \in 1 .. Len(list) :
                 /\ list[i] \in RangeNode
                 /\ list[i].minIndex \in Number
                 /\ list[i].maxIndex \in Number
                 /\ list[i].minIndex \in Nat
                 /\ list[i].maxIndex \in Nat
<1>1. /\ Len(list) \in Nat
      /\ DOMAIN list = 1 .. Len(list)
      /\ \A i \in 1 .. Len(list) : list[i] \in RangeNode
  OBVIOUS
<1>2. ASSUME NEW r \in RangeNode
      PROVE  /\ r.minIndex \in Number /\ r.maxIndex \in Number
             /\ r.minIndex \in Nat /\ r.maxIndex \in Nat
  BY NumRangeAssumption DEF RangeNode, Number
<1> QED
  BY <1>1, <1>2

(* A list that Deserialize accepts is ascending between any two of its     *)
(* ranges, not only between neighbours.                                    *)
LEMMA FarApart ==
    ASSUME NEW list \in Seq(RangeNode), IsDeserialized(list),
           NEW i \in 1 .. Len(list), NEW j \in 1 .. Len(list), i < j
    PROVE  list[i].maxIndex < list[j].minIndex
<1> DEFINE Bad == {n \in Nat : n \in 1 .. Len(list) /\ i < n
                               /\ ~(list[i].maxIndex < list[n].minIndex)}
<1>1. /\ Len(list) \in Nat
      /\ \A k \in 1 .. Len(list) : list[k].minIndex \in Nat /\ list[k].maxIndex \in Nat
  BY RangeEntries
<1>2. /\ \A k \in 1 .. Len(list) : list[k].minIndex <= list[k].maxIndex
      /\ \A k \in 2 .. Len(list) : list[k].minIndex > list[k - 1].maxIndex
  BY RangeEntries DEF IsDeserialized
<1>3. SUFFICES ASSUME Bad # {} PROVE FALSE
  BY <1>1
<1>4. PICK n \in Bad : \A m \in Bad : n <= m
  BY <1>3, LeastOf
<1>5. /\ n \in 2 .. Len(list) /\ i < n /\ n - 1 \in 1 .. Len(list)
      /\ ~(list[i].maxIndex < list[n].minIndex)
  BY <1>1, <1>4
<1>6. list[n].minIndex > list[n - 1].maxIndex /\ list[n - 1].minIndex <= list[n - 1].maxIndex
  BY <1>2, <1>5
<1>7. CASE i = n - 1
  BY <1>5, <1>6, <1>7
<1>8. CASE i < n - 1
  <2>1. n - 1 \notin Bad
    BY <1>1, <1>4, <1>5
  <2>2. list[i].maxIndex < list[n - 1].minIndex
    BY <1>5, <1>8, <2>1
  <2> QED
    BY <1>1, <1>5, <1>6, <2>2
<1> QED
  BY <1>5, <1>7, <1>8

(* The binary search finds the first range that does not lie under the     *)
(* number: all ranges before it do, and none from it on.                   *)
LEMMA InsertionIndexDef ==
    ASSUME NEW list \in Seq(RangeNode), IsDeserialized(list), NEW index \in Number
    PROVE  /\ InsertionIndex(list, index) \in 1 .. Len(list) + 1
           /\ \A i \in 1 .. Len(list) :
                 /\ i < InsertionIndex(list, index) => list[i].maxIndex < index
                 /\ i >= InsertionIndex(list, index) => index <= list[i].maxIndex
<1> DEFINE Under == {i \in DOMAIN list : list[i].maxIndex < index}
           Ends  == {n \in Nat : n <= Len(list) /\ \A i \in 1 .. Len(list) :
                                                      i > n => index <= list[i].maxIndex}
<1>1. /\ Len(list) \in Nat /\ DOMAIN list = 1 .. Len(list) /\ index \in Nat
      /\ \A k \in 1 .. Len(list) : list[k].minIndex \in Nat /\ list[k].maxIndex \in Nat
  BY RangeEntries, NumRangeAssumption DEF Number
<1>2. \A k \in 1 .. Len(list) : list[k].minIndex <= list[k].maxIndex
  BY <1>1 DEF IsDeserialized
<1>3. Ends \in SUBSET Nat /\ Len(list) \in Ends
  BY <1>1
<1>4. PICK n \in Ends : \A m \in Ends : n <= m
  BY <1>3, LeastOf
<1>5. n \in Nat /\ n <= Len(list) /\ \A i \in 1 .. Len(list) : i > n => index <= list[i].maxIndex
  BY <1>4
<1>6. n > 0 => list[n].maxIndex < index
  <2>1. SUFFICES ASSUME n > 0, ~(list[n].maxIndex < index) PROVE FALSE
    OBVIOUS
  <2>2. n - 1 \in Nat /\ n - 1 <= Len(list) /\ n \in 1 .. Len(list)
    BY <1>1, <1>5, <2>1
  <2>3. ASSUME NEW i \in 1 .. Len(list), i > n - 1 PROVE index <= list[i].maxIndex
    <3>1. i = n \/ i > n
      BY <1>1, <1>5, <2>3
    <3>2. list[n].maxIndex \in Nat
      BY <1>1, <2>2
    <3> QED
      BY <1>1, <1>5, <2>1, <3>1, <3>2
  <2>4. n - 1 \in Ends
    BY <2>2, <2>3
  <2>5. n <= n - 1
    BY <1>4, <2>4
  <2> QED
    BY <1>5, <2>5
<1>7. ASSUME NEW i \in 1 .. Len(list), i <= n PROVE list[i].maxIndex < index
  <2>1. n \in 1 .. Len(list) /\ n > 0
    BY <1>1, <1>5, <1>7
  <2>2. CASE i = n
    BY <1>6, <2>1, <2>2
  <2>3. CASE i < n
    <3>1. list[i].maxIndex < list[n].minIndex
      BY <2>1, <2>3, FarApart
    <3> QED
      BY <1>1, <1>2, <1>6, <2>1, <3>1
  <2> QED
    BY <1>5, <1>7, <2>2, <2>3
<1>8. Under = 1 .. n
  <2>1. ASSUME NEW i \in Under PROVE i \in 1 .. n
    BY <1>1, <1>5
  <2>2. ASSUME NEW i \in 1 .. n PROVE i \in Under
    BY <1>1, <1>5, <1>7
  <2> QED
    BY <2>1, <2>2
<1>9. Cardinality(Under) = n
  <2>1. Cardinality(1 .. n) = IF 1 > n THEN 0 ELSE n - 1 + 1
    BY <1>5, FS_Interval
  <2>2. Cardinality(1 .. n) = n
    BY <1>5, <2>1
  <2> HIDE DEF Under
  <2> QED
    BY <1>8, <2>2
<1>10. InsertionIndex(list, index) = n + 1
  BY <1>9 DEF InsertionIndex
<1> QED
  BY <1>1, <1>5, <1>7, <1>10

-----------------------------------------------------------------------------
(* Insert, one lemma for each of the five forms of the result.             *)

(* What the result of inserting index into list has to be.                 *)
IsInsertion(list, index, new) ==
    /\ new \in Seq(RangeNode)
    /\ IsDeserialized(new)
    /\ Members(new) = Members(list) \cup {index}

(* Two lists with the same numbers within their ranges, but for index,     *)
(* have the same members, but for index.                                   *)
LEMMA MembersOfInsertion ==
    ASSUME NEW list, NEW index \in Number, NEW new,
           \A x \in Number : IsWithinRange(new, x) <=> IsWithinRange(list, x) \/ x = index
    PROVE  Members(new) = Members(list) \cup {index}
BY DEF Members

(* The list a range of one number makes.                                   *)
LEMMA SingleRange ==
    ASSUME NEW index \in Number
    PROVE  /\ Single(index) \in RangeNode
           /\ Single(index).minIndex = index
           /\ Single(index).maxIndex = index
BY DEF Single, RangeNode

(* index above every range and not adjacent to the last.                   *)
LEMMA AppendSingle ==
    ASSUME NEW list \in Seq(RangeNode), IsDeserialized(list), NEW index \in Number,
           \A i \in 1 .. Len(list) : list[i].maxIndex < index
    PROVE  IsInsertion(list, index, Append(list, Single(index)))
<1> DEFINE new == Append(list, Single(index))
           n   == Len(list)
<1>1. /\ n \in Nat /\ DOMAIN list = 1 .. n /\ index \in Nat
      /\ \A k \in 1 .. n : list[k].minIndex \in Nat /\ list[k].maxIndex \in Nat
  BY RangeEntries, NumRangeAssumption DEF Number
<1>2. /\ new \in Seq(RangeNode) /\ Len(new) = n + 1
      /\ DOMAIN new = 1 .. n + 1
      /\ \A k \in 1 .. n : new[k] = list[k]
      /\ new[n + 1] = Single(index)
  BY <1>1, SingleRange
<1>3. new[n + 1].minIndex = index /\ new[n + 1].maxIndex = index
  BY <1>2, SingleRange
<1> HIDE DEF new
<1>4. /\ \A k \in 1 .. n : list[k].minIndex <= list[k].maxIndex
      /\ \A k \in 2 .. n : list[k].minIndex > list[k - 1].maxIndex
  BY <1>1 DEF IsDeserialized
<1>5. ASSUME NEW k \in 1 .. n + 1 PROVE new[k].minIndex <= new[k].maxIndex
  <2>1. k \in 1 .. n \/ k = n + 1
    BY <1>1
  <2> QED
    BY <1>1, <1>2, <1>3, <1>4, <2>1
<1>6. ASSUME NEW k \in 2 .. n + 1 PROVE new[k].minIndex > new[k - 1].maxIndex
  <2>1. k \in 2 .. n \/ k = n + 1
    BY <1>1
  <2>2. k - 1 \in 1 .. n /\ new[k - 1] = list[k - 1]
    BY <1>1, <1>2
  <2>3. CASE k \in 2 .. n
    BY <1>1, <1>2, <1>4, <2>2, <2>3
  <2>4. CASE k = n + 1
    BY <1>1, <1>3, <2>2, <2>4
  <2> QED
    BY <2>1, <2>3, <2>4
<1>7. IsDeserialized(new)
  BY <1>2, <1>5, <1>6 DEF IsDeserialized
<1>8. ASSUME NEW x \in Number
      PROVE  IsWithinRange(new, x) <=> IsWithinRange(list, x) \/ x = index
  <2>0. x \in Nat
    BY NumRangeAssumption DEF Number
  <2>1. ASSUME NEW k \in 1 .. n + 1, new[k].minIndex <= x, x <= new[k].maxIndex
        PROVE  IsWithinRange(list, x) \/ x = index
    <3>1. CASE k \in 1 .. n
      BY <1>1, <1>2, <2>1, <3>1 DEF IsWithinRange
    <3>2. CASE k = n + 1
      BY <1>1, <1>3, <2>0, <2>1, <3>2
    <3> QED
      BY <1>1, <3>1, <3>2
  <2>2. ASSUME NEW k \in 1 .. n, list[k].minIndex <= x, x <= list[k].maxIndex
        PROVE  IsWithinRange(new, x)
    BY <1>1, <1>2, <2>2 DEF IsWithinRange
  <2>3. ASSUME x = index PROVE IsWithinRange(new, x)
    BY <1>1, <1>2, <1>3, <2>0, <2>3 DEF IsWithinRange
  <2> QED
    BY <1>1, <1>2, <2>1, <2>2, <2>3 DEF IsWithinRange
<1>9. Members(new) = Members(list) \cup {index}
  BY <1>8, MembersOfInsertion
<1>10. IsInsertion(list, index, new)
  BY <1>2, <1>7, <1>9 DEF IsInsertion
<1> QED
  BY <1>10 DEF new

(* index just above the last range.                                        *)
LEMMA ExtendLast ==
    ASSUME NEW list \in Seq(RangeNode), IsDeserialized(list), NEW index \in Number,
           Len(list) > 0, index = list[Len(list)].maxIndex + 1
    PROVE  IsInsertion(list, index, [list EXCEPT ![Len(list)].maxIndex = index])
<1> DEFINE n   == Len(list)
           e   == [list[n] EXCEPT !.maxIndex = index]
           new == [list EXCEPT ![n] = e]
<1>1. /\ n \in Nat /\ DOMAIN list = 1 .. n /\ index \in Nat /\ n \in 1 .. n
      /\ \A k \in 1 .. n : list[k].minIndex \in Nat /\ list[k].maxIndex \in Nat
  BY RangeEntries, NumRangeAssumption DEF Number
<1>2. e \in RangeNode /\ e.minIndex = list[n].minIndex /\ e.maxIndex = index
  BY <1>1, RangeEntries DEF RangeNode
<1>3. [list EXCEPT ![Len(list)].maxIndex = index] = new
  BY <1>1
<1> HIDE DEF e
<1>4. /\ new \in Seq(RangeNode) /\ Len(new) = n /\ DOMAIN new = 1 .. n
      /\ \A k \in 1 .. n : k # n => new[k] = list[k]
      /\ new[n] = e
  BY <1>1, <1>2
<1> HIDE DEF new
<1>5. /\ \A k \in 1 .. n : list[k].minIndex <= list[k].maxIndex
      /\ \A k \in 2 .. n : list[k].minIndex > list[k - 1].maxIndex
  BY <1>1 DEF IsDeserialized
<1>6. /\ new[n].minIndex = list[n].minIndex /\ new[n].maxIndex = index
      /\ index = list[n].maxIndex + 1
  BY <1>2, <1>4
<1>7. ASSUME NEW k \in 1 .. n PROVE new[k].minIndex <= new[k].maxIndex
  <2>1. CASE k = n
    BY <1>1, <1>5, <1>6, <2>1
  <2>2. CASE k # n
    BY <1>4, <1>5, <2>2
  <2> QED
    BY <2>1, <2>2
<1>8. ASSUME NEW k \in 2 .. n PROVE new[k].minIndex > new[k - 1].maxIndex
  <2>1. k - 1 \in 1 .. n /\ k \in 1 .. n /\ k - 1 # n
    BY <1>1
  <2>2. new[k - 1] = list[k - 1] /\ new[k].minIndex = list[k].minIndex
    BY <1>4, <1>6, <2>1
  <2> QED
    BY <1>5, <2>2
<1>9. IsDeserialized(new)
  BY <1>4, <1>7, <1>8 DEF IsDeserialized
<1>10. ASSUME NEW x \in Number
       PROVE  IsWithinRange(new, x) <=> IsWithinRange(list, x) \/ x = index
  <2>0. x \in Nat
    BY NumRangeAssumption DEF Number
  <2>1. ASSUME NEW k \in 1 .. n, new[k].minIndex <= x, x <= new[k].maxIndex
        PROVE  IsWithinRange(list, x) \/ x = index
    <3>1. CASE k # n
      BY <1>1, <1>4, <2>1, <3>1 DEF IsWithinRange
    <3>2. CASE k = n
      <4>1. list[n].minIndex <= x /\ (x <= list[n].maxIndex \/ x = index)
        BY <1>1, <1>6, <2>0, <2>1, <3>2
      <4> QED
        BY <1>1, <4>1 DEF IsWithinRange
    <3> QED
      BY <3>1, <3>2
  <2>2. ASSUME NEW k \in 1 .. n, list[k].minIndex <= x, x <= list[k].maxIndex
        PROVE  IsWithinRange(new, x)
    <3>1. CASE k # n
      BY <1>4, <2>2, <3>1 DEF IsWithinRange
    <3>2. CASE k = n
      <4>1. new[n].minIndex <= x /\ x <= new[n].maxIndex
        BY <1>1, <1>6, <2>0, <2>2, <3>2
      <4> QED
        BY <1>1, <1>4, <4>1 DEF IsWithinRange
    <3> QED
      BY <3>1, <3>2
  <2>3. ASSUME x = index PROVE IsWithinRange(new, x)
    <3>1. new[n].minIndex <= x /\ x <= new[n].maxIndex
      BY <1>1, <1>5, <1>6, <2>3
    <3> QED
      BY <1>1, <1>4, <3>1 DEF IsWithinRange
  <2> QED
    BY <1>1, <1>4, <2>1, <2>2, <2>3 DEF IsWithinRange
<1>11. Members(new) = Members(list) \cup {index}
  BY <1>10, MembersOfInsertion
<1>12. IsInsertion(list, index, new)
  BY <1>4, <1>9, <1>11 DEF IsInsertion
<1> QED
  BY <1>3, <1>12

(* index just below range i and above the ranges before it.                *)
LEMMA ExtendBelow ==
    ASSUME NEW list \in Seq(RangeNode), IsDeserialized(list), NEW index \in Number,
           NEW i \in 1 .. Len(list), list[i].minIndex = index + 1,
           \A k \in 1 .. Len(list) : k < i => list[k].maxIndex < index
    PROVE  IsInsertion(list, index, [list EXCEPT ![i].minIndex = index])
<1> DEFINE n   == Len(list)
           e   == [list[i] EXCEPT !.minIndex = index]
           new == [list EXCEPT ![i] = e]
<1>1. /\ n \in Nat /\ DOMAIN list = 1 .. n /\ index \in Nat /\ i \in 1 .. n
      /\ \A k \in 1 .. n : list[k].minIndex \in Nat /\ list[k].maxIndex \in Nat
  BY RangeEntries, NumRangeAssumption DEF Number
<1>2. e \in RangeNode /\ e.minIndex = index /\ e.maxIndex = list[i].maxIndex
  BY <1>1, RangeEntries DEF RangeNode
<1>3. [list EXCEPT ![i].minIndex = index] = new
  BY <1>1
<1> HIDE DEF e
<1>4. /\ new \in Seq(RangeNode) /\ Len(new) = n /\ DOMAIN new = 1 .. n
      /\ \A k \in 1 .. n : k # i => new[k] = list[k]
      /\ new[i] = e
  BY <1>1, <1>2
<1> HIDE DEF new
<1>5. /\ \A k \in 1 .. n : list[k].minIndex <= list[k].maxIndex
      /\ \A k \in 2 .. n : list[k].minIndex > list[k - 1].maxIndex
  BY <1>1 DEF IsDeserialized
<1>6. new[i].minIndex = index /\ new[i].maxIndex = list[i].maxIndex
  BY <1>2, <1>4
<1>7. ASSUME NEW k \in 1 .. n PROVE new[k].minIndex <= new[k].maxIndex
  <2>1. CASE k = i
    BY <1>1, <1>5, <1>6, <2>1
  <2>2. CASE k # i
    BY <1>4, <1>5, <2>2
  <2> QED
    BY <2>1, <2>2
<1>8. ASSUME NEW k \in 2 .. n PROVE new[k].minIndex > new[k - 1].maxIndex
  <2>1. k - 1 \in 1 .. n /\ k \in 1 .. n /\ k - 1 < k
    BY <1>1
  <2>2. new[k - 1].maxIndex = list[k - 1].maxIndex
    BY <1>4, <1>6, <2>1
  <2>3. CASE k = i
    BY <1>1, <1>6, <2>1, <2>2, <2>3
  <2>4. CASE k # i
    BY <1>4, <1>5, <2>1, <2>2, <2>4
  <2> QED
    BY <2>3, <2>4
<1>9. IsDeserialized(new)
  BY <1>4, <1>7, <1>8 DEF IsDeserialized
<1>10. ASSUME NEW x \in Number
       PROVE  IsWithinRange(new, x) <=> IsWithinRange(list, x) \/ x = index
  <2>0. x \in Nat
    BY NumRangeAssumption DEF Number
  <2>1. ASSUME NEW k \in 1 .. n, new[k].minIndex <= x, x <= new[k].maxIndex
        PROVE  IsWithinRange(list, x) \/ x = index
    <3>1. CASE k # i
      BY <1>1, <1>4, <2>1, <3>1 DEF IsWithinRange
    <3>2. CASE k = i
      <4>1. x <= list[i].maxIndex /\ (list[i].minIndex <= x \/ x = index)
        BY <1>1, <1>6, <2>0, <2>1, <3>2
      <4> QED
        BY <1>1, <4>1 DEF IsWithinRange
    <3> QED
      BY <3>1, <3>2
  <2>2. ASSUME NEW k \in 1 .. n, list[k].minIndex <= x, x <= list[k].maxIndex
        PROVE  IsWithinRange(new, x)
    <3>1. CASE k # i
      BY <1>4, <2>2, <3>1 DEF IsWithinRange
    <3>2. CASE k = i
      <4>1. new[i].minIndex <= x /\ x <= new[i].maxIndex
        BY <1>1, <1>6, <2>0, <2>2, <3>2
      <4> QED
        BY <1>1, <1>4, <4>1 DEF IsWithinRange
    <3> QED
      BY <3>1, <3>2
  <2>3. ASSUME x = index PROVE IsWithinRange(new, x)
    <3>1. new[i].minIndex <= x /\ x <= new[i].maxIndex
      BY <1>1, <1>5, <1>6, <2>3
    <3> QED
      BY <1>1, <1>4, <3>1 DEF IsWithinRange
  <2> QED
    BY <1>1, <1>4, <2>1, <2>2, <2>3 DEF IsWithinRange
<1>11. Members(new) = Members(list) \cup {index}
  BY <1>10, MembersOfInsertion
<1>12. IsInsertion(list, index, new)
  BY <1>4, <1>9, <1>11 DEF IsInsertion
<1> QED
  BY <1>3, <1>12

(* index between range i and the ranges before it.                         *)
LEMMA InsertSingle ==
    ASSUME NEW list \in Seq(RangeNode), IsDeserialized(list), NEW index \in Number,
           NEW i \in 1 .. Len(list), index < list[i].minIndex,
           \A k \in 1 .. Len(list) : k < i => list[k].maxIndex < index
    PROVE  IsInsertion(list, index, InsertAt(list, i, Single(index)))
<1> DEFINE n   == Len(list)
           new == InsertAt(list, i, Single(index))
           front == SubSeq(list, 1, i - 1)
           back  == SubSeq(list, i, n)
<1>1. /\ n \in Nat /\ DOMAIN list = 1 .. n /\ index \in Nat /\ i \in 1 .. n
      /\ \A k \in 1 .. n : list[k].minIndex \in Nat /\ list[k].maxIndex \in Nat
      /\ \A k \in 1 .. n : list[k] \in RangeNode
  BY RangeEntries, NumRangeAssumption DEF Number
<1>2. /\ front \in Seq(RangeNode) /\ Len(front) = i - 1
      /\ \A k \in 1 .. i - 1 : front[k] = list[k]
  <2>1. \A k \in 1 .. i - 1 : list[k] \in RangeNode
    BY <1>1
  <2> QED
    BY <1>1, <2>1, SubSeqProperties
<1>3. /\ back \in Seq(RangeNode) /\ Len(back) = n - i + 1
      /\ \A k \in 1 .. n - i + 1 : back[k] = list[i + k - 1]
  <2>1. \A k \in i .. n : list[k] \in RangeNode
    BY <1>1
  <2> QED
    BY <1>1, <2>1, SubSeqProperties
<1>4. new = front \o <<Single(index)>> \o back
  BY DEF InsertAt
<1> HIDE DEF new, front, back
<1>5. /\ new \in Seq(RangeNode) /\ Len(new) = n + 1 /\ DOMAIN new = 1 .. n + 1
      /\ \A k \in 1 .. n + 1 :
            new[k] = IF k < i THEN list[k] ELSE IF k = i THEN Single(index) ELSE list[k - 1]
  <2> DEFINE mid == front \o <<Single(index)>>
  <2>1. mid \in Seq(RangeNode) /\ Len(mid) = i
        /\ \A k \in 1 .. i : mid[k] = IF k < i THEN list[k] ELSE Single(index)
    BY <1>1, <1>2, SingleRange
  <2>2. new = mid \o back
    BY <1>4
  <2> HIDE DEF mid
  <2>3. new \in Seq(RangeNode) /\ Len(new) = n + 1
        /\ \A k \in 1 .. n + 1 : new[k] = IF k <= i THEN mid[k] ELSE back[k - i]
    <3>1. /\ mid \o back \in Seq(RangeNode)
          /\ Len(mid \o back) = i + (n - i + 1)
          /\ \A k \in 1 .. i + (n - i + 1) :
                (mid \o back)[k] = IF k <= i THEN mid[k] ELSE back[k - i]
      <4>1. /\ mid \o back \in Seq(RangeNode)
            /\ Len(mid \o back) = Len(mid) + Len(back)
            /\ \A k \in 1 .. Len(mid) + Len(back) :
                  (mid \o back)[k] = IF k <= Len(mid) THEN mid[k] ELSE back[k - Len(mid)]
        BY <1>3, <2>1, ConcatProperties, Zenon
      <4> QED
        BY <1>3, <2>1, <4>1
    <3>2. i + (n - i + 1) = n + 1
      BY <1>1
    <3> QED
      BY <2>2, <3>1, <3>2
  <2>4. ASSUME NEW k \in 1 .. n + 1, k > i PROVE back[k - i] = list[k - 1]
    <3>1. k - i \in 1 .. n - i + 1 /\ i + (k - i) - 1 = k - 1
      BY <1>1, <2>4
    <3> QED
      BY <1>3, <3>1
  <2> QED
    BY <1>1, <2>1, <2>3, <2>4
<1>6. /\ \A k \in 1 .. n : list[k].minIndex <= list[k].maxIndex
      /\ \A k \in 2 .. n : list[k].minIndex > list[k - 1].maxIndex
  BY <1>1 DEF IsDeserialized
<1>7. new[i] = Single(index) /\ new[i].minIndex = index /\ new[i].maxIndex = index
  BY <1>1, <1>5, SingleRange
<1>8. ASSUME NEW k \in 1 .. n + 1 PROVE new[k].minIndex <= new[k].maxIndex
  <2>1. CASE k = i
    BY <1>1, <1>7, <2>1
  <2>2. CASE k < i
    BY <1>1, <1>5, <1>6, <2>2
  <2>3. CASE k > i
    <3>1. k - 1 \in 1 .. n /\ new[k] = list[k - 1]
      BY <1>1, <1>5, <2>3
    <3> QED
      BY <1>6, <3>1
  <2> QED
    BY <1>1, <2>1, <2>2, <2>3
<1>9. ASSUME NEW k \in 2 .. n + 1 PROVE new[k].minIndex > new[k - 1].maxIndex
  <2>1. k \in 1 .. n + 1 /\ k - 1 \in 1 .. n + 1
    BY <1>1
  <2>2. CASE k < i
    <3>1. new[k] = list[k] /\ new[k - 1] = list[k - 1] /\ k \in 2 .. n
      BY SMTT(60), <1>1, <1>5, <2>1, <2>2
    <3> QED
      BY <1>6, <3>1
  <2>3. CASE k = i
    <3>1. new[k - 1] = list[k - 1] /\ k - 1 \in 1 .. n /\ k - 1 < i
      BY <1>1, <1>5, <2>1, <2>3
    <3> QED
      BY <1>1, <1>7, <2>3, <3>1
  <2>4. CASE k = i + 1
    <3>1. new[k] = list[i] /\ new[k - 1] = new[i]
      BY <1>1, <1>5, <2>1, <2>4
    <3> QED
      BY <1>1, <1>7, <3>1
  <2>5. CASE k > i + 1
    <3>1. new[k] = list[k - 1] /\ new[k - 1] = list[(k - 1) - 1] /\ k - 1 \in 2 .. n
      BY <1>1, <1>5, <2>1, <2>5
    <3> QED
      BY <1>6, <3>1
  <2> QED
    BY <1>1, <2>2, <2>3, <2>4, <2>5
<1>10. IsDeserialized(new)
  BY <1>5, <1>8, <1>9 DEF IsDeserialized
<1>11. ASSUME NEW x \in Number
       PROVE  IsWithinRange(new, x) <=> IsWithinRange(list, x) \/ x = index
  <2>0. x \in Nat
    BY NumRangeAssumption DEF Number
  <2>1. ASSUME NEW k \in 1 .. n + 1, new[k].minIndex <= x, x <= new[k].maxIndex
        PROVE  IsWithinRange(list, x) \/ x = index
    <3>1. CASE k < i
      <4>1. k \in 1 .. n /\ new[k] = list[k]
        BY <1>1, <1>5, <3>1
      <4> QED
        BY <1>1, <2>1, <4>1 DEF IsWithinRange
    <3>2. CASE k = i
      BY <1>1, <1>7, <2>0, <2>1, <3>2
    <3>3. CASE k > i
      <4>1. k - 1 \in 1 .. n /\ new[k] = list[k - 1]
        BY <1>1, <1>5, <3>3
      <4> QED
        BY <1>1, <2>1, <4>1 DEF IsWithinRange
    <3> QED
      BY <1>1, <3>1, <3>2, <3>3
  <2>2. ASSUME NEW k \in 1 .. n, list[k].minIndex <= x, x <= list[k].maxIndex
        PROVE  IsWithinRange(new, x)
    <3>1. CASE k < i
      <4>1. k \in 1 .. n + 1 /\ new[k] = list[k]
        BY <1>1, <1>5, <3>1
      <4> QED
        BY <1>5, <2>2, <4>1 DEF IsWithinRange
    <3>2. CASE k >= i
      <4>1. k + 1 \in 1 .. n + 1 /\ new[k + 1] = list[(k + 1) - 1] /\ (k + 1) - 1 = k
        BY <1>1, <1>5, <3>2
      <4> QED
        BY <1>5, <2>2, <4>1 DEF IsWithinRange
    <3> QED
      BY <1>1, <3>1, <3>2
  <2>3. ASSUME x = index PROVE IsWithinRange(new, x)
    <3>1. i \in 1 .. n + 1 /\ new[i].minIndex <= x /\ x <= new[i].maxIndex
      BY <1>1, <1>7, <2>3
    <3> QED
      BY <1>5, <3>1 DEF IsWithinRange
  <2> QED
    BY <1>1, <1>5, <2>1, <2>2, <2>3 DEF IsWithinRange
<1>12. Members(new) = Members(list) \cup {index}
  BY <1>11, MembersOfInsertion
<1>13. IsInsertion(list, index, new)
  BY <1>5, <1>10, <1>12 DEF IsInsertion
<1> QED
  BY <1>13 DEF new

(* index fills the gap between range i and the one before: they are joined. *)
LEMMA JoinRanges ==
    ASSUME NEW list \in Seq(RangeNode), IsDeserialized(list), NEW index \in Number,
           NEW i \in 2 .. Len(list), list[i].minIndex = index + 1,
           list[i - 1].maxIndex + 1 = index
    PROVE  IsInsertion(list, index,
                       RemoveAt([list EXCEPT ![i - 1].maxIndex = list[i].maxIndex], i))
<1> DEFINE n   == Len(list)
           e   == [list[i - 1] EXCEPT !.maxIndex = list[i].maxIndex]
           wide == [list EXCEPT ![i - 1] = e]
           new == RemoveAt(wide, i)
           front == SubSeq(wide, 1, i - 1)
           back  == SubSeq(wide, i + 1, n)
<1>1. /\ n \in Nat /\ DOMAIN list = 1 .. n /\ index \in Nat
      /\ i \in 1 .. n /\ i \in 2 .. n /\ i - 1 \in 1 .. n
      /\ \A k \in 1 .. n : list[k].minIndex \in Nat /\ list[k].maxIndex \in Nat
  BY RangeEntries, NumRangeAssumption DEF Number
<1>2. e \in RangeNode /\ e.minIndex = list[i - 1].minIndex /\ e.maxIndex = list[i].maxIndex
  BY <1>1, RangeEntries DEF RangeNode
<1>3. [list EXCEPT ![i - 1].maxIndex = list[i].maxIndex] = wide
  BY <1>1
<1> HIDE DEF e
<1>4. /\ wide \in Seq(RangeNode) /\ Len(wide) = n
      /\ \A k \in 1 .. n : wide[k] = IF k = i - 1 THEN e ELSE list[k]
      /\ \A k \in 1 .. n : wide[k] \in RangeNode
  BY <1>1, <1>2
<1> HIDE DEF wide
<1>5. /\ front \in Seq(RangeNode) /\ Len(front) = i - 1
      /\ \A k \in 1 .. i - 1 : front[k] = wide[k]
  <2>1. \A k \in 1 .. i - 1 : wide[k] \in RangeNode
    BY <1>1, <1>4
  <2> QED
    BY <1>1, <2>1, SubSeqProperties
<1>6. /\ back \in Seq(RangeNode) /\ Len(back) = n - i
      /\ \A k \in 1 .. n - i : back[k] = wide[i + k]
  <2>1. \A k \in i + 1 .. n : wide[k] \in RangeNode
    BY <1>1, <1>4
  <2>2. /\ back \in Seq(RangeNode)
        /\ Len(back) = IF i + 1 <= n THEN n - (i + 1) + 1 ELSE 0
        /\ \A k \in 1 .. n - (i + 1) + 1 : back[k] = wide[(i + 1) + k - 1]
    BY <1>1, <2>1, SubSeqProperties
  <2>3. n - (i + 1) + 1 = n - i /\ \A k \in 1 .. n - i : (i + 1) + k - 1 = i + k
    BY <1>1
  <2> HIDE DEF back
  <2>4. i \in Nat /\ n \in Nat /\ i <= n
    BY <1>1
  <2> HIDE DEF n
  <2>5. Len(back) = n - i
    BY <2>2, <2>4
  <2> QED
    BY <2>2, <2>3, <2>5
<1>7. new = front \o back
  BY <1>4 DEF RemoveAt
<1> HIDE DEF new, front, back
<1>8. /\ new \in Seq(RangeNode) /\ Len(new) = n - 1 /\ DOMAIN new = 1 .. n - 1
      /\ \A k \in 1 .. n - 1 :
            new[k] = IF k < i - 1 THEN list[k] ELSE IF k = i - 1 THEN e ELSE list[k + 1]
  <2>0. i \in Nat /\ n \in Nat /\ 2 <= i /\ i <= n
    BY <1>1
  <2> HIDE DEF n
  <2>1. new \in Seq(RangeNode) /\ Len(new) = n - 1
        /\ \A k \in 1 .. n - 1 : new[k] = IF k <= i - 1 THEN front[k] ELSE back[k - (i - 1)]
    <3>1. /\ front \o back \in Seq(RangeNode)
          /\ Len(front \o back) = (i - 1) + (n - i)
          /\ \A k \in 1 .. (i - 1) + (n - i) :
                (front \o back)[k] = IF k <= i - 1 THEN front[k] ELSE back[k - (i - 1)]
      <4>1. /\ front \o back \in Seq(RangeNode)
            /\ Len(front \o back) = Len(front) + Len(back)
            /\ \A k \in 1 .. Len(front) + Len(back) :
                  (front \o back)[k] = IF k <= Len(front) THEN front[k] ELSE back[k - Len(front)]
        BY <1>5, <1>6, ConcatProperties, Zenon
      <4> QED
        BY <1>5, <1>6, <4>1
    <3>2. (i - 1) + (n - i) = n - 1
      BY <2>0
    <3> QED
      BY <1>7, <3>1, <3>2
  <2>2. ASSUME NEW k \in 1 .. n - 1, k > i - 1 PROVE back[k - (i - 1)] = list[k + 1]
    <3>1. k - (i - 1) \in 1 .. n - i /\ i + (k - (i - 1)) = k + 1 /\ k + 1 \in 1 .. n /\ k + 1 # i - 1
      BY <2>0, <2>2
    <3> QED
      BY <1>4, <1>6, <3>1
  <2>3. ASSUME NEW k \in 1 .. n - 1, k <= i - 1
        PROVE  front[k] = IF k < i - 1 THEN list[k] ELSE e
    <3>1. k \in 1 .. i - 1 /\ k \in 1 .. n /\ (k < i - 1 <=> k # i - 1)
      BY <2>0, <2>3
    <3> QED
      BY <1>4, <1>5, <3>1
  <2>4. DOMAIN new = 1 .. n - 1
    BY <2>1
  <2>5. ASSUME NEW k \in 1 .. n - 1
        PROVE  new[k] = IF k < i - 1 THEN list[k] ELSE IF k = i - 1 THEN e ELSE list[k + 1]
    <3>1. CASE k <= i - 1
      BY <2>0, <2>1, <2>3, <3>1
    <3>2. CASE k > i - 1
      BY <2>0, <2>1, <2>2, <3>2
    <3> QED
      BY <2>0, <3>1, <3>2
  <2> QED
    BY <2>1, <2>4, <2>5
<1>9. /\ \A k \in 1 .. n : list[k].minIndex <= list[k].maxIndex
      /\ \A k \in 2 .. n : list[k].minIndex > list[k - 1].maxIndex
  BY <1>1 DEF IsDeserialized
<1>10. i - 1 \in 1 .. n - 1 /\ new[i - 1].minIndex = list[i - 1].minIndex
       /\ new[i - 1].maxIndex = list[i].maxIndex
  BY <1>1, <1>2, <1>8
<1>11. ASSUME NEW k \in 1 .. n - 1 PROVE new[k].minIndex <= new[k].maxIndex
  <2>1. CASE k = i - 1
    BY SMTT(60), <1>1, <1>9, <1>10, <2>1
  <2>2. CASE k < i - 1
    <3>1. k \in 1 .. n /\ new[k] = list[k]
      BY <1>1, <1>8, <2>2
    <3> QED
      BY <1>9, <3>1
  <2>3. CASE k > i - 1
    <3>1. k + 1 \in 1 .. n /\ new[k] = list[k + 1]
      BY <1>1, <1>8, <2>3
    <3> QED
      BY <1>9, <3>1
  <2> QED
    BY <1>1, <2>1, <2>2, <2>3
<1>12. ASSUME NEW k \in 2 .. n - 1 PROVE new[k].minIndex > new[k - 1].maxIndex
  <2>1. k \in 1 .. n - 1 /\ k - 1 \in 1 .. n - 1 /\ k \in 2 .. n
    BY <1>1
  <2>2. CASE k < i - 1
    <3>1. new[k] = list[k] /\ new[k - 1] = list[k - 1]
      BY <1>1, <1>8, <2>1, <2>2
    <3> QED
      BY <1>9, <2>1, <3>1
  <2>3. CASE k = i - 1
    <3>1. new[k - 1] = list[k - 1] /\ new[k].minIndex = list[k].minIndex
      BY <1>1, <1>8, <1>10, <2>1, <2>3
    <3> QED
      BY <1>9, <2>1, <3>1
  <2>4. CASE k = i
    <3>1. new[k] = list[i + 1] /\ i + 1 \in 2 .. n /\ new[k - 1].maxIndex = list[i].maxIndex
      BY <1>1, <1>8, <1>10, <2>1, <2>4
    <3>2. (i + 1) - 1 = i
      BY <1>1
    <3> QED
      BY <1>9, <3>1, <3>2
  <2>5. CASE k > i
    <3>1. new[k] = list[k + 1] /\ k + 1 \in 2 .. n /\ new[k - 1] = list[(k - 1) + 1]
      <4>1. i \in Nat /\ n \in Nat /\ k \in Nat /\ k <= n - 1 /\ k > i /\ 2 <= i
        BY <1>1, <2>1, <2>5
      <4>2. /\ k + 1 \in 2 .. n /\ ~(k < i - 1) /\ k # i - 1
            /\ ~(k - 1 < i - 1) /\ k - 1 # i - 1
        BY <4>1
      <4> QED
        BY <1>8, <2>1, <4>2
    <3>2. (k - 1) + 1 = (k + 1) - 1
      BY <1>1
    <3> QED
      BY <1>9, <3>1, <3>2
  <2> QED
    BY <1>1, <2>2, <2>3, <2>4, <2>5
<1>13. IsDeserialized(new)
  BY <1>8, <1>11, <1>12 DEF IsDeserialized
<1>14. ASSUME NEW x \in Number
       PROVE  IsWithinRange(new, x) <=> IsWithinRange(list, x) \/ x = index
  <2>0. x \in Nat
    BY NumRangeAssumption DEF Number
  <2>1. ASSUME NEW k \in 1 .. n - 1, new[k].minIndex <= x, x <= new[k].maxIndex
        PROVE  IsWithinRange(list, x) \/ x = index
    <3>1. CASE k < i - 1
      <4>1. k \in 1 .. n /\ new[k] = list[k]
        BY <1>1, <1>8, <3>1
      <4> QED
        BY <1>1, <2>1, <4>1 DEF IsWithinRange
    <3>2. CASE k = i - 1
      <4>1. \/ list[i - 1].minIndex <= x /\ x <= list[i - 1].maxIndex
            \/ x = index
            \/ list[i].minIndex <= x /\ x <= list[i].maxIndex
        BY SMTT(60), <1>1, <1>10, <2>0, <2>1, <3>2
      <4> QED
        BY <1>1, <4>1 DEF IsWithinRange
    <3>3. CASE k > i - 1
      <4>1. k + 1 \in 1 .. n /\ new[k] = list[k + 1]
        BY <1>1, <1>8, <3>3
      <4> QED
        BY <1>1, <2>1, <4>1 DEF IsWithinRange
    <3> QED
      BY <1>1, <3>1, <3>2, <3>3
  <2>2. ASSUME NEW k \in 1 .. n, list[k].minIndex <= x, x <= list[k].maxIndex
        PROVE  IsWithinRange(new, x)
    <3>1. CASE k < i - 1
      <4>1. k \in 1 .. n - 1 /\ new[k] = list[k]
        BY <1>1, <1>8, <3>1
      <4> QED
        BY <1>8, <2>2, <4>1 DEF IsWithinRange
    <3>2. CASE k = i - 1 \/ k = i
      <4>1. new[i - 1].minIndex <= x /\ x <= new[i - 1].maxIndex
        BY <1>1, <1>9, <1>10, <2>0, <2>2, <3>2
      <4> QED
        BY <1>8, <1>10, <4>1 DEF IsWithinRange
    <3>3. CASE k > i
      <4>1. k - 1 \in 1 .. n - 1 /\ new[k - 1] = list[(k - 1) + 1] /\ (k - 1) + 1 = k
        BY <1>1, <1>8, <3>3
      <4> QED
        BY <1>8, <2>2, <4>1 DEF IsWithinRange
    <3> QED
      BY <1>1, <3>1, <3>2, <3>3
  <2>3. ASSUME x = index PROVE IsWithinRange(new, x)
    <3>1. new[i - 1].minIndex <= x /\ x <= new[i - 1].maxIndex
      BY <1>1, <1>9, <1>10, <2>3
    <3> QED
      BY <1>8, <1>10, <3>1 DEF IsWithinRange
  <2> QED
    BY <1>1, <1>8, <2>1, <2>2, <2>3 DEF IsWithinRange
<1>15. Members(new) = Members(list) \cup {index}
  BY <1>14, MembersOfInsertion
<1>16. IsInsertion(list, index, new)
  BY <1>8, <1>13, <1>15 DEF IsInsertion
<1> QED
  BY <1>3, <1>16 DEF new

(* Insert adds the number and nothing else, and keeps the list ascending,  *)
(* whichever of its branches it takes.                                     *)
THEOREM InsertedIsInsertion ==
    ASSUME NEW list \in Seq(RangeNode), IsDeserialized(list), NEW index \in Number
    PROVE  IsInsertion(list, index, Inserted(list, index))
<1> DEFINE i == InsertionIndex(list, index)
           n == Len(list)
<1>1. /\ n \in Nat /\ DOMAIN list = 1 .. n /\ index \in Nat /\ index < NumRange
      /\ \A k \in 1 .. n : /\ list[k].minIndex \in Nat /\ list[k].maxIndex \in Nat
                           /\ list[k].minIndex < NumRange /\ list[k].maxIndex < NumRange
  BY RangeEntries, NumRangeAssumption DEF Number
<1>2. /\ i \in 1 .. n + 1
      /\ \A k \in 1 .. n : /\ k < i => list[k].maxIndex < index
                           /\ k >= i => index <= list[k].maxIndex
  BY InsertionIndexDef
<1> HIDE DEF i
<1>3. Inserted(list, index) = IF IsWithinRange(list, index) THEN list
                              ELSE IF i > n THEN InsertAbove(list, index)
                              ELSE InsertBelow(list, i, index)
  BY DEF Inserted, i
<1>4. CASE IsWithinRange(list, index)
  <2>1. Members(list) = Members(list) \cup {index}
    BY <1>4 DEF Members
  <2>2. Inserted(list, index) = list
    BY <1>3, <1>4
  <2> QED
    BY <2>1, <2>2 DEF IsInsertion
<1>5. CASE ~IsWithinRange(list, index) /\ i > n
  <2>1. \A k \in 1 .. n : list[k].maxIndex < index
    BY <1>1, <1>2, <1>5
  <2>2. Inserted(list, index) = InsertAbove(list, index)
    BY <1>3, <1>5
  <2>3. IsInsertion(list, index, Append(list, Single(index)))
    BY <2>1, AppendSingle
  <2>4. CASE n = 0
    <3>1. Append(list, Single(index)) = <<Single(index)>>
      BY <2>4
    <3>2. InsertAbove(list, index) = <<Single(index)>>
      BY <2>4 DEF InsertAbove
    <3> QED
      BY <2>2, <2>3, <3>1, <3>2
  <2>5. CASE n # 0
    <3>1. n > 0 /\ n \in 1 .. n
      BY <1>1, <2>5
    <3>2. list[n].maxIndex < index /\ list[n].maxIndex \in Nat
      BY <1>1, <2>1, <3>1
    <3>3. Plus(list[n].maxIndex, 1) = list[n].maxIndex + 1
      BY <1>1, <3>2, NumRangeAssumption DEF Plus
    <3>4. CASE index = list[n].maxIndex + 1
      <4>1. InsertAbove(list, index) = [list EXCEPT ![n].maxIndex = index]
        BY <2>5, <3>3, <3>4 DEF InsertAbove
      <4> QED
        BY <2>2, <3>1, <3>4, <4>1, ExtendLast
    <3>5. CASE index > list[n].maxIndex + 1
      <4>1. InsertAbove(list, index) = Append(list, Single(index))
        <5>1. index # list[n].maxIndex + 1
          BY <1>1, <3>2, <3>5
        <5> QED
          BY <2>5, <3>3, <3>5, <5>1 DEF InsertAbove
      <4> QED
        BY <2>2, <2>3, <4>1
    <3> QED
      BY <1>1, <3>2, <3>4, <3>5
  <2> QED
    BY <2>4, <2>5
<1>6. CASE ~IsWithinRange(list, index) /\ ~(i > n)
  <2>1. i \in 1 .. n /\ \A k \in 1 .. n : k < i => list[k].maxIndex < index
    BY <1>1, <1>2, <1>6
  <2>2. Inserted(list, index) = InsertBelow(list, i, index)
    BY <1>3, <1>6
  <2>3. index <= list[i].maxIndex
    BY <1>1, <1>2, <2>1
  <2>4. index < list[i].minIndex
    <3>1. ~(list[i].minIndex <= index /\ index <= list[i].maxIndex)
      BY <1>1, <1>6, <2>1 DEF IsWithinRange
    <3> QED
      BY <1>1, <2>1, <2>3, <3>1
  <2>5. Minus(list[i].minIndex, 1) = list[i].minIndex - 1
    BY <1>1, <2>1, <2>4 DEF Minus
  <2>6. CASE index < list[i].minIndex - 1
    <3>1. InsertBelow(list, i, index) = InsertAt(list, i, Single(index))
      BY <2>5, <2>6 DEF InsertBelow
    <3> QED
      BY <2>1, <2>2, <2>4, <3>1, InsertSingle
  <2>7. CASE ~(index < list[i].minIndex - 1)
    <3>1. list[i].minIndex = index + 1
      BY <1>1, <2>1, <2>4, <2>7
    <3>2. CASE i > 1 /\ Plus(list[i - 1].maxIndex, 1) = index
      <4>1. i \in 2 .. n /\ i - 1 \in 1 .. n /\ i - 1 < i
        BY <1>1, <2>1, <3>2
      <4>2. list[i - 1].maxIndex < index /\ list[i - 1].maxIndex \in Nat
        BY <1>1, <2>1, <4>1
      <4>3. list[i - 1].maxIndex + 1 = index
        BY <1>1, <3>2, <4>2, NumRangeAssumption DEF Plus
      <4>4. InsertBelow(list, i, index)
              = RemoveAt([list EXCEPT ![i - 1].maxIndex = list[i].maxIndex], i)
        BY <2>5, <2>7, <3>2 DEF InsertBelow
      <4> QED
        BY <2>2, <3>1, <4>1, <4>3, <4>4, JoinRanges
    <3>3. CASE ~(i > 1 /\ Plus(list[i - 1].maxIndex, 1) = index)
      <4>1. InsertBelow(list, i, index) = [list EXCEPT ![i].minIndex = index]
        BY <2>5, <2>7, <3>3 DEF InsertBelow
      <4>2. IsInsertion(list, index, [list EXCEPT ![i].minIndex = index])
        BY <2>1, <3>1, ExtendBelow
      <4> QED
        BY <2>2, <4>1, <4>2
    <3> QED
      BY <3>2, <3>3
  <2> QED
    BY <2>6, <2>7
<1> QED
  BY <1>4, <1>5, <1>6

=============================================================================
