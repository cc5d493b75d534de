------------------------------ MODULE Ranges ------------------------------
(***************************************************************************)
(* The operations of DataStructures::RangeList<uint24_t> (DS_RangeList.h)  *)
(* as operators on its one field: ranges, an ordered list of RangeNodes.   *)
(***************************************************************************)
EXTENDS SequenceNumbers, FiniteSets, SequencesExt

RangeNode == [minIndex : Number, maxIndex : Number]

(* Mutant: the search ends at the last range.                              *)
InsertionIndexLast(list, index) ==
    IF \A i \in DOMAIN list : list[i].maxIndex < index THEN Len(list) + 1 ELSE Len(list)

(* IsWithinRange and the insertion point OrderedList::GetIndexFromKey      *)
(* finds by binary search: the first range that does not lie under index.  *)
IsWithinRange(list, index) ==
    \E i \in DOMAIN list : list[i].minIndex <= index /\ index <= list[i].maxIndex

InsertionIndex(list, index) ==
    Cardinality({i \in DOMAIN list : list[i].maxIndex < index}) + 1

Single(index) == [minIndex |-> index, maxIndex |-> index]

(* Mutant: the upper end is taken to be exclusive.                         *)
InsertAboveHalfOpen(list, index) ==
    LET last == Len(list) IN
    IF last = 0 THEN <<Single(index)>>
    ELSE IF index = list[last].maxIndex + 1
         THEN [list EXCEPT ![last].maxIndex = index + 1]
         ELSE Append(list, Single(index))

(* index is above every range: it extends the last one or starts a new one. *)
InsertAbove(list, index) ==
    LET last == Len(list) IN
    IF last = 0 THEN <<Single(index)>>
    ELSE LET next == Plus(list[last].maxIndex, 1) IN
         IF index = next THEN [list EXCEPT ![last].maxIndex = next]
         ELSE IF index > next THEN Append(list, Single(index)) ELSE list

(* Mutant: joining two ranges forgets the upper end of the second.         *)
InsertBelowTruncating(list, i, index) ==
    IF index < Minus(list[i].minIndex, 1) THEN InsertAt(list, i, Single(index))
    ELSE IF i > 1 /\ Plus(list[i - 1].maxIndex, 1) = index
         THEN RemoveAt([list EXCEPT ![i - 1].maxIndex = index], i)
         ELSE [list EXCEPT ![i].minIndex = index]

(* index lies below range i and above the ranges before it: it becomes a   *)
(* range of its own unless it touches range i, which it then may join with *)
(* the range before.  (An index that touches only the range before is not  *)
(* joined with it.  The code's last branch, for an index just above range  *)
(* i, is never taken: the insertion point lies behind such a range.)       *)
InsertBelow(list, i, index) ==
    IF index < Minus(list[i].minIndex, 1) THEN InsertAt(list, i, Single(index))
    ELSE IF i > 1 /\ Plus(list[i - 1].maxIndex, 1) = index
         THEN RemoveAt([list EXCEPT ![i - 1].maxIndex = list[i].maxIndex], i)
         ELSE [list EXCEPT ![i].minIndex = index]

Inserted(list, index) ==
    LET i == InsertionIndex(list, index) IN
    IF IsWithinRange(list, index) THEN list
    ELSE IF i > Len(list) THEN InsertAbove(list, index)
    ELSE InsertBelow(list, i, index)

-----------------------------------------------------------------------------
(* Serialize.  The code counts a number as 32 bits (sizeof) and a flag as  *)
(* one bit when it looks whether the next range still fits, and as 32 and  *)
(* 8 bits when it adds up what it has written.                             *)
BitsCounted(list, n) ==
    40 * n + 32 * Cardinality({i \in 1 .. n : list[i].minIndex # list[i].maxIndex})

(* Mutant: the numbers of the next range are not counted.                  *)
FitsAfterFlagOnly(list, n, maxBits) == 16 + BitsCounted(list, n) + 1 <= maxBits

FitsAfter(list, n, maxBits) == 16 + BitsCounted(list, n) + 65 <= maxBits

CountWritten(list, maxBits) ==
    CHOOSE n \in 0 .. Len(list) :
        /\ \A k \in 0 .. n - 1 : FitsAfter(list, k, maxBits)
        /\ n < Len(list) => ~FitsAfter(list, n, maxBits)

(* What BitStream really writes: a count of 16 bits and, for each range, a *)
(* flag of 8 bits and one or two numbers of 24 bits.                       *)
BitsInStream(list) ==
    16 + 32 * Len(list)
       + 24 * Cardinality({i \in DOMAIN list : list[i].minIndex # list[i].maxIndex})

(* Deserialize refuses a list whose ranges are not ascending.              *)
IsDeserialized(list) ==
    /\ \A i \in DOMAIN list : list[i].minIndex <= list[i].maxIndex
    /\ \A i \in 2 .. Len(list) : list[i].minIndex > list[i - 1].maxIndex

Members(list) == {n \in Number : IsWithinRange(list, n)}

=============================================================================
