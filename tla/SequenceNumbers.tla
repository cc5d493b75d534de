-------------------------- MODULE SequenceNumbers --------------------------
(***************************************************************************)
(* The unsigned 24 bit numbers of the wire protocol (uint24_t): datagram   *)
(* numbers, reliable message numbers, ordering and sequencing indices are  *)
(* all of this type.  NumRange is 2^24 in the build; every operator below  *)
(* is stated for an arbitrary even range, so that a small range makes the  *)
(* wrap-around happen within a few messages.                               *)
(***************************************************************************)
EXTENDS Integers

CONSTANT NumRange    \* how many values the type has

ASSUME NumRangeAssumption ==
    /\ NumRange \in Nat
    /\ NumRange >= 8
    /\ NumRange % 2 = 0

Number == 0 .. NumRange - 1

(* (uint24_t)-1, the largest value, and half of it, rounded down as the    *)
(* integer division of the code does.                                      *)
MaxNumber == NumRange - 1
HalfRange == MaxNumber \div 2

(* Mutant: the sum is not masked to 24 bits.                               *)
PlusUnmasked(a, b) == a + b

(* a + b and a - b of uint24_t: both wrap.                                 *)
Plus(a, b)  == IF a + b < NumRange THEN a + b ELSE a + b - NumRange
Minus(a, b) == IF a >= b THEN a - b ELSE a - b + NumRange

(* CCRakNetSlidingWindow::GreaterThan and LessThan.                        *)
GreaterThan(a, b) == a # b /\ Minus(b, a) > HalfRange
LessThan(a, b)    == a # b /\ Minus(b, a) < HalfRange

(* ReliabilityLayer::IsOlderOrderedPacket(new, waiting).  The two branches *)
(* are not symmetric: the first one accepts two distances fewer.           *)
IsOlderOrderedPacket(new, waiting) ==
    IF waiting > HalfRange
    THEN new >= waiting - HalfRange + 1 /\ new < waiting
    ELSE new >= Minus(waiting, HalfRange + 1) \/ new < waiting

=============================================================================
