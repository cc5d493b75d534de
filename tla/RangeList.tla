----------------------------- MODULE RangeList -----------------------------
(***************************************************************************)
(* DataStructures::RangeList<uint24_t> (DS_RangeList.h): the sets of       *)
(* datagram numbers that wait to be acknowledged (acknowlegements) or      *)
(* reported missing (NAKs), kept as an ordered list of ranges.             *)
(*                                                                         *)
(* The receiver of datagrams inserts numbers; SendACKs and UpdateInternal  *)
(* serialize as many ranges as a datagram has room for and remove them     *)
(* from the list; the peer deserializes them.  pending says what the list  *)
(* has to stand for: the numbers inserted that the peer was not told of.   *)
(***************************************************************************)
EXTENDS Ranges

CONSTANT BitLimits    \* room for a list, in bits: what is left of the MTU

ASSUME BitLimitsAssumption == BitLimits \subseteq Nat

VARIABLES ranges, pending

vars == <<ranges, pending>>

TypeOK == ranges \in Seq(RangeNode) /\ pending \subseteq Number

Init == ranges = <<>> /\ pending = {}

-----------------------------------------------------------------------------
Insert(index) ==
    /\ ranges' = Inserted(ranges, index)
    /\ pending' = pending \cup {index}

(* Serialize with clearSerialized, and Deserialize at the peer.            *)
Serialize(maxBits) ==
    /\ ranges # <<>>
    /\ LET n    == CountWritten(ranges, maxBits)
           sent == SubSeq(ranges, 1, n)
       IN  /\ ranges' = SubSeq(ranges, n + 1, Len(ranges))
           /\ pending' = IF IsDeserialized(sent) THEN pending \ Members(sent) ELSE pending

Clear == ranges' = <<>> /\ pending' = {}

Next ==
    \/ \E index \in Number : Insert(index)
    \/ \E maxBits \in BitLimits : Serialize(maxBits)
    \/ Clear

Spec == Init /\ [][Next]_vars

-----------------------------------------------------------------------------
(* The list stands for exactly the numbers inserted and not yet told to    *)
(* the peer: no acknowledgement is lost and none is invented, whatever is  *)
(* inserted between two datagrams and wherever the list is cut.            *)
RepresentsPending == Members(ranges) = pending

(* The ranges stay ascending and disjoint, which the binary search relies  *)
(* on and without which the peer would refuse the list.                    *)
AscendingRanges == IsDeserialized(ranges)

(* What is written fits the room it was given, although the test for the   *)
(* next range counts its flag as one bit (the "#med" comment of Serialize  *)
(* asks whether it should be eight): the list that is cut off never        *)
(* exceeds the datagram.                                                   *)
FitsDatagram ==
    [][\A maxBits \in BitLimits :
          Serialize(maxBits) =>
              BitsInStream(SubSeq(ranges, 1, CountWritten(ranges, maxBits)))
                  <= (IF CountWritten(ranges, maxBits) = 0 THEN 16 ELSE maxBits)]_vars

=============================================================================
