---------------------------- MODULE PacketWindow ----------------------------
(***************************************************************************)
(* The receiver's duplicate filter for reliable messages, as operators on  *)
(* its two pieces of state (ReliabilityLayer.cpp, the block of             *)
(* HandleSocketReceiveFromConnectedPlayer that starts with holeCount):     *)
(*                                                                         *)
(*   baseNum   receivedPacketsBaseIndex, the number expected next          *)
(*   queue     hasReceivedPacketQueue: entry i (from 0) is about number    *)
(*             baseNum + i; true means a hole, false means received        *)
(*                                                                         *)
(* TLA+ sequences start at 1, so the entry for hole count h is queue[h+1]. *)
(***************************************************************************)
EXTENDS SequenceNumbers, Sequences

CONSTANT HoleLimit    \* larger hole counts are dropped; 1000000 in the code

ASSUME HoleLimitAssumption == HoleLimit \in Nat

HoleCount(num, baseNum) == Minus(num, baseNum)

(* Mutants: what the queue says of a number is not looked at; the meaning  *)
(* of the entries (true is a hole) is turned around.                       *)
IsAcceptedNoLookup(num, baseNum, queue) ==
    LET h == HoleCount(num, baseNum) IN h <= HalfRange /\ h <= HoleLimit

IsAcceptedInverted(num, baseNum, queue) ==
    LET h == HoleCount(num, baseNum) IN
    \/ h = 0
    \/ /\ h <= HalfRange
       /\ IF h < Len(queue) THEN ~queue[h + 1] ELSE h <= HoleLimit

(* The message is accepted: it is the expected one, it fills a hole, or it *)
(* lies behind the end of the queue, but not too far.  Everything else is  *)
(* freed as a duplicate (or as a hole count that is too high).             *)
IsAccepted(num, baseNum, queue) ==
    LET h == HoleCount(num, baseNum) IN
    \/ h = 0
    \/ /\ h <= HalfRange
       /\ IF h < Len(queue) THEN queue[h + 1] ELSE h <= HoleLimit

(* Mutant: a hole that is filled stays marked as a hole.                   *)
MarkReceivedKeepsHole(num, baseNum, queue) ==
    LET h == HoleCount(num, baseNum) IN
    IF h < Len(queue) /\ h > 0 THEN queue
    ELSE [i \in 1 .. (IF h < Len(queue) THEN Len(queue) ELSE h + 1) |->
             IF i = h + 1 THEN FALSE
             ELSE IF i <= Len(queue) THEN queue[i] ELSE TRUE]

(* The queue after an accepted message, before the received entries at the *)
(* front are popped.  For the expected message the code pops the queue,    *)
(* if it has an entry, and increments the base index; here the entry is    *)
(* (put in and) marked received, and PopLeading pops it.                    *)
MarkReceived(num, baseNum, queue) ==
    LET h == HoleCount(num, baseNum) IN
    [i \in 1 .. (IF h < Len(queue) THEN Len(queue) ELSE h + 1) |->
        IF i = h + 1 THEN FALSE
        ELSE IF i <= Len(queue) THEN queue[i] ELSE TRUE]

(* Mutant: the closing loop is an if.                                      *)
LeadingReceivedOnce(queue) == IF queue # <<>> /\ ~queue[1] THEN 1 ELSE 0

(* How many entries the closing while loop pops: the received ones at the  *)
(* front of the queue.                                                     *)
LeadingReceived(queue) ==
    CHOOSE k \in 0 .. Len(queue) :
        /\ \A i \in 1 .. k : ~queue[i]
        /\ k = Len(queue) \/ queue[k + 1]

PopLeading(queue) == SubSeq(queue, LeadingReceived(queue) + 1, Len(queue))

=============================================================================
