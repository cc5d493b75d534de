-------------------------- MODULE OrderingChannel --------------------------
(***************************************************************************)
(* Ordered and sequenced messages blended on one ordering channel          *)
(* (ReliabilityLayer.h, "Algorithm for blending ordered and sequenced on   *)
(* the same channel"; the 32 channels of a connection share no state).     *)
(*                                                                         *)
(* ReliabilityLayer::Send gives a message its ordering and sequencing      *)
(* index; the last part of HandleSocketReceiveFromConnectedPlayer delivers *)
(* it, discards it or keeps it in orderingHeaps.  Between the two lies     *)
(* what ReceiveWindow and the network make of it:                          *)
(*                                                                         *)
(*  - a reliable message gets past the duplicate filter exactly once;      *)
(*  - an unreliable one arrives as often as the network delivers it, which *)
(*    may be never and may be more than once: nothing filters it;          *)
(*  - the order of arrival is any order.                                   *)
(*                                                                         *)
(* Messages are named 1, 2, 3 ... in the order they were sent.             *)
(***************************************************************************)
EXTENDS SequenceNumbers, FiniteSets, SequencesExt

CONSTANTS
    SeqWeight,       \* 1048576: heap weights of one ordering index
    MaxSpan,         \* no copy arrives more than so many ordering indices late
    MaxCopies,       \* bound: copies of an unreliable message the network makes
    MaxMessages,     \* bound: how many messages are sent
    StartIndices     \* the ordering index of the first message: 0, or any
                     \* index after earlier traffic

ASSUME OrderingAssumption ==
    /\ SeqWeight \in Nat \ {0, 1}
    /\ SeqWeight <= HalfRange
    /\ MaxSpan \in Nat
    /\ MaxSpan < HalfRange
    /\ MaxCopies \in Nat
    /\ MaxMessages \in Nat
    /\ StartIndices \subseteq Number

VARIABLES
    log,             \* the messages sent, with their indices
    copies,          \* copies[m]: copies of message m that have yet to arrive
    orderedWriteIndex, sequencedWriteIndex,               \* the sender
    orderedReadIndex, highestSequencedReadIndex,          \* the receiver
    orderingHeap, heapIndexOffset,
    outputQueue      \* the messages handed to the user so far

senderVars   == <<log, orderedWriteIndex, sequencedWriteIndex>>
heapVars     == <<orderingHeap, heapIndexOffset>>
readVars     == <<orderedReadIndex, highestSequencedReadIndex>>
vars == <<senderVars, copies, heapVars, readVars, outputQueue>>

Ordered   == "RELIABLE_ORDERED"
Sequenced == {"RELIABLE_SEQUENCED", "UNRELIABLE_SEQUENCED"}

Message == [kind : {Ordered} \cup Sequenced,
            orderingIndex : Number, sequencingIndex : Number]

TypeOK ==
    /\ log \in Seq(Message)
    /\ copies \in [DOMAIN log -> 0 .. MaxCopies + 1]
    /\ {orderedWriteIndex, sequencedWriteIndex, orderedReadIndex,
        highestSequencedReadIndex, heapIndexOffset} \subseteq Number
    /\ orderingHeap \in Seq([weight : Nat, id : DOMAIN log])
    /\ outputQueue \in Seq(DOMAIN log)

Init ==
    /\ log = <<>>
    /\ copies = <<>>
    /\ orderedWriteIndex \in StartIndices
    /\ sequencedWriteIndex = 0
    /\ orderedReadIndex = orderedWriteIndex
    /\ highestSequencedReadIndex = 0
    /\ orderingHeap = <<>>
    /\ heapIndexOffset = 0
    /\ outputQueue = <<>>

-----------------------------------------------------------------------------
(* ReliabilityLayer::Send                                                  *)

IsOrdered(m) == log[m].kind = Ordered

(* How many ordered messages were sent up to message m.                    *)
OrderedUpTo(m) == Cardinality({n \in 1 .. m : IsOrdered(n)})

(* Assumption: the heap runs empty before the ordering indices have come   *)
(* round since it was last empty.  Nothing in the code sees to it.         *)
HeapIsYoung ==
    orderingHeap /= <<>> => Minus(orderedWriteIndex, heapIndexOffset) < MaxNumber

(* An ordered message takes the current ordering index, increments it and  *)
(* resets the sequencing index.  The first guard is the assumption that no *)
(* copy outlives MaxSpan ordering indices.                                 *)
SendOrdered ==
    /\ Len(log) < MaxMessages
    /\ \A m \in DOMAIN log :
          copies[m] > 0 => OrderedUpTo(Len(log)) - OrderedUpTo(m) < MaxSpan
    /\ HeapIsYoung
    /\ log' = Append(log, [kind |-> Ordered, orderingIndex |-> orderedWriteIndex,
                           sequencingIndex |-> 0])
    /\ copies' = Append(copies, 1)
    /\ orderedWriteIndex' = Plus(orderedWriteIndex, 1)
    /\ sequencedWriteIndex' = 0
    /\ UNCHANGED <<heapVars, readVars, outputQueue>>

(* A sequenced message takes both indices and increments the sequencing    *)
(* index.  The guard keeps the sequencing index below the weight of an     *)
(* ordered message (fewer than 2^20 sequenced messages in a row).          *)
SendSequenced(kind, n) ==
    /\ Len(log) < MaxMessages
    /\ sequencedWriteIndex < SeqWeight - 1
    /\ kind = "RELIABLE_SEQUENCED" => n = 1
    /\ log' = Append(log, [kind |-> kind, orderingIndex |-> orderedWriteIndex,
                           sequencingIndex |-> sequencedWriteIndex])
    /\ copies' = Append(copies, n)
    /\ sequencedWriteIndex' = Plus(sequencedWriteIndex, 1)
    /\ UNCHANGED <<orderedWriteIndex, heapVars, readVars, outputQueue>>

-----------------------------------------------------------------------------
(* The receiver.                                                           *)

(* A copy of message m arrives.                                            *)
Arrives(m) ==
    /\ copies[m] > 0
    /\ copies' = [copies EXCEPT ![m] = @ - 1]
    /\ UNCHANGED senderVars

HasCurrentIndex(m) == log[m].orderingIndex = orderedReadIndex

(* Mutant: the sequencing index is not compared.                           *)
DeliverSequencedAlways(m) ==
    /\ Arrives(m)
    /\ HasCurrentIndex(m) /\ ~IsOrdered(m)
    /\ highestSequencedReadIndex' = Plus(log[m].sequencingIndex, 1)
    /\ outputQueue' = Append(outputQueue, m)
    /\ UNCHANGED <<orderedReadIndex, heapVars>>

(* Sequenced, with the current ordering index, and not below the highest   *)
(* sequencing index: returned to the user.                                 *)
DeliverSequenced(m) ==
    /\ Arrives(m)
    /\ HasCurrentIndex(m) /\ ~IsOrdered(m)
    /\ ~IsOlderOrderedPacket(log[m].sequencingIndex, highestSequencedReadIndex)
    /\ highestSequencedReadIndex' = Plus(log[m].sequencingIndex, 1)
    /\ outputQueue' = Append(outputQueue, m)
    /\ UNCHANGED <<orderedReadIndex, heapVars>>

(* Late: a lower sequencing index, or an older ordering index.             *)
IsLate(m) ==
    IF HasCurrentIndex(m)
    THEN /\ ~IsOrdered(m)
         /\ IsOlderOrderedPacket(log[m].sequencingIndex, highestSequencedReadIndex)
    ELSE IsOlderOrderedPacket(log[m].orderingIndex, orderedReadIndex)

Discard(m) ==
    /\ Arrives(m)
    /\ IsLate(m)
    /\ UNCHANGED <<readVars, heapVars, outputQueue>>

(* "Return off heap until order lost": with the ordering index at index,   *)
(* the loop pops the first k entries, all of which have the index that is  *)
(* current when their turn comes.                                          *)
OrderedAmong(heap, k) == Cardinality({i \in 1 .. k : IsOrdered(heap[i].id)})

IsNextOut(heap, index, i) ==
    log[heap[i].id].orderingIndex = Plus(index, OrderedAmong(heap, i - 1))

(* Mutants: the loop empties the heap; the loop is an if.                  *)
PopCountAll(heap, index) == Len(heap)

PopCountOnce(heap, index) == IF heap # <<>> /\ IsNextOut(heap, index, 1) THEN 1 ELSE 0

PopCount(heap, index) ==
    CHOOSE k \in 0 .. Len(heap) :
        /\ \A i \in 1 .. k : IsNextOut(heap, index, i)
        /\ k < Len(heap) => ~IsNextOut(heap, index, k + 1)

(* The index the loop leaves behind: that of the last sequenced message    *)
(* popped, or index if there was none.  An ordered message that is popped  *)
(* does not reset it.                                                      *)
HighestAfterPop(heap, k, index) ==
    LET sequenced == {i \in 1 .. k : ~IsOrdered(heap[i].id)} IN
    IF sequenced = {} THEN index ELSE log[heap[Max(sequenced)].id].sequencingIndex

(* The ordered message the channel waits for: returned to the user, with   *)
(* everything of the heap that may follow it.                              *)
DeliverOrdered(m) ==
    /\ Arrives(m)
    /\ HasCurrentIndex(m) /\ IsOrdered(m)
    /\ LET index == Plus(orderedReadIndex, 1)
           k     == PopCount(orderingHeap, index)
       IN  /\ orderedReadIndex' = Plus(index, OrderedAmong(orderingHeap, k))
           /\ highestSequencedReadIndex' = HighestAfterPop(orderingHeap, k, 0)
           /\ orderingHeap' = SubSeq(orderingHeap, k + 1, Len(orderingHeap))
           /\ outputQueue' = Append(outputQueue, m) \o [i \in 1 .. k |-> orderingHeap[i].id]
    /\ UNCHANGED heapIndexOffset

(* Mutant: the weight is not relative to heapIndexOffset.                  *)
HeapWeightAbsolute(m, offset) ==
    log[m].orderingIndex * SeqWeight
        + (IF IsOrdered(m) THEN SeqWeight - 1 ELSE log[m].sequencingIndex)

(* The weight of message m, relative to the index the heap started from.   *)
HeapWeight(m, offset) ==
    Minus(log[m].orderingIndex, offset) * SeqWeight
        + (IF IsOrdered(m) THEN SeqWeight - 1 ELSE log[m].sequencingIndex)

(* DS_Heap, a minimum heap, is its entries in the order they are popped.   *)
(* Entries of equal weight are copies of the same message.                 *)
HeapPush(heap, entry) ==
    InsertAt(heap, Cardinality({i \in DOMAIN heap : heap[i].weight <= entry.weight}) + 1, entry)

(* A greater ordering index: buffered.  The offset is set when the heap is *)
(* empty, "to avoid variable overflow".                                    *)
BufferAhead(m) ==
    /\ Arrives(m)
    /\ ~HasCurrentIndex(m)
    /\ ~IsOlderOrderedPacket(log[m].orderingIndex, orderedReadIndex)
    /\ heapIndexOffset' = IF orderingHeap = <<>> THEN orderedReadIndex ELSE heapIndexOffset
    /\ orderingHeap' = HeapPush(orderingHeap, [weight |-> HeapWeight(m, heapIndexOffset'), id |-> m])
    /\ UNCHANGED <<readVars, outputQueue>>

Receive(m) == DeliverSequenced(m) \/ Discard(m) \/ DeliverOrdered(m) \/ BufferAhead(m)

Next ==
    \/ SendOrdered
    \/ \E kind \in Sequenced, n \in 0 .. MaxCopies : SendSequenced(kind, n)
    \/ \E m \in DOMAIN log : Receive(m)

(* ReliableDelivery resends a reliable message until it arrives.           *)
Fairness ==
    \A m \in 1 .. MaxMessages :
        WF_vars(m \in DOMAIN log /\ log[m].kind # "UNRELIABLE_SEQUENCED" /\ Receive(m))

Spec == Init /\ [][Next]_vars /\ Fairness

-----------------------------------------------------------------------------
(* "Sequenced and ordered messages sent on the same channel will arrive in *)
(* the order sent" (PacketPriority.h): nothing is handed over before       *)
(* something that was sent earlier.                                        *)
ArriveInOrderSent ==
    \A i, j \in DOMAIN outputQueue : i < j => outputQueue[i] <= outputQueue[j]

(* An ordered message is never left out or repeated: those handed over are *)
(* in the order sent, each once, and so are all that were sent before them.*)
OrderedWithoutGap ==
    \A i \in DOMAIN outputQueue : IsOrdered(outputQueue[i]) =>
        /\ \A j \in 1 .. i - 1 : outputQueue[j] < outputQueue[i]
        /\ \A m \in 1 .. outputQueue[i] :
              IsOrdered(m) => \E j \in 1 .. i : outputQueue[j] = m

(* A message waits in the heap only for an ordered message that has not    *)
(* arrived: what may be handed over never stays behind in the heap.        *)
NothingStranded ==
    \A i \in DOMAIN orderingHeap :
        \E m \in DOMAIN log :
            /\ m < orderingHeap[i].id
            /\ IsOrdered(m)
            /\ copies[m] > 0

(* Every ordered message is eventually handed over.                        *)
OrderedEventuallyDelivered ==
    \A m \in 1 .. MaxMessages :
        (m \in DOMAIN log /\ IsOrdered(m)) ~> (m \in Range(outputQueue))

(* "Packets in sequence drop older packets" (sendingpackets.html): a       *)
(* sequenced message is discarded only when it, or something sent after    *)
(* it, has been handed over.                                               *)
OnlyOlderDropped ==
    [][\A m \in DOMAIN log :
          Discard(m) => \E i \in DOMAIN outputQueue : outputQueue[i] >= m]_vars

(* No message is handed over twice: the comment "6/26/2012" of             *)
(* HandleSocketReceiveFromConnectedPlayer describes the fix for a          *)
(* duplicated sequenced message "returned to the user".                    *)
NoDuplicateDelivered ==
    \A i, j \in DOMAIN outputQueue : outputQueue[i] = outputQueue[j] => i = j

=============================================================================
