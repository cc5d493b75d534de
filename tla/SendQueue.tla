----------------------------- MODULE SendQueue -----------------------------
(***************************************************************************)
(* The priority queue a message waits in until a datagram has room for it: *)
(* DataStructures::Heap (DS_Heap.h) in its isMaxHeap = false form, used by *)
(* ReliabilityLayer::outgoingPacketBuffer, and the weights that decide the *)
(* order between the four priorities (GetNextWeight).                      *)
(*                                                                         *)
(* A heap is a sequence of nodes [weight, priority, part]; node i has the  *)
(* children 2i and 2i + 1 (positions start at 1 here, at 0 in the code).   *)
(***************************************************************************)
EXTENDS Integers, Sequences

(* IMMEDIATE_PRIORITY .. LOW_PRIORITY (PacketPriority.h).                  *)
Priority == 0 .. 3

Parent(i) == i \div 2

(* Every child is at least as heavy as its parent.                         *)
HeapOrdered(heap) ==
    \A i \in 2 .. Len(heap) : heap[Parent(i)].weight <= heap[i].weight

-----------------------------------------------------------------------------
(* Heap::Push                                                              *)

(* Mutant: a node is compared with its parent only once.                   *)
PushOneStep(heap, node) ==
    LET n == Len(heap) + 1
        h == Append(heap, node)
    IN  IF n > 1 /\ h[Parent(n)].weight > node.weight
        THEN [h EXCEPT ![n] = h[Parent(n)], ![Parent(n)] = node]
        ELSE h

(* The new node starts at the end and changes places with its parent while *)
(* that one is heavier.                                                    *)
Rises(h, node, i) == i > 1 /\ h[Parent(i)].weight > node.weight

(* The positions it is at: the least set with the last one and, wherever   *)
(* the node rises, the parent.                                             *)
RisingClosed(h, node, S) ==
    /\ Len(h) \in S
    /\ \A i \in S : Rises(h, node, i) => Parent(i) \in S

RisingPath(h, node) ==
    {i \in DOMAIN h : \A S \in SUBSET DOMAIN h : RisingClosed(h, node, S) => i \in S}

(* Every node it passes is one level lower after it.                       *)
Push(heap, node) ==
    LET h == Append(heap, node)
    IN  [i \in DOMAIN h |->
            IF i \notin RisingPath(h, node) THEN h[i]
            ELSE IF Rises(h, node, i) THEN h[Parent(i)] ELSE node]

(* Mutant: only the parent is compared before the series goes to the end.  *)
MayAppendSeriesParentOnly(heap, weight) ==
    LET n == Len(heap) + 1 IN n > 1 => weight >= heap[Parent(n)].weight

(* Heap::PushSeries: once a weight is not below those from its parent to   *)
(* the end, it and the rest of the series go to the end unsorted.          *)
MayAppendSeries(heap, weight) ==
    \A i \in 1 .. Len(heap) : i >= Parent(Len(heap) + 1) => weight >= heap[i].weight

-----------------------------------------------------------------------------
(* Heap::Pop                                                               *)

(* The child that takes the place of node i when a node of this weight     *)
(* sinks, or 0 when the node stays: the lighter child, the right one if    *)
(* they are equal.                                                         *)
SinksTo(heap, i, weight) ==
    LET children == {c \in {2 * i, 2 * i + 1} : c <= Len(heap)}
        lighter  == {c \in children : heap[c].weight < weight}
        least    == {c \in lighter : \A d \in children : heap[c].weight <= heap[d].weight}
    IN  IF lighter = {} THEN 0 ELSE CHOOSE c \in least : \A d \in least : d <= c

(* The positions of a node that sinks from the front.                      *)
SinkingClosed(h, weight, S) ==
    /\ 1 \in S
    /\ \A i \in S : SinksTo(h, i, weight) /= 0 => SinksTo(h, i, weight) \in S

SinkingPath(h, weight) ==
    {i \in DOMAIN h : \A S \in SUBSET DOMAIN h : SinkingClosed(h, weight, S) => i \in S}

(* The last node moves to the front and sinks.                             *)
Pop(heap) ==
    LET node == heap[Len(heap)]
        h    == SubSeq(heap, 1, Len(heap) - 1)
    IN  [i \in DOMAIN h |->
            IF i \notin SinkingPath(h, node.weight) THEN h[i]
            ELSE IF SinksTo(h, i, node.weight) = 0 THEN node
            ELSE h[SinksTo(h, i, node.weight)]]

-----------------------------------------------------------------------------
(* GetNextWeight                                                           *)

(* 1 << p.                                                                 *)
Bit(p) == <<1, 2, 4, 8>>[p + 1]

Offset(p) == Bit(p) * p + p
Step(p)   == Bit(p) * (p + 1) + p

(* InitHeapWeights.                                                        *)
InitialWeights == [p \in Priority |-> Offset(p)]

(* The weight of the next message of priority p: no less than what a new   *)
(* message would have got when the head of the queue was pushed.           *)
(* (min is "weight - (1<<peekPL)*peekPL+peekPL", in this order.)           *)
GetNextWeight(heap, weights, p) ==
    IF heap = <<>> THEN weights[p]
    ELSE LET head == Head(heap)
             min  == head.weight - Bit(head.priority) * head.priority + head.priority
         IN  IF weights[p] < min THEN min + Offset(p) ELSE weights[p]

(* outgoingPacketBufferNextWeights after it.                               *)
NextWeights(heap, weights, p) ==
    IF heap = <<>> THEN InitialWeights
    ELSE [weights EXCEPT ![p] = GetNextWeight(heap, weights, p) + Step(p)]

-----------------------------------------------------------------------------
(* Queueing: q is the heap with its weights.                               *)

Enqueued(q, p, part) ==
    LET w == GetNextWeight(q.heap, q.weights, p) IN
    [heap    |-> Push(q.heap, [weight |-> w, priority |-> p, part |-> part]),
     weights |-> NextWeights(q.heap, q.weights, p)]

(* One step of the series of a split message.                              *)
SeriesStep(q, p, part) ==
    LET w       == GetNextWeight(q.heap, q.weights, p)
        node    == [weight |-> w, priority |-> p, part |-> part]
        atEnd   == q.appending \/ MayAppendSeries(q.heap, w)
    IN  [heap      |-> IF atEnd THEN Append(q.heap, node) ELSE Push(q.heap, node),
         weights   |-> NextWeights(q.heap, q.weights, p),
         appending |-> atEnd]

(* The parts of a split message, in order (StartSeries, PushSeries ...):   *)
(* the queue after each of them.                                           *)
SeriesStates(q, p, parts) ==
    LET states[i \in 0 .. Len(parts)] ==
            IF i = 0
            THEN [heap |-> q.heap, weights |-> q.weights, appending |-> FALSE]
            ELSE SeriesStep(states[i - 1], p, parts[i])
    IN  states

EnqueuedSeries(q, p, parts) ==
    LET last == SeriesStates(q, p, parts)[Len(parts)]
    IN  [heap |-> last.heap, weights |-> last.weights]
=============================================================================
