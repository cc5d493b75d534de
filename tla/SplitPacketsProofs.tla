------------------------ MODULE SplitPacketsProofs ------------------------
(***************************************************************************)
(* Proofs about a message from Send to the other user and the receipt back *)
(* (SplitPackets) and about the priority queue it waits in (SendQueue):    *)
(* for every number of messages, of any size (the code's receiver refuses  *)
(* one of more than 100000 parts), every range of splitPacketId and every  *)
(* order of arrival, acknowledgement, culling and timers, the queue is a   *)
(* heap, messages are rebuilt from their own parts and none is left        *)
(* behind, and each gets at most one receipt, a true one.                  *)
(*                                                                         *)
(* First the heap: a node that rises or sinks follows a path, and moving   *)
(* the nodes along a path keeps all of them and their order.  Then the     *)
(* weights, the series of a split message, and the protocol.               *)
(***************************************************************************)
EXTENDS SplitPackets, WellFoundedInduction, FiniteSetTheorems, TLAPS

(* The least element of a non-empty set of naturals.                       *)
LEMMA LeastNat ==
    ASSUME NEW S \in SUBSET Nat, S /= {}
    PROVE  \E k \in S : \A j \in S : k <= j
<1>1. PICK k \in S : \A j \in S : ~(<<j, k>> \in OpToRel(<, Nat))
  BY NatLessThanWellFounded, WFMin
<1>2. \A j \in S : ~(j < k)
  BY <1>1 DEF OpToRel
<1> QED
  BY <1>2

(* A path through the positions 1 .. n: the least set with the first       *)
(* position s that a step f does not leave; f[i] = 0 is the end.           *)
PathClosed(f, s, S) == s \in S /\ \A i \in S : f[i] /= 0 => f[i] \in S

IsPath(f, s, n, P) ==
    /\ P \in SUBSET (1 .. n)
    /\ PathClosed(f, s, P)
    /\ \A S \in SUBSET (1 .. n) : PathClosed(f, s, S) => P \subseteq S

(* Steps lead upwards in rank.                                             *)
Ranked(f, n, rank) ==
    /\ f \in [1 .. n -> 0 .. n]
    /\ rank \in [1 .. n -> -n .. n]
    /\ \A i, j \in 1 .. n : rank[i] = rank[j] => i = j
    /\ \A i \in 1 .. n : f[i] /= 0 => rank[i] < rank[f[i]]

(* A path visits its positions one after the other: no step leads past one *)
(* of them, it comes to one end, and each but the first is reached from    *)
(* exactly one other.                                                      *)
PathShape(f, s, P, e) ==
    /\ e \in P /\ f[e] = 0
    /\ \A i \in P : f[i] = 0 => i = e
    /\ \A i \in P : f[i] /= s
    /\ \A i \in P : i /= s => \E j \in P : f[j] = i
    /\ \A i, j \in P : f[i] /= 0 /\ f[i] = f[j] => i = j

(* A step from a position of the path skips no other in rank.              *)
LEMMA PathIsChain ==
    ASSUME NEW n \in Nat, NEW s \in 1 .. n, NEW f, NEW rank, NEW P,
           Ranked(f, n, rank), IsPath(f, s, n, P)
    PROVE  \A i, j \in P : rank[j] < rank[i] => f[j] /= 0 /\ rank[f[j]] <= rank[i]
<1> DEFINE Good == {i \in P : \A j \in P : rank[j] < rank[i] =>
                                 f[j] /= 0 /\ rank[f[j]] <= rank[i]}
<1>0. /\ P \in SUBSET (1 .. n) /\ s \in P
      /\ \A i \in P : f[i] /= 0 => f[i] \in P
      /\ \A i \in P : rank[i] \in Int /\ (f[i] /= 0 => rank[i] < rank[f[i]] /\ rank[f[i]] \in Int)
  BY DEF IsPath, PathClosed, Ranked
<1>1. \A i \in P : rank[s] <= rank[i]
  <2> DEFINE S == {i \in P : rank[s] <= rank[i]}
  <2>1. PathClosed(f, s, S)
    BY <1>0 DEF PathClosed
  <2>2. S \in SUBSET (1 .. n)
    BY <1>0
  <2> QED
    BY <2>1, <2>2 DEF IsPath
<1>2. s \in Good
  BY <1>0, <1>1
<1>3. ASSUME NEW i \in Good, f[i] /= 0
      PROVE  f[i] \in Good
  <2>1. PICK c \in P : c = f[i]
    BY <1>0, <1>3
  <2> DEFINE S == {k \in P : ~(rank[i] < rank[k] /\ rank[k] < rank[c])}
  <2>2. s \in S
    BY <1>0, <1>1
  <2>3. ASSUME NEW k \in S, f[k] /= 0
        PROVE  f[k] \in S
    <3>1. f[k] \in P /\ rank[k] < rank[f[k]] /\ {rank[k], rank[f[k]], rank[i], rank[c]} \subseteq Int
      BY <1>0, <2>3
    <3>2. CASE rank[k] < rank[i]
      BY <3>1, <3>2, <1>3
    <3>3. CASE rank[k] = rank[i]
      BY <3>1, <3>3, <2>1, <1>0, k = i DEF Ranked
    <3>4. CASE rank[k] > rank[i]
      BY <3>1, <3>4
    <3> QED
      BY <3>1, <3>2, <3>3, <3>4
  <2>4. P \subseteq S
    BY <2>2, <2>3, <1>0 DEF IsPath, PathClosed
  <2>5. ASSUME NEW j \in P, rank[j] < rank[c]
        PROVE  f[j] /= 0 /\ rank[f[j]] <= rank[c]
    <3>1. {rank[j], rank[i], rank[c]} \subseteq Int /\ rank[i] < rank[c]
      BY <1>0, <2>1, <1>3
    <3>2. rank[j] <= rank[i]
      BY <2>4, <2>5, <3>1
    <3>3. CASE rank[j] < rank[i]
      BY <3>1, <3>3, <1>0, <1>3
    <3>4. CASE rank[j] = rank[i]
      <4>1. j = i
        BY <3>4, <1>0 DEF Ranked
      <4> QED
        BY <4>1, <2>1, <1>3, <3>1
    <3> QED
      BY <3>1, <3>2, <3>3, <3>4
  <2> QED
    BY <2>1, <2>5
<1>4. P \subseteq Good
  <2>1. PathClosed(f, s, Good)
    BY <1>2, <1>3 DEF PathClosed
  <2>2. Good \in SUBSET (1 .. n)
    BY <1>0
  <2> QED
    BY <2>1, <2>2 DEF IsPath
<1> QED
  BY <1>4

(* Every path is one chain from its first position to its end.             *)
LEMMA PathHasShape ==
    ASSUME NEW n \in Nat, NEW s \in 1 .. n, NEW f, NEW rank, NEW P,
           Ranked(f, n, rank), IsPath(f, s, n, P)
    PROVE  \E e \in P : PathShape(f, s, P, e)
<1>0. /\ P \in SUBSET (1 .. n) /\ s \in P
      /\ \A i \in P : f[i] /= 0 => f[i] \in P
      /\ \A i \in P : rank[i] \in -n .. n /\ (f[i] /= 0 => rank[i] < rank[f[i]] /\ rank[f[i]] \in Int)
  BY DEF IsPath, PathClosed, Ranked
<1>1. \A i, j \in P : rank[j] < rank[i] => f[j] /= 0 /\ rank[f[j]] <= rank[i]
  BY PathIsChain
<1>2. PICK e \in P : \A i \in P : rank[i] <= rank[e]
  <2> DEFINE S == {n - rank[i] : i \in P}
  <2>1. S \in SUBSET Nat /\ S /= {}
    BY <1>0
  <2>2. PICK k \in S : \A j \in S : k <= j
    BY <2>1, LeastNat
  <2>3. PICK e \in P : k = n - rank[e]
    BY <2>2
  <2>4. \A i \in P : rank[i] <= rank[e]
    <3> SUFFICES ASSUME NEW i \in P PROVE rank[i] <= rank[e]
      OBVIOUS
    <3>1. n - rank[e] <= n - rank[i]
      BY <2>2, <2>3
    <3>2. rank[i] \in Int /\ rank[e] \in Int
      BY <1>0
    <3> QED
      BY <3>1, <3>2
  <2> QED
    BY <2>4
<1>3. f[e] = 0
  <2> SUFFICES ASSUME f[e] /= 0 PROVE FALSE
    OBVIOUS
  <2>1. f[e] \in P /\ rank[e] < rank[f[e]] /\ rank[e] \in Int /\ rank[f[e]] \in Int
    BY <1>0
  <2>2. rank[f[e]] <= rank[e]
    BY <2>1, <1>2
  <2> QED
    BY <2>1, <2>2
<1>4. \A i \in P : f[i] = 0 => i = e
  <2> SUFFICES ASSUME NEW i \in P, f[i] = 0, i /= e PROVE FALSE
    OBVIOUS
  <2>1. rank[i] /= rank[e]
    BY <1>0 DEF Ranked
  <2>2. rank[i] < rank[e]
    BY <2>1, <1>2, <1>0
  <2> QED
    BY <2>2, <1>1
<1>5. \A i \in P : i /= s => \E j \in P : f[j] = i
  <2> SUFFICES ASSUME NEW i \in P, i /= s, \A j \in P : f[j] /= i PROVE FALSE
    OBVIOUS
  <2> DEFINE S == P \ {i}
  <2>1. PathClosed(f, s, S)
    BY <1>0 DEF PathClosed
  <2>2. S \in SUBSET (1 .. n)
    BY <1>0
  <2> QED
    BY <2>1, <2>2 DEF IsPath
<1>6. \A i \in P : f[i] /= s
  <2> DEFINE S == {i \in P : rank[s] <= rank[i]}
  <2>1. PathClosed(f, s, S)
    BY <1>0 DEF PathClosed
  <2>2. S \in SUBSET (1 .. n)
    BY <1>0
  <2>3. P \subseteq S
    BY <2>1, <2>2 DEF IsPath
  <2>4. s /= 0
    OBVIOUS
  <2> QED
    BY <2>3, <2>4, <1>0
<1>7. \A i, j \in P : f[i] /= 0 /\ f[i] = f[j] => i = j
  <2> SUFFICES ASSUME NEW i \in P, NEW j \in P, f[i] /= 0, f[i] = f[j], i /= j PROVE FALSE
    OBVIOUS
  <2>1. rank[i] /= rank[j]
    BY <1>0 DEF Ranked
  <2>2. rank[i] < rank[f[i]] /\ rank[j] < rank[f[j]] /\ {rank[i], rank[j], rank[f[i]]} \subseteq Int
    BY <1>0
  <2>3. CASE rank[i] < rank[j]
    BY <2>2, <2>3, <1>1
  <2>4. CASE rank[j] < rank[i]
    BY <2>2, <2>4, <1>1
  <2> QED
    BY <2>1, <2>2, <2>3, <2>4
<1> QED
  BY <1>2, <1>3, <1>4, <1>5, <1>6, <1>7 DEF PathShape

(* h with the node at s replaced by node, and its nodes in another order.  *)
Rearranged(h, g, n, s, node) ==
    \E src \in [1 .. n -> 1 .. n] :
        /\ \A i, j \in 1 .. n : src[i] = src[j] => i = j
        /\ \A j \in 1 .. n : \E i \in 1 .. n : src[i] = j
        /\ \A i \in 1 .. n : g[i] = IF src[i] = s THEN node ELSE h[src[i]]

(* Every node of a path takes the place of the one before it, and node     *)
(* the last place.                                                         *)
MovedAlong(h, g, f, P, n, node) ==
    \A i \in 1 .. n :
        g[i] = IF i \notin P THEN h[i] ELSE IF f[i] = 0 THEN node ELSE h[f[i]]

(* Moving the nodes along a path loses none and doubles none.              *)
LEMMA MovedIsRearranged ==
    ASSUME NEW n \in Nat, NEW s \in 1 .. n, NEW f, NEW rank, NEW P,
           Ranked(f, n, rank), IsPath(f, s, n, P),
           NEW h, NEW g, NEW node, MovedAlong(h, g, f, P, n, node)
    PROVE  Rearranged(h, g, n, s, node)
<1>0. P \in SUBSET (1 .. n) /\ s \in P /\ f \in [1 .. n -> 0 .. n]
  BY DEF IsPath, PathClosed, Ranked
<1>1. PICK e \in P : PathShape(f, s, P, e)
  BY PathHasShape
<1>2. \A i \in P : f[i] /= 0 => f[i] \in P
  BY DEF IsPath, PathClosed
<1> DEFINE src == [i \in 1 .. n |-> IF i \notin P THEN i ELSE IF f[i] = 0 THEN s ELSE f[i]]
<1>3. src \in [1 .. n -> 1 .. n]
  BY <1>0
<1>4. ASSUME NEW i \in 1 .. n, NEW j \in 1 .. n, src[i] = src[j]
      PROVE  i = j
  <2>1. \A k \in P : src[k] \in P
    BY <1>0, <1>2
  <2>2. \A k \in 1 .. n : k \notin P => src[k] = k
    OBVIOUS
  <2>3. CASE i \notin P \/ j \notin P
    BY <2>1, <2>2, <2>3, <1>4
  <2>4. CASE i \in P /\ j \in P
    <3>1. CASE f[i] = 0 /\ f[j] = 0
      BY <3>1, <2>4, <1>1 DEF PathShape
    <3>2. CASE f[i] /= 0 /\ f[j] /= 0
      BY <3>2, <2>4, <1>1, <1>4 DEF PathShape
    <3>3. CASE f[i] = 0 /\ f[j] /= 0
      BY <3>3, <2>4, <1>1, <1>4 DEF PathShape
    <3>4. CASE f[i] /= 0 /\ f[j] = 0
      BY <3>4, <2>4, <1>1, <1>4 DEF PathShape
    <3> QED
      BY <3>1, <3>2, <3>3, <3>4
  <2> QED
    BY <2>3, <2>4
<1>5. ASSUME NEW j \in 1 .. n
      PROVE  \E i \in 1 .. n : src[i] = j
  <2>1. CASE j \notin P
    BY <2>1
  <2>2. CASE j = s
    BY <2>2, <1>1, <1>0 DEF PathShape
  <2>3. CASE j \in P /\ j /= s
    <3>1. PICK i \in P : f[i] = j
      BY <2>3, <1>1 DEF PathShape
    <3> QED
      BY <3>1, <1>0
  <2> QED
    BY <2>1, <2>2, <2>3
<1>6. ASSUME NEW i \in 1 .. n
      PROVE  g[i] = IF src[i] = s THEN node ELSE h[src[i]]
  <2>1. g[i] = IF i \notin P THEN h[i] ELSE IF f[i] = 0 THEN node ELSE h[f[i]]
    BY DEF MovedAlong
  <2>2. i \in P => f[i] /= s
    BY <1>1 DEF PathShape
  <2> QED
    BY <2>1, <2>2, <1>0
<1> HIDE DEF src
<1> QED
  BY <1>3, <1>4, <1>5, <1>6 DEF Rearranged

-----------------------------------------------------------------------------
(* The queue                                                               *)

(* A node of the queue: parts from a set Q; no weight is less than what    *)
(* the first message of its priority gets, which is why the difference in  *)
(* GetNextWeight does not underflow.                                       *)
HeapNode(Q) == {x \in [weight : Nat, priority : Priority, part : Q] :
                    x.weight >= Offset(x.priority)}

PartsOf(heap) == {heap[i].part : i \in DOMAIN heap}

DistinctParts(heap) == \A i, j \in DOMAIN heap : heap[i].part = heap[j].part => i = j

QueueOK(heap, Q) ==
    /\ heap \in Seq(HeapNode(Q))
    /\ HeapOrdered(heap)
    /\ DistinctParts(heap)

(* The parts of a heap of n nodes.                                         *)
LEMMA PartsOfRange ==
    ASSUME NEW n \in Nat, NEW h, DOMAIN h = 1 .. n, NEW x
    PROVE  x \in PartsOf(h) <=> \E i \in 1 .. n : x = h[i].part
BY DEF PartsOf

NodesFrom(g, h, n) == \A i \in 1 .. n : \E j \in 1 .. n : g[i] = h[j]

(* What is rearranged keeps its parts.                                     *)
LEMMA SameParts ==
    ASSUME NEW n \in Nat, NEW s, NEW h, NEW g, DOMAIN h = 1 .. n, DOMAIN g = 1 .. n,
           Rearranged(h, g, n, s, h[s])
    PROVE  /\ PartsOf(g) = PartsOf(h)
           /\ DistinctParts(h) => DistinctParts(g)
           /\ NodesFrom(g, h, n)
<1>0. PICK src \in [1 .. n -> 1 .. n] :
        /\ \A i, j \in 1 .. n : src[i] = src[j] => i = j
        /\ \A j \in 1 .. n : \E i \in 1 .. n : src[i] = j
        /\ \A i \in 1 .. n : g[i] = IF src[i] = s THEN h[s] ELSE h[src[i]]
  BY DEF Rearranged
<1>1. \A i \in 1 .. n : src[i] \in 1 .. n /\ g[i] = h[src[i]]
  BY <1>0
<1>2. ASSUME NEW x \in PartsOf(g) PROVE x \in PartsOf(h)
  <2>1. PICK i \in 1 .. n : x = g[i].part
    BY PartsOfRange
  <2>2. x = h[src[i]].part
    BY <2>1, <1>1
  <2> QED
    BY <2>2, <1>1, PartsOfRange
<1>3. ASSUME NEW x \in PartsOf(h) PROVE x \in PartsOf(g)
  <2>1. PICK j \in 1 .. n : x = h[j].part
    BY PartsOfRange
  <2>2. PICK i \in 1 .. n : src[i] = j
    BY <1>0
  <2>3. x = g[i].part
    BY <2>1, <2>2, <1>1
  <2> QED
    BY <2>3, PartsOfRange
<1>4. ASSUME DistinctParts(h), NEW i \in 1 .. n, NEW j \in 1 .. n, g[i].part = g[j].part
      PROVE  i = j
  <2>1. h[src[i]].part = h[src[j]].part
    BY <1>4, <1>1
  <2>2. src[i] = src[j]
    BY <2>1, <1>1, <1>4 DEF DistinctParts
  <2> QED
    BY <2>2, <1>0
<1> QED
  BY <1>1, <1>2, <1>3, <1>4 DEF DistinctParts, NodesFrom

(* A parent comes before its child.                                        *)
LEMMA ParentFacts ==
    ASSUME NEW i \in Nat, i > 1
    PROVE  Parent(i) \in Nat /\ 1 <= Parent(i) /\ Parent(i) < i
BY DEF Parent

(* The positions a pushed node is at are a path.                           *)
LEMMA PushPath ==
    ASSUME NEW n \in Nat \ {0}, NEW h, NEW node, DOMAIN h = 1 .. n, Len(h) = n,
           NEW f, f = [i \in 1 .. n |-> IF Rises(h, node, i) THEN Parent(i) ELSE 0]
    PROVE  /\ Ranked(f, n, [i \in 1 .. n |-> -i])
           /\ IsPath(f, n, n, RisingPath(h, node))
<1> DEFINE rank == [i \in 1 .. n |-> -i]
<1>0. \A i \in 1 .. n : Rises(h, node, i) => Parent(i) \in 1 .. n /\ Parent(i) < i /\ Parent(i) /= 0
  BY ParentFacts DEF Rises
<1>1. f \in [1 .. n -> 0 .. n]
  BY <1>0
<1>2. \A i \in 1 .. n : f[i] /= 0 => f[i] \in 1 .. n /\ f[i] < i
  BY <1>0
<1>3. Ranked(f, n, rank)
  BY <1>1, <1>2 DEF Ranked
<1>4. \A S \in SUBSET (1 .. n) : PathClosed(f, n, S) <=> RisingClosed(h, node, S)
  BY <1>0 DEF PathClosed, RisingClosed
<1> DEFINE P == RisingPath(h, node)
<1>5. P \in SUBSET (1 .. n) /\ \A i \in 1 .. n : i \in P <=> \A S \in SUBSET (1 .. n) : RisingClosed(h, node, S) => i \in S
  BY DEF RisingPath
<1> HIDE DEF P
<1>6. PathClosed(f, n, P)
  <2>1. n \in P
    BY <1>5 DEF RisingClosed
  <2>2. ASSUME NEW i \in P, f[i] /= 0
        PROVE  f[i] \in P
    <3>1. f[i] \in 1 .. n
      BY <1>2, <1>5, <2>2
    <3>2. ASSUME NEW S \in SUBSET (1 .. n), RisingClosed(h, node, S)
          PROVE  f[i] \in S
      <4>1. i \in S
        BY <1>5, <3>2
      <4> QED
        BY <4>1, <1>4, <3>2, <2>2 DEF PathClosed
    <3> QED
      BY <3>1, <3>2, <1>5
  <2> QED
    BY <2>1, <2>2 DEF PathClosed
<1>7. \A S \in SUBSET (1 .. n) : PathClosed(f, n, S) => P \subseteq S
  BY <1>4, <1>5
<1>8. IsPath(f, n, n, P)
  BY <1>5, <1>6, <1>7 DEF IsPath
<1> QED
  BY <1>3, <1>8 DEF P

(* Push puts the node among the others and keeps the heap.                 *)
LEMMA PushKeepsQueue ==
    ASSUME NEW Q, NEW heap, QueueOK(heap, Q), NEW node \in HeapNode(Q),
           node.part \notin PartsOf(heap)
    PROVE  /\ QueueOK(Push(heap, node), Q)
           /\ PartsOf(Push(heap, node)) = PartsOf(heap) \cup {node.part}
           /\ Push(heap, node) /= <<>>
<1>0. heap \in Seq(HeapNode(Q)) /\ HeapOrdered(heap) /\ DistinctParts(heap)
  BY DEF QueueOK
<1>1. PICK n \in Nat \ {0} : n = Len(heap) + 1
  BY <1>0
<1>2. PICK h : h = Append(heap, node)
  OBVIOUS
<1>3. /\ h \in Seq(HeapNode(Q)) /\ Len(h) = n /\ DOMAIN h = 1 .. n
      /\ h[n] = node
      /\ \A i \in 1 .. n : i /= n => i \in DOMAIN heap /\ h[i] = heap[i]
      /\ DOMAIN heap = 1 .. (n - 1)
      /\ \A i \in 1 .. n : h[i] \in HeapNode(Q) /\ h[i].weight \in Nat
  <2>1. h \in Seq(HeapNode(Q)) /\ Len(h) = n /\ DOMAIN h = 1 .. n
    BY <1>0, <1>1, <1>2
  <2>2. h[n] = node /\ DOMAIN heap = 1 .. (n - 1)
    BY <1>0, <1>1, <1>2
  <2>3. \A i \in 1 .. n : i /= n => i \in DOMAIN heap /\ h[i] = heap[i]
    BY <1>0, <1>1, <1>2
  <2>4. \A i \in 1 .. n : h[i] \in HeapNode(Q)
    BY <2>1
  <2> QED
    BY <2>1, <2>2, <2>3, <2>4 DEF HeapNode
<1>4. PICK f : f = [i \in 1 .. n |-> IF Rises(h, node, i) THEN Parent(i) ELSE 0]
  OBVIOUS
<1>5. PICK P : P = RisingPath(h, node)
  OBVIOUS
<1>6. PICK g : g = Push(heap, node)
  OBVIOUS
<1>7. g = [i \in 1 .. n |-> IF i \notin P THEN h[i]
                            ELSE IF Rises(h, node, i) THEN h[Parent(i)] ELSE node]
  BY <1>2, <1>3, <1>5, <1>6 DEF Push
<1>8. PICK rank : Ranked(f, n, rank) /\ IsPath(f, n, n, P)
  <2>1. DOMAIN h = 1 .. n /\ Len(h) = n
    BY <1>3
  <2>2. Ranked(f, n, [i \in 1 .. n |-> -i]) /\ IsPath(f, n, n, P)
    BY <2>1, <1>4, <1>5, PushPath
  <2> QED
    BY <2>2
<1>9. \A i \in 1 .. n : (f[i] = 0 <=> ~Rises(h, node, i)) /\ (f[i] /= 0 => f[i] = Parent(i))
  BY <1>4, ParentFacts DEF Rises
<1>10. MovedAlong(h, g, f, P, n, node)
  BY <1>7, <1>9 DEF MovedAlong
<1>11. Rearranged(h, g, n, n, h[n]) /\ DOMAIN g = 1 .. n /\ n \in Nat
  <2>1. Rearranged(h, g, n, n, node)
    BY <1>8, <1>10, MovedIsRearranged
  <2> QED
    BY <2>1, <1>3, <1>7
<1>18. /\ PartsOf(g) = PartsOf(h)
       /\ DistinctParts(h) => DistinctParts(g)
       /\ NodesFrom(g, h, n)
  <2>1. DOMAIN h = 1 .. n
    BY <1>3
  <2> QED
    BY <1>11, <2>1, SameParts
<1>12. DOMAIN g = 1 .. n /\ \A i \in 1 .. n : g[i] \in HeapNode(Q)
  BY <1>18, <1>11, <1>3 DEF NodesFrom
<1>13. g \in Seq(HeapNode(Q)) /\ Len(g) = n
  <2>1. g \in [1 .. n -> HeapNode(Q)]
    BY <1>7, <1>12
  <2> QED
    BY <2>1
<1>14. PartsOf(g) = PartsOf(heap) \cup {node.part}
  <2>1. ASSUME NEW x PROVE x \in PartsOf(h) <=> x \in PartsOf(heap) \/ x = node.part
    <3>1. x \in PartsOf(h) <=> \E i \in 1 .. n : x = h[i].part
      BY PartsOfRange, <1>3
    <3>2. x \in PartsOf(heap) <=> \E i \in 1 .. (n - 1) : x = heap[i].part
      BY PartsOfRange, <1>3
    <3>3. \A i \in 1 .. n : i = n \/ i \in 1 .. (n - 1)
      OBVIOUS
    <3>4. n \in 1 .. n /\ \A i \in 1 .. (n - 1) : i \in 1 .. n /\ i /= n
      OBVIOUS
    <3> QED
      BY <3>1, <3>2, <3>3, <3>4, <1>3
  <2> QED
    BY <2>1, <1>18
<1>15. DistinctParts(g)
  <2>1. \A i, j \in 1 .. n : h[i].part = h[j].part => i = j
    <3> SUFFICES ASSUME NEW i \in 1 .. n, NEW j \in 1 .. n, h[i].part = h[j].part, i /= j PROVE FALSE
      OBVIOUS
    <3>1. \A k \in 1 .. n : k /= n => h[k].part /= node.part
      BY <1>3 DEF PartsOf
    <3>2. i /= n /\ j /= n
      BY <3>1, <1>3
    <3> QED
      BY <3>2, <1>0, <1>3 DEF DistinctParts
  <2>2. DistinctParts(h)
    BY <2>1, <1>3 DEF DistinctParts
  <2> QED
    BY <2>2, <1>18
<1>16. HeapOrdered(g)
  <2>1. PICK w \in Nat : w = node.weight
    BY DEF HeapNode
  <2>2. \A j \in 1 .. n : j > 1 /\ j /= n => h[Parent(j)].weight <= h[j].weight
    <3> SUFFICES ASSUME NEW j \in 1 .. n, j > 1, j /= n PROVE h[Parent(j)].weight <= h[j].weight
      OBVIOUS
    <3>1. Parent(j) \in 1 .. n /\ Parent(j) /= n
      BY ParentFacts
    <3>2. j \in 2 .. Len(heap)
      BY <1>1
    <3> QED
      BY <3>1, <3>2, <1>0, <1>3 DEF HeapOrdered
  <2>3. n \in P /\ \A i \in P : f[i] /= 0 => f[i] \in P
    BY <1>8 DEF IsPath, PathClosed
  <2>4. \A i \in P : i /= n => h[i].weight > w
    <3> SUFFICES ASSUME NEW i \in P, i /= n PROVE h[i].weight > w
      OBVIOUS
    <3>1. PICK c \in P : f[c] = i
      BY <1>8, PathHasShape DEF PathShape
    <3>2. c \in 1 .. n /\ i \in 1 .. n
      BY <1>8 DEF IsPath
    <3>3. Rises(h, node, c) /\ i = Parent(c)
      BY <3>1, <3>2, <1>9
    <3> QED
      BY <3>3, <2>1 DEF Rises
  <2>5. ASSUME NEW j \in 2 .. n
        PROVE  g[Parent(j)].weight <= g[j].weight
    <3>1. PICK p \in 1 .. n : p = Parent(j) /\ p < j
      BY ParentFacts
    <3>2. j \in 1 .. n /\ j > 1 /\ p /= n
      BY <3>1
    <3>0. p \notin P => g[p] = h[p]
      BY <1>7
    <3>3. /\ p \in P => (g[p] = node \/ (p > 1 /\ g[p] = h[Parent(p)]))
          /\ j \notin P => g[j] = h[j]
          /\ j \in P /\ Rises(h, node, j) => g[j] = h[p]
          /\ j \in P /\ ~Rises(h, node, j) => g[j] = node
      BY <1>7, <3>1, <3>2 DEF Rises
    <3>4. p \in P => g[p].weight <= h[p].weight
      <4>1. CASE p \in P /\ g[p] = node
        BY <4>1, <2>4, <2>1, <3>2, <1>3
      <4>2. CASE p > 1 /\ g[p] = h[Parent(p)]
        BY <4>2, <2>2, <3>2
      <4> QED
        BY <4>1, <4>2, <3>3
    <3>5. g[p].weight <= h[p].weight
      <4>1. h[p].weight \in Nat
        BY <1>3
      <4>2. CASE p \notin P
        BY <3>0, <4>1, <4>2
      <4> QED
        BY <3>4, <4>2
    <3>6. CASE j \notin P
      <4>1. h[p].weight <= h[j].weight
        BY <2>2, <2>3, <3>2, <3>6, <3>1
      <4>2. g[p].weight \in Nat /\ h[p].weight \in Nat /\ h[j].weight \in Nat
        BY <1>12, <1>3, <3>2 DEF HeapNode
      <4>3. g[j] = h[j]
        BY <1>7, <3>2, <3>6
      <4> QED
        BY <4>1, <4>2, <3>5, <3>6, <3>1, <4>3
    <3>7. CASE j \in P /\ Rises(h, node, j)
      BY <3>7, <3>5, <3>3, <3>1
    <3>8. CASE j \in P /\ ~Rises(h, node, j)
      <4>1. h[p].weight <= w
        BY <3>8, <3>1, <3>2, <2>1, <1>3 DEF Rises
      <4>2. p \notin P
        BY <4>1, <2>4, <2>1, <3>2, <1>3
      <4> QED
        BY <4>1, <4>2, <3>0, <3>3, <3>8, <2>1, <3>1
    <3> QED
      BY <3>6, <3>7, <3>8
  <2> QED
    BY <2>5, <1>13 DEF HeapOrdered
<1>17. g /= <<>>
  BY <1>13
<1> QED
  BY <1>6, <1>13, <1>14, <1>15, <1>16, <1>17 DEF QueueOK

(* Pop takes the head out and keeps the heap.                              *)
LEMMA SinksToFacts ==
    ASSUME NEW n \in Nat, NEW h, Len(h) = n, NEW w \in Nat,
           \A c \in 1 .. n : h[c].weight \in Nat, NEW i \in 1 .. n
    PROVE  /\ SinksTo(h, i, w) = 0 =>
                 \A c \in 1 .. n : Parent(c) = i => w <= h[c].weight
           /\ SinksTo(h, i, w) /= 0 =>
                 /\ SinksTo(h, i, w) \in 1 .. n
                 /\ SinksTo(h, i, w) > i
                 /\ Parent(SinksTo(h, i, w)) = i
                 /\ h[SinksTo(h, i, w)].weight < w
                 /\ \A c \in 1 .. n : Parent(c) = i => h[SinksTo(h, i, w)].weight <= h[c].weight
<1> DEFINE children == {c \in {2 * i, 2 * i + 1} : c <= n}
           lighter  == {c \in children : h[c].weight < w}
           least    == {c \in lighter : \A d \in children : h[c].weight <= h[d].weight}
<1>1. \A c \in 1 .. n : c \in children <=> Parent(c) = i
  BY DEF Parent
<1>2. children \subseteq 1 .. n /\ \A c \in children : c > i
  OBVIOUS
<1>3. SinksTo(h, i, w) = IF lighter = {} THEN 0 ELSE CHOOSE c \in least : \A d \in least : d <= c
  BY DEF SinksTo
<1>4. CASE lighter = {}
  <2>1. SinksTo(h, i, w) = 0
    BY <1>3, <1>4
  <2>2. \A c \in children : w <= h[c].weight
    <3> SUFFICES ASSUME NEW c \in children PROVE w <= h[c].weight
      OBVIOUS
    <3>1. h[c].weight \in Nat
      BY <1>2
    <3>2. ~(h[c].weight < w)
      BY <1>4
    <3> QED
      BY <3>1, <3>2
  <2> QED
    BY <2>1, <2>2, <1>1
<1>5. CASE lighter /= {}
  <2>1. PICK a \in lighter : TRUE
    BY <1>5
  <2>2. \E c \in least : \A d \in least : d <= c
    <3>1. ASSUME children = {2 * i}
          PROVE  \E c \in least : \A d \in least : d <= c
      <4>1. a = 2 * i /\ \A d \in least : d = 2 * i
        BY <2>1, <3>1
      <4>2. h[2 * i].weight \in Nat
        BY <3>1, <1>2
      <4>3. 2 * i \in least
        <5>1. 2 * i \in lighter
          BY <4>1, <2>1
        <5>2. \A d \in children : h[2 * i].weight <= h[d].weight
          <6> HIDE DEF children
          <6>1. \A d \in children : d = 2 * i
            BY <3>1
          <6> QED
            BY <6>1, <4>2
        <5> HIDE DEF lighter, children
        <5> QED
          BY <5>1, <5>2
      <4> HIDE DEF least
      <4> QED
        BY <4>1, <4>3
    <3>2. ASSUME 2 * i \in children, 2 * i + 1 \in children
          PROVE  \E c \in least : \A d \in least : d <= c
      <4>0. h[2 * i].weight \in Nat /\ h[2 * i + 1].weight \in Nat
        BY <3>2, <1>2
      <4>1. CASE h[2 * i + 1].weight <= h[2 * i].weight
        <5>1. 2 * i + 1 \in lighter
          BY <4>1, <4>0, <3>2, <2>1
        <5>2. \A d \in children : h[2 * i + 1].weight <= h[d].weight
          <6>1. \A d \in children : d = 2 * i \/ d = 2 * i + 1
            OBVIOUS
          <6> HIDE DEF children
          <6> QED
            BY <6>1, <4>1, <4>0, SMTT(30)
        <5>3. 2 * i + 1 \in least
          BY <5>1, <5>2
        <5>4. \A d \in least : d <= 2 * i + 1
          OBVIOUS
        <5> HIDE DEF least
        <5> QED
          BY <5>3, <5>4
      <4>2. CASE h[2 * i].weight < h[2 * i + 1].weight
        <5>1. 2 * i \in lighter
          BY <4>2, <4>0, <3>2, <2>1
        <5>2. \A d \in children : h[2 * i].weight <= h[d].weight
          <6>1. \A d \in children : d = 2 * i \/ d = 2 * i + 1
            OBVIOUS
          <6> HIDE DEF children
          <6> QED
            BY <6>1, <4>2, <4>0, SMTT(30)
        <5>3. 2 * i \in least
          BY <5>1, <5>2
        <5>4. 2 * i + 1 \notin least
          BY <4>2, <4>0, <3>2
        <5>5. \A d \in least : d <= 2 * i
          <6>1. \A d \in least : d = 2 * i \/ d = 2 * i + 1
            OBVIOUS
          <6> HIDE DEF least
          <6> QED
            BY <6>1, <5>4
        <5> HIDE DEF least
        <5> QED
          BY <5>3, <5>5
      <4>3. \/ h[2 * i + 1].weight <= h[2 * i].weight
            \/ h[2 * i].weight < h[2 * i + 1].weight
        BY <4>0
      <4> HIDE DEF least
      <4> QED
        BY <4>1, <4>2, <4>3
    <3>3. 2 * i \in children
      BY <2>1
    <3> QED
      BY <3>1, <3>2, <3>3
  <2>3. PICK s : s = SinksTo(h, i, w)
    OBVIOUS
  <2>4. s \in least
    BY <2>2, <2>3, <1>3, <1>5
  <2>5. s \in children /\ h[s].weight < w /\ \A d \in children : h[s].weight <= h[d].weight
    BY <2>4
  <2>6. s \in 1 .. n /\ s > i /\ Parent(s) = i /\ s /= 0
    BY <2>5, <1>1, <1>2
  <2> QED
    BY <2>3, <2>5, <2>6, <1>1
<1> QED
  BY <1>4, <1>5

(* The positions a node sinks through are a path.                          *)
LEMMA PopPath ==
    ASSUME NEW n \in Nat \ {0}, NEW h, NEW w \in Nat, DOMAIN h = 1 .. n, Len(h) = n,
           \A c \in 1 .. n : h[c].weight \in Nat,
           NEW f, f = [i \in 1 .. n |-> SinksTo(h, i, w)]
    PROVE  /\ Ranked(f, n, [i \in 1 .. n |-> i])
           /\ IsPath(f, 1, n, SinkingPath(h, w))
<1> DEFINE rank == [i \in 1 .. n |-> i]
<1>1. \A i \in 1 .. n : f[i] = SinksTo(h, i, w) /\ (f[i] /= 0 => f[i] \in 1 .. n /\ f[i] > i)
  <2> SUFFICES ASSUME NEW i \in 1 .. n
               PROVE  f[i] = SinksTo(h, i, w) /\ (f[i] /= 0 => f[i] \in 1 .. n /\ f[i] > i)
    OBVIOUS
  <2>1. f[i] = SinksTo(h, i, w)
    OBVIOUS
  <2>2. SinksTo(h, i, w) /= 0 => SinksTo(h, i, w) \in 1 .. n /\ SinksTo(h, i, w) > i
    BY SinksToFacts
  <2> QED
    BY <2>1, <2>2
<1>2. f \in [1 .. n -> 0 .. n]
  <2>1. \A i \in 1 .. n : f[i] \in 0 .. n
    BY <1>1
  <2> QED
    BY <2>1
<1>3. Ranked(f, n, rank)
  BY <1>1, <1>2 DEF Ranked
<1>4. \A S \in SUBSET (1 .. n) : PathClosed(f, 1, S) <=> SinkingClosed(h, w, S)
  BY <1>1 DEF PathClosed, SinkingClosed
<1> DEFINE P == SinkingPath(h, w)
<1>5. P \in SUBSET (1 .. n) /\ \A i \in 1 .. n : i \in P <=> \A S \in SUBSET (1 .. n) : SinkingClosed(h, w, S) => i \in S
  BY DEF SinkingPath
<1> HIDE DEF P
<1>6. PathClosed(f, 1, P)
  <2>1. 1 \in P
    BY <1>5 DEF SinkingClosed
  <2>2. ASSUME NEW i \in P, f[i] /= 0
        PROVE  f[i] \in P
    <3>1. f[i] \in 1 .. n
      BY <1>1, <1>5, <2>2
    <3>2. ASSUME NEW S \in SUBSET (1 .. n), SinkingClosed(h, w, S)
          PROVE  f[i] \in S
      <4>1. i \in S
        BY <1>5, <3>2
      <4> QED
        BY <4>1, <1>4, <3>2, <2>2 DEF PathClosed
    <3> QED
      BY <3>1, <3>2, <1>5
  <2> QED
    BY <2>1, <2>2 DEF PathClosed
<1>7. \A S \in SUBSET (1 .. n) : PathClosed(f, 1, S) => P \subseteq S
  BY <1>4, <1>5
<1>8. IsPath(f, 1, n, P)
  BY <1>5, <1>6, <1>7 DEF IsPath
<1> QED
  BY <1>3, <1>8 DEF P

(* Heap::Pop takes the head and leaves a heap of all the others.           *)
LEMMA PopKeepsQueue ==
    ASSUME NEW Q, NEW heap, QueueOK(heap, Q), heap /= <<>>
    PROVE  /\ QueueOK(Pop(heap), Q)
           /\ PartsOf(Pop(heap)) = PartsOf(heap) \ {Head(heap).part}
           /\ Head(heap).part \in PartsOf(heap)
<1>0. heap \in Seq(HeapNode(Q)) /\ HeapOrdered(heap) /\ DistinctParts(heap)
  BY DEF QueueOK
<1>1. PICK n \in Nat : n = Len(heap) - 1
  BY <1>0
<1>2. PICK h : h = SubSeq(heap, 1, n)
  OBVIOUS
<1>3. PICK node : node = heap[n + 1]
  OBVIOUS
<1>4. /\ h \in Seq(HeapNode(Q)) /\ Len(h) = n /\ DOMAIN h = 1 .. n
      /\ DOMAIN heap = 1 .. (n + 1)
      /\ \A i \in 1 .. n : h[i] = heap[i] /\ h[i] \in HeapNode(Q)
      /\ Head(heap) = heap[1]
      /\ node \in HeapNode(Q)
  BY <1>0, <1>1, <1>2, <1>3
<1>5. PICK w \in Nat : w = node.weight
  BY <1>4 DEF HeapNode
<1>6. \A i \in 1 .. n : h[i].weight \in Nat
  BY <1>4 DEF HeapNode
<1>7. PICK g : g = Pop(heap)
  OBVIOUS
<1>8. g = [i \in 1 .. n |-> IF i \notin SinkingPath(h, w) THEN h[i]
                            ELSE IF SinksTo(h, i, w) = 0 THEN node ELSE h[SinksTo(h, i, w)]]
  <2>1. n = Len(heap) - 1 /\ n + 1 = Len(heap)
    BY <1>1, <1>0
  <2> QED
    BY <2>1, <1>2, <1>3, <1>4, <1>5, <1>7 DEF Pop
<1>9. DOMAIN g = 1 .. n
  BY <1>8
<1>10. Head(heap).part \in PartsOf(heap)
  BY <1>4 DEF PartsOf
<1>11. CASE n = 0
  <2>1. g = <<>>
    BY <1>8, <1>11
  <2>2. QueueOK(g, Q)
    BY <2>1 DEF QueueOK, HeapOrdered, DistinctParts
  <2>3. PartsOf(g) = {} /\ PartsOf(heap) = {Head(heap).part}
    BY <2>1, <1>4, <1>11 DEF PartsOf
  <2> QED
    BY <2>2, <2>3, <1>10, <1>7
<1>12. CASE n /= 0
  <2>1. PICK f : f = [i \in 1 .. n |-> SinksTo(h, i, w)]
    OBVIOUS
  <2>2. PICK P : P = SinkingPath(h, w)
    OBVIOUS
  <2>3. PICK rank : Ranked(f, n, rank) /\ IsPath(f, 1, n, P)
    <3>1. DOMAIN h = 1 .. n /\ Len(h) = n /\ n \in Nat \ {0}
      BY <1>4, <1>12
    <3>2. Ranked(f, n, [i \in 1 .. n |-> i]) /\ IsPath(f, 1, n, P)
      BY <3>1, <2>1, <2>2, <1>6, PopPath
    <3> QED
      BY <3>2
  <2>4. MovedAlong(h, g, f, P, n, node)
    BY <2>1, <2>2, <1>8 DEF MovedAlong
  <2>5. Rearranged(h, g, n, 1, node)
    BY <2>3, <2>4, <1>12, MovedIsRearranged
  <2>6. PICK h1 : h1 = [h EXCEPT ![1] = node]
    OBVIOUS
  <2>7. /\ DOMAIN h1 = 1 .. n /\ h1[1] = node
        /\ \A i \in 1 .. n : i /= 1 => h1[i] = heap[i]
        /\ \A i \in 1 .. n : h1[i] \in HeapNode(Q)
    BY <2>6, <1>4, <1>12
  <2>8. Rearranged(h1, g, n, 1, h1[1])
    <3>1. PICK src \in [1 .. n -> 1 .. n] :
        /\ \A i, j \in 1 .. n : src[i] = src[j] => i = j
        /\ \A j \in 1 .. n : \E i \in 1 .. n : src[i] = j
        /\ \A i \in 1 .. n : g[i] = IF src[i] = 1 THEN node ELSE h[src[i]]
      BY <2>5 DEF Rearranged
    <3>2. \A i \in 1 .. n : g[i] = IF src[i] = 1 THEN h1[1] ELSE h1[src[i]]
      <4> SUFFICES ASSUME NEW i \in 1 .. n
                   PROVE  g[i] = IF src[i] = 1 THEN h1[1] ELSE h1[src[i]]
        OBVIOUS
      <4>1. PICK k \in 1 .. n : k = src[i]
        BY <3>1
      <4>2. g[i] = IF k = 1 THEN node ELSE h[k]
        BY <3>1, <4>1
      <4>3. k /= 1 => h[k] = h1[k]
        BY <2>7, <1>4
      <4> QED
        BY <4>1, <4>2, <4>3, <2>7
    <3> QED
      BY <3>1, <3>2 DEF Rearranged
  <2>9. /\ PartsOf(g) = PartsOf(h1)
        /\ DistinctParts(h1) => DistinctParts(g)
        /\ NodesFrom(g, h1, n)
    BY <2>7, <2>8, <1>9, SameParts
  <2>10. g \in Seq(HeapNode(Q)) /\ Len(g) = n
    <3>1. \A i \in 1 .. n : g[i] \in HeapNode(Q)
      BY <2>9, <2>7 DEF NodesFrom
    <3>2. g \in [1 .. n -> HeapNode(Q)]
      BY <3>1, <1>8
    <3> QED
      BY <3>2
  <2>11. /\ \A i \in 1 .. n : \E j \in 2 .. (n + 1) : h1[i] = heap[j]
         /\ \A j \in 2 .. (n + 1) : \E i \in 1 .. n : h1[i] = heap[j]
    <3>1. \A j \in 2 .. n : h1[j] = heap[j] /\ j \in 1 .. n
      BY <2>7
    <3>2. h1[1] = heap[n + 1] /\ 1 \in 1 .. n /\ n + 1 \in 2 .. (n + 1)
      BY <2>7, <1>3, <1>12
    <3>3. \A j \in 2 .. (n + 1) : j = n + 1 \/ j \in 2 .. n
      OBVIOUS
    <3>4. \A i \in 1 .. n : i = 1 \/ (i \in 2 .. n /\ i \in 2 .. (n + 1))
      OBVIOUS
    <3> QED
      BY <3>1, <3>2, <3>3, <3>4
  <2>12. PartsOf(g) = PartsOf(heap) \ {Head(heap).part}
    <3>1. ASSUME NEW x
          PROVE  x \in PartsOf(h1) <=> x \in PartsOf(heap) /\ x /= heap[1].part
      <4>1. x \in PartsOf(h1) <=> \E i \in 1 .. n : x = h1[i].part
        BY PartsOfRange, <2>7
      <4>2. x \in PartsOf(heap) <=> \E i \in 1 .. (n + 1) : x = heap[i].part
        BY PartsOfRange, <1>4
      <4>3. x \in PartsOf(h1) <=> \E j \in 2 .. (n + 1) : x = heap[j].part
        BY <4>1, <2>11
      <4>4. \A j \in 2 .. (n + 1) : heap[j].part /= heap[1].part /\ j \in 1 .. (n + 1)
        BY <1>0, <1>4 DEF DistinctParts
      <4>5. \A j \in 1 .. (n + 1) : j = 1 \/ j \in 2 .. (n + 1)
        OBVIOUS
      <4> QED
        BY <4>2, <4>3, <4>4, <4>5
    <3> QED
      BY <3>1, <2>9, <1>4
  <2>13. DistinctParts(g)
    <3>1. \A i, j \in 1 .. n : h1[i].part = h1[j].part => i = j
      <4> SUFFICES ASSUME NEW i \in 1 .. n, NEW j \in 1 .. n, h1[i].part = h1[j].part
                   PROVE  i = j
        OBVIOUS
      <4>1. \A k \in 1 .. n : h1[k] = heap[IF k = 1 THEN n + 1 ELSE k]
        BY <2>7, <1>3
      <4>2. (IF i = 1 THEN n + 1 ELSE i) = (IF j = 1 THEN n + 1 ELSE j)
        <5>1. PICK a \in 1 .. (n + 1) : a = IF i = 1 THEN n + 1 ELSE i
          OBVIOUS
        <5>2. PICK b \in 1 .. (n + 1) : b = IF j = 1 THEN n + 1 ELSE j
          OBVIOUS
        <5>3. heap[a].part = heap[b].part
          BY <4>1, <5>1, <5>2
        <5> QED
          BY <5>1, <5>2, <5>3, <1>0, <1>4 DEF DistinctParts
      <4> QED
        BY <4>2
    <3> QED
      BY <3>1, <2>7, <2>9 DEF DistinctParts
  <2>14. HeapOrdered(g)
    <3>1. ASSUME NEW j \in 2 .. n
          PROVE  g[Parent(j)].weight <= g[j].weight
      <4>1. PICK p \in 1 .. n : p = Parent(j)
        BY ParentFacts
      <4>2. j \in 1 .. n /\ j /= 1
        OBVIOUS
      <4>3. h[p].weight <= h[j].weight
        BY <4>1, <4>2, <1>0, <1>1, <1>4 DEF HeapOrdered
      <4>4. \A i \in 1 .. n : g[i] = IF i \notin P THEN h[i] ELSE IF f[i] = 0 THEN node ELSE h[f[i]]
        BY <2>4 DEF MovedAlong
      <4>5. /\ f[p] = 0 => w <= h[j].weight
            /\ f[p] /= 0 => h[f[p]].weight <= h[j].weight
        <5>1. f[p] = SinksTo(h, p, w)
          BY <2>1
        <5>2. SinksTo(h, p, w) = 0 => w <= h[j].weight
          BY <4>1, <4>2, <1>4, <1>6, SinksToFacts
        <5>3. SinksTo(h, p, w) /= 0 => h[SinksTo(h, p, w)].weight <= h[j].weight
          BY <4>1, <4>2, <1>4, <1>6, SinksToFacts
        <5> QED
          BY <5>1, <5>2, <5>3
      <4>6. CASE j \notin P
        <5>1. g[j] = h[j]
          BY <4>4, <4>6
        <5>2. g[p] = h[p] \/ (f[p] = 0 /\ g[p] = node) \/ (f[p] /= 0 /\ g[p] = h[f[p]])
          BY <4>4
        <5> QED
          BY <5>1, <5>2, <4>1, <4>3, <4>5, <1>5
      <4>7. CASE j \in P
        <5>1. PICK c \in P : f[c] = j
          <6>1. 1 \in 1 .. n
            BY <1>12
          <6>2. \E e \in P : PathShape(f, 1, P, e)
            BY <6>1, <2>3, PathHasShape
          <6> QED
            BY <6>2, <4>7, <4>2 DEF PathShape
        <5>2. c \in 1 .. n /\ f[c] /= 0
          BY <5>1, <2>3 DEF IsPath
        <5>3. Parent(j) = c /\ h[j].weight < w
          BY <5>1, <5>2, <2>1, <1>4, <1>6, SinksToFacts
        <5>4. c = p /\ g[p] = h[j]
          BY <5>1, <5>2, <5>3, <4>1, <4>4
        <5>5. CASE f[j] = 0
          BY <5>5, <5>4, <5>3, <4>1, <4>4, <4>7, <1>5, <1>6
        <5>6. CASE f[j] /= 0
          <6>1. PICK d \in 1 .. n : d = f[j] /\ Parent(d) = j /\ d > j
            <7>1. f[j] = SinksTo(h, j, w) /\ SinksTo(h, j, w) /= 0
              BY <5>6, <2>1
            <7>2. /\ SinksTo(h, j, w) \in 1 .. n
                  /\ Parent(SinksTo(h, j, w)) = j
                  /\ SinksTo(h, j, w) > j
              BY <7>1, <1>4, <1>6, SinksToFacts
            <7> QED
              BY <7>1, <7>2
          <6>2. h[j].weight <= h[d].weight
            <7>1. d \in 2 .. Len(heap)
              BY <6>1, <1>1
            <7>2. heap[Parent(d)].weight <= heap[d].weight
              BY <7>1, <1>0 DEF HeapOrdered
            <7> QED
              BY <7>2, <6>1, <1>4
          <6>3. g[j] = h[d]
            BY <6>1, <5>6, <4>4, <4>7
          <6> QED
            BY <6>2, <6>3, <5>4, <4>1
        <5> QED
          BY <5>5, <5>6
      <4> QED
        BY <4>6, <4>7
    <3> QED
      BY <3>1, <2>10 DEF HeapOrdered
  <2> QED
    BY <2>10, <2>12, <2>13, <2>14, <1>7, <1>10 DEF QueueOK
<1> QED
  BY <1>11, <1>12

-----------------------------------------------------------------------------
(* The weights                                                             *)

(* 1 << p for the four priorities.                                         *)
LEMMA BitFacts ==
    ASSUME NEW p \in Priority
    PROVE  /\ Bit(p) * p \in Nat
           /\ Offset(p) = Bit(p) * p + p
           /\ Offset(p) \in Nat /\ Step(p) \in Nat
           /\ Offset(p) < Step(p)
<1>1. p = 0 \/ p = 1 \/ p = 2 \/ p = 3
  BY DEF Priority
<1>2. Bit(0) = 1 /\ Bit(1) = 2 /\ Bit(2) = 4 /\ Bit(3) = 8
  BY DEF Bit
<1>3. CASE p = 0
  BY <1>2, <1>3 DEF Offset, Step
<1>4. CASE p = 1
  BY <1>2, <1>4 DEF Offset, Step
<1>5. CASE p = 2
  BY <1>2, <1>5 DEF Offset, Step
<1>6. CASE p = 3
  BY <1>2, <1>6 DEF Offset, Step
<1> QED
  BY <1>1, <1>3, <1>4, <1>5, <1>6

(* outgoingPacketBufferNextWeights are those of InitHeapWeights or at      *)
(* least one step above.                                                   *)
WeightsOK(weights) ==
    /\ weights \in [Priority -> Nat]
    /\ \A p \in Priority : weights[p] = Offset(p) \/ weights[p] >= Offset(p) + Step(p)

(* GetNextWeight in terms of the head.                                     *)
LEMMA NextWeightFacts ==
    ASSUME NEW Q, NEW heap \in Seq(HeapNode(Q)), NEW weights, WeightsOK(weights),
           NEW p \in Priority
    PROVE  /\ GetNextWeight(heap, weights, p) \in Nat
           /\ GetNextWeight(heap, weights, p) >= weights[p]
           /\ GetNextWeight(heap, weights, p) >= Offset(p)
           /\ WeightsOK(NextWeights(heap, weights, p))
<1>0. weights[p] \in Nat /\ weights[p] >= Offset(p) /\ Offset(p) \in Nat /\ Step(p) \in Nat
  <2>1. Offset(p) \in Nat /\ Step(p) \in Nat
    BY BitFacts
  <2> QED
    BY <2>1 DEF WeightsOK
<1>1. PICK w : w = GetNextWeight(heap, weights, p)
  OBVIOUS
<1>2. CASE heap = <<>>
  <2>1. w = weights[p] /\ NextWeights(heap, weights, p) = InitialWeights
    BY <1>1, <1>2 DEF GetNextWeight, NextWeights
  <2>2. WeightsOK(InitialWeights)
    BY BitFacts DEF InitialWeights, WeightsOK
  <2> QED
    BY <2>1, <2>2, <1>0, <1>1
<1>3. CASE heap /= <<>>
  <2>1. PICK head \in HeapNode(Q) : head = Head(heap)
    BY <1>3
  <2>2. PICK a \in Nat : a = head.weight
    BY <2>1 DEF HeapNode
  <2>3. PICK pp \in Priority : pp = head.priority
    BY <2>1 DEF HeapNode
  <2>4. PICK b \in Nat : b = Bit(pp) * pp
    BY BitFacts
  <2>5. PICK min \in Int : min = a - b + pp
    BY DEF Priority
  <2>6. w = IF weights[p] < min THEN min + Offset(p) ELSE weights[p]
    BY <1>1, <1>3, <2>1, <2>2, <2>3, <2>4, <2>5 DEF GetNextWeight
  <2>7. w \in Nat /\ w >= weights[p] /\ w >= Offset(p)
    BY <2>6, <1>0
  <2>8. NextWeights(heap, weights, p) = [weights EXCEPT ![p] = w + Step(p)]
    BY <1>1, <1>3 DEF NextWeights
  <2>9. WeightsOK([weights EXCEPT ![p] = w + Step(p)])
    <3>1. w + Step(p) \in Nat /\ w + Step(p) >= Offset(p) + Step(p)
      BY <2>7, <1>0
    <3> QED
      BY <3>1 DEF WeightsOK
  <2> QED
    BY <2>7, <2>8, <2>9, <1>1
<1> QED
  BY <1>2, <1>3

(* Along a series the weights do not fall.                                 *)
LEMMA SeriesWeightsRise ==
    ASSUME NEW Q, NEW heap \in Seq(HeapNode(Q)), NEW weights, WeightsOK(weights),
           NEW p \in Priority, NEW w, w = GetNextWeight(heap, weights, p),
           NEW node \in HeapNode(Q), node.weight = w, node.priority = p,
           NEW heap2 \in Seq(HeapNode(Q)), heap = <<>> => heap2 = <<node>>
    PROVE  GetNextWeight(heap2, NextWeights(heap, weights, p), p) >= w
<1>0. /\ weights[p] \in Nat /\ weights[p] >= Offset(p) /\ Offset(p) \in Nat /\ Step(p) \in Nat
      /\ w \in Nat
  <2>1. weights[p] \in Nat /\ weights[p] >= Offset(p) /\ Offset(p) \in Nat /\ Step(p) \in Nat
    <3>1. Offset(p) \in Nat /\ Step(p) \in Nat
      BY BitFacts
    <3> QED
      BY <3>1 DEF WeightsOK
  <2>2. w \in Nat
    BY NextWeightFacts
  <2> QED
    BY <2>1, <2>2
<1>1. PICK weights2 : weights2 = NextWeights(heap, weights, p)
  OBVIOUS
<1>2. WeightsOK(weights2)
  BY <1>1, NextWeightFacts
<1>3. CASE heap /= <<>>
  <2>1. weights2[p] = w + Step(p)
    BY <1>1, <1>3 DEF NextWeights, WeightsOK
  <2>2. GetNextWeight(heap2, weights2, p) \in Nat /\ GetNextWeight(heap2, weights2, p) >= weights2[p]
    BY <1>2, NextWeightFacts
  <2> QED
    BY <2>1, <2>2, <1>0, <1>1
<1>4. CASE heap = <<>>
  <2>1. w = weights[p] /\ weights2[p] = Offset(p)
    BY <1>4, <1>1 DEF NextWeights, GetNextWeight, InitialWeights
  <2>2. PICK b \in Nat : b = Bit(p) * p
    BY BitFacts
  <2>6. Offset(p) = b + p /\ p \in Nat /\ Offset(p) < Step(p)
    <3>1. Offset(p) = Bit(p) * p + p /\ Offset(p) < Step(p)
      BY BitFacts
    <3>2. p \in Nat
      BY DEF Priority
    <3> QED
      BY <3>1, <3>2, <2>2
  <2>3. heap2 /= <<>> /\ Head(heap2) = node
    <3>1. heap2 = <<node>>
      BY <1>4
    <3>2. heap2 /= <<>>
      BY <3>1
    <3>3. Head(heap2) = heap2[1]
      BY <3>2
    <3>4. heap2[1] = node
      BY <3>1
    <3> QED
      BY <3>2, <3>3, <3>4
  <2>4. GetNextWeight(heap2, weights2, p) =
          IF weights2[p] < w - b + p THEN (w - b + p) + Offset(p) ELSE weights2[p]
    BY <2>2, <2>3 DEF GetNextWeight
  <2>5. w = Offset(p) \/ w >= Offset(p) + Step(p)
    BY <2>1 DEF WeightsOK
  <2> QED
    BY <2>1, <2>4, <2>5, <2>6, <1>0, <1>1
<1> QED
  BY <1>3, <1>4

-----------------------------------------------------------------------------
(* Queueing                                                                *)

(* outgoing: the heap with its weights.                                    *)
OutgoingOK(q, Q) ==
    /\ q = [heap |-> q.heap, weights |-> q.weights]
    /\ QueueOK(q.heap, Q)
    /\ WeightsOK(q.weights)

(* Send of a message that is not split.                                    *)
LEMMA EnqueuedKeeps ==
    ASSUME NEW Q, NEW q, OutgoingOK(q, Q), NEW p \in Priority,
           NEW part \in Q, part \notin PartsOf(q.heap)
    PROVE  /\ OutgoingOK(Enqueued(q, p, part), Q)
           /\ PartsOf(Enqueued(q, p, part).heap) = PartsOf(q.heap) \cup {part}
<1>1. PICK heap : heap = q.heap
  OBVIOUS
<1>2. PICK weights : weights = q.weights
  OBVIOUS
<1>3. QueueOK(heap, Q) /\ WeightsOK(weights) /\ heap \in Seq(HeapNode(Q)) /\ part \notin PartsOf(heap)
  BY <1>1, <1>2 DEF OutgoingOK, QueueOK
<1>4. PICK w : w = GetNextWeight(heap, weights, p)
  OBVIOUS
<1>5. w \in Nat /\ w >= Offset(p) /\ WeightsOK(NextWeights(heap, weights, p))
  BY <1>3, <1>4, NextWeightFacts
<1>6. PICK node : node = [weight |-> w, priority |-> p, part |-> part]
  OBVIOUS
<1>7. node \in HeapNode(Q) /\ node.part = part
  BY <1>5, <1>6 DEF HeapNode
<1>8. Enqueued(q, p, part) = [heap |-> Push(heap, node), weights |-> NextWeights(heap, weights, p)]
  BY <1>1, <1>2, <1>4, <1>6 DEF Enqueued
<1>9. QueueOK(Push(heap, node), Q) /\ PartsOf(Push(heap, node)) = PartsOf(heap) \cup {part}
  BY <1>3, <1>7, PushKeepsQueue
<1> QED
  BY <1>1, <1>5, <1>8, <1>9 DEF OutgoingOK

(* PushSeries in the course of a series: once the parts go to the end,     *)
(* the next weight is not below any from the parent of the end on.         *)
SeriesOK(q, Q, p) ==
    /\ QueueOK(q.heap, Q)
    /\ WeightsOK(q.weights)
    /\ q.appending => MayAppendSeries(q.heap, GetNextWeight(q.heap, q.weights, p))

SeriesStepped(q, q2, Q, p, part) ==
    /\ SeriesOK(q2, Q, p)
    /\ PartsOf(q2.heap) = PartsOf(q.heap) \cup {part}

(* One PushSeries, sorted or at the end.                                   *)
LEMMA SeriesStepKeeps ==
    ASSUME NEW Q, NEW q, NEW p \in Priority, SeriesOK(q, Q, p),
           NEW part \in Q, part \notin PartsOf(q.heap)
    PROVE  SeriesStepped(q, SeriesStep(q, p, part), Q, p, part)
<1>1. PICK heap : heap = q.heap
  OBVIOUS
<1>2. PICK weights : weights = q.weights
  OBVIOUS
<1>3. /\ QueueOK(heap, Q) /\ WeightsOK(weights) /\ heap \in Seq(HeapNode(Q))
      /\ part \notin PartsOf(heap) /\ HeapOrdered(heap) /\ DistinctParts(heap)
  BY <1>1, <1>2 DEF SeriesOK, QueueOK
<1>4. PICK w : w = GetNextWeight(heap, weights, p)
  OBVIOUS
<1>5. w \in Nat /\ w >= Offset(p) /\ WeightsOK(NextWeights(heap, weights, p))
  BY <1>3, <1>4, NextWeightFacts
<1>6. PICK node : node = [weight |-> w, priority |-> p, part |-> part]
  OBVIOUS
<1>7. node \in HeapNode(Q) /\ node.part = part /\ node.weight = w /\ node.priority = p
  BY <1>5, <1>6 DEF HeapNode
<1>8. PICK atEnd : atEnd = (q.appending \/ MayAppendSeries(heap, w))
  OBVIOUS
<1>9. atEnd <=> MayAppendSeries(heap, w)
  BY <1>8, <1>1, <1>2, <1>4 DEF SeriesOK
<1>10. PICK heap2 : heap2 = IF atEnd THEN Append(heap, node) ELSE Push(heap, node)
  OBVIOUS
<1>11. PICK weights2 : weights2 = NextWeights(heap, weights, p)
  OBVIOUS
<1>12. SeriesStep(q, p, part) = [heap |-> heap2, weights |-> weights2, appending |-> atEnd]
  BY <1>1, <1>2, <1>4, <1>6, <1>8, <1>10, <1>11 DEF SeriesStep
<1>13. CASE ~atEnd
  <2>1. heap2 = Push(heap, node)
    BY <1>10, <1>13
  <2>2. QueueOK(heap2, Q) /\ PartsOf(heap2) = PartsOf(heap) \cup {part}
    BY <2>1, <1>3, <1>7, PushKeepsQueue
  <2> QED
    BY <2>2, <1>1, <1>5, <1>11, <1>12, <1>13 DEF SeriesOK, SeriesStepped
<1>14. CASE atEnd
  <2>1. heap2 = Append(heap, node)
    BY <1>10, <1>14
  <2>2. PICK n \in Nat : n = Len(heap)
    BY <1>3
  <2>3. /\ heap2 \in Seq(HeapNode(Q)) /\ Len(heap2) = n + 1 /\ DOMAIN heap2 = 1 .. (n + 1)
        /\ heap2[n + 1] = node /\ DOMAIN heap = 1 .. n
        /\ \A i \in 1 .. n : heap2[i] = heap[i]
    BY <2>1, <2>2, <1>3, <1>7
  <2>4. \A i \in 1 .. n : heap[i].weight \in Nat
    BY <2>2, <1>3 DEF HeapNode
  <2>5. \A i \in 1 .. n : i >= Parent(n + 1) => w >= heap[i].weight
    BY <1>9, <1>14, <2>2 DEF MayAppendSeries
  <2>6. HeapOrdered(heap2)
    <3> SUFFICES ASSUME NEW i \in 2 .. (n + 1)
                 PROVE  heap2[Parent(i)].weight <= heap2[i].weight
      BY <2>3 DEF HeapOrdered
    <3>1. Parent(i) \in 1 .. n
      BY ParentFacts
    <3>2. CASE i = n + 1
      BY <3>1, <3>2, <2>3, <2>4, <2>5, <1>7
    <3>3. CASE i /= n + 1
      <4>1. i \in 2 .. n
        BY <3>3
      <4>2. heap[Parent(i)].weight <= heap[i].weight
        BY <4>1, <2>2, <1>3 DEF HeapOrdered
      <4> QED
        BY <4>1, <4>2, <3>1, <2>3
    <3> QED
      BY <3>2, <3>3
  <2>7. ASSUME NEW x PROVE x \in PartsOf(heap2) <=> x \in PartsOf(heap) \/ x = part
    <3>1. x \in PartsOf(heap2) <=> \E i \in 1 .. (n + 1) : x = heap2[i].part
      BY PartsOfRange, <2>3
    <3>2. x \in PartsOf(heap) <=> \E i \in 1 .. n : x = heap[i].part
      BY PartsOfRange, <2>3
    <3>3. \A i \in 1 .. (n + 1) : i = n + 1 \/ i \in 1 .. n
      OBVIOUS
    <3>4. n + 1 \in 1 .. (n + 1) /\ \A i \in 1 .. n : i \in 1 .. (n + 1)
      OBVIOUS
    <3> QED
      BY <3>1, <3>2, <3>3, <3>4, <2>3, <1>7
  <2>8. DistinctParts(heap2)
    <3> SUFFICES ASSUME NEW i \in 1 .. (n + 1), NEW j \in 1 .. (n + 1),
                        heap2[i].part = heap2[j].part, i /= j
                 PROVE  FALSE
      BY <2>3 DEF DistinctParts
    <3>1. \A k \in 1 .. n : heap2[k].part /= part
      BY <2>3, <1>3 DEF PartsOf
    <3>2. i \in 1 .. n /\ j \in 1 .. n
      BY <3>1, <2>3, <1>7
    <3> QED
      BY <3>2, <2>3, <1>3 DEF DistinctParts
  <2>9. QueueOK(heap2, Q)
    BY <2>3, <2>6, <2>8 DEF QueueOK
  <2>10. PICK w2 \in Nat : w2 = GetNextWeight(heap2, weights2, p)
    BY <2>3, <1>5, <1>11, NextWeightFacts
  <2>11. w2 >= w
    <3>1. heap = <<>> => heap2 = <<node>>
      BY <2>1
    <3> QED
      BY <3>1, <2>3, <2>10, <1>3, <1>4, <1>7, <1>11, SeriesWeightsRise
  <2>12. MayAppendSeries(heap2, w2)
    <3> SUFFICES ASSUME NEW i \in 1 .. (n + 1), i >= Parent(n + 2)
                 PROVE  w2 >= heap2[i].weight
      BY <2>3 DEF MayAppendSeries
    <3>1. CASE i = n + 1
      BY <3>1, <2>3, <2>11, <1>7
    <3>2. CASE i \in 1 .. n
      <4>1. i >= Parent(n + 1)
        BY <3>2 DEF Parent
      <4> QED
        BY <4>1, <3>2, <2>3, <2>4, <2>5, <2>11, <1>5
    <3> QED
      BY <3>1, <3>2
  <2> QED
    BY <2>7, <2>9, <2>10, <2>12, <1>1, <1>5, <1>11, <1>12 DEF SeriesOK, SeriesStepped
<1> QED
  BY <1>13, <1>14

(* The queue after each part of a series.                                  *)
IsSeries(st, q, p, parts, n) ==
    st = [i \in 0 .. n |->
             IF i = 0 THEN [heap |-> q.heap, weights |-> q.weights, appending |-> FALSE]
             ELSE SeriesStep(st[i - 1], p, parts[i])]

(* SeriesStates is well defined: some function obeys its recursion.        *)
LEMMA SeriesExists ==
    ASSUME NEW q, NEW p, NEW parts, NEW n \in Nat
    PROVE  \E st : IsSeries(st, q, p, parts, n)
<1> DEFINE q0 == [heap |-> q.heap, weights |-> q.weights, appending |-> FALSE]
           bad == {k \in Nat : ~\E st : IsSeries(st, q, p, parts, k)}
<1>1. bad \in SUBSET Nat
  OBVIOUS
<1>2. SUFFICES ASSUME bad /= {} PROVE FALSE
  OBVIOUS
<1>3. PICK k \in bad : \A j \in bad : k <= j
  BY <1>1, <1>2, LeastNat
<1>4. k /= 0
  <2> SUFFICES ASSUME k = 0 PROVE FALSE
    OBVIOUS
  <2>1. PICK st : st = [i \in 0 .. 0 |-> q0]
    OBVIOUS
  <2>2. IsSeries(st, q, p, parts, 0)
    BY <2>1 DEF IsSeries
  <2> QED
    BY <2>2, <1>3
<1>5. k - 1 \in Nat /\ k - 1 \notin bad
  BY <1>3, <1>4
<1>6. PICK st : IsSeries(st, q, p, parts, k - 1)
  BY <1>5
<1>7. PICK next : next = SeriesStep(st[k - 1], p, parts[k])
  OBVIOUS
<1>8. PICK st2 : st2 = [i \in 0 .. k |-> IF i = k THEN next ELSE st[i]]
  OBVIOUS
<1>9. \A i \in 0 .. k : st2[i] = IF i = 0 THEN q0 ELSE SeriesStep(st2[i - 1], p, parts[i])
  <2> SUFFICES ASSUME NEW i \in 0 .. k
               PROVE  st2[i] = IF i = 0 THEN q0 ELSE SeriesStep(st2[i - 1], p, parts[i])
    OBVIOUS
  <2>1. \A j \in 0 .. (k - 1) : st[j] = IF j = 0 THEN q0 ELSE SeriesStep(st[j - 1], p, parts[j])
    BY <1>6 DEF IsSeries
  <2>2. k \in Nat
    OBVIOUS
  <2>3. CASE i = k
    <3>1. k - 1 \in 0 .. k /\ k - 1 /= k /\ i /= 0
      BY <2>2, <2>3, <1>4
    <3>2. st2[k - 1] = st[k - 1] /\ st2[k] = next
      BY <3>1, <1>8
    <3> QED
      BY <3>1, <3>2, <2>3, <1>7
  <2>4. CASE i /= k
    <3>1. st2[i] = st[i] /\ i \in 0 .. (k - 1)
      BY <2>2, <2>4, <1>8
    <3>2. CASE i = 0
      BY <3>1, <3>2, <2>1
    <3>3. CASE i /= 0
      <4>1. i - 1 \in 0 .. k /\ i - 1 /= k
        BY <3>3, <2>2
      <4>2. st2[i - 1] = st[i - 1]
        BY <4>1, <1>8
      <4> QED
        BY <4>2, <3>1, <3>3, <2>1
    <3> QED
      BY <3>2, <3>3
  <2> QED
    BY <2>3, <2>4
<1>10. IsSeries(st2, q, p, parts, k)
  <2>1. st2 = [i \in 0 .. k |-> st2[i]]
    BY <1>8
  <2> QED
    BY <2>1, <1>9 DEF IsSeries
<1> QED
  BY <1>10, <1>3

(* The queue after a part is one PushSeries from that before it.           *)
LEMMA SeriesStatesIsSeries ==
    ASSUME NEW q, NEW p, NEW parts, Len(parts) \in Nat
    PROVE  IsSeries(SeriesStates(q, p, parts), q, p, parts, Len(parts))
<1>1. \E st : IsSeries(st, q, p, parts, Len(parts))
  BY SeriesExists
<1>2. SeriesStates(q, p, parts) = CHOOSE st : IsSeries(st, q, p, parts, Len(parts))
  BY DEF SeriesStates, IsSeries
<1> QED
  BY <1>1, <1>2

(* The parts of a split message go into the queue, each once.              *)
NewParts(q, parts, n, Q) ==
    /\ parts \in [1 .. n -> Q]
    /\ \A i \in 1 .. n : parts[i] \notin PartsOf(q.heap)
    /\ \A i, j \in 1 .. n : parts[i] = parts[j] => i = j

WithParts(q, q2, parts, n, Q) ==
    /\ OutgoingOK(q2, Q)
    /\ PartsOf(q2.heap) = PartsOf(q.heap) \cup {parts[i] : i \in 1 .. n}

(* SplitPacket queues every part of a message.                             *)
LEMMA EnqueuedSeriesKeeps ==
    ASSUME NEW Q, NEW q, OutgoingOK(q, Q), NEW p \in Priority,
           NEW n \in Nat, NEW parts, NewParts(q, parts, n, Q)
    PROVE  WithParts(q, EnqueuedSeries(q, p, parts), parts, n, Q)
<1>9. /\ parts \in [1 .. n -> Q]
      /\ \A i \in 1 .. n : parts[i] \notin PartsOf(q.heap)
      /\ \A i, j \in 1 .. n : parts[i] = parts[j] => i = j
  BY DEF NewParts
<1>0. Len(parts) = n
  BY <1>9
<1>1. PICK st : st = SeriesStates(q, p, parts)
  OBVIOUS
<1>2. /\ st[0] = [heap |-> q.heap, weights |-> q.weights, appending |-> FALSE]
      /\ \A i \in 1 .. n : st[i] = SeriesStep(st[i - 1], p, parts[i])
  <2>1. IsSeries(st, q, p, parts, n)
    BY <1>0, <1>1, SeriesStatesIsSeries
  <2>2. \A i \in 0 .. n : st[i] = IF i = 0 THEN [heap |-> q.heap, weights |-> q.weights, appending |-> FALSE]
                                  ELSE SeriesStep(st[i - 1], p, parts[i])
    BY <2>1 DEF IsSeries
  <2>3. 0 \in 0 .. n /\ \A i \in 1 .. n : i \in 0 .. n /\ i /= 0
    OBVIOUS
  <2> QED
    BY <2>2, <2>3
<1> DEFINE Done(k) == /\ SeriesOK(st[k], Q, p)
                      /\ PartsOf(st[k].heap) = PartsOf(q.heap) \cup {parts[i] : i \in 1 .. k}
           bad == {k \in 0 .. n : ~Done(k)}
<1>3. Done(0)
  <2>1. st[0].heap = q.heap /\ st[0].weights = q.weights /\ st[0].appending = FALSE
    BY <1>2
  <2>2. SeriesOK(st[0], Q, p)
    BY <2>1 DEF SeriesOK, OutgoingOK
  <2>3. {parts[i] : i \in 1 .. 0} = {}
    OBVIOUS
  <2> QED
    BY <2>1, <2>2, <2>3
<1>4. ASSUME NEW k \in 1 .. n, Done(k - 1)
      PROVE  Done(k)
  <2>1. PICK r : r = st[k - 1]
    OBVIOUS
  <2>2. SeriesOK(r, Q, p) /\ PartsOf(r.heap) = PartsOf(q.heap) \cup {parts[i] : i \in 1 .. (k - 1)}
    BY <2>1, <1>4
  <2>3. parts[k] \in Q /\ parts[k] \notin PartsOf(r.heap)
    <3>1. \A i \in 1 .. (k - 1) : i \in 1 .. n /\ i /= k
      OBVIOUS
    <3>2. parts[k] \notin {parts[i] : i \in 1 .. (k - 1)}
      BY <3>1, <1>9
    <3> QED
      BY <3>2, <2>2, <1>9
  <2>4. st[k] = SeriesStep(r, p, parts[k])
    BY <2>1, <1>2
  <2>5. SeriesOK(st[k], Q, p) /\ PartsOf(st[k].heap) = PartsOf(r.heap) \cup {parts[k]}
    <3>1. PICK part \in Q : part = parts[k]
      BY <2>3
    <3>2. part \notin PartsOf(r.heap)
      BY <2>3, <3>1
    <3>3. SeriesStepped(r, SeriesStep(r, p, part), Q, p, part)
      <4>1. SeriesOK(r, Q, p)
        BY <2>2
      <4> HIDE DEF Done
      <4> QED
        BY <3>2, <4>1, SeriesStepKeeps
    <3> QED
      BY <3>1, <3>3, <2>4 DEF SeriesStepped
  <2>6. {parts[i] : i \in 1 .. k} = {parts[i] : i \in 1 .. (k - 1)} \cup {parts[k]}
    <3>1. \A i \in 1 .. k : i = k \/ i \in 1 .. (k - 1)
      OBVIOUS
    <3>2. k \in 1 .. k /\ \A i \in 1 .. (k - 1) : i \in 1 .. k
      OBVIOUS
    <3> QED
      BY <3>1, <3>2
  <2> QED
    BY <2>2, <2>5, <2>6
<1>5. Done(n)
  <2> SUFFICES ASSUME ~Done(n) PROVE FALSE
    OBVIOUS
  <2> HIDE DEF Done
  <2>1. bad \in SUBSET Nat /\ bad /= {}
    OBVIOUS
  <2>2. PICK k \in bad : \A j \in bad : k <= j
    BY <2>1, LeastNat
  <2>3. k /= 0
    BY <1>3, <2>2
  <2>4. k \in 1 .. n /\ k - 1 \in 0 .. n /\ k - 1 \notin bad
    BY <2>2, <2>3
  <2>5. Done(k - 1)
    BY <2>4
  <2> QED
    BY <2>2, <2>4, <2>5, <1>4
<1>6. PICK r : r = st[n]
  OBVIOUS
<1>7. EnqueuedSeries(q, p, parts) = [heap |-> r.heap, weights |-> r.weights]
  BY <1>0, <1>1, <1>6 DEF EnqueuedSeries
<1>8. SeriesOK(r, Q, p) /\ PartsOf(r.heap) = PartsOf(q.heap) \cup {parts[i] : i \in 1 .. n}
  BY <1>5, <1>6
<1> QED
  BY <1>7, <1>8 DEF OutgoingOK, SeriesOK, WithParts

-----------------------------------------------------------------------------
(* The inductive invariant                                                 *)

LastPart(m) == <<m, log[m].count - 1>>

(* Types; only a reliable message is split.                                *)
StateTypes ==
    /\ log \in Seq(Message)
    /\ OutgoingOK(outgoing, Part)
    /\ splitPacketId \in 0 .. IdRange - 1
    /\ culled \subseteq DOMAIN log
    /\ resendBuffer \subseteq Part /\ wire \subseteq Part /\ received \subseteq Part
    /\ receiptHistory \subseteq DOMAIN log
    /\ progress \subseteq (DOMAIN log) \X Nat
    /\ receipts \in [DOMAIN log -> Seq({"ACKED", "LOSS"})]
    /\ \A m \in DOMAIN log : ~IsReliable(m) => log[m].count = 1

(* Where a part is: in the queue, or sent and then in flight or received   *)
(* (or lost, if it is unreliable).                                         *)
PartsInv ==
    /\ QueuedParts \cap (wire \cup received \cup resendBuffer) = {}
    /\ wire \cap received = {}
    /\ \A part \in Part : IsReliable(part[1]) => part \in QueuedParts \cup wire \cup received
    /\ \A m \in culled : ~IsReliable(m)
    /\ \A part \in resendBuffer : IsReliable(part[1])
    /\ \A m \in receiptHistory :
          ~IsReliable(m) /\ WantsReceipt(m) /\ m \notin culled /\ <<m, 0>> \notin QueuedParts

(* A message that is still to get its receipt, or that was culled.         *)
Waiting(m) ==
    \/ LastPart(m) \in QueuedParts \cup resendBuffer
    \/ m \in receiptHistory \cup culled

(* A receipt comes when a message stops waiting for one.                   *)
ReceiptsInv ==
    \A m \in DOMAIN log :
        IF WantsReceipt(m) /\ ~Waiting(m)
        THEN \/ receipts[m] = <<"ACKED">> /\ LastPart(m) \in received
             \/ receipts[m] = <<"LOSS">> /\ ~IsReliable(m)
        ELSE receipts[m] = <<>>

(* What a channel holds of message m: the parts received.                  *)
Collected(m) ==
    [i \in 1 .. log[m].count |-> IF <<m, i - 1>> \in received THEN <<m, i - 1>> ELSE None]

IsOpen(m) == IsSplit(m) /\ ~WholeArrived(m)

(* An id belongs to one message that has yet to arrive, its channel is     *)
(* there from the first part on and holds what has arrived of it.          *)
ChannelsInv ==
    /\ \A m, n \in DOMAIN log : IsOpen(m) /\ IsOpen(n) /\ log[m].id = log[n].id => m = n
    /\ \A id \in DOMAIN channels :
          \E m \in DOMAIN log : IsOpen(m) /\ log[m].id = id /\ channels[id] = Collected(m)
    /\ \A m \in DOMAIN log :
          IsOpen(m) /\ Parts(m) \cap received /= {} => log[m].id \in DOMAIN channels

SplitInv ==
    /\ StateTypes
    /\ PartsInv
    /\ ReceiptsInv
    /\ ChannelsInv
    /\ RebuiltIntact
    /\ NoPartStranded

-----------------------------------------------------------------------------
(* Parts and messages                                                      *)

(* A part belongs to a message of the log and is below its count.          *)
LEMMA PartFacts ==
    ASSUME log \in Seq(Message)
    PROVE  /\ \A m \in DOMAIN log : log[m].count \in Nat /\ log[m].count >= 1
           /\ \A m \in DOMAIN log : \A i \in 0 .. log[m].count - 1 : <<m, i>> \in Part
           /\ \A m \in DOMAIN log : LastPart(m) \in Part /\ <<m, 0>> \in Part
           /\ \A part \in Part : /\ part[1] \in DOMAIN log
                                 /\ part[2] \in 0 .. log[part[1]].count - 1
                                 /\ part = <<part[1], part[2]>>
<1>1. \A m \in DOMAIN log : log[m].count \in Nat /\ log[m].count >= 1
  <2> SUFFICES ASSUME NEW m \in DOMAIN log PROVE log[m].count \in Nat /\ log[m].count >= 1
    OBVIOUS
  <2>1. log[m] \in Message
    OBVIOUS
  <2>2. log[m].count \in 1 .. MaxParts
    BY <2>1 DEF Message
  <2> QED
    BY <2>2, SplitAssumption
<1>2. \A m \in DOMAIN log : \A i \in 0 .. log[m].count - 1 : <<m, i>> \in Part
  BY DEF Part, Parts
<1>3. \A m \in DOMAIN log : LastPart(m) \in Part /\ <<m, 0>> \in Part
  BY <1>1, <1>2 DEF LastPart
<1>4. ASSUME NEW part \in Part
      PROVE  /\ part[1] \in DOMAIN log
             /\ part[2] \in 0 .. log[part[1]].count - 1
             /\ part = <<part[1], part[2]>>
  <2>1. PICK m \in DOMAIN log : part \in Parts(m)
    BY DEF Part
  <2>2. PICK i \in 0 .. log[m].count - 1 : part = <<m, i>>
    BY <2>1 DEF Parts
  <2> QED
    BY <2>1, <2>2
<1> QED
  BY <1>1, <1>2, <1>3, <1>4

(* A queue of parts is a queue of more parts.                              *)
LEMMA OutgoingGrows ==
    ASSUME NEW Q, NEW R, Q \subseteq R, NEW q, OutgoingOK(q, Q)
    PROVE  OutgoingOK(q, R)
<1>1. HeapNode(Q) \subseteq HeapNode(R)
  BY DEF HeapNode
<1>2. q.heap \in Seq(HeapNode(R))
  BY <1>1 DEF OutgoingOK, QueueOK
<1> QED
  BY <1>2 DEF OutgoingOK, QueueOK

(* A message m0 is added to the log.                                       *)
LogGrows(m0) ==
    /\ log' \in Seq(Message)
    /\ m0 \notin DOMAIN log
    /\ DOMAIN log' = DOMAIN log \cup {m0}
    /\ \A m \in DOMAIN log : log'[m] = log[m]
    /\ Part' = Part \cup (Parts(m0))'
    /\ \A part \in (Parts(m0))' : part \notin Part /\ part[1] = m0

(* What a new message of the log leaves as it was.                         *)
LEMMA LoggedGrows ==
    ASSUME log \in Seq(Message), NEW r \in Message, log' = Append(log, r),
           NEW m0, m0 = Len(log) + 1
    PROVE  /\ LogGrows(m0)
           /\ log'[m0] = r
           /\ m0 \in Nat
<1>1. /\ log' \in Seq(Message) /\ m0 \in Nat /\ m0 \notin DOMAIN log
      /\ DOMAIN log' = DOMAIN log \cup {m0} /\ log'[m0] = r
      /\ \A m \in DOMAIN log : log'[m] = log[m]
  <2>1. PICK n \in Nat : n = Len(log)
    OBVIOUS
  <2>2. DOMAIN log = 1 .. n /\ DOMAIN log' = 1 .. (n + 1) /\ m0 = n + 1
    BY <2>1
  <2>3. log' \in Seq(Message) /\ log'[m0] = r /\ \A m \in 1 .. n : log'[m] = log[m]
    BY <2>1, <2>2
  <2> QED
    BY <2>2, <2>3
<1>2. \A m \in DOMAIN log : (Parts(m))' = Parts(m)
  BY <1>1 DEF Parts
<1>3. Part' = Part \cup (Parts(m0))'
  <2>1. ASSUME NEW x PROVE x \in Part' <=> \E m \in DOMAIN log' : x \in (Parts(m))'
    BY DEF Part
  <2>2. ASSUME NEW x PROVE x \in Part <=> \E m \in DOMAIN log : x \in Parts(m)
    BY DEF Part
  <2> QED
    BY <2>1, <2>2, <1>1, <1>2
<1>4. \A part \in (Parts(m0))' : part \notin Part /\ part[1] = m0
  <2> SUFFICES ASSUME NEW part \in (Parts(m0))' PROVE part \notin Part /\ part[1] = m0
    OBVIOUS
  <2>1. part[1] = m0
    BY DEF Parts
  <2>2. part \in Part => part[1] \in DOMAIN log
    BY PartFacts
  <2> QED
    BY <2>1, <2>2, <1>1
<1> QED
  BY <1>1, <1>3, <1>4 DEF LogGrows

-----------------------------------------------------------------------------
(* The invariant holds of a new connection.                                *)
LEMMA SplitInitial == Init => SplitInv
<1> SUFFICES ASSUME Init PROVE SplitInv
  OBVIOUS
<1>1. /\ log = <<>> /\ DOMAIN log = {} /\ Part = {}
      /\ outgoing = [heap |-> <<>>, weights |-> InitialWeights]
  BY DEF Init, Part
<1>2. OutgoingOK(outgoing, Part)
  <2>1. outgoing.heap = <<>> /\ outgoing.weights = InitialWeights
    BY <1>1
  <2>2. QueueOK(<<>>, Part)
    BY DEF QueueOK, HeapOrdered, DistinctParts
  <2>3. WeightsOK(InitialWeights)
    BY BitFacts DEF InitialWeights, WeightsOK
  <2> QED
    BY <2>1, <2>2, <2>3, <1>1 DEF OutgoingOK
<1>3. StateTypes
  <2>1. splitPacketId \in 0 .. IdRange - 1
    BY SplitAssumption DEF Init
  <2>2. receipts \in [DOMAIN log -> Seq({"ACKED", "LOSS"})]
    BY <1>1 DEF Init
  <2> QED
    BY <2>1, <2>2, <1>1, <1>2 DEF StateTypes, Init
<1>4. PartsInv
  BY <1>1 DEF PartsInv, Init
<1>5. ReceiptsInv /\ ChannelsInv /\ RebuiltIntact /\ NoPartStranded
  BY <1>1 DEF ReceiptsInv, ChannelsInv, RebuiltIntact, NoPartStranded, Init
<1> QED
  BY <1>3, <1>4, <1>5 DEF SplitInv

-----------------------------------------------------------------------------
(* Send                                                                    *)

(* What SendWhole and SendSplit have in common.                            *)
SendsMessage(m0, count) ==
    /\ LogGrows(m0)
    /\ log'[m0].count = count
    /\ log'[m0].id = splitPacketId
    /\ count > 1 => IdIsFree /\ (IsReliable(m0))'
    /\ OutgoingOK(outgoing', Part')
    /\ QueuedParts' = QueuedParts \cup (Parts(m0))'
    /\ splitPacketId' \in 0 .. IdRange - 1
    /\ receipts' = [m \in DOMAIN log' |-> IF m = m0 THEN <<>> ELSE receipts[m]]
    /\ UNCHANGED <<culled, resendBuffer, receiptHistory, wire, receiverVars>>

(* What both ends of Send have in common.                                  *)
LEMMA SendKeeps ==
    ASSUME SplitInv, NEW m0, NEW count \in Nat \ {0}, SendsMessage(m0, count)
    PROVE  SplitInv'
<1>0. /\ log' \in Seq(Message) /\ log \in Seq(Message)
      /\ m0 \notin DOMAIN log
      /\ DOMAIN log' = DOMAIN log \cup {m0}
      /\ \A m \in DOMAIN log : log'[m] = log[m]
      /\ Part' = Part \cup (Parts(m0))'
      /\ \A part \in (Parts(m0))' : part \notin Part /\ part[1] = m0
  BY DEF SendsMessage, LogGrows, SplitInv, StateTypes
<1>1. \A m \in DOMAIN log :
         /\ IsReliable(m)' <=> IsReliable(m)
         /\ WantsReceipt(m)' <=> WantsReceipt(m)
         /\ IsSplit(m)' <=> IsSplit(m)
         /\ (Parts(m))' = Parts(m)
         /\ (OwnParts(m))' = OwnParts(m)
         /\ LastPart(m)' = LastPart(m)
  BY <1>0 DEF IsReliable, WantsReceipt, IsSplit, Parts, OwnParts, LastPart
<1>2. /\ culled' = culled /\ resendBuffer' = resendBuffer /\ receiptHistory' = receiptHistory
      /\ wire' = wire /\ received' = received /\ channels' = channels
      /\ output' = output /\ progress' = progress
  BY DEF SendsMessage, receiverVars
<1>3. /\ culled \subseteq DOMAIN log /\ receiptHistory \subseteq DOMAIN log
      /\ resendBuffer \subseteq Part /\ wire \subseteq Part /\ received \subseteq Part
  BY DEF SplitInv, StateTypes
<1>4. QueuedParts \subseteq Part
  <2>1. outgoing.heap \in Seq(HeapNode(Part))
    BY DEF SplitInv, StateTypes, OutgoingOK, QueueOK
  <2>2. \A i \in DOMAIN outgoing.heap : outgoing.heap[i] \in HeapNode(Part)
    BY <2>1
  <2> QED
    BY <2>2 DEF QueuedParts, HeapNode
<1>5. QueuedParts' = QueuedParts \cup (Parts(m0))'
  BY DEF SendsMessage
<1>6. LastPart(m0)' \in (Parts(m0))' /\ <<m0, 0>> \in (Parts(m0))'
  BY DEF SendsMessage, Parts, LastPart
<1>7. StateTypes'
  <2>1. receipts' \in [DOMAIN log' -> Seq({"ACKED", "LOSS"})]
    <3>1. receipts \in [DOMAIN log -> Seq({"ACKED", "LOSS"})]
      BY DEF SplitInv, StateTypes
    <3>2. <<>> \in Seq({"ACKED", "LOSS"})
      OBVIOUS
    <3> QED
      BY <3>1, <3>2, <1>0 DEF SendsMessage
  <2>2. \A m \in DOMAIN log' : ~IsReliable(m)' => log'[m].count = 1
    <3>1. ~IsReliable(m0)' => log'[m0].count = 1
      BY DEF SendsMessage
    <3>2. \A m \in DOMAIN log : ~IsReliable(m) => log[m].count = 1
      BY DEF SplitInv, StateTypes
    <3> QED
      BY <3>1, <3>2, <1>0, <1>1
  <2>3. progress' \subseteq (DOMAIN log') \X Nat
    <3>1. progress \subseteq (DOMAIN log) \X Nat
      BY DEF SplitInv, StateTypes
    <3> QED
      BY <3>1, <1>0, <1>2
  <2>4. OutgoingOK(outgoing', Part') /\ splitPacketId' \in 0 .. IdRange - 1
    BY DEF SendsMessage
  <2> QED
    BY <2>1, <2>2, <2>3, <2>4, <1>0, <1>2, <1>3 DEF StateTypes
<1>8. PartsInv'
  <2>0. PartsInv
    BY DEF SplitInv
  <2>1. QueuedParts' \cap (wire \cup received \cup resendBuffer)' = {}
    BY <2>0, <1>0, <1>2, <1>3, <1>5 DEF PartsInv
  <2>2. wire' \cap received' = {}
    BY <2>0, <1>2 DEF PartsInv
  <2>3. ASSUME NEW part \in Part', IsReliable(part[1])'
        PROVE  part \in QueuedParts' \cup wire' \cup received'
    <3>1. CASE part \in (Parts(m0))'
      BY <3>1, <1>5
    <3>2. CASE part \in Part
      <4>1. part[1] \in DOMAIN log
        BY <3>2, <1>0, PartFacts
      <4>2. IsReliable(part[1])
        BY <4>1, <2>3, <1>1
      <4> QED
        BY <3>2, <4>2, <2>0, <1>2, <1>5 DEF PartsInv
    <3> QED
      BY <3>1, <3>2, <1>0
  <2>4. \A m \in culled' : ~IsReliable(m)'
    BY <2>0, <1>1, <1>2, <1>3 DEF PartsInv
  <2>5. \A part \in resendBuffer' : IsReliable(part[1])'
    <3>1. \A part \in resendBuffer : part[1] \in DOMAIN log /\ IsReliable(part[1])
      BY <2>0, <1>0, <1>3, PartFacts DEF PartsInv
    <3> QED
      BY <3>1, <1>1, <1>2
  <2>6. ASSUME NEW m \in receiptHistory'
        PROVE  (~IsReliable(m) /\ WantsReceipt(m) /\ m \notin culled /\ <<m, 0>> \notin QueuedParts)'
    <3>1. m \in receiptHistory /\ m \in DOMAIN log
      BY <1>2, <1>3
    <3>2. ~IsReliable(m) /\ WantsReceipt(m) /\ m \notin culled /\ <<m, 0>> \notin QueuedParts
      BY <3>1, <2>0 DEF PartsInv
    <3>3. <<m, 0>> \notin (Parts(m0))'
      BY <3>1, <1>0, PartFacts
    <3> QED
      BY <3>1, <3>2, <3>3, <1>1, <1>2, <1>5
  <2> QED
    BY <2>1, <2>2, <2>3, <2>4, <2>5, <2>6 DEF PartsInv
<1>9. ReceiptsInv'
  <2>1. ASSUME NEW m \in DOMAIN log
        PROVE  Waiting(m)' <=> Waiting(m)
    <3>1. LastPart(m) \notin (Parts(m0))'
      BY <1>0, PartFacts
    <3> QED
      BY <3>1, <1>1, <1>2, <1>5 DEF Waiting
  <2>2. Waiting(m0)'
    BY <1>5, <1>6 DEF Waiting
  <2>3. receipts'[m0] = <<>> /\ \A m \in DOMAIN log : receipts'[m] = receipts[m]
    BY <1>0 DEF SendsMessage
  <2>4. ASSUME NEW m \in DOMAIN log
        PROVE  IF WantsReceipt(m)' /\ ~Waiting(m)'
               THEN \/ receipts'[m] = <<"ACKED">> /\ LastPart(m)' \in received'
                    \/ receipts'[m] = <<"LOSS">> /\ ~IsReliable(m)'
               ELSE receipts'[m] = <<>>
    <3>1. IF WantsReceipt(m) /\ ~Waiting(m)
          THEN \/ receipts[m] = <<"ACKED">> /\ LastPart(m) \in received
               \/ receipts[m] = <<"LOSS">> /\ ~IsReliable(m)
          ELSE receipts[m] = <<>>
      BY DEF SplitInv, ReceiptsInv
    <3> QED
      BY <3>1, <2>1, <2>3, <1>1, <1>2
  <2> QED
    BY <2>2, <2>3, <2>4, <1>0 DEF ReceiptsInv
<1>10. \A m \in DOMAIN log : IsOpen(m)' <=> IsOpen(m)
  BY <1>1, <1>2 DEF IsOpen, WholeArrived
<1>11. ~WholeArrived(m0)' /\ (Parts(m0))' \cap received' = {}
  BY <1>0, <1>2, <1>3, <1>6 DEF WholeArrived
<1>12. ChannelsInv'
  <2>0. ChannelsInv
    BY DEF SplitInv
  <2>1. ASSUME NEW m \in DOMAIN log, IsOpen(m)', IsOpen(m0)', log'[m].id = log'[m0].id
        PROVE  FALSE
    <3>1. IdIsFree /\ log'[m0].id = splitPacketId
      BY <2>1 DEF SendsMessage, IsOpen, IsSplit
    <3>2. IsSplit(m) /\ ~WholeArrived(m) /\ log[m].id = splitPacketId
      BY <3>1, <2>1, <1>0, <1>10 DEF IsOpen
    <3> QED
      BY <3>1, <3>2 DEF IdIsFree
  <2>2. ASSUME NEW m \in DOMAIN log', NEW n \in DOMAIN log', IsOpen(m)', IsOpen(n)',
               log'[m].id = log'[n].id
        PROVE  m = n
    <3>1. CASE m = m0 \/ n = m0
      BY <3>1, <2>1, <2>2, <1>0
    <3>2. CASE m /= m0 /\ n /= m0
      BY <3>2, <2>0, <2>2, <1>0, <1>10 DEF ChannelsInv
    <3> QED
      BY <3>1, <3>2
  <2>3. ASSUME NEW id \in DOMAIN channels'
        PROVE  \E m \in DOMAIN log' : IsOpen(m)' /\ log'[m].id = id /\ channels'[id] = (Collected(m))'
    <3>1. PICK m \in DOMAIN log : IsOpen(m) /\ log[m].id = id /\ channels[id] = Collected(m)
      BY <2>0, <1>2 DEF ChannelsInv
    <3>2. (Collected(m))' = Collected(m)
      BY <1>0, <1>2 DEF Collected
    <3> QED
      BY <3>1, <3>2, <1>0, <1>2, <1>10
  <2>4. ASSUME NEW m \in DOMAIN log', IsOpen(m)', (Parts(m))' \cap received' /= {}
        PROVE  log'[m].id \in DOMAIN channels'
    <3>1. m \in DOMAIN log
      BY <2>4, <1>0, <1>11
    <3> QED
      BY <3>1, <2>4, <2>0, <1>0, <1>1, <1>2, <1>10 DEF ChannelsInv
  <2> QED
    BY <2>2, <2>3, <2>4 DEF ChannelsInv
<1>13. RebuiltIntact'
  BY <1>0, <1>1, <1>2 DEF SplitInv, RebuiltIntact
<1>14. NoPartStranded'
  <2> SUFFICES ASSUME NEW m \in DOMAIN log', WholeArrived(m)' PROVE (OwnParts(m))' \in output'
    BY DEF NoPartStranded
  <2>1. m \in DOMAIN log
    BY <1>0, <1>11
  <2>2. WholeArrived(m)
    BY <2>1, <1>1, <1>2 DEF WholeArrived
  <2> QED
    BY <2>1, <2>2, <1>1, <1>2 DEF SplitInv, NoPartStranded
<1> QED
  BY <1>7, <1>8, <1>9, <1>12, <1>13, <1>14 DEF SplitInv

Extended(g, f, n, x) == g = [m \in 1 .. (n + 1) |-> IF m = n + 1 THEN x ELSE f[m]]

(* Appending to a sequence, as a function.                                 *)
LEMMA ReceiptsGrow ==
    ASSUME NEW n \in Nat, NEW S, NEW f \in [1 .. n -> S], NEW x
    PROVE  Extended(Append(f, x), f, n, x)
<1>1. f \in Seq(S) /\ Len(f) = n
  OBVIOUS
<1>2. PICK T : T = S \cup {x}
  OBVIOUS
<1>3. f \in Seq(T) /\ x \in T
  BY <1>1, <1>2
<1>4. PICK g : g = Append(f, x)
  OBVIOUS
<1>5. g \in Seq(T) /\ Len(g) = n + 1 /\ DOMAIN g = 1 .. (n + 1)
  BY <1>1, <1>3, <1>4
<1>6. \A m \in 1 .. (n + 1) : g[m] = IF m = n + 1 THEN x ELSE f[m]
  BY <1>1, <1>3, <1>4
<1>7. g = [m \in 1 .. (n + 1) |-> g[m]]
  BY <1>5
<1> QED
  BY <1>4, <1>6, <1>7 DEF Extended

(* The log and the receipts after Logged.                                  *)
LoggedAs(m0, r, count) ==
    /\ LogGrows(m0) /\ m0 \in Nat
    /\ log'[m0].count = count /\ log'[m0].id = splitPacketId
    /\ log'[m0].reliability = r
    /\ (Parts(m0))' = {<<m0, i>> : i \in 0 .. count - 1}
    /\ receipts' = [m \in DOMAIN log' |-> IF m = m0 THEN <<>> ELSE receipts[m]]
    /\ UNCHANGED <<culled, resendBuffer, receiptHistory, wire, receiverVars>>

(* Logged in terms of the log before and after.                            *)
LEMMA LoggedFacts ==
    ASSUME SplitInv, NEW p \in Priority, NEW r \in {"RELIABLE", "RELIABLE_WITH_ACK_RECEIPT"} \cup Reliabilities,
           NEW count \in 1 .. MaxParts, Logged(p, r, count), NEW m0, m0 = Len(log) + 1
    PROVE  LoggedAs(m0, r, count)
<1>1. log \in Seq(Message) /\ splitPacketId \in 0 .. IdRange - 1
  BY DEF SplitInv, StateTypes
<1>2. PICK rec \in Message : rec = [priority |-> p, reliability |-> r, count |-> count, id |-> splitPacketId]
  BY <1>1 DEF Message
<1>3. log' = Append(log, rec)
  BY <1>2 DEF Logged
<1>4. LogGrows(m0) /\ log'[m0] = rec /\ m0 \in Nat
  BY <1>1, <1>3, LoggedGrows
<1>5. (Parts(m0))' = {<<m0, i>> : i \in 0 .. count - 1}
  BY <1>2, <1>4 DEF Parts
<1>6. receipts' = [m \in DOMAIN log' |-> IF m = m0 THEN <<>> ELSE receipts[m]]
  <2>1. PICK n \in Nat : n = Len(log) /\ m0 = n + 1 /\ DOMAIN log = 1 .. n
    BY <1>1
  <2>2. DOMAIN log' = 1 .. (n + 1)
    BY <2>1, <1>1, <1>3
  <2>3. receipts \in [1 .. n -> Seq({"ACKED", "LOSS"})]
    BY <2>1 DEF SplitInv, StateTypes
  <2>4. receipts' = Append(receipts, <<>>)
    BY DEF Logged
  <2> QED
    <3>1. Append(receipts, <<>>) = [m \in 1 .. (n + 1) |-> IF m = n + 1 THEN <<>> ELSE receipts[m]]
      <4>1. PICK S : S = Seq({"ACKED", "LOSS"})
        OBVIOUS
      <4>2. PICK f \in [1 .. n -> S] : f = receipts
        BY <2>3, <4>1
      <4>3. PICK x : x = <<>>
        OBVIOUS
      <4>4. Extended(Append(f, x), f, n, x)
        BY ReceiptsGrow
      <4> QED
        BY <4>2, <4>3, <4>4 DEF Extended
    <3> QED
      BY <3>1, <2>1, <2>2, <2>4
<1>7. UNCHANGED <<culled, resendBuffer, receiptHistory, wire, receiverVars>>
  BY DEF Logged
<1>8. rec.count = count /\ rec.id = splitPacketId /\ rec.reliability = r
  BY <1>2
<1> QED
  BY <1>4, <1>5, <1>6, <1>7, <1>8 DEF LoggedAs

(* Send of a message that fits a datagram.                                 *)
LEMMA SendWholeKeeps ==
    ASSUME SplitInv, NEW p \in Priorities, NEW r \in Reliabilities, SendWhole(p, r)
    PROVE  SplitInv'
<1>1. PICK m0 : m0 = Len(log) + 1
  OBVIOUS
<1>2. p \in Priority /\ 1 \in 1 .. MaxParts /\ Logged(p, r, 1)
  BY SplitAssumption DEF SendWhole
<1>3. /\ LogGrows(m0) /\ m0 \in Nat
      /\ log'[m0].count = 1 /\ log'[m0].id = splitPacketId
      /\ (Parts(m0))' = {<<m0, i>> : i \in 0 .. 1 - 1}
      /\ receipts' = [m \in DOMAIN log' |-> IF m = m0 THEN <<>> ELSE receipts[m]]
      /\ UNCHANGED <<culled, resendBuffer, receiptHistory, wire, receiverVars>>
  <2>1. LoggedAs(m0, r, 1)
    BY <1>1, <1>2, LoggedFacts
  <2> QED
    BY <2>1 DEF LoggedAs
<1>4. PICK part : part = <<m0, 0>>
  OBVIOUS
<1>5. (Parts(m0))' = {part}
  BY <1>3, <1>4
<1>6. PICK Q : Q = Part'
  OBVIOUS
<1>7. Part \subseteq Q /\ part \in Q /\ part \notin Part
  BY <1>3, <1>5, <1>6 DEF LogGrows
<1>8. OutgoingOK(outgoing, Q)
  BY <1>7, OutgoingGrows DEF SplitInv, StateTypes
<1>9. part \notin PartsOf(outgoing.heap)
  <2>1. outgoing.heap \in Seq(HeapNode(Part))
    BY DEF SplitInv, StateTypes, OutgoingOK, QueueOK
  <2>2. \A i \in DOMAIN outgoing.heap : outgoing.heap[i] \in HeapNode(Part)
    BY <2>1
  <2> QED
    BY <2>2, <1>7 DEF PartsOf, HeapNode
<1>10. outgoing' = Enqueued(outgoing, p, part)
  BY <1>1, <1>4 DEF SendWhole
<1>11. OutgoingOK(outgoing', Q) /\ PartsOf(outgoing'.heap) = PartsOf(outgoing.heap) \cup {part}
  BY <1>2, <1>7, <1>8, <1>9, <1>10, EnqueuedKeeps
<1>12. QueuedParts' = QueuedParts \cup (Parts(m0))'
  BY <1>5, <1>11 DEF QueuedParts, PartsOf
<1>13. splitPacketId' \in 0 .. IdRange - 1
  BY DEF SendWhole, SplitInv, StateTypes
<1>14. SendsMessage(m0, 1)
  BY <1>3, <1>6, <1>11, <1>12, <1>13 DEF SendsMessage
<1> QED
  BY <1>14, SendKeeps

(* Send of a message that is split: no open message has its id.            *)
LEMMA SendSplitKeeps ==
    ASSUME SplitInv, NEW p \in Priorities, NEW reliability \in Reliabilities,
           NEW count \in 2 .. MaxParts, SendSplit(p, reliability, count)
    PROVE  SplitInv'
<1>1. PICK m0 : m0 = Len(log) + 1
  OBVIOUS
<1>2. PICK r \in {"RELIABLE", "RELIABLE_WITH_ACK_RECEIPT"} : r = Upgraded(reliability)
  <2>1. reliability \in {"UNRELIABLE", "UNRELIABLE_WITH_ACK_RECEIPT",
                         "RELIABLE", "RELIABLE_WITH_ACK_RECEIPT"}
    BY SplitAssumption
  <2> QED
    BY <2>1 DEF Upgraded
<1>3. p \in Priority /\ count \in 1 .. MaxParts /\ Logged(p, r, count) /\ count \in Nat \ {0}
  BY <1>2, SplitAssumption DEF SendSplit
<1>4. /\ LogGrows(m0) /\ m0 \in Nat
      /\ log'[m0].count = count /\ log'[m0].id = splitPacketId
      /\ log'[m0].reliability = r
      /\ (Parts(m0))' = {<<m0, i>> : i \in 0 .. count - 1}
      /\ receipts' = [m \in DOMAIN log' |-> IF m = m0 THEN <<>> ELSE receipts[m]]
      /\ UNCHANGED <<culled, resendBuffer, receiptHistory, wire, receiverVars>>
  <2>1. LoggedAs(m0, r, count)
    BY <1>1, <1>2, <1>3, LoggedFacts
  <2> QED
    BY <2>1 DEF LoggedAs
<1>5. PICK parts : parts = [i \in 1 .. count |-> <<m0, i - 1>>]
  OBVIOUS
<1>6. (Parts(m0))' = {parts[i] : i \in 1 .. count}
  <2>1. \A i \in 1 .. count : parts[i] = <<m0, i - 1>> /\ i - 1 \in 0 .. count - 1
    BY <1>5
  <2>2. \A i \in 0 .. count - 1 : i + 1 \in 1 .. count /\ parts[i + 1] = <<m0, i>>
    BY <1>5
  <2> QED
    BY <2>1, <2>2, <1>4
<1>7. PICK Q : Q = Part'
  OBVIOUS
<1>8. Part \subseteq Q /\ (Parts(m0))' \subseteq Q /\ \A part \in (Parts(m0))' : part \notin Part
  BY <1>4, <1>7 DEF LogGrows
<1>9. OutgoingOK(outgoing, Q)
  BY <1>8, OutgoingGrows DEF SplitInv, StateTypes
<1>10. parts \in [1 .. count -> Q]
  BY <1>5, <1>6, <1>8
<1>11. \A i \in 1 .. count : parts[i] \notin PartsOf(outgoing.heap)
  <2>1. outgoing.heap \in Seq(HeapNode(Part))
    BY DEF SplitInv, StateTypes, OutgoingOK, QueueOK
  <2>2. \A i \in DOMAIN outgoing.heap : outgoing.heap[i] \in HeapNode(Part)
    BY <2>1
  <2>3. PartsOf(outgoing.heap) \subseteq Part
    BY <2>2 DEF PartsOf, HeapNode
  <2> QED
    BY <2>3, <1>6, <1>8
<1>12. \A i, j \in 1 .. count : parts[i] = parts[j] => i = j
  BY <1>5
<1>13. outgoing' = EnqueuedSeries(outgoing, p, parts)
  BY <1>1, <1>5 DEF SendSplit
<1>14. /\ OutgoingOK(outgoing', Q)
       /\ PartsOf(outgoing'.heap) = PartsOf(outgoing.heap) \cup {parts[i] : i \in 1 .. count}
  <2>1. NewParts(outgoing, parts, count, Q)
    BY <1>10, <1>11, <1>12 DEF NewParts
  <2>2. WithParts(outgoing, EnqueuedSeries(outgoing, p, parts), parts, count, Q)
    BY <2>1, <1>3, <1>9, EnqueuedSeriesKeeps
  <2> QED
    BY <2>2, <1>13 DEF WithParts
<1>15. QueuedParts' = QueuedParts \cup (Parts(m0))'
  BY <1>6, <1>14 DEF QueuedParts, PartsOf
<1>16. splitPacketId' \in 0 .. IdRange - 1
  BY SplitAssumption DEF SendSplit, SplitInv, StateTypes
<1>17. IdIsFree /\ (IsReliable(m0))'
  BY <1>4 DEF SendSplit, IsReliable
<1>18. SendsMessage(m0, count)
  BY <1>4, <1>7, <1>14, <1>15, <1>16, <1>17 DEF SendsMessage
<1> QED
  BY <1>3, <1>18, SendKeeps

-----------------------------------------------------------------------------
(* The other actions leave the log alone                                   *)

(* What depends on the log only.                                           *)
LEMMA SameLog ==
    ASSUME log' = log
    PROVE  /\ Part' = Part
           /\ \A m : /\ IsReliable(m)' <=> IsReliable(m)
                     /\ WantsReceipt(m)' <=> WantsReceipt(m)
                     /\ IsSplit(m)' <=> IsSplit(m)
                     /\ (Parts(m))' = Parts(m)
                     /\ (OwnParts(m))' = OwnParts(m)
                     /\ LastPart(m)' = LastPart(m)
BY DEF Part, IsReliable, WantsReceipt, IsSplit, Parts, OwnParts, LastPart

(* A step that leaves the receiver alone.                                  *)
LEMMA ChannelsStay ==
    ASSUME SplitInv, log' = log, UNCHANGED receiverVars
    PROVE  ChannelsInv' /\ RebuiltIntact' /\ NoPartStranded'
<1>1. received' = received /\ channels' = channels /\ output' = output
  BY DEF receiverVars
<1>2. \A m : /\ IsOpen(m)' <=> IsOpen(m)
             /\ WholeArrived(m)' <=> WholeArrived(m)
             /\ (Collected(m))' = Collected(m)
             /\ (OwnParts(m))' = OwnParts(m)
             /\ (Parts(m))' = Parts(m)
  BY <1>1, SameLog DEF IsOpen, WholeArrived, Collected
<1>3. ChannelsInv'
  BY <1>1, <1>2 DEF SplitInv, ChannelsInv
<1>4. RebuiltIntact' /\ NoPartStranded'
  BY <1>1, <1>2 DEF SplitInv, RebuiltIntact, NoPartStranded
<1> QED
  BY <1>3, <1>4

(* The invariant, unfolded.                                                *)
LEMMA StateFacts ==
    ASSUME SplitInv
    PROVE  /\ log \in Seq(Message)
           /\ OutgoingOK(outgoing, Part)
           /\ splitPacketId \in 0 .. IdRange - 1
           /\ culled \subseteq DOMAIN log
           /\ resendBuffer \subseteq Part /\ wire \subseteq Part /\ received \subseteq Part
           /\ receiptHistory \subseteq DOMAIN log
           /\ progress \subseteq (DOMAIN log) \X Nat
           /\ receipts \in [DOMAIN log -> Seq({"ACKED", "LOSS"})]
           /\ \A m \in DOMAIN log : ~IsReliable(m) => log[m].count = 1
           /\ PartsInv /\ ReceiptsInv /\ ChannelsInv
           /\ QueuedParts \subseteq Part
<1>1. QueuedParts \subseteq Part
  <2>1. outgoing.heap \in Seq(HeapNode(Part))
    BY DEF SplitInv, StateTypes, OutgoingOK, QueueOK
  <2>2. \A i \in DOMAIN outgoing.heap : outgoing.heap[i] \in HeapNode(Part)
    BY <2>1
  <2> QED
    BY <2>2 DEF QueuedParts, HeapNode
<1> QED
  BY <1>1 DEF SplitInv, StateTypes

(* What the receipt of message m depends on.                               *)
ReceiptIsRight(m) ==
    IF WantsReceipt(m) /\ ~Waiting(m)
    THEN \/ receipts[m] = <<"ACKED">> /\ LastPart(m) \in received
         \/ receipts[m] = <<"LOSS">> /\ ~IsReliable(m)
    ELSE receipts[m] = <<>>

(* The receipt of a message a step has nothing to do with.                 *)
LEMMA ReceiptStays ==
    ASSUME NEW m \in DOMAIN log, ReceiptsInv, log' = log,
           receipts'[m] = receipts[m], received \subseteq received',
           WantsReceipt(m) => (Waiting(m)' <=> Waiting(m))
    PROVE  ReceiptIsRight(m)'
<1>1. ReceiptIsRight(m)
  BY DEF ReceiptsInv, ReceiptIsRight
<1>2. /\ WantsReceipt(m)' <=> WantsReceipt(m)
      /\ IsReliable(m)' <=> IsReliable(m)
      /\ LastPart(m)' = LastPart(m)
  BY SameLog
<1> QED
  BY <1>1, <1>2 DEF ReceiptIsRight

-----------------------------------------------------------------------------
(* A culled message waits for ever, without a receipt.                     *)
LEMMA CullKeeps ==
    ASSUME SplitInv, NEW last \in DOMAIN log, CullUnreliable(last)
    PROVE  SplitInv'
<1>0. PICK old : /\ old = {m \in 1 .. last : ~IsReliable(m) /\ <<m, 0>> \in QueuedParts}
                 /\ culled' = culled \cup old
                 /\ UNCHANGED <<log, outgoing, splitPacketId, receiptVars, wire, receiverVars>>
  BY DEF CullUnreliable
<1>1. /\ log' = log /\ outgoing' = outgoing /\ splitPacketId' = splitPacketId
      /\ resendBuffer' = resendBuffer /\ receiptHistory' = receiptHistory /\ receipts' = receipts
      /\ wire' = wire /\ received' = received /\ progress' = progress
      /\ UNCHANGED receiverVars /\ QueuedParts' = QueuedParts
  BY <1>0 DEF receiptVars, receiverVars, QueuedParts
<1>2. \A m \in old : m \in DOMAIN log /\ ~IsReliable(m) /\ <<m, 0>> \in QueuedParts
  <2>1. log \in Seq(Message)
    BY StateFacts
  <2>2. DOMAIN log = 1 .. Len(log) /\ Len(log) \in Nat
    BY <2>1
  <2>3. \A m \in 1 .. last : m \in DOMAIN log
    BY <2>2
  <2> QED
    BY <2>3, <1>0
<1>3. StateTypes'
  BY <1>0, <1>1, <1>2, StateFacts, SameLog DEF StateTypes
<1>4. PartsInv'
  <2>1. PartsInv
    BY StateFacts
  <2>2. \A m \in culled' : ~IsReliable(m)'
    BY <2>1, <1>0, <1>1, <1>2, SameLog DEF PartsInv
  <2>3. \A m \in receiptHistory' :
          (~IsReliable(m) /\ WantsReceipt(m) /\ m \notin culled /\ <<m, 0>> \notin QueuedParts)'
    BY <2>1, <1>0, <1>1, <1>2, SameLog DEF PartsInv
  <2> QED
    BY <2>1, <2>2, <2>3, <1>1, SameLog DEF PartsInv
<1>5. ReceiptsInv'
  <2> SUFFICES ASSUME NEW m \in DOMAIN log PROVE ReceiptIsRight(m)'
    BY <1>1 DEF ReceiptsInv, ReceiptIsRight
  <2>1. Waiting(m)' <=> Waiting(m)
    <3>1. LastPart(m)' = LastPart(m)
      BY <1>1, SameLog
    <3>2. m \in old => LastPart(m) \in QueuedParts
      <4>1. ~IsReliable(m) => log[m].count = 1
        BY StateFacts
      <4>2. log[m].count = 1 => LastPart(m) = <<m, 0>>
        BY DEF LastPart
      <4> QED
        BY <4>1, <4>2, <1>2
    <3> QED
      BY <3>1, <3>2, <1>0, <1>1 DEF Waiting
  <2>2. ReceiptsInv
    BY StateFacts
  <2> QED
    BY <2>1, <2>2, <1>1, ReceiptStays
<1> QED
  BY <1>1, <1>3, <1>4, <1>5, ChannelsStay DEF SplitInv

(* Taking the head of the queue removes its part and no other.             *)
LEMMA DequeueFacts ==
    ASSUME SplitInv, Dequeue
    PROVE  /\ OutgoingOK(outgoing', Part)
           /\ QueuedParts' = QueuedParts \ {NextPart}
           /\ NextPart \in QueuedParts /\ NextPart \in Part
           /\ log' = log /\ splitPacketId' = splitPacketId /\ culled' = culled
           /\ receipts' = receipts /\ UNCHANGED receiverVars
<1>1. OutgoingOK(outgoing, Part)
  BY StateFacts
<1>2. PICK heap : heap = outgoing.heap
  OBVIOUS
<1>3. PICK weights : weights = outgoing.weights
  OBVIOUS
<1>4. outgoing = [heap |-> heap, weights |-> weights] /\ QueueOK(heap, Part) /\ WeightsOK(weights)
  BY <1>1, <1>2, <1>3 DEF OutgoingOK
<1>5. heap /= <<>> /\ outgoing' = [heap |-> Pop(heap), weights |-> weights]
  BY <1>2, <1>4 DEF Dequeue
<1>6. /\ QueueOK(Pop(heap), Part)
      /\ PartsOf(Pop(heap)) = PartsOf(heap) \ {Head(heap).part}
      /\ Head(heap).part \in PartsOf(heap)
  BY <1>4, <1>5, PopKeepsQueue
<1>7. OutgoingOK(outgoing', Part)
  BY <1>4, <1>5, <1>6 DEF OutgoingOK
<1>8. QueuedParts' = PartsOf(Pop(heap)) /\ QueuedParts = PartsOf(heap) /\ NextPart = Head(heap).part
  BY <1>2, <1>5 DEF QueuedParts, PartsOf, NextPart
<1>9. NextPart \in Part
  BY <1>6, <1>8, StateFacts
<1> QED
  BY <1>6, <1>7, <1>8, <1>9 DEF Dequeue

(* The head of the queue was culled.                                       *)
LEMMA DropCulledKeeps ==
    ASSUME SplitInv, DropCulled
    PROVE  SplitInv'
<1>0. Dequeue /\ NextPart[1] \in culled
  BY DEF DropCulled
<1>1. /\ OutgoingOK(outgoing', Part)
      /\ QueuedParts' = QueuedParts \ {NextPart}
      /\ NextPart \in QueuedParts /\ NextPart \in Part
      /\ log' = log /\ splitPacketId' = splitPacketId /\ culled' = culled
      /\ receipts' = receipts /\ UNCHANGED receiverVars
  BY <1>0, DequeueFacts
<1>2. /\ wire' = wire /\ resendBuffer' = resendBuffer /\ receiptHistory' = receiptHistory
      /\ received' = received /\ progress' = progress
  BY <1>1 DEF DropCulled, receiverVars
<1>3. ~IsReliable(NextPart[1])
  BY <1>0, StateFacts DEF PartsInv
<1>4. StateTypes'
  BY <1>1, <1>2, StateFacts, SameLog DEF StateTypes
<1>5. PartsInv'
  <2>1. PartsInv
    BY StateFacts
  <2>2. ASSUME NEW part \in Part, IsReliable(part[1])
        PROVE  part \in QueuedParts' \cup wire' \cup received'
    BY <2>1, <2>2, <1>1, <1>2, <1>3 DEF PartsInv
  <2>3. \A m \in receiptHistory' :
          (~IsReliable(m) /\ WantsReceipt(m) /\ m \notin culled /\ <<m, 0>> \notin QueuedParts)'
    BY <2>1, <1>1, <1>2, SameLog DEF PartsInv
  <2>4. QueuedParts' \cap (wire \cup received \cup resendBuffer)' = {} /\ wire' \cap received' = {}
    BY <2>1, <1>1, <1>2 DEF PartsInv
  <2>5. (\A m \in culled' : ~IsReliable(m)') /\ \A part \in resendBuffer' : IsReliable(part[1])'
    BY <2>1, <1>1, <1>2, SameLog DEF PartsInv
  <2> QED
    BY <2>2, <2>3, <2>4, <2>5, <1>1, SameLog DEF PartsInv
<1>6. ReceiptsInv'
  <2> SUFFICES ASSUME NEW m \in DOMAIN log PROVE ReceiptIsRight(m)'
    BY <1>1 DEF ReceiptsInv, ReceiptIsRight
  <2>1. Waiting(m)' <=> Waiting(m)
    <3>1. LastPart(m)' = LastPart(m) /\ LastPart(m)[1] = m
      BY <1>1, SameLog DEF LastPart
    <3>2. LastPart(m) = NextPart => m \in culled
      BY <3>1, <1>0
    <3> QED
      BY <3>1, <3>2, <1>1, <1>2 DEF Waiting
  <2>2. ReceiptsInv
    BY StateFacts
  <2> QED
    BY <2>1, <2>2, <1>1, <1>2, ReceiptStays
<1> QED
  BY <1>1, <1>4, <1>5, <1>6, ChannelsStay DEF SplitInv

(* The head of the queue is sent.                                          *)
LEMMA SendNextPartKeeps ==
    ASSUME SplitInv, SendNextPart
    PROVE  SplitInv'
<1>1. /\ OutgoingOK(outgoing', Part)
      /\ QueuedParts' = QueuedParts \ {NextPart}
      /\ NextPart \in QueuedParts /\ NextPart \in Part
      /\ log' = log /\ splitPacketId' = splitPacketId /\ culled' = culled
      /\ receipts' = receipts /\ UNCHANGED receiverVars
  BY DequeueFacts DEF SendNextPart
<1>2. PICK m0, part : part = NextPart /\ m0 = part[1]
  OBVIOUS
<1>3. /\ m0 \notin culled /\ wire' = wire \cup {part}
      /\ resendBuffer' = IF IsReliable(m0) THEN resendBuffer \cup {part} ELSE resendBuffer
      /\ receiptHistory' = IF ~IsReliable(m0) /\ WantsReceipt(m0)
                           THEN receiptHistory \cup {m0} ELSE receiptHistory
      /\ received' = received /\ progress' = progress
  BY <1>1, <1>2 DEF SendNextPart, receiverVars
<1>4. m0 \in DOMAIN log /\ part = <<m0, part[2]>> /\ part[2] \in 0 .. log[m0].count - 1
  BY <1>1, <1>2, StateFacts, PartFacts
<1>5. ~IsReliable(m0) => part = <<m0, 0>> /\ LastPart(m0) = part
  <2>1. ~IsReliable(m0) => log[m0].count = 1
    BY <1>4, StateFacts
  <2>2. ~IsReliable(m0) => part[2] = 0
    BY <2>1, <1>4
  <2> QED
    BY <2>1, <2>2, <1>4 DEF LastPart
<1>6. StateTypes'
  BY <1>1, <1>2, <1>3, <1>4, StateFacts, SameLog DEF StateTypes
<1>7. PartsInv'
  <2>1. PartsInv
    BY StateFacts
  <2>2. ASSUME NEW x \in Part, IsReliable(x[1])
        PROVE  x \in QueuedParts' \cup wire' \cup received'
    BY <2>1, <2>2, <1>1, <1>2, <1>3 DEF PartsInv
  <2>3. ASSUME NEW m \in receiptHistory'
        PROVE  (~IsReliable(m) /\ WantsReceipt(m) /\ m \notin culled /\ <<m, 0>> \notin QueuedParts)'
    <3>1. CASE m \in receiptHistory
      BY <3>1, <2>1, <1>1, <1>2, <1>3, SameLog DEF PartsInv
    <3>2. CASE m = m0 /\ ~IsReliable(m0) /\ WantsReceipt(m0)
      BY <3>2, <1>1, <1>2, <1>3, <1>5, SameLog
    <3> QED
      BY <3>1, <3>2, <2>3, <1>3
  <2>4. QueuedParts' \cap (wire \cup received \cup resendBuffer)' = {} /\ wire' \cap received' = {}
    BY <2>1, <1>1, <1>2, <1>3 DEF PartsInv
  <2>5. (\A m \in culled' : ~IsReliable(m)') /\ \A x \in resendBuffer' : IsReliable(x[1])'
    BY <2>1, <1>1, <1>2, <1>3, SameLog DEF PartsInv
  <2> QED
    BY <2>2, <2>3, <2>4, <2>5, <1>1, SameLog DEF PartsInv
<1>8. ReceiptsInv'
  <2> SUFFICES ASSUME NEW m \in DOMAIN log PROVE ReceiptIsRight(m)'
    BY <1>1 DEF ReceiptsInv, ReceiptIsRight
  <2>1. WantsReceipt(m) => (Waiting(m)' <=> Waiting(m))
    <3> SUFFICES ASSUME WantsReceipt(m) PROVE Waiting(m)' <=> Waiting(m)
      OBVIOUS
    <3>1. LastPart(m)' = LastPart(m) /\ LastPart(m)[1] = m
      BY <1>1, SameLog DEF LastPart
    <3>2. CASE LastPart(m) = part
      <4>1. m = m0 /\ Waiting(m)
        BY <3>1, <3>2, <1>1, <1>2 DEF Waiting
      <4>2. Waiting(m)'
        BY <3>1, <3>2, <4>1, <1>3 DEF Waiting
      <4> QED
        BY <4>1, <4>2
    <3>3. CASE LastPart(m) /= part
      <4>1. ~IsReliable(m0) => m /= m0
        BY <3>3, <1>5
      <4>2. LastPart(m) \in QueuedParts' \cup resendBuffer' <=> LastPart(m) \in QueuedParts \cup resendBuffer
        BY <3>3, <1>1, <1>2, <1>3
      <4>3. m \in receiptHistory' \cup culled' <=> m \in receiptHistory \cup culled
        BY <4>1, <1>1, <1>3
      <4> QED
        BY <4>2, <4>3, <3>1 DEF Waiting
    <3> QED
      BY <3>2, <3>3
  <2>2. ReceiptsInv
    BY StateFacts
  <2> QED
    BY <2>1, <2>2, <1>1, <1>3, ReceiptStays
<1> QED
  BY <1>1, <1>6, <1>7, <1>8, ChannelsStay DEF SplitInv

(* The timer of a receipt expires.                                         *)
LEMMA ReceiptLossKeeps ==
    ASSUME SplitInv, NEW m0 \in DOMAIN log, ReceiptLoss(m0)
    PROVE  SplitInv'
<1>1. /\ m0 \in receiptHistory /\ receiptHistory' = receiptHistory \ {m0}
      /\ receipts' = [receipts EXCEPT ![m0] = Append(@, "LOSS")]
      /\ log' = log /\ outgoing' = outgoing /\ splitPacketId' = splitPacketId /\ culled' = culled
      /\ resendBuffer' = resendBuffer /\ wire' = wire
      /\ received' = received /\ progress' = progress
      /\ UNCHANGED receiverVars /\ QueuedParts' = QueuedParts
  BY DEF ReceiptLoss, senderVars, receiverVars, QueuedParts
<1>2. PartsInv
  BY StateFacts
<1>3. ~IsReliable(m0) /\ WantsReceipt(m0) /\ m0 \notin culled /\ <<m0, 0>> \notin QueuedParts
  BY <1>1, <1>2 DEF PartsInv
<1>4. LastPart(m0) = <<m0, 0>> /\ LastPart(m0) \notin resendBuffer
  <2>1. log[m0].count = 1
    BY <1>3, StateFacts
  <2>2. LastPart(m0) = <<m0, 0>>
    BY <2>1 DEF LastPart
  <2>3. LastPart(m0) \in resendBuffer => IsReliable(m0)
    BY <1>2, <2>2 DEF PartsInv
  <2> QED
    BY <2>2, <2>3, <1>3
<1>5. receipts[m0] = <<>>
  BY <1>1, StateFacts DEF ReceiptsInv, Waiting
<1>6. receipts'[m0] = <<"LOSS">> /\ \A m \in DOMAIN log : m /= m0 => receipts'[m] = receipts[m]
  <2>1. receipts \in [DOMAIN log -> Seq({"ACKED", "LOSS"})]
    BY StateFacts
  <2>2. Append(<<>>, "LOSS") = <<"LOSS">>
    OBVIOUS
  <2> QED
    BY <2>1, <2>2, <1>1, <1>5
<1>7. StateTypes'
  <2>1. receipts' \in [DOMAIN log -> Seq({"ACKED", "LOSS"})]
    BY <1>1, StateFacts
  <2> QED
    BY <2>1, <1>1, StateFacts, SameLog DEF StateTypes
<1>8. PartsInv'
  BY <1>1, <1>2, SameLog DEF PartsInv
<1>9. ReceiptsInv'
  <2> SUFFICES ASSUME NEW m \in DOMAIN log PROVE ReceiptIsRight(m)'
    BY <1>1 DEF ReceiptsInv, ReceiptIsRight
  <2>0. LastPart(m)' = LastPart(m) /\ (IsReliable(m)' <=> IsReliable(m))
    BY <1>1, SameLog
  <2>1. CASE m = m0
    <3>1. ~Waiting(m0)'
      BY <2>0, <2>1, <1>1, <1>3, <1>4 DEF Waiting
    <3>2. WantsReceipt(m0)'
      BY <1>1, <1>3, SameLog
    <3> QED
      BY <2>0, <2>1, <3>1, <3>2, <1>3, <1>6 DEF ReceiptIsRight
  <2>2. CASE m /= m0
    <3>1. Waiting(m)' <=> Waiting(m)
      BY <2>0, <2>2, <1>1 DEF Waiting
    <3>2. ReceiptsInv /\ receipts'[m] = receipts[m] /\ received \subseteq received'
      BY <2>2, <1>1, <1>6, StateFacts
    <3> QED
      BY <3>1, <3>2, <1>1, ReceiptStays
  <2> QED
    BY <2>1, <2>2
<1> QED
  BY <1>1, <1>7, <1>8, <1>9, ChannelsStay DEF SplitInv

(* An acknowledgement finds an entry of the receipt history.               *)
LEMMA AckUnreliableKeeps ==
    ASSUME SplitInv, NEW part \in Part, AckUnreliable(part)
    PROVE  SplitInv'
<1>0. PICK m0 : m0 = part[1]
  OBVIOUS
<1>1. /\ m0 \in receiptHistory /\ receiptHistory' = receiptHistory \ {m0} /\ part \in received
      /\ receipts' = [receipts EXCEPT ![m0] = Append(@, "ACKED")]
      /\ log' = log /\ outgoing' = outgoing /\ splitPacketId' = splitPacketId /\ culled' = culled
      /\ resendBuffer' = resendBuffer /\ wire' = wire
      /\ received' = received /\ progress' = progress
      /\ UNCHANGED receiverVars /\ QueuedParts' = QueuedParts
  BY <1>0 DEF AckUnreliable, senderVars, receiverVars, QueuedParts
<1>2. PartsInv /\ m0 \in DOMAIN log
  BY <1>1, StateFacts
<1>3. ~IsReliable(m0) /\ WantsReceipt(m0) /\ m0 \notin culled /\ <<m0, 0>> \notin QueuedParts
  BY <1>1, <1>2 DEF PartsInv
<1>4. LastPart(m0) = <<m0, 0>> /\ LastPart(m0) \notin resendBuffer /\ LastPart(m0) = part
  <2>1. log[m0].count = 1
    BY <1>2, <1>3, StateFacts
  <2>2. LastPart(m0) = <<m0, 0>>
    BY <2>1 DEF LastPart
  <2>3. LastPart(m0) \in resendBuffer => IsReliable(m0)
    BY <1>2, <2>2 DEF PartsInv
  <2>4. part[2] \in 0 .. log[m0].count - 1 /\ part = <<part[1], part[2]>>
    BY <1>0, StateFacts, PartFacts
  <2>5. part = <<m0, 0>>
    BY <2>1, <2>4, <1>0
  <2> QED
    BY <2>2, <2>3, <2>5, <1>3
<1>5. receipts[m0] = <<>>
  BY <1>1, <1>2, StateFacts DEF ReceiptsInv, Waiting
<1>6. receipts'[m0] = <<"ACKED">> /\ \A m \in DOMAIN log : m /= m0 => receipts'[m] = receipts[m]
  <2>1. receipts \in [DOMAIN log -> Seq({"ACKED", "LOSS"})]
    BY StateFacts
  <2>2. Append(<<>>, "ACKED") = <<"ACKED">>
    OBVIOUS
  <2> QED
    BY <2>1, <2>2, <1>1, <1>2, <1>5
<1>7. StateTypes'
  <2>1. receipts' \in [DOMAIN log -> Seq({"ACKED", "LOSS"})]
    BY <1>1, <1>2, StateFacts
  <2> QED
    BY <2>1, <1>1, StateFacts, SameLog DEF StateTypes
<1>8. PartsInv'
  BY <1>1, <1>2, SameLog DEF PartsInv
<1>9. ReceiptsInv'
  <2> SUFFICES ASSUME NEW m \in DOMAIN log PROVE ReceiptIsRight(m)'
    BY <1>1 DEF ReceiptsInv, ReceiptIsRight
  <2>0. LastPart(m)' = LastPart(m)
    BY <1>1, SameLog
  <2>1. CASE m = m0
    <3>1. ~Waiting(m0)'
      BY <2>0, <2>1, <1>1, <1>3, <1>4 DEF Waiting
    <3>2. WantsReceipt(m0)'
      BY <1>1, <1>3, SameLog
    <3> QED
      BY <2>0, <2>1, <3>1, <3>2, <1>1, <1>4, <1>6 DEF ReceiptIsRight
  <2>2. CASE m /= m0
    <3>1. Waiting(m)' <=> Waiting(m)
      BY <2>0, <2>2, <1>1 DEF Waiting
    <3>2. ReceiptsInv /\ receipts'[m] = receipts[m] /\ received \subseteq received'
      BY <2>2, <1>1, <1>6, StateFacts
    <3> QED
      BY <3>1, <3>2, <1>1, ReceiptStays
  <2> QED
    BY <2>1, <2>2
<1> QED
  BY <1>1, <1>7, <1>8, <1>9, ChannelsStay DEF SplitInv

(* An acknowledgement finds a part in the resend buffer.                   *)
LEMMA AckReliableKeeps ==
    ASSUME SplitInv, NEW part \in Part, AckReliable(part)
    PROVE  SplitInv'
<1>0. PICK m0 : m0 = part[1]
  OBVIOUS
<1>1. /\ part \in received /\ part \in resendBuffer /\ resendBuffer' = resendBuffer \ {part}
      /\ receipts' = IF MakesReceipt(part)
                     THEN [receipts EXCEPT ![m0] = Append(@, "ACKED")] ELSE receipts
      /\ log' = log /\ outgoing' = outgoing /\ splitPacketId' = splitPacketId /\ culled' = culled
      /\ receiptHistory' = receiptHistory /\ wire' = wire
      /\ received' = received /\ progress' = progress
      /\ UNCHANGED receiverVars /\ QueuedParts' = QueuedParts
  BY <1>0 DEF AckReliable, senderVars, receiverVars, QueuedParts
<1>2. /\ m0 \in DOMAIN log /\ part = <<m0, part[2]>> /\ part[2] \in 0 .. log[m0].count - 1
      /\ log[m0].count \in Nat
  BY <1>0, StateFacts, PartFacts
<1>3. PartsInv
  BY StateFacts
<1>4. IsReliable(m0) /\ part \notin QueuedParts /\ m0 \notin culled /\ m0 \notin receiptHistory
  BY <1>0, <1>1, <1>3 DEF PartsInv
<1>5. part[2] + 1 = log[m0].count <=> part = LastPart(m0)
  <2>1. part[2] + 1 = log[m0].count => part[2] = log[m0].count - 1
    BY <1>2
  <2>2. part = LastPart(m0) => part[2] = log[m0].count - 1
    BY DEF LastPart
  <2>3. part[2] = log[m0].count - 1 => part[2] + 1 = log[m0].count
    BY <1>2
  <2> QED
    BY <2>1, <2>2, <2>3, <1>2 DEF LastPart
<1>6. MakesReceipt(part) <=> WantsReceipt(m0) /\ part = LastPart(m0)
  BY <1>0, <1>5 DEF MakesReceipt
<1>7. MakesReceipt(part) => receipts[m0] = <<>>
  BY <1>1, <1>2, <1>6, StateFacts DEF ReceiptsInv, Waiting
<1>8. /\ MakesReceipt(part) => receipts'[m0] = <<"ACKED">>
      /\ \A m \in DOMAIN log : m /= m0 \/ ~MakesReceipt(part) => receipts'[m] = receipts[m]
  <2>1. receipts \in [DOMAIN log -> Seq({"ACKED", "LOSS"})]
    BY StateFacts
  <2>2. Append(<<>>, "ACKED") = <<"ACKED">>
    OBVIOUS
  <2> QED
    BY <2>1, <2>2, <1>1, <1>2, <1>7
<1>9. StateTypes'
  <2>1. receipts' \in [DOMAIN log -> Seq({"ACKED", "LOSS"})]
    BY <1>1, <1>2, StateFacts
  <2> QED
    BY <2>1, <1>1, StateFacts, SameLog DEF StateTypes
<1>10. PartsInv'
  BY <1>1, <1>3, SameLog DEF PartsInv
<1>11. ReceiptsInv'
  <2> SUFFICES ASSUME NEW m \in DOMAIN log PROVE ReceiptIsRight(m)'
    BY <1>1 DEF ReceiptsInv, ReceiptIsRight
  <2>0. LastPart(m)' = LastPart(m) /\ LastPart(m)[1] = m
    BY <1>1, SameLog DEF LastPart
  <2>1. CASE m = m0 /\ MakesReceipt(part)
    <3>1. ~Waiting(m0)'
      BY <2>0, <2>1, <1>1, <1>4, <1>6 DEF Waiting
    <3>2. WantsReceipt(m0)'
      BY <2>1, <1>1, <1>6, SameLog
    <3> QED
      BY <2>0, <2>1, <3>1, <3>2, <1>1, <1>6, <1>8 DEF ReceiptIsRight
  <2>2. CASE ~(m = m0 /\ MakesReceipt(part))
    <3>1. WantsReceipt(m) => (Waiting(m)' <=> Waiting(m))
      <4>1. WantsReceipt(m) => LastPart(m) /= part
        BY <2>0, <2>2, <1>0, <1>6
      <4> QED
        BY <4>1, <2>0, <1>1 DEF Waiting
    <3>2. ReceiptsInv /\ receipts'[m] = receipts[m] /\ received \subseteq received'
      BY <2>2, <1>1, <1>8, StateFacts
    <3> QED
      BY <3>1, <3>2, <1>1, ReceiptStays
  <2> QED
    BY <2>1, <2>2
<1> QED
  BY <1>1, <1>9, <1>10, <1>11, ChannelsStay DEF SplitInv

(* The network loses an unreliable message.                                *)
LEMMA LoseKeeps ==
    ASSUME SplitInv, NEW part \in Part, Lose(part)
    PROVE  SplitInv'
<1>1. /\ part \in wire /\ ~IsReliable(part[1]) /\ wire' = wire \ {part}
      /\ log' = log /\ outgoing' = outgoing /\ splitPacketId' = splitPacketId /\ culled' = culled
      /\ receiptHistory' = receiptHistory /\ resendBuffer' = resendBuffer /\ receipts' = receipts
      /\ received' = received /\ progress' = progress
      /\ UNCHANGED receiverVars /\ QueuedParts' = QueuedParts
  BY DEF Lose, senderVars, receiptVars, receiverVars, QueuedParts
<1>2. StateTypes'
  BY <1>1, StateFacts, SameLog DEF StateTypes
<1>3. PartsInv'
  <2>1. PartsInv
    BY StateFacts
  <2>2. \A x \in Part : IsReliable(x[1]) => x \in QueuedParts' \cup wire' \cup received'
    BY <2>1, <1>1 DEF PartsInv
  <2>3. QueuedParts' \cap (wire \cup received \cup resendBuffer)' = {} /\ wire' \cap received' = {}
    BY <2>1, <1>1 DEF PartsInv
  <2> QED
    BY <2>1, <2>2, <2>3, <1>1, SameLog DEF PartsInv
<1>4. ReceiptsInv'
  <2> SUFFICES ASSUME NEW m \in DOMAIN log PROVE ReceiptIsRight(m)'
    BY <1>1 DEF ReceiptsInv, ReceiptIsRight
  <2>1. Waiting(m)' <=> Waiting(m)
    BY <1>1, SameLog DEF Waiting
  <2>2. ReceiptsInv /\ receipts'[m] = receipts[m] /\ received \subseteq received'
    BY <1>1, StateFacts
  <2> QED
    BY <2>1, <2>2, <1>1, ReceiptStays
<1> QED
  BY <1>1, <1>2, <1>3, <1>4, ChannelsStay DEF SplitInv

-----------------------------------------------------------------------------
(* A part arrives                                                          *)

(* An arrival changes nothing of the queue and of the receipts.            *)
LEMMA ArrivesKeeps ==
    ASSUME SplitInv, NEW part \in Part, Arrives(part),
           progress' \subseteq (DOMAIN log) \X Nat
    PROVE  StateTypes' /\ PartsInv' /\ ReceiptsInv'
<1>1. /\ part \in wire /\ wire' = wire \ {part} /\ received' = received \cup {part}
      /\ log' = log /\ outgoing' = outgoing /\ splitPacketId' = splitPacketId /\ culled' = culled
      /\ receiptHistory' = receiptHistory /\ resendBuffer' = resendBuffer /\ receipts' = receipts
      /\ QueuedParts' = QueuedParts
  BY DEF Arrives, senderVars, receiptVars, QueuedParts
<1>2. StateTypes'
  BY <1>1, StateFacts, SameLog DEF StateTypes
<1>3. PartsInv'
  <2>1. PartsInv
    BY StateFacts
  <2>2. \A x \in Part : IsReliable(x[1]) => x \in QueuedParts' \cup wire' \cup received'
    BY <2>1, <1>1 DEF PartsInv
  <2>3. QueuedParts' \cap (wire \cup received \cup resendBuffer)' = {} /\ wire' \cap received' = {}
    BY <2>1, <1>1 DEF PartsInv
  <2> QED
    BY <2>1, <2>2, <2>3, <1>1, SameLog DEF PartsInv
<1>4. ReceiptsInv'
  <2> SUFFICES ASSUME NEW m \in DOMAIN log PROVE ReceiptIsRight(m)'
    BY <1>1 DEF ReceiptsInv, ReceiptIsRight
  <2>1. Waiting(m)' <=> Waiting(m)
    BY <1>1, SameLog DEF Waiting
  <2>2. ReceiptsInv /\ receipts'[m] = receipts[m] /\ received \subseteq received'
    BY <1>1, StateFacts
  <2> QED
    BY <2>1, <2>2, <1>1, ReceiptStays
<1> QED
  BY <1>2, <1>3, <1>4

(* An arrival concerns one message.                                        *)
LEMMA ArrivesFacts ==
    ASSUME SplitInv, NEW part \in Part, Arrives(part)
    PROVE  /\ part \notin received /\ received' = received \cup {part} /\ log' = log
           /\ part[1] \in DOMAIN log /\ part = <<part[1], part[2]>>
           /\ part[2] \in 0 .. log[part[1]].count - 1
           /\ log[part[1]].count \in Nat /\ log[part[1]].count >= 1
           /\ ~WholeArrived(part[1])
           /\ \A m \in DOMAIN log : m /= part[1] =>
                 /\ WholeArrived(m)' <=> WholeArrived(m)
                 /\ IsOpen(m)' <=> IsOpen(m)
                 /\ (Collected(m))' = Collected(m)
                 /\ (Parts(m))' \cap received' = Parts(m) \cap received
           /\ \A m : (OwnParts(m))' = OwnParts(m)
<1>1. part \notin received /\ received' = received \cup {part} /\ log' = log
  BY StateFacts DEF Arrives, senderVars, PartsInv
<1>2. /\ part[1] \in DOMAIN log /\ part = <<part[1], part[2]>>
      /\ part[2] \in 0 .. log[part[1]].count - 1
      /\ log[part[1]].count \in Nat /\ log[part[1]].count >= 1
  BY StateFacts, PartFacts
<1>3. ~WholeArrived(part[1])
  BY <1>1, <1>2 DEF WholeArrived, Parts
<1>4. ASSUME NEW m \in DOMAIN log, m /= part[1]
      PROVE  /\ WholeArrived(m)' <=> WholeArrived(m)
             /\ IsOpen(m)' <=> IsOpen(m)
             /\ (Collected(m))' = Collected(m)
             /\ (Parts(m))' \cap received' = Parts(m) \cap received
  <2>1. part \notin Parts(m) /\ \A i : <<m, i>> /= part
    BY <1>4 DEF Parts
  <2>2. (Parts(m))' = Parts(m) /\ (IsSplit(m)' <=> IsSplit(m)) /\ log'[m] = log[m]
    BY <1>1, SameLog
  <2>3. WholeArrived(m)' <=> WholeArrived(m)
    BY <2>1, <2>2, <1>1 DEF WholeArrived
  <2>4. (Collected(m))' = Collected(m)
    BY <2>1, <2>2, <1>1 DEF Collected
  <2>5. (Parts(m))' \cap received' = Parts(m) \cap received
    BY <2>1, <2>2, <1>1
  <2> QED
    BY <2>2, <2>3, <2>4, <2>5 DEF IsOpen
<1>5. \A m : (OwnParts(m))' = OwnParts(m)
  BY <1>1, SameLog
<1> QED
  BY <1>1, <1>2, <1>3, <1>4, <1>5

(* A message that was not split arrives.                                   *)
LEMMA ReceiveWholeKeeps ==
    ASSUME SplitInv, NEW part \in Part, ReceiveWhole(part)
    PROVE  SplitInv'
<1>0. /\ Arrives(part) /\ ~IsSplit(part[1]) /\ output' = output \cup {<<part>>}
      /\ channels' = channels /\ progress' = progress
  BY DEF ReceiveWhole
<1>1. StateTypes' /\ PartsInv' /\ ReceiptsInv'
  BY <1>0, ArrivesKeeps, StateFacts
<1>2. PICK m0 : m0 = part[1]
  OBVIOUS
<1>3. /\ received' = received \cup {part} /\ log' = log
      /\ m0 \in DOMAIN log /\ part = <<m0, part[2]>>
      /\ part[2] \in 0 .. log[m0].count - 1
      /\ log[m0].count \in Nat /\ log[m0].count >= 1
      /\ \A m \in DOMAIN log : m /= m0 =>
            /\ WholeArrived(m)' <=> WholeArrived(m)
            /\ IsOpen(m)' <=> IsOpen(m)
            /\ (Collected(m))' = Collected(m)
            /\ (Parts(m))' \cap received' = Parts(m) \cap received
      /\ \A m : (OwnParts(m))' = OwnParts(m)
  BY <1>0, <1>2, ArrivesFacts
<1>4. log[m0].count = 1
  BY <1>0, <1>2, <1>3 DEF IsSplit
<1>5. OwnParts(m0) = <<part>>
  <2>1. part = <<m0, 0>>
    <3>1. part[2] = 0
      BY <1>3, <1>4
    <3> QED
      BY <3>1, <1>3
  <2>2. OwnParts(m0) = [i \in 1 .. 1 |-> <<m0, i - 1>>]
    BY <1>4 DEF OwnParts
  <2>3. [i \in 1 .. 1 |-> <<m0, i - 1>>] = [i \in 1 .. 1 |-> part]
    <3>1. \A i \in 1 .. 1 : <<m0, i - 1>> = part
      <4>1. \A i \in 1 .. 1 : i - 1 = 0
        OBVIOUS
      <4> QED
        BY <4>1, <2>1
    <3> QED
      BY <3>1
  <2>4. <<part>> = [i \in 1 .. 1 |-> part]
    OBVIOUS
  <2> QED
    BY <2>2, <2>3, <2>4
<1>6. ~IsOpen(m0) /\ ~IsOpen(m0)'
  BY <1>0, <1>2, <1>3, SameLog DEF IsOpen
<1>7. ChannelsInv'
  <2>0. ChannelsInv
    BY StateFacts
  <2>1. \A m \in DOMAIN log : IsOpen(m)' <=> IsOpen(m)
    BY <1>3, <1>6
  <2>2. \A m, n \in DOMAIN log' : IsOpen(m)' /\ IsOpen(n)' /\ log'[m].id = log'[n].id => m = n
    BY <2>0, <2>1, <1>3 DEF ChannelsInv
  <2>3. ASSUME NEW id \in DOMAIN channels'
        PROVE  \E m \in DOMAIN log' : IsOpen(m)' /\ log'[m].id = id /\ channels'[id] = (Collected(m))'
    <3>1. PICK m \in DOMAIN log : IsOpen(m) /\ log[m].id = id /\ channels[id] = Collected(m)
      BY <2>0, <1>0 DEF ChannelsInv
    <3>2. m /= m0
      BY <3>1, <1>6
    <3> QED
      BY <3>1, <3>2, <2>1, <1>0, <1>3
  <2>4. ASSUME NEW m \in DOMAIN log', IsOpen(m)', (Parts(m))' \cap received' /= {}
        PROVE  log'[m].id \in DOMAIN channels'
    <3>1. m \in DOMAIN log /\ m /= m0
      BY <2>4, <1>3, <1>6
    <3>2. IsOpen(m) /\ Parts(m) \cap received /= {}
      BY <3>1, <2>4, <1>3
    <3> QED
      BY <3>1, <3>2, <2>0, <1>0, <1>3 DEF ChannelsInv
  <2> QED
    BY <2>2, <2>3, <2>4 DEF ChannelsInv
<1>8. RebuiltIntact'
  BY <1>0, <1>3, <1>5 DEF SplitInv, RebuiltIntact
<1>9. NoPartStranded'
  BY <1>0, <1>3, <1>5 DEF SplitInv, NoPartStranded
<1> QED
  BY <1>1, <1>7, <1>8, <1>9 DEF SplitInv

(* A channel is full when every slot is taken.                             *)
LEMMA FullChannel ==
    ASSUME NEW n \in Nat, NEW channel, DOMAIN channel = 1 .. n, Len(channel) = n
    PROVE  /\ NumAdded(channel) \in Nat
           /\ AllPacketsAdded(channel) <=> \A i \in 1 .. n : channel[i] /= None
<1> DEFINE taken == {i \in 1 .. n : channel[i] /= None}
<1>1. IsFiniteSet(1 .. n) /\ Cardinality(1 .. n) = n
  <2>1. 1 \in Int /\ n \in Int
    OBVIOUS
  <2>2. Cardinality(1 .. n) = IF 1 > n THEN 0 ELSE n - 1 + 1
    BY <2>1, FS_Interval
  <2> QED
    BY <2>1, <2>2, FS_Interval
<1>2. taken \subseteq 1 .. n
  OBVIOUS
<1>3. /\ IsFiniteSet(taken)
      /\ Cardinality(taken) <= n
      /\ Cardinality(taken) = n => taken = 1 .. n
  <2>1. PICK S, T : S = 1 .. n /\ T = taken
    OBVIOUS
  <2> HIDE DEF taken
  <2>2. IsFiniteSet(S) /\ T \in SUBSET S /\ Cardinality(S) = n
    BY <2>1, <1>1, <1>2
  <2>3. /\ IsFiniteSet(T)
        /\ Cardinality(T) <= Cardinality(S)
        /\ Cardinality(S) = Cardinality(T) => S = T
    BY <2>2, FS_Subset, Zenon
  <2>4. Cardinality(T) <= n /\ (Cardinality(T) = n => S = T)
    BY <2>2, <2>3
  <2> QED
    BY <2>1, <2>3, <2>4
<1>4. Cardinality(taken) \in Nat
  BY <1>3, FS_CardinalityType
<1>5. NumAdded(channel) = Cardinality(taken)
  BY DEF NumAdded
<1>6. AllPacketsAdded(channel) <=> Cardinality(taken) = n
  BY <1>5 DEF AllPacketsAdded
<1>7. (\A i \in 1 .. n : channel[i] /= None) => taken = 1 .. n
  OBVIOUS
<1>8. taken = 1 .. n => \A i \in 1 .. n : channel[i] /= None
  OBVIOUS
<1> HIDE DEF taken
<1> QED
  BY <1>1, <1>3, <1>4, <1>5, <1>6, <1>7, <1>8

(* A part joins those of its message, and the last one completes it.       *)
LEMMA ReceivePartKeeps ==
    ASSUME SplitInv, NEW part \in Part, ReceivePart(part)
    PROVE  SplitInv'
<1>0. Arrives(part) /\ IsSplit(part[1])
  BY DEF ReceivePart
<1>1. PICK m0 : m0 = part[1]
  OBVIOUS
<1>2. PICK n : n = log[m0].count
  OBVIOUS
<1>3. PICK k : k = part[2]
  OBVIOUS
<1>4. /\ part \notin received /\ received' = received \cup {part} /\ log' = log
      /\ m0 \in DOMAIN log /\ part = <<m0, k>> /\ k \in 0 .. n - 1
      /\ n \in Nat /\ n >= 1
      /\ ~WholeArrived(m0)
      /\ \A m \in DOMAIN log : m /= m0 =>
            /\ WholeArrived(m)' <=> WholeArrived(m)
            /\ IsOpen(m)' <=> IsOpen(m)
            /\ (Collected(m))' = Collected(m)
            /\ (Parts(m))' \cap received' = Parts(m) \cap received
      /\ \A m : (OwnParts(m))' = OwnParts(m)
  BY <1>0, <1>1, <1>2, <1>3, ArrivesFacts
<1>5. IsOpen(m0) /\ ChannelsInv
  BY <1>0, <1>1, <1>4, StateFacts DEF IsOpen
<1>6. PICK id : id = log[m0].id
  OBVIOUS
<1>7. Channel(part) = Collected(m0)
  <2>1. CASE id \in DOMAIN channels
    <3>1. PICK m \in DOMAIN log : IsOpen(m) /\ log[m].id = id /\ channels[id] = Collected(m)
      BY <2>1, <1>5 DEF ChannelsInv
    <3>2. m = m0
      BY <3>1, <1>4, <1>5, <1>6 DEF ChannelsInv
    <3> QED
      BY <3>1, <3>2, <2>1, <1>1, <1>6 DEF Channel
  <2>2. CASE id \notin DOMAIN channels
    <3>1. Parts(m0) \cap received = {}
      BY <2>2, <1>4, <1>5, <1>6 DEF ChannelsInv
    <3>2. \A i \in 1 .. n : <<m0, i - 1>> \in Parts(m0)
      <4>1. \A i \in 1 .. n : i - 1 \in 0 .. n - 1
        BY <1>4
      <4> QED
        BY <4>1, <1>2 DEF Parts
    <3>3. Collected(m0) = [i \in 1 .. n |-> None]
      BY <3>1, <3>2, <1>2 DEF Collected
    <3>4. Channel(part) = [i \in 1 .. n |-> None]
      BY <2>2, <1>1, <1>2, <1>6 DEF Channel, Allocated
    <3> QED
      BY <3>3, <3>4
  <2> QED
    BY <2>1, <2>2
<1>8. PICK before : before = Collected(m0)
  OBVIOUS
<1>9. PICK channel : channel = (Collected(m0))'
  OBVIOUS
<1>10. /\ before = [i \in 1 .. n |-> IF <<m0, i - 1>> \in received THEN <<m0, i - 1>> ELSE None]
       /\ channel = [i \in 1 .. n |-> IF <<m0, i - 1>> \in received' THEN <<m0, i - 1>> ELSE None]
  BY <1>2, <1>4, <1>8, <1>9 DEF Collected
<1>11. /\ DOMAIN before = 1 .. n /\ Len(before) = n /\ DOMAIN channel = 1 .. n /\ Len(channel) = n
       /\ k + 1 \in 1 .. n
  BY <1>4, <1>10
<1>12. Inserted(before, part) = channel
  <2>1. <<m0, (k + 1) - 1>> = part
    BY <1>4
  <2>2. before[k + 1] = None
    BY <2>1, <1>4, <1>10, <1>11
  <2>3. Inserted(before, part) = [before EXCEPT ![k + 1] = part]
    BY <2>2, <1>1, <1>2, <1>3, <1>11 DEF Inserted
  <2>4. \A i \in 1 .. n : channel[i] = IF i = k + 1 THEN part ELSE before[i]
    <3> SUFFICES ASSUME NEW i \in 1 .. n
                 PROVE  channel[i] = IF i = k + 1 THEN part ELSE before[i]
      OBVIOUS
    <3>1. CASE i = k + 1
      BY <3>1, <2>1, <1>4, <1>10
    <3>2. CASE i /= k + 1
      <4>1. i - 1 /= k
        BY <3>2, <1>4
      <4>2. <<m0, i - 1>> /= part
        BY <4>1, <1>4
      <4> QED
        BY <4>2, <3>2, <1>4, <1>10
    <3> QED
      BY <3>1, <3>2
  <2>5. channel = [i \in 1 .. n |-> channel[i]] /\ before = [i \in 1 .. n |-> before[i]]
    BY <1>10
  <2> QED
    BY <2>3, <2>4, <2>5, <1>11
<1>13. PICK others : others = Restrict(channels, DOMAIN channels \ {id})
  OBVIOUS
<1>14. /\ progress' = IF channel /= before /\ ProgressDue(channel)
                      THEN progress \cup {<<channel[1][1], NumAdded(channel)>>}
                      ELSE progress
       /\ AllPacketsAdded(channel) => output' = output \cup {channel} /\ channels' = others
       /\ ~AllPacketsAdded(channel) =>
             /\ channels' = [i \in DOMAIN others \cup {id} |-> IF i = id THEN channel ELSE others[i]]
             /\ output' = output
  BY <1>1, <1>6, <1>7, <1>8, <1>12, <1>13 DEF ReceivePart
<1>15. DOMAIN others = DOMAIN channels \ {id} /\ \A i \in DOMAIN others : others[i] = channels[i]
  BY <1>13 DEF Restrict
<1>16. NumAdded(channel) \in Nat /\ (AllPacketsAdded(channel) <=> \A i \in 1 .. n : channel[i] /= None)
  BY <1>4, <1>11, FullChannel
<1>17. \A i : <<m0, i>> /= None
  <2>1. \A i : Len(<<m0, i>>) = 2
    OBVIOUS
  <2>2. Len(<<>>) = 0
    OBVIOUS
  <2> QED
    BY <2>1, <2>2 DEF None
<1>18. AllPacketsAdded(channel) <=> WholeArrived(m0)'
  <2>1. (Parts(m0))' = {<<m0, i>> : i \in 0 .. n - 1}
    BY <1>2, <1>4 DEF Parts
  <2>2. WholeArrived(m0)' <=> \A i \in 0 .. n - 1 : <<m0, i>> \in received'
    BY <2>1 DEF WholeArrived
  <2>3. (\A i \in 0 .. n - 1 : <<m0, i>> \in received') <=> \A i \in 1 .. n : <<m0, i - 1>> \in received'
    <3>1. \A i \in 1 .. n : i - 1 \in 0 .. n - 1
      BY <1>4
    <3>2. \A i \in 0 .. n - 1 : i + 1 \in 1 .. n /\ (i + 1) - 1 = i
      BY <1>4
    <3> QED
      BY <3>1, <3>2
  <2>4. \A i \in 1 .. n : channel[i] /= None <=> <<m0, i - 1>> \in received'
    BY <1>10, <1>17
  <2> QED
    BY <2>2, <2>3, <2>4, <1>16
<1>19. progress' \subseteq (DOMAIN log) \X Nat
  <2>1. progress \subseteq (DOMAIN log) \X Nat
    BY StateFacts
  <2>2. ProgressDue(channel) => channel[1][1] = m0
    <3> SUFFICES ASSUME ProgressDue(channel) PROVE channel[1][1] = m0
      OBVIOUS
    <3>1. channel[1] /= None /\ 1 \in 1 .. n
      BY <1>4 DEF ProgressDue
    <3>2. channel[1] = <<m0, 1 - 1>>
      BY <3>1, <1>10
    <3> QED
      BY <3>2
  <2> QED
    BY <2>1, <2>2, <1>4, <1>14, <1>16
<1>20. StateTypes' /\ PartsInv' /\ ReceiptsInv'
  BY <1>0, <1>19, ArrivesKeeps
<1>21. IsOpen(m0)' <=> ~WholeArrived(m0)'
  BY <1>0, <1>1, <1>4, SameLog DEF IsOpen
<1>22. ASSUME NEW m \in DOMAIN log, m /= m0, IsOpen(m)
       PROVE  log[m].id /= id
  BY <1>22, <1>4, <1>5, <1>6 DEF ChannelsInv
<1>23. ChannelsInv'
  <2>1. ASSUME NEW m \in DOMAIN log', NEW j \in DOMAIN log', IsOpen(m)', IsOpen(j)',
               log'[m].id = log'[j].id
        PROVE  m = j
    <3>1. \A x \in DOMAIN log : IsOpen(x)' => IsOpen(x)
      BY <1>4, <1>5
    <3> QED
      BY <3>1, <2>1, <1>4, <1>5 DEF ChannelsInv
  <2>2. ASSUME NEW i \in DOMAIN others
        PROVE  \E m \in DOMAIN log' : IsOpen(m)' /\ log'[m].id = i /\ others[i] = (Collected(m))'
    <3>1. PICK m \in DOMAIN log : IsOpen(m) /\ log[m].id = i /\ channels[i] = Collected(m)
      BY <1>5, <1>15 DEF ChannelsInv
    <3>2. m /= m0
      BY <3>1, <1>6, <1>15
    <3> QED
      BY <3>1, <3>2, <1>4, <1>15
  <2>3. ASSUME NEW m \in DOMAIN log, m /= m0, IsOpen(m)', (Parts(m))' \cap received' /= {}
        PROVE  log[m].id \in DOMAIN others
    <3>1. IsOpen(m) /\ Parts(m) \cap received /= {}
      BY <2>3, <1>4
    <3>2. log[m].id \in DOMAIN channels
      BY <3>1, <1>5 DEF ChannelsInv
    <3> QED
      BY <3>1, <3>2, <2>3, <1>15, <1>22
  <2>4. CASE AllPacketsAdded(channel)
    <3>1. channels' = others /\ ~IsOpen(m0)'
      BY <2>4, <1>14, <1>18, <1>21
    <3>2. \A m \in DOMAIN log' : IsOpen(m)' /\ (Parts(m))' \cap received' /= {} => log'[m].id \in DOMAIN channels'
      BY <3>1, <2>3, <1>4
    <3> QED
      BY <3>1, <3>2, <2>1, <2>2 DEF ChannelsInv
  <2>5. CASE ~AllPacketsAdded(channel)
    <3>1. /\ channels' = [i \in DOMAIN others \cup {id} |-> IF i = id THEN channel ELSE others[i]]
          /\ IsOpen(m0)'
      BY <2>5, <1>14, <1>18, <1>21
    <3>2. DOMAIN channels' = DOMAIN others \cup {id} /\ channels'[id] = channel
      BY <3>1
    <3>3. \A i \in DOMAIN others : channels'[i] = others[i]
      BY <3>1, <1>15
    <3>4. \A i \in DOMAIN channels' :
            \E m \in DOMAIN log' : IsOpen(m)' /\ log'[m].id = i /\ channels'[i] = (Collected(m))'
      BY <3>1, <3>2, <3>3, <2>2, <1>4, <1>6, <1>9
    <3>5. \A m \in DOMAIN log' : IsOpen(m)' /\ (Parts(m))' \cap received' /= {} => log'[m].id \in DOMAIN channels'
      BY <3>2, <2>3, <1>4, <1>6
    <3> QED
      BY <3>4, <3>5, <2>1 DEF ChannelsInv
  <2> QED
    BY <2>4, <2>5
<1>24. AllPacketsAdded(channel) => channel = OwnParts(m0)
  <2> SUFFICES ASSUME AllPacketsAdded(channel) PROVE channel = OwnParts(m0)
    OBVIOUS
  <2>1. \A i \in 1 .. n : channel[i] = <<m0, i - 1>>
    BY <1>10, <1>16
  <2>2. channel = [i \in 1 .. n |-> channel[i]]
    BY <1>10
  <2> QED
    BY <2>1, <2>2, <1>2 DEF OwnParts
<1>25. RebuiltIntact'
  BY <1>4, <1>14, <1>24 DEF SplitInv, RebuiltIntact
<1>26. NoPartStranded'
  <2> SUFFICES ASSUME NEW m \in DOMAIN log', WholeArrived(m)' PROVE (OwnParts(m))' \in output'
    BY DEF NoPartStranded
  <2>1. CASE m = m0
    BY <2>1, <1>4, <1>14, <1>18, <1>24
  <2>2. CASE m /= m0
    <3>1. OwnParts(m) \in output
      BY <2>2, <1>4 DEF SplitInv, NoPartStranded
    <3> QED
      BY <3>1, <1>4, <1>14
  <2> QED
    BY <2>1, <2>2
<1> QED
  BY <1>20, <1>23, <1>25, <1>26 DEF SplitInv


(* A step that changes nothing.                                            *)
LEMMA StutterKeeps ==
    ASSUME SplitInv, UNCHANGED vars
    PROVE  SplitInv'
<1>1. /\ log' = log /\ outgoing' = outgoing /\ splitPacketId' = splitPacketId
      /\ culled' = culled /\ resendBuffer' = resendBuffer
      /\ receiptHistory' = receiptHistory /\ receipts' = receipts /\ wire' = wire
      /\ received' = received /\ progress' = progress
      /\ UNCHANGED receiverVars
  BY DEF vars, senderVars, receiptVars, receiverVars
<1>2. ChannelsInv' /\ RebuiltIntact' /\ NoPartStranded'
  BY <1>1, ChannelsStay
<1>3. QueuedParts' = QueuedParts
  BY <1>1 DEF QueuedParts
<1>4. \A m : Waiting(m)' <=> Waiting(m)
  BY <1>1, <1>3, SameLog DEF Waiting
<1>5. StateTypes'
  BY <1>1, SameLog DEF SplitInv, StateTypes
<1>6. PartsInv'
  BY <1>1, <1>3, SameLog DEF SplitInv, PartsInv
<1>7. ReceiptsInv'
  <2>1. ReceiptsInv
    BY DEF SplitInv
  <2>2. \A m \in DOMAIN log : ReceiptIsRight(m)'
    BY <2>1, <1>1, <1>4, ReceiptStays
  <2> QED
    BY <2>2, <1>1 DEF ReceiptsInv, ReceiptIsRight
<1> QED
  BY <1>2, <1>5, <1>6, <1>7 DEF SplitInv

(* Every step keeps the invariant.                                         *)
LEMMA SplitStep ==
    ASSUME SplitInv, [Next]_vars
    PROVE  SplitInv'
<1>1. CASE \E p \in Priorities, r \in Reliabilities :
              \/ SendWhole(p, r)
              \/ \E n \in 2 .. MaxParts : SendSplit(p, r, n)
  BY <1>1, SendWholeKeeps, SendSplitKeeps
<1>2. CASE \E m \in DOMAIN log : CullUnreliable(m) \/ ReceiptLoss(m)
  BY <1>2, CullKeeps, ReceiptLossKeeps
<1>3. CASE DropCulled
  BY <1>3, DropCulledKeeps
<1>4. CASE SendNextPart
  BY <1>4, SendNextPartKeeps
<1>5. CASE \E part \in Part : AckUnreliable(part) \/ AckReliable(part)
  BY <1>5, AckUnreliableKeeps, AckReliableKeeps
<1>6. CASE \E part \in Part : Lose(part) \/ ReceiveWhole(part) \/ ReceivePart(part)
  BY <1>6, LoseKeeps, ReceiveWholeKeeps, ReceivePartKeeps
<1>7. CASE UNCHANGED vars
  BY <1>7, StutterKeeps
<1> QED
  BY <1>1, <1>2, <1>3, <1>4, <1>5, <1>6, <1>7 DEF Next

-----------------------------------------------------------------------------
(* What the invariant says of a state                                      *)

(* The invariant gives the types.                                          *)
LEMMA InvTyped == SplitInv => TypeOK
<1> SUFFICES ASSUME SplitInv PROVE TypeOK
  OBVIOUS
<1>1. log \in Seq(Message) /\ OutgoingOK(outgoing, Part) /\ ChannelsInv /\ RebuiltIntact
  BY StateFacts DEF SplitInv
<1>2. outgoing.heap \in Seq([weight : Nat, priority : Priority, part : Part])
  <2>1. HeapNode(Part) \subseteq [weight : Nat, priority : Priority, part : Part]
    BY DEF HeapNode
  <2>2. outgoing.heap \in Seq(HeapNode(Part))
    BY <1>1 DEF OutgoingOK, QueueOK
  <2>3. PICK S, T, heap : /\ S = HeapNode(Part)
                          /\ T = [weight : Nat, priority : Priority, part : Part]
                          /\ heap = outgoing.heap
    OBVIOUS
  <2>4. S \subseteq T /\ heap \in Seq(S)
    BY <2>1, <2>2, <2>3, Zenon
  <2>5. heap \in Seq(T)
    BY <2>4
  <2> QED
    BY <2>3, <2>5, Zenon
<1>3. outgoing.weights \in [Priority -> Nat]
  BY <1>1 DEF OutgoingOK, WeightsOK
<1>4. ASSUME NEW id \in DOMAIN channels
      PROVE  id \in 0 .. IdRange - 1 /\ channels[id] \in Seq(Part \cup {None})
  <2>1. PICK m \in DOMAIN log : log[m].id = id /\ channels[id] = Collected(m)
    BY <1>1, <1>4 DEF ChannelsInv
  <2>2. log[m] \in Message
    BY <1>1
  <2>3. id \in 0 .. IdRange - 1
    BY <2>1, <2>2 DEF Message
  <2>4. PICK n \in Nat : n = log[m].count
    BY <1>1, PartFacts
  <2>5. \A i \in 1 .. n : <<m, i - 1>> \in Part
    BY <2>4, <1>1, PartFacts
  <2>6. Collected(m) \in [1 .. n -> Part \cup {None}]
    BY <2>4, <2>5 DEF Collected
  <2>7. Collected(m) \in Seq(Part \cup {None})
    BY <2>6
  <2> QED
    BY <2>1, <2>3, <2>7
<1>5. output \subseteq Seq(Part)
  <2> SUFFICES ASSUME NEW parts \in output PROVE parts \in Seq(Part)
    OBVIOUS
  <2>1. PICK m \in DOMAIN log : parts = OwnParts(m)
    BY <1>1 DEF RebuiltIntact
  <2>2. PICK n \in Nat : n = log[m].count
    BY <1>1, PartFacts
  <2>3. \A i \in 1 .. n : <<m, i - 1>> \in Part
    BY <2>2, <1>1, PartFacts
  <2>4. OwnParts(m) \in [1 .. n -> Part]
    BY <2>2, <2>3 DEF OwnParts
  <2> QED
    BY <2>1, <2>4
<1> QED
  BY <1>2, <1>3, <1>4, <1>5, StateFacts DEF TypeOK

(* The invariant gives what is said of receipts.                           *)
LEMMA InvReceipts == SplitInv => AtMostOneReceipt /\ ReceiptIsTrue
<1> SUFFICES ASSUME SplitInv, NEW m \in DOMAIN receipts
             PROVE  /\ Len(receipts[m]) <= 1
                    /\ \A i \in DOMAIN receipts[m] :
                          IF receipts[m][i] = "ACKED"
                          THEN <<m, log[m].count - 1>> \in received
                          ELSE ~IsReliable(m)
  BY DEF AtMostOneReceipt, ReceiptIsTrue
<1>1. m \in DOMAIN log /\ ReceiptsInv
  BY StateFacts
<1>2. \/ receipts[m] = <<"ACKED">> /\ LastPart(m) \in received
      \/ receipts[m] = <<"LOSS">> /\ ~IsReliable(m)
      \/ receipts[m] = <<>>
  BY <1>1 DEF ReceiptsInv
<1> QED
  BY <1>2 DEF LastPart

(* The invariant gives what holds at rest.                                 *)
LEMMA InvSettled == SplitInv => SettledAtRest
<1> SUFFICES ASSUME SplitInv,
                    outgoing.heap = <<>>, wire = {}, resendBuffer = {}, receiptHistory = {},
                    NEW m \in DOMAIN log
             PROVE  Settled(m)
  BY DEF SettledAtRest
<1>0. log \in Seq(Message) /\ PartsInv /\ ReceiptsInv /\ NoPartStranded
  BY StateFacts DEF SplitInv
<1>1. QueuedParts = {}
  BY DEF QueuedParts
<1>2. ASSUME IsReliable(m) PROVE OwnParts(m) \in output
  <2>1. \A part \in Parts(m) : part \in Part /\ part[1] = m
    BY DEF Part, Parts
  <2>2. WholeArrived(m)
    BY <2>1, <1>0, <1>1, <1>2 DEF PartsInv, WholeArrived
  <2> QED
    BY <2>2, <1>0 DEF NoPartStranded
<1>3. ASSUME WantsReceipt(m), m \notin culled PROVE receipts[m] /= <<>>
  <2>1. ~Waiting(m)
    BY <1>1, <1>3 DEF Waiting
  <2>2. receipts[m] = <<"ACKED">> \/ receipts[m] = <<"LOSS">>
    BY <2>1, <1>0, <1>3 DEF ReceiptsInv
  <2>3. \A x : <<x>> /= <<>>
    OBVIOUS
  <2> QED
    BY <2>2, <2>3, Zenon
<1> QED
  BY <1>2, <1>3 DEF Settled

-----------------------------------------------------------------------------
(* The theorems                                                            *)

(* Parts, queue, channels and receipts go together as SplitInv says, for   *)
(* messages of any size, any number of them and every order of arrival,    *)
(* acknowledgement, culling and timers.                                    *)
THEOREM SplitInvariant == Spec => []SplitInv
<1>1. Init => SplitInv
  BY SplitInitial
<1>2. SplitInv /\ [Next]_vars => SplitInv'
  BY SplitStep
<1> QED
  BY <1>1, <1>2, PTL DEF Spec

(* Every variable keeps its type: in particular the weights of             *)
(* GetNextWeight, unsigned in the code, never go below zero.               *)
THEOREM SplitTypeCorrect == Spec => []TypeOK
BY SplitInvariant, InvTyped, PTL

(* Push, PushSeries and Pop leave outgoingPacketBuffer a heap, the series  *)
(* appended without sorting included.                                      *)
THEOREM QueueStaysHeap == Spec => []QueueIsHeap
<1>1. SplitInv => QueueIsHeap
  BY DEF SplitInv, StateTypes, OutgoingOK, QueueOK, QueueIsHeap
<1> QED
  BY <1>1, SplitInvariant, PTL

(* BuildPacketFromSplitPacketList hands over messages as they were sent,   *)
(* never a mixture of two that used the same splitPacketId.                *)
THEOREM MessagesRebuiltIntact == Spec => []RebuiltIntact
<1>1. SplitInv => RebuiltIntact
  BY DEF SplitInv
<1> QED
  BY <1>1, SplitInvariant, PTL

(* InsertIntoSplitPacketList refuses no part and leaves none behind: a     *)
(* message of which every part arrived has been handed over.               *)
THEOREM NoPartIsStranded == Spec => []NoPartStranded
<1>1. SplitInv => NoPartStranded
  BY DEF SplitInv
<1> QED
  BY <1>1, SplitInvariant, PTL

(* An acknowledgement and the timer of unreliableWithAckReceiptHistory     *)
(* never both make a receipt of one message.                               *)
THEOREM OneReceiptAtMost == Spec => []AtMostOneReceipt
<1>1. SplitInv => AtMostOneReceipt
  BY InvReceipts
<1> QED
  BY <1>1, SplitInvariant, PTL

(* ID_SND_RECEIPT_ACKED means that the last part arrived, and              *)
(* ID_SND_RECEIPT_LOSS is given for unreliable messages only.              *)
THEOREM ReceiptsAreTrue == Spec => []ReceiptIsTrue
<1>1. SplitInv => ReceiptIsTrue
  BY InvReceipts
<1> QED
  BY <1>1, SplitInvariant, PTL

(* With the queue, the wire, the resend buffer and the receipt history     *)
(* empty, no message waits for delivery or for its receipt.                *)
THEOREM EverythingSettles == Spec => []SettledAtRest
BY SplitInvariant, InvSettled, PTL
============================================================================
