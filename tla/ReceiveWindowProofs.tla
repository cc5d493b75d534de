------------------------ MODULE ReceiveWindowProofs ------------------------
(***************************************************************************)
(* Proofs about the duplicate filter of reliable messages, for every range *)
(* of numbers, every length of the resend buffer and every behaviour of    *)
(* the network that respects MaxAge.                                       *)
(***************************************************************************)
EXTENDS ReceiveWindow, SequenceTheorems, WellFoundedInduction, TLAPS

-----------------------------------------------------------------------------
(* Arithmetic of uint24_t.                                                 *)

(* Half of the largest number, for an even range.                          *)
LEMMA HalfRangeValue ==
    /\ HalfRange \in Nat
    /\ NumRange = 2 * HalfRange + 2
BY NumRangeAssumption, SMT DEF HalfRange, MaxNumber

(* Sums and differences of numbers are numbers.                            *)
LEMMA NumberClosed ==
    ASSUME NEW a \in Number, NEW b \in Number
    PROVE  Plus(a, b) \in Number /\ Minus(a, b) \in Number
BY NumRangeAssumption DEF Number, Plus, Minus

(* Moving the base forward by k shortens a distance by k, modulo the range. *)
LEMMA ShiftedDistance ==
    ASSUME NEW a \in Number, NEW b \in Number, NEW k \in Number
    PROVE  Minus(a, Plus(b, k)) =
             IF Minus(a, b) >= k THEN Minus(a, b) - k
                                 ELSE Minus(a, b) - k + NumRange
BY NumRangeAssumption DEF Number, Plus, Minus

(* Adding to a number adds to its distance from the base, while the result *)
(* is a distance.                                                          *)
LEMMA FurtherDistance ==
    ASSUME NEW a \in Number, NEW b \in Number, NEW k \in Number,
           Minus(a, b) + k < NumRange
    PROVE  Minus(Plus(a, k), b) = Minus(a, b) + k
BY NumRangeAssumption DEF Number, Plus, Minus

-----------------------------------------------------------------------------
(* The closing while loop of the window.                                   *)

(* A nonempty set of naturals has a least element.                         *)
LEMMA LeastNatural ==
    ASSUME NEW S \in SUBSET Nat, S # {}
    PROVE  \E n \in S : \A m \in S : n <= m
<1> DEFINE R == OpToRel(<, Nat)
<1>1. IsWellFoundedOn(R, Nat)
  BY NatLessThanWellFounded
<1>2. \E n \in S : \A m \in S : ~(<<m, n>> \in R)
  BY <1>1, WFMin
<1>3. PICK n \in S : \A m \in S : ~(<<m, n>> \in R)
  BY <1>2
<1>4. ASSUME NEW m \in S
      PROVE  n <= m
  <2>1. m \in Nat /\ n \in Nat
    OBVIOUS
  <2>2. m < n => <<m, n>> \in R
    BY <2>1 DEF OpToRel
  <2> HIDE DEF R
  <2>3. ~(m < n)
    BY <1>3, <2>2
  <2> QED
    BY <2>1, <2>3
<1> QED
  BY <1>4

(* The number of received entries at the front of the queue is defined.    *)
LEMMA LeadingReceivedDef ==
    ASSUME NEW q \in Seq(BOOLEAN)
    PROVE  /\ LeadingReceived(q) \in 0 .. Len(q)
           /\ \A i \in 1 .. LeadingReceived(q) : ~q[i]
           /\ LeadingReceived(q) = Len(q) \/ q[LeadingReceived(q) + 1]
<1> DEFINE P(k) == /\ \A i \in 1 .. k : ~q[i]
                   /\ k = Len(q) \/ q[k + 1]
           Stops == {n \in Nat : n = Len(q) \/ (n < Len(q) /\ q[n + 1])}
<1>1. Len(q) \in Nat
  OBVIOUS
<1>2. Stops \in SUBSET Nat /\ Len(q) \in Stops
  BY <1>1
<1>3. PICK k \in Stops : \A m \in Stops : k <= m
  BY <1>2, LeastNatural
<1>4. k \in 0 .. Len(q)
  BY <1>1, <1>2, <1>3
<1>5. ASSUME NEW i \in 1 .. k
      PROVE  ~q[i]
  <2>1. i - 1 \in Nat /\ i - 1 < k /\ i - 1 < Len(q)
    BY <1>1, <1>4
  <2>2. i - 1 \notin Stops
    BY <1>1, <1>3, <1>4, <2>1
  <2>3. (i - 1) + 1 = i
    BY <2>1
  <2> QED
    BY <2>1, <2>2, <2>3
<1>6. k = Len(q) \/ q[k + 1]
  BY <1>3
<1>7. P(k)
  BY <1>5, <1>6
<1>8. \E n \in 0 .. Len(q) : P(n)
  BY <1>4, <1>7
<1>9. LeadingReceived(q) = CHOOSE n \in 0 .. Len(q) : P(n)
  BY DEF LeadingReceived
<1>10. LeadingReceived(q) \in 0 .. Len(q) /\ P(LeadingReceived(q))
  BY <1>8, <1>9
<1> QED
  BY <1>10

(* What is left of the queue after the loop.                               *)
LEMMA PopLeadingDef ==
    ASSUME NEW q \in Seq(BOOLEAN)
    PROVE  /\ PopLeading(q) \in Seq(BOOLEAN)
           /\ Len(PopLeading(q)) = Len(q) - LeadingReceived(q)
           /\ \A i \in 1 .. Len(q) - LeadingReceived(q) :
                PopLeading(q)[i] = q[LeadingReceived(q) + i]
<1> DEFINE k == LeadingReceived(q)
<1>1. k \in 0 .. Len(q) /\ Len(q) \in Nat
  BY LeadingReceivedDef
<1>2. PopLeading(q) = SubSeq(q, k + 1, Len(q))
  BY DEF PopLeading
<1> HIDE DEF k
<1>3. /\ SubSeq(q, k + 1, Len(q)) \in Seq(BOOLEAN)
      /\ Len(SubSeq(q, k + 1, Len(q))) = Len(q) - k
      /\ \A i \in 1 .. Len(q) - k : SubSeq(q, k + 1, Len(q))[i] = q[k + i]
  BY <1>1
<1> QED
  BY <1>2, <1>3 DEF k

(* The queue after an accepted message: long enough to hold its entry,     *)
(* which is marked received; the other entries are the old ones or holes.  *)
LEMMA MarkReceivedDef ==
    ASSUME NEW num \in Number, NEW b \in Number, NEW q \in Seq(BOOLEAN),
           NEW h \in Nat, h = Minus(num, b),
           NEW len \in Nat, len = IF h < Len(q) THEN Len(q) ELSE h + 1
    PROVE  /\ MarkReceived(num, b, q) \in Seq(BOOLEAN)
           /\ Len(MarkReceived(num, b, q)) = len
           /\ \A i \in 1 .. len :
                MarkReceived(num, b, q)[i] <=> i # h + 1 /\ (i <= Len(q) => q[i])
<1> DEFINE entry(i) == IF i = h + 1 THEN FALSE ELSE IF i <= Len(q) THEN q[i] ELSE TRUE
<1>1. MarkReceived(num, b, q) = [i \in 1 .. len |-> entry(i)]
  BY DEF MarkReceived, HoleCount
<1>2. ASSUME NEW i \in 1 .. len
      PROVE  entry(i) \in BOOLEAN
  <2>1. CASE i = h + 1
    BY <2>1
  <2>2. CASE i # h + 1 /\ i <= Len(q)
    <3>1. i \in 1 .. Len(q)
      BY <2>2
    <3>2. q[i] \in BOOLEAN
      BY <3>1
    <3> QED
      BY <2>2, <3>2
  <2>3. CASE i # h + 1 /\ ~(i <= Len(q))
    BY <2>3
  <2> QED
    BY <2>1, <2>2, <2>3
<1> HIDE DEF entry
<1>3. /\ [i \in 1 .. len |-> entry(i)] \in Seq(BOOLEAN)
      /\ Len([i \in 1 .. len |-> entry(i)]) = len
  BY <1>2
<1>4. \A i \in 1 .. len : MarkReceived(num, b, q)[i] = entry(i)
  BY <1>1
<1>5. ASSUME NEW i \in 1 .. len
      PROVE  entry(i) <=> i # h + 1 /\ (i <= Len(q) => q[i])
  BY Zenon DEF entry
<1> QED
  BY <1>1, <1>3, <1>4, <1>5

-----------------------------------------------------------------------------
(* The initial states satisfy the inductive invariant.                     *)
LEMMA WindowInit == Init => WindowInv
<1> SUFFICES ASSUME Init PROVE WindowInv
  OBVIOUS
<1>1. sendReliableMessageNumberIndex \in Number
  BY WindowAssumption DEF Init
<1>2. TypeOK
  BY <1>1 DEF Init, TypeOK
<1>3. Delivered = {}
  BY DEF Init, Delivered
<1>4. QueueMeansHoles
  BY <1>3 DEF Init, QueueMeansHoles
<1>5. NumbersTrackMessages
  BY <1>1, NumRangeAssumption DEF Init, NumbersTrackMessages, Minus, Number
<1>6. AtMostOnce
  BY DEF Init, AtMostOnce
<1> QED
  BY <1>2, <1>3, <1>4, <1>5, <1>6, WindowAssumption DEF Init, WindowInv

(* The base message itself has not been delivered: the queue is empty and  *)
(* everything delivered is under the base, or the queue starts with a hole. *)
LEMMA BaseIsMissing ==
    ASSUME WindowInv
    PROVE  base \notin Delivered
<1>1. base \in Nat /\ hasReceivedPacketQueue \in Seq(BOOLEAN)
  BY DEF WindowInv, TypeOK
<1>2. CASE hasReceivedPacketQueue = <<>>
  BY <1>1, <1>2 DEF WindowInv, QueueMeansHoles
<1>3. CASE hasReceivedPacketQueue # <<>>
  <2>1. 1 \in 1 .. Len(hasReceivedPacketQueue) /\ base + 1 - 1 = base
    BY <1>1, <1>3
  <2> QED
    BY <1>3, <2>1 DEF WindowInv, QueueMeansHoles
<1> QED
  BY <1>2, <1>3

(* Numbering messages keeps the inductive invariant.  The slots of the     *)
(* resend buffer are the reason the window does not overflow: the base     *)
(* message is missing, so it is not one of those that freed a slot.        *)
LEMMA NumberMessagesStep ==
    ASSUME WindowInv, NEW n \in 1 .. ResendLen, NumberMessages(n)
    PROVE  WindowInv'
<1> DEFINE next == sendReliableMessageNumberIndex
           new  == [i \in 1 .. n |-> Plus(next, i - 1)]
<1> USE NumRangeAssumption, WindowAssumption
<1>1. /\ sentCount \in Nat /\ base \in Nat /\ base <= sentCount
      /\ sentCount' = sentCount + n /\ base' = base
      /\ sentCount - base <= ResendLen
      /\ next \in Number /\ receivedPacketsBaseIndex \in Number
      /\ wire \in Seq(Number) /\ Len(wire) = sentCount
  BY DEF WindowInv, TypeOK, NumberMessages
<1>2. outputQueue' = outputQueue /\ Delivered' = Delivered
  BY DEF NumberMessages, Delivered
<1>3. sentCount + n - base <= ResendLen
  <2>1. SUFFICES ASSUME sentCount + n - base > ResendLen PROVE FALSE
    BY <1>1
  <2>2. base \in Delivered
    <3>1. \A m \in sentCount .. sentCount + n - 1 : m >= ResendLen => m - ResendLen \in Delivered
      BY DEF NumberMessages
    <3> DEFINE last == base + ResendLen
    <3>2. last \in sentCount .. sentCount + n - 1 /\ last >= ResendLen /\ last - ResendLen = base
      BY <1>1, <2>1
    <3> HIDE DEF last
    <3>3. last - ResendLen \in Delivered
      BY <3>1, <3>2, Zenon
    <3> QED
      BY <3>2, <3>3, Zenon
  <2> QED
    BY <2>2, BaseIsMissing
<1>4. sentCount + n - base < NumRange
  BY <1>1, <1>3, HalfRangeValue
<1>5. Minus(next, receivedPacketsBaseIndex) = sentCount - base
  BY DEF WindowInv, NumbersTrackMessages
<1>6. ASSUME NEW k \in 0 .. n
      PROVE  /\ Plus(next, k) \in Number
             /\ Minus(Plus(next, k), receivedPacketsBaseIndex) = sentCount + k - base
  <2>1. k \in Number
    BY <1>1, <1>4 DEF Number
  <2>2. Minus(next, receivedPacketsBaseIndex) + k < NumRange
    BY <1>1, <1>4, <1>5
  <2> HIDE DEF next
  <2>3. Plus(next, k) \in Number
    BY <1>1, <2>1, NumberClosed
  <2>4. Minus(Plus(next, k), receivedPacketsBaseIndex) = Minus(next, receivedPacketsBaseIndex) + k
    BY <1>1, <2>1, <2>2, FurtherDistance
  <2> QED
    BY <1>1, <1>5, <2>3, <2>4
<1>7. /\ new \in Seq(Number) /\ Len(new) = n
      /\ \A i \in 1 .. n : new[i] = Plus(next, i - 1)
  <2>1. \A i \in 1 .. n : Plus(next, i - 1) \in Number
    <3>1. \A i \in 1 .. n : i - 1 \in 0 .. n
      OBVIOUS
    <3> QED
      BY <1>6, <3>1
  <2> HIDE DEF next
  <2> QED
    BY <2>1
<1>8. /\ wire' \in Seq(Number)
      /\ Len(wire') = sentCount + n
      /\ \A m \in 0 .. sentCount - 1 : wire'[m + 1] = wire[m + 1]
      /\ \A m \in sentCount .. sentCount + n - 1 : wire'[m + 1] = Plus(next, m - sentCount)
  <2>1. wire' = wire \o new
    BY DEF NumberMessages
  <2> HIDE DEF new, next
  <2>2. /\ wire' \in Seq(Number)
        /\ Len(wire') = Len(wire) + Len(new)
        /\ \A i \in 1 .. Len(wire) + Len(new) :
              wire'[i] = IF i <= Len(wire) THEN wire[i] ELSE new[i - Len(wire)]
    BY <1>1, <1>7, <2>1, ConcatProperties
  <2>3. Len(wire') = sentCount + n
    BY <1>1, <1>7, <2>2
  <2>4. ASSUME NEW m \in 0 .. sentCount - 1
        PROVE  wire'[m + 1] = wire[m + 1]
    BY <1>1, <1>7, <2>2
  <2>5. ASSUME NEW m \in sentCount .. sentCount + n - 1
        PROVE  wire'[m + 1] = Plus(next, m - sentCount)
    <3>1. m + 1 - sentCount \in 1 .. n /\ (m + 1 - sentCount) - 1 = m - sentCount
      BY <1>1
    <3>2. wire'[m + 1] = new[m + 1 - sentCount]
      BY <1>1, <1>7, <2>2
    <3> QED
      BY <1>7, <3>1, <3>2
  <2> QED
    BY <2>2, <2>3, <2>4, <2>5
<1>9. next' = Plus(next, n) /\ n \in 0 .. n
  BY DEF NumberMessages
<1>10. TypeOK'
  BY <1>1, <1>6, <1>8, <1>9 DEF TypeOK, WindowInv, NumberMessages
<1>11. NumbersTrackMessages'
  <2>1. receivedPacketsBaseIndex' = receivedPacketsBaseIndex
    BY DEF NumberMessages
  <2>2. Minus(next', receivedPacketsBaseIndex) = sentCount + n - base
    BY <1>6, <1>9
  <2>3. ASSUME NEW m \in 0 .. sentCount + n - 1
        PROVE  /\ m >= base =>
                     Minus(wire'[m + 1], receivedPacketsBaseIndex) = m - base
               /\ m < base /\ m + MaxAge >= base =>
                     Minus(wire'[m + 1], receivedPacketsBaseIndex) = NumRange - (base - m)
    <3>1. CASE m >= sentCount
      <4>1. m \in sentCount .. sentCount + n - 1 /\ m - sentCount \in 0 .. n
        BY <1>1, <3>1
      <4>2. Minus(wire'[m + 1], receivedPacketsBaseIndex) = sentCount + (m - sentCount) - base
        BY <1>6, <1>8, <4>1
      <4> QED
        BY <1>1, <3>1, <4>2
    <3>2. CASE m < sentCount
      <4>1. m \in 0 .. sentCount - 1
        BY <1>1, <3>2
      <4> QED
        BY <1>8, <4>1 DEF WindowInv, NumbersTrackMessages
    <3> QED
      BY <1>1, <3>1, <3>2
  <2> QED
    BY <1>1, <2>1, <2>2, <2>3 DEF NumbersTrackMessages
<1>12. QueueMeansHoles'
  BY <1>2 DEF QueueMeansHoles, WindowInv, NumberMessages
<1>13. AtMostOnce'
  BY <1>2 DEF AtMostOnce, WindowInv
<1>14. \A m \in Delivered' : m < sentCount'
  <2>1. \A m \in Delivered : m \in Nat /\ m < sentCount
    BY DEF WindowInv, TypeOK, Delivered
  <2> QED
    BY <1>1, <1>2, <2>1
<1>15. /\ base' <= sentCount' /\ sentCount' - base' <= ResendLen
       /\ Len(hasReceivedPacketQueue') <= sentCount' - base'
  <2>1. hasReceivedPacketQueue' = hasReceivedPacketQueue /\ Len(hasReceivedPacketQueue) \in Nat
    BY DEF NumberMessages, WindowInv, TypeOK
  <2> QED
    BY <1>1, <1>3, <2>1 DEF WindowInv
<1> QED
  BY <1>10, <1>11, <1>12, <1>13, <1>14, <1>15 DEF WindowInv

-----------------------------------------------------------------------------
(* The window accepts exactly the messages it has not received, among the  *)
(* copies that are not too old.                                            *)
LEMMA AcceptedIffMissing ==
    ASSUME WindowInv, NEW m \in 0 .. sentCount - 1, m + MaxAge >= base
    PROVE  /\ IsAccepted(wire[m + 1], receivedPacketsBaseIndex, hasReceivedPacketQueue)
                <=> m \notin Delivered
           /\ m \notin Delivered =>
                m >= base /\ Minus(wire[m + 1], receivedPacketsBaseIndex) = m - base
<1> DEFINE q == hasReceivedPacketQueue
           h == Minus(wire[m + 1], receivedPacketsBaseIndex)
<1> USE NumRangeAssumption, WindowAssumption, HoleLimitAssumption
<1>1. /\ sentCount \in Nat /\ base \in Nat /\ q \in Seq(BOOLEAN) /\ Len(q) \in Nat
      /\ sentCount - base <= ResendLen
  BY DEF WindowInv, TypeOK
<1>2. HalfRange \in Nat /\ NumRange = 2 * HalfRange + 2
  BY HalfRangeValue
<1>3. IsAccepted(wire[m + 1], receivedPacketsBaseIndex, q) <=>
        \/ h = 0
        \/ h <= HalfRange /\ IF h < Len(q) THEN q[h + 1] ELSE h <= HoleLimit
  BY DEF IsAccepted, HoleCount
<1>4. CASE m < base
  <2>1. m \in Delivered
    BY <1>1, <1>4 DEF WindowInv, QueueMeansHoles
  <2>2. h = NumRange - (base - m)
    BY <1>1, <1>4 DEF WindowInv, NumbersTrackMessages
  <2>3. h # 0 /\ ~(h <= HalfRange)
    BY <1>1, <1>2, <1>4, <2>2
  <2> QED
    BY <1>3, <2>1, <2>3
<1>5. CASE m >= base
  <2>1. h = m - base /\ h \in Nat
    BY <1>1, <1>5 DEF WindowInv, NumbersTrackMessages
  <2>2. h <= HalfRange /\ h <= HoleLimit
    BY <1>1, <1>2, <2>1
  <2>3. CASE h = 0
    <3>1. m = base
      BY <1>1, <2>1, <2>3
    <3> QED
      BY <1>3, <1>5, <2>1, <2>3, <3>1, BaseIsMissing
  <2>4. CASE h # 0 /\ h < Len(q)
    <3>1. h + 1 \in 1 .. Len(q) /\ base + (h + 1) - 1 = m
      BY <1>1, <2>1, <2>4
    <3>2. q[h + 1] <=> m \notin Delivered
      BY <3>1 DEF WindowInv, QueueMeansHoles
    <3> HIDE DEF q, h
    <3>3. IsAccepted(wire[m + 1], receivedPacketsBaseIndex, q) <=> m \notin Delivered
      BY <1>3, <2>2, <2>4, <3>2
    <3> QED
      BY <1>5, <2>1, <3>3 DEF q, h
  <2>5. CASE ~(h < Len(q))
    <3>1. m >= base + Len(q)
      BY <1>1, <2>1, <2>5
    <3>2. m \notin Delivered
      <4>1. \A n \in Delivered : n < base + Len(q)
        BY DEF WindowInv, QueueMeansHoles
      <4> QED
        BY <1>1, <3>1, <4>1
    <3> HIDE DEF q, h
    <3>3. IsAccepted(wire[m + 1], receivedPacketsBaseIndex, q)
      BY <1>3, <2>2, <2>5
    <3> QED
      BY <1>5, <2>1, <3>2, <3>3 DEF q, h
  <2> QED
    BY <2>3, <2>4, <2>5
<1> QED
  BY <1>1, <1>4, <1>5

(* Handing over a message adds it to the delivered ones.                   *)
LEMMA AppendDelivers ==
    ASSUME outputQueue \in Seq(Nat), NEW m \in Nat, outputQueue' = Append(outputQueue, m)
    PROVE  Delivered' = Delivered \cup {m} /\ Delivered \subseteq Nat
<1>1. /\ DOMAIN outputQueue' = DOMAIN outputQueue \cup {Len(outputQueue) + 1}
      /\ \A i \in DOMAIN outputQueue : outputQueue'[i] = outputQueue[i]
      /\ outputQueue'[Len(outputQueue) + 1] = m
  OBVIOUS
<1>2. Delivered \subseteq Nat
  BY DEF Delivered
<1>3. \A x : x \in Delivered' <=> \E i \in DOMAIN outputQueue' : x = outputQueue'[i]
  BY DEF Delivered
<1>4. \A x : x \in Delivered <=> \E i \in DOMAIN outputQueue : x = outputQueue[i]
  BY DEF Delivered
<1> HIDE DEF Delivered
<1>5. \A x : x \in Delivered' <=> x \in Delivered \/ x = m
  BY <1>1, <1>3, <1>4
<1> QED
  BY <1>2, <1>5

(* Receiving a message keeps the inductive invariant.                      *)
LEMMA ReceiveMessageStep ==
    ASSUME WindowInv, NEW m \in 0 .. sentCount - 1, ReceiveMessage(m)
    PROVE  WindowInv'
<1> DEFINE num == wire[m + 1]
           old == hasReceivedPacketQueue
           h   == m - base
           len == IF h < Len(old) THEN Len(old) ELSE h + 1
           q   == MarkReceived(num, receivedPacketsBaseIndex, old)
           k   == LeadingReceived(q)
<1> USE NumRangeAssumption, WindowAssumption, HoleLimitAssumption
<1>1. /\ sentCount \in Nat /\ base \in Nat /\ base <= sentCount
      /\ wire \in Seq(Number) /\ Len(wire) = sentCount
      /\ sendReliableMessageNumberIndex \in Number
      /\ receivedPacketsBaseIndex \in Number
      /\ old \in Seq(BOOLEAN) /\ Len(old) \in Nat
      /\ outputQueue \in Seq(Nat)
      /\ sentCount - base <= ResendLen /\ Len(old) <= sentCount - base
  BY DEF WindowInv, TypeOK
<1>2. /\ m \notin Delivered /\ h \in Nat
      /\ Minus(num, receivedPacketsBaseIndex) = h
  BY <1>1, AcceptedIffMissing DEF ReceiveMessage
<1>3. num \in Number
  BY <1>1
<1>4. len \in Nat /\ len <= sentCount - base
  BY <1>1, <1>2
<1>5. /\ q \in Seq(BOOLEAN) /\ Len(q) = len
      /\ \A i \in 1 .. len :
           q[i] <=> i # h + 1 /\ (i <= Len(old) => old[i])
  <2>1. len = IF h < Len(old) THEN Len(old) ELSE h + 1
    OBVIOUS
  <2>2. q = MarkReceived(num, receivedPacketsBaseIndex, old)
    OBVIOUS
  <2> HIDE DEF q, num, old, h, len
  <2>3. /\ num \in Number /\ receivedPacketsBaseIndex \in Number /\ old \in Seq(BOOLEAN)
        /\ h \in Nat /\ h = Minus(num, receivedPacketsBaseIndex) /\ len \in Nat
    BY <1>1, <1>2, <1>3, <1>4
  <2> QED
    BY <2>1, <2>2, <2>3, MarkReceivedDef, SMTT(30)
<1>6. /\ k \in 0 .. len
      /\ \A i \in 1 .. k : ~q[i]
      /\ k = len \/ q[k + 1]
  <2> HIDE DEF q
  <2> QED
    BY <1>5, LeadingReceivedDef
<1>7. /\ hasReceivedPacketQueue' = PopLeading(q)
      /\ receivedPacketsBaseIndex' = Plus(receivedPacketsBaseIndex, k)
      /\ base' = base + k
      /\ outputQueue' = Append(outputQueue, m)
      /\ sentCount' = sentCount /\ wire' = wire
      /\ sendReliableMessageNumberIndex' = sendReliableMessageNumberIndex
  BY DEF ReceiveMessage
<1>8. /\ PopLeading(q) \in Seq(BOOLEAN)
      /\ Len(PopLeading(q)) = len - k
      /\ \A i \in 1 .. len - k : PopLeading(q)[i] = q[k + i]
  <2> HIDE DEF q
  <2> QED
    BY <1>5, PopLeadingDef
<1>9. Delivered' = Delivered \cup {m} /\ Delivered \subseteq Nat
  <2>1. m \in Nat
    BY <1>1
  <2> QED
    BY <1>1, <1>7, <2>1, AppendDelivers
<1>10. ASSUME NEW i \in 1 .. len
       PROVE  q[i] <=> (base + i - 1) \notin Delivered'
  <2>1. CASE i = h + 1
    <3>1. base + i - 1 = m
      BY <1>1, <2>1
    <3>2. ~q[i]
      BY <1>5, <2>1
    <3> QED
      BY <1>9, <3>1, <3>2
  <2>2. CASE i # h + 1 /\ i <= Len(old)
    <3>1. base + i - 1 # m /\ i \in 1 .. Len(old)
      BY <1>1, <1>2, <1>4, <2>2
    <3>2. old[i] <=> (base + i - 1) \notin Delivered
      BY <3>1 DEF WindowInv, QueueMeansHoles
    <3>3. q[i] <=> old[i]
      BY <1>5, <2>2
    <3> HIDE DEF q, old, h
    <3> QED
      BY <1>9, <3>1, <3>2, <3>3
  <2>3. CASE i # h + 1 /\ ~(i <= Len(old))
    <3>1. base + i - 1 # m /\ base + i - 1 >= base + Len(old)
      BY <1>1, <1>2, <1>4, <2>3
    <3>2. \A n \in Delivered : n < base + Len(old)
      BY DEF WindowInv, QueueMeansHoles
    <3>3. (base + i - 1) \notin Delivered
      BY <1>1, <1>4, <3>1, <3>2
    <3>4. q[i]
      BY <1>5, <2>3
    <3> HIDE DEF q, old, h
    <3> QED
      BY <1>9, <3>1, <3>3, <3>4
  <2> QED
    BY <2>1, <2>2, <2>3
<1> HIDE DEF q, k, len, old, num, h
<1>11. QueueMeansHoles'
  <2>1. ASSUME NEW n \in 0 .. base' - 1
        PROVE  n \in Delivered'
    <3>1. CASE n < base
      <4>1. n \in Delivered
        BY <1>1, <3>1 DEF WindowInv, QueueMeansHoles
      <4> QED
        BY <1>9, <4>1
    <3>2. CASE n >= base
      <4>1. n - base + 1 \in 1 .. k /\ n - base + 1 \in 1 .. len /\ base + (n - base + 1) - 1 = n
        BY <1>1, <1>4, <1>6, <1>7, <3>2
      <4> QED
        BY <1>6, <1>10, <4>1
    <3> QED
      BY <1>1, <1>6, <1>7, <3>1, <3>2
  <2>2. ASSUME NEW i \in 1 .. Len(hasReceivedPacketQueue')
        PROVE  hasReceivedPacketQueue'[i] <=> (base' + i - 1) \notin Delivered'
    <3>1. i \in 1 .. len - k /\ k + i \in 1 .. len /\ base + (k + i) - 1 = base' + i - 1
      BY <1>1, <1>4, <1>6, <1>7, <1>8
    <3>2. hasReceivedPacketQueue'[i] = q[k + i]
      BY <1>7, <1>8, <3>1
    <3>3. q[k + i] <=> (base + (k + i) - 1) \notin Delivered'
      BY <1>10, <3>1
    <3> QED
      BY <3>1, <3>2, <3>3
  <2>3. ASSUME NEW n \in Delivered'
        PROVE  n < base' + Len(hasReceivedPacketQueue')
    <3>1. base' + Len(hasReceivedPacketQueue') = base + len
      BY <1>1, <1>4, <1>6, <1>7, <1>8
    <3>2. n \in Nat
      BY <1>9
    <3>3. CASE n \in Delivered
      <4>1. n < base + Len(old)
        BY <3>3 DEF WindowInv, QueueMeansHoles, old
      <4> QED
        BY <1>1, <1>2, <3>1, <3>2, <4>1 DEF len
    <3>4. CASE n = m
      BY <1>1, <1>2, <3>1, <3>4 DEF len, h
    <3> QED
      BY <1>9, <3>3, <3>4
  <2>4. ASSUME hasReceivedPacketQueue' # <<>>
        PROVE  hasReceivedPacketQueue'[1]
    <3>1. 1 \in 1 .. len - k /\ k # len
      BY <1>4, <1>6, <1>7, <1>8, <2>4
    <3> QED
      BY <1>6, <1>7, <1>8, <3>1
  <2> QED
    BY <2>1, <2>2, <2>3, <2>4 DEF QueueMeansHoles
<1>12. k \in Number
  BY <1>1, <1>4, <1>6, HalfRangeValue DEF Number
<1>13. NumbersTrackMessages'
  <2>1. \A a \in Number :
          Minus(a, receivedPacketsBaseIndex') =
            IF Minus(a, receivedPacketsBaseIndex) >= k
            THEN Minus(a, receivedPacketsBaseIndex) - k
            ELSE Minus(a, receivedPacketsBaseIndex) - k + NumRange
    BY <1>1, <1>7, <1>12, ShiftedDistance
  <2>2. Minus(sendReliableMessageNumberIndex', receivedPacketsBaseIndex') = sentCount' - base'
    <3>1. Minus(sendReliableMessageNumberIndex, receivedPacketsBaseIndex) = sentCount - base
      BY DEF WindowInv, NumbersTrackMessages
    <3>2. sentCount - base >= k /\ k \in Nat
      BY <1>1, <1>4, <1>6
    <3>3. Minus(sendReliableMessageNumberIndex, receivedPacketsBaseIndex') = sentCount - base - k
      BY <1>1, <2>1, <3>1, <3>2
    <3> QED
      BY <1>1, <1>7, <3>2, <3>3
  <2>3. ASSUME NEW n \in 0 .. sentCount' - 1
        PROVE  /\ n >= base' =>
                     Minus(wire'[n + 1], receivedPacketsBaseIndex') = n - base'
               /\ n < base' /\ n + MaxAge >= base' =>
                     Minus(wire'[n + 1], receivedPacketsBaseIndex') = NumRange - (base' - n)
    <3>1. wire'[n + 1] = wire[n + 1] /\ wire[n + 1] \in Number /\ n \in 0 .. sentCount - 1
      BY <1>1, <1>7
    <3>2. /\ n >= base =>
                Minus(wire[n + 1], receivedPacketsBaseIndex) = n - base
          /\ n < base /\ n + MaxAge >= base =>
                Minus(wire[n + 1], receivedPacketsBaseIndex) = NumRange - (base - n)
      BY <3>1 DEF WindowInv, NumbersTrackMessages
    <3>3. MaxAge < NumRange
      BY HalfRangeValue
    <3>4. k \in Nat /\ base' = base + k
      BY <1>4, <1>6, <1>7
    <3>5. Minus(wire[n + 1], receivedPacketsBaseIndex') =
            IF Minus(wire[n + 1], receivedPacketsBaseIndex) >= k
            THEN Minus(wire[n + 1], receivedPacketsBaseIndex) - k
            ELSE Minus(wire[n + 1], receivedPacketsBaseIndex) - k + NumRange
      BY <2>1, <3>1
    <3>6. CASE n >= base
      <4>1. Minus(wire[n + 1], receivedPacketsBaseIndex) = n - base
        BY <3>2, <3>6
      <4>2. Minus(wire[n + 1], receivedPacketsBaseIndex') =
              IF n - base >= k THEN n - base - k ELSE n - base - k + NumRange
        BY <3>5, <4>1
      <4> QED
        BY <1>1, <3>1, <3>4, <3>6, <4>2
    <3>7. CASE n < base
      BY <1>1, <3>1, <3>2, <3>3, <3>4, <3>5, <3>7
    <3> QED
      BY <1>1, <3>1, <3>6, <3>7
  <2> QED
    BY <2>2, <2>3 DEF NumbersTrackMessages
<1>14. AtMostOnce'
  <2>1. \A i \in 1 .. Len(outputQueue) : outputQueue[i] # m
    BY <1>1, <1>2 DEF Delivered
  <2>2. \A i, j \in 1 .. Len(outputQueue) : outputQueue[i] = outputQueue[j] => i = j
    BY SMTT(60), <1>1 DEF WindowInv, AtMostOnce
  <2>3. /\ DOMAIN outputQueue' = 1 .. Len(outputQueue) + 1
        /\ outputQueue'[Len(outputQueue) + 1] = m
        /\ \A i \in 1 .. Len(outputQueue) : outputQueue'[i] = outputQueue[i]
        /\ Len(outputQueue) \in Nat
    BY <1>1, <1>7
  <2>4. ASSUME NEW i \in DOMAIN outputQueue', NEW j \in DOMAIN outputQueue',
               outputQueue'[i] = outputQueue'[j]
        PROVE  i = j
    BY <2>1, <2>2, <2>3, <2>4
  <2> QED
    BY <2>4 DEF AtMostOnce
<1>15. TypeOK'
  <2>1. receivedPacketsBaseIndex' \in Number
    BY <1>1, <1>7, <1>12, NumberClosed
  <2>2. hasReceivedPacketQueue' \in Seq(BOOLEAN)
    BY <1>7, <1>8
  <2>3. outputQueue' \in Seq(Nat) /\ base' \in Nat
    <3>1. m \in Nat /\ k \in Nat
      BY <1>1, <1>4, <1>6
    <3> QED
      BY <1>1, <1>7, <3>1
  <2> QED
    BY <1>1, <1>7, <2>1, <2>2, <2>3 DEF TypeOK
<1>16. \A n \in Delivered' : n < sentCount'
  BY <1>1, <1>7, <1>9 DEF WindowInv
<1>17. /\ base' <= sentCount' /\ sentCount' - base' <= ResendLen
       /\ Len(hasReceivedPacketQueue') <= sentCount' - base'
  <2>1. k \in Nat /\ k <= len /\ len \in Nat /\ len <= sentCount - base
    BY <1>4, <1>6
  <2>2. base' = base + k /\ sentCount' = sentCount /\ Len(hasReceivedPacketQueue') = len - k
    BY <1>7, <1>8
  <2> QED
    BY <1>1, <2>1, <2>2
<1> QED
  BY <1>11, <1>13, <1>14, <1>15, <1>16, <1>17 DEF WindowInv

-----------------------------------------------------------------------------
(* Every step keeps the inductive invariant.                               *)
LEMMA WindowStep == WindowInv /\ [Next]_vars => WindowInv'
<1> SUFFICES ASSUME WindowInv, [Next]_vars
             PROVE  WindowInv'
  OBVIOUS
<1>1. ASSUME NEW n \in 1 .. ResendLen, NumberMessages(n)
      PROVE  WindowInv'
  BY <1>1, NumberMessagesStep
<1>2. ASSUME NEW m \in 0 .. sentCount - 1, ReceiveMessage(m)
      PROVE  WindowInv'
  BY <1>2, ReceiveMessageStep
<1>3. CASE UNCHANGED vars
  <2> USE <1>3 DEF vars
  <2>1. TypeOK'
    BY DEF WindowInv, TypeOK
  <2>2. Delivered' = Delivered
    BY DEF Delivered
  <2>3. QueueMeansHoles'
    BY <2>2 DEF WindowInv, QueueMeansHoles
  <2>4. NumbersTrackMessages'
    BY DEF WindowInv, NumbersTrackMessages
  <2>5. AtMostOnce'
    BY DEF WindowInv, AtMostOnce
  <2> QED
    BY <2>1, <2>2, <2>3, <2>4, <2>5 DEF WindowInv
<1>4. ASSUME NEW m \in 0 .. sentCount - 1, IgnoreMessage(m)
      PROVE  WindowInv'
  BY <1>3, <1>4 DEF IgnoreMessage
<1> QED
  BY <1>1, <1>2, <1>3, <1>4 DEF Next

(* The inductive invariant holds in every state: the base index and the    *)
(* queue of holes always describe exactly the messages received, and the   *)
(* 24 bit numbers never confuse two messages within reach of the window.   *)
THEOREM WindowInvariant == Spec => []WindowInv
<1> QED
  BY WindowInit, WindowStep, PTL DEF Spec

(* A reliable message is handed to the user at most once.                  *)
THEOREM DeliveredAtMostOnce == Spec => []AtMostOnce
<1>1. WindowInv => AtMostOnce
  BY DEF WindowInv
<1> QED
  BY WindowInvariant, <1>1, PTL

(* A reliable message that was not received is never taken for a duplicate *)
(* or for one too far ahead.                                               *)
THEOREM MissingIsAccepted == Spec => []FreshIsAccepted
<1>1. WindowInv => FreshIsAccepted
  <2> SUFFICES ASSUME WindowInv, NEW m \in 0 .. sentCount - 1, m \notin Delivered
               PROVE  IsAccepted(wire[m + 1], receivedPacketsBaseIndex, hasReceivedPacketQueue)
    BY DEF FreshIsAccepted
  <2>1. base \in Nat /\ sentCount \in Nat
    BY DEF WindowInv, TypeOK
  <2>2. m >= base
    BY <2>1 DEF WindowInv, QueueMeansHoles
  <2>3. m + MaxAge >= base
    BY <2>1, <2>2, WindowAssumption
  <2> QED
    BY <2>3, AcceptedIffMissing
<1> QED
  BY WindowInvariant, <1>1, PTL

(* The queue of holes never outgrows the sender's resend buffer.           *)
THEOREM QueueStaysBounded == Spec => []QueueBounded
<1>1. WindowInv => QueueBounded
  <2> SUFFICES ASSUME WindowInv PROVE QueueBounded
    OBVIOUS
  <2>1. /\ Len(hasReceivedPacketQueue) \in Nat /\ sentCount \in Nat /\ base \in Nat
        /\ Len(hasReceivedPacketQueue) <= sentCount - base
        /\ sentCount - base <= ResendLen
    BY DEF WindowInv, TypeOK
  <2> QED
    BY <2>1, WindowAssumption DEF QueueBounded
<1> QED
  BY WindowInvariant, <1>1, PTL

(* The window implements the promise of ReliableChannel: every delivery is *)
(* of one message that was sent and not delivered before.                  *)
THEOREM WindowImplementsChannel == Spec => ImplementsReliableChannel
<1>1. Init => Promise!Init
  BY DEF Init, Promise!Init
<1>2. ASSUME WindowInv, [Next]_vars
      PROVE  [Promise!Next]_(Promise!vars)
  <2> USE DEF Promise!Next, Promise!vars
  <2>1. ASSUME NEW n \in 1 .. ResendLen, NumberMessages(n)
        PROVE  Promise!Next
    <3>1. sentCount \in Nat /\ sentCount' = sentCount + n /\ outputQueue' = outputQueue
      BY <1>2, <2>1 DEF NumberMessages, WindowInv, TypeOK
    <3> QED
      BY <3>1, WindowAssumption DEF Promise!Send
  <2>2. ASSUME NEW m \in 0 .. sentCount - 1, ReceiveMessage(m)
        PROVE  Promise!Next
    <3>1. m + MaxAge >= base
      BY <2>2 DEF ReceiveMessage
    <3>2. m \notin Delivered
      BY <1>2, <2>2, <3>1, AcceptedIffMissing DEF ReceiveMessage
    <3>3. \A i \in DOMAIN outputQueue : outputQueue[i] # m
      BY <3>2 DEF Delivered
    <3>4. sentCount' = sentCount /\ outputQueue' = Append(outputQueue, m)
      BY <2>2 DEF ReceiveMessage
    <3> QED
      BY <3>3, <3>4 DEF Promise!Deliver
  <2>3. CASE UNCHANGED vars
    BY <2>3 DEF vars
  <2>4. ASSUME NEW m \in 0 .. sentCount - 1, IgnoreMessage(m)
        PROVE  UNCHANGED <<sentCount, outputQueue>>
    BY <2>4 DEF IgnoreMessage, vars
  <2> QED
    BY <1>2, <2>1, <2>2, <2>3, <2>4 DEF Next
<1> QED
  BY WindowInvariant, <1>1, <1>2, PTL DEF Spec, ImplementsReliableChannel, Promise!Spec

=============================================================================
