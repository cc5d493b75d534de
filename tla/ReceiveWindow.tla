--------------------------- MODULE ReceiveWindow ---------------------------
(***************************************************************************)
(* The duplicate filter of reliable messages at work, against the most     *)
(* general sender and network the rest of the layer leaves it with:        *)
(*                                                                         *)
(*  - the sender numbers messages consecutively, and does not number one   *)
(*    while the message ResendLen before it is unacknowledged (it still    *)
(*    fills its slot of resendBuffer); an acknowledged message was         *)
(*    received.  ReliableDelivery models that sender and its network, and  *)
(*    is checked to implement this specification;                          *)
(*  - any copy of a numbered message may arrive at any time, any number of *)
(*    times, in any order, as long as it is not older than MaxAge.         *)
(*                                                                         *)
(* A message is identified by the count of messages numbered before it;    *)
(* what travels is its number of type uint24_t, kept in wire.              *)
(***************************************************************************)
EXTENDS PacketWindow

CONSTANTS
    ResendLen,      \* RESEND_BUFFER_ARRAY_LENGTH, 512
    MaxAge,         \* a copy that arrives is at most so many messages behind
    MaxMessages,    \* bound: how many messages are numbered
    StartNumbers    \* the number the first message may have: the layer
                    \* starts at 0, or any number after earlier traffic

ASSUME WindowAssumption ==
    /\ ResendLen \in Nat \ {0}
    /\ ResendLen <= HalfRange + 1
    /\ ResendLen <= HoleLimit + 1
    /\ MaxAge \in Nat
    /\ MaxAge <= HalfRange + 1
    /\ MaxMessages \in Nat
    /\ StartNumbers \subseteq Number

VARIABLES
    sentCount,                        \* how many messages have been numbered
    wire,                             \* wire[m+1]: reliableMessageNumber of m
    sendReliableMessageNumberIndex,   \* the number of the next message
    base,                             \* which message the base index stands for
    receivedPacketsBaseIndex,
    hasReceivedPacketQueue,
    outputQueue                       \* everything handed over so far

vars == <<sentCount, wire, sendReliableMessageNumberIndex, base,
          receivedPacketsBaseIndex, hasReceivedPacketQueue, outputQueue>>

Delivered == {outputQueue[i] : i \in DOMAIN outputQueue}

TypeOK ==
    /\ sentCount \in Nat
    /\ wire \in Seq(Number)
    /\ Len(wire) = sentCount
    /\ sendReliableMessageNumberIndex \in Number
    /\ base \in Nat
    /\ receivedPacketsBaseIndex \in Number
    /\ hasReceivedPacketQueue \in Seq(BOOLEAN)
    /\ outputQueue \in Seq(Nat)

Init ==
    /\ sentCount = 0
    /\ wire = <<>>
    /\ sendReliableMessageNumberIndex \in StartNumbers
    /\ base = 0
    /\ receivedPacketsBaseIndex = sendReliableMessageNumberIndex
    /\ hasReceivedPacketQueue = <<>>
    /\ outputQueue = <<>>

(* Mutant: a message is numbered although its slot is taken.               *)
NumberMessagesUnchecked(n) ==
    /\ sentCount + n <= MaxMessages
    /\ sentCount' = sentCount + n
    /\ wire' = wire \o [i \in 1 .. n |-> Plus(sendReliableMessageNumberIndex, i - 1)]
    /\ sendReliableMessageNumberIndex' = Plus(sendReliableMessageNumberIndex, n)
    /\ UNCHANGED <<base, receivedPacketsBaseIndex, hasReceivedPacketQueue, outputQueue>>

(* An update of the sender numbers n messages.  The slot of resendBuffer   *)
(* each of them takes is free when the message ResendLen before it was     *)
(* acknowledged.                                                           *)
NumberMessages(n) ==
    /\ sentCount + n <= MaxMessages
    /\ \A m \in sentCount .. sentCount + n - 1 :
          m >= ResendLen => m - ResendLen \in Delivered
    /\ sentCount' = sentCount + n
    /\ wire' = wire \o [i \in 1 .. n |-> Plus(sendReliableMessageNumberIndex, i - 1)]
    /\ sendReliableMessageNumberIndex' = Plus(sendReliableMessageNumberIndex, n)
    /\ UNCHANGED <<base, receivedPacketsBaseIndex, hasReceivedPacketQueue, outputQueue>>

(* One internal packet with reliability RELIABLE goes through the window   *)
(* and, if it is accepted, to the output queue.                            *)
ReceiveMessage(m) ==
    /\ m + MaxAge >= base
    /\ IsAccepted(wire[m + 1], receivedPacketsBaseIndex, hasReceivedPacketQueue)
    /\ LET queue == MarkReceived(wire[m + 1], receivedPacketsBaseIndex, hasReceivedPacketQueue)
           popped == LeadingReceived(queue)
       IN  /\ hasReceivedPacketQueue' = PopLeading(queue)
           /\ receivedPacketsBaseIndex' = Plus(receivedPacketsBaseIndex, popped)
           /\ base' = base + popped
    /\ outputQueue' = Append(outputQueue, m)
    /\ UNCHANGED <<sentCount, wire, sendReliableMessageNumberIndex>>

(* A copy that is not accepted is freed, which changes nothing.            *)
IgnoreMessage(m) ==
    /\ m + MaxAge >= base
    /\ ~IsAccepted(wire[m + 1], receivedPacketsBaseIndex, hasReceivedPacketQueue)
    /\ UNCHANGED vars

Next ==
    \/ \E n \in 1 .. ResendLen : NumberMessages(n)
    \/ \E m \in 0 .. sentCount - 1 : ReceiveMessage(m) \/ IgnoreMessage(m)

Spec == Init /\ [][Next]_vars

-----------------------------------------------------------------------------
(* No reliable message is handed to the user twice, however often its      *)
(* copies arrive and however late (the window's reason to exist).          *)
AtMostOnce ==
    \A i, j \in DOMAIN outputQueue : outputQueue[i] = outputQueue[j] => i = j

(* The other half: the window never takes a message it has not received    *)
(* for a duplicate or for one too far ahead.  The receiver acknowledges    *)
(* the datagram before it looks at the window, so the sender would never   *)
(* send the message again and its number would stay a hole for ever.       *)
FreshIsAccepted ==
    \A m \in 0 .. sentCount - 1 :
        m \notin Delivered =>
            IsAccepted(wire[m + 1], receivedPacketsBaseIndex, hasReceivedPacketQueue)

(* What the two pieces of state mean (the comment "Memory-efficient        *)
(* receivedPackets algorithm" of ReliabilityLayer.h): everything under the *)
(* base was received, the base itself was not, the queue tells which of    *)
(* the following ones were and ends with one that was.                     *)
QueueMeansHoles ==
    /\ \A m \in 0 .. base - 1 : m \in Delivered
    /\ \A i \in 1 .. Len(hasReceivedPacketQueue) :
            hasReceivedPacketQueue[i] <=> (base + i - 1) \notin Delivered
    /\ \A m \in Delivered : m < base + Len(hasReceivedPacketQueue)
    /\ hasReceivedPacketQueue # <<>> => hasReceivedPacketQueue[1]

(* The queue never outgrows the sender's resend buffer, so neither the     *)
(* hole limit nor the "DatagramSequenceNumberType has overflowed" assertion *)
(* is ever reached by a peer that keeps to the protocol.                   *)
QueueBounded == Len(hasReceivedPacketQueue) <= ResendLen

(* The window implements the promise of ReliableChannel.                   *)
Promise == INSTANCE ReliableChannel WITH output <- outputQueue
ImplementsReliableChannel == Promise!Spec

-----------------------------------------------------------------------------
(* The inductive invariant behind these properties.                        *)

(* Distances between messages are distances between their numbers, ahead   *)
(* of the base and, up to MaxAge, behind it.                               *)
NumbersTrackMessages ==
    /\ Minus(sendReliableMessageNumberIndex, receivedPacketsBaseIndex) = sentCount - base
    /\ \A m \in 0 .. sentCount - 1 :
          /\ m >= base =>
                Minus(wire[m + 1], receivedPacketsBaseIndex) = m - base
          /\ m < base /\ m + MaxAge >= base =>
                Minus(wire[m + 1], receivedPacketsBaseIndex) = NumRange - (base - m)

WindowInv ==
    /\ TypeOK
    /\ base <= sentCount
    /\ sentCount - base <= ResendLen
    /\ Len(hasReceivedPacketQueue) <= sentCount - base
    /\ \A m \in Delivered : m < sentCount
    /\ QueueMeansHoles
    /\ NumbersTrackMessages
    /\ AtMostOnce

=============================================================================
