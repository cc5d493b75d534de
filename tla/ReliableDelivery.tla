-------------------------- MODULE ReliableDelivery --------------------------
(***************************************************************************)
(* Reliable messages from one peer to another: the resend buffer and the   *)
(* datagram history of the sender, datagrams, acknowledgements and         *)
(* negative acknowledgements that the network loses, duplicates and        *)
(* reorders, and the receiver up to its output queue.                      *)
(*                                                                         *)
(* An update of either peer is ReliabilityLayer::UpdateInternal; what the  *)
(* network delivers goes through HandleSocketReceiveFromConnectedPlayer.   *)
(* Data flows in one direction, so the sender's update sends datagrams and *)
(* the receiver's update sends ACKs and NAKs.  Both run on the network     *)
(* thread of their peer: each is one step, except that the messages of a   *)
(* received datagram are taken one at a time (parsing).                    *)
(*                                                                         *)
(* A message is [id, num]: its payload, named by the order of sending, and *)
(* its reliableMessageNumber.  Sizes, times and the congestion window are  *)
(* left out: how many messages an update sends, where it cuts them into    *)
(* datagrams and when a timer expires is any choice.                       *)
(***************************************************************************)
EXTENDS PacketWindow, Ranges

CONSTANTS
    ResendLen,        \* RESEND_BUFFER_ARRAY_LENGTH, 512
    HistoryLen,       \* DATAGRAM_MESSAGE_ID_ARRAY_LENGTH, 512
    SkipCap,          \* at most so many datagrams are reported missing, 1000
    SkipReject,       \* more missing ones than this are not believed, 50000
    MaxAge,           \* no message arrives more than so many messages late
    MaxMessages,      \* bound: how many messages are sent
    MaxInFlight,      \* bound: datagrams, ACKs and NAKs in the network
    StartNumbers,     \* number of the first message
    StartDatagrams,   \* number of the first datagram
    EarlyTimeouts     \* may a timer expire while an answer is under way?

ASSUME DeliveryAssumption ==
    /\ ResendLen \in Nat \ {0}
    /\ NumRange % ResendLen = 0
    /\ ResendLen <= HalfRange + 1
    /\ ResendLen <= HoleLimit + 1
    /\ HistoryLen \in Nat
    /\ HistoryLen < HalfRange
    /\ (HistoryLen + 1) * ResendLen <= NumRange
    /\ SkipCap \in Nat /\ SkipReject \in Nat
    /\ MaxAge \in Nat /\ ResendLen <= MaxAge /\ MaxAge <= HalfRange + 1
    /\ MaxMessages \in Nat /\ MaxInFlight \in Nat
    /\ StartNumbers \subseteq Number /\ StartDatagrams \subseteq Number
    /\ EarlyTimeouts \in BOOLEAN

VARIABLES
    \* the sender
    sentCount,                        \* how many messages have been numbered
    sendReliableMessageNumberIndex,   \* the number of the next one
    resendBuffer,                     \* slot -> the message in it, or Empty
    resendList,                       \* the linked list: ids, head first
    due,                              \* ids whose timer a NAK has ended
    datagramHistory,                  \* message numbers of the last datagrams
    datagramHistoryPopCount,          \* number of the first datagram in it
    nextDatagramSequenceNumber,
    connection,                       \* "open", "dead" or "flagged"
    \* the network
    net,
    \* the receiver
    expectedNextSequenceNumber,
    acknowlegements, NAKs,            \* range lists
    parsing,                          \* messages of the datagram at hand
    receivedPacketsBaseIndex, hasReceivedPacketQueue,
    outputQueue                       \* ids handed to the user

bufferVars   == <<sentCount, sendReliableMessageNumberIndex, resendBuffer, resendList, due>>
historyVars  == <<datagramHistory, datagramHistoryPopCount, nextDatagramSequenceNumber>>
senderVars   == <<bufferVars, historyVars, connection>>
answerVars   == <<expectedNextSequenceNumber, acknowlegements, NAKs>>
windowVars   == <<receivedPacketsBaseIndex, hasReceivedPacketQueue, outputQueue>>
receiverVars == <<answerVars, parsing, windowVars>>
vars         == <<senderVars, net, receiverVars>>

Empty    == [id |-> -1, num |-> 0]
Message  == [id : 0 .. MaxMessages - 1, num : Number]
Slot(num) == num % ResendLen

Data(num, messages) == [type |-> "data", num |-> num, messages |-> messages]
Answer(type, list)  == [type |-> type, ranges |-> list]

Datagrams == {p \in net : p.type = "data"}
Answers   == net \ Datagrams

TypeOK ==
    /\ sentCount \in 0 .. MaxMessages
    /\ {sendReliableMessageNumberIndex, datagramHistoryPopCount, nextDatagramSequenceNumber,
        expectedNextSequenceNumber, receivedPacketsBaseIndex} \subseteq Number
    /\ resendBuffer \in [0 .. ResendLen - 1 -> Message \cup {Empty}]
    /\ resendList \in Seq(0 .. MaxMessages - 1)
    /\ due \subseteq ToSet(resendList)
    /\ datagramHistory \in Seq(SUBSET Number)
    /\ connection \in {"open", "dead", "flagged"}
    /\ \A p \in net : \/ p.type = "data" /\ p.num \in Number /\ p.messages \in Seq(Message)
                      \/ p.type \in {"ack", "nak"} /\ p.ranges \in Seq(RangeNode)
    /\ acknowlegements \in Seq(RangeNode) /\ NAKs \in Seq(RangeNode)
    /\ parsing \in Seq(Message)
    /\ hasReceivedPacketQueue \in Seq(BOOLEAN)
    /\ outputQueue \in Seq(0 .. MaxMessages - 1)

(* A connection starts with number 0 and no history; one that has sent d   *)
(* datagrams, all of them acknowledged, has kept the last ones, empty.     *)
EntriesBefore(d) == IF d <= HistoryLen THEN d ELSE HistoryLen + 1

Init ==
    /\ sentCount = 0
    /\ sendReliableMessageNumberIndex \in StartNumbers
    /\ resendBuffer = [s \in 0 .. ResendLen - 1 |-> Empty]
    /\ resendList = <<>>
    /\ due = {}
    /\ nextDatagramSequenceNumber \in StartDatagrams
    /\ datagramHistory = [i \in 1 .. EntriesBefore(nextDatagramSequenceNumber) |-> {}]
    /\ datagramHistoryPopCount =
          Minus(nextDatagramSequenceNumber, EntriesBefore(nextDatagramSequenceNumber))
    /\ connection = "open"
    /\ net = {}
    /\ expectedNextSequenceNumber = nextDatagramSequenceNumber
    /\ acknowlegements = <<>> /\ NAKs = <<>>
    /\ parsing = <<>>
    /\ receivedPacketsBaseIndex = sendReliableMessageNumberIndex
    /\ hasReceivedPacketQueue = <<>>
    /\ outputQueue = <<>>

-----------------------------------------------------------------------------
(* Every step but ParseMessage waits until a datagram has been parsed:     *)
(* ParseMessage touches only the receiver's window, which no other step    *)
(* reads, so that interleaving it would show nothing new.  Nothing is      *)
(* followed after the sender has closed the connection, which the receiver *)
(* cannot tell from a sender that has fallen silent.                       *)
Idle == connection = "open" /\ parsing = <<>>

(* UpdateInternal of the sender.                                           *)

(* The slots as a sequence, and the message the list names by id.          *)
Slots == [s \in 1 .. ResendLen |-> resendBuffer[s - 1]]

MessageOf(id) == CHOOSE m \in ToSet(Slots) : m.id = id

IsUnderWay(id) ==
    \/ \E p \in Datagrams : \E i \in DOMAIN p.messages : p.messages[i].id = id
    \/ Answers # {} \/ acknowlegements # <<>> \/ NAKs # <<>>

(* Mutant: the timer of a message is ended by a NAK only.                  *)
TakesOnlyNAKed(k) == \A i \in 1 .. k : resendList[i] \in due

(* The resend loop takes messages from the head of the list while their    *)
(* nextActionTime has passed, k of them, and puts each back at the tail    *)
(* with a new timer.  The time has passed for a message a NAK named, and   *)
(* may have passed for any other.                                          *)
TakesFromHead(k) ==
    /\ \A i \in 1 .. k : resendList[i] \in due \/ EarlyTimeouts \/ ~IsUnderWay(resendList[i])
    /\ k < Len(resendList) => resendList[k + 1] \notin due

(* The send loop numbers a message while ResendBufferOverflow() is false,  *)
(* that is while the slot of the next number is free.                      *)
NewMessages(n) ==
    [i \in 1 .. n |-> [id  |-> sentCount + i - 1,
                       num |-> Plus(sendReliableMessageNumberIndex, i - 1)]]

(* Mutant: ResendBufferOverflow() is not consulted.                        *)
SlotsUnchecked(messages) == TRUE

SlotsFree(messages) ==
    \A i \in DOMAIN messages : resendBuffer[Slot(messages[i].num)] = Empty

(* Where a list of n messages may be cut into datagrams: the positions of  *)
(* the last message of each, the last one being n.                         *)
Ends(n) ==
    UNION {{e \in [1 .. d -> 1 .. n] :
               e[d] = n /\ \A i \in 1 .. d - 1 : e[i] < e[i + 1]} : d \in 1 .. n}

(* A list of messages, cut after each position of ends (PushDatagram).     *)
Cut(messages, ends) ==
    [i \in DOMAIN ends |->
        SubSeq(messages, IF i = 1 THEN 1 ELSE ends[i - 1] + 1, ends[i])]

Numbers(messages) == {messages[i].num : i \in DOMAIN messages}

(* Mutant: datagramHistoryPopCount is not incremented.                     *)
KeepUncounted(entries) ==
    LET excess == Len(entries) - (HistoryLen + 1) IN
    [kept |-> IF excess > 0 THEN SubSeq(entries, excess + 1, Len(entries)) ELSE entries,
     dropped |-> 0]

(* AddFirstToDatagramHistory drops the oldest entry when there are more    *)
(* than HistoryLen of them, so that HistoryLen + 1 are kept.               *)
KeepInHistory(entries) ==
    LET excess == Len(entries) - (HistoryLen + 1) IN
    IF excess > 0 THEN [kept |-> SubSeq(entries, excess + 1, Len(entries)), dropped |-> excess]
                  ELSE [kept |-> entries, dropped |-> 0]

(* Mutant: a resent message is appended without being popped first.        *)
RequeuedWithoutPop(k, new) ==
    resendList \o SubSeq(resendList, 1, k) \o [i \in DOMAIN new |-> new[i].id]

(* The list after k messages were popped and appended again (PopListHead,  *)
(* InsertPacketIntoResendList), and new ones appended.                     *)
Requeued(k, new) ==
    SubSeq(resendList, k + 1, Len(resendList))
        \o SubSeq(resendList, 1, k) \o [i \in DOMAIN new |-> new[i].id]

(* Assumption on the network: nothing in it, or in the receiver's lists,   *)
(* is so old that its number could be taken for a new one.                 *)
OutstandingNumbers ==
    {p.num : p \in Datagrams}
        \cup (UNION {Members(p.ranges) : p \in Answers})
        \cup Members(acknowlegements) \cup Members(NAKs)
        \cup {expectedNextSequenceNumber}

NoneTooOld(newDatagrams, newMessages) ==
    /\ \A d \in OutstandingNumbers : Minus(nextDatagramSequenceNumber, d) + newDatagrams <= HalfRange
    /\ \A p \in Datagrams : \A i \in DOMAIN p.messages :
          p.messages[i].id + MaxAge >= sentCount + newMessages

(* One update: the messages that are due, then n new ones, cut into        *)
(* datagrams; a resent and a new message never share one.                  *)
SenderUpdate(k, n, ends) ==
    LET resent    == [i \in 1 .. k |-> MessageOf(resendList[i])]
        new       == NewMessages(n)
        datagrams == Cut(resent \o new, ends)
        number(i) == Plus(nextDatagramSequenceNumber, i - 1)
        history   == KeepInHistory(datagramHistory
                        \o [i \in DOMAIN datagrams |-> Numbers(datagrams[i])])
    IN  /\ Idle
        /\ k > 0 => \E i \in DOMAIN ends : ends[i] = k
        /\ TakesFromHead(k)
        /\ sentCount + n <= MaxMessages
        /\ SlotsFree(new)
        /\ NoneTooOld(Len(datagrams), n)
        /\ Cardinality(net) + Len(datagrams) <= MaxInFlight
        /\ sentCount' = sentCount + n
        /\ sendReliableMessageNumberIndex' = Plus(sendReliableMessageNumberIndex, n)
        /\ resendBuffer' = [s \in DOMAIN resendBuffer |->
              IF \E i \in DOMAIN new : Slot(new[i].num) = s
              THEN new[CHOOSE i \in DOMAIN new : Slot(new[i].num) = s]
              ELSE resendBuffer[s]]
        /\ resendList' = Requeued(k, new)
        /\ due' = due \ {resendList[i] : i \in 1 .. k}
        /\ datagramHistory' = history.kept
        /\ datagramHistoryPopCount' = Plus(datagramHistoryPopCount, history.dropped)
        /\ nextDatagramSequenceNumber' = Plus(nextDatagramSequenceNumber, Len(datagrams))
        /\ net' = net \cup {Data(number(i), datagrams[i]) : i \in DOMAIN datagrams}
        /\ UNCHANGED <<connection, receiverVars>>

(* AckTimeout: nothing has arrived for timeoutTime while messages wait to  *)
(* be acknowledged.                                                        *)
AckTimeout ==
    /\ Idle
    /\ resendList # <<>>
    /\ connection' = "dead"
    /\ UNCHANGED <<bufferVars, historyVars, net, receiverVars>>

-----------------------------------------------------------------------------
(* HandleSocketReceiveFromConnectedPlayer of the sender.                   *)

InHistory(d) == Minus(d, datagramHistoryPopCount) < Len(datagramHistory)

(* GetMessageNumberNodeByDatagramIndex                                     *)
MessagesOfDatagram(d) ==
    IF LessThan(d, datagramHistoryPopCount) THEN {}
    ELSE datagramHistory[Minus(d, datagramHistoryPopCount) + 1]

(* The ranges are handled in order, up to one that ends in the largest     *)
(* number, which marks the datagram as malicious, and up to a number that  *)
(* is not in the history, which ends the handler.                          *)
LastIsReserved(list) == list # <<>> /\ list[Len(list)].maxIndex = MaxNumber

Examined(list) ==
    Members(IF LastIsReserved(list) THEN SubSeq(list, 1, Len(list) - 1) ELSE list)

Handled(list) == {d \in Examined(list) : \A e \in Examined(list) : e <= d => InHistory(e)}

IsFlagged(list) ==
    datagramHistory # <<>> /\ LastIsReserved(list) /\ Handled(list) = Examined(list)

(* The network hands over a packet, and may or may not do so again.        *)
Arrives(p) ==
    /\ Idle
    /\ p \in net
    /\ net' = net \ {p} \/ net' = net

(* Mutant: whatever is in the slot is removed.                             *)
AcknowledgedBySlot(numbers) ==
    {m \in ToSet(Slots) : m # Empty /\ \E num \in numbers : Slot(num) = Slot(m.num)}

(* RemovePacketFromResendListAndDeleteOlderReliableSequenced: the messages *)
(* with one of these numbers that are still in their slot.                 *)
Acknowledged(numbers) == {m \in ToSet(Slots) : m # Empty /\ m.num \in numbers}

(* The list without these ids, the others in their order                   *)
(* (RemoveFromList).                                                       *)
Without(list, ids) ==
    LET Kept[i \in 0 .. Len(list)] ==
            IF i = 0 THEN <<>>
            ELSE IF list[i] \in ids THEN Kept[i - 1] ELSE Append(Kept[i - 1], list[i])
    IN  Kept[Len(list)]

(* An ACK removes the messages of the datagrams it names, unless they are  *)
(* gone, and empties the history of these datagrams.                       *)
ReceiveAck(p) ==
    LET acked   == IF datagramHistory = <<>> THEN {} ELSE Handled(p.ranges)
        removed == Acknowledged(UNION {MessagesOfDatagram(d) : d \in acked})
        ids     == {m.id : m \in removed}
    IN  /\ p.type = "ack"
        /\ Arrives(p)
        /\ resendBuffer' = [s \in DOMAIN resendBuffer |->
              IF resendBuffer[s] \in removed THEN Empty ELSE resendBuffer[s]]
        /\ resendList' = Without(resendList, ids)
        /\ due' = due \ ids
        /\ datagramHistory' = [i \in DOMAIN datagramHistory |->
              IF Plus(datagramHistoryPopCount, i - 1) \in acked THEN {} ELSE datagramHistory[i]]
        /\ connection' = IF IsFlagged(p.ranges) THEN "flagged" ELSE "open"
        /\ UNCHANGED <<sentCount, sendReliableMessageNumberIndex, datagramHistoryPopCount,
                       nextDatagramSequenceNumber, receiverVars>>

(* A NAK makes the messages in the slots of the named datagrams due, even  *)
(* if a slot holds another message by now.                                 *)
ReceiveNak(p) ==
    LET missing == IF datagramHistory = <<>> THEN {} ELSE Handled(p.ranges)
        slots   == {Slot(num) : num \in UNION {MessagesOfDatagram(d) : d \in missing}}
    IN  /\ p.type = "nak"
        /\ Arrives(p)
        /\ due' = due \cup {resendBuffer[s].id : s \in {t \in slots : resendBuffer[t] # Empty}}
        /\ connection' = IF IsFlagged(p.ranges) THEN "flagged" ELSE "open"
        /\ UNCHANGED <<sentCount, sendReliableMessageNumberIndex, resendBuffer, resendList,
                       historyVars, receiverVars>>

-----------------------------------------------------------------------------
(* HandleSocketReceiveFromConnectedPlayer of the receiver.                 *)

(* OnGotPacket: how many datagrams before this one are missing.            *)
Skipped(num) ==
    IF num # expectedNextSequenceNumber /\ GreaterThan(num, expectedNextSequenceNumber)
    THEN Minus(num, expectedNextSequenceNumber) ELSE 0

IsAhead(num) ==
    num = expectedNextSequenceNumber \/ GreaterThan(num, expectedNextSequenceNumber)

(* The count numbers before num are inserted, the lowest first.            *)
InsertSkipped(list, num, count) ==
    LET After[i \in 0 .. count] ==
            IF i = 0 THEN list ELSE Inserted(After[i - 1], Minus(num, count - i + 1))
    IN  After[count]

(* A datagram is acknowledged whether or not its messages are new.  If too *)
(* many seem to be missing before it, it is ignored instead.               *)
ReceiveDatagram(p) ==
    LET skipped == Skipped(p.num)
        count   == IF skipped > SkipCap THEN SkipCap ELSE skipped
    IN  /\ p.type = "data"
        /\ Arrives(p)
        /\ IF skipped > SkipCap /\ skipped > SkipReject
           THEN UNCHANGED <<answerVars, parsing>>
           ELSE /\ expectedNextSequenceNumber' = IF IsAhead(p.num) THEN Plus(p.num, 1)
                                                 ELSE expectedNextSequenceNumber
                /\ NAKs' = InsertSkipped(NAKs, p.num, count)
                /\ acknowlegements' = Inserted(acknowlegements, p.num)
                /\ parsing' = p.messages
        /\ UNCHANGED <<senderVars, windowVars>>

(* The next message of the datagram goes through the window.               *)
ParseMessage ==
    /\ parsing # <<>>
    /\ parsing' = Tail(parsing)
    /\ LET num == Head(parsing).num IN
       IF IsAccepted(num, receivedPacketsBaseIndex, hasReceivedPacketQueue)
       THEN LET queue == MarkReceived(num, receivedPacketsBaseIndex, hasReceivedPacketQueue) IN
            /\ hasReceivedPacketQueue' = PopLeading(queue)
            /\ receivedPacketsBaseIndex' = Plus(receivedPacketsBaseIndex, LeadingReceived(queue))
            /\ outputQueue' = Append(outputQueue, Head(parsing).id)
       ELSE UNCHANGED windowVars
    /\ UNCHANGED <<senderVars, net, answerVars>>

(* UpdateInternal of the receiver: the ACKs, if ShouldSendACKs, and the    *)
(* NAKs.  Each list fits one datagram.                                     *)
ReceiverUpdate(sendAcks) ==
    LET acks == IF sendAcks /\ acknowlegements # <<>> THEN {Answer("ack", acknowlegements)} ELSE {}
        naks == IF NAKs # <<>> THEN {Answer("nak", NAKs)} ELSE {}
    IN  /\ Idle
        /\ acks \cup naks # {}
        /\ Cardinality(net \cup acks \cup naks) <= MaxInFlight
        /\ net' = net \cup acks \cup naks
        /\ acknowlegements' = IF acks = {} THEN acknowlegements ELSE <<>>
        /\ NAKs' = <<>>
        /\ UNCHANGED <<senderVars, expectedNextSequenceNumber, parsing, windowVars>>

-----------------------------------------------------------------------------
(* The network loses a packet.  It does not lose so many datagrams in a    *)
(* row that the next number looks like an old one.                         *)
Lose(p) ==
    /\ Idle
    /\ p.type = "data" =>
          Minus(nextDatagramSequenceNumber, expectedNextSequenceNumber) < HalfRange
    /\ net' = net \ {p}
    /\ UNCHANGED <<senderVars, receiverVars>>

Next ==
    \/ \E k \in 0 .. Len(resendList), n \in 0 .. ResendLen :
          \E ends \in Ends(k + n) : SenderUpdate(k, n, ends)
    \/ AckTimeout
    \/ \E p \in net : ReceiveAck(p) \/ ReceiveNak(p) \/ ReceiveDatagram(p) \/ Lose(p)
    \/ ParseMessage
    \/ \E sendAcks \in BOOLEAN : ReceiverUpdate(sendAcks)

Spec == Init /\ [][Next]_vars

(* Both network threads keep updating their layer, so that timers expire,  *)
(* datagrams are parsed and answers are sent (strong fairness, because the *)
(* bound on the network and Idle hold updates up).  No packet stays in the *)
(* network for ever, and a network that is offered a message again and     *)
(* again does not lose it every time.                                      *)
Carries(p, id) == \E i \in DOMAIN p.messages : p.messages[i].id = id
Leaves(p)      == net' = net \ {p}

Fairness ==
    /\ SF_vars(\E k \in 1 .. Len(resendList) :
                  \E ends \in Ends(k) : SenderUpdate(k, 0, ends))
    /\ WF_vars(ParseMessage)
    /\ SF_vars(ReceiverUpdate(TRUE))
    /\ SF_vars(\E p \in Datagrams : Leaves(p) /\ (ReceiveDatagram(p) \/ Lose(p)))
    /\ SF_vars(\E p \in Answers : Leaves(p) /\ (ReceiveAck(p) \/ ReceiveNak(p) \/ Lose(p)))
    /\ \A id \in 0 .. MaxMessages - 1 :
          SF_vars(\E p \in Datagrams : Carries(p, id) /\ ReceiveDatagram(p))

FairSpec == Spec /\ Fairness

-----------------------------------------------------------------------------
Delivered == ToSet(outputQueue)

(* No message is lost, whatever the network does: a message that was sent  *)
(* and has not been handed over is still in the resend buffer, in its own  *)
(* slot and in the resend list, so that its timer will send it again.  In  *)
(* particular an acknowledgement never removes a message that the datagram *)
(* it names did not carry, and no slot is overwritten.                     *)
NoLostMessage ==
    \A id \in 0 .. sentCount - 1 :
        \/ id \in Delivered
        \/ \E i \in DOMAIN parsing : parsing[i].id = id
        \/ /\ \E s \in DOMAIN resendBuffer : resendBuffer[s].id = id /\ Slot(resendBuffer[s].num) = s
           /\ id \in ToSet(resendList)

(* The linked list and the array hold the same messages, each once.        *)
ListMatchesBuffer ==
    /\ \A i, j \in DOMAIN resendList : resendList[i] = resendList[j] => i = j
    /\ ToSet(resendList) = {resendBuffer[s].id : s \in DOMAIN resendBuffer} \ {Empty.id}

(* datagramHistory starts at datagramHistoryPopCount and ends with the     *)
(* last datagram sent (the assertion AddFirstToDatagramHistory keeps as a  *)
(* comment), and what it says of a datagram in the network is what that    *)
(* datagram carries, or nothing once it was acknowledged.                  *)
HistoryDescribesDatagrams ==
    /\ Minus(nextDatagramSequenceNumber, datagramHistoryPopCount) = Len(datagramHistory)
    /\ \A p \in Datagrams :
          InHistory(p.num) => MessagesOfDatagram(p.num) \in {{}, Numbers(p.messages)}

(* The number of a message, and the message the receiver's base stands     *)
(* for, told from where the sender is.                                     *)
NumberOf(id) == (sendReliableMessageNumberIndex - (sentCount - id)) % NumRange
BaseMessage  == sentCount - Minus(sendReliableMessageNumberIndex, receivedPacketsBaseIndex)

(* The receiver's window sees nothing but what ReceiveWindow allows: the   *)
(* theorems about that module hold for this one.                           *)
Window == INSTANCE ReceiveWindow WITH
            base <- BaseMessage,
            wire <- [i \in 1 .. sentCount |-> NumberOf(i - 1)]

ImplementsReceiveWindow == Window!Spec

(* Every message is eventually handed over, unless the connection is       *)
(* closed before.                                                          *)
EventuallyDelivered ==
    \A id \in 0 .. MaxMessages - 1 :
        (id < sentCount) ~> (id \in Delivered \/ connection # "open")

(* "Set to true when the datagram was rejected because it could not have   *)
(* been produced by a conforming peer" (ReliabilityLayer.h): between two   *)
(* peers that run this code, no datagram is ever flagged.                  *)
ConformingPeerNotFlagged == connection # "flagged"

=============================================================================
