---------------------------- MODULE SplitPackets ----------------------------
(***************************************************************************)
(* A message from Send to the user of the other system, and the receipt    *)
(* its sender gets for it:                                                 *)
(*                                                                         *)
(*  - a message larger than a datagram is split into parts that share a    *)
(*    16 bit splitPacketId (SplitPacket); its reliability is upgraded;     *)
(*  - messages and parts wait in the priority queue (SendQueue), where an  *)
(*    unreliable message may grow too old and be culled;                   *)
(*  - the receiver collects parts by their id (InsertIntoSplitPacketList)  *)
(*    and rebuilds a message when it has all of them;                      *)
(*  - an acknowledgement, or a timer, makes a receipt.                     *)
(*                                                                         *)
(* In between, a reliable part gets past the duplicate filter exactly once *)
(* and is acknowledged at some time after (ReliableDelivery); an           *)
(* unreliable one may be lost.  The acknowledgement of anything that has   *)
(* arrived may reach the sender once, often, late or never.                *)
(*                                                                         *)
(* Messages are named 1, 2, 3 ...; <<m, i>> is part i of message m, and    *)
(* <<m, 0>> the whole of a message that is not split.                      *)
(***************************************************************************)
EXTENDS SendQueue, FiniteSets, Functions

CONSTANTS
    IdRange,                  \* 65536: values of splitPacketId
    splitMessageProgressInterval,
    Priorities,               \* the priorities and reliabilities in use
    Reliabilities,
    MaxParts,                 \* bound: parts of a message, at most MAX_SPLIT_PACKET_COUNT
    MaxMessages,              \* bound: how many messages are sent
    MaxSent                   \* bound: how many parts they have in all

ASSUME SplitAssumption ==
    /\ IdRange \in Nat \ {0}
    /\ splitMessageProgressInterval \in Nat
    /\ Priorities \subseteq Priority
    /\ Reliabilities \subseteq {"UNRELIABLE", "UNRELIABLE_WITH_ACK_RECEIPT",
                                "RELIABLE", "RELIABLE_WITH_ACK_RECEIPT"}
    /\ MaxParts \in Nat \ {0}
    /\ {MaxMessages, MaxSent} \subseteq Nat

VARIABLES
    log,              \* the messages sent
    outgoing,         \* outgoingPacketBuffer and outgoingPacketBufferNextWeights
    splitPacketId,
    culled,           \* messages in the queue whose data was freed
    resendBuffer,     \* reliable parts sent and not acknowledged
    receiptHistory,   \* unreliableWithAckReceiptHistory
    wire,             \* parts on their way
    received,         \* parts that got past the receiver's duplicate filter
    channels,         \* splitPacketChannelList: id -> parts by index
    output,           \* messages handed to the user, as sequences of parts
    progress,         \* ID_DOWNLOAD_PROGRESS: <<message, parts so far>>
    receipts          \* the receipts of each message

senderVars   == <<log, outgoing, splitPacketId, culled>>
receiptVars  == <<resendBuffer, receiptHistory, receipts>>
receiverVars == <<received, channels, output, progress>>
vars == <<senderVars, receiptVars, wire, receiverVars>>

Message == [priority : Priority, reliability : Reliabilities \cup
               {"RELIABLE", "RELIABLE_WITH_ACK_RECEIPT"},
            count : 1 .. MaxParts, id : 0 .. IdRange - 1]

Parts(m) == {<<m, i>> : i \in 0 .. log[m].count - 1}
Part     == UNION {Parts(m) : m \in DOMAIN log}

IsSplit(m)     == log[m].count > 1
IsReliable(m)  == log[m].reliability \in {"RELIABLE", "RELIABLE_WITH_ACK_RECEIPT"}
WantsReceipt(m) ==
    log[m].reliability \in {"UNRELIABLE_WITH_ACK_RECEIPT", "RELIABLE_WITH_ACK_RECEIPT"}

(* A slot of a SplitPacketChannel that holds no part yet.                  *)
None == <<>>

QueuedParts == {outgoing.heap[i].part : i \in DOMAIN outgoing.heap}

TypeOK ==
    /\ log \in Seq(Message)
    /\ outgoing.heap \in Seq([weight : Nat, priority : Priority, part : Part])
    /\ outgoing.weights \in [Priority -> Nat]
    /\ splitPacketId \in 0 .. IdRange - 1
    /\ culled \subseteq DOMAIN log
    /\ resendBuffer \subseteq Part /\ wire \subseteq Part /\ received \subseteq Part
    /\ receiptHistory \subseteq DOMAIN log
    /\ DOMAIN channels \subseteq 0 .. IdRange - 1
    /\ \A id \in DOMAIN channels : channels[id] \in Seq(Part \cup {None})
    /\ output \subseteq Seq(Part)
    /\ progress \subseteq (DOMAIN log) \X Nat
    /\ receipts \in [DOMAIN log -> Seq({"ACKED", "LOSS"})]

Init ==
    /\ log = <<>>
    /\ outgoing = [heap |-> <<>>, weights |-> InitialWeights]
    /\ splitPacketId = 0
    /\ culled = {} /\ resendBuffer = {} /\ receiptHistory = {}
    /\ wire = {} /\ received = {}
    /\ channels = [id \in {} |-> <<>>]
    /\ output = {} /\ progress = {}
    /\ receipts = <<>>

-----------------------------------------------------------------------------
(* ReliabilityLayer::Send                                                  *)

(* A split message cannot be unreliable.                                   *)
Upgraded(reliability) ==
    CASE reliability = "UNRELIABLE"                  -> "RELIABLE"
      [] reliability = "UNRELIABLE_WITH_ACK_RECEIPT" -> "RELIABLE_WITH_ACK_RECEIPT"
      [] OTHER                                       -> reliability

WholeArrived(m) == Parts(m) \subseteq received

(* Assumption: no message is split while an earlier one with the same id   *)
(* has yet to arrive (fewer than IdRange split messages are sent while one *)
(* of them waits).  Nothing in SplitPacket sees to it.                     *)
IdIsFree ==
    \A m \in DOMAIN log :
        IsSplit(m) /\ log[m].id = splitPacketId => WholeArrived(m)

Logged(p, reliability, count) ==
    /\ Len(log) < MaxMessages
    /\ Cardinality(Part) + count <= MaxSent
    /\ log' = Append(log, [priority |-> p, reliability |-> reliability,
                           count |-> count, id |-> splitPacketId])
    /\ receipts' = Append(receipts, <<>>)
    /\ UNCHANGED <<culled, resendBuffer, receiptHistory, wire, receiverVars>>

SendWhole(p, reliability) ==
    /\ Logged(p, reliability, 1)
    /\ outgoing' = Enqueued(outgoing, p, <<Len(log) + 1, 0>>)
    /\ UNCHANGED splitPacketId

(* Mutant: the id is not incremented.                                      *)
SendSplitSameId(p, reliability, count) ==
    /\ IdIsFree \/ splitPacketId = 0
    /\ Logged(p, Upgraded(reliability), count)
    /\ outgoing' = EnqueuedSeries(outgoing, p, [i \in 1 .. count |-> <<Len(log) + 1, i - 1>>])
    /\ UNCHANGED splitPacketId

(* Mutant: the id does not wrap.                                           *)
SendSplitNoWrap(p, reliability, count) ==
    /\ IdIsFree
    /\ Logged(p, Upgraded(reliability), count)
    /\ outgoing' = EnqueuedSeries(outgoing, p, [i \in 1 .. count |-> <<Len(log) + 1, i - 1>>])
    /\ splitPacketId' = splitPacketId + 1

(* SplitPacket: the parts take the id, and the next message the one after. *)
SendSplit(p, reliability, count) ==
    /\ IdIsFree
    /\ Logged(p, Upgraded(reliability), count)
    /\ outgoing' = EnqueuedSeries(outgoing, p, [i \in 1 .. count |-> <<Len(log) + 1, i - 1>>])
    /\ splitPacketId' = (splitPacketId + 1) % IdRange

-----------------------------------------------------------------------------
(* UpdateInternal: the sender's tick                                       *)

(* Unreliable messages that were created before a certain time and are     *)
(* still queued are culled: the data is freed, the node stays.             *)
CullUnreliable(last) ==
    LET old == {m \in 1 .. last : ~IsReliable(m) /\ <<m, 0>> \in QueuedParts} IN
    /\ old \ culled /= {}
    /\ culled' = culled \cup old
    /\ UNCHANGED <<log, outgoing, splitPacketId, receiptVars, wire, receiverVars>>

Dequeue ==
    /\ outgoing.heap /= <<>>
    /\ outgoing' = [outgoing EXCEPT !.heap = Pop(@)]
    /\ UNCHANGED <<log, splitPacketId, culled, receipts, receiverVars>>

NextPart == Head(outgoing.heap).part

DropCulled ==
    /\ Dequeue
    /\ NextPart[1] \in culled
    /\ UNCHANGED <<wire, resendBuffer, receiptHistory>>

(* Mutant: an unreliable message is sent and forgotten.                    *)
SendNextPartForgetting ==
    /\ Dequeue
    /\ LET m == NextPart[1] IN
       /\ m \notin culled
       /\ wire' = wire \cup {NextPart}
       /\ resendBuffer' = IF IsReliable(m) THEN resendBuffer \cup {NextPart} ELSE resendBuffer
       /\ UNCHANGED receiptHistory

(* A reliable part gets its number and enters the resend buffer; an        *)
(* unreliable message with a receipt is remembered with its datagram.      *)
SendNextPart ==
    /\ Dequeue
    /\ LET m == NextPart[1] IN
       /\ m \notin culled
       /\ wire' = wire \cup {NextPart}
       /\ resendBuffer' = IF IsReliable(m) THEN resendBuffer \cup {NextPart} ELSE resendBuffer
       /\ receiptHistory' = IF ~IsReliable(m) /\ WantsReceipt(m)
                            THEN receiptHistory \cup {m} ELSE receiptHistory

(* The timer of an UNRELIABLE_WITH_ACK_RECEIPT message expires.            *)
ReceiptLoss(m) ==
    /\ m \in receiptHistory
    /\ receipts' = [receipts EXCEPT ![m] = Append(@, "LOSS")]
    /\ receiptHistory' = receiptHistory \ {m}
    /\ UNCHANGED <<senderVars, resendBuffer, wire, receiverVars>>

-----------------------------------------------------------------------------
(* An acknowledgement reaches the sender                                   *)

(* Mutant: the receipt is given and the entry stays.                       *)
AckUnreliableKept(part) ==
    /\ part \in received
    /\ part[1] \in receiptHistory
    /\ Len(receipts[part[1]]) < 2
    /\ receipts' = [receipts EXCEPT ![part[1]] = Append(@, "ACKED")]
    /\ UNCHANGED <<receiptHistory, senderVars, resendBuffer, wire, receiverVars>>

(* Mutant: any entry of the history is taken for the acknowledged one.     *)
AckUnreliableAny(part) ==
    /\ part \in received
    /\ \E m \in receiptHistory :
         /\ receipts' = [receipts EXCEPT ![m] = Append(@, "ACKED")]
         /\ receiptHistory' = receiptHistory \ {m}
    /\ UNCHANGED <<senderVars, resendBuffer, wire, receiverVars>>

(* The datagram is that of an entry of unreliableWithAckReceiptHistory.    *)
AckUnreliable(part) ==
    /\ part \in received
    /\ part[1] \in receiptHistory
    /\ receipts' = [receipts EXCEPT ![part[1]] = Append(@, "ACKED")]
    /\ receiptHistory' = receiptHistory \ {part[1]}
    /\ UNCHANGED <<senderVars, resendBuffer, wire, receiverVars>>

(* A receipt is made for a whole message or for the last part of one.      *)
MakesReceipt(part) ==
    /\ WantsReceipt(part[1])
    /\ part[2] + 1 = log[part[1]].count

(* RemovePacketFromResendListAndDeleteOlderReliableSequenced.              *)
AckReliable(part) ==
    /\ part \in received \cap resendBuffer
    /\ resendBuffer' = resendBuffer \ {part}
    /\ receipts' = IF MakesReceipt(part)
                   THEN [receipts EXCEPT ![part[1]] = Append(@, "ACKED")]
                   ELSE receipts
    /\ UNCHANGED <<senderVars, receiptHistory, wire, receiverVars>>

-----------------------------------------------------------------------------
(* The receiver                                                            *)

Lose(part) ==
    /\ part \in wire
    /\ ~IsReliable(part[1])
    /\ wire' = wire \ {part}
    /\ UNCHANGED <<senderVars, receiptVars, receiverVars>>

Arrives(part) ==
    /\ part \in wire
    /\ wire' = wire \ {part}
    /\ received' = received \cup {part}
    /\ UNCHANGED <<senderVars, receiptVars>>

ReceiveWhole(part) ==
    /\ Arrives(part)
    /\ ~IsSplit(part[1])
    /\ output' = output \cup {<<part>>}
    /\ UNCHANGED <<channels, progress>>

(* Mutant: the array has room for the parts up to the first to arrive.     *)
AllocatedShort(part) == [i \in 1 .. part[2] + 1 |-> None]

(* SplitPacketSort::Preallocate: room for as many parts as the first part  *)
(* to arrive says.                                                         *)
Allocated(part) == [i \in 1 .. log[part[1]].count |-> None]

(* The channel of the id, created if there is none.                        *)
Channel(part) ==
    LET id == log[part[1]].id IN
    IF id \in DOMAIN channels THEN channels[id] ELSE Allocated(part)

(* SplitPacketSort::Add takes a part of the same count into a free slot;   *)
(* any other part is freed.                                                *)
Inserted(channel, part) ==
    IF Len(channel) = log[part[1]].count /\ channel[part[2] + 1] = None
    THEN [channel EXCEPT ![part[2] + 1] = part]
    ELSE channel

NumAdded(channel) == Cardinality({i \in DOMAIN channel : channel[i] /= None})

AllPacketsAdded(channel) == NumAdded(channel) = Len(channel)

(* ID_DOWNLOAD_PROGRESS is due after a part was added.                     *)
ProgressDue(channel) ==
    /\ splitMessageProgressInterval > 0
    /\ channel[1] /= None
    /\ ~AllPacketsAdded(channel)
    /\ NumAdded(channel) % splitMessageProgressInterval = 0

(* InsertIntoSplitPacketList and BuildPacketFromSplitPacketList.  Parts of *)
(* a message of more than MAX_SPLIT_PACKET_COUNT parts, or too many bytes, *)
(* are refused by the code; MaxParts stays below, and bytes are left out.  *)
ReceivePart(part) ==
    /\ Arrives(part)
    /\ IsSplit(part[1])
    /\ LET id      == log[part[1]].id
           before  == Channel(part)
           channel == Inserted(before, part)
           others  == Restrict(channels, DOMAIN channels \ {id})
       IN  /\ progress' = IF channel /= before /\ ProgressDue(channel)
                          THEN progress \cup {<<channel[1][1], NumAdded(channel)>>}
                          ELSE progress
           /\ IF AllPacketsAdded(channel)
              THEN /\ output' = output \cup {channel}
                   /\ channels' = others
              ELSE /\ channels' = [i \in DOMAIN others \cup {id} |->
                                      IF i = id THEN channel ELSE others[i]]
                   /\ UNCHANGED output

-----------------------------------------------------------------------------
Next ==
    \/ \E p \in Priorities, r \in Reliabilities :
          \/ SendWhole(p, r)
          \/ \E n \in 2 .. MaxParts : SendSplit(p, r, n)
    \/ \E m \in DOMAIN log : CullUnreliable(m) \/ ReceiptLoss(m)
    \/ DropCulled
    \/ SendNextPart
    \/ \E part \in Part :
          \/ AckUnreliable(part) \/ AckReliable(part)
          \/ Lose(part) \/ ReceiveWhole(part) \/ ReceivePart(part)

Spec == Init /\ [][Next]_vars

-----------------------------------------------------------------------------
(* Properties                                                              *)

(* The head of outgoingPacketBuffer is its lightest node, whatever series  *)
(* of parts PushSeries appended without sorting and whatever was popped.   *)
QueueIsHeap == HeapOrdered(outgoing.heap)

OwnParts(m) == [i \in 1 .. log[m].count |-> <<m, i - 1>>]

(* What the user is given is a message as it was sent: all of its parts,   *)
(* in order, none of another message that used the same splitPacketId.     *)
RebuiltIntact == \A parts \in output : \E m \in DOMAIN log : parts = OwnParts(m)

(* A message of which every part got past the duplicate filter has been    *)
(* handed over: no part was refused, dropped or left in a channel (its     *)
(* sender will not send it again).                                         *)
NoPartStranded == \A m \in DOMAIN log : WholeArrived(m) => OwnParts(m) \in output

(* A message gets at most one receipt, although an acknowledgement may     *)
(* come after the timer of ReceiptLoss, or more than once.                 *)
AtMostOneReceipt == \A m \in DOMAIN receipts : Len(receipts[m]) <= 1

(* ID_SND_RECEIPT_ACKED is about a message, or the last part of a message, *)
(* that did arrive; ID_SND_RECEIPT_LOSS only about an unreliable message.  *)
ReceiptIsTrue ==
    \A m \in DOMAIN receipts : \A i \in DOMAIN receipts[m] :
        IF receipts[m][i] = "ACKED"
        THEN <<m, log[m].count - 1>> \in received
        ELSE ~IsReliable(m)

(* PacketPriority.h of RELIABLE_WITH_ACK_RECEIPT: "The user will also get  *)
(* ID_SND_RECEIPT_ACKED after the message is delivered".                   *)
ReceiptAfterDelivery ==
    \A m \in DOMAIN receipts : receipts[m] = <<"ACKED">> => OwnParts(m) \in output

Settled(m) ==
    /\ IsReliable(m) => OwnParts(m) \in output
    /\ WantsReceipt(m) => m \in culled \/ receipts[m] /= <<>>

(* When nothing is queued, on its way, unacknowledged or waiting for a     *)
(* timer, every reliable message has been delivered and every message that *)
(* asks for a receipt has got one, unless it was culled in the queue: none *)
(* waits for something that no longer comes.                               *)
SettledAtRest ==
    /\ outgoing.heap = <<>> /\ wire = {} /\ resendBuffer = {} /\ receiptHistory = {}
    => \A m \in DOMAIN log : Settled(m)
=============================================================================
