# TLA+ specifications of SLikeNet

SLikeNet (a fork of RakNet) gives games messages over UDP: reliable or not,
ordered, sequenced or neither, on 32 channels per connection.  Everything above
(RPC, replication, NAT traversal, ...) relies on one class, `ReliabilityLayer`,
to turn a network that loses, duplicates and reorders datagrams into those
promises.  This directory models that class, the handshake of `RakPeer` that
sets a connection up and takes it down, and the `ReadyEvent` plugin that runs on
top of both; it model-checks them with TLC, and proves the delivery of reliable
messages (sender, network, duplicate filter and range lists), the ordering
channels, the send queue with splitting, reassembly and receipts, the handshake and
the ready event with TLAPS.

Paths below are relative to `src/Source`; `RL` is `src/ReliabilityLayer.cpp`,
`CC` is `src/CCRakNetSlidingWindow.cpp`, `RP` is `src/RakPeer.cpp`.

## 1. Inventory

### The core: one connection

| part | state | operations | what makes it hard |
|---|---|---|---|
| 24 bit numbers (`types.h`, `uint24_t`) | - | `+`, `-`, `++`, `GreaterThan`, `LessThan`, `IsOlderOrderedPacket` | everything wraps after 2^24 |
| Numbering and resend buffer (`RL::UpdateInternal`) | `sendReliableMessageNumberIndex`, `resendBuffer[512]`, a circular resend list, a timer per message | number and send, resend on timer, remove on ACK, hasten on NAK | slots reused modulo 512; a resend races its own acknowledgement |
| Datagram history | `datagramHistory`, `datagramHistoryPopCount`, `nextDatagramSequenceNumber` | add a datagram, drop the oldest, look one up, empty one | which messages an ACK stands for |
| Range lists (`DS_RangeList.h`) | `acknowlegements`, `NAKs` | `Insert`, `Serialize` into what is left of the MTU, `Deserialize` | joins at gaps of one number, partial serialization |
| Gap detection (`CC::OnGotPacket`) | `expectedNextSequenceNumber` | count the datagrams skipped | caps (1000), disbelief (50000), late datagrams |
| Duplicate filter | `receivedPacketsBaseIndex`, `hasReceivedPacketQueue` | accept, fill a hole, grow, pop | works only on number distances; runs *after* the ACK is queued |
| Ordering channels | write indices; read indices, `orderingHeaps`, `heapIndexOffsets` | index in `Send`; deliver, discard, buffer, drain | two counters, a heap, messages that may never come |
| Splitting | `splitPacketId`, `splitPacketChannelList` | `SplitPacket`, insert a fragment, rebuild | fragments of several messages interleaved; ids wrap |
| Receipts, unreliable messages | `unreliableWithAckReceiptHistory`, list of unreliable messages | ACKED / LOSS receipts, culling | timer against late ACK; one receipt for many parts |
| Send queue | `outgoingPacketBuffer`, weights per priority | push, push a series, pop | unsorted appends, weights relative to the head |
| Congestion control | `cwnd`, `ssThresh`, rtt estimates | bandwidth, `OnAck`, `OnNAK`, `OnResend` | floating point, timing |

All of it runs on the network thread of its peer.  Concurrency is that of two
peers and the network between them: either peer may take any step while any set
of datagrams, ACKs and NAKs is under way.

### Around the core

| part | state | operations | what makes it hard |
|---|---|---|---|
| Connections (`RP`) | `requestedConnectionQueue`, `remoteSystemList`, `bufferedCommands`, `banList` | connect, cancel, close; eight handshake messages; expiry, dead connections, bans | both sides connect at once; unconnected datagrams lost, repeated and late; a slot is reused for a new connection; restarts |
| Ready event (`ReadyEvent.cpp`) | status, what each remote system was told and has told | set, unset, force, delete, edit the wait list; update, query and force messages; a lost connection | knowledge about knowledge of others, while everything changes |

Sockets and the other plugins are listed in `PROJECT.json`, with the reason
where one is left out.

### Correctness properties by part

- Duplicate filter: no reliable message is handed over twice; none that was not
  received is refused; the queue is bounded; base and queue mean what the header
  comment says.
- Sender: a message that was not handed over is still in its slot and in the
  list; array and list agree; the history describes the datagrams sent.
- Range lists: the list stands for exactly the numbers to be told to the peer;
  ascending; never larger than its room.
- Ordering: delivery in the order sent; ordered messages without gap or repeat;
  nothing stranded in the heap; only older sequenced messages are dropped; no
  duplicates.
- Splitting and receipts: a message is rebuilt complete and from its own parts;
  no part is stranded; at most one receipt, and a true one; the send queue is a
  heap.
- Connections: the end of a connection is always reported; and in a *calm* run, one
  in which nobody gives up, restarts or loses a live connection to a timer and no
  message of a session that is over is taken: at most one answer to each attempt,
  both ends agree when a handshake is over, no conforming peer is banned.  The code
  does not promise the last three beyond calm runs (section 3).
- Ready event: what systems know of each other settles to the truth; completion
  means that everybody is ready, is final, and is reached.
- Liveness: every reliable message arrives unless the connection is closed;
  every ordered message is handed over.

The list of hazards, each at its line, is in `PROJECT.json`.

## 2. Modules

```
SequenceNumbers            uint24_t, any even range
  |-- PacketWindow         the duplicate filter, as operators
  |     |-- ReceiveWindow  ... against the most general sender and network
  |     |     '-- ReceiveWindowProofs      (TLAPS)
  |     '-- ReliableDelivery   both peers and the network (also extends Ranges)
  |           '-- ReliableDeliveryProofs   (TLAPS, extends RangesProofs too)
  |-- Ranges               RangeList, as operators
  |     |-- RangesProofs                   (TLAPS)
  |     '-- RangeList      the list as a state machine
  |           '-- RangeListProofs          (TLAPS)
  '-- OrderingChannel      ordered and sequenced messages on a channel
        '-- OrderingChannelProofs          (TLAPS)
ReliableChannel            abstract: what RELIABLE promises
SendQueue                  the weighted heap, as operators
  '-- SplitPackets         from Send to the other user, and the receipt back
        '-- SplitPacketsProofs             (TLAPS)
PeerConnection             RakPeers that connect and disconnect
  '-- PeerConnectionProofs                 (TLAPS)
ReadyEvent                 the plugin, over ordered channels
  '-- ReadyEventProofs                     (TLAPS)
```

`ReliableDelivery` implements `ReceiveWindow` (`ImplementsReceiveWindow`), and
`ReceiveWindow` implements `ReliableChannel`; both are checked by TLC and proved.
`OrderingChannel` starts where they end: it takes
from them that a reliable message gets past the filter exactly once.
`SplitPackets` takes the same from them, and that whatever arrived may be
acknowledged at any later time; `ReadyEvent` takes from `OrderingChannel` that
messages between two systems stay in order.

**SequenceNumbers** keeps the code's arithmetic and its asymmetries: `LessThan`
and `GreaterThan` are not complements, and `IsOlderOrderedPacket` treats the two
halves of the range differently (RL 3002-3023).

**PacketWindow / ReceiveWindow** (RL 1025-1124).  `IsAccepted` are the branches
of the filter, `MarkReceived` what they do to the queue, `LeadingReceived` the
closing `while`.  For the expected message the code pops the first entry and
increments the base; the model marks the entry received and lets the closing
loop pop it, which is the same.  In the queue `TRUE` is a hole, as in the code.
`NumberMessages` is the numbering of a sender update (RL 2144-2176) with the
guard of `ResendBufferOverflow`.  The variables `wire`, `base` and
`outputQueue` are history: which message has which number, which message the
base stands for, what was handed over.

**Ranges / RangeList** (`DS_RangeList.h`).  `InsertionIndex` is the position the
binary search of `DS_OrderedList.h` ends at.  Sizes are counted twice on
purpose: `BitsCounted` is what `Serialize` adds up (32 bits a number, because of
`sizeof`), `BitsInStream` what `BitStream` writes (24).  `pending` is history:
the numbers the peer has yet to be told.

**OrderingChannel** (`Send` RL 1696-1728, receiving half RL 1319-1550).
`DeliverSequenced`, `Discard`, `DeliverOrdered`, `BufferAhead` are the branches
of the code.  The heap is the sequence of its entries in the order `Pop` returns
them.  Each of the 32 channels has its own state; one is modelled.  Three
assumptions on the traffic are guards of the sender, because nothing in the code
sees to them: no copy of a message arrives more than `MaxSpan` ordering indices
late, fewer than 2^20 sequenced messages follow each other, and the heap runs empty
before 2^24 ordered messages have passed (`HeapIsYoung`).

**ReliableDelivery** (`UpdateInternal`, `HandleSocketReceiveFromConnectedPlayer`
and what they call).  `SenderUpdate(k, n, ends)` is one update: it resends the
`k` messages at the head of the list whose timer is over, numbers `n` new ones
while their slots are free, cuts both into datagrams that end at the positions
`ends`, numbers these and adds them to the history.  `ReceiveAck`, `ReceiveNak`, `ReceiveDatagram` and
`ParseMessage` are the three branches of the receiving function, `ReceiverUpdate`
sends the answers, `AckTimeout` closes the connection.  `Arrives` and `Lose` are
the network: any packet at any time, again or never.  Left to choice are the
times and the sizes: which timers are over, how much bandwidth the congestion
control grants, where a datagram is full.  A NAK sets the timer of the message
in the slot (`due`), and, as in the code, that message is resent only once it is
at the head of the list.  `NumberOf` and `BaseMessage` tell the number of a message and the message the base stands
for from where the sender is, and are the refinement mapping to `ReceiveWindow`.

**SendQueue** (`DS_Heap.h`, `GetNextWeight` RL 4078-4101).  The heap is the array
of the code, indexed from 1.  The loops of `Push` and `Pop` swap one node along a
path of positions (`RisingPath`, `SinkingPath`); the model takes the path as the
least set that is closed under the loop's step, and moves every node on it by one
place, which is what the swaps come to.  `SinksTo` is the choice of a child in
`Heap::Pop`, `SeriesStep` is `PushSeries`: once the first node of a series is heavier than everything from
its parent on (`MayAppendSeries`), the others are appended without a look.

**SplitPackets** (RL 1608-1754, 3029-3134, 3139-3405, 807-822, 1833-1878,
1945-1966, 2083-2222, 2528-2614).  `SendWhole`, `SendSplit` are the two ends of
`Send`, with the upgrade of unreliable split messages; `CullUnreliable`,
`DropCulled` and `SendNextPart` what an update does with the queue;
`ReceiveWhole`, `ReceivePart` the reassembly; `ReceiptLoss`, `AckUnreliable`,
`AckReliable` the receipts.  A part is the pair of its message and its index, so
that a message made of another's parts would show.  `IdIsFree` is an assumption
the code does not enforce: 65536 split messages later, no part of the message
that had the same `splitPacketId` is under way ("It's ok if this wraps to 0",
RL 3102).

**PeerConnection** (RP).  Every handler is an action: `Connect`,
`CancelConnectionAttempt`, `CloseConnection` of the user's thread; `RunCommand`,
`NextRequest`, `LastRequest` and `DropConnection` of `RunUpdateCycle`;
`ReceiveRequest1/2`, `ReceiveReply1/2`, `ReceiveRefusal`, `ReceiveWhileBanned` of
`ProcessOfflineNetworkPacket`; `Receive` the messages that come out of a
reliability layer.  An unconnected datagram that was sent stays in `offline` for
ever and may arrive at any time, any number of times, or never.  `online[p][q]`
is what p's reliability layer has for q: ordered messages come in order, the two
unordered ones when they like.  A slot that is assigned again gets a reset
reliability layer, and a datagram does not say to which connection it belongs;
the model numbers the assignments (`session`) and remembers which one a slot has
heard first.  `upsets` counts what disturbs a conforming run: a user who gives
up, a timeout of something that is alive, a restart.  A timeout of what the other
side no longer has costs nothing.  `stale` is history too: whether a slot ever
took a message that the other side sent in a session that is over.

**ReadyEvent** (`ReadyEvent.cpp`).  One action per call of the user and per
message.  `Update` is `UpdateReadyStatus` followed by `BroadcastReadyUpdate`.
The loss of a connection keeps a prefix of what was on its way, then each end is
told.  `undone` and `forgot` are history: whether a user took something back, and
which system dropped another one it is still connected with.

## 3. What is checked

Every property has a mutant: the model with one plausible fault, named and
commented beside the definition it replaces, on which TLC finds the property
violated.

| run | bounds | shows |
|---|---|---|
| `receive_window` | 10 numbers, 3 slots, 12 messages, start 0 and 8 | `WindowInv`, `AtMostOnce`, `FreshIsAccepted`, `QueueBounded`, `ImplementsReliableChannel` |
| `range_list` | all lists over 10 numbers, six room sizes | `RepresentsPending`, `AscendingRanges`, `FitsDatagram` |
| `ordering_channel` | 5 messages of any mix of kinds, up to 2 copies, indices wrapping at 10 | `ArriveInOrderSent`, `OrderedWithoutGap`, `NothingStranded`, `OrderedEventuallyDelivered` |
| `reliable_delivery` | 3 messages, 2 slots, 2 history entries, 2 packets in flight, 8 numbers | `NoLostMessage`, `ListMatchesBuffer`, `HistoryDescribesDatagrams`, `ImplementsReceiveWindow` |
| `reliable_liveness` | 2 messages, 1 history entry | `EventuallyDelivered` |
| `split_packets` | 3 messages of up to 3 parts, 6 in all; 2 split ids; 2 priorities; both kinds with receipts (the two without differ only in making none) | `QueueIsHeap`, `RebuiltIntact`, `NoPartStranded`, `AtMostOneReceipt`, `ReceiptIsTrue`, `SettledAtRest` |
| `peer_connection` | 3 peers, 1 slot each, 2 calls of Connect, 1 upset, 2 sessions, one wrong password | `EndIsReported` in every run; `AtMostOneAnswer`, `HandshakeConverges`, `NoConformingPeerBanned` in the calm ones |
| `ready_event` | 3 systems, 1 undo, users act while at most one message is under way | `KnowledgeSettles`, `CompletedMeansAllReady`, `CompletionIsFinal`, `CompleteAtRest` |
| `ordering_drop` | as `ordering_channel` | violated: finding 1 |
| `ordering_duplicate` | as `ordering_channel` | violated: finding 2 |
| `reliable_flagged` | as `reliable_delivery` | violated: finding 3 |
| `split_receipt` | as `split_packets` | violated: finding 4 |

**Why the bounds suffice.**  What the code distinguishes are distances: half of
the range, the size of the buffer, the hole limit, the history.  Each instance
keeps their order (buffer < half range, history < half range, hole limit at
least the buffer) and starts close enough to the end of the range for every
counter to wrap.  Three messages over two slots reuse a slot; two history
entries overflow with the third datagram; two packets in flight are reordered,
duplicated, or an answer races a resend.  `MaxMessages`, `MaxInFlight`,
`MaxCopies` and the start sets are bounds of the search.  Three messages with two
split ids use an id again; six nodes make a heap three levels deep, with a series
appended to a heap that was pushed and popped.  Two calls of `Connect` are a cross
connection, a second attempt after a refusal, or two clients of one server, and
one slot makes the third peer wait for it; the upset brings every way a connection
can break in the middle, for `EndIsReported` (the three properties of calm runs say
nothing after it).  Three systems are the least for which "ready to everyone
they know about" differs from "ready".  `MaxInFlight` of `ReadyEvent` bounds the
messages only at the moment a user acts: handlers may send any number.  `MaxAge`, `MaxSpan`
and `NoneTooOld` are assumptions: a copy older than half the range (8 million
messages or datagrams) cannot be told from a new one by any code that sees 24
bits.  The runs switch off TLC's deadlock check where the system may stop: all
messages are sent and answered, or the connection is closed.

**Starting states.**  A connection starts with all numbers 0; the instances
start from a number close to the wrap, the state of a connection whose earlier
traffic has been answered: its history holds the last datagrams, with no
messages left in them.  For the proofs
`StartNumbers` is any set of numbers.

**Fairness.**  `OrderingChannel`: every reliable message arrives eventually
(weak fairness of its reception), which is what `ReliableDelivery` provides.
`ReliableDelivery!FairSpec`: both network threads keep calling `Update`, a
datagram that has been read is parsed to its end, no packet stays in the network
for ever, and a message that is offered to the network again and again is not
lost every time.  Strong fairness is needed where the bound on the packets in
flight disables an action again and again.  In the liveness instance a timer
expires only when nothing that concerns its message is under way
(`EarlyTimeouts = FALSE`), and no gap is large enough to be disbelieved
(`SkipReject`).  In the safety run timers expire at any time; but `NoneTooOld`
keeps gaps among 8 numbers at `SkipReject = 2` or below, so that TLC does not reach
the disbelief branch of `ReceiveDatagram` (CC 154) there either.  The theorems of
`ReliableDeliveryProofs` hold for every `SkipReject` and cover it, for safety; that
a connection makes no more progress after it (only its timeout ends it) is stated by
no property.

The passing runs of `SplitPackets`, `ReadyEvent` and `PeerConnection` check
safety at rest (`SettledAtRest`, `CompleteAtRest`, `HandshakeConverges`) in place
of liveness: when nothing is on its way, what was to happen has happened.  They
need no fairness.

### Findings

1. `RL:1488` - an ordered message popped off the heap starts a new sequencing
   epoch but does not reset `highestSequencedReadIndex`, so the newest sequenced
   message may be discarded (`OnlyOlderDropped`).
2. `RL:1492` - a sequenced message popped off the heap sets the index without
   the `+1` that the comment of 6/26/2012 explains for the direct path, so its
   duplicate is returned to the user (`NoDuplicateDelivered`).
3. `RL:834` and `909` - the "reserved" 0xFFFFFFFF is truncated to 0xFFFFFF, a
   datagram number in use: an ACK or NAK that ends there makes a conforming peer
   malicious, and `RakPeer` bans it (`ConformingPeerNotFlagged`).
4. `RL:2577` - the receipt of a split message is given for the acknowledgement
   of its last part, when the others may still be missing
   (`ReceiptAfterDelivery`).

### What the models showed besides

These are not runs of their own; each was met while a property was being found,
and explains a condition in one.

- `SendQueue`: `InitHeapWeights` runs after the weight of a message that finds
  the queue empty was taken, so that the first two messages of a priority have
  equal weights and the heap may return them in either order.
- `OrderingChannel`: `heapIndexOffsets` is set only when a message finds the heap
  empty (RL 1506-1510), and weights count from there modulo the range.  If the heap
  never runs empty while as many ordered messages pass as there are indices (2^24),
  a later message gets a smaller weight than an earlier one, the earlier one is
  never at the top when its turn comes, and the channel stalls: without the guard
  `HeapIsYoung` TLC finds `NothingStranded` violated with ten indices and 18 ordered
  messages.  The proof needs the guard; in the run, with five messages, it is never
  false.
- `SplitPackets`: a culled UNRELIABLE_WITH_ACK_RECEIPT message gets no receipt at
  all, although `PacketPriority.h:66` promises one of the two
  (`SettledAtRest` excepts it).
- `ReadyEvent`: a system that drops another one, becomes UNSET and adds it again
  does not say so (`forgot`); one that was forced by a message does not pass it
  on to its own list; `IsEventCompletionProcessing` is not "always true if
  IsEventCompleted() is true".
- `PeerConnection`: `AllowIncomingConnections` counts connected systems only, so
  that two handshakes at once exceed `maximumIncomingConnections`.  A late
  `ID_OPEN_CONNECTION_REPLY_2` sets a CONNECTED slot back to
  REQUESTED_CONNECTION, which the comment at RP 6029 warns of; if the slot then
  expires, the user gets `ID_CONNECTION_ATTEMPT_FAILED` for a connection it had
  (`EndIsReported` takes that for a report).  An attempt whose slot a crossing
  request has moved to HANDLING_CONNECTION_REQUEST, and which expires there, is
  never answered (`AtMostOneAnswer` says at most one).
- `PeerConnection`, beyond calm runs (`Calm == upsets = 0 /\ ~stale`).  Three
  properties are guarded by `Calm`, and each fails without it.
  *Agreement*: after a restart, a silent close or a timeout one side is CONNECTED
  and the other is not, until its own timeout.
  *Bans*: if the user of the initiator calls `CloseConnection` with a notification
  right after `ID_OPEN_CONNECTION_REPLY_2`, the ordered
  `ID_DISCONNECTION_NOTIFICATION` may overtake the unordered
  `ID_CONNECTION_REQUEST`; the acceptor's slot, still UNVERIFIED_SENDER, hears it
  first and bans the peer (RP 6000).  No message is stale in that run: one
  ordinary close is enough.
  *Answers*: after a restart an attempt may be answered twice.
  And once a slot was given up, a late message of the old connection may be taken
  for one of the new: an attempt can then be answered twice, or a conforming peer
  banned.  Nobody has to give up for that: with three calls of `Connect`, refusals
  and late datagrams alone let a slot take a message of a session that is over.
  This came up in the proof (two calls are too few for TLC to meet it), and is why
  `Calm` asks for `~stale` besides `upsets = 0`.

## 4. What is proved

Each proof module `M` + `Proofs` extends the module it is about.  The invariants
named below were checked with TLC on small instances before they were proved.

**ReceiveWindowProofs**, for every even range of at least 8 numbers, every resend
buffer of at most half of it and at most the hole limit plus one, every `MaxAge`
of at most half the range, and any number of messages.  The build's values
(2^24, 512, 1000000) satisfy the assumptions.

- `WindowInvariant`: `Spec => []WindowInv`
- `DeliveredAtMostOnce`: `Spec => []AtMostOnce`
- `MissingIsAccepted`: `Spec => []FreshIsAccepted`
- `QueueStaysBounded`: `Spec => []QueueBounded`
- `WindowImplementsChannel`: `Spec => ImplementsReliableChannel`

None of the properties is inductive by itself: whether a number is accepted
depends on what the queue says of a *number*, the property is about *messages*.
`WindowInv` connects the two.  `QueueMeansHoles` says what base and queue mean in
terms of messages; `NumbersTrackMessages` says that for every message that may
still arrive the distance of its number from the base number is its distance from
the base message (ahead of it, or the complement of the range behind it); and the
window of outstanding messages is never wider than the buffer, because the lowest
missing message still fills its slot.  From these `AcceptedIffMissing` follows,
the lemma every theorem rests on: a copy is accepted if and only if its message
has not been delivered.

**ReliableDeliveryProofs**, for every even range, resend buffer, history, cap on
NAKs, number of messages and size of the network that satisfy
`DeliveryAssumption`.  Of its conjuncts the code fixes `ResendLen` (512, which
divides 2^24 and is at most half of it), `HistoryLen` (512), and with them
`(HistoryLen + 1) * ResendLen <= NumRange`: 513 * 512 messages at most were sent
since the oldest datagram of the history, so that a number in it names one
message.  `MaxAge` is an assumption on the network, at least `ResendLen` because
a message may be resent as long as its slot is taken.

- `DeliveryInvariant`: `Spec => []DeliveryInv`
- `DeliveryTypeCorrect`: `Spec => []TypeOK`
- `NoMessageIsLost`: `Spec => []NoLostMessage`
- `ListAndBufferAgree`: `Spec => []ListMatchesBuffer`
- `HistoryIsTrue`: `Spec => []HistoryDescribesDatagrams`
- `WindowIsImplemented`: `Spec => ImplementsReceiveWindow`
- `HandedOverOnce`: `Spec => []Window!AtMostOnce`
- `DeliveryImplementsChannel`: the two refinements together, down to
  `ReliableChannel`

The question behind `NoLostMessage` is why an acknowledgement removes nothing the
receiver lacks.  It names a datagram number, the history turns that into message
numbers and these into messages, and every number is reused.  `DeliveryInv`
follows this chain.  `AcksAreRecent` and `NetworkCarries`: a number under way is
at most half the range old, so that it is in the history only if the entry is the
one of its datagram (`HistoryFits`).  `HistoryMeans`: every number in an entry is
that of one message among those the entry can reach, and if its datagram was
acknowledged the receiver has this message (`Have`), handed over or still in the
datagram at hand.  `BufferHolds`: a slot holds a message of the last `ResendLen`,
so its number is not the number of another one an entry can reach.  The step of
the receiver that acknowledges a datagram before it parses it is where `Have`
needs `EntriesDescribe`.  For the refinement, a free slot means that the message
`ResendLen` before was acknowledged, hence delivered: the guard that
`ReceiveWindow` states as its own.  `W!WindowInv` in the invariant lets the
lemmas of `ReceiveWindowProofs` be used for the receiver as they are.

**RangesProofs and RangeListProofs**, for every even range of at least 8 numbers
and any amounts of room (`BitLimits \subseteq Nat`).

- `InsertedIsInsertion` (in `RangesProofs`): `Insert` adds its number and no other
  to what the list stands for, and keeps the ranges ascending and apart, for a
  list of any length
- `RangeInvariant`: `Spec => []RangeInv`, where
  `RangeInv == TypeOK /\ AscendingRanges /\ RepresentsPending`
- `RangesTypeCorrect`, `RangesRepresentPending`, `RangesStayAscending`: its parts
- `SerializedFitsDatagram`: `Spec => FitsDatagram`

The work is in the operators.  The binary search ends at the only position the
ranges left and right of the number allow; then each of the branches of `Insert`
(before, inside, at either edge, joining two ranges, behind the last) is one
lemma about the sequence it returns.  That `Serialize` counts at least as many
bits as it writes needs an induction over the list.

**ReadyEventProofs**, for any set of systems and any bounds.

- `ReadyInvariant`: `Spec => []ReadyInv`
- `ReadyTypeCorrect`: `Spec => []TypeOK`
- `KnowledgeSettlesAlways`: `Spec => []KnowledgeSettles`
- `CompletedOnlyWhenAllReady`: `Spec => []CompletedMeansAllReady`
- `CompletedAtRest`: `Spec => []CompleteAtRest`
- `CompletionStaysFinal`: `Spec => CompletionIsFinal`

The properties speak of moments at which nothing is on its way; the invariant has
to say what holds meanwhile.  `StatusFollowsList` is what `UpdateReadyStatus`
leaves behind on each system; `ListWasTold` that a system has told its own status
to everyone it is connected with; `Settling` that the newest thing told about a
status is the last one in the queue, or already known, or about to be asked for;
`NothingTakenBack`, that everything known or under way is still true as long as
no user undid a call.

**PeerConnectionProofs**, for any set of peers, any number of slots, and any
bounds on attempts and upsets (`PeerAssumption`).

- `ConnectionInvariant`: `Spec => []ConnectionInv`
- `ConnectionTypeCorrect`: `Spec => []TypeOK`
- `EndAlwaysReported`: `Spec => []EndIsReported`
- `OneAnswerAtMost`: `Spec => []AtMostOneAnswer`
- `ConformingPeersStay`: `Spec => []NoConformingPeerBanned`
- `HandshakesConverge`: `Spec => []HandshakeConverges`

The first three hold for every run; the last three are about calm runs, which their
properties say themselves (`Calm => ...`).

`ConnectionInv` has two halves.  `EndInv` holds whatever happens: an attempt is in
the list of requests once, each mode of a slot comes with what it has heard, the
user is told in time, a refused password was wrong.  `CalmInv` holds in calm runs
(`upsets = 0 /\ ~stale`) and relates the slots of both ends with the messages on
their way: nobody who is connected leaves, a reply that may arrive is awaited or
was answered, a peer says nothing else after its reply, and, for matching
passwords, what a slot has heard is of the other's present session
(`HeardIsCurrent`), a request or an acceptance under way finds the slot that waits
for it (`RequestAwaited`, `AcceptanceAwaited`), and an attempt is pending as long
as it is not answered (`StillPending`).

**SplitPacketsProofs**, for any priorities and reliabilities in use, any number
and size of messages, any range of split ids and any progress interval
(`SplitAssumption`).  A receiver refuses a message of more than
`MAX_SPLIT_PACKET_COUNT` (100000) parts (RL 2860), which the model does not: for the
code the theorems speak of messages up to that size.

- `SplitInvariant`: `Spec => []SplitInv`
- `SplitTypeCorrect`: `Spec => []TypeOK`
- `QueueStaysHeap`: `Spec => []QueueIsHeap`
- `MessagesRebuiltIntact`: `Spec => []RebuiltIntact`
- `NoPartIsStranded`: `Spec => []NoPartStranded`
- `OneReceiptAtMost`: `Spec => []AtMostOneReceipt`
- `ReceiptsAreTrue`: `Spec => []ReceiptIsTrue`
- `EverythingSettles`: `Spec => []SettledAtRest`

The first half is about the heap.  A path (`IsPath`) is the least set of positions
closed under a step that only goes one way; `PathHasShape` shows that it is one
chain, each position reached from exactly one other, and so that moving the nodes
along it loses and doubles none (`MovedIsRearranged`).  Rising and sinking are both
such paths; what is left is that the order of the heap holds where the path meets
the rest.  For `PushSeries` the invariant has to say why the nodes behind the first
need no comparison: the weights of a series do not fall (`SeriesWeightsRise`), and
once the first is not below anything from its parent to the end, nothing that
follows is below its own parent.  That needs every weight to be at least
`Offset(priority)` (`HeapNode`), which also shows that the unsigned difference in
`GetNextWeight` does not go below zero.

The second half is the protocol.  `PartsInv`: a part is queued, or was sent, and a
reliable one that left the queue is under way or received.  `ReceiptsInv`: a
message has its receipt exactly when it has stopped waiting for one (`Waiting`: its
last part is queued or in the resend buffer, or it is in the receipt history; a
culled message waits for ever), which is why the timer and the acknowledgement
cannot both make one.  `ChannelsInv`: no two open messages share an id, and the
channel of an id holds exactly the parts received of the open message that has it
(`Collected`), so that the last part completes it and leaves nothing behind.
`IdIsFree`, the assumption on the wrap of `splitPacketId`, is used here and only
here.

**OrderingChannelProofs**, for any even range of indices of at least 8, any weight
`SeqWeight` and span `MaxSpan` below half of it (`SeqWeight` at most half, as 2^20
is), any number of messages and copies, and any first index
(`OrderingAssumption`).

- `ChannelInvariant`: `Spec => []ChannelInv`
- `ChannelTypeCorrect`: `Spec => []TypeOK`
- `MessagesArriveInOrder`: `Spec => []ArriveInOrderSent`
- `NoOrderedGap`: `Spec => []OrderedWithoutGap`
- `NoneStranded`: `Spec => []NothingStranded`

None of the three is inductive, because the code decides by indices that wrap.  The
proof counts instead of indexing: the level of a message is the number of ordered
messages sent before it, `Done` how many of them the channel is past, and the
invariant says what the indices have to do with levels.  The channel waits for an
ordered message that is still on its way, and a copy on its way is at most
`MaxSpan` indices old, so that `Done` is less than half the range behind the sender
(`SpanBound`).  Hence for whatever arrives the two comparisons of the code decide
whether its level is `Done`, below or above (`LiveFacts`).  `LogInOrder`: messages
sent later have a higher level, or the same and a higher rank, so that heap weights
order messages as they were sent (`WeightsInOrder`; here the offset must be less
than a round behind, which is `HeapIsYoung`).  `OrderedInv`: an ordered message is on
its way, in the heap, or below `Done`.  `PopsTheNext`: the loop over the heap pops
exactly the entries that follow without a gap, and leaves only entries above the new
`Done`.  `OutputInv`: what was handed over is below `Done`, or sequenced, of that
level and not above `highestSequencedReadIndex`; it is "not above" and not "below"
because of finding 2, and the index may be too high because of finding 1, neither of
which breaks the order.

Induction over naturals and finite sets is done by least elements: of the numbers
for which a claim fails there would be a least one (`WFMin` of
`WellFoundedInduction` with `NatLessThanWellFounded`).

Only model-checked: liveness (`EventuallyDelivered`, `OrderedEventuallyDelivered`),
which is outside the prover's reach.

## 5. What is not modelled, and the plan

Next, in this order:

1. UNRELIABLE_WITH_ACK_RECEIPT messages in the datagrams of `ReliableDelivery`:
   they are entered in the history with the number 0xFFFFFF (RL 2259, 3830).
2. `CongestionWindow`: `cwnd` and `ssThresh` in integer steps, and that sending
   never stops for good.
3. Host election of `FullyConnectedMesh2`.

Left out of the modules that exist: more than 2^20 sequenced messages in a row
(`SendSequenced` stops before); byte sizes and offsets of parts, and with them the
refusal of a message of more than `MAX_SPLIT_PACKET_COUNT` parts (RL 2860) or more
bytes than so many datagrams hold (RL 3333); in `PeerConnection` the security handshake, protocol versions,
`limitConnectionFrequencyFromTheSameIP`, user messages and pings, `Shutdown` and
change of address, and the window in which `requestedConnectionQueueMutex` is
released while a handler still uses the request it found (RP 4956, 5743): a
handler is one step here, and so is `CloseConnection`, although the command is
pushed (RP 1670) before the state is looked at that decides on the report
(RP 1673).  A slot that has heard one session takes every message of another for
a duplicate; the code compares numbers (RL 1031-1124) and would take one whose
number is at or above its base.  `requestsMade` and the MTU of a request are abstracted
away.  In `ReadyEvent`, `AddToWaitList` names connected systems only.

Not modelled by design: sockets and operating system I/O (their faults are the
network's), cryptography, the bit-level formats except for the sizes the range
list depends on, statistics and logging, and the other plugins, which use the
core through `Send` and `Receive`.  `CCRakNetUDT` is not compiled
(`USE_SLIDING_WINDOW_CONGESTION_CONTROL` is 1).
