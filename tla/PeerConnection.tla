--------------------------- MODULE PeerConnection ---------------------------
(***************************************************************************)
(* How two RakPeers become connected and stop being so (RakPeer.cpp):      *)
(*                                                                         *)
(*   initiator                              acceptor                       *)
(*   ID_OPEN_CONNECTION_REQUEST_1  ------>                                 *)
(*                                 <------  ID_OPEN_CONNECTION_REPLY_1     *)
(*   ID_OPEN_CONNECTION_REQUEST_2  ------>  slot: UNVERIFIED_SENDER        *)
(*   slot: REQUESTED_CONNECTION    <------  ID_OPEN_CONNECTION_REPLY_2     *)
(*   ID_CONNECTION_REQUEST         - - - >  HANDLING_CONNECTION_REQUEST    *)
(*   CONNECTED                     < - - -  ID_CONNECTION_REQUEST_ACCEPTED *)
(*   ID_NEW_INCOMING_CONNECTION    - - - >  CONNECTED                      *)
(*                                                                         *)
(* The first four are plain datagrams: lost, repeated and late at will, so *)
(* one that was sent stays in offline and may arrive at any later time.    *)
(* The others (- -) go through the reliability layers of the two slots.    *)
(*                                                                         *)
(* A reliability layer is reset when its slot is assigned, and a datagram  *)
(* does not say to which connection it belongs.  Each assignment of a slot *)
(* is a session; a slot that has heard one session of the other side takes *)
(* the messages of another, which are numbered from 0 again, for           *)
(* duplicates.  Every handler runs on the network thread and is one        *)
(* action; the user's threads add requests and commands to its queues.     *)
(***************************************************************************)
EXTENDS Integers, Sequences, FiniteSets, SequencesExt

CONSTANTS
    Peer,                        \* the RakPeers; also their SystemAddresses
    maximumNumberOfPeers,        \* slots of a remoteSystemList
    maximumIncomingConnections,  \* of each peer
    WrongPassword,               \* <<p, q>>: p gives a password q does not accept
    MaxConnects,                 \* bound: calls of Connect
    MaxUpsets,                   \* bound: users that give up, timeouts of what is
                                 \* still alive, and restarts
    MaxSessions                  \* bound: assignments of a slot

ASSUME PeerAssumption ==
    /\ maximumNumberOfPeers \in Nat \ {0}
    /\ maximumIncomingConnections \in [Peer -> Nat]
    /\ {MaxConnects, MaxUpsets, MaxSessions} \subseteq Nat
    /\ WrongPassword \subseteq Peer \X Peer

VARIABLES
    requestedConnectionQueue,    \* of each peer: the systems it asks for a connection
    remoteSystemList,            \* [p][q]: p's slot for q
    bufferedCommands,            \* of each peer, from its user's threads
    banList,                     \* of each peer
    offline,                     \* unconnected datagrams ever sent
    online,                      \* [p][q]: messages in p's reliability layer for q, or on their way
    myGuid,                      \* of each peer: a new one when it is started again
    connected,                   \* history: [p][q]: p's user was told q is connected
    asked,                       \* history: [p][q]: Connect was not answered yet
    unasked,                     \* history: was an attempt answered twice?
    stale,                       \* history: was a message of a session that is over taken?
    connects, upsets

queues == <<requestedConnectionQueue, remoteSystemList, bufferedCommands, banList>>
network == <<offline, online, myGuid>>
history == <<connected, asked, unasked>>
bounds == <<connects, upsets>>
vars == <<queues, network, history, stale, bounds>>

HalfOpen == {"REQUESTED_CONNECTION", "HANDLING_CONNECTION_REQUEST", "UNVERIFIED_SENDER"}
Disconnecting == {"DISCONNECT_ASAP", "DISCONNECT_ASAP_SILENTLY", "DISCONNECT_ON_NO_ACK"}
ConnectMode == HalfOpen \cup Disconnecting \cup {"CONNECTED", "INACTIVE"}
Refusal == {"ID_NO_FREE_INCOMING_CONNECTIONS", "ID_CONNECTION_BANNED", "ID_ALREADY_CONNECTED"}
Unordered == {"ID_CONNECTION_REQUEST", "ID_INVALID_PASSWORD"}
Ordered == {"ID_CONNECTION_REQUEST_ACCEPTED", "ID_NEW_INCOMING_CONNECTION", "ID_DISCONNECTION_NOTIFICATION"}
OfflineId == Refusal \cup {"ID_OPEN_CONNECTION_REQUEST_1", "ID_OPEN_CONNECTION_REPLY_1",
                           "ID_OPEN_CONNECTION_REQUEST_2", "ID_OPEN_CONNECTION_REPLY_2"}

(* heard = 0 until a message of the other side was taken; session = 0 until  *)
(* the slot is first assigned.                                               *)
RemoteSystemStruct ==
    {slot \in [connectMode : ConnectMode, guid : Nat, weInitiatedTheConnection : BOOLEAN,
               session : 0 .. MaxSessions, heard : 0 .. MaxSessions] :
        slot.connectMode /= "INACTIVE" => slot.session > 0}

OnlineMessage == [id : Unordered \cup Ordered, session : 1 .. MaxSessions]

(* The type invariant: connect modes, the sessions of slots and messages, and *)
(* what the queues between user and network thread of a RakPeer hold.        *)
TypeOK ==
    /\ requestedConnectionQueue \in [Peer -> SUBSET Peer]
    /\ remoteSystemList \in [Peer -> [Peer -> RemoteSystemStruct]]
    /\ bufferedCommands \in [Peer -> Seq([notify : BOOLEAN, target : Peer])]
    /\ banList \in [Peer -> SUBSET Peer]
    /\ offline \subseteq [from : Peer, to : Peer, id : OfflineId, guid : Nat]
    /\ online \in [Peer -> [Peer -> Seq(OnlineMessage)]]
    /\ myGuid \in [Peer -> Nat]
    /\ connected \in [Peer -> [Peer -> BOOLEAN]]
    /\ asked \in [Peer -> [Peer -> BOOLEAN]]
    /\ unasked \in BOOLEAN
    /\ stale \in BOOLEAN
    /\ connects \in 0 .. MaxConnects
    /\ upsets \in 0 .. MaxUpsets

Inactive ==
    [connectMode |-> "INACTIVE", guid |-> 0, weInitiatedTheConnection |-> FALSE,
     session |-> 0, heard |-> 0]

Init ==
    /\ requestedConnectionQueue = [p \in Peer |-> {}]
    /\ remoteSystemList = [p \in Peer |-> [q \in Peer |-> Inactive]]
    /\ bufferedCommands = [p \in Peer |-> <<>>]
    /\ banList = [p \in Peer |-> {}]
    /\ offline = {}
    /\ online = [p \in Peer |-> [q \in Peer |-> <<>>]]
    /\ myGuid = [p \in Peer |-> 1]
    /\ connected = [p \in Peer |-> [q \in Peer |-> FALSE]]
    /\ asked = [p \in Peer |-> [q \in Peer |-> FALSE]]
    /\ unasked = FALSE
    /\ stale = FALSE
    /\ connects = 0
    /\ upsets = 0

-----------------------------------------------------------------------------
Requesting(p, q) == q \in requestedConnectionQueue[p]
Mode(p, q)       == remoteSystemList[p][q].connectMode
IsActive(p, q)   == Mode(p, q) /= "INACTIVE"
RemoveRequest(p, q) ==
    requestedConnectionQueue' = [requestedConnectionQueue EXCEPT ![p] = @ \ {q}]

SendTo(p, q, id) ==
    offline' = offline \cup {[from |-> p, to |-> q, id |-> id, guid |-> myGuid[p]]}

(* A datagram from q that p does not throw away because q is banned. *)
Arrives(p, q, id) ==
    /\ q \notin banList[p]
    /\ \E m \in offline : m.from = q /\ m.to = p /\ m.id = id

(* AddPacketToProducer gives the user of p message id about q, after which *)
(* it takes q to be connected or not.                                      *)
Told(p, q, id, isConnected) ==
    LET answers == id \notin {"ID_NEW_INCOMING_CONNECTION", "ID_CONNECTION_LOST",
                              "ID_DISCONNECTION_NOTIFICATION"}
    IN  /\ connected' = [connected EXCEPT ![p][q] = isConnected]
        /\ asked' = [asked EXCEPT ![p][q] = @ /\ ~answers]
        /\ unasked' = (unasked \/ (answers /\ ~asked[p][q]))

(* p's slot for q with SendImmediate(ids) to q: nothing leaves a slot that *)
(* is disconnecting.                                                        *)
Sent(p, q, ids) ==
    IF Mode(p, q) \in Disconnecting
      THEN <<>>
      ELSE [i \in 1 .. Len(ids) |-> [id |-> ids[i], session |-> remoteSystemList[p][q].session]]

(* A slot is freed.  What its reliability layer had not delivered is lost, *)
(* unless it is on its way already.                                        *)
FreeSlot(p, q) ==
    /\ remoteSystemList' = [remoteSystemList EXCEPT ![p][q] = [Inactive EXCEPT !.session = remoteSystemList[p][q].session]]
    /\ online' \in {online, [online EXCEPT ![p][q] = <<>>]}

-----------------------------------------------------------------------------
(* The user's threads. *)

(* Otherwise ALREADY_CONNECTED_TO_ENDPOINT or *)
(* CONNECTION_ATTEMPT_ALREADY_IN_PROGRESS.     *)
Connect(p, q) ==
    /\ connects < MaxConnects
    /\ ~IsActive(p, q)
    /\ ~Requesting(p, q)
    /\ requestedConnectionQueue' = [requestedConnectionQueue EXCEPT ![p] = @ \cup {q}]
    /\ asked' = [asked EXCEPT ![p][q] = TRUE]
    /\ connects' = connects + 1
    /\ UNCHANGED <<remoteSystemList, bufferedCommands, banList,
                   network, connected, unasked, stale, upsets>>

CancelConnectionAttempt(p, q) ==
    /\ upsets < MaxUpsets
    /\ Requesting(p, q)
    /\ RemoveRequest(p, q)
    /\ asked' = [asked EXCEPT ![p][q] = FALSE]
    /\ upsets' = upsets + 1
    /\ UNCHANGED <<remoteSystemList, bufferedCommands, banList,
                   network, connected, unasked, stale, connects>>

(* The user of p closes its connection to q; a silent close of an open one *)
(* is reported at once.                                                    *)
CloseConnection(p, q, notify) ==
    /\ upsets < MaxUpsets
    /\ IsActive(p, q)
    /\ bufferedCommands' = [bufferedCommands EXCEPT ![p] = Append(@, [notify |-> notify, target |-> q])]
    /\ IF ~notify /\ Mode(p, q) = "CONNECTED" /\ ~Requesting(p, q)
         THEN Told(p, q, "ID_CONNECTION_LOST", FALSE)
         ELSE UNCHANGED history
    /\ upsets' = upsets + 1
    /\ UNCHANGED <<requestedConnectionQueue, remoteSystemList, banList,
                   network, stale, connects>>

-----------------------------------------------------------------------------
(* The network thread: RunUpdateCycle. *)

(* One of p's buffered commands.  The mode is set after SendImmediate, *)
(* which it would forbid, and whatever it was.                          *)
RunCommand(p) ==
    /\ bufferedCommands[p] /= <<>>
    /\ LET c == Head(bufferedCommands[p])
           q == c.target
       IN  /\ \/ /\ ~IsActive(p, q)
                 /\ UNCHANGED <<remoteSystemList, online, connected, asked>>
              \/ /\ IsActive(p, q)
                 /\ c.notify
                 /\ online' = [online EXCEPT ![p][q] = @ \o Sent(p, q, <<"ID_DISCONNECTION_NOTIFICATION">>)]
                 /\ remoteSystemList' = [remoteSystemList EXCEPT ![p][q].connectMode = "DISCONNECT_ASAP"]
                 /\ asked' = [asked EXCEPT ![p][q] = @ /\ Requesting(p, q)]
                 /\ UNCHANGED connected
              \/ /\ IsActive(p, q)
                 /\ ~c.notify
                 /\ FreeSlot(p, q)
                 /\ connected' = [connected EXCEPT ![p][q] = FALSE]
                 /\ asked' = [asked EXCEPT ![p][q] = @ /\ Requesting(p, q)]
    /\ bufferedCommands' = [bufferedCommands EXCEPT ![p] = Tail(@)]
    /\ UNCHANGED <<requestedConnectionQueue, banList, offline, myGuid,
                   unasked, stale, bounds>>

(* The time for p's next request to q has come.  requestsMade is abstracted *)
(* to whether a request was made: the requests are alike but for the MTU    *)
(* they try.                                                                *)
NextRequest(p, q) ==
    /\ Requesting(p, q)
    /\ SendTo(p, q, "ID_OPEN_CONNECTION_REQUEST_1")
    /\ UNCHANGED <<queues, online, myGuid, history, stale, bounds>>

LastRequest(p, q) ==
    /\ Requesting(p, q)
    /\ \E m \in offline : m.from = p /\ m.to = q /\ m.id = "ID_OPEN_CONNECTION_REQUEST_1"
    /\ RemoveRequest(p, q)
    /\ Told(p, q, "ID_CONNECTION_ATTEMPT_FAILED", connected[p][q])
    /\ UNCHANGED <<remoteSystemList, bufferedCommands, banList, network, stale, bounds>>

(* ProcessOfflineNetworkPacket: datagrams from q. *)

ReceiveWhileBanned(p, q) ==
    /\ q \in banList[p]
    /\ \E m \in offline : m.from = q /\ m.to = p
    /\ SendTo(p, q, "ID_CONNECTION_BANNED")
    /\ UNCHANGED <<queues, online, myGuid, history, stale, bounds>>

ReceiveRequest1(p, q) ==
    /\ Arrives(p, q, "ID_OPEN_CONNECTION_REQUEST_1")
    /\ SendTo(p, q, "ID_OPEN_CONNECTION_REPLY_1")
    /\ UNCHANGED <<queues, online, myGuid, history, stale, bounds>>

ReceiveReply1(p, q) ==
    /\ Arrives(p, q, "ID_OPEN_CONNECTION_REPLY_1")
    /\ Requesting(p, q)
    /\ SendTo(p, q, "ID_OPEN_CONNECTION_REQUEST_2")
    /\ UNCHANGED <<queues, online, myGuid, history, stale, bounds>>

(* GetNumberOfRemoteInitiatedConnections counts the connected only. *)
AllowIncomingConnections(p) ==
    Cardinality({q \in Peer : Mode(p, q) = "CONNECTED" /\ ~remoteSystemList[p][q].weInitiatedTheConnection})
        < maximumIncomingConnections[p]

SlotIsFree(p) == Cardinality({q \in Peer : IsActive(p, q)}) < maximumNumberOfPeers

(* Mutant of Assigned: the reliability layer is not reset. *)
AssignedWithoutReset(p, q, guid) ==
    [remoteSystemList[p][q] EXCEPT !.connectMode = "UNVERIFIED_SENDER", !.guid = guid]

(* p's slot for q after AssignSystemAddressToRemoteSystemList. *)
Assigned(p, q, guid) ==
    [Inactive EXCEPT !.connectMode = "UNVERIFIED_SENDER", !.guid = guid,
                     !.session = remoteSystemList[p][q].session + 1]

(* Without a free slot the answer is sent all the same. *)
ReceiveRequest2(p, q) ==
    \E m \in offline :
      /\ m.from = q /\ m.to = p /\ m.id = "ID_OPEN_CONNECTION_REQUEST_2"
      /\ q \notin banList[p]
      /\ \/ /\ IsActive(p, q)
            /\ remoteSystemList[p][q].guid = m.guid
            /\ Mode(p, q) = "UNVERIFIED_SENDER"
            /\ SendTo(p, q, "ID_OPEN_CONNECTION_REPLY_2")
            /\ UNCHANGED remoteSystemList
         \/ /\ IsActive(p, q)
            /\ remoteSystemList[p][q].guid = m.guid => Mode(p, q) /= "UNVERIFIED_SENDER"
            /\ SendTo(p, q, "ID_ALREADY_CONNECTED")
            /\ UNCHANGED remoteSystemList
         \/ /\ ~IsActive(p, q)
            /\ ~AllowIncomingConnections(p)
            /\ SendTo(p, q, "ID_NO_FREE_INCOMING_CONNECTIONS")
            /\ UNCHANGED remoteSystemList
         \/ /\ ~IsActive(p, q)
            /\ AllowIncomingConnections(p)
            /\ SlotIsFree(p) => remoteSystemList[p][q].session < MaxSessions
            /\ remoteSystemList' = IF SlotIsFree(p)
                 THEN [remoteSystemList EXCEPT ![p][q] = Assigned(p, q, m.guid)]
                 ELSE remoteSystemList
            /\ SendTo(p, q, "ID_OPEN_CONNECTION_REPLY_2")
      /\ UNCHANGED <<requestedConnectionQueue, bufferedCommands, banList,
                     online, myGuid, history, stale, bounds>>

(* A slot q opened to p before is used as it is, whatever its mode: "You    *)
(* might get this when already connected because of cross-connections".     *)
ReceiveReply2(p, q) ==
    \E m \in offline :
      /\ m.from = q /\ m.to = p /\ m.id = "ID_OPEN_CONNECTION_REPLY_2"
      /\ q \notin banList[p]
      /\ Requesting(p, q)
      /\ \/ /\ ~IsActive(p, q)
            /\ ~SlotIsFree(p)
            /\ Told(p, q, "ID_CONNECTION_ATTEMPT_FAILED", connected[p][q])
            /\ UNCHANGED <<remoteSystemList, online>>
         \/ /\ IsActive(p, q) \/ (SlotIsFree(p) /\ remoteSystemList[p][q].session < MaxSessions)
            /\ LET slot == IF IsActive(p, q) THEN remoteSystemList[p][q] ELSE Assigned(p, q, m.guid)
               IN  /\ remoteSystemList' = [remoteSystemList EXCEPT ![p][q] =
                        [slot EXCEPT !.connectMode = "REQUESTED_CONNECTION",
                                     !.weInitiatedTheConnection = TRUE]]
                   /\ online' = [online EXCEPT ![p][q] =
                        Append(@, [id |-> "ID_CONNECTION_REQUEST", session |-> slot.session])]
            /\ UNCHANGED history
      /\ RemoveRequest(p, q)
      /\ UNCHANGED <<bufferedCommands, banList, offline, myGuid, stale, bounds>>

(* Mutant of ReceiveRefusal: the request stays in the queue. *)
ReceiveRefusalKeepingRequest(p, q) ==
    \E id \in Refusal :
      /\ Arrives(p, q, id)
      /\ Requesting(p, q)
      /\ Told(p, q, id, connected[p][q])
      /\ UNCHANGED <<queues, network, stale, bounds>>

ReceiveRefusal(p, q) ==
    \E id \in Refusal :
      /\ Arrives(p, q, id)
      /\ Requesting(p, q)
      /\ RemoveRequest(p, q)
      /\ Told(p, q, id, connected[p][q])
      /\ UNCHANGED <<remoteSystemList, bufferedCommands, banList,
                     network, stale, bounds>>

-----------------------------------------------------------------------------
(* The reliability layer of p's slot for q hands over a message.            *)

(* The i-th message is next: an ordered one waits for those before it.      *)
IsNext(queue, i) ==
    queue[i].id \in Ordered => \A j \in 1 .. i - 1 : queue[j].id \notin Ordered

(* Mutant of ParseConnectionRequest: HANDLING_CONNECTION_REQUEST is not set. *)
ParseConnectionRequestKeepingMode(p, q) ==
    [mode |-> Mode(p, q), answer |-> <<"ID_CONNECTION_REQUEST_ACCEPTED">>]

(* Mutant of ParseConnectionRequest: a crossing request is left to the other *)
(* side to accept.                                                           *)
ParseConnectionRequestCrossed(p, q) ==
    [mode |-> "HANDLING_CONNECTION_REQUEST",
     answer |-> IF Mode(p, q) = "REQUESTED_CONNECTION" THEN <<>> ELSE <<"ID_CONNECTION_REQUEST_ACCEPTED">>]

(* What p makes of message id from q: its new mode and its answers.         *)
ParseConnectionRequest(p, q) ==
    IF <<q, p>> \in WrongPassword
      THEN [mode |-> "DISCONNECT_ASAP_SILENTLY", answer |-> <<"ID_INVALID_PASSWORD">>]
      ELSE [mode |-> "HANDLING_CONNECTION_REQUEST", answer |-> <<"ID_CONNECTION_REQUEST_ACCEPTED">>]

Handled(p, q, id) ==
    LET mode == Mode(p, q)
    IN  CASE id = "ID_CONNECTION_REQUEST" /\ mode \in {"UNVERIFIED_SENDER", "REQUESTED_CONNECTION"} ->
                ParseConnectionRequest(p, q)
          [] id = "ID_CONNECTION_REQUEST" /\ mode \notin {"UNVERIFIED_SENDER", "REQUESTED_CONNECTION"} ->
                [mode |-> mode, answer |-> <<"ID_CONNECTION_REQUEST_ACCEPTED">>]
          [] id = "ID_CONNECTION_REQUEST_ACCEPTED" /\ mode \in {"HANDLING_CONNECTION_REQUEST", "REQUESTED_CONNECTION"} ->
                [mode |-> "CONNECTED", answer |-> <<"ID_NEW_INCOMING_CONNECTION">>]
          [] id = "ID_NEW_INCOMING_CONNECTION" /\ mode = "HANDLING_CONNECTION_REQUEST" ->
                [mode |-> "CONNECTED", answer |-> <<>>]
          [] id = "ID_INVALID_PASSWORD" /\ mode = "REQUESTED_CONNECTION" ->
                [mode |-> "DISCONNECT_ASAP_SILENTLY", answer |-> <<>>]
          [] id = "ID_DISCONNECTION_NOTIFICATION" ->
                [mode |-> "DISCONNECT_ON_NO_ACK", answer |-> <<>>]
          [] OTHER -> [mode |-> mode, answer |-> <<>>]

(* Which messages the user of p also sees. *)
IsShown(p, q, id) ==
    /\ id \in {"ID_CONNECTION_REQUEST_ACCEPTED", "ID_NEW_INCOMING_CONNECTION", "ID_INVALID_PASSWORD"}
    /\ Handled(p, q, id).mode /= Mode(p, q)

(* The session is the one q's slot for p is in. *)
IsOfSession(q, p, session) == IsActive(q, p) /\ remoteSystemList[q][p].session = session

Receive(p, q) ==
    \E i \in DOMAIN online[q][p] :
      LET m    == online[q][p][i]
          slot == remoteSystemList[p][q]
          rest == [online EXCEPT ![q][p] = RemoveAt(@, i)]
      IN  /\ IsNext(online[q][p], i)
          /\ IsActive(p, q)
          /\ q \notin banList[p]
          /\ \/ /\ slot.heard \notin {0, m.session}       \* taken for a duplicate
                /\ online' = rest
                /\ UNCHANGED <<remoteSystemList, banList, history, stale>>
             \/ /\ slot.heard \in {0, m.session}
                /\ Mode(p, q) = "UNVERIFIED_SENDER" /\ m.id /= "ID_CONNECTION_REQUEST"
                /\ remoteSystemList' = [remoteSystemList EXCEPT ![p][q] = [Inactive EXCEPT !.session = slot.session]]
                /\ online' = [rest EXCEPT ![p][q] = <<>>]
                /\ banList' = [banList EXCEPT ![p] = @ \cup {q}]
                /\ stale' = (stale \/ ~IsOfSession(q, p, m.session))
                /\ UNCHANGED history
             \/ /\ slot.heard \in {0, m.session}
                /\ Mode(p, q) = "UNVERIFIED_SENDER" => m.id = "ID_CONNECTION_REQUEST"
                /\ LET h == Handled(p, q, m.id)
                   IN  /\ remoteSystemList' = [remoteSystemList EXCEPT
                            ![p][q].connectMode = h.mode, ![p][q].heard = m.session]
                       /\ online' = [rest EXCEPT ![p][q] = @ \o Sent(p, q, h.answer)]
                /\ IF IsShown(p, q, m.id)
                     THEN Told(p, q, m.id, m.id /= "ID_INVALID_PASSWORD")
                     ELSE UNCHANGED history
                /\ stale' = (stale \/ ~IsOfSession(q, p, m.session))
                /\ UNCHANGED banList
          /\ UNCHANGED <<requestedConnectionQueue, bufferedCommands,
                         offline, myGuid, bounds>>

-----------------------------------------------------------------------------
(* The failure conditions of RunUpdateCycle.  What costs an upset is a       *)
(* timeout although the other side is still there to answer.                *)
IsDeadConnection(p, q, cost) ==
    /\ Mode(p, q) = "CONNECTED" \/ online[p][q] /= <<>>      \* something waits for its ACK
    /\ cost = IF IsActive(q, p) THEN 1 ELSE 0

HasExpired(p, q, cost) ==
    /\ Mode(p, q) \in HalfOpen
    /\ cost = IF IsActive(q, p) \/ Requesting(q, p) THEN 1 ELSE 0

HasDisconnected(p, q) ==
    \/ Mode(p, q) \in {"DISCONNECT_ASAP", "DISCONNECT_ASAP_SILENTLY"} /\ online[p][q] = <<>>
    \/ Mode(p, q) = "DISCONNECT_ON_NO_ACK"

(* Mutant of ReportEnd: an end the other side announced is not reported. *)
ReportEndUnlessAnnounced(p, q) ==
    CASE Mode(p, q) = "REQUESTED_CONNECTION" -> Told(p, q, "ID_CONNECTION_ATTEMPT_FAILED", FALSE)
      [] Mode(p, q) = "CONNECTED" -> Told(p, q, "ID_CONNECTION_LOST", FALSE)
      [] OTHER -> UNCHANGED history

ReportEnd(p, q) ==
    CASE Mode(p, q) = "REQUESTED_CONNECTION" -> Told(p, q, "ID_CONNECTION_ATTEMPT_FAILED", FALSE)
      [] Mode(p, q) = "CONNECTED" -> Told(p, q, "ID_CONNECTION_LOST", FALSE)
      [] Mode(p, q) \in {"DISCONNECT_ASAP", "DISCONNECT_ON_NO_ACK"} ->
           Told(p, q, "ID_DISCONNECTION_NOTIFICATION", FALSE)
      [] OTHER -> UNCHANGED history

DropConnection(p, q) ==
    \E cost \in 0 .. 1 :
      /\ IsActive(p, q)
      /\ \/ IsDeadConnection(p, q, cost)
         \/ HasExpired(p, q, cost)
         \/ HasDisconnected(p, q) /\ cost = 0
      /\ upsets + cost <= MaxUpsets
      /\ upsets' = upsets + cost
      /\ ReportEnd(p, q)
      /\ FreeSlot(p, q)
      /\ UNCHANGED <<requestedConnectionQueue, bufferedCommands, banList,
                     offline, myGuid, stale, connects>>

(* The ban for the timeout period ends. *)
BanExpires(p, q) ==
    /\ q \in banList[p]
    /\ banList' = [banList EXCEPT ![p] = @ \ {q}]
    /\ UNCHANGED <<requestedConnectionQueue, remoteSystemList, bufferedCommands,
                   network, history, stale, bounds>>

(* The program of p ends without a word and is started again. *)
Restart(p) ==
    /\ upsets < MaxUpsets
    /\ upsets' = upsets + 1
    /\ myGuid' = [myGuid EXCEPT ![p] = @ + 1]
    /\ requestedConnectionQueue' = [requestedConnectionQueue EXCEPT ![p] = {}]
    /\ remoteSystemList' = [remoteSystemList EXCEPT ![p] =
         [q \in Peer |-> [Inactive EXCEPT !.session = remoteSystemList[p][q].session]]]
    /\ bufferedCommands' = [bufferedCommands EXCEPT ![p] = <<>>]
    /\ banList' = [banList EXCEPT ![p] = {}]
    /\ connected' = [connected EXCEPT ![p] = [q \in Peer |-> FALSE]]
    /\ asked' = [asked EXCEPT ![p] = [q \in Peer |-> FALSE]]
    /\ online' \in {online, [online EXCEPT ![p] = [q \in Peer |-> <<>>]]}
    /\ UNCHANGED <<offline, unasked, stale, connects>>

Next ==
    \/ \E p \in Peer : RunCommand(p) \/ Restart(p)
    \/ \E p \in Peer : \E q \in Peer \ {p} :
         \/ Connect(p, q)
         \/ CancelConnectionAttempt(p, q)
         \/ \E notify \in BOOLEAN : CloseConnection(p, q, notify)
         \/ NextRequest(p, q)
         \/ LastRequest(p, q)
         \/ ReceiveWhileBanned(p, q)
         \/ ReceiveRequest1(p, q)
         \/ ReceiveReply1(p, q)
         \/ ReceiveRequest2(p, q)
         \/ ReceiveReply2(p, q)
         \/ ReceiveRefusal(p, q)
         \/ Receive(p, q)
         \/ DropConnection(p, q)
         \/ BanExpires(p, q)

Spec == Init /\ [][Next]_vars

-----------------------------------------------------------------------------
(* A calm run: no user has given up (CancelConnectionAttempt,                *)
(* CloseConnection), nothing alive has timed out, no peer was restarted, and *)
(* no slot has taken a message of a session that is over.  A datagram does   *)
(* not say to which connection it belongs, so outside of calm runs the code  *)
(* promises less: the three properties that name Calm say nothing there, and *)
(* are false without it.                                                     *)
Calm == upsets = 0 /\ ~stale

(* In a calm run every call of Connect gets one answer at most: an attempt   *)
(* is not reported accepted after it was reported failed or refused, nor     *)
(* twice, however the datagrams are lost, repeated and reordered and the     *)
(* peers connect to each other at the same time (RemoveAtIndex of the        *)
(* RequestedConnectionStruct with each of its ends).  After a restart, or    *)
(* once a stale message was taken, an attempt may be answered twice.         *)
AtMostOneAnswer == Calm => ~unasked

(* A user is never left with a connection that no longer exists: while it    *)
(* takes q for connected there is a slot for q.  Whatever frees the slot     *)
(* tells it so, or was asked for by it.                                      *)
EndIsReported == \A p, q \in Peer : connected[p][q] => IsActive(p, q)

PasswordsMatch(p, q) == {<<p, q>>, <<q, p>>} \cap WrongPassword = {}

Quiet(p, q) ==
    /\ ~Requesting(p, q) /\ ~Requesting(q, p)
    /\ online[p][q] = <<>> /\ online[q][p] = <<>>

(* In a calm run two peers that accept each other's password agree once     *)
(* their handshake is over and nothing is on its way between them: both      *)
(* slots are CONNECTED and both users were told, or neither.  No slot is     *)
(* left between, but that of an acceptor whose initiator's last request has  *)
(* expired, which the 10 seconds are for.  The peers may have connected to   *)
(* each other at the same time, and a datagram of an earlier attempt may     *)
(* have answered a later one.  After a restart, a timeout or a silent close  *)
(* only one side is CONNECTED, until its own timeout.                        *)
HandshakeConverges ==
    Calm =>
      \A p, q \in Peer :
        Quiet(p, q) /\ PasswordsMatch(p, q) =>
          /\ Mode(p, q) \in {"INACTIVE", "UNVERIFIED_SENDER", "CONNECTED"}
          /\ (Mode(p, q) = "CONNECTED") = (Mode(q, p) = "CONNECTED")
          /\ connected[p][q] = (Mode(p, q) = "CONNECTED")

(* In a calm run a peer is not banned for "nonsense data" by one that        *)
(* accepts its password: an UNVERIFIED_SENDER hears its                      *)
(* ID_CONNECTION_REQUEST first, through crossing attempts and late replies.  *)
(* Outside of calm runs a peer that follows the protocol may be banned: if   *)
(* its user closes the connection it has just begun, the ordered             *)
(* ID_DISCONNECTION_NOTIFICATION may overtake the unordered request.         *)
NoConformingPeerBanned ==
    Calm => \A p, q \in Peer : PasswordsMatch(p, q) => q \notin banList[p]

-----------------------------------------------------------------------------
(* The inductive invariant behind these properties.  It relates the two    *)
(* sides of a connection: what p knows of q, and what q knows of p.        *)

Side(p, q) ==
    [slot |-> remoteSystemList[p][q], sent |-> online[p][q],
     requesting |-> Requesting(p, q), connected |-> connected[p][q], asked |-> asked[p][q],
     bans |-> q \in banList[p], wrong |-> <<p, q>> \in WrongPassword]

Reply == {"ID_CONNECTION_REQUEST_ACCEPTED", "ID_INVALID_PASSWORD"}

Active(x) == x.slot.connectMode /= "INACTIVE"
Has(x, id, session) == \E i \in DOMAIN x.sent : x.sent[i].id = id /\ x.sent[i].session = session
Current(x, id) == Active(x) /\ Has(x, id, x.slot.session)
Matched(x, y) == ~x.wrong /\ ~y.wrong

(* The request of the other side's session s was taken: the session has    *)
(* sent it, it is no longer on its way, and the session sends no other.    *)
Spent(y, s) ==
    /\ s /= 0 /\ s <= y.slot.session
    /\ ~Has(y, "ID_CONNECTION_REQUEST", s)
    /\ Active(y) /\ y.slot.session = s => y.slot.weInitiatedTheConnection

(* A session sends one ID_CONNECTION_REQUEST, when it becomes the initiator, *)
(* after which the request is no longer in the queue.                        *)
OneRequest(x) ==
    /\ \A i \in DOMAIN x.sent : x.sent[i].session <= x.slot.session
    /\ \A i, j \in DOMAIN x.sent :
          /\ x.sent[i].id = "ID_CONNECTION_REQUEST" /\ x.sent[j].id = "ID_CONNECTION_REQUEST"
          /\ x.sent[i].session = x.sent[j].session
          => i = j
    /\ Current(x, "ID_CONNECTION_REQUEST") => x.slot.weInitiatedTheConnection
    /\ Active(x) /\ x.slot.weInitiatedTheConnection => ~x.requesting
    /\ x.slot.connectMode = "REQUESTED_CONNECTION" => x.slot.weInitiatedTheConnection

(* What a slot has heard, by its mode.                                     *)
HeardByMode(x, y) ==
    /\ x.slot.connectMode = "HANDLING_CONNECTION_REQUEST" => Spent(y, x.slot.heard)
    /\ x.slot.connectMode = "CONNECTED" =>
          x.slot.heard /= 0 /\ (x.slot.weInitiatedTheConnection \/ Spent(y, x.slot.heard))
    /\ x.slot.connectMode = "UNVERIFIED_SENDER" =>
          /\ x.slot.heard = 0 /\ ~x.slot.weInitiatedTheConnection
          /\ \A i \in DOMAIN x.sent : x.sent[i].session /= x.slot.session

(* A user that takes the other side for connected has a slot whose end is  *)
(* going to be reported.                                                   *)
ToldInTime(x, y) ==
    x.connected =>
      /\ x.slot.connectMode \in {"REQUESTED_CONNECTION", "CONNECTED", "DISCONNECT_ASAP", "DISCONNECT_ON_NO_ACK"}
      /\ \/ x.slot.weInitiatedTheConnection /\ x.slot.connectMode /= "REQUESTED_CONNECTION"
         \/ Spent(y, x.slot.heard)

(* What a wrong password explains.                                         *)
RefusedByPassword(x, y) ==
    /\ y.wrong => x.slot.connectMode /= "HANDLING_CONNECTION_REQUEST"
    /\ \A i \in DOMAIN x.sent : x.sent[i].id = "ID_INVALID_PASSWORD" => y.wrong
    /\ x.slot.connectMode = "DISCONNECT_ASAP_SILENTLY" => ~Matched(x, y)

EndInv(x, y) ==
    OneRequest(x) /\ HeardByMode(x, y) /\ ToldInTime(x, y) /\ RefusedByPassword(x, y)

(* The rest holds in calm runs.                                            *)
NobodyLeaves(x) ==
    /\ x.slot.connectMode \notin {"DISCONNECT_ASAP", "DISCONNECT_ON_NO_ACK"}
    /\ \A i \in DOMAIN x.sent : x.sent[i].id /= "ID_DISCONNECTION_NOTIFICATION"
    /\ x.slot.connectMode = "CONNECTED" => x.connected

(* A reply of y is the only one and answers the request of x, which still  *)
(* waits for it.                                                           *)
RepliesAwaited(x, y) ==
    \A i \in DOMAIN y.sent :
      /\ ~y.wrong /\ Active(y) /\ y.sent[i].session = y.slot.session /\ y.sent[i].id \in Reply
      => /\ \A j \in DOMAIN y.sent :
              y.sent[j].session = y.slot.session /\ y.sent[j].id \in Reply => i = j
         /\ Active(x) /\ x.slot.weInitiatedTheConnection
         /\ x.slot.connectMode /= "DISCONNECT_ASAP_SILENTLY"
         /\ ~Current(x, "ID_CONNECTION_REQUEST")

SilentAfterReply(x, y) ==
    x.slot.connectMode = "DISCONNECT_ASAP_SILENTLY" /\ ~y.wrong => ~Current(x, "ID_CONNECTION_REQUEST")

AskedWhileOpen(x) ==
    /\ x.requesting => x.asked
    /\ x.slot.weInitiatedTheConnection
         /\ x.slot.connectMode \in {"REQUESTED_CONNECTION", "HANDLING_CONNECTION_REQUEST"} => x.asked

(* Two sides whose passwords match: each has heard the session the other   *)
(* is in, and a handshake that is not over has a message on its way.       *)
HeardIsCurrent(x, y) ==
    Active(x) /\ x.slot.heard /= 0 =>
      Active(y) /\ y.slot.session = x.slot.heard /\ y.slot.connectMode /= "UNVERIFIED_SENDER"

NewFromConnected(x, y) ==
    Current(y, "ID_NEW_INCOMING_CONNECTION") =>
      /\ y.slot.connectMode = "CONNECTED" /\ y.slot.weInitiatedTheConnection
      /\ Active(x) /\ x.slot.connectMode /= "UNVERIFIED_SENDER"

RequestAwaited(x, y) ==
    /\ x.slot.connectMode \in {"INACTIVE", "UNVERIFIED_SENDER", "REQUESTED_CONNECTION"}
    /\ Current(y, "ID_CONNECTION_REQUEST")
    => y.slot.connectMode \in {"REQUESTED_CONNECTION", "HANDLING_CONNECTION_REQUEST"}

AcceptanceAwaited(x, y) ==
    /\ x.slot.connectMode = "HANDLING_CONNECTION_REQUEST"
    /\ Current(x, "ID_CONNECTION_REQUEST_ACCEPTED")
    => y.slot.connectMode \in {"REQUESTED_CONNECTION", "HANDLING_CONNECTION_REQUEST"}

StillPending(x, y) ==
    LET answered == Current(x, "ID_CONNECTION_REQUEST") \/ Current(y, "ID_CONNECTION_REQUEST_ACCEPTED")
    IN  /\ x.slot.connectMode = "REQUESTED_CONNECTION" => answered
        /\ x.slot.connectMode = "HANDLING_CONNECTION_REQUEST" =>
              \/ x.slot.weInitiatedTheConnection /\ answered
              \/ Current(x, "ID_CONNECTION_REQUEST_ACCEPTED")
              \/ Current(y, "ID_NEW_INCOMING_CONNECTION")

CalmInv(x, y) ==
    /\ NobodyLeaves(x) /\ RepliesAwaited(x, y) /\ SilentAfterReply(x, y) /\ AskedWhileOpen(x)
    /\ Matched(x, y) => /\ ~x.bans
                        /\ HeardIsCurrent(x, y) /\ NewFromConnected(x, y)
                        /\ RequestAwaited(x, y) /\ AcceptanceAwaited(x, y) /\ StillPending(x, y)

ConnectionInv ==
    /\ TypeOK
    /\ \A p \in Peer : ~IsActive(p, p) /\ ~connected[p][p] /\ p \notin banList[p]
    /\ \A p \in Peer : \A q \in Peer \ {p} : EndInv(Side(p, q), Side(q, p))
    /\ Calm => /\ ~unasked
               /\ \A p \in Peer : bufferedCommands[p] = <<>>
               /\ \A p \in Peer : \A q \in Peer \ {p} : CalmInv(Side(p, q), Side(q, p))

=============================================================================
