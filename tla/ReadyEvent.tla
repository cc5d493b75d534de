----------------------------- MODULE ReadyEvent -----------------------------
(***************************************************************************)
(* The ReadyEvent plugin (ReadyEvent.cpp): systems of a fully connected    *)
(* mesh find out whether all of them, relative to all others, are ready.   *)
(* One event is modelled; the events of a system share no state.           *)
(*                                                                         *)
(* A system tells the systems in its wait list when its own status         *)
(* changes, and asks for theirs when it adds them.  Messages are sent      *)
(* RELIABLE_ORDERED on one channel: net[p][q] is the queue from p to q     *)
(* (what OrderingChannel shows of such messages).  A connection may be     *)
(* lost with the messages that are on their way; each of its ends notices  *)
(* when it has processed what did arrive.                                  *)
(***************************************************************************)
EXTENDS Integers, Sequences, FiniteSets, Functions

CONSTANTS
    System,        \* RakNetGUIDs
    MaxUndo,       \* bound: SetEvent(false), DeleteEvent, RemoveFromWaitList,
                   \* lost connections and shutdowns
    MaxInFlight    \* bound: users act while no more messages are on their way

ASSUME ReadyAssumption == {MaxUndo, MaxInFlight} \subseteq Nat

VARIABLES
    eventStatus,   \* of each system; NoEvent when it has no ReadyEventNode
    systemList,    \* systemList[p][q]: what p knows and told of q, a system it waits for
    net,           \* messages on their way
    down,          \* pairs of systems that are not connected
    undos,
    undone,        \* history: has a system taken back that it was ready?
    forgot         \* history: <<p, q>>, p dropped q, with which it is still connected

vars == <<eventStatus, systemList, net, down, undos, undone, forgot>>

NoEvent == "no event"
Reported == {"UNSET", "SET", "ALL_SET"}
Status   == Reported \cup {"FORCE_ALL_SET"}

RemoteSystem == [lastSentStatus : Status, lastReceivedStatus : Reported]
SystemList   == UNION {[others -> RemoteSystem] : others \in SUBSET System}

(* ID_CONNECTION_LOST stands for what makes RakPeer call OnClosedConnection. *)
Message == Status \cup {"QUERY", "ID_CONNECTION_LOST"}

HasEvent(p)  == eventStatus[p] /= NoEvent
WaitsFor(p)  == DOMAIN systemList[p]
Connected(p, q) == {p, q} \notin down

TypeOK ==
    /\ eventStatus \in [System -> Status \cup {NoEvent}]
    /\ systemList \in [System -> SystemList]
    /\ \A p \in System :
         /\ p \notin WaitsFor(p)
         /\ ~HasEvent(p) => WaitsFor(p) = {}
    /\ net \in [System -> [System -> Seq(Message)]]
    /\ down \subseteq {{p, q} : p \in System, q \in System}
    /\ \A p \in System : Connected(p, p)
    /\ undos \in 0 .. MaxUndo
    /\ undone \in BOOLEAN
    /\ forgot \subseteq System \X System

Empty == [q \in {} |-> <<>>]

Init ==
    /\ eventStatus = [p \in System |-> NoEvent]
    /\ systemList = [p \in System |-> Empty]
    /\ net = [p \in System |-> [q \in System |-> <<>>]]
    /\ down = {}
    /\ undos = 0
    /\ undone = FALSE /\ forgot = {}

-----------------------------------------------------------------------------
(* Shared steps                                                            *)

(* Mutant: a system is all set without looking at the others.              *)
UpdatedStatusAlone(status, list) == IF status = "SET" THEN "ALL_SET" ELSE status

(* UpdateReadyStatus: set becomes all set when no system in the list is    *)
(* unset, and the other way round.                                         *)
UpdatedStatus(status, list) ==
    LET anyUnset == \E q \in DOMAIN list : list[q].lastReceivedStatus = "UNSET" IN
    CASE status = "SET" /\ ~anyUnset    -> "ALL_SET"
      [] status = "ALL_SET" /\ anyUnset -> "SET"
      [] OTHER                          -> status

(* Mutant: only the first change of status is sent.                        *)
UninformedOnce(status, list) ==
    {q \in DOMAIN list : list[q].lastSentStatus = "UNSET" /\ status /= "UNSET"}

(* BroadcastReadyUpdate(false): the systems SendReadyUpdate sends status to. *)
Uninformed(status, list) == {q \in DOMAIN list : list[q].lastSentStatus /= status}

(* The queues from p with message added for the systems of to; what is     *)
(* sent to a system that is not connected is lost.                         *)
Posted(queues, p, to, message) ==
    [q \in System |-> IF q \in to /\ Connected(p, q)
                      THEN Append(queues[q], message) ELSE queues[q]]

(* UpdateReadyStatus with the broadcast, given the status and the list p   *)
(* has by then and the queues from p.                                      *)
Update(p, status, list, network, queues) ==
    LET new == UpdatedStatus(status, list) IN
    /\ eventStatus' = [eventStatus EXCEPT ![p] = new]
    /\ systemList' = [systemList EXCEPT ![p] =
                        [q \in DOMAIN list |-> [list[q] EXCEPT !.lastSentStatus = new]]]
    /\ net' = [network EXCEPT ![p] = Posted(queues, p, Uninformed(new, list), new)]

Undo == undos < MaxUndo /\ undos' = undos + 1 /\ undone' = TRUE
Keep == UNCHANGED <<undos, undone>>

-----------------------------------------------------------------------------
(* User functions                                                          *)

(* SetEvent of a new event creates it and tells nobody.                    *)
SetNewEvent(p, isReady) ==
    /\ ~HasEvent(p)
    /\ eventStatus' = [eventStatus EXCEPT ![p] = IF isReady THEN "SET" ELSE "UNSET"]
    /\ Keep
    /\ UNCHANGED <<systemList, net, down, forgot>>

(* Mutant: a forced event can be set again.                                *)
SetEventForced(p, isReady) ==
    /\ IF isReady THEN eventStatus[p] \in {"UNSET", "FORCE_ALL_SET"} /\ Keep
                  ELSE eventStatus[p] \in {"SET", "ALL_SET"} /\ Undo
    /\ Update(p, IF isReady THEN "SET" ELSE "UNSET", systemList[p], net, net[p])
    /\ UNCHANGED <<down, forgot>>

(* SetEventByIndex.                                                        *)
SetEvent(p, isReady) ==
    /\ IF isReady THEN eventStatus[p] = "UNSET" /\ Keep
                  ELSE eventStatus[p] \in {"SET", "ALL_SET"} /\ Undo
    /\ Update(p, IF isReady THEN "SET" ELSE "UNSET", systemList[p], net, net[p])
    /\ UNCHANGED <<down, forgot>>

(* Also when the event is forced already: a system that another one forced *)
(* has not told its own list.                                              *)
ForceCompletion(p) ==
    /\ Update(p, "FORCE_ALL_SET", systemList[p], net, net[p])
    /\ Keep
    /\ UNCHANGED <<down, forgot>>

Forget(p, others) == forgot' = forgot \cup {<<p, q>> : q \in others}

(* Mutant: the wait list outlives the event.                               *)
DeleteEventKeepingList(p) ==
    /\ HasEvent(p)
    /\ eventStatus' = [eventStatus EXCEPT ![p] = NoEvent]
    /\ Undo /\ Forget(p, WaitsFor(p))
    /\ UNCHANGED <<systemList, net, down>>

DeleteEvent(p) ==
    /\ HasEvent(p)
    /\ eventStatus' = [eventStatus EXCEPT ![p] = NoEvent]
    /\ systemList' = [systemList EXCEPT ![p] = Empty]
    /\ Undo /\ Forget(p, WaitsFor(p))
    /\ UNCHANGED <<net, down>>

(* Mutant: the systems that are added are not asked for their status.      *)
AddToWaitListSilently(p, others) ==
    LET status == IF HasEvent(p) THEN eventStatus[p] ELSE "UNSET"
        new    == others \ WaitsFor(p)
        list   == [q \in WaitsFor(p) \cup new |->
                     IF q \in new
                     THEN [lastSentStatus |-> "UNSET", lastReceivedStatus |-> "UNSET"]
                     ELSE systemList[p][q]]
    IN  /\ new /= {}
        /\ Update(p, status, list, net, net[p])
        /\ undone' = (undone \/ status = "ALL_SET")
        /\ UNCHANGED <<down, undos, forgot>>

(* AddToWaitList of one system or of all connected ones: those that are    *)
(* new count as unset and are asked for their status.  (With nobody to     *)
(* add, an unknown event is still created: SetNewEvent(p, FALSE).)         *)
(* undone: a system that was all set waits again.                          *)
AddToWaitList(p, others) ==
    LET status == IF HasEvent(p) THEN eventStatus[p] ELSE "UNSET"
        new    == others \ WaitsFor(p)
        list   == [q \in WaitsFor(p) \cup new |->
                     IF q \in new
                     THEN [lastSentStatus |-> "UNSET", lastReceivedStatus |-> "UNSET"]
                     ELSE systemList[p][q]]
    IN  /\ new /= {}
        /\ Update(p, status, list, net, Posted(net[p], p, new, "QUERY"))
        /\ undone' = (undone \/ status = "ALL_SET")
        /\ UNCHANGED <<down, undos, forgot>>

(* RemoveFromWaitList of one system or of all.                             *)
RemoveFromWaitList(p, others) ==
    /\ HasEvent(p)
    /\ others \subseteq WaitsFor(p)
    /\ Update(p, eventStatus[p], Restrict(systemList[p], WaitsFor(p) \ others), net, net[p])
    /\ Undo /\ Forget(p, others)
    /\ UNCHANGED down

-----------------------------------------------------------------------------
(* Messages: p processes the first one from q                              *)

Arrives(q, p, kinds) == net[q][p] /= <<>> /\ Head(net[q][p]) \in kinds

Rest(q, p) == [net EXCEPT ![q][p] = Tail(@)]

(* A message that changes nothing but the queue.                           *)
Ignored(q, p) ==
    /\ net' = Rest(q, p)
    /\ UNCHANGED <<eventStatus, systemList>>

(* An update counts if the event is known, the sender is in the list and   *)
(* its status is news; a forced event takes note and does no more.         *)
OnReadyEventPacketUpdate(q, p) ==
    /\ Arrives(q, p, Reported)
    /\ LET status == Head(net[q][p])
           list   == [systemList[p] EXCEPT ![q].lastReceivedStatus = status]
       IN  IF q \notin WaitsFor(p) \/ systemList[p][q].lastReceivedStatus = status
           THEN Ignored(q, p)
           ELSE IF eventStatus[p] = "FORCE_ALL_SET"
           THEN /\ systemList' = [systemList EXCEPT ![p] = list]
                /\ net' = Rest(q, p)
                /\ UNCHANGED eventStatus
           ELSE Update(p, eventStatus[p], list, Rest(q, p), net[p])
    /\ Keep
    /\ UNCHANGED <<down, forgot>>

OnReadyEventForceAllSet(q, p) ==
    /\ Arrives(q, p, {"FORCE_ALL_SET"})
    /\ eventStatus' = [eventStatus EXCEPT ![p] = IF HasEvent(p) THEN "FORCE_ALL_SET" ELSE @]
    /\ net' = Rest(q, p)
    /\ Keep
    /\ UNCHANGED <<systemList, down, forgot>>

(* The query is answered unless we are unset and have told so (or nothing). *)
OnReadyEventQuery(q, p) ==
    /\ Arrives(q, p, {"QUERY"})
    /\ IF \/ q \notin WaitsFor(p)
          \/ eventStatus[p] = "UNSET" /\ systemList[p][q].lastSentStatus = "UNSET"
       THEN Ignored(q, p)
       ELSE /\ net' = [Rest(q, p) EXCEPT ![p] = Posted(@, p, {q}, eventStatus[p])]
            /\ systemList' = [systemList EXCEPT ![p][q].lastSentStatus = eventStatus[p]]
            /\ UNCHANGED eventStatus
    /\ Keep
    /\ UNCHANGED <<down, forgot>>

(* OnClosedConnection, RemoveFromAllLists: the status is updated whether   *)
(* or not the system was in the list.                                      *)
OnClosedConnection(q, p) ==
    /\ Arrives(q, p, {"ID_CONNECTION_LOST"})
    /\ IF HasEvent(p)
       THEN Update(p, eventStatus[p], Restrict(systemList[p], WaitsFor(p) \ {q}),
                   Rest(q, p), net[p])
       ELSE Ignored(q, p)
    /\ Keep
    /\ UNCHANGED <<down, forgot>>

-----------------------------------------------------------------------------
(* The network and RakPeer, as the plugin sees them                        *)

Fault == undos < MaxUndo /\ undos' = undos + 1

Lost(queue, k) == Append(SubSeq(queue, 1, k), "ID_CONNECTION_LOST")

(* The connection of p and q is lost with the messages that have yet to    *)
(* arrive.                                                                 *)
LoseConnection(p, q) ==
    /\ p /= q /\ Connected(p, q) /\ Fault
    /\ \E i \in 0 .. Len(net[p][q]), j \in 0 .. Len(net[q][p]) :
          net' = [net EXCEPT ![p][q] = Lost(@, i), ![q][p] = Lost(@, j)]
    /\ down' = down \cup {{p, q}}
    /\ UNCHANGED <<eventStatus, systemList, undone, forgot>>

(* OnRakPeerShutdown: every event is cleared, every connection closed.     *)
OnRakPeerShutdown(p) ==
    /\ Fault
    /\ eventStatus' = [eventStatus EXCEPT ![p] = NoEvent]
    /\ systemList' = [systemList EXCEPT ![p] = Empty]
    /\ net' = [r \in System |-> [q \in System |->
                  IF q = p THEN <<>>
                  ELSE IF r = p /\ Connected(p, q) THEN Lost(net[p][q], Len(net[p][q]))
                  ELSE net[r][q]]]
    /\ down' = down \cup {{p, q} : q \in System \ {p}}
    /\ undone' = TRUE
    /\ UNCHANGED forgot

(* They connect again once both have noticed.                              *)
Reconnect(p, q) ==
    /\ p /= q /\ ~Connected(p, q)
    /\ net[p][q] = <<>> /\ net[q][p] = <<>>
    /\ down' = down \ {{p, q}}
    /\ forgot' = forgot \ {<<p, q>>, <<q, p>>}
    /\ UNCHANGED <<eventStatus, systemList, net, undos, undone>>

-----------------------------------------------------------------------------
(* What p may wait for: the systems it has a connection with, as far as it *)
(* knows.                                                                  *)
Reachable(p) == {q \in System \ {p} : Connected(p, q) \/ net[q][p] /= <<>>}

Deliver(q, p) ==
    \/ OnReadyEventPacketUpdate(q, p)
    \/ OnReadyEventForceAllSet(q, p)
    \/ OnReadyEventQuery(q, p)
    \/ OnClosedConnection(q, p)

InFlight ==
    SumFunction([p \in System |-> SumFunction([q \in System |-> Len(net[p][q])])])

User(p) ==
    \/ \E b \in BOOLEAN : SetNewEvent(p, b) \/ SetEvent(p, b)
    \/ ForceCompletion(p)
    \/ DeleteEvent(p)
    \/ \E q \in Reachable(p) : AddToWaitList(p, {q})
    \/ AddToWaitList(p, Reachable(p))
    \/ \E q \in WaitsFor(p) : RemoveFromWaitList(p, {q})
    \/ RemoveFromWaitList(p, WaitsFor(p))
    \/ OnRakPeerShutdown(p)

Next ==
    \/ InFlight <= MaxInFlight /\ \E p \in System : User(p)
    \/ \E p, q \in System : Deliver(q, p) \/ LoseConnection(p, q) \/ Reconnect(p, q)

Spec == Init /\ [][Next]_vars

-----------------------------------------------------------------------------
(* Properties                                                              *)

(* IsEventCompletedByIndex.                                                *)
IsEventCompleted(p) ==
    \/ eventStatus[p] = "FORCE_ALL_SET"
    \/ /\ eventStatus[p] = "ALL_SET"
       /\ \A q \in WaitsFor(p) : systemList[p][q].lastReceivedStatus = "ALL_SET"

Ready(p) == eventStatus[p] \in {"SET", "ALL_SET", "FORCE_ALL_SET"}

(* When no message is on its way between two systems that wait for each    *)
(* other, each knows the status of the other, however their calls of       *)
(* SetEvent, AddToWaitList and a lost connection were interleaved; and the *)
(* other has forced the event, too, if it was told to.  (Not so if it had  *)
(* dropped this one: it starts from UNSET without saying so.)              *)
KnowledgeSettles ==
    \A p, q \in System :
        /\ p \in WaitsFor(q) /\ q \in WaitsFor(p)
        /\ Connected(p, q) /\ net[p][q] = <<>> /\ net[q][p] = <<>>
        /\ <<p, q>> \notin forgot
        => IF eventStatus[p] /= "FORCE_ALL_SET"
           THEN systemList[q][p].lastReceivedStatus = eventStatus[p]
           ELSE systemList[p][q].lastSentStatus = "FORCE_ALL_SET"
                => eventStatus[q] = "FORCE_ALL_SET"

(* ReadyEvent.h: "first, everyone I know about is ready. Second, everyone  *)
(* I know about is ready to everyone they know about": if nobody took back *)
(* anything, IsEventCompleted of an event that was not forced means that   *)
(* every system p waits for is all set, with every system that one waits   *)
(* for ready, or has been forced in the meantime.                          *)
CompletedMeansAllReady ==
    \A p \in System :
        ~undone /\ IsEventCompleted(p) /\ eventStatus[p] /= "FORCE_ALL_SET"
        => \A q \in WaitsFor(p) :
              \/ eventStatus[q] = "FORCE_ALL_SET"
              \/ eventStatus[q] = "ALL_SET" /\ \A r \in WaitsFor(q) : Ready(r)

(* Completion is final: no message that is still on its way, and no lost   *)
(* connection, makes IsEventCompleted false again, unless a user took      *)
(* something back.                                                         *)
CompletionIsFinal ==
    [][\A p \in System : IsEventCompleted(p) /\ ~undone' => IsEventCompleted(p)']_vars

(* The systems of group wait for each other and for nobody else, and have  *)
(* all called SetEvent(true).  (One that was forced by a system outside of *)
(* the group does not tell the others.)                                    *)
MeshReady(group) ==
    \A p \in group :
        /\ eventStatus[p] \in {"SET", "ALL_SET"} /\ WaitsFor(p) = group \ {p}
        /\ \A q \in WaitsFor(p) : Connected(p, q) /\ <<p, q>> \notin forgot

(* When no message is on its way and the systems of a group are ready and  *)
(* wait for each other, the event is completed on all of them: nobody      *)
(* waits for a message that nobody is going to send.                       *)
CompleteAtRest ==
    (\A p, q \in System : net[p][q] = <<>>) =>
        \A group \in SUBSET System :
            Cardinality(group) > 1 /\ MeshReady(group)
            => \A p \in group : IsEventCompleted(p)

-----------------------------------------------------------------------------
(* The inductive invariant behind these properties.  Its parts are stated  *)
(* of statuses st, lists sl, queues nt, pairs dn that are not connected    *)
(* and forgotten systems fg, because a step may change a list or a queue   *)
(* before UpdateReadyStatus looks at it.                                   *)

Holds(queue, message) == \E i \in DOMAIN queue : queue[i] = message
NoStatusIn(queue)     == \A i \in DOMAIN queue : queue[i] \notin Status
LastStatusIs(queue, status) ==
    \E i \in DOMAIN queue :
        queue[i] = status /\ \A j \in DOMAIN queue : j > i => queue[j] \notin Status

(* A status is what UpdateReadyStatus makes of the list (an event that was *)
(* set when it was created has no list yet).                               *)
StatusFollowsList(st, sl) ==
    \A p \in System :
        /\ st[p] = "SET" /\ DOMAIN sl[p] /= {}
           => \E q \in DOMAIN sl[p] : sl[p][q].lastReceivedStatus = "UNSET"
        /\ st[p] = "ALL_SET"
           => \A q \in DOMAIN sl[p] : sl[p][q].lastReceivedStatus /= "UNSET"

(* Everybody in the list was sent the status, unless another system forced *)
(* the event.                                                              *)
ListWasTold(st, sl) ==
    \A p \in System : \A q \in DOMAIN sl[p] :
        sl[p][q].lastSentStatus = st[p] \/ st[p] = "FORCE_ALL_SET"

(* The last thing to arrive over a connection is that it was lost, and     *)
(* then the other system has left the list.                                *)
EndArrivesLast(sl, nt, dn, p, q) ==
    IF {p, q} \notin dn THEN ~Holds(nt[p][q], "ID_CONNECTION_LOST")
    ELSE /\ nt[p][q] = <<>> => p \notin DOMAIN sl[q]
         /\ nt[p][q] /= <<>> => nt[p][q][Len(nt[p][q])] = "ID_CONNECTION_LOST"

(* p has not told q anything: it does so only when q is in its list.       *)
HasToldNothing(sl, nt, p, q) ==
    /\ nt[p][q] = <<>>
    /\ p \in DOMAIN sl[q] => sl[q][p].lastReceivedStatus = "UNSET"

(* Of a system that was last told sent: its status and what it received.   *)
Knows(status, received, sent) ==
    IF sent = "FORCE_ALL_SET" THEN status = "FORCE_ALL_SET" ELSE received = sent

(* What p has told q is the last status on its way, or q knows it, or q is *)
(* going to ask for it.                                                    *)
KnowledgeOnItsWay(st, sl, nt, p, q) ==
    \/ LastStatusIs(nt[p][q], sl[p][q].lastSentStatus)
    \/ /\ NoStatusIn(nt[p][q])
       /\ p \in DOMAIN sl[q]
          => \/ Knows(st[q], sl[q][p].lastReceivedStatus, sl[p][q].lastSentStatus)
             \/ /\ Holds(nt[q][p], "QUERY")
                /\ sl[q][p].lastReceivedStatus = "UNSET"

Settling(st, sl, nt, dn, fg) ==
    \A p, q \in System :
        /\ EndArrivesLast(sl, nt, dn, p, q)
        /\ {p, q} \notin dn /\ <<p, q>> \notin fg
           => IF q \in DOMAIN sl[p] THEN KnowledgeOnItsWay(st, sl, nt, p, q)
                                    ELSE HasToldNothing(sl, nt, p, q)

(* A system that has this status may have told others that one.            *)
Bears(status, told) ==
    /\ told \in {"SET", "ALL_SET", "FORCE_ALL_SET"} => status \in {"SET", "ALL_SET", "FORCE_ALL_SET"}
    /\ told = "ALL_SET" => status \in {"ALL_SET", "FORCE_ALL_SET"}

(* In a queue from a system with this status: nothing is taken back, and   *)
(* SET comes before ALL_SET.                                               *)
OnlyRises(status, queue) ==
    \A i \in DOMAIN queue :
        /\ queue[i] /= "UNSET"
        /\ Bears(status, queue[i])
        /\ queue[i] = "SET" => \A j \in 1 .. i - 1 : queue[j] /= "ALL_SET"

(* What p has told q is still true of p, and q does not hear of SET after  *)
(* it has heard of ALL_SET.                                                *)
StillTrue(st, sl, nt, p, q) ==
    /\ q \in DOMAIN sl[p] => Bears(st[p], sl[p][q].lastSentStatus)
    /\ p \in DOMAIN sl[q] =>
         /\ Bears(st[p], sl[q][p].lastReceivedStatus)
         /\ sl[q][p].lastReceivedStatus = "ALL_SET" => ~Holds(nt[p][q], "SET")
    /\ OnlyRises(st[p], nt[p][q])

NothingTakenBack(st, sl, nt) == \A p, q \in System : StillTrue(st, sl, nt, p, q)

ReadyInv ==
    /\ TypeOK
    /\ StatusFollowsList(eventStatus, systemList)
    /\ ListWasTold(eventStatus, systemList)
    /\ Settling(eventStatus, systemList, net, down, forgot)
    /\ undone \/ NothingTakenBack(eventStatus, systemList, net)
=============================================================================
