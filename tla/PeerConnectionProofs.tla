------------------------ MODULE PeerConnectionProofs ------------------------
(***************************************************************************)
(* Proofs about how two RakPeers become connected, for every number of     *)
(* peers, slots, attempts and sessions.                                    *)
(***************************************************************************)
EXTENDS PeerConnection, SequenceTheorems, TLAPS

-----------------------------------------------------------------------------
(* Sequences and tables.                                                   *)

(* A table of all pairs of peers after one entry was set.                  *)
LEMMA SetEntry ==
    ASSUME NEW S, NEW f \in [Peer -> [Peer -> S]], NEW p \in Peer, NEW q \in Peer, NEW v \in S
    PROVE  /\ [f EXCEPT ![p][q] = v] \in [Peer -> [Peer -> S]]
           /\ [f EXCEPT ![p][q] = v][p][q] = v
           /\ \A x, y \in Peer :
                ~(x = p /\ y = q) => [f EXCEPT ![p][q] = v][x][y] = f[x][y]
OBVIOUS

(* Taking from a sequence and adding to it.                                *)
LEMMA SeqBasics ==
    ASSUME NEW S, NEW s \in Seq(S)
    PROVE  /\ \A e \in S : Append(s, e) \in Seq(S)
           /\ s # <<>> => Head(s) \in S /\ Tail(s) \in Seq(S)
OBVIOUS

(* new is old without some of its elements, told by f.                     *)
Thins(f, new, old) ==
    /\ f \in [DOMAIN new -> DOMAIN old]
    /\ \A j, k \in DOMAIN new : f[j] = f[k] => j = k
    /\ \A k \in DOMAIN new : new[k] = old[f[k]]

Thinned(new, old) == \E f : Thins(f, new, old)

(* Of the elements of old, at most the i-th is not in new.                 *)
KeepsAllBut(i, new, old) ==
    \A k \in DOMAIN old : k # i => \E j \in DOMAIN new : new[j] = old[k]

(* What RemoveAt leaves.                                                   *)
LEMMA RemoveAtSeq ==
    ASSUME NEW S, NEW s \in Seq(S), NEW i \in DOMAIN s
    PROVE  /\ RemoveAt(s, i) \in Seq(S)
           /\ Len(RemoveAt(s, i)) = Len(s) - 1
           /\ \A k \in 1 .. Len(s) - 1 : /\ k < i => RemoveAt(s, i)[k] = s[k]
                                         /\ k >= i => RemoveAt(s, i)[k] = s[k + 1]
<1> DEFINE n == Len(s)
           front == SubSeq(s, 1, i - 1)
           back == SubSeq(s, i + 1, n)
<1>1. n \in Nat /\ i \in Nat /\ 1 <= i /\ i <= n /\ \A k \in 1 .. n : s[k] \in S
  OBVIOUS
<1> HIDE DEF n
<1>2. /\ front \in Seq(S) /\ Len(front) = i - 1
      /\ \A k \in 1 .. i - 1 : front[k] = s[k]
  <2>1. 1 \in Int /\ i - 1 \in Int /\ \A k \in 1 .. i - 1 : s[k] \in S
    BY <1>1
  <2>2. /\ front \in Seq(S)
        /\ Len(front) = IF 1 <= i - 1 THEN (i - 1) - 1 + 1 ELSE 0
        /\ \A k \in 1 .. (i - 1) - 1 + 1 : front[k] = s[1 + k - 1]
    BY <2>1, SubSeqProperties
  <2> HIDE DEF front
  <2>3. Len(front) = i - 1 /\ (i - 1) - 1 + 1 = i - 1 /\ \A k \in 1 .. i - 1 : 1 + k - 1 = k
    BY <1>1, <2>2
  <2> QED
    BY <2>2, <2>3
<1>3. /\ back \in Seq(S) /\ Len(back) = n - i
      /\ \A k \in 1 .. n - i : back[k] = s[i + k]
  <2>1. i + 1 \in Int /\ n \in Int /\ \A k \in i + 1 .. n : s[k] \in S
    BY <1>1
  <2>2. /\ back \in Seq(S)
        /\ Len(back) = IF i + 1 <= n THEN n - (i + 1) + 1 ELSE 0
        /\ \A k \in 1 .. n - (i + 1) + 1 : back[k] = s[(i + 1) + k - 1]
    BY <2>1, SubSeqProperties
  <2> HIDE DEF back
  <2>3. Len(back) = n - i /\ n - (i + 1) + 1 = n - i
        /\ \A k \in 1 .. n - i : (i + 1) + k - 1 = i + k
    BY <1>1, <2>2
  <2> QED
    BY <2>2, <2>3
<1>4. RemoveAt(s, i) = front \o back
  BY DEF RemoveAt, n
<1> HIDE DEF front, back
<1>5. /\ front \o back \in Seq(S)
      /\ Len(front \o back) = Len(front) + Len(back)
      /\ \A k \in 1 .. Len(front) + Len(back) :
            (front \o back)[k] = IF k <= Len(front) THEN front[k] ELSE back[k - Len(front)]
  BY <1>2, <1>3, ConcatProperties, Zenon
<1>6. (i - 1) + (n - i) = n - 1
  BY <1>1
<1>7. ASSUME NEW k \in 1 .. n - 1
      PROVE  /\ k < i => (front \o back)[k] = s[k]
             /\ k >= i => (front \o back)[k] = s[k + 1]
  <2>1. (front \o back)[k] = IF k <= i - 1 THEN front[k] ELSE back[k - (i - 1)]
    BY <1>2, <1>3, <1>5, <1>6
  <2>2. CASE k < i
    BY <1>1, <1>2, <2>1, <2>2
  <2>3. CASE k >= i
    <3>1. k - (i - 1) \in 1 .. n - i /\ i + (k - (i - 1)) = k + 1
      BY <1>1, <2>3
    <3> QED
      BY SMTT(60), <1>1, <1>3, <2>1, <2>3, <3>1
  <2> QED
    BY <2>2, <2>3
<1> QED
  BY <1>2, <1>3, <1>4, <1>5, <1>6, <1>7 DEF n

(* RemoveAt takes away one element and keeps the others.                   *)
LEMMA RemoveAtThins ==
    ASSUME NEW S, NEW s \in Seq(S), NEW i \in DOMAIN s
    PROVE  /\ KeepsAllBut(i, RemoveAt(s, i), s)
           /\ \E f : /\ Thins(f, RemoveAt(s, i), s)
                     /\ \A k \in DOMAIN RemoveAt(s, i) : f[k] # i
<1> DEFINE n == Len(s)
           new == RemoveAt(s, i)
           f == [k \in 1 .. n - 1 |-> IF k < i THEN k ELSE k + 1]
<1>1. n \in Nat /\ i \in Nat /\ 1 <= i /\ i <= n /\ DOMAIN s = 1 .. n
  OBVIOUS
<1>2. /\ DOMAIN new = 1 .. n - 1
      /\ \A k \in 1 .. n - 1 : (k < i => new[k] = s[k]) /\ (k >= i => new[k] = s[k + 1])
  <2>1. /\ new \in Seq(S) /\ Len(new) = n - 1
        /\ \A k \in 1 .. n - 1 : (k < i => new[k] = s[k]) /\ (k >= i => new[k] = s[k + 1])
    <3>1. /\ RemoveAt(s, i) \in Seq(S)
          /\ Len(RemoveAt(s, i)) = Len(s) - 1
          /\ \A k \in 1 .. Len(s) - 1 : /\ k < i => RemoveAt(s, i)[k] = s[k]
                                        /\ k >= i => RemoveAt(s, i)[k] = s[k + 1]
      BY RemoveAtSeq
    <3> QED
      BY <3>1
  <2> HIDE DEF new, n
  <2>2. DOMAIN new = 1 .. Len(new)
    BY <2>1
  <2> QED
    BY <2>1, <2>2
<1> HIDE DEF n, new
<1>3. f \in [DOMAIN new -> DOMAIN s]
  BY <1>1, <1>2
<1>4. \A j, k \in DOMAIN new : f[j] = f[k] => j = k
  BY <1>1, <1>2
<1>5. \A k \in DOMAIN new : new[k] = s[f[k]] /\ f[k] # i
  BY <1>1, <1>2
<1>6. Thins(f, new, s)
  BY <1>3, <1>4, <1>5 DEF Thins
<1>7. ASSUME NEW k \in DOMAIN s, k # i PROVE \E j \in DOMAIN new : new[j] = s[k]
  <2>1. CASE k < i
    <3>1. k \in 1 .. n - 1 /\ new[k] = s[k]
      BY <1>1, <1>2, <2>1
    <3> QED
      BY <1>2, <3>1
  <2>2. CASE k > i
    <3>1. k - 1 \in 1 .. n - 1 /\ ~(k - 1 < i) /\ (k - 1) + 1 = k
      BY <1>1, <2>2
    <3>2. new[k - 1] = s[k]
      BY <1>2, <3>1
    <3> QED
      BY <1>2, <3>1, <3>2
  <2> QED
    BY <1>1, <1>7, <2>1, <2>2
<1>8. KeepsAllBut(i, new, s)
  BY <1>7 DEF KeepsAllBut
<1>9. \E g : Thins(g, new, s) /\ \A k \in DOMAIN new : g[k] # i
  BY <1>5, <1>6
<1> QED
  BY <1>8, <1>9 DEF new

(* A sequence thins itself, and the empty sequence thins any.              *)
LEMMA ThinsTrivially ==
    ASSUME NEW S, NEW s \in Seq(S)
    PROVE  Thinned(s, s) /\ Thinned(<<>>, s)
<1>1. Thins([k \in DOMAIN s |-> k], s, s)
  BY DEF Thins
<1>2. Thins([k \in {} |-> k], <<>>, s)
  BY DEF Thins
<1> QED
  BY <1>1, <1>2 DEF Thinned

-----------------------------------------------------------------------------
(* What a slot makes of a message, case by case: id arrives in a slot of   *)
(* this mode, wrong tells that the sender's password is not accepted.      *)
IsHandled(mode, id, wrong, newMode, answer) ==
    \/ /\ id = "ID_CONNECTION_REQUEST" /\ mode \in {"UNVERIFIED_SENDER", "REQUESTED_CONNECTION"} /\ wrong
       /\ newMode = "DISCONNECT_ASAP_SILENTLY" /\ answer = <<"ID_INVALID_PASSWORD">>
    \/ /\ id = "ID_CONNECTION_REQUEST" /\ mode \in {"UNVERIFIED_SENDER", "REQUESTED_CONNECTION"} /\ ~wrong
       /\ newMode = "HANDLING_CONNECTION_REQUEST" /\ answer = <<"ID_CONNECTION_REQUEST_ACCEPTED">>
    \/ /\ id = "ID_CONNECTION_REQUEST" /\ mode \notin {"UNVERIFIED_SENDER", "REQUESTED_CONNECTION"}
       /\ newMode = mode /\ answer = <<"ID_CONNECTION_REQUEST_ACCEPTED">>
    \/ /\ id = "ID_CONNECTION_REQUEST_ACCEPTED" /\ mode \in {"HANDLING_CONNECTION_REQUEST", "REQUESTED_CONNECTION"}
       /\ newMode = "CONNECTED" /\ answer = <<"ID_NEW_INCOMING_CONNECTION">>
    \/ /\ id = "ID_NEW_INCOMING_CONNECTION" /\ mode = "HANDLING_CONNECTION_REQUEST"
       /\ newMode = "CONNECTED" /\ answer = <<>>
    \/ /\ id = "ID_INVALID_PASSWORD" /\ mode = "REQUESTED_CONNECTION"
       /\ newMode = "DISCONNECT_ASAP_SILENTLY" /\ answer = <<>>
    \/ /\ id = "ID_DISCONNECTION_NOTIFICATION"
       /\ newMode = "DISCONNECT_ON_NO_ACK" /\ answer = <<>>
    \/ /\ id = "ID_CONNECTION_REQUEST_ACCEPTED" /\ mode \notin {"HANDLING_CONNECTION_REQUEST", "REQUESTED_CONNECTION"}
       /\ newMode = mode /\ answer = <<>>
    \/ /\ id = "ID_NEW_INCOMING_CONNECTION" /\ mode # "HANDLING_CONNECTION_REQUEST"
       /\ newMode = mode /\ answer = <<>>
    \/ /\ id = "ID_INVALID_PASSWORD" /\ mode # "REQUESTED_CONNECTION"
       /\ newMode = mode /\ answer = <<>>

(* Handled follows these cases.                                            *)
LEMMA HandledCases ==
    ASSUME NEW p, NEW q, NEW id \in Unordered \cup Ordered
    PROVE  IsHandled(Mode(p, q), id, <<q, p>> \in WrongPassword,
                     Handled(p, q, id).mode, Handled(p, q, id).answer)
<1> DEFINE mode == Mode(p, q)
<1>1. CASE id = "ID_CONNECTION_REQUEST"
  <2>1. CASE mode \in {"UNVERIFIED_SENDER", "REQUESTED_CONNECTION"}
    <3>1. Handled(p, q, id) = ParseConnectionRequest(p, q)
      BY <1>1, <2>1 DEF Handled
    <3> QED
      BY <1>1, <2>1, <3>1 DEF IsHandled, ParseConnectionRequest
  <2>2. CASE mode \notin {"UNVERIFIED_SENDER", "REQUESTED_CONNECTION"}
    <3>1. Handled(p, q, id) = [mode |-> mode, answer |-> <<"ID_CONNECTION_REQUEST_ACCEPTED">>]
      BY <1>1, <2>2 DEF Handled
    <3> QED
      BY <1>1, <2>2, <3>1 DEF IsHandled
  <2> QED
    BY <2>1, <2>2
<1>2. CASE id = "ID_CONNECTION_REQUEST_ACCEPTED"
  <2>1. CASE mode \in {"HANDLING_CONNECTION_REQUEST", "REQUESTED_CONNECTION"}
    <3>1. Handled(p, q, id) = [mode |-> "CONNECTED", answer |-> <<"ID_NEW_INCOMING_CONNECTION">>]
      BY <1>2, <2>1 DEF Handled
    <3> QED
      BY <1>2, <2>1, <3>1 DEF IsHandled
  <2>2. CASE mode \notin {"HANDLING_CONNECTION_REQUEST", "REQUESTED_CONNECTION"}
    <3>1. Handled(p, q, id) = [mode |-> mode, answer |-> <<>>]
      BY <1>2, <2>2 DEF Handled
    <3> QED
      BY <1>2, <2>2, <3>1 DEF IsHandled
  <2> QED
    BY <2>1, <2>2
<1>3. CASE id = "ID_NEW_INCOMING_CONNECTION"
  <2>1. CASE mode = "HANDLING_CONNECTION_REQUEST"
    <3>1. Handled(p, q, id) = [mode |-> "CONNECTED", answer |-> <<>>]
      BY <1>3, <2>1 DEF Handled
    <3> QED
      BY <1>3, <2>1, <3>1 DEF IsHandled
  <2>2. CASE mode # "HANDLING_CONNECTION_REQUEST"
    <3>1. Handled(p, q, id) = [mode |-> mode, answer |-> <<>>]
      BY <1>3, <2>2 DEF Handled
    <3> QED
      BY <1>3, <2>2, <3>1 DEF IsHandled
  <2> QED
    BY <2>1, <2>2
<1>4. CASE id = "ID_INVALID_PASSWORD"
  <2>1. CASE mode = "REQUESTED_CONNECTION"
    <3>1. Handled(p, q, id) = [mode |-> "DISCONNECT_ASAP_SILENTLY", answer |-> <<>>]
      BY <1>4, <2>1 DEF Handled
    <3> QED
      BY <1>4, <2>1, <3>1 DEF IsHandled
  <2>2. CASE mode # "REQUESTED_CONNECTION"
    <3>1. Handled(p, q, id) = [mode |-> mode, answer |-> <<>>]
      BY <1>4, <2>2 DEF Handled
    <3> QED
      BY <1>4, <2>2, <3>1 DEF IsHandled
  <2> QED
    BY <2>1, <2>2
<1>5. CASE id = "ID_DISCONNECTION_NOTIFICATION"
  <2>1. Handled(p, q, id) = [mode |-> "DISCONNECT_ON_NO_ACK", answer |-> <<>>]
    BY <1>5 DEF Handled
  <2> QED
    BY <1>5, <2>1 DEF IsHandled
<1> QED
  BY <1>1, <1>2, <1>3, <1>4, <1>5 DEF Unordered, Ordered

(* Its modes are connect modes and its answers are messages.               *)
LEMMA IsHandledType ==
    ASSUME NEW mode \in ConnectMode, NEW id, NEW wrong, NEW newMode, NEW answer,
           IsHandled(mode, id, wrong, newMode, answer)
    PROVE  /\ newMode \in ConnectMode
           /\ answer = <<>> \/ \E a \in {"ID_INVALID_PASSWORD", "ID_CONNECTION_REQUEST_ACCEPTED",
                                         "ID_NEW_INCOMING_CONNECTION"} : answer = <<a>>
           /\ answer \in Seq(Unordered \cup Ordered)
<1>1. newMode \in ConnectMode
  BY DEF IsHandled, ConnectMode, HalfOpen, Disconnecting
<1>2. answer = <<>> \/ \E a \in {"ID_INVALID_PASSWORD", "ID_CONNECTION_REQUEST_ACCEPTED",
                                 "ID_NEW_INCOMING_CONNECTION"} : answer = <<a>>
  BY DEF IsHandled
<1>3. answer \in Seq(Unordered \cup Ordered)
  <2>1. CASE answer = <<>>
    BY <2>1
  <2>2. ASSUME NEW a \in Unordered \cup Ordered, answer = <<a>>
        PROVE  answer \in Seq(Unordered \cup Ordered)
    BY <2>2
  <2> QED
    BY <1>2, <2>1, <2>2 DEF Unordered, Ordered
<1> QED
  BY <1>1, <1>2, <1>3

-----------------------------------------------------------------------------
(* The type invariant.                                                     *)

(* The fields of a slot.                                                   *)
LEMMA SlotType ==
    ASSUME NEW slot
    PROVE  slot \in RemoteSystemStruct <=>
             /\ slot = [connectMode |-> slot.connectMode, guid |-> slot.guid,
                        weInitiatedTheConnection |-> slot.weInitiatedTheConnection,
                        session |-> slot.session, heard |-> slot.heard]
             /\ slot.connectMode \in ConnectMode /\ slot.guid \in Nat
             /\ slot.weInitiatedTheConnection \in BOOLEAN
             /\ slot.session \in 0 .. MaxSessions /\ slot.heard \in 0 .. MaxSessions
             /\ slot.connectMode /= "INACTIVE" => slot.session > 0
BY DEF RemoteSystemStruct

(* Slots as the actions make them.                                         *)
LEMMA FreedType ==
    ASSUME NEW slot \in RemoteSystemStruct
    PROVE  /\ [Inactive EXCEPT !.session = slot.session] \in RemoteSystemStruct
           /\ [Inactive EXCEPT !.session = slot.session] =
                [connectMode |-> "INACTIVE", guid |-> 0, weInitiatedTheConnection |-> FALSE,
                 session |-> slot.session, heard |-> 0]
           /\ Inactive \in RemoteSystemStruct
<1>1. MaxSessions \in Nat /\ slot.session \in 0 .. MaxSessions /\ 0 \in 0 .. MaxSessions
  BY PeerAssumption DEF RemoteSystemStruct
<1>2. "INACTIVE" \in ConnectMode
  BY DEF ConnectMode
<1>3. /\ Inactive \in RemoteSystemStruct
      /\ Inactive.connectMode = "INACTIVE" /\ Inactive.guid = 0
      /\ Inactive.weInitiatedTheConnection = FALSE /\ Inactive.heard = 0
  BY <1>1, <1>2 DEF RemoteSystemStruct, Inactive
<1>4. ASSUME NEW r \in RemoteSystemStruct, r.connectMode = "INACTIVE", NEW n \in 0 .. MaxSessions
      PROVE  /\ [r EXCEPT !.session = n] \in RemoteSystemStruct
             /\ [r EXCEPT !.session = n] =
                  [connectMode |-> r.connectMode, guid |-> r.guid,
                   weInitiatedTheConnection |-> r.weInitiatedTheConnection,
                   session |-> n, heard |-> r.heard]
  BY <1>4 DEF RemoteSystemStruct
<1>5. [Inactive EXCEPT !.session = slot.session] \in RemoteSystemStruct
  BY <1>1, <1>3, <1>4
<1>6. [Inactive EXCEPT !.session = slot.session] =
        [connectMode |-> Inactive.connectMode, guid |-> Inactive.guid,
         weInitiatedTheConnection |-> Inactive.weInitiatedTheConnection,
         session |-> slot.session, heard |-> Inactive.heard]
  BY <1>1, <1>3, <1>4
<1> QED
  BY <1>3, <1>5, <1>6

(* An active slot that only changes its mode, whom it heard and who began. *)
LEMMA ModeType ==
    ASSUME NEW slot \in RemoteSystemStruct, slot.connectMode /= "INACTIVE",
           NEW mode \in ConnectMode, NEW heard \in 0 .. MaxSessions
    PROVE  /\ [slot EXCEPT !.connectMode = mode] \in RemoteSystemStruct
           /\ [slot EXCEPT !.connectMode = mode, !.heard = heard] \in RemoteSystemStruct
           /\ [slot EXCEPT !.connectMode = mode, !.weInitiatedTheConnection = TRUE] \in RemoteSystemStruct
BY DEF RemoteSystemStruct

(* An assigned slot.                                                       *)
LEMMA AssignedType ==
    ASSUME NEW p, NEW q, remoteSystemList[p][q] \in RemoteSystemStruct,
           remoteSystemList[p][q].session < MaxSessions, NEW guid \in Nat
    PROVE  /\ Assigned(p, q, guid) \in RemoteSystemStruct
           /\ Assigned(p, q, guid) = [connectMode |-> "UNVERIFIED_SENDER", guid |-> guid,
                                      weInitiatedTheConnection |-> FALSE,
                                      session |-> remoteSystemList[p][q].session + 1, heard |-> 0]
<1> DEFINE n == remoteSystemList[p][q].session
<1>1. n \in Nat /\ MaxSessions \in Nat /\ n < MaxSessions
  BY PeerAssumption DEF RemoteSystemStruct
<1>2. Assigned(p, q, guid) = [Inactive EXCEPT !.connectMode = "UNVERIFIED_SENDER", !.guid = guid,
                                              !.session = n + 1]
  BY DEF Assigned
<1>3. "UNVERIFIED_SENDER" \in ConnectMode
  BY DEF ConnectMode, HalfOpen
<1> HIDE DEF n
<1>4. n + 1 \in 0 .. MaxSessions /\ n + 1 > 0 /\ 0 \in 0 .. MaxSessions
  BY <1>1
<1>5. /\ Inactive \in RemoteSystemStruct
      /\ Inactive.weInitiatedTheConnection = FALSE /\ Inactive.heard = 0
  BY FreedType DEF Inactive
<1>6. ASSUME NEW r \in RemoteSystemStruct, NEW mode \in ConnectMode, NEW k \in 0 .. MaxSessions, k > 0
      PROVE  /\ [r EXCEPT !.connectMode = mode, !.guid = guid, !.session = k] \in RemoteSystemStruct
             /\ [r EXCEPT !.connectMode = mode, !.guid = guid, !.session = k] =
                  [connectMode |-> mode, guid |-> guid,
                   weInitiatedTheConnection |-> r.weInitiatedTheConnection,
                   session |-> k, heard |-> r.heard]
  <2> DEFINE new == [r EXCEPT !.connectMode = mode, !.guid = guid, !.session = k]
  <2>1. new \in [connectMode : ConnectMode, guid : Nat, weInitiatedTheConnection : BOOLEAN,
                 session : 0 .. MaxSessions, heard : 0 .. MaxSessions]
    BY <1>6 DEF RemoteSystemStruct
  <2>2. /\ new.connectMode = mode /\ new.guid = guid /\ new.session = k /\ new.heard = r.heard
        /\ new.weInitiatedTheConnection = r.weInitiatedTheConnection
    BY DEF RemoteSystemStruct
  <2> HIDE DEF new
  <2>3. new = [connectMode |-> mode, guid |-> guid,
               weInitiatedTheConnection |-> r.weInitiatedTheConnection,
               session |-> k, heard |-> r.heard]
    BY <2>1, <2>2
  <2>4. new \in RemoteSystemStruct
    BY <1>6, <2>1, <2>2 DEF RemoteSystemStruct
  <2> QED
    BY <2>3, <2>4 DEF new
<1> DEFINE new == [Inactive EXCEPT !.connectMode = "UNVERIFIED_SENDER", !.guid = guid, !.session = n + 1]
<1>7. /\ new \in RemoteSystemStruct
      /\ new = [connectMode |-> "UNVERIFIED_SENDER", guid |-> guid,
                weInitiatedTheConnection |-> Inactive.weInitiatedTheConnection,
                session |-> n + 1, heard |-> Inactive.heard]
  BY <1>3, <1>4, <1>5, <1>6
<1> HIDE DEF new
<1> QED
  BY <1>2, <1>5, <1>7 DEF n, new

(* What SendImmediate adds to the messages on their way.                   *)
LEMMA SentType ==
    ASSUME NEW p, NEW q, remoteSystemList[p][q] \in RemoteSystemStruct, IsActive(p, q),
           NEW ids \in Seq(Unordered \cup Ordered)
    PROVE  Sent(p, q, ids) \in Seq(OnlineMessage)
<1>1. remoteSystemList[p][q].session \in 1 .. MaxSessions
  BY PeerAssumption DEF RemoteSystemStruct, IsActive, Mode
<1>2. Len(ids) \in Nat /\ \A i \in 1 .. Len(ids) : ids[i] \in Unordered \cup Ordered
  OBVIOUS
<1>3. \A i \in 1 .. Len(ids) :
         [id |-> ids[i], session |-> remoteSystemList[p][q].session] \in OnlineMessage
  BY <1>1, <1>2 DEF OnlineMessage
<1>4. [i \in 1 .. Len(ids) |-> [id |-> ids[i], session |-> remoteSystemList[p][q].session]]
        \in Seq(OnlineMessage)
  BY <1>2, <1>3, IsASeq
<1>5. <<>> \in Seq(OnlineMessage)
  OBVIOUS
<1> QED
  BY <1>4, <1>5 DEF Sent

(* Freeing a slot keeps the tables well typed.                             *)
LEMMA FreeSlotType ==
    ASSUME TypeOK, NEW p \in Peer, NEW q \in Peer, FreeSlot(p, q)
    PROVE  /\ remoteSystemList' \in [Peer -> [Peer -> RemoteSystemStruct]]
           /\ online' \in [Peer -> [Peer -> Seq(OnlineMessage)]]
<1>1. remoteSystemList \in [Peer -> [Peer -> RemoteSystemStruct]]
      /\ online \in [Peer -> [Peer -> Seq(OnlineMessage)]]
  BY DEF TypeOK
<1>2. remoteSystemList[p][q] \in RemoteSystemStruct
  BY <1>1
<1>3. remoteSystemList' \in [Peer -> [Peer -> RemoteSystemStruct]]
  BY <1>1, <1>2, FreedType, SetEntry DEF FreeSlot
<1>4. <<>> \in Seq(OnlineMessage)
  OBVIOUS
<1>5. [online EXCEPT ![p][q] = <<>>] \in [Peer -> [Peer -> Seq(OnlineMessage)]]
  BY <1>1, <1>4, SetEntry
<1> QED
  BY <1>1, <1>3, <1>5 DEF FreeSlot

(* Telling the user keeps the history well typed.                          *)
LEMMA ToldType ==
    ASSUME TypeOK, NEW p \in Peer, NEW q \in Peer, NEW id, NEW isConnected \in BOOLEAN,
           Told(p, q, id, isConnected)
    PROVE  /\ connected' \in [Peer -> [Peer -> BOOLEAN]]
           /\ asked' \in [Peer -> [Peer -> BOOLEAN]]
           /\ unasked' \in BOOLEAN
<1>1. connected \in [Peer -> [Peer -> BOOLEAN]] /\ asked \in [Peer -> [Peer -> BOOLEAN]]
  BY DEF TypeOK
<1>2. connected' \in [Peer -> [Peer -> BOOLEAN]]
  BY <1>1 DEF Told
<1>3. asked' \in [Peer -> [Peer -> BOOLEAN]]
  BY <1>1 DEF Told
<1>4. unasked' \in BOOLEAN
  BY DEF Told
<1> QED
  BY <1>2, <1>3, <1>4

(* A datagram sent is one.                                                 *)
LEMMA SendToType ==
    ASSUME TypeOK, NEW p \in Peer, NEW q \in Peer, NEW id \in OfflineId, SendTo(p, q, id)
    PROVE  offline' \subseteq [from : Peer, to : Peer, id : OfflineId, guid : Nat]
<1>1. myGuid[p] \in Nat /\ offline \subseteq [from : Peer, to : Peer, id : OfflineId, guid : Nat]
  BY DEF TypeOK
<1> QED
  BY <1>1 DEF SendTo

(* The steps of the user's threads.                                        *)
LEMMA UserTypes ==
    ASSUME TypeOK, NEW p \in Peer, NEW q \in Peer,
           \/ Connect(p, q)
           \/ CancelConnectionAttempt(p, q)
           \/ \E notify \in BOOLEAN : CloseConnection(p, q, notify)
    PROVE  TypeOK'
<1>0. MaxConnects \in Nat /\ MaxUpsets \in Nat
  BY PeerAssumption
<1>1. CASE Connect(p, q)
  <2>1. requestedConnectionQueue' \in [Peer -> SUBSET Peer]
    BY <1>1 DEF TypeOK, Connect
  <2>2. asked' \in [Peer -> [Peer -> BOOLEAN]]
    BY <1>1 DEF TypeOK, Connect
  <2>3. connects' \in 0 .. MaxConnects
    BY <1>0, <1>1 DEF TypeOK, Connect
  <2> QED
    BY <1>1, <2>1, <2>2, <2>3 DEF TypeOK, Connect, network
<1>2. CASE CancelConnectionAttempt(p, q)
  <2>1. requestedConnectionQueue' \in [Peer -> SUBSET Peer]
    BY <1>2 DEF TypeOK, CancelConnectionAttempt, RemoveRequest
  <2>2. asked' \in [Peer -> [Peer -> BOOLEAN]]
    BY <1>2 DEF TypeOK, CancelConnectionAttempt
  <2>3. upsets' \in 0 .. MaxUpsets
    BY <1>0, <1>2 DEF TypeOK, CancelConnectionAttempt
  <2> QED
    BY <1>2, <2>1, <2>2, <2>3 DEF TypeOK, CancelConnectionAttempt, network
<1>3. ASSUME NEW notify \in BOOLEAN, CloseConnection(p, q, notify) PROVE TypeOK'
  <2>1. bufferedCommands' \in [Peer -> Seq([notify : BOOLEAN, target : Peer])]
    <3>1. [notify |-> notify, target |-> q] \in [notify : BOOLEAN, target : Peer]
      OBVIOUS
    <3>2. bufferedCommands \in [Peer -> Seq([notify : BOOLEAN, target : Peer])]
      BY DEF TypeOK
    <3>3. Append(bufferedCommands[p], [notify |-> notify, target |-> q])
             \in Seq([notify : BOOLEAN, target : Peer])
      BY <3>1, <3>2, SeqBasics
    <3> QED
      BY <1>3, <3>2, <3>3 DEF CloseConnection
  <2>2. /\ connected' \in [Peer -> [Peer -> BOOLEAN]]
        /\ asked' \in [Peer -> [Peer -> BOOLEAN]]
        /\ unasked' \in BOOLEAN
    <3>1. CASE Told(p, q, "ID_CONNECTION_LOST", FALSE)
      BY <3>1, ToldType
    <3>2. CASE UNCHANGED history
      BY <3>2 DEF TypeOK, history
    <3> QED
      BY <1>3, <3>1, <3>2 DEF CloseConnection
  <2>3. upsets' \in 0 .. MaxUpsets
    BY <1>0, <1>3 DEF TypeOK, CloseConnection
  <2> QED
    BY <1>3, <2>1, <2>2, <2>3 DEF TypeOK, CloseConnection, network
<1> QED
  BY <1>1, <1>2, <1>3

(* The steps that only send a datagram.                                    *)
LEMMA SendingTypes ==
    ASSUME TypeOK, NEW p \in Peer, NEW q \in Peer,
           \/ NextRequest(p, q) \/ ReceiveWhileBanned(p, q)
           \/ ReceiveRequest1(p, q) \/ ReceiveReply1(p, q)
    PROVE  TypeOK' /\ UNCHANGED <<queues, online, myGuid, history, stale, bounds>>
<1>1. \E id \in OfflineId : SendTo(p, q, id)
  BY DEF NextRequest, ReceiveWhileBanned, ReceiveRequest1, ReceiveReply1, OfflineId, Refusal
<1>2. UNCHANGED <<queues, online, myGuid, history, stale, bounds>>
  BY DEF NextRequest, ReceiveWhileBanned, ReceiveRequest1, ReceiveReply1
<1>3. offline' \subseteq [from : Peer, to : Peer, id : OfflineId, guid : Nat]
  BY <1>1, SendToType
<1> QED
  BY <1>2, <1>3 DEF TypeOK, queues, history, bounds

(* The steps that end a request.                                           *)
LEMMA EndingTypes ==
    ASSUME TypeOK, NEW p \in Peer, NEW q \in Peer, LastRequest(p, q) \/ ReceiveRefusal(p, q)
    PROVE  TypeOK'
<1>1. RemoveRequest(p, q) /\ UNCHANGED <<remoteSystemList, bufferedCommands, banList, network, stale, bounds>>
  BY DEF LastRequest, ReceiveRefusal
<1>2. \E id : Told(p, q, id, connected[p][q])
  BY DEF LastRequest, ReceiveRefusal
<1>3. connected[p][q] \in BOOLEAN
  BY DEF TypeOK
<1>4. /\ connected' \in [Peer -> [Peer -> BOOLEAN]]
      /\ asked' \in [Peer -> [Peer -> BOOLEAN]]
      /\ unasked' \in BOOLEAN
  BY <1>2, <1>3, ToldType
<1>5. requestedConnectionQueue' \in [Peer -> SUBSET Peer]
  BY <1>1 DEF TypeOK, RemoveRequest
<1> QED
  BY <1>1, <1>4, <1>5 DEF TypeOK, network, bounds

(* RunCommand.                                                             *)
LEMMA CommandTypes ==
    ASSUME TypeOK, NEW p \in Peer, RunCommand(p)
    PROVE  TypeOK' /\ Head(bufferedCommands[p]).target \in Peer
<1> DEFINE c == Head(bufferedCommands[p])
           q == c.target
           Command == [notify : BOOLEAN, target : Peer]
<1>1. bufferedCommands \in [Peer -> Seq(Command)] /\ bufferedCommands[p] # <<>>
  BY DEF TypeOK, RunCommand
<1>2. c \in Command /\ Tail(bufferedCommands[p]) \in Seq(Command)
  BY <1>1, SeqBasics
<1>3. q \in Peer
  BY <1>2
<1>4. bufferedCommands' \in [Peer -> Seq(Command)]
  BY <1>1, <1>2 DEF RunCommand
<1>5. UNCHANGED <<requestedConnectionQueue, banList, offline, myGuid, unasked, stale, bounds>>
  BY DEF RunCommand
<1>6. /\ remoteSystemList \in [Peer -> [Peer -> RemoteSystemStruct]]
      /\ online \in [Peer -> [Peer -> Seq(OnlineMessage)]]
      /\ connected \in [Peer -> [Peer -> BOOLEAN]] /\ asked \in [Peer -> [Peer -> BOOLEAN]]
  BY DEF TypeOK
<1>7. \/ UNCHANGED <<remoteSystemList, online, connected, asked>>
      \/ /\ IsActive(p, q)
         /\ online' = [online EXCEPT ![p][q] = @ \o Sent(p, q, <<"ID_DISCONNECTION_NOTIFICATION">>)]
         /\ remoteSystemList' = [remoteSystemList EXCEPT ![p][q].connectMode = "DISCONNECT_ASAP"]
         /\ asked' = [asked EXCEPT ![p][q] = @ /\ Requesting(p, q)]
         /\ UNCHANGED connected
      \/ /\ FreeSlot(p, q)
         /\ connected' = [connected EXCEPT ![p][q] = FALSE]
         /\ asked' = [asked EXCEPT ![p][q] = @ /\ Requesting(p, q)]
  BY DEF RunCommand
<1> HIDE DEF c, q
<1>8. /\ remoteSystemList' \in [Peer -> [Peer -> RemoteSystemStruct]]
      /\ online' \in [Peer -> [Peer -> Seq(OnlineMessage)]]
  <2>1. CASE UNCHANGED <<remoteSystemList, online, connected, asked>>
    BY <1>6, <2>1
  <2>2. CASE FreeSlot(p, q)
    BY <1>3, <2>2, FreeSlotType
  <2>3. CASE /\ IsActive(p, q)
             /\ online' = [online EXCEPT ![p][q] = @ \o Sent(p, q, <<"ID_DISCONNECTION_NOTIFICATION">>)]
             /\ remoteSystemList' = [remoteSystemList EXCEPT ![p][q].connectMode = "DISCONNECT_ASAP"]
    <3>1. remoteSystemList[p][q] \in RemoteSystemStruct /\ online[p][q] \in Seq(OnlineMessage)
      BY <1>3, <1>6
    <3>2. <<"ID_DISCONNECTION_NOTIFICATION">> \in Seq(Unordered \cup Ordered)
      BY DEF Ordered
    <3>3. Sent(p, q, <<"ID_DISCONNECTION_NOTIFICATION">>) \in Seq(OnlineMessage)
      BY <2>3, <3>1, <3>2, SentType
    <3>4. online[p][q] \o Sent(p, q, <<"ID_DISCONNECTION_NOTIFICATION">>) \in Seq(OnlineMessage)
      BY <3>1, <3>3
    <3>5. online' \in [Peer -> [Peer -> Seq(OnlineMessage)]]
      BY <1>3, <1>6, <2>3, <3>4, SetEntry
    <3>6. "DISCONNECT_ASAP" \in ConnectMode /\ remoteSystemList[p][q].connectMode # "INACTIVE"
          /\ 0 \in 0 .. MaxSessions
      BY <2>3, PeerAssumption DEF ConnectMode, Disconnecting, IsActive, Mode
    <3>7. [remoteSystemList[p][q] EXCEPT !.connectMode = "DISCONNECT_ASAP"] \in RemoteSystemStruct
      BY <3>1, <3>6, ModeType
    <3>8. remoteSystemList' \in [Peer -> [Peer -> RemoteSystemStruct]]
      BY <1>3, <1>6, <2>3, <3>7, SetEntry
    <3> QED
      BY <3>5, <3>8
  <2> QED
    BY <1>7, <2>1, <2>2, <2>3
<1>9. connected' \in [Peer -> [Peer -> BOOLEAN]] /\ asked' \in [Peer -> [Peer -> BOOLEAN]]
  <2>1. connected' \in [Peer -> [Peer -> BOOLEAN]]
    <3>1. connected' = connected \/ connected' = [connected EXCEPT ![p][q] = FALSE]
      BY <1>7
    <3>2. [connected EXCEPT ![p][q] = FALSE] \in [Peer -> [Peer -> BOOLEAN]]
      BY <1>3, <1>6, SetEntry
    <3> QED
      BY <1>6, <3>1, <3>2
  <2>2. asked' = asked \/ asked' = [asked EXCEPT ![p][q] = @ /\ Requesting(p, q)]
    BY <1>7
  <2>3. (asked[p][q] /\ Requesting(p, q)) \in BOOLEAN
    OBVIOUS
  <2>4. [asked EXCEPT ![p][q] = asked[p][q] /\ Requesting(p, q)] \in [Peer -> [Peer -> BOOLEAN]]
    BY <1>3, <1>6, <2>3, SetEntry
  <2> QED
    BY <1>6, <2>1, <2>2, <2>4
<1> QED
  BY <1>3, <1>4, <1>5, <1>8, <1>9 DEF TypeOK, bounds, q, c

(* ReceiveRequest2 assigns a slot or leaves all slots alone.               *)
LEMMA Request2Cases ==
    ASSUME TypeOK, NEW p \in Peer, NEW q \in Peer, ReceiveRequest2(p, q)
    PROVE  /\ \E id \in OfflineId : SendTo(p, q, id)
           /\ UNCHANGED <<requestedConnectionQueue, bufferedCommands, banList,
                          online, myGuid, history, stale, bounds>>
           /\ \/ UNCHANGED remoteSystemList
              \/ /\ ~IsActive(p, q) /\ remoteSystemList[p][q].session < MaxSessions
                 /\ \E guid \in Nat :
                      remoteSystemList' = [remoteSystemList EXCEPT ![p][q] = Assigned(p, q, guid)]
<1>1. PICK m \in offline :
        /\ \/ /\ SendTo(p, q, "ID_OPEN_CONNECTION_REPLY_2")
              /\ UNCHANGED remoteSystemList
           \/ /\ SendTo(p, q, "ID_ALREADY_CONNECTED")
              /\ UNCHANGED remoteSystemList
           \/ /\ SendTo(p, q, "ID_NO_FREE_INCOMING_CONNECTIONS")
              /\ UNCHANGED remoteSystemList
           \/ /\ ~IsActive(p, q)
              /\ SlotIsFree(p) => remoteSystemList[p][q].session < MaxSessions
              /\ remoteSystemList' = IF SlotIsFree(p)
                   THEN [remoteSystemList EXCEPT ![p][q] = Assigned(p, q, m.guid)]
                   ELSE remoteSystemList
              /\ SendTo(p, q, "ID_OPEN_CONNECTION_REPLY_2")
        /\ UNCHANGED <<requestedConnectionQueue, bufferedCommands, banList,
                       online, myGuid, history, stale, bounds>>
  BY DEF ReceiveRequest2
<1>2. m.guid \in Nat
  BY DEF TypeOK
<1>3. \E id \in OfflineId : SendTo(p, q, id)
  BY <1>1 DEF OfflineId, Refusal
<1>4. \/ UNCHANGED remoteSystemList
      \/ /\ ~IsActive(p, q) /\ remoteSystemList[p][q].session < MaxSessions
         /\ \E guid \in Nat :
              remoteSystemList' = [remoteSystemList EXCEPT ![p][q] = Assigned(p, q, guid)]
  BY <1>1, <1>2
<1> QED
  BY <1>1, <1>3, <1>4

(* It keeps the types.                                                     *)
LEMMA Request2Types ==
    ASSUME TypeOK, NEW p \in Peer, NEW q \in Peer, ReceiveRequest2(p, q)
    PROVE  TypeOK'
<1>1. remoteSystemList \in [Peer -> [Peer -> RemoteSystemStruct]]
  BY DEF TypeOK
<1>2. remoteSystemList' \in [Peer -> [Peer -> RemoteSystemStruct]]
  <2>1. CASE UNCHANGED remoteSystemList
    BY <1>1, <2>1
  <2>2. ASSUME NEW guid \in Nat, remoteSystemList[p][q].session < MaxSessions,
               remoteSystemList' = [remoteSystemList EXCEPT ![p][q] = Assigned(p, q, guid)]
        PROVE  remoteSystemList' \in [Peer -> [Peer -> RemoteSystemStruct]]
    <3>1. remoteSystemList[p][q] \in RemoteSystemStruct
      BY <1>1
    <3>2. Assigned(p, q, guid) \in RemoteSystemStruct
      BY <2>2, <3>1, AssignedType
    <3> QED
      BY <1>1, <2>2, <3>2, SetEntry
  <2> QED
    BY <2>1, <2>2, Request2Cases
<1>3. offline' \subseteq [from : Peer, to : Peer, id : OfflineId, guid : Nat]
  BY Request2Cases, SendToType
<1>4. UNCHANGED <<requestedConnectionQueue, bufferedCommands, banList,
                  online, myGuid, history, stale, bounds>>
  BY Request2Cases
<1> QED
  BY <1>2, <1>3, <1>4 DEF TypeOK, history, bounds

(* What ReceiveReply2 does to the slot it uses: the slot is active, or has *)
(* just been assigned.                                                     *)
Initiated(slot) == [slot EXCEPT !.connectMode = "REQUESTED_CONNECTION", !.weInitiatedTheConnection = TRUE]
Request(slot) == [id |-> "ID_CONNECTION_REQUEST", session |-> slot.session]

(* ReceiveReply2 gives the attempt up, or initiates.                       *)
LEMMA Reply2Cases ==
    ASSUME TypeOK, NEW p \in Peer, NEW q \in Peer, ReceiveReply2(p, q)
    PROVE  /\ Requesting(p, q) /\ RemoveRequest(p, q)
           /\ UNCHANGED <<bufferedCommands, banList, offline, myGuid, stale, bounds>>
           /\ \/ /\ Told(p, q, "ID_CONNECTION_ATTEMPT_FAILED", connected[p][q])
                 /\ UNCHANGED <<remoteSystemList, online>>
              \/ \E slot \in RemoteSystemStruct :
                   /\ \/ IsActive(p, q) /\ slot = remoteSystemList[p][q]
                      \/ /\ ~IsActive(p, q) /\ remoteSystemList[p][q].session < MaxSessions
                         /\ \E guid \in Nat : slot = Assigned(p, q, guid)
                   /\ slot.connectMode # "INACTIVE"
                   /\ remoteSystemList' = [remoteSystemList EXCEPT ![p][q] = Initiated(slot)]
                   /\ online' = [online EXCEPT ![p][q] = Append(@, Request(slot))]
                   /\ UNCHANGED history
<1>1. PICK m \in offline :
        /\ \/ /\ Told(p, q, "ID_CONNECTION_ATTEMPT_FAILED", connected[p][q])
              /\ UNCHANGED <<remoteSystemList, online>>
           \/ /\ IsActive(p, q) \/ (SlotIsFree(p) /\ remoteSystemList[p][q].session < MaxSessions)
              /\ LET slot == IF IsActive(p, q) THEN remoteSystemList[p][q] ELSE Assigned(p, q, m.guid)
                 IN  /\ remoteSystemList' = [remoteSystemList EXCEPT ![p][q] = Initiated(slot)]
                     /\ online' = [online EXCEPT ![p][q] = Append(@, Request(slot))]
              /\ UNCHANGED history
        /\ Requesting(p, q) /\ RemoveRequest(p, q)
        /\ UNCHANGED <<bufferedCommands, banList, offline, myGuid, stale, bounds>>
  BY DEF ReceiveReply2, Initiated, Request
<1>2. m.guid \in Nat /\ remoteSystemList[p][q] \in RemoteSystemStruct
  BY DEF TypeOK
<1> DEFINE slot == IF IsActive(p, q) THEN remoteSystemList[p][q] ELSE Assigned(p, q, m.guid)
<1>3. ASSUME IsActive(p, q) \/ (SlotIsFree(p) /\ remoteSystemList[p][q].session < MaxSessions)
      PROVE  /\ slot \in RemoteSystemStruct /\ slot.connectMode # "INACTIVE"
             /\ \/ IsActive(p, q) /\ slot = remoteSystemList[p][q]
                \/ /\ ~IsActive(p, q) /\ remoteSystemList[p][q].session < MaxSessions
                   /\ \E guid \in Nat : slot = Assigned(p, q, guid)
  <2>1. CASE IsActive(p, q)
    BY <1>2, <2>1 DEF IsActive, Mode
  <2>2. CASE ~IsActive(p, q)
    <3>1. /\ Assigned(p, q, m.guid) \in RemoteSystemStruct
          /\ Assigned(p, q, m.guid).connectMode = "UNVERIFIED_SENDER"
      BY <1>2, <1>3, <2>2, AssignedType
    <3> QED
      BY <1>2, <1>3, <2>2, <3>1
  <2> QED
    BY <2>1, <2>2
<1> HIDE DEF slot
<1>4. CASE /\ Told(p, q, "ID_CONNECTION_ATTEMPT_FAILED", connected[p][q])
           /\ UNCHANGED <<remoteSystemList, online>>
  BY <1>1, <1>4
<1>5. CASE /\ IsActive(p, q) \/ (SlotIsFree(p) /\ remoteSystemList[p][q].session < MaxSessions)
           /\ remoteSystemList' = [remoteSystemList EXCEPT ![p][q] = Initiated(slot)]
           /\ online' = [online EXCEPT ![p][q] = Append(@, Request(slot))]
           /\ UNCHANGED history
  BY <1>1, <1>3, <1>5
<1> QED
  BY <1>1, <1>4, <1>5 DEF slot

(* It keeps the types.                                                     *)
LEMMA Reply2Types ==
    ASSUME TypeOK, NEW p \in Peer, NEW q \in Peer, ReceiveReply2(p, q)
    PROVE  TypeOK'
<1>1. /\ remoteSystemList \in [Peer -> [Peer -> RemoteSystemStruct]]
      /\ online \in [Peer -> [Peer -> Seq(OnlineMessage)]]
      /\ connected[p][q] \in BOOLEAN
      /\ requestedConnectionQueue \in [Peer -> SUBSET Peer]
  BY DEF TypeOK
<1>2. /\ requestedConnectionQueue' \in [Peer -> SUBSET Peer]
      /\ UNCHANGED <<bufferedCommands, banList, offline, myGuid, stale, bounds>>
  <2>1. /\ RemoveRequest(p, q)
        /\ UNCHANGED <<bufferedCommands, banList, offline, myGuid, stale, bounds>>
    BY Reply2Cases
  <2>2. requestedConnectionQueue' \in [Peer -> SUBSET Peer]
    BY <1>1, <2>1 DEF RemoveRequest
  <2> QED
    BY <2>1, <2>2
<1>3. CASE /\ Told(p, q, "ID_CONNECTION_ATTEMPT_FAILED", connected[p][q])
           /\ UNCHANGED <<remoteSystemList, online>>
  <2>1. /\ connected' \in [Peer -> [Peer -> BOOLEAN]]
        /\ asked' \in [Peer -> [Peer -> BOOLEAN]]
        /\ unasked' \in BOOLEAN
    BY <1>1, <1>3, ToldType
  <2> QED
    BY <1>2, <1>3, <2>1 DEF TypeOK, bounds
<1>4. ASSUME NEW slot \in RemoteSystemStruct, slot.connectMode # "INACTIVE",
             remoteSystemList' = [remoteSystemList EXCEPT ![p][q] = Initiated(slot)],
             online' = [online EXCEPT ![p][q] = Append(@, Request(slot))],
             UNCHANGED history
      PROVE  TypeOK'
  <2>1. Initiated(slot) \in RemoteSystemStruct
    <3>1. "REQUESTED_CONNECTION" \in ConnectMode /\ 0 \in 0 .. MaxSessions
      BY PeerAssumption DEF ConnectMode, HalfOpen
    <3> QED
      BY <1>4, <3>1, ModeType DEF Initiated
  <2>2. Request(slot) \in OnlineMessage
    <3>1. slot.session \in 1 .. MaxSessions
      BY <1>4, PeerAssumption DEF RemoteSystemStruct
    <3> QED
      BY <3>1 DEF Request, OnlineMessage, Unordered
  <2>3. Append(online[p][q], Request(slot)) \in Seq(OnlineMessage)
    BY <1>1, <2>2, SeqBasics
  <2>4. remoteSystemList' \in [Peer -> [Peer -> RemoteSystemStruct]]
    BY <1>1, <1>4, <2>1, SetEntry
  <2>5. online' \in [Peer -> [Peer -> Seq(OnlineMessage)]]
    BY <1>1, <1>4, <2>3, SetEntry
  <2> QED
    BY <1>2, <1>4, <2>4, <2>5 DEF TypeOK, bounds, history
<1> QED
  BY <1>3, <1>4, Reply2Cases

(* The three things Receive does with message i of q: it is taken for a    *)
(* duplicate, for nonsense, or handled.                                    *)
TakesDuplicate(p, q, i) ==
    /\ remoteSystemList[p][q].heard \notin {0, online[q][p][i].session}
    /\ online' = [online EXCEPT ![q][p] = RemoveAt(@, i)]
    /\ UNCHANGED <<remoteSystemList, banList, history, stale>>

TakesNonsense(p, q, i) ==
    /\ remoteSystemList[p][q].heard \in {0, online[q][p][i].session}
    /\ Mode(p, q) = "UNVERIFIED_SENDER" /\ online[q][p][i].id /= "ID_CONNECTION_REQUEST"
    /\ remoteSystemList' = [remoteSystemList EXCEPT ![p][q] =
         [Inactive EXCEPT !.session = remoteSystemList[p][q].session]]
    /\ online' = [[online EXCEPT ![q][p] = RemoveAt(@, i)] EXCEPT ![p][q] = <<>>]
    /\ banList' = [banList EXCEPT ![p] = @ \cup {q}]
    /\ stale' = (stale \/ ~IsOfSession(q, p, online[q][p][i].session))
    /\ UNCHANGED history

TakesHandled(p, q, i) ==
    LET m == online[q][p][i]
        h == Handled(p, q, m.id)
    IN  /\ remoteSystemList[p][q].heard \in {0, m.session}
        /\ Mode(p, q) = "UNVERIFIED_SENDER" => m.id = "ID_CONNECTION_REQUEST"
        /\ remoteSystemList' = [remoteSystemList EXCEPT
              ![p][q].connectMode = h.mode, ![p][q].heard = m.session]
        /\ online' = [[online EXCEPT ![q][p] = RemoveAt(@, i)] EXCEPT ![p][q] = @ \o Sent(p, q, h.answer)]
        /\ IF IsShown(p, q, m.id)
             THEN Told(p, q, m.id, m.id /= "ID_INVALID_PASSWORD")
             ELSE UNCHANGED history
        /\ stale' = (stale \/ ~IsOfSession(q, p, m.session))
        /\ UNCHANGED banList

(* Receive is one of them.                                                 *)
LEMMA ReceiveCases ==
    ASSUME TypeOK, NEW p \in Peer, NEW q \in Peer, Receive(p, q)
    PROVE  /\ IsActive(p, q) /\ q \notin banList[p]
           /\ \E i \in DOMAIN online[q][p] :
                /\ IsNext(online[q][p], i)
                /\ TakesDuplicate(p, q, i) \/ TakesNonsense(p, q, i) \/ TakesHandled(p, q, i)
           /\ UNCHANGED <<requestedConnectionQueue, bufferedCommands, offline, myGuid, bounds>>
<1>1. PICK i \in DOMAIN online[q][p] :
        /\ IsNext(online[q][p], i) /\ IsActive(p, q) /\ q \notin banList[p]
        /\ TakesDuplicate(p, q, i) \/ TakesNonsense(p, q, i) \/ TakesHandled(p, q, i)
        /\ UNCHANGED <<requestedConnectionQueue, bufferedCommands, offline, myGuid, bounds>>
  BY DEF Receive, TakesDuplicate, TakesNonsense, TakesHandled
<1> QED
  BY <1>1

(* It keeps the types.                                                     *)
LEMMA ReceiveTypes ==
    ASSUME TypeOK, NEW p \in Peer, NEW q \in Peer, p # q, Receive(p, q)
    PROVE  TypeOK'
<1>1. /\ remoteSystemList \in [Peer -> [Peer -> RemoteSystemStruct]]
      /\ online \in [Peer -> [Peer -> Seq(OnlineMessage)]]
      /\ banList \in [Peer -> SUBSET Peer]
      /\ stale \in BOOLEAN
  BY DEF TypeOK
<1>2. PICK i \in DOMAIN online[q][p] :
        TakesDuplicate(p, q, i) \/ TakesNonsense(p, q, i) \/ TakesHandled(p, q, i)
  BY ReceiveCases
<1>3. IsActive(p, q) /\ UNCHANGED <<requestedConnectionQueue, bufferedCommands, offline, myGuid, bounds>>
  BY ReceiveCases
<1> DEFINE rest == [online EXCEPT ![q][p] = RemoveAt(@, i)]
<1>4. rest \in [Peer -> [Peer -> Seq(OnlineMessage)]]
  <2>1. online[q][p] \in Seq(OnlineMessage)
    BY <1>1
  <2>2. RemoveAt(online[q][p], i) \in Seq(OnlineMessage)
    BY <2>1, RemoveAtSeq
  <2> QED
    BY <1>1, <2>2, SetEntry
<1>5. remoteSystemList[p][q] \in RemoteSystemStruct
  BY <1>1
<1>6. CASE TakesDuplicate(p, q, i)
  BY <1>3, <1>4, <1>6 DEF TakesDuplicate, TypeOK, history, bounds
<1>7. CASE TakesNonsense(p, q, i)
  <2>1. remoteSystemList' \in [Peer -> [Peer -> RemoteSystemStruct]]
    BY <1>1, <1>5, <1>7, FreedType, SetEntry DEF TakesNonsense
  <2>2. online' \in [Peer -> [Peer -> Seq(OnlineMessage)]]
    <3>1. online' = [rest EXCEPT ![p][q] = <<>>] /\ <<>> \in Seq(OnlineMessage)
      BY <1>7 DEF TakesNonsense
    <3> HIDE DEF rest
    <3> QED
      BY <1>4, <3>1, SetEntry
  <2>3. banList' \in [Peer -> SUBSET Peer]
    BY <1>1, <1>7 DEF TakesNonsense
  <2>4. stale' \in BOOLEAN
    BY <1>7 DEF TakesNonsense
  <2> QED
    BY <1>3, <1>7, <2>1, <2>2, <2>3, <2>4 DEF TakesNonsense, TypeOK, history, bounds
<1>8. CASE TakesHandled(p, q, i)
  <2> DEFINE m == online[q][p][i]
             h == Handled(p, q, m.id)
  <2>1. m.id \in Unordered \cup Ordered /\ m.session \in 1 .. MaxSessions
    <3>1. online[q][p] \in Seq(OnlineMessage)
      BY <1>1
    <3>2. m \in OnlineMessage
      BY <3>1
    <3> QED
      BY <3>2 DEF OnlineMessage
  <2> HIDE DEF m
  <2>2. IsHandled(Mode(p, q), m.id, <<q, p>> \in WrongPassword, h.mode, h.answer)
    BY <2>1, HandledCases
  <2> HIDE DEF h
  <2>3. Mode(p, q) \in ConnectMode
    BY <1>5 DEF RemoteSystemStruct, Mode
  <2>4. h.mode \in ConnectMode /\ h.answer \in Seq(Unordered \cup Ordered)
    BY <2>2, <2>3, IsHandledType
  <2>5. remoteSystemList' \in [Peer -> [Peer -> RemoteSystemStruct]]
    <3>1. m.session \in 0 .. MaxSessions /\ remoteSystemList[p][q].connectMode # "INACTIVE"
      BY <1>3, <2>1, PeerAssumption DEF IsActive, Mode
    <3>2. [remoteSystemList[p][q] EXCEPT !.connectMode = h.mode, !.heard = m.session] \in RemoteSystemStruct
      BY <1>5, <2>4, <3>1, ModeType
    <3>3. remoteSystemList' = [remoteSystemList EXCEPT ![p][q] =
             [remoteSystemList[p][q] EXCEPT !.connectMode = h.mode, !.heard = m.session]]
      BY <1>1, <1>8 DEF TakesHandled, m, h
    <3> QED
      BY <1>1, <3>2, <3>3, SetEntry
  <2>6. online' \in [Peer -> [Peer -> Seq(OnlineMessage)]]
    <3>1. online' = [rest EXCEPT ![p][q] = @ \o Sent(p, q, h.answer)]
      BY <1>8 DEF TakesHandled, m, h
    <3>2. Sent(p, q, h.answer) \in Seq(OnlineMessage)
      BY <1>3, <1>5, <2>4, SentType
    <3> HIDE DEF rest
    <3>3. rest[p][q] \in Seq(OnlineMessage)
      BY <1>4
    <3>4. rest[p][q] \o Sent(p, q, h.answer) \in Seq(OnlineMessage)
      BY <3>2, <3>3
    <3>5. [rest EXCEPT ![p][q] = rest[p][q] \o Sent(p, q, h.answer)] \in [Peer -> [Peer -> Seq(OnlineMessage)]]
      BY <1>4, <3>4, SetEntry
    <3> QED
      BY <3>1, <3>5
  <2>7. /\ connected' \in [Peer -> [Peer -> BOOLEAN]]
        /\ asked' \in [Peer -> [Peer -> BOOLEAN]]
        /\ unasked' \in BOOLEAN
    <3>1. CASE Told(p, q, m.id, m.id /= "ID_INVALID_PASSWORD")
      <4>1. (m.id /= "ID_INVALID_PASSWORD") \in BOOLEAN
        OBVIOUS
      <4> QED
        BY <3>1, <4>1, ToldType
    <3>2. CASE UNCHANGED history
      BY <3>2 DEF TypeOK, history
    <3> QED
      BY <1>8, <3>1, <3>2 DEF TakesHandled, m
  <2>8. stale' \in BOOLEAN /\ UNCHANGED banList
    BY <1>8 DEF TakesHandled
  <2> QED
    BY <1>3, <2>5, <2>6, <2>7, <2>8 DEF TypeOK, bounds
<1> QED
  BY <1>2, <1>6, <1>7, <1>8

(* DropConnection frees the slot, and what it tells the user by its mode.  *)
LEMMA DropCases ==
    ASSUME TypeOK, NEW p \in Peer, NEW q \in Peer, DropConnection(p, q)
    PROVE  /\ IsActive(p, q) /\ FreeSlot(p, q)
           /\ \E cost \in 0 .. 1 :
                /\ upsets + cost <= MaxUpsets /\ upsets' = upsets + cost
                /\ cost = 0 => \/ ~IsActive(q, p)
                               \/ Mode(p, q) \in Disconnecting
           /\ UNCHANGED <<requestedConnectionQueue, bufferedCommands, banList,
                          offline, myGuid, stale, connects>>
           /\ \/ /\ Mode(p, q) = "REQUESTED_CONNECTION"
                 /\ Told(p, q, "ID_CONNECTION_ATTEMPT_FAILED", FALSE)
              \/ /\ Mode(p, q) = "CONNECTED"
                 /\ Told(p, q, "ID_CONNECTION_LOST", FALSE)
              \/ /\ Mode(p, q) \in {"DISCONNECT_ASAP", "DISCONNECT_ON_NO_ACK"}
                 /\ Told(p, q, "ID_DISCONNECTION_NOTIFICATION", FALSE)
              \/ /\ Mode(p, q) \notin {"REQUESTED_CONNECTION", "CONNECTED", "DISCONNECT_ASAP", "DISCONNECT_ON_NO_ACK"}
                 /\ UNCHANGED history
<1>1. PICK cost \in 0 .. 1 :
        /\ IsActive(p, q)
        /\ \/ IsDeadConnection(p, q, cost)
           \/ HasExpired(p, q, cost)
           \/ HasDisconnected(p, q) /\ cost = 0
        /\ upsets + cost <= MaxUpsets
        /\ upsets' = upsets + cost
        /\ ReportEnd(p, q)
        /\ FreeSlot(p, q)
        /\ UNCHANGED <<requestedConnectionQueue, bufferedCommands, banList,
                       offline, myGuid, stale, connects>>
  BY DEF DropConnection
<1>2. cost = 0 => ~IsActive(q, p) \/ Mode(p, q) \in Disconnecting
  BY <1>1 DEF IsDeadConnection, HasExpired, HasDisconnected, Disconnecting
<1>3. \/ /\ Mode(p, q) = "REQUESTED_CONNECTION"
         /\ Told(p, q, "ID_CONNECTION_ATTEMPT_FAILED", FALSE)
      \/ /\ Mode(p, q) = "CONNECTED"
         /\ Told(p, q, "ID_CONNECTION_LOST", FALSE)
      \/ /\ Mode(p, q) \in {"DISCONNECT_ASAP", "DISCONNECT_ON_NO_ACK"}
         /\ Told(p, q, "ID_DISCONNECTION_NOTIFICATION", FALSE)
      \/ /\ Mode(p, q) \notin {"REQUESTED_CONNECTION", "CONNECTED", "DISCONNECT_ASAP", "DISCONNECT_ON_NO_ACK"}
         /\ UNCHANGED history
  <2>1. CASE Mode(p, q) = "REQUESTED_CONNECTION"
    BY <1>1, <2>1 DEF ReportEnd
  <2>2. CASE Mode(p, q) = "CONNECTED"
    BY <1>1, <2>2 DEF ReportEnd
  <2>3. CASE Mode(p, q) \in {"DISCONNECT_ASAP", "DISCONNECT_ON_NO_ACK"}
    BY <1>1, <2>3 DEF ReportEnd
  <2>4. CASE Mode(p, q) \notin {"REQUESTED_CONNECTION", "CONNECTED", "DISCONNECT_ASAP", "DISCONNECT_ON_NO_ACK"}
    BY <1>1, <2>4 DEF ReportEnd
  <2> QED
    BY <2>1, <2>2, <2>3, <2>4
<1> QED
  BY <1>1, <1>2, <1>3

(* It keeps the types, as do the end of a ban and a restart.               *)
LEMMA DropTypes ==
    ASSUME TypeOK, NEW p \in Peer, NEW q \in Peer, DropConnection(p, q)
    PROVE  TypeOK'
<1>1. /\ remoteSystemList' \in [Peer -> [Peer -> RemoteSystemStruct]]
      /\ online' \in [Peer -> [Peer -> Seq(OnlineMessage)]]
  BY DropCases, FreeSlotType
<1>2. /\ connected' \in [Peer -> [Peer -> BOOLEAN]]
      /\ asked' \in [Peer -> [Peer -> BOOLEAN]]
      /\ unasked' \in BOOLEAN
  <2>1. ASSUME NEW id, Told(p, q, id, FALSE)
        PROVE  /\ connected' \in [Peer -> [Peer -> BOOLEAN]]
               /\ asked' \in [Peer -> [Peer -> BOOLEAN]]
               /\ unasked' \in BOOLEAN
    BY <2>1, ToldType
  <2>2. CASE UNCHANGED history
    BY <2>2 DEF TypeOK, history
  <2>3. (\E id : Told(p, q, id, FALSE)) \/ UNCHANGED history
    BY DropCases
  <2> QED
    BY <2>1, <2>2, <2>3
<1>3. upsets' \in 0 .. MaxUpsets
  <2>1. upsets \in Nat /\ MaxUpsets \in Nat
    BY PeerAssumption DEF TypeOK
  <2>2. PICK cost \in 0 .. 1 : upsets + cost <= MaxUpsets /\ upsets' = upsets + cost
    BY DropCases
  <2> QED
    BY <2>1, <2>2
<1>4. UNCHANGED <<requestedConnectionQueue, bufferedCommands, banList, offline, myGuid, stale, connects>>
  BY DropCases
<1> QED
  BY <1>1, <1>2, <1>3, <1>4 DEF TypeOK

(* The end of a ban.                                                       *)
LEMMA BanTypes ==
    ASSUME TypeOK, NEW p \in Peer, NEW q \in Peer, BanExpires(p, q)
    PROVE  TypeOK'
<1>1. banList' \in [Peer -> SUBSET Peer]
  BY DEF TypeOK, BanExpires
<1> QED
  BY <1>1 DEF TypeOK, BanExpires, network, history, bounds

(* A restart.                                                              *)
LEMMA RestartTypes ==
    ASSUME TypeOK, NEW p \in Peer, Restart(p)
    PROVE  TypeOK'
<1>1. /\ remoteSystemList \in [Peer -> [Peer -> RemoteSystemStruct]]
      /\ online \in [Peer -> [Peer -> Seq(OnlineMessage)]]
      /\ connected \in [Peer -> [Peer -> BOOLEAN]] /\ asked \in [Peer -> [Peer -> BOOLEAN]]
  BY DEF TypeOK
<1>2. remoteSystemList' \in [Peer -> [Peer -> RemoteSystemStruct]]
  <2>1. ASSUME NEW q \in Peer
        PROVE  [Inactive EXCEPT !.session = remoteSystemList[p][q].session] \in RemoteSystemStruct
    <3>1. remoteSystemList[p][q] \in RemoteSystemStruct
      BY <1>1
    <3> QED
      BY <3>1, FreedType
  <2>2. [q \in Peer |-> [Inactive EXCEPT !.session = remoteSystemList[p][q].session]]
           \in [Peer -> RemoteSystemStruct]
    BY <2>1
  <2>3. remoteSystemList' = [remoteSystemList EXCEPT ![p] =
           [q \in Peer |-> [Inactive EXCEPT !.session = remoteSystemList[p][q].session]]]
    BY DEF Restart
  <2> QED
    BY <1>1, <2>2, <2>3
<1>3. online' \in [Peer -> [Peer -> Seq(OnlineMessage)]]
  <2>1. online' \in {online, [online EXCEPT ![p] = [q \in Peer |-> <<>>]]}
    BY DEF Restart
  <2>2. [q \in Peer |-> <<>>] \in [Peer -> Seq(OnlineMessage)]
    OBVIOUS
  <2> QED
    BY <1>1, <2>1, <2>2
<1>4. connected' \in [Peer -> [Peer -> BOOLEAN]] /\ asked' \in [Peer -> [Peer -> BOOLEAN]]
  BY <1>1 DEF Restart
<1>5. upsets' \in 0 .. MaxUpsets
  <2>1. upsets \in Nat /\ MaxUpsets \in Nat /\ upsets < MaxUpsets /\ upsets' = upsets + 1
    BY PeerAssumption DEF TypeOK, Restart
  <2> QED
    BY <2>1
<1>6. /\ myGuid' \in [Peer -> Nat]
      /\ requestedConnectionQueue' \in [Peer -> SUBSET Peer]
      /\ banList' \in [Peer -> SUBSET Peer]
  BY DEF TypeOK, Restart
<1>7. bufferedCommands' \in [Peer -> Seq([notify : BOOLEAN, target : Peer])]
  <2>1. /\ bufferedCommands \in [Peer -> Seq([notify : BOOLEAN, target : Peer])]
        /\ bufferedCommands' = [bufferedCommands EXCEPT ![p] = <<>>]
    BY DEF TypeOK, Restart
  <2>2. <<>> \in Seq([notify : BOOLEAN, target : Peer])
    OBVIOUS
  <2> QED
    BY <2>1, <2>2
<1> QED
  BY <1>2, <1>3, <1>4, <1>5, <1>6, <1>7 DEF TypeOK, Restart

(* Every step keeps the types.                                             *)
LEMMA TypeStep ==
    ASSUME TypeOK, [Next]_vars
    PROVE  TypeOK'
<1>1. CASE UNCHANGED vars
  BY <1>1 DEF TypeOK, vars, queues, network, history, bounds
<1>2. ASSUME NEW p \in Peer, RunCommand(p) \/ Restart(p) PROVE TypeOK'
  BY <1>2, CommandTypes, RestartTypes
<1>3. ASSUME NEW p \in Peer, NEW q \in Peer \ {p},
             \/ Connect(p, q)
             \/ CancelConnectionAttempt(p, q)
             \/ \E notify \in BOOLEAN : CloseConnection(p, q, notify)
      PROVE  TypeOK'
  BY <1>3, UserTypes
<1>4. ASSUME NEW p \in Peer, NEW q \in Peer \ {p},
             \/ NextRequest(p, q) \/ ReceiveWhileBanned(p, q)
             \/ ReceiveRequest1(p, q) \/ ReceiveReply1(p, q)
      PROVE  TypeOK'
  BY <1>4, SendingTypes
<1>5. ASSUME NEW p \in Peer, NEW q \in Peer \ {p}, LastRequest(p, q) \/ ReceiveRefusal(p, q)
      PROVE  TypeOK'
  BY <1>5, EndingTypes
<1>6. ASSUME NEW p \in Peer, NEW q \in Peer \ {p}, ReceiveRequest2(p, q) \/ ReceiveReply2(p, q)
      PROVE  TypeOK'
  BY <1>6, Request2Types, Reply2Types
<1>7. ASSUME NEW p \in Peer, NEW q \in Peer \ {p}, Receive(p, q) PROVE TypeOK'
  BY <1>7, ReceiveTypes
<1>8. ASSUME NEW p \in Peer, NEW q \in Peer \ {p}, DropConnection(p, q) \/ BanExpires(p, q)
      PROVE  TypeOK'
  BY <1>8, DropTypes, BanTypes
<1> QED
  BY <1>1, <1>2, <1>3, <1>4, <1>5, <1>6, <1>7, <1>8 DEF Next

-----------------------------------------------------------------------------
(* The part of the invariant that always holds, EndInv, of two sides x and *)
(* y that a step turns into u and v.                                       *)

Typed(x) ==
    /\ x.slot.connectMode \in ConnectMode
    /\ x.slot.session \in Nat /\ x.slot.heard \in Nat
    /\ \A i \in DOMAIN x.sent : x.sent[i].session \in Nat \ {0}

(* One message more is on its way.                                         *)
Adds(new, old, m) ==
    \E k : /\ k \notin DOMAIN old /\ DOMAIN new = DOMAIN old \cup {k}
           /\ new[k] = m /\ \A i \in DOMAIN old : new[i] = old[i]

(* Nothing but the requests, the messages on their way and the connection  *)
(* flags change, and these only towards less.                              *)
Weakens(u, x) ==
    /\ Thinned(u.sent, x.sent)
    /\ u.wrong = x.wrong
    /\ u.requesting => x.requesting \/ ~Active(x)
    /\ u.connected => x.connected

(* A thinned sequence has nothing new.                                     *)
LEMMA ThinnedHas ==
    ASSUME NEW x, NEW u, Thinned(u.sent, x.sent), NEW id, NEW s, Has(u, id, s)
    PROVE  Has(x, id, s)
BY DEF Has, Thinned, Thins

(* The request of a session stays spent.                                   *)
LEMMA SpentWeakens ==
    ASSUME NEW x, NEW u, Thinned(u.sent, x.sent), u.slot = x.slot, NEW s, Spent(x, s)
    PROVE  Spent(u, s)
BY ThinnedHas DEF Spent, Active

(* A step that leaves the slots alone.                                     *)
LEMMA EndFrame ==
    ASSUME NEW x, NEW y, NEW u, NEW v, EndInv(x, y),
           u.slot = x.slot, v.slot = y.slot, Weakens(u, x), Weakens(v, y)
    PROVE  EndInv(u, v)
<1>1. PICK f : Thins(f, u.sent, x.sent)
  BY DEF Weakens, Thinned
<1>2. OneRequest(u)
  <2>1. \A i \in DOMAIN u.sent : u.sent[i].session <= u.slot.session
    BY <1>1 DEF EndInv, OneRequest, Thins
  <2>2. \A i, j \in DOMAIN u.sent :
          /\ u.sent[i].id = "ID_CONNECTION_REQUEST" /\ u.sent[j].id = "ID_CONNECTION_REQUEST"
          /\ u.sent[i].session = u.sent[j].session
          => i = j
    BY <1>1 DEF EndInv, OneRequest, Thins
  <2>3. Current(u, "ID_CONNECTION_REQUEST") => Current(x, "ID_CONNECTION_REQUEST")
    BY ThinnedHas DEF Current, Active, Weakens
  <2> QED
    BY <2>1, <2>2, <2>3 DEF EndInv, OneRequest, Weakens, Active
<1>3. HeardByMode(u, v)
  <2>1. \A s : Spent(y, s) => Spent(v, s)
    BY SpentWeakens DEF Weakens
  <2>2. u.slot.connectMode = "UNVERIFIED_SENDER" => \A i \in DOMAIN u.sent : u.sent[i].session /= u.slot.session
    BY <1>1 DEF EndInv, HeardByMode, Thins
  <2> QED
    BY <2>1, <2>2 DEF EndInv, HeardByMode
<1>4. ToldInTime(u, v)
  <2>1. \A s : Spent(y, s) => Spent(v, s)
    BY SpentWeakens DEF Weakens
  <2> QED
    BY <2>1 DEF EndInv, ToldInTime, Weakens
<1>5. RefusedByPassword(u, v)
  <2>1. \A i \in DOMAIN u.sent : u.sent[i].id = "ID_INVALID_PASSWORD" => v.wrong
    BY <1>1 DEF EndInv, RefusedByPassword, Weakens, Thins
  <2> QED
    BY <2>1 DEF EndInv, RefusedByPassword, Weakens, Matched
<1> QED
  BY <1>2, <1>3, <1>4, <1>5 DEF EndInv

(* A slot that is freed.                                                   *)
Frees(u, x) ==
    /\ u.slot.connectMode = "INACTIVE" /\ u.slot.session = x.slot.session
    /\ Thinned(u.sent, x.sent)
    /\ u.wrong = x.wrong
    /\ ~u.connected

LEMMA EndFree ==
    ASSUME NEW x, NEW y, NEW u, NEW v, EndInv(x, y), EndInv(y, x),
           v.slot = y.slot, Frees(u, x), Weakens(v, y)
    PROVE  EndInv(u, v) /\ EndInv(v, u)
<1>1. PICK f : Thins(f, u.sent, x.sent)
  BY DEF Frees, Thinned
<1>2. EndInv(u, v)
  <2>1. ~Active(u)
    BY DEF Frees, Active
  <2>2. OneRequest(u)
    <3>1. \A i \in DOMAIN u.sent : u.sent[i].session <= u.slot.session
      BY <1>1 DEF EndInv, OneRequest, Thins, Frees
    <3>2. \A i, j \in DOMAIN u.sent :
            /\ u.sent[i].id = "ID_CONNECTION_REQUEST" /\ u.sent[j].id = "ID_CONNECTION_REQUEST"
            /\ u.sent[i].session = u.sent[j].session
            => i = j
      BY <1>1 DEF EndInv, OneRequest, Thins
    <3> QED
      BY <2>1, <3>1, <3>2 DEF OneRequest, Current, Frees
  <2>3. \A i \in DOMAIN u.sent : u.sent[i].id = "ID_INVALID_PASSWORD" => v.wrong
    BY <1>1 DEF EndInv, RefusedByPassword, Weakens, Thins
  <2> QED
    BY <2>1, <2>2, <2>3 DEF EndInv, HeardByMode, ToldInTime, RefusedByPassword, Frees
<1>3. EndInv(v, u)
  <2>1. \A s : Spent(x, s) => Spent(u, s)
    BY ThinnedHas DEF Spent, Frees, Active
  <2>2. PICK g : Thins(g, v.sent, y.sent)
    BY DEF Weakens, Thinned
  <2>3. EndInv(v, x)
    <3> DEFINE w == x
    <3>1. Thinned(w.sent, x.sent) => Weakens(w, x)
      BY DEF Weakens
    <3>2. Thins([k \in DOMAIN x.sent |-> k], x.sent, x.sent)
      BY DEF Thins
    <3>3. Weakens(x, x)
      BY <3>1, <3>2 DEF Thinned
    <3> QED
      BY <3>3, EndFrame
  <2>4. HeardByMode(v, u)
    BY <2>1, <2>3 DEF EndInv, HeardByMode
  <2>5. ToldInTime(v, u)
    BY <2>1, <2>3 DEF EndInv, ToldInTime
  <2>6. RefusedByPassword(v, u)
    BY <2>3 DEF EndInv, RefusedByPassword, Frees, Matched
  <2> QED
    BY <2>3, <2>4, <2>5, <2>6 DEF EndInv
<1> QED
  BY <1>2, <1>3

(* A slot that is assigned.                                                *)
Assigns(u, x) ==
    /\ ~Active(x)
    /\ u.slot.connectMode = "UNVERIFIED_SENDER" /\ u.slot.session = x.slot.session + 1
    /\ ~u.slot.weInitiatedTheConnection /\ u.slot.heard = 0
    /\ u.sent = x.sent /\ u.wrong = x.wrong /\ u.connected = x.connected

LEMMA EndAssign ==
    ASSUME NEW x, NEW y, NEW u, EndInv(x, y), EndInv(y, x), Typed(x), Typed(y), Assigns(u, x)
    PROVE  EndInv(u, y) /\ EndInv(y, u)
<1>1. /\ x.slot.session \in Nat
      /\ \A i \in DOMAIN u.sent : u.sent[i].session \in Nat /\ u.sent[i].session <= x.slot.session
  BY DEF EndInv, OneRequest, Typed, Assigns
<1>2. \A i \in DOMAIN u.sent : u.sent[i].session <= u.slot.session /\ u.sent[i].session # u.slot.session
  BY <1>1 DEF Assigns
<1>3. EndInv(u, y)
  <2>1. OneRequest(u)
    BY <1>2 DEF EndInv, OneRequest, Assigns, Current, Has
  <2>2. ~u.connected
    BY DEF EndInv, ToldInTime, Assigns, Active
  <2> QED
    BY <1>2, <2>1, <2>2 DEF EndInv, HeardByMode, ToldInTime, RefusedByPassword, Assigns
<1>4. EndInv(y, u)
  <2>1. ASSUME NEW s \in Nat, Spent(x, s) PROVE Spent(u, s)
    <3>1. s <= x.slot.session /\ s # 0 /\ ~Has(x, "ID_CONNECTION_REQUEST", s)
      BY <2>1 DEF Spent
    <3>2. s <= u.slot.session /\ s # u.slot.session
      BY <1>1, <3>1 DEF Assigns
    <3>3. ~Has(u, "ID_CONNECTION_REQUEST", s)
      BY <3>1 DEF Has, Assigns
    <3> QED
      BY <3>1, <3>2, <3>3 DEF Spent
  <2> QED
    BY <2>1 DEF EndInv, HeardByMode, ToldInTime, RefusedByPassword, Matched, Assigns, Typed
<1> QED
  BY <1>3, <1>4

(* A side that answers ID_OPEN_CONNECTION_REPLY_2 with its request.        *)
Initiates(u, x) ==
    /\ Active(x) /\ x.requesting
    /\ u.slot.connectMode = "REQUESTED_CONNECTION" /\ u.slot.weInitiatedTheConnection
    /\ u.slot.session = x.slot.session /\ u.slot.heard = x.slot.heard
    /\ Adds(u.sent, x.sent, Request(x.slot))
    /\ ~u.requesting /\ u.wrong = x.wrong /\ u.connected = x.connected /\ u.asked = x.asked

LEMMA EndInitiate ==
    ASSUME NEW x, NEW y, NEW u, EndInv(x, y), EndInv(y, x), Typed(x), Typed(y), Initiates(u, x)
    PROVE  EndInv(u, y) /\ EndInv(y, u)
<1>1. PICK k : /\ k \notin DOMAIN x.sent /\ DOMAIN u.sent = DOMAIN x.sent \cup {k}
               /\ u.sent[k].id = "ID_CONNECTION_REQUEST" /\ u.sent[k].session = x.slot.session
               /\ \A i \in DOMAIN x.sent : u.sent[i] = x.sent[i]
  BY DEF Initiates, Adds, Request
<1>2. ~x.slot.weInitiatedTheConnection /\ ~Has(x, "ID_CONNECTION_REQUEST", x.slot.session)
  BY DEF EndInv, OneRequest, Initiates, Current
<1>3. EndInv(u, y)
  <2>1. \A i \in DOMAIN u.sent : u.sent[i].session <= u.slot.session
    <3>1. x.slot.session <= x.slot.session
      BY DEF Typed
    <3> QED
      BY <1>1, <3>1 DEF EndInv, OneRequest, Initiates
  <2>2. \A i, j \in DOMAIN u.sent :
          /\ u.sent[i].id = "ID_CONNECTION_REQUEST" /\ u.sent[j].id = "ID_CONNECTION_REQUEST"
          /\ u.sent[i].session = u.sent[j].session
          => i = j
    BY <1>1, <1>2 DEF EndInv, OneRequest, Has
  <2>3. OneRequest(u)
    BY <2>1, <2>2 DEF OneRequest, Initiates
  <2>4. u.connected => Spent(y, u.slot.heard)
    BY <1>2 DEF EndInv, ToldInTime, Initiates
  <2>5. \A i \in DOMAIN u.sent : u.sent[i].id = "ID_INVALID_PASSWORD" => y.wrong
    BY <1>1 DEF EndInv, RefusedByPassword
  <2> QED
    BY <2>3, <2>4, <2>5 DEF EndInv, HeardByMode, ToldInTime, RefusedByPassword, Initiates
<1>4. EndInv(y, u)
  <2>1. ASSUME NEW s \in Nat, Spent(x, s) PROVE Spent(u, s)
    <3>1. s # x.slot.session
      BY <1>2, <2>1 DEF Spent, Initiates
    <3>2. ~Has(u, "ID_CONNECTION_REQUEST", s)
      BY <1>1, <2>1, <3>1 DEF Spent, Has
    <3> QED
      BY <2>1, <3>1, <3>2 DEF Spent, Initiates
  <2> QED
    BY <2>1 DEF EndInv, HeardByMode, ToldInTime, RefusedByPassword, Matched, Initiates, Typed
<1> QED
  BY <1>3, <1>4

(* A side that closes its connection with a notification.                  *)
Notifies(u, x) ==
    /\ Active(x)
    /\ u.slot.connectMode = "DISCONNECT_ASAP" /\ u.slot.session = x.slot.session
    /\ u.slot.heard = x.slot.heard
    /\ u.slot.weInitiatedTheConnection = x.slot.weInitiatedTheConnection
    /\ \/ u.sent = x.sent
       \/ Adds(u.sent, x.sent, [id |-> "ID_DISCONNECTION_NOTIFICATION", session |-> x.slot.session])
    /\ u.requesting = x.requesting /\ u.wrong = x.wrong /\ u.connected = x.connected

LEMMA EndNotify ==
    ASSUME NEW x, NEW y, NEW u, EndInv(x, y), EndInv(y, x), Typed(x), Typed(y), Notifies(u, x)
    PROVE  EndInv(u, y) /\ EndInv(y, u)
<1>0. u.sent # x.sent =>
        \E k : /\ k \notin DOMAIN x.sent /\ DOMAIN u.sent = DOMAIN x.sent \cup {k}
               /\ u.sent[k].id = "ID_DISCONNECTION_NOTIFICATION" /\ u.sent[k].session = x.slot.session
               /\ \A i \in DOMAIN x.sent : u.sent[i] = x.sent[i]
  BY DEF Notifies, Adds
<1>1. /\ \A i \in DOMAIN u.sent :
           \/ i \in DOMAIN x.sent /\ u.sent[i] = x.sent[i]
           \/ u.sent[i].id = "ID_DISCONNECTION_NOTIFICATION" /\ u.sent[i].session = x.slot.session
      /\ \A i \in DOMAIN x.sent : i \in DOMAIN u.sent /\ u.sent[i] = x.sent[i]
  BY <1>0
<1>2. \A s : Has(u, "ID_CONNECTION_REQUEST", s) <=> Has(x, "ID_CONNECTION_REQUEST", s)
  BY <1>1 DEF Has
<1>3. EndInv(u, y)
  <2>1. \A i \in DOMAIN u.sent : u.sent[i].session <= u.slot.session
    <3>1. x.slot.session <= x.slot.session
      BY DEF Typed
    <3> QED
      BY <1>1, <3>1 DEF EndInv, OneRequest, Notifies
  <2>2. \A i, j \in DOMAIN u.sent :
          /\ u.sent[i].id = "ID_CONNECTION_REQUEST" /\ u.sent[j].id = "ID_CONNECTION_REQUEST"
          /\ u.sent[i].session = u.sent[j].session
          => i = j
    BY <1>1 DEF EndInv, OneRequest
  <2>3. OneRequest(u)
    BY <1>2, <2>1, <2>2 DEF EndInv, OneRequest, Notifies, Current, Active
  <2>4. u.connected => u.slot.weInitiatedTheConnection \/ Spent(y, u.slot.heard)
    BY DEF EndInv, ToldInTime, Notifies
  <2>5. \A i \in DOMAIN u.sent : u.sent[i].id = "ID_INVALID_PASSWORD" => y.wrong
    BY <1>1 DEF EndInv, RefusedByPassword
  <2> QED
    BY <2>3, <2>4, <2>5 DEF EndInv, HeardByMode, ToldInTime, RefusedByPassword, Notifies
<1>4. EndInv(y, u)
  <2>1. ASSUME NEW s, Spent(x, s) PROVE Spent(u, s)
    BY <1>2, <2>1 DEF Spent, Notifies, Active
  <2> QED
    BY <2>1 DEF EndInv, HeardByMode, ToldInTime, RefusedByPassword, Matched, Notifies
<1> QED
  BY <1>3, <1>4

(* A side that handles message i of the other.                             *)
Handles(u, v, x, y, i, mode, answer) ==
    /\ i \in DOMAIN y.sent
    /\ Active(x) /\ x.slot.heard \in {0, y.sent[i].session}
    /\ x.slot.connectMode = "UNVERIFIED_SENDER" => y.sent[i].id = "ID_CONNECTION_REQUEST"
    /\ IsHandled(x.slot.connectMode, y.sent[i].id, y.wrong, mode, answer)
    /\ u.slot.connectMode = mode /\ u.slot.heard = y.sent[i].session
    /\ u.slot.session = x.slot.session
    /\ u.slot.weInitiatedTheConnection = x.slot.weInitiatedTheConnection
    /\ \/ u.sent = x.sent /\ (answer = <<>> \/ x.slot.connectMode \in Disconnecting)
       \/ \E a : answer = <<a>> /\ Adds(u.sent, x.sent, [id |-> a, session |-> x.slot.session])
    /\ u.requesting = x.requesting /\ u.wrong = x.wrong /\ u.bans = x.bans
    /\ u.connected = IF /\ y.sent[i].id \in {"ID_CONNECTION_REQUEST_ACCEPTED", "ID_NEW_INCOMING_CONNECTION",
                                             "ID_INVALID_PASSWORD"}
                        /\ mode # x.slot.connectMode
                       THEN y.sent[i].id # "ID_INVALID_PASSWORD" ELSE x.connected
    /\ v.slot = y.slot /\ v.requesting = y.requesting /\ v.connected = y.connected
    /\ v.wrong = y.wrong /\ v.bans = y.bans /\ v.asked = y.asked
    /\ KeepsAllBut(i, v.sent, y.sent)
    /\ \E f : Thins(f, v.sent, y.sent) /\ \A k \in DOMAIN v.sent : f[k] # i

(* Which answer goes with which case.                                      *)
LEMMA AnswerId ==
    ASSUME NEW mode, NEW id, NEW wrong, NEW newMode, NEW a, IsHandled(mode, id, wrong, newMode, <<a>>)
    PROVE  \/ /\ a = "ID_INVALID_PASSWORD" /\ id = "ID_CONNECTION_REQUEST" /\ wrong
              /\ mode \in {"UNVERIFIED_SENDER", "REQUESTED_CONNECTION"}
              /\ newMode = "DISCONNECT_ASAP_SILENTLY"
           \/ /\ a = "ID_CONNECTION_REQUEST_ACCEPTED" /\ id = "ID_CONNECTION_REQUEST" /\ ~wrong
              /\ mode \in {"UNVERIFIED_SENDER", "REQUESTED_CONNECTION"}
              /\ newMode = "HANDLING_CONNECTION_REQUEST"
           \/ /\ a = "ID_CONNECTION_REQUEST_ACCEPTED" /\ id = "ID_CONNECTION_REQUEST"
              /\ mode \notin {"UNVERIFIED_SENDER", "REQUESTED_CONNECTION"}
              /\ newMode = mode
           \/ /\ a = "ID_NEW_INCOMING_CONNECTION" /\ id = "ID_CONNECTION_REQUEST_ACCEPTED"
              /\ mode \in {"HANDLING_CONNECTION_REQUEST", "REQUESTED_CONNECTION"}
              /\ newMode = "CONNECTED"
<1>1. <<a>> # <<>>
  OBVIOUS
<1>2. \A b : <<a>> = <<b>> => a = b
  OBVIOUS
<1> QED
  BY <1>1, <1>2, Zenon DEF IsHandled

(* What is on its way from u: what x sent, and the answer.                 *)
LEMMA HandlesSent ==
    ASSUME NEW x, NEW y, NEW u, NEW v, NEW i, NEW mode, NEW answer, Handles(u, v, x, y, i, mode, answer)
    PROVE  /\ \A j \in DOMAIN u.sent :
                \/ j \in DOMAIN x.sent /\ u.sent[j] = x.sent[j]
                \/ answer = <<u.sent[j].id>> /\ u.sent[j].session = x.slot.session /\ j \notin DOMAIN x.sent
           /\ \A j, k \in DOMAIN u.sent : j \in DOMAIN x.sent \/ k \in DOMAIN x.sent \/ j = k
           /\ \A j \in DOMAIN x.sent : j \in DOMAIN u.sent /\ u.sent[j] = x.sent[j]
           /\ \A s : Has(u, "ID_CONNECTION_REQUEST", s) <=> Has(x, "ID_CONNECTION_REQUEST", s)
<1>1. CASE u.sent = x.sent
  BY <1>1 DEF Has
<1>2. ASSUME NEW a, answer = <<a>>, Adds(u.sent, x.sent, [id |-> a, session |-> x.slot.session])
      PROVE  /\ \A j \in DOMAIN u.sent :
                  \/ j \in DOMAIN x.sent /\ u.sent[j] = x.sent[j]
                  \/ answer = <<u.sent[j].id>> /\ u.sent[j].session = x.slot.session /\ j \notin DOMAIN x.sent
             /\ \A j, k \in DOMAIN u.sent : j \in DOMAIN x.sent \/ k \in DOMAIN x.sent \/ j = k
             /\ \A j \in DOMAIN x.sent : j \in DOMAIN u.sent /\ u.sent[j] = x.sent[j]
             /\ \A s : Has(u, "ID_CONNECTION_REQUEST", s) <=> Has(x, "ID_CONNECTION_REQUEST", s)
  <2>1. PICK k : /\ k \notin DOMAIN x.sent /\ DOMAIN u.sent = DOMAIN x.sent \cup {k}
                 /\ u.sent[k].id = a /\ u.sent[k].session = x.slot.session
                 /\ \A j \in DOMAIN x.sent : u.sent[j] = x.sent[j]
    BY <1>2 DEF Adds
  <2>2. a # "ID_CONNECTION_REQUEST"
    <3>1. IsHandled(x.slot.connectMode, y.sent[i].id, y.wrong, mode, <<a>>)
      BY <1>2 DEF Handles
    <3> QED
      BY <3>1, AnswerId
  <2> QED
    BY <1>2, <2>1, <2>2 DEF Has
<1> QED
  BY <1>1, <1>2 DEF Handles

(* What a handled request shows: it was the only one of its session.       *)
LEMMA RequestTaken ==
    ASSUME NEW x, NEW y, NEW u, NEW v, NEW i, NEW mode, NEW answer, Handles(u, v, x, y, i, mode, answer),
           OneRequest(y), Typed(y), y.sent[i].id = "ID_CONNECTION_REQUEST"
    PROVE  Spent(v, y.sent[i].session) /\ ~Spent(y, y.sent[i].session)
<1>1. i \in DOMAIN y.sent /\ v.slot = y.slot
  BY DEF Handles
<1>2. PICK f : Thins(f, v.sent, y.sent) /\ \A k \in DOMAIN v.sent : f[k] # i
  BY DEF Handles
<1>3. ~Has(v, "ID_CONNECTION_REQUEST", y.sent[i].session)
  BY <1>1, <1>2 DEF OneRequest, Has, Thins
<1>4. Has(y, "ID_CONNECTION_REQUEST", y.sent[i].session)
  BY <1>1 DEF Has
<1>5. y.sent[i].session # 0 /\ y.sent[i].session <= y.slot.session
  BY <1>1 DEF Typed, OneRequest
<1>6. Active(y) /\ y.slot.session = y.sent[i].session => y.slot.weInitiatedTheConnection
  BY <1>4 DEF OneRequest, Current
<1> QED
  BY <1>1, <1>3, <1>4, <1>5, <1>6 DEF Spent, Active

(* A message handled keeps EndInv.                                         *)
LEMMA EndHandle ==
    ASSUME NEW x, NEW y, NEW u, NEW v, NEW i, NEW mode, NEW answer, Handles(u, v, x, y, i, mode, answer),
           EndInv(x, y), EndInv(y, x), Typed(x), Typed(y)
    PROVE  EndInv(u, v) /\ EndInv(v, u)
<1> DEFINE m == y.sent[i]
           was == x.slot.connectMode
<1>1. IsHandled(was, m.id, y.wrong, mode, answer)
  BY DEF Handles
<1>2. Thinned(v.sent, y.sent)
  BY DEF Handles, Thinned
<1>3. \A s : Spent(y, s) => Spent(v, s)
  BY <1>2, SpentWeakens DEF Handles
<1>4. /\ was # "INACTIVE" /\ mode # "INACTIVE" /\ u.slot.connectMode = mode
      /\ u.slot.heard = m.session /\ u.slot.session = x.slot.session
      /\ u.slot.weInitiatedTheConnection = x.slot.weInitiatedTheConnection
      /\ x.slot.heard # 0 => x.slot.heard = m.session
      /\ was = "UNVERIFIED_SENDER" => m.id = "ID_CONNECTION_REQUEST"
      /\ u.requesting = x.requesting /\ u.wrong = x.wrong /\ v.wrong = y.wrong
      /\ v.slot = y.slot
      /\ m.session # 0
  BY <1>1 DEF Handles, IsHandled, Active, Typed
<1>5. /\ m.id = "ID_CONNECTION_REQUEST" => Spent(v, m.session) /\ ~Spent(y, m.session)
      /\ m.id = "ID_INVALID_PASSWORD" => x.wrong
  <2>1. m.id = "ID_CONNECTION_REQUEST" => Spent(v, m.session) /\ ~Spent(y, m.session)
    BY RequestTaken DEF EndInv
  <2>2. i \in DOMAIN y.sent
    BY DEF Handles
  <2> QED
    BY <2>1, <2>2 DEF EndInv, RefusedByPassword
<1>6. u.connected = IF /\ m.id \in {"ID_CONNECTION_REQUEST_ACCEPTED", "ID_NEW_INCOMING_CONNECTION",
                                    "ID_INVALID_PASSWORD"}
                       /\ mode # was
                      THEN m.id # "ID_INVALID_PASSWORD" ELSE x.connected
  BY DEF Handles
<1> HIDE DEF m, was
<1>7. OneRequest(u)
  <2>1. \A j \in DOMAIN u.sent : u.sent[j].session <= u.slot.session
    <3>1. x.slot.session <= x.slot.session
      BY DEF Typed
    <3> QED
      BY <1>4, <3>1, HandlesSent DEF EndInv, OneRequest
  <2>2. \A j, k \in DOMAIN u.sent :
          /\ u.sent[j].id = "ID_CONNECTION_REQUEST" /\ u.sent[k].id = "ID_CONNECTION_REQUEST"
          /\ u.sent[j].session = u.sent[k].session
          => j = k
    <3>1. ASSUME NEW j \in DOMAIN u.sent, u.sent[j].id = "ID_CONNECTION_REQUEST"
          PROVE  j \in DOMAIN x.sent /\ u.sent[j] = x.sent[j]
      <4>1. answer # <<"ID_CONNECTION_REQUEST">>
        BY <1>1, AnswerId
      <4> QED
        BY <3>1, <4>1, HandlesSent
    <3> QED
      BY <3>1 DEF EndInv, OneRequest
  <2>3. Current(u, "ID_CONNECTION_REQUEST") => x.slot.weInitiatedTheConnection
    BY <1>4, HandlesSent DEF EndInv, OneRequest, Current, Active, was
  <2>4. mode = "REQUESTED_CONNECTION" => was = "REQUESTED_CONNECTION"
    BY <1>1 DEF IsHandled
  <2> QED
    BY <1>4, <2>1, <2>2, <2>3, <2>4 DEF EndInv, OneRequest, Active, was
<1>8. HeardByMode(u, v)
  <2>1. mode = "HANDLING_CONNECTION_REQUEST" => Spent(v, m.session)
    <3>1. CASE was = "HANDLING_CONNECTION_REQUEST"
      BY <1>3, <1>4, <3>1 DEF EndInv, HeardByMode, was, Spent
    <3>2. CASE was # "HANDLING_CONNECTION_REQUEST"
      BY <1>1, <1>5, <3>2 DEF IsHandled
    <3> QED
      BY <3>1, <3>2
  <2>2. mode = "CONNECTED" => x.slot.weInitiatedTheConnection \/ Spent(v, m.session)
    <3>1. CASE was = "HANDLING_CONNECTION_REQUEST"
      BY <1>3, <1>4, <3>1 DEF EndInv, HeardByMode, was, Spent
    <3>2. CASE was = "REQUESTED_CONNECTION"
      BY <3>2 DEF EndInv, OneRequest, was
    <3>3. CASE was = "CONNECTED"
      BY <1>3, <1>4, <3>3 DEF EndInv, HeardByMode, was
    <3>4. mode = "CONNECTED" => was \in {"HANDLING_CONNECTION_REQUEST", "REQUESTED_CONNECTION", "CONNECTED"}
      BY <1>1 DEF IsHandled
    <3> QED
      BY <3>1, <3>2, <3>3, <3>4
  <2>3. mode # "UNVERIFIED_SENDER"
    BY <1>1, <1>4 DEF IsHandled
  <2> QED
    BY <1>4, <2>1, <2>2, <2>3 DEF HeardByMode
<1>9. ToldInTime(u, v)
  <2>1. ASSUME m.id \in {"ID_CONNECTION_REQUEST_ACCEPTED", "ID_NEW_INCOMING_CONNECTION"}, mode # was
        PROVE  mode = "CONNECTED"
    BY <1>1, <2>1 DEF IsHandled
  <2>2. ASSUME x.connected, m.id \notin {"ID_CONNECTION_REQUEST_ACCEPTED", "ID_NEW_INCOMING_CONNECTION",
                                         "ID_INVALID_PASSWORD"} \/ mode = was
        PROVE  /\ mode \in {"REQUESTED_CONNECTION", "CONNECTED", "DISCONNECT_ASAP", "DISCONNECT_ON_NO_ACK"}
               /\ \/ x.slot.weInitiatedTheConnection /\ mode # "REQUESTED_CONNECTION"
                  \/ Spent(v, m.session)
    <3>1. /\ was \in {"REQUESTED_CONNECTION", "CONNECTED", "DISCONNECT_ASAP", "DISCONNECT_ON_NO_ACK"}
          /\ \/ x.slot.weInitiatedTheConnection /\ was # "REQUESTED_CONNECTION"
             \/ Spent(y, x.slot.heard)
      BY <2>2 DEF EndInv, ToldInTime, was
    <3>2. Spent(y, x.slot.heard) => Spent(y, m.session) /\ Spent(v, m.session)
      BY <1>3, <1>4 DEF Spent
    <3>3. ~(was = "REQUESTED_CONNECTION" /\ m.id = "ID_CONNECTION_REQUEST")
      BY <1>5, <3>1, <3>2
    <3>4. mode = was \/ mode = "DISCONNECT_ON_NO_ACK"
      BY <1>1, <2>2, <3>1, <3>3 DEF IsHandled
    <3> QED
      BY <3>1, <3>2, <3>4
  <2> QED
    BY <1>4, <1>6, <1>8, <2>1, <2>2 DEF ToldInTime, HeardByMode
<1>10. RefusedByPassword(u, v)
  <2>1. ASSUME NEW j \in DOMAIN u.sent, u.sent[j].id = "ID_INVALID_PASSWORD"
        PROVE  y.wrong
    <3>1. CASE j \in DOMAIN x.sent /\ u.sent[j] = x.sent[j]
      BY <2>1, <3>1 DEF EndInv, RefusedByPassword
    <3>2. CASE answer = <<"ID_INVALID_PASSWORD">>
      <4>1. IsHandled(was, m.id, y.wrong, mode, <<"ID_INVALID_PASSWORD">>)
        BY <1>1, <3>2
      <4> QED
        BY <4>1, AnswerId
    <3> QED
      BY <2>1, <3>1, <3>2, HandlesSent
  <2>2. y.wrong => mode # "HANDLING_CONNECTION_REQUEST"
    BY <1>1 DEF IsHandled, EndInv, RefusedByPassword, was
  <2>3. mode = "DISCONNECT_ASAP_SILENTLY" => x.wrong \/ y.wrong
    BY <1>1, <1>5 DEF IsHandled, EndInv, RefusedByPassword, Matched, was
  <2> QED
    BY <1>4, <2>1, <2>2, <2>3 DEF RefusedByPassword, Matched
<1>11. EndInv(v, u)
  <2>1. EndInv(v, x)
    <3>1. Thins([k \in DOMAIN x.sent |-> k], x.sent, x.sent)
      BY DEF Thins
    <3>2. Weakens(x, x)
      BY <3>1 DEF Weakens, Thinned
    <3>3. Weakens(v, y)
      BY <1>2 DEF Weakens, Handles
    <3> QED
      BY <1>4, <3>2, <3>3, EndFrame
  <2>2. \A s : Spent(x, s) => Spent(u, s)
    BY <1>4, HandlesSent DEF Spent, Active, was
  <2> QED
    BY <1>4, <2>1, <2>2 DEF EndInv, HeardByMode, ToldInTime, RefusedByPassword, Matched
<1> QED
  BY <1>7, <1>8, <1>9, <1>10, <1>11 DEF EndInv

-----------------------------------------------------------------------------
(* The part that holds in calm runs, CalmInv.                              *)

(* A step that leaves slots and messages alone.                            *)
LEMMA CalmFrame ==
    ASSUME NEW x, NEW y, NEW u, NEW v, CalmInv(x, y),
           u.slot = x.slot, u.sent = x.sent, u.wrong = x.wrong, u.connected = x.connected,
           v.slot = y.slot, v.sent = y.sent, v.wrong = y.wrong,
           u.bans => x.bans, AskedWhileOpen(u)
    PROVE  CalmInv(u, v)
<1>1. \A id : (Current(u, id) <=> Current(x, id)) /\ (Current(v, id) <=> Current(y, id))
  BY DEF Current, Active, Has
<1>2. (Active(u) <=> Active(x)) /\ (Active(v) <=> Active(y)) /\ (Matched(u, v) <=> Matched(x, y))
  BY DEF Active, Matched
<1>3. NobodyLeaves(u) /\ RepliesAwaited(u, v) /\ SilentAfterReply(u, v)
  BY <1>1, <1>2 DEF CalmInv, NobodyLeaves, RepliesAwaited, SilentAfterReply
<1>4. ASSUME Matched(u, v)
      PROVE  /\ ~u.bans /\ HeardIsCurrent(u, v) /\ NewFromConnected(u, v)
             /\ RequestAwaited(u, v) /\ AcceptanceAwaited(u, v) /\ StillPending(u, v)
  BY <1>1, <1>2, <1>4 DEF CalmInv, HeardIsCurrent, NewFromConnected, RequestAwaited,
                          AcceptanceAwaited, StillPending
<1> QED
  BY <1>3, <1>4 DEF CalmInv

(* The current messages of a side some of whose messages are gone.         *)
LEMMA ThinnedCurrent ==
    ASSUME NEW y, NEW v, v.slot = y.slot, Thinned(v.sent, y.sent)
    PROVE  /\ Active(v) <=> Active(y)
           /\ \A id : Current(v, id) => Current(y, id)
           /\ \A i : KeepsAllBut(i, v.sent, y.sent) => \A id :
                ~(i \in DOMAIN y.sent /\ y.sent[i].id = id /\ y.sent[i].session = y.slot.session)
                  => (Current(y, id) <=> Current(v, id))
<1>1. Active(v) <=> Active(y)
  BY DEF Active
<1>2. \A id : Current(v, id) => Current(y, id)
  BY <1>1, ThinnedHas DEF Current
<1>3. ASSUME NEW i, KeepsAllBut(i, v.sent, y.sent), NEW id, Current(y, id),
             ~(i \in DOMAIN y.sent /\ y.sent[i].id = id /\ y.sent[i].session = y.slot.session)
      PROVE  Current(v, id)
  <2>1. PICK k \in DOMAIN y.sent : y.sent[k].id = id /\ y.sent[k].session = y.slot.session
    BY <1>3 DEF Current, Has
  <2>2. k # i
    BY <1>3, <2>1
  <2>3. PICK j \in DOMAIN v.sent : v.sent[j] = y.sent[k]
    BY <1>3, <2>2 DEF KeepsAllBut
  <2> QED
    BY <1>1, <1>3, <2>1, <2>3 DEF Current, Has
<1> QED
  BY <1>1, <1>2, <1>3

(* Replies that are gone are not missed.                                   *)
LEMMA RepliesThinned ==
    ASSUME NEW x, NEW y, NEW u, NEW v, RepliesAwaited(x, y), v.slot = y.slot, v.wrong = y.wrong,
           Thinned(v.sent, y.sent),
           Active(u) <=> Active(x),
           u.slot.weInitiatedTheConnection = x.slot.weInitiatedTheConnection,
           u.slot.connectMode = "DISCONNECT_ASAP_SILENTLY" => x.slot.connectMode = "DISCONNECT_ASAP_SILENTLY",
           Current(u, "ID_CONNECTION_REQUEST") => Current(x, "ID_CONNECTION_REQUEST")
    PROVE  RepliesAwaited(u, v)
<1>1. PICK f : Thins(f, v.sent, y.sent)
  BY DEF Thinned
<1>2. SUFFICES ASSUME NEW i \in DOMAIN v.sent, ~v.wrong, Active(v), v.sent[i].session = v.slot.session,
                      v.sent[i].id \in Reply
               PROVE  /\ \A j \in DOMAIN v.sent :
                            v.sent[j].session = v.slot.session /\ v.sent[j].id \in Reply => i = j
                      /\ Active(u) /\ u.slot.weInitiatedTheConnection
                      /\ u.slot.connectMode /= "DISCONNECT_ASAP_SILENTLY"
                      /\ ~Current(u, "ID_CONNECTION_REQUEST")
  BY DEF RepliesAwaited
<1>3. /\ f[i] \in DOMAIN y.sent /\ ~y.wrong /\ Active(y)
      /\ y.sent[f[i]].session = y.slot.session /\ y.sent[f[i]].id \in Reply
  BY <1>1, <1>2 DEF Thins, Active
<1>4. /\ \A j \in DOMAIN y.sent : y.sent[j].session = y.slot.session /\ y.sent[j].id \in Reply => f[i] = j
      /\ Active(x) /\ x.slot.weInitiatedTheConnection
      /\ x.slot.connectMode /= "DISCONNECT_ASAP_SILENTLY"
      /\ ~Current(x, "ID_CONNECTION_REQUEST")
  BY <1>3 DEF RepliesAwaited
<1>5. ASSUME NEW j \in DOMAIN v.sent, v.sent[j].session = v.slot.session, v.sent[j].id \in Reply
      PROVE  i = j
  BY <1>1, <1>4, <1>5 DEF Thins
<1> QED
  BY <1>4, <1>5

(* No one waits for a message that is taken for a duplicate.               *)
LEMMA CalmDuplicate ==
    ASSUME NEW x, NEW y, NEW v, NEW i \in DOMAIN y.sent, CalmInv(x, y), CalmInv(y, x),
           Active(x), x.slot.heard \notin {0, y.sent[i].session},
           v.slot = y.slot, v.wrong = y.wrong, v.connected = y.connected, v.bans = y.bans,
           v.requesting = y.requesting, v.asked = y.asked,
           KeepsAllBut(i, v.sent, y.sent), Thinned(v.sent, y.sent)
    PROVE  CalmInv(x, v) /\ CalmInv(v, x)
<1>1. /\ Active(v) <=> Active(y)
      /\ \A id : Current(v, id) => Current(y, id)
  BY ThinnedCurrent
<1>2. Matched(x, y) => Active(y) /\ y.sent[i].session # y.slot.session
  BY DEF CalmInv, HeardIsCurrent
<1>3. Matched(x, y) => \A id : Current(y, id) <=> Current(v, id)
  BY <1>2, ThinnedCurrent
<1>4. NobodyLeaves(v)
  BY DEF CalmInv, NobodyLeaves, Thinned, Thins
<1>5. RepliesAwaited(x, v)
  BY RepliesThinned DEF CalmInv
<1>6. RepliesAwaited(v, x)
  BY <1>1 DEF CalmInv, RepliesAwaited
<1>7. SilentAfterReply(x, v) /\ SilentAfterReply(v, x) /\ AskedWhileOpen(v)
  BY <1>1 DEF CalmInv, SilentAfterReply, AskedWhileOpen
<1>8. (Matched(x, v) <=> Matched(x, y)) /\ (Matched(v, x) <=> Matched(x, y)) /\ (Matched(y, x) <=> Matched(x, y))
  BY DEF Matched
<1>9. ASSUME Matched(x, y)
      PROVE  /\ ~x.bans /\ HeardIsCurrent(x, v) /\ NewFromConnected(x, v)
             /\ RequestAwaited(x, v) /\ AcceptanceAwaited(x, v) /\ StillPending(x, v)
             /\ ~v.bans /\ HeardIsCurrent(v, x) /\ NewFromConnected(v, x)
             /\ RequestAwaited(v, x) /\ AcceptanceAwaited(v, x) /\ StillPending(v, x)
  BY <1>1, <1>3, <1>8, <1>9 DEF CalmInv, HeardIsCurrent, NewFromConnected, RequestAwaited,
                                AcceptanceAwaited, StillPending
<1> QED
  BY <1>4, <1>5, <1>6, <1>7, <1>8, <1>9 DEF CalmInv

(* A slot that is freed though no user gave up: the other side is gone, or *)
(* this one's password was refused.                                        *)
LEMMA CalmFree ==
    ASSUME NEW x, NEW y, NEW u, CalmInv(x, y), CalmInv(y, x), EndInv(x, y), Frees(u, x),
           ~Active(y) \/ x.slot.connectMode \in Disconnecting,
           ~u.slot.weInitiatedTheConnection, u.bans = x.bans, u.requesting => u.asked
    PROVE  CalmInv(u, y) /\ CalmInv(y, u)
<1>1. ~Active(u) /\ \A id : ~Current(u, id)
  BY DEF Frees, Active, Current
<1>2. ~Active(y) \/ x.slot.connectMode = "DISCONNECT_ASAP_SILENTLY"
  BY DEF CalmInv, NobodyLeaves, Disconnecting
<1>3. /\ (Matched(x, y) <=> Matched(u, y)) /\ (Matched(y, u) <=> Matched(u, y)) /\ (Matched(y, x) <=> Matched(u, y))
      /\ Matched(u, y) => ~Active(y) /\ \A id : ~Current(y, id)
  BY <1>2 DEF Matched, Frees, EndInv, RefusedByPassword, Current
<1>4. NobodyLeaves(u)
  BY DEF CalmInv, NobodyLeaves, Frees, Thinned, Thins
<1>5. RepliesAwaited(u, y)
  BY <1>2 DEF CalmInv, RepliesAwaited
<1>6. RepliesAwaited(y, u)
  BY <1>1 DEF RepliesAwaited
<1>7. SilentAfterReply(u, y) /\ SilentAfterReply(y, u) /\ AskedWhileOpen(u)
  BY <1>1 DEF CalmInv, SilentAfterReply, AskedWhileOpen, Frees
<1>8. ASSUME Matched(u, y)
      PROVE  /\ ~u.bans /\ HeardIsCurrent(u, y) /\ NewFromConnected(u, y)
             /\ RequestAwaited(u, y) /\ AcceptanceAwaited(u, y) /\ StillPending(u, y)
             /\ ~y.bans /\ HeardIsCurrent(y, u) /\ NewFromConnected(y, u)
             /\ RequestAwaited(y, u) /\ AcceptanceAwaited(y, u) /\ StillPending(y, u)
  BY <1>1, <1>3, <1>8 DEF CalmInv, HeardIsCurrent, NewFromConnected, RequestAwaited,
                          AcceptanceAwaited, StillPending, Active, Frees
<1> QED
  BY <1>3, <1>4, <1>5, <1>6, <1>7, <1>8 DEF CalmInv

(* A slot that is assigned to a request of the other side.                 *)
LEMMA CalmAssign ==
    ASSUME NEW x, NEW y, NEW u, CalmInv(x, y), CalmInv(y, x), EndInv(x, y), Typed(x), Assigns(u, x),
           u.bans = x.bans, u.requesting = x.requesting, u.asked = x.asked
    PROVE  CalmInv(u, y) /\ CalmInv(y, u)
<1>1. /\ x.slot.session \in Nat
      /\ \A i \in DOMAIN u.sent : u.sent[i].session \in Nat /\ u.sent[i].session <= x.slot.session
  BY DEF EndInv, OneRequest, Typed, Assigns
<1>2. \A i \in DOMAIN u.sent : u.sent[i].session # u.slot.session
  BY <1>1 DEF Assigns
<1>3. ~Active(x) /\ \A id : ~Current(x, id) /\ ~Current(u, id)
  BY <1>2 DEF Current, Has, Assigns
<1>4. (Matched(x, y) <=> Matched(u, y)) /\ (Matched(y, u) <=> Matched(u, y)) /\ (Matched(y, x) <=> Matched(u, y))
  BY DEF Matched, Assigns
<1>5. NobodyLeaves(u) /\ AskedWhileOpen(u)
  BY DEF CalmInv, NobodyLeaves, AskedWhileOpen, Assigns
<1>6. RepliesAwaited(u, y)
  BY <1>3 DEF CalmInv, RepliesAwaited
<1>7. RepliesAwaited(y, u)
  BY <1>2 DEF RepliesAwaited
<1>8. SilentAfterReply(u, y) /\ SilentAfterReply(y, u)
  BY DEF CalmInv, SilentAfterReply, Assigns
<1>9. ASSUME Matched(u, y)
      PROVE  /\ ~u.bans /\ HeardIsCurrent(u, y) /\ NewFromConnected(u, y)
             /\ RequestAwaited(u, y) /\ AcceptanceAwaited(u, y) /\ StillPending(u, y)
             /\ ~y.bans /\ HeardIsCurrent(y, u) /\ NewFromConnected(y, u)
             /\ RequestAwaited(y, u) /\ AcceptanceAwaited(y, u) /\ StillPending(y, u)
  BY <1>3, <1>4, <1>9 DEF CalmInv, HeardIsCurrent, NewFromConnected, RequestAwaited,
                          AcceptanceAwaited, StillPending, Active, Assigns
<1> QED
  BY <1>4, <1>5, <1>6, <1>7, <1>8, <1>9 DEF CalmInv

(* A side that initiates: it has asked, and had not initiated before.      *)
LEMMA CalmInitiate ==
    ASSUME NEW x, NEW y, NEW u, CalmInv(x, y), CalmInv(y, x), EndInv(x, y), Typed(x), Initiates(u, x),
           u.bans = x.bans
    PROVE  CalmInv(u, y) /\ CalmInv(y, u)
<1>1. PICK k : /\ k \notin DOMAIN x.sent /\ DOMAIN u.sent = DOMAIN x.sent \cup {k}
               /\ u.sent[k].id = "ID_CONNECTION_REQUEST" /\ u.sent[k].session = x.slot.session
               /\ \A i \in DOMAIN x.sent : u.sent[i] = x.sent[i]
  BY DEF Initiates, Adds, Request
<1>2. /\ ~x.slot.weInitiatedTheConnection /\ Active(x) /\ Active(u)
      /\ u.slot.connectMode = "REQUESTED_CONNECTION" /\ u.slot.session = x.slot.session
      /\ u.slot.weInitiatedTheConnection
  BY DEF EndInv, OneRequest, Initiates, Active
<1>3. /\ Current(u, "ID_CONNECTION_REQUEST")
      /\ \A id : id # "ID_CONNECTION_REQUEST" => (Current(u, id) <=> Current(x, id))
  BY <1>1, <1>2 DEF Current, Has
<1>4. (Matched(x, y) <=> Matched(u, y)) /\ (Matched(y, u) <=> Matched(u, y)) /\ (Matched(y, x) <=> Matched(u, y))
  BY DEF Matched, Initiates
<1>5. NobodyLeaves(u) /\ AskedWhileOpen(u)
  BY <1>1, <1>2 DEF CalmInv, NobodyLeaves, AskedWhileOpen, Initiates
<1>6. RepliesAwaited(u, y)
  BY <1>2 DEF CalmInv, RepliesAwaited
<1>7. RepliesAwaited(y, u)
  <2>1. u.wrong = x.wrong /\ "ID_CONNECTION_REQUEST" \notin Reply
    BY DEF Initiates, Reply
  <2> QED
    BY <1>1, <1>2, <2>1 DEF CalmInv, RepliesAwaited
<1>8. SilentAfterReply(u, y) /\ SilentAfterReply(y, u)
  BY <1>2 DEF CalmInv, SilentAfterReply, Initiates
<1>9. ASSUME Matched(u, y)
      PROVE  ~u.bans /\ HeardIsCurrent(u, y) /\ NewFromConnected(u, y) /\ RequestAwaited(u, y)
  <2>1. ~u.bans
    BY <1>4, <1>9 DEF CalmInv
  <2>2. HeardIsCurrent(u, y)
    BY <1>2, <1>4, <1>9 DEF CalmInv, HeardIsCurrent, Initiates
  <2>3. NewFromConnected(u, y)
    BY <1>2, <1>4, <1>9 DEF CalmInv, NewFromConnected
  <2>4. ASSUME Current(y, "ID_CONNECTION_REQUEST")
        PROVE  y.slot.connectMode \in {"REQUESTED_CONNECTION", "HANDLING_CONNECTION_REQUEST"}
    <3>1. CASE x.slot.connectMode \in {"HANDLING_CONNECTION_REQUEST", "CONNECTED"}
      <4>1. Spent(y, x.slot.heard) /\ x.slot.heard # 0
        BY <1>2, <3>1 DEF EndInv, HeardByMode, Spent
      <4>2. y.slot.session = x.slot.heard
        BY <1>2, <1>4, <1>9, <4>1 DEF CalmInv, HeardIsCurrent
      <4> QED
        BY <2>4, <4>1, <4>2 DEF Spent, Current
    <3>2. CASE x.slot.connectMode \in {"UNVERIFIED_SENDER", "REQUESTED_CONNECTION"}
      BY <1>4, <1>9, <2>4, <3>2 DEF CalmInv, RequestAwaited
    <3>3. x.slot.connectMode \notin {"DISCONNECT_ASAP", "DISCONNECT_ON_NO_ACK", "DISCONNECT_ASAP_SILENTLY", "INACTIVE"}
      BY <1>2, <1>4, <1>9 DEF CalmInv, NobodyLeaves, EndInv, RefusedByPassword, Active
    <3>4. x.slot.connectMode \in ConnectMode
      BY DEF Typed
    <3> QED
      BY <3>1, <3>2, <3>3, <3>4 DEF ConnectMode, HalfOpen, Disconnecting
  <2> QED
    BY <2>1, <2>2, <2>3, <2>4 DEF RequestAwaited
<1>10. AcceptanceAwaited(u, y) /\ StillPending(u, y)
  BY <1>2, <1>3 DEF AcceptanceAwaited, StillPending
<1>11. ASSUME Matched(u, y)
       PROVE  /\ ~y.bans /\ HeardIsCurrent(y, u) /\ NewFromConnected(y, u)
              /\ RequestAwaited(y, u) /\ AcceptanceAwaited(y, u) /\ StillPending(y, u)
  <2>1. ~y.bans /\ HeardIsCurrent(y, x) /\ NewFromConnected(y, x) /\ StillPending(y, x)
    BY <1>4, <1>11 DEF CalmInv
  <2>2. HeardIsCurrent(y, u) /\ NewFromConnected(y, u)
    BY <1>2, <1>3, <2>1 DEF HeardIsCurrent, NewFromConnected
  <2>3. RequestAwaited(y, u) /\ AcceptanceAwaited(y, u)
    BY <1>2 DEF RequestAwaited, AcceptanceAwaited
  <2>4. StillPending(y, u)
    BY <1>3, <2>1 DEF StillPending
  <2> QED
    BY <2>1, <2>2, <2>3, <2>4
<1> QED
  BY <1>4, <1>5, <1>6, <1>7, <1>8, <1>9, <1>10, <1>11 DEF CalmInv

(* A peer that is banned for its first message has another password.       *)
LEMMA CalmNonsense ==
    ASSUME NEW x, NEW y, NEW u, NEW v, NEW i \in DOMAIN y.sent,
           CalmInv(x, y), CalmInv(y, x), EndInv(x, y),
           y.sent[i].id \in Unordered \cup Ordered,
           Active(y), y.sent[i].session = y.slot.session,
           x.slot.connectMode = "UNVERIFIED_SENDER", y.sent[i].id # "ID_CONNECTION_REQUEST",
           Frees(u, x), u.sent = <<>>, u.requesting = x.requesting, u.asked = x.asked,
           ~u.slot.weInitiatedTheConnection,
           v.slot = y.slot, v.wrong = y.wrong, v.connected = y.connected, v.bans = y.bans,
           v.requesting = y.requesting, v.asked = y.asked, Thinned(v.sent, y.sent)
    PROVE  CalmInv(u, v) /\ CalmInv(v, u)
<1>1. ~x.slot.weInitiatedTheConnection
  BY DEF EndInv, HeardByMode
<1>2. ~Matched(x, y)
  <2>1. CASE y.sent[i].id \in Reply
    BY <1>1, <2>1 DEF CalmInv, RepliesAwaited, Matched
  <2>2. CASE y.sent[i].id = "ID_NEW_INCOMING_CONNECTION"
    <3>1. Current(y, "ID_NEW_INCOMING_CONNECTION")
      BY <2>2 DEF Current, Has
    <3> QED
      BY <3>1 DEF CalmInv, NewFromConnected
  <2>3. CASE y.sent[i].id = "ID_DISCONNECTION_NOTIFICATION"
    BY <2>3 DEF CalmInv, NobodyLeaves
  <2> QED
    BY <2>1, <2>2, <2>3 DEF Unordered, Ordered, Reply
<1>3. ~Matched(u, v) /\ ~Matched(v, u)
  BY <1>2 DEF Matched, Frees
<1>4. NobodyLeaves(u) /\ NobodyLeaves(v)
  BY DEF CalmInv, NobodyLeaves, Frees, Thinned, Thins
<1>5. RepliesAwaited(u, v)
  <2>1. PICK f : Thins(f, v.sent, y.sent)
    BY DEF Thinned
  <2>2. \A j \in DOMAIN v.sent : ~(~v.wrong /\ Active(v) /\ v.sent[j].session = v.slot.session /\ v.sent[j].id \in Reply)
    BY <1>1, <2>1 DEF CalmInv, RepliesAwaited, Thins, Active
  <2> QED
    BY <2>2 DEF RepliesAwaited
<1>6. RepliesAwaited(v, u)
  BY DEF RepliesAwaited, Frees, Active
<1>7. SilentAfterReply(u, v) /\ SilentAfterReply(v, u)
  BY ThinnedCurrent DEF CalmInv, SilentAfterReply, Frees
<1>8. AskedWhileOpen(u) /\ AskedWhileOpen(v)
  BY DEF CalmInv, AskedWhileOpen
<1> QED
  BY <1>3, <1>4, <1>5, <1>6, <1>7, <1>8 DEF CalmInv

(* The facts about a message that is handled and of the session the other  *)
(* side is in.                                                             *)
HandlesCurrent(u, v, x, y, i, mode, answer) ==
    /\ Handles(u, v, x, y, i, mode, answer)
    /\ Active(y) /\ y.sent[i].session = y.slot.session

(* The current messages of both sides after it.                            *)
LEMMA CurrentHandled ==
    ASSUME NEW x, NEW y, NEW u, NEW v, NEW i, NEW mode, NEW answer,
           HandlesCurrent(u, v, x, y, i, mode, answer)
    PROVE  /\ Active(u) /\ Active(x) /\ Active(y) /\ Active(v)
           /\ \A id : Current(v, id) => Current(y, id)
           /\ \A id : id # y.sent[i].id => (Current(y, id) <=> Current(v, id))
           /\ \A id : Current(x, id) => Current(u, id)
           /\ \A id : Current(u, id) /\ answer # <<id>> => Current(x, id)
           /\ u.sent # x.sent => \A id : answer = <<id>> => Current(u, id)
           /\ Current(y, y.sent[i].id)
<1>1. Active(u) /\ Active(x) /\ Active(y) /\ Active(v)
  BY DEF HandlesCurrent, Handles, IsHandled, Active
<1>2. /\ Thinned(v.sent, y.sent) /\ KeepsAllBut(i, v.sent, y.sent) /\ v.slot = y.slot
      /\ i \in DOMAIN y.sent /\ u.slot.session = x.slot.session
  BY DEF HandlesCurrent, Handles, Thinned
<1>3. /\ \A id : Current(v, id) => Current(y, id)
      /\ \A id : id # y.sent[i].id => (Current(y, id) <=> Current(v, id))
  BY <1>2, ThinnedCurrent
<1>4. /\ \A j \in DOMAIN u.sent :
           \/ j \in DOMAIN x.sent /\ u.sent[j] = x.sent[j]
           \/ answer = <<u.sent[j].id>> /\ u.sent[j].session = x.slot.session /\ j \notin DOMAIN x.sent
      /\ \A j \in DOMAIN x.sent : j \in DOMAIN u.sent /\ u.sent[j] = x.sent[j]
  BY HandlesSent DEF HandlesCurrent
<1>5. /\ \A id : Current(x, id) => Current(u, id)
      /\ \A id : Current(u, id) /\ answer # <<id>> => Current(x, id)
  BY <1>1, <1>2, <1>4 DEF Current, Has
<1>6. ASSUME u.sent # x.sent, NEW id, answer = <<id>> PROVE Current(u, id)
  <2>1. PICK a : answer = <<a>> /\ Adds(u.sent, x.sent, [id |-> a, session |-> x.slot.session])
    BY <1>6 DEF HandlesCurrent, Handles
  <2>2. a = id
    BY <1>6, <2>1
  <2> QED
    BY <1>1, <1>2, <2>1, <2>2 DEF Adds, Current, Has
<1>7. Current(y, y.sent[i].id)
  BY <1>1, <1>2 DEF HandlesCurrent, Current, Has
<1> QED
  BY <1>1, <1>3, <1>5, <1>6, <1>7

(* An answer to a request is the only reply the other side has to expect.  *)
LEMMA AnswerAwaited ==
    ASSUME NEW x, NEW y, NEW u, NEW v, NEW i, NEW mode, NEW answer,
           HandlesCurrent(u, v, x, y, i, mode, answer), y.sent[i].id = "ID_CONNECTION_REQUEST",
           CalmInv(y, x), EndInv(y, x), Typed(y)
    PROVE  RepliesAwaited(v, u)
<1>1. Current(y, "ID_CONNECTION_REQUEST")
  BY CurrentHandled
<1>2. y.slot.weInitiatedTheConnection
  BY <1>1 DEF EndInv, OneRequest
<1>3. ASSUME ~x.wrong
      PROVE  /\ y.slot.connectMode # "DISCONNECT_ASAP_SILENTLY"
             /\ \A j \in DOMAIN x.sent : ~(x.sent[j].session = x.slot.session /\ x.sent[j].id \in Reply)
  BY <1>1, <1>3, CurrentHandled DEF CalmInv, SilentAfterReply, RepliesAwaited
<1>4. ~Current(v, "ID_CONNECTION_REQUEST")
  <2>1. Spent(v, y.sent[i].session)
    BY RequestTaken DEF HandlesCurrent, EndInv
  <2>2. y.sent[i].session = v.slot.session
    BY DEF HandlesCurrent, Handles
  <2> QED
    BY <2>1, <2>2 DEF Spent, Current
<1>5. ASSUME ~x.wrong, NEW j \in DOMAIN u.sent, u.sent[j].session = u.slot.session, u.sent[j].id \in Reply
      PROVE  j \notin DOMAIN x.sent
  <2>1. u.slot.session = x.slot.session
    BY DEF HandlesCurrent, Handles
  <2> QED
    BY <1>3, <1>5, <2>1, HandlesSent DEF HandlesCurrent
<1>6. \A j, k \in DOMAIN u.sent : j \in DOMAIN x.sent \/ k \in DOMAIN x.sent \/ j = k
  BY HandlesSent DEF HandlesCurrent
<1>7. u.wrong = x.wrong /\ v.slot = y.slot
  BY DEF HandlesCurrent, Handles
<1>8. Active(v)
  BY CurrentHandled
<1> QED
  BY <1>2, <1>3, <1>4, <1>5, <1>6, <1>7, <1>8 DEF RepliesAwaited

(* What every message handled leaves as it was.                            *)
LEMMA CalmHandledBase ==
    ASSUME NEW x, NEW y, NEW u, NEW v, NEW i, NEW mode, NEW answer,
           HandlesCurrent(u, v, x, y, i, mode, answer),
           CalmInv(x, y), CalmInv(y, x), EndInv(x, y), EndInv(y, x)
    PROVE  /\ NobodyLeaves(u) /\ NobodyLeaves(v) /\ SilentAfterReply(v, u) /\ AskedWhileOpen(v)
           /\ (Matched(u, v) <=> Matched(x, y)) /\ (Matched(v, u) <=> Matched(x, y))
           /\ (Matched(y, x) <=> Matched(x, y))
           /\ Matched(x, y) => ~u.bans /\ ~v.bans /\ HeardIsCurrent(u, v) /\ HeardIsCurrent(v, u)
           /\ y.sent[i].id # "ID_DISCONNECTION_NOTIFICATION"
<1> DEFINE m == y.sent[i]
           was == x.slot.connectMode
<1>1. /\ IsHandled(was, m.id, y.wrong, mode, answer) /\ i \in DOMAIN y.sent /\ v.slot = y.slot
      /\ u.slot.connectMode = mode /\ u.slot.heard = m.session /\ u.slot.session = x.slot.session
      /\ was = "UNVERIFIED_SENDER" => m.id = "ID_CONNECTION_REQUEST"
      /\ m.session = y.slot.session
      /\ u.wrong = x.wrong /\ v.wrong = y.wrong /\ u.bans = x.bans /\ v.bans = y.bans
      /\ v.connected = y.connected /\ v.asked = y.asked /\ v.requesting = y.requesting
      /\ Thinned(v.sent, y.sent)
  BY DEF HandlesCurrent, Handles, Thinned
<1>2. m.id # "ID_DISCONNECTION_NOTIFICATION"
  BY <1>1 DEF CalmInv, NobodyLeaves
<1>3. u.connected = IF /\ m.id \in {"ID_CONNECTION_REQUEST_ACCEPTED", "ID_NEW_INCOMING_CONNECTION",
                                    "ID_INVALID_PASSWORD"}
                       /\ mode # was
                      THEN m.id # "ID_INVALID_PASSWORD" ELSE x.connected
  BY DEF HandlesCurrent, Handles
<1>4. Active(u) /\ Active(x) /\ Active(y) /\ Active(v)
  BY CurrentHandled
<1> HIDE DEF m, was
<1>5. NobodyLeaves(u)
  <2>1. mode \notin {"DISCONNECT_ASAP", "DISCONNECT_ON_NO_ACK"}
    BY <1>1, <1>2 DEF IsHandled, CalmInv, NobodyLeaves, was
  <2>2. ASSUME NEW j \in DOMAIN u.sent PROVE u.sent[j].id # "ID_DISCONNECTION_NOTIFICATION"
    <3>1. answer # <<"ID_DISCONNECTION_NOTIFICATION">>
      BY <1>1, AnswerId
    <3>2. \/ j \in DOMAIN x.sent /\ u.sent[j] = x.sent[j]
          \/ answer = <<u.sent[j].id>>
      BY HandlesSent DEF HandlesCurrent
    <3> QED
      BY <3>1, <3>2 DEF CalmInv, NobodyLeaves
  <2>3. mode = "CONNECTED" => u.connected
    <3>1. CASE mode = was
      BY <1>3, <3>1 DEF CalmInv, NobodyLeaves, was
    <3>2. CASE mode # was
      BY <1>1, <1>3, <3>2 DEF IsHandled
    <3> QED
      BY <3>1, <3>2
  <2> QED
    BY <1>1, <2>1, <2>2, <2>3 DEF NobodyLeaves
<1>6. NobodyLeaves(v)
  BY <1>1 DEF CalmInv, NobodyLeaves, Thinned, Thins
<1>7. SilentAfterReply(v, u) /\ AskedWhileOpen(v)
  BY <1>1, CurrentHandled DEF CalmInv, SilentAfterReply, AskedWhileOpen
<1>8. (Matched(u, v) <=> Matched(x, y)) /\ (Matched(v, u) <=> Matched(x, y)) /\ (Matched(y, x) <=> Matched(x, y))
  BY <1>1 DEF Matched
<1>9. ASSUME Matched(x, y) PROVE ~u.bans /\ ~v.bans /\ HeardIsCurrent(u, v) /\ HeardIsCurrent(v, u)
  <2>1. y.slot.connectMode # "UNVERIFIED_SENDER"
    BY <1>1 DEF EndInv, HeardByMode, m
  <2>2. mode # "UNVERIFIED_SENDER"
    BY <1>1 DEF IsHandled
  <2> QED
    BY <1>1, <1>4, <1>8, <1>9, <2>1, <2>2 DEF CalmInv, HeardIsCurrent
<1> QED
  BY <1>2, <1>5, <1>6, <1>7, <1>8, <1>9 DEF m

(* A message that answers an attempt finds it open.                        *)
LEMMA AskedHandled ==
    ASSUME NEW x, NEW y, NEW u, NEW v, NEW i, NEW mode, NEW answer,
           HandlesCurrent(u, v, x, y, i, mode, answer),
           CalmInv(x, y), EndInv(x, y),
           u.asked = (x.asked /\ ~(/\ y.sent[i].id \in {"ID_CONNECTION_REQUEST_ACCEPTED", "ID_INVALID_PASSWORD"}
                                   /\ mode # x.slot.connectMode))
    PROVE  /\ AskedWhileOpen(u)
           /\ /\ y.sent[i].id \in {"ID_CONNECTION_REQUEST_ACCEPTED", "ID_INVALID_PASSWORD"}
              /\ mode # x.slot.connectMode
              => x.asked /\ x.slot.weInitiatedTheConnection
<1> DEFINE m == y.sent[i]
           was == x.slot.connectMode
<1>1. /\ IsHandled(was, m.id, y.wrong, mode, answer) /\ i \in DOMAIN y.sent
      /\ u.slot.connectMode = mode /\ u.requesting = x.requesting
      /\ u.slot.weInitiatedTheConnection = x.slot.weInitiatedTheConnection
      /\ m.session = y.slot.session /\ Active(y) /\ Active(x)
  BY DEF HandlesCurrent, Handles
<1>2. ASSUME m.id \in {"ID_CONNECTION_REQUEST_ACCEPTED", "ID_INVALID_PASSWORD"}, mode # was
      PROVE  x.asked /\ x.slot.weInitiatedTheConnection
  <2>1. was \in {"HANDLING_CONNECTION_REQUEST", "REQUESTED_CONNECTION"}
    BY <1>1, <1>2 DEF IsHandled
  <2>2. m.id \in Reply
    BY <1>2 DEF Reply
  <2>3. x.slot.weInitiatedTheConnection
    <3>1. CASE was = "REQUESTED_CONNECTION"
      BY <3>1 DEF EndInv, OneRequest
    <3>2. CASE was = "HANDLING_CONNECTION_REQUEST"
      <4>1. ~y.wrong
        BY <3>2 DEF EndInv, RefusedByPassword
      <4> QED
        BY <1>1, <2>2, <4>1 DEF CalmInv, RepliesAwaited
    <3> QED
      BY <2>1, <3>1, <3>2
  <2> QED
    BY <2>1, <2>3 DEF CalmInv, AskedWhileOpen
<1>3. AskedWhileOpen(u)
  <2>1. CASE m.id \in {"ID_CONNECTION_REQUEST_ACCEPTED", "ID_INVALID_PASSWORD"} /\ mode # was
    <3>1. ~x.requesting
      BY <1>1, <1>2, <2>1 DEF EndInv, OneRequest
    <3>2. mode \notin {"HANDLING_CONNECTION_REQUEST", "REQUESTED_CONNECTION"}
      BY <1>1, <2>1 DEF IsHandled
    <3> QED
      BY <1>1, <3>1, <3>2 DEF AskedWhileOpen
  <2>2. CASE ~(m.id \in {"ID_CONNECTION_REQUEST_ACCEPTED", "ID_INVALID_PASSWORD"} /\ mode # was)
    <3>1. u.asked <=> x.asked
      BY <2>2
    <3>2. mode = "HANDLING_CONNECTION_REQUEST" /\ x.slot.weInitiatedTheConnection => 
             was \in {"HANDLING_CONNECTION_REQUEST", "REQUESTED_CONNECTION"}
      BY <1>1 DEF IsHandled, EndInv, HeardByMode
    <3>3. mode = "REQUESTED_CONNECTION" => was = "REQUESTED_CONNECTION"
      BY <1>1 DEF IsHandled
    <3> QED
      BY <1>1, <3>1, <3>2, <3>3 DEF CalmInv, AskedWhileOpen
  <2> QED
    BY <2>1, <2>2
<1> QED
  BY <1>2, <1>3

(* Replies stay awaited when a message is handled.                         *)
LEMMA RepliesHandled ==
    ASSUME NEW x, NEW y, NEW u, NEW v, NEW i, NEW mode, NEW answer,
           HandlesCurrent(u, v, x, y, i, mode, answer),
           CalmInv(x, y), CalmInv(y, x), EndInv(x, y), EndInv(y, x), Typed(y)
    PROVE  RepliesAwaited(u, v) /\ RepliesAwaited(v, u) /\ SilentAfterReply(u, v)
<1> DEFINE m == y.sent[i]
           was == x.slot.connectMode
<1>1. /\ IsHandled(was, m.id, y.wrong, mode, answer) /\ i \in DOMAIN y.sent /\ v.slot = y.slot
      /\ u.slot.connectMode = mode /\ u.slot.session = x.slot.session
      /\ u.slot.weInitiatedTheConnection = x.slot.weInitiatedTheConnection
      /\ m.session = y.slot.session
      /\ u.wrong = x.wrong /\ v.wrong = y.wrong
      /\ Thinned(v.sent, y.sent)
  BY DEF HandlesCurrent, Handles, Thinned
<1>2. /\ Active(u) /\ Active(x) /\ Active(y) /\ Active(v)
      /\ \A id : Current(v, id) => Current(y, id)
  BY CurrentHandled
<1>3. Current(u, "ID_CONNECTION_REQUEST") => Current(x, "ID_CONNECTION_REQUEST")
  <2>1. answer # <<"ID_CONNECTION_REQUEST">>
    BY <1>1, AnswerId
  <2> QED
    BY <2>1, CurrentHandled
<1>4. RepliesAwaited(x, y) /\ RepliesAwaited(y, x) /\ SilentAfterReply(x, y)
  BY DEF CalmInv
<1> DEFINE SilencedNow == mode = "DISCONNECT_ASAP_SILENTLY" /\ was # "DISCONNECT_ASAP_SILENTLY"
<1>5. SilencedNow => y.wrong \/ m.id = "ID_INVALID_PASSWORD"
  BY <1>1 DEF IsHandled
<1>6. m.id = "ID_INVALID_PASSWORD" /\ ~y.wrong =>
        /\ \A j \in DOMAIN y.sent : y.sent[j].session = y.slot.session /\ y.sent[j].id \in Reply => i = j
        /\ ~Current(x, "ID_CONNECTION_REQUEST")
  BY <1>1, <1>2, <1>4 DEF RepliesAwaited, Reply
<1>7. PICK f : Thins(f, v.sent, y.sent) /\ \A k \in DOMAIN v.sent : f[k] # i
  BY DEF HandlesCurrent, Handles
<1> HIDE DEF m, was
<1>8. RepliesAwaited(u, v)
  <2>1. CASE ~SilencedNow
    <3>1. u.slot.connectMode = "DISCONNECT_ASAP_SILENTLY" => x.slot.connectMode = "DISCONNECT_ASAP_SILENTLY"
      BY <1>1, <2>1 DEF was
    <3> QED
      BY <1>1, <1>2, <1>3, <1>4, <3>1, RepliesThinned
  <2>2. CASE y.wrong
    BY <1>1, <2>2 DEF RepliesAwaited
  <2>3. CASE m.id = "ID_INVALID_PASSWORD" /\ ~y.wrong
    <3>1. \A j \in DOMAIN v.sent : ~(v.sent[j].session = v.slot.session /\ v.sent[j].id \in Reply)
      BY <1>1, <1>6, <1>7, <2>3 DEF Thins
    <3> QED
      BY <3>1 DEF RepliesAwaited
  <2> QED
    BY <1>5, <2>1, <2>2, <2>3
<1>9. SilentAfterReply(u, v)
  BY <1>1, <1>3, <1>4, <1>5, <1>6 DEF SilentAfterReply, was
<1>10. RepliesAwaited(v, u)
  <2>1. CASE m.id = "ID_CONNECTION_REQUEST"
    BY <2>1, AnswerAwaited DEF m
  <2>2. CASE m.id # "ID_CONNECTION_REQUEST"
    <3>1. \A a : answer = <<a>> => a \notin Reply
      <4>1. ASSUME NEW a, answer = <<a>> PROVE a \notin Reply
        <5>1. IsHandled(was, m.id, y.wrong, mode, <<a>>)
          BY <1>1, <4>1
        <5>2. a = "ID_NEW_INCOMING_CONNECTION"
          BY <2>2, <5>1, AnswerId
        <5> QED
          BY <5>2 DEF Reply
      <4> QED
        BY <4>1
    <3>2. ASSUME NEW j \in DOMAIN u.sent, u.sent[j].id \in Reply
          PROVE  j \in DOMAIN x.sent /\ u.sent[j] = x.sent[j]
      BY <3>1, <3>2, HandlesSent DEF HandlesCurrent
    <3> QED
      BY <1>1, <1>2, <1>4, <3>2 DEF RepliesAwaited
  <2> QED
    BY <2>1, <2>2
<1> QED
  BY <1>8, <1>9, <1>10

(* What a handshake still waits for when the passwords match.              *)
Awaited(x, y) ==
    NewFromConnected(x, y) /\ RequestAwaited(x, y) /\ AcceptanceAwaited(x, y) /\ StillPending(x, y)

(* An ID_CONNECTION_REQUEST handled.                                       *)
LEMMA RequestHandled ==
    ASSUME NEW x, NEW y, NEW u, NEW v, NEW i, NEW mode, NEW answer,
           HandlesCurrent(u, v, x, y, i, mode, answer), y.sent[i].id = "ID_CONNECTION_REQUEST",
           CalmInv(x, y), CalmInv(y, x), EndInv(x, y), EndInv(y, x), Typed(x), Typed(y), Matched(x, y)
    PROVE  Awaited(u, v) /\ Awaited(v, u)
<1> DEFINE m == y.sent[i]
           was == x.slot.connectMode
           accepted == "ID_CONNECTION_REQUEST_ACCEPTED"
<1>1. /\ IsHandled(was, m.id, y.wrong, mode, answer) /\ v.slot = y.slot
      /\ u.slot.connectMode = mode
      /\ u.slot.weInitiatedTheConnection = x.slot.weInitiatedTheConnection
      /\ x.slot.heard \in {0, m.session} /\ m.session = y.slot.session
  BY DEF HandlesCurrent, Handles
<1>2. ~x.wrong /\ ~y.wrong /\ Matched(y, x)
  BY DEF Matched
<1>3. Awaited(x, y) /\ Awaited(y, x)
  BY <1>2 DEF CalmInv, Awaited
<1>4. Current(y, "ID_CONNECTION_REQUEST") /\ y.slot.weInitiatedTheConnection
  BY CurrentHandled DEF EndInv, OneRequest
<1>5. ~Spent(y, y.slot.session)
  BY <1>4 DEF Spent, Current
<1>6. \/ was \in {"UNVERIFIED_SENDER", "REQUESTED_CONNECTION"} /\ mode = "HANDLING_CONNECTION_REQUEST"
      \/ was = "CONNECTED" /\ mode = "CONNECTED" /\ x.slot.weInitiatedTheConnection
  <2>1. CASE was \in {"UNVERIFIED_SENDER", "REQUESTED_CONNECTION"}
    BY <1>1, <1>2, <2>1 DEF IsHandled
  <2>2. CASE was \notin {"UNVERIFIED_SENDER", "REQUESTED_CONNECTION"}
    <3>1. mode = was
      BY <1>1, <2>2 DEF IsHandled
    <3>2. was \notin {"DISCONNECT_ASAP", "DISCONNECT_ON_NO_ACK", "DISCONNECT_ASAP_SILENTLY", "INACTIVE"}
      BY CurrentHandled DEF CalmInv, NobodyLeaves, EndInv, RefusedByPassword, Active
    <3>3. was # "HANDLING_CONNECTION_REQUEST"
      <4>1. was = "HANDLING_CONNECTION_REQUEST" => Spent(y, x.slot.heard) /\ x.slot.heard # 0
        BY DEF EndInv, HeardByMode, Spent
      <4> QED
        BY <1>1, <1>5, <4>1
    <3>4. was = "CONNECTED" => x.slot.weInitiatedTheConnection
      <4>1. was = "CONNECTED" => x.slot.heard # 0 /\ (x.slot.weInitiatedTheConnection \/ Spent(y, x.slot.heard))
        BY DEF EndInv, HeardByMode
      <4> QED
        BY <1>1, <1>5, <4>1
    <3>5. was \in ConnectMode
      BY DEF Typed
    <3> QED
      BY <2>2, <3>1, <3>2, <3>3, <3>4, <3>5 DEF ConnectMode, HalfOpen, Disconnecting
  <2> QED
    BY <2>1, <2>2
<1>7. answer = <<accepted>>
  BY <1>1, <1>2 DEF IsHandled
<1>8. Current(u, accepted)
  <2>1. was \notin Disconnecting /\ answer # <<>>
    BY <1>6, <1>7 DEF Disconnecting
  <2>2. PICK a : answer = <<a>> /\ Adds(u.sent, x.sent, [id |-> a, session |-> x.slot.session])
    BY <2>1 DEF HandlesCurrent, Handles
  <2>3. u.sent # x.sent
    BY <2>2 DEF Adds
  <2> QED
    BY <1>7, <2>3, CurrentHandled
<1>9. /\ \A id : Current(v, id) => Current(y, id)
      /\ \A id : id # "ID_CONNECTION_REQUEST" => (Current(y, id) <=> Current(v, id))
      /\ \A id : id # accepted => (Current(x, id) <=> Current(u, id))
  <2>1. \A id : id # accepted => answer # <<id>>
    BY <1>7
  <2> QED
    BY <2>1, CurrentHandled
<1>10. Active(u) /\ Active(v)
  BY CurrentHandled
<1> HIDE DEF m, was, accepted
<1>11. Awaited(u, v)
  <2>1. NewFromConnected(u, v)
    BY <1>1, <1>3, <1>6, <1>9, <1>10 DEF Awaited, NewFromConnected
  <2>2. RequestAwaited(u, v)
    BY <1>1, <1>6 DEF RequestAwaited
  <2>3. AcceptanceAwaited(u, v)
    BY <1>1, <1>3, <1>4, <1>6 DEF Awaited, RequestAwaited, AcceptanceAwaited, was
  <2>4. StillPending(u, v)
    BY <1>1, <1>6, <1>8 DEF StillPending, accepted
  <2> QED
    BY <2>1, <2>2, <2>3, <2>4 DEF Awaited
<1>12. Awaited(v, u)
  <2>1. NewFromConnected(v, u)
    BY <1>1, <1>3, <1>6, <1>9, <1>10 DEF Awaited, NewFromConnected, was, accepted, Active
  <2>2. RequestAwaited(v, u)
    BY <1>1, <1>3, <1>6, <1>9, <1>10 DEF Awaited, RequestAwaited, was, accepted
  <2>3. AcceptanceAwaited(v, u)
    BY <1>1, <1>3, <1>6, <1>9, <1>10 DEF Awaited, AcceptanceAwaited, was, accepted
  <2>4. StillPending(v, u)
    BY <1>1, <1>4, <1>8 DEF StillPending, accepted
  <2> QED
    BY <2>1, <2>2, <2>3, <2>4 DEF Awaited
<1> QED
  BY <1>11, <1>12

(* An ID_CONNECTION_REQUEST_ACCEPTED or ID_NEW_INCOMING_CONNECTION handled. *)
LEMMA AcceptanceHandled ==
    ASSUME NEW x, NEW y, NEW u, NEW v, NEW i, NEW mode, NEW answer,
           HandlesCurrent(u, v, x, y, i, mode, answer),
           y.sent[i].id \in {"ID_CONNECTION_REQUEST_ACCEPTED", "ID_NEW_INCOMING_CONNECTION"},
           CalmInv(x, y), CalmInv(y, x), EndInv(x, y), EndInv(y, x), Matched(x, y)
    PROVE  Awaited(u, v) /\ Awaited(v, u)
<1> DEFINE m == y.sent[i]
           was == x.slot.connectMode
           accepted == "ID_CONNECTION_REQUEST_ACCEPTED"
           new == "ID_NEW_INCOMING_CONNECTION"
           request == "ID_CONNECTION_REQUEST"
<1>1. /\ IsHandled(was, m.id, y.wrong, mode, answer) /\ v.slot = y.slot
      /\ u.slot.connectMode = mode /\ i \in DOMAIN y.sent
      /\ u.slot.weInitiatedTheConnection = x.slot.weInitiatedTheConnection
      /\ m.session = y.slot.session
      /\ was = "UNVERIFIED_SENDER" => m.id = request
  BY DEF HandlesCurrent, Handles
<1>2. ~x.wrong /\ ~y.wrong /\ Matched(y, x)
  BY DEF Matched
<1>3. Awaited(x, y) /\ Awaited(y, x) /\ RepliesAwaited(x, y)
  BY <1>2 DEF CalmInv, Awaited
<1>4. /\ Active(u) /\ Active(x) /\ Active(y) /\ Active(v)
      /\ \A id : Current(v, id) => Current(y, id)
      /\ \A id : id # m.id => (Current(y, id) <=> Current(v, id))
      /\ \A id : Current(x, id) => Current(u, id)
      /\ \A id : Current(u, id) /\ answer # <<id>> => Current(x, id)
      /\ Current(y, m.id)
  BY CurrentHandled
<1>5. PICK f : Thins(f, v.sent, y.sent) /\ \A k \in DOMAIN v.sent : f[k] # i
  BY DEF HandlesCurrent, Handles
<1>6. m.id = accepted =>
        /\ \A j \in DOMAIN y.sent : y.sent[j].session = y.slot.session /\ y.sent[j].id \in Reply => i = j
        /\ x.slot.weInitiatedTheConnection /\ ~Current(x, request)
  BY <1>1, <1>2, <1>3, <1>4 DEF RepliesAwaited, Reply
<1>7. m.id = accepted => ~Current(v, accepted)
  BY <1>1, <1>5, <1>6 DEF Current, Has, Thins, Reply
<1> HIDE DEF m, was, accepted, new, request
<1>9. CASE m.id = accepted /\ was \in {"HANDLING_CONNECTION_REQUEST", "REQUESTED_CONNECTION"}
  <2>1. mode = "CONNECTED" /\ answer = <<new>>
    BY <1>1, <1>9 DEF IsHandled, accepted, new
  <2>2. Current(u, new)
    <3>1. was \notin Disconnecting /\ answer # <<>>
      BY <1>9, <2>1 DEF Disconnecting
    <3>2. PICK a : answer = <<a>> /\ Adds(u.sent, x.sent, [id |-> a, session |-> x.slot.session])
      BY <3>1 DEF HandlesCurrent, Handles, was
    <3>3. u.sent # x.sent
      BY <3>2 DEF Adds
    <3> QED
      BY <2>1, <3>3, CurrentHandled
  <2>3. \A id : id # new => (Current(u, id) <=> Current(x, id))
    <3>1. \A id : id # new => answer # <<id>>
      BY <2>1
    <3> QED
      BY <1>4, <3>1
  <2>4. Awaited(u, v)
    <3>1. NewFromConnected(u, v)
      BY <1>1, <1>3, <1>4, <2>1 DEF Awaited, NewFromConnected
    <3>2. RequestAwaited(u, v) /\ AcceptanceAwaited(u, v) /\ StillPending(u, v)
      BY <1>1, <2>1 DEF RequestAwaited, AcceptanceAwaited, StillPending
    <3> QED
      BY <3>1, <3>2 DEF Awaited
  <2>5. Awaited(v, u)
    <3>1. y.slot.connectMode # "UNVERIFIED_SENDER"
      BY <1>1 DEF EndInv, HeardByMode, m
    <3>2. NewFromConnected(v, u)
      BY <1>1, <1>4, <1>6, <1>9, <2>1, <3>1 DEF NewFromConnected
    <3>3. RequestAwaited(v, u)
      BY <1>6, <1>9, <2>3 DEF RequestAwaited, request, new
    <3>4. AcceptanceAwaited(v, u)
      BY <1>7, <1>9 DEF AcceptanceAwaited, accepted
    <3>5. StillPending(v, u)
      <4>1. Current(v, request) <=> Current(y, request)
        BY <1>4, <1>9 DEF request, accepted
      <4>2. Current(u, accepted) <=> Current(x, accepted)
        BY <2>3 DEF accepted, new
      <4> QED
        BY <1>1, <1>3, <2>2, <4>1, <4>2 DEF Awaited, StillPending, request, accepted, new
    <3> QED
      BY <3>2, <3>3, <3>4, <3>5 DEF Awaited
  <2> QED
    BY <2>4, <2>5
<1>10. CASE m.id = new /\ was = "HANDLING_CONNECTION_REQUEST"
  <2>1. mode = "CONNECTED" /\ answer = <<>>
    BY <1>1, <1>10 DEF IsHandled, new
  <2>2. \A id : Current(u, id) <=> Current(x, id)
    BY <1>4, <2>1
  <2>3. y.slot.connectMode = "CONNECTED"
    BY <1>3, <1>4, <1>10 DEF Awaited, NewFromConnected, new
  <2>4. Awaited(u, v)
    <3>1. NewFromConnected(u, v)
      BY <1>1, <1>3, <1>4, <2>1 DEF Awaited, NewFromConnected
    <3>2. RequestAwaited(u, v) /\ AcceptanceAwaited(u, v) /\ StillPending(u, v)
      BY <1>1, <2>1 DEF RequestAwaited, AcceptanceAwaited, StillPending
    <3> QED
      BY <3>1, <3>2 DEF Awaited
  <2>5. Awaited(v, u)
    <3>1. NewFromConnected(v, u)
      BY <1>3, <1>10, <2>2 DEF Awaited, NewFromConnected, was
    <3>2. RequestAwaited(v, u) /\ AcceptanceAwaited(v, u) /\ StillPending(v, u)
      BY <1>1, <2>3 DEF RequestAwaited, AcceptanceAwaited, StillPending
    <3> QED
      BY <3>1, <3>2 DEF Awaited
  <2> QED
    BY <2>4, <2>5
<1>11. CASE \/ m.id = accepted /\ was \notin {"HANDLING_CONNECTION_REQUEST", "REQUESTED_CONNECTION"}
            \/ m.id = new /\ was # "HANDLING_CONNECTION_REQUEST"
  <2>1. mode = was /\ answer = <<>>
    BY <1>1, <1>11 DEF IsHandled, new, accepted
  <2>2. \A id : Current(u, id) <=> Current(x, id)
    BY <1>4, <2>1
  <2>3. Current(v, request) <=> Current(y, request)
    BY <1>4, <1>11 DEF request, new, accepted
  <2>4. Awaited(u, v)
    <3>1. NewFromConnected(u, v)
      BY <1>1, <1>3, <1>4, <2>1 DEF Awaited, NewFromConnected, was
    <3>2. RequestAwaited(u, v) /\ AcceptanceAwaited(u, v)
      BY <1>1, <1>3, <1>4, <2>1, <2>2 DEF Awaited, RequestAwaited, AcceptanceAwaited, was
    <3>3. StillPending(u, v)
      <4>1. CASE was = "REQUESTED_CONNECTION"
        <5>1. Current(v, accepted) <=> Current(y, accepted)
          BY <1>4, <1>11, <4>1 DEF new, accepted
        <5> QED
          BY <1>1, <1>3, <2>1, <2>2, <4>1, <5>1 DEF Awaited, StillPending, was, accepted
      <4>2. CASE was # "REQUESTED_CONNECTION"
        <5>1. was # "HANDLING_CONNECTION_REQUEST"
          BY <1>11, <4>2
        <5> QED
          BY <1>1, <2>1, <4>2, <5>1 DEF StillPending
      <4> QED
        BY <4>1, <4>2
    <3> QED
      BY <3>1, <3>2, <3>3 DEF Awaited
  <2>5. Awaited(v, u)
    <3>1. NewFromConnected(v, u)
      BY <1>1, <1>3, <1>4, <2>1, <2>2 DEF Awaited, NewFromConnected, was
    <3>2. RequestAwaited(v, u) /\ AcceptanceAwaited(v, u)
      BY <1>1, <1>3, <1>4, <2>1, <2>2 DEF Awaited, RequestAwaited, AcceptanceAwaited, was
    <3>3. y.slot.connectMode = "HANDLING_CONNECTION_REQUEST" =>
            (Current(y, accepted) => Current(v, accepted))
      BY <1>3, <1>4, <1>11 DEF Awaited, AcceptanceAwaited, was, accepted, new
    <3>4. StillPending(v, u)
      BY <1>1, <1>3, <2>2, <2>3, <3>3 DEF Awaited, StillPending, request, accepted, new
    <3> QED
      BY <3>1, <3>2, <3>4 DEF Awaited
  <2> QED
    BY <2>4, <2>5
<1> QED
  BY <1>9, <1>10, <1>11 DEF m, accepted, new

(* A message handled, of the session the other side is in.                 *)
LEMMA CalmHandle ==
    ASSUME NEW x, NEW y, NEW u, NEW v, NEW i, NEW mode, NEW answer,
           HandlesCurrent(u, v, x, y, i, mode, answer), y.sent[i].id \in Unordered \cup Ordered,
           CalmInv(x, y), CalmInv(y, x), EndInv(x, y), EndInv(y, x), Typed(x), Typed(y),
           u.asked = (x.asked /\ ~(/\ y.sent[i].id \in {"ID_CONNECTION_REQUEST_ACCEPTED", "ID_INVALID_PASSWORD"}
                                   /\ mode # x.slot.connectMode))
    PROVE  CalmInv(u, v) /\ CalmInv(v, u)
<1>1. /\ NobodyLeaves(u) /\ NobodyLeaves(v) /\ SilentAfterReply(v, u) /\ AskedWhileOpen(v)
      /\ (Matched(u, v) <=> Matched(x, y)) /\ (Matched(v, u) <=> Matched(x, y))
      /\ Matched(x, y) => ~u.bans /\ ~v.bans /\ HeardIsCurrent(u, v) /\ HeardIsCurrent(v, u)
      /\ y.sent[i].id # "ID_DISCONNECTION_NOTIFICATION"
  BY CalmHandledBase
<1>2. AskedWhileOpen(u)
  BY AskedHandled
<1>3. RepliesAwaited(u, v) /\ RepliesAwaited(v, u) /\ SilentAfterReply(u, v)
  BY RepliesHandled
<1>4. ASSUME Matched(x, y) PROVE Awaited(u, v) /\ Awaited(v, u)
  <2>1. y.sent[i].id # "ID_INVALID_PASSWORD"
    BY <1>4 DEF EndInv, RefusedByPassword, Matched, HandlesCurrent, Handles
  <2>2. CASE y.sent[i].id = "ID_CONNECTION_REQUEST"
    BY <1>4, <2>2, RequestHandled
  <2>3. CASE y.sent[i].id \in {"ID_CONNECTION_REQUEST_ACCEPTED", "ID_NEW_INCOMING_CONNECTION"}
    BY <1>4, <2>3, AcceptanceHandled
  <2> QED
    BY <1>1, <2>1, <2>2, <2>3 DEF Unordered, Ordered
<1> QED
  BY <1>1, <1>2, <1>3, <1>4 DEF CalmInv, Awaited

-----------------------------------------------------------------------------
(* From the two sides to the whole state.                                  *)

(* The sides of a well typed state are.                                    *)
LEMMA SidesTyped ==
    ASSUME TypeOK, NEW p \in Peer, NEW q \in Peer
    PROVE  /\ Typed(Side(p, q))
           /\ Side(p, q).slot \in RemoteSystemStruct /\ Side(p, q).sent \in Seq(OnlineMessage)
           /\ \A i \in DOMAIN Side(p, q).sent : Side(p, q).sent[i].id \in Unordered \cup Ordered
<1>1. remoteSystemList[p][q] \in RemoteSystemStruct /\ online[p][q] \in Seq(OnlineMessage)
  BY DEF TypeOK
<1>2. Side(p, q).slot = remoteSystemList[p][q] /\ Side(p, q).sent = online[p][q]
  BY DEF Side
<1>3. \A i \in DOMAIN online[p][q] : online[p][q][i] \in OnlineMessage
  BY <1>1
<1>4. /\ remoteSystemList[p][q].connectMode \in ConnectMode
      /\ remoteSystemList[p][q].session \in Nat /\ remoteSystemList[p][q].heard \in Nat
  BY <1>1, PeerAssumption DEF RemoteSystemStruct
<1>5. \A i \in DOMAIN online[p][q] : /\ online[p][q][i].session \in Nat \ {0}
                                     /\ online[p][q][i].id \in Unordered \cup Ordered
  BY <1>3, PeerAssumption DEF OnlineMessage
<1> QED
  BY <1>1, <1>2, <1>4, <1>5 DEF Typed

(* A step of p about q leaves all other pairs alone, and of what q knows   *)
(* of p at most takes messages.                                            *)
Touches(p, q) ==
    \A r, s \in Peer : ~(r = p /\ s = q) =>
      /\ remoteSystemList'[r][s] = remoteSystemList[r][s]
      /\ connected'[r][s] = connected[r][s] /\ asked'[r][s] = asked[r][s]
      /\ (s \in requestedConnectionQueue'[r]) = (s \in requestedConnectionQueue[r])
      /\ (s \in banList'[r]) = (s \in banList[r])
      /\ ~(r = q /\ s = p) => online'[r][s] = online[r][s]

(* The other sides.                                                        *)
LEMMA Elsewhere ==
    ASSUME NEW p \in Peer, NEW q \in Peer, Touches(p, q)
    PROVE  /\ \A r, s \in Peer : ~(r = p /\ s = q) /\ ~(r = q /\ s = p) => Side(r, s)' = Side(r, s)
           /\ p # q =>
                /\ Side(q, p)'.slot = Side(q, p).slot /\ Side(q, p)'.requesting = Side(q, p).requesting
                /\ Side(q, p)'.connected = Side(q, p).connected /\ Side(q, p)'.asked = Side(q, p).asked
                /\ Side(q, p)'.bans = Side(q, p).bans /\ Side(q, p)'.wrong = Side(q, p).wrong
<1>1. ASSUME NEW r \in Peer, NEW s \in Peer, ~(r = p /\ s = q), ~(r = q /\ s = p)
      PROVE  Side(r, s)' = Side(r, s)
  <2>1. /\ remoteSystemList'[r][s] = remoteSystemList[r][s] /\ online'[r][s] = online[r][s]
        /\ connected'[r][s] = connected[r][s] /\ asked'[r][s] = asked[r][s]
        /\ (s \in requestedConnectionQueue'[r]) = (s \in requestedConnectionQueue[r])
        /\ (s \in banList'[r]) = (s \in banList[r])
    BY <1>1 DEF Touches
  <2> QED
    BY <2>1 DEF Side, Requesting
<1>2. ASSUME p # q
      PROVE  /\ Side(q, p)'.slot = Side(q, p).slot /\ Side(q, p)'.requesting = Side(q, p).requesting
             /\ Side(q, p)'.connected = Side(q, p).connected /\ Side(q, p)'.asked = Side(q, p).asked
             /\ Side(q, p)'.bans = Side(q, p).bans /\ Side(q, p)'.wrong = Side(q, p).wrong
  <2>1. /\ remoteSystemList'[q][p] = remoteSystemList[q][p]
        /\ connected'[q][p] = connected[q][p] /\ asked'[q][p] = asked[q][p]
        /\ (p \in requestedConnectionQueue'[q]) = (p \in requestedConnectionQueue[q])
        /\ (p \in banList'[q]) = (p \in banList[q])
    BY <1>2 DEF Touches
  <2> QED
    BY <2>1 DEF Side, Requesting
<1> QED
  BY <1>1, <1>2

(* The invariant of the whole from that of the two sides of the step.      *)
LEMMA Assemble ==
    ASSUME ConnectionInv, TypeOK', NEW p \in Peer, NEW q \in Peer, p # q, Touches(p, q),
           EndInv(Side(p, q)', Side(q, p)'), EndInv(Side(q, p)', Side(p, q)'),
           Calm' => /\ Calm /\ ~unasked' /\ \A r \in Peer : bufferedCommands'[r] = <<>>
                    /\ CalmInv(Side(p, q)', Side(q, p)') /\ CalmInv(Side(q, p)', Side(p, q)')
    PROVE  ConnectionInv'
<1>1. \A r, s \in Peer : ~(r = p /\ s = q) /\ ~(r = q /\ s = p) => Side(r, s)' = Side(r, s)
  BY Elsewhere
<1>2. ASSUME NEW r \in Peer, NEW s \in Peer, r # s PROVE EndInv(Side(r, s)', Side(s, r)')
  <2>1. CASE (r = p /\ s = q) \/ (r = q /\ s = p)
    BY <2>1
  <2>2. CASE ~(r = p /\ s = q) /\ ~(r = q /\ s = p)
    <3>1. Side(r, s)' = Side(r, s) /\ Side(s, r)' = Side(s, r)
      BY <1>1, <2>2
    <3>2. EndInv(Side(r, s), Side(s, r))
      BY <1>2 DEF ConnectionInv
    <3> QED
      BY <3>1, <3>2
  <2> QED
    BY <2>1, <2>2
<1>3. ASSUME Calm', NEW r \in Peer, NEW s \in Peer, r # s PROVE CalmInv(Side(r, s)', Side(s, r)')
  <2>1. CASE (r = p /\ s = q) \/ (r = q /\ s = p)
    BY <1>3, <2>1
  <2>2. CASE ~(r = p /\ s = q) /\ ~(r = q /\ s = p)
    <3>1. Side(r, s)' = Side(r, s) /\ Side(s, r)' = Side(s, r)
      BY <1>1, <2>2
    <3>2. CalmInv(Side(r, s), Side(s, r))
      BY <1>3 DEF ConnectionInv
    <3> QED
      BY <3>1, <3>2
  <2> QED
    BY <2>1, <2>2
<1>4. ASSUME NEW r \in Peer PROVE ~IsActive(r, r)' /\ ~connected'[r][r] /\ r \notin banList'[r]
  <2>1. /\ remoteSystemList'[r][r] = remoteSystemList[r][r] /\ connected'[r][r] = connected[r][r]
        /\ (r \in banList'[r]) = (r \in banList[r])
    BY DEF Touches
  <2>2. ~IsActive(r, r) /\ ~connected[r][r] /\ r \notin banList[r]
    BY DEF ConnectionInv
  <2> QED
    BY <2>1, <2>2 DEF IsActive, Mode
<1>5. (\A r \in Peer : \A s \in Peer \ {r} : EndInv(Side(r, s), Side(s, r)))'
  BY <1>2
<1>6. Calm' => (/\ ~unasked
                /\ \A r \in Peer : bufferedCommands[r] = <<>>
                /\ \A r \in Peer : \A s \in Peer \ {r} : CalmInv(Side(r, s), Side(s, r)))'
  BY <1>3
<1>7. (\A r \in Peer : ~IsActive(r, r) /\ ~connected[r][r] /\ r \notin banList[r])'
  BY <1>4
<1> QED
  BY <1>5, <1>6, <1>7 DEF ConnectionInv

(* A step that leaves slots and messages alone.                            *)
LEMMA FrameStep ==
    ASSUME ConnectionInv, TypeOK', NEW p \in Peer, NEW q \in Peer, p # q, Touches(p, q),
           remoteSystemList'[p][q] = remoteSystemList[p][q],
           online'[p][q] = online[p][q], online'[q][p] = online[q][p],
           connected'[p][q] => connected[p][q],
           q \in requestedConnectionQueue'[p] => Requesting(p, q) \/ ~IsActive(p, q),
           Calm' => /\ Calm /\ ~unasked' /\ \A r \in Peer : bufferedCommands'[r] = <<>>
                    /\ connected'[p][q] = connected[p][q]
                    /\ q \in banList'[p] => q \in banList[p]
                    /\ AskedWhileOpen(Side(p, q)')
    PROVE  ConnectionInv'
<1> DEFINE x == Side(p, q)
           y == Side(q, p)
           u == Side(p, q)'
           v == Side(q, p)'
<1>1. /\ u.slot = x.slot /\ u.sent = x.sent /\ v.sent = y.sent /\ u.wrong = x.wrong
      /\ u.connected => x.connected
      /\ u.requesting => x.requesting \/ ~Active(x)
  BY DEF Side, Active, IsActive, Mode, Requesting
<1>2. /\ v.slot = y.slot /\ v.requesting = y.requesting /\ v.connected = y.connected
      /\ v.asked = y.asked /\ v.bans = y.bans /\ v.wrong = y.wrong
  BY Elsewhere
<1>3. EndInv(x, y) /\ EndInv(y, x)
  BY DEF ConnectionInv
<1>4. Calm' => CalmInv(x, y) /\ CalmInv(y, x) /\ (u.bans => x.bans) /\ u.connected = x.connected
  BY DEF ConnectionInv, Side
<1>5. /\ x.sent \in Seq(OnlineMessage) /\ y.sent \in Seq(OnlineMessage)
  BY SidesTyped DEF ConnectionInv
<1> HIDE DEF x, y
<1>6. EndInv(u, v) /\ EndInv(v, u)
  <2> HIDE DEF u, v
  <2>1. Weakens(u, x) /\ Weakens(v, y)
    BY <1>1, <1>2, <1>5, ThinsTrivially DEF Weakens
  <2> QED
    BY <1>1, <1>2, <1>3, <2>1, EndFrame
<1>7. Calm' => CalmInv(u, v) /\ CalmInv(v, u)
  <2>1. Calm' => AskedWhileOpen(u)
    OBVIOUS
  <2> HIDE DEF u, v
  <2>2. Calm' => AskedWhileOpen(v)
    BY <1>2, <1>4 DEF CalmInv, AskedWhileOpen
  <2>3. ASSUME Calm' PROVE CalmInv(u, v)
    BY <1>1, <1>2, <1>4, <2>1, <2>3, CalmFrame
  <2>4. ASSUME Calm' PROVE CalmInv(v, u)
    BY <1>1, <1>2, <1>4, <2>2, <2>4, CalmFrame
  <2> QED
    BY <2>3, <2>4
<1> QED
  BY <1>6, <1>7, Assemble

(* What Told changes.                                                      *)
LEMMA ToldEntry ==
    ASSUME TypeOK, NEW p \in Peer, NEW q \in Peer, NEW id, NEW isConnected \in BOOLEAN,
           Told(p, q, id, isConnected)
    PROVE  /\ connected'[p][q] = isConnected
           /\ asked'[p][q] = (asked[p][q] /\ id \in {"ID_NEW_INCOMING_CONNECTION", "ID_CONNECTION_LOST",
                                                     "ID_DISCONNECTION_NOTIFICATION"})
           /\ unasked' = (unasked \/ (/\ id \notin {"ID_NEW_INCOMING_CONNECTION", "ID_CONNECTION_LOST",
                                                    "ID_DISCONNECTION_NOTIFICATION"}
                                      /\ ~asked[p][q]))
           /\ \A r, s \in Peer : ~(r = p /\ s = q) =>
                connected'[r][s] = connected[r][s] /\ asked'[r][s] = asked[r][s]
<1> DEFINE ends == {"ID_NEW_INCOMING_CONNECTION", "ID_CONNECTION_LOST", "ID_DISCONNECTION_NOTIFICATION"}
<1>1. connected \in [Peer -> [Peer -> BOOLEAN]] /\ asked \in [Peer -> [Peer -> BOOLEAN]]
  BY DEF TypeOK
<1>2. connected' = [connected EXCEPT ![p][q] = isConnected]
  BY DEF Told
<1>3. /\ asked' = [asked EXCEPT ![p][q] = asked[p][q] /\ ~(id \notin ends)]
      /\ unasked' = (unasked \/ (id \notin ends /\ ~asked[p][q]))
  BY DEF Told
<1> HIDE DEF ends
<1>4. (asked[p][q] /\ ~(id \notin ends)) \in BOOLEAN
  OBVIOUS
<1>5. /\ connected'[p][q] = isConnected
      /\ \A r, s \in Peer : ~(r = p /\ s = q) => connected'[r][s] = connected[r][s]
  BY <1>1, <1>2, SetEntry
<1>6. /\ asked'[p][q] = (asked[p][q] /\ ~(id \notin ends))
      /\ \A r, s \in Peer : ~(r = p /\ s = q) => asked'[r][s] = asked[r][s]
  BY <1>1, <1>3, <1>4, SetEntry
<1>7. asked'[p][q] = (asked[p][q] /\ id \in ends)
  BY <1>6
<1> QED
  BY <1>3, <1>5, <1>6, <1>7 DEF ends

(* What it changes when the connection is over.                            *)
LEMMA ToldEnd ==
    ASSUME TypeOK, NEW p \in Peer, NEW q \in Peer, NEW id, Told(p, q, id, FALSE)
    PROVE  /\ ~connected'[p][q]
           /\ id \in {"ID_CONNECTION_LOST", "ID_DISCONNECTION_NOTIFICATION"} =>
                (unasked' <=> unasked) /\ (asked'[p][q] <=> asked[p][q])
           /\ asked[p][q] => (unasked' <=> unasked)
           /\ \A r, s \in Peer : ~(r = p /\ s = q) =>
                connected'[r][s] = connected[r][s] /\ asked'[r][s] = asked[r][s]
<1> DEFINE answers == id \notin {"ID_NEW_INCOMING_CONNECTION", "ID_CONNECTION_LOST",
                                 "ID_DISCONNECTION_NOTIFICATION"}
<1>1. connected \in [Peer -> [Peer -> BOOLEAN]] /\ asked \in [Peer -> [Peer -> BOOLEAN]]
  BY DEF TypeOK
<1>2. /\ connected' = [connected EXCEPT ![p][q] = FALSE]
      /\ asked' = [asked EXCEPT ![p][q] = asked[p][q] /\ ~answers]
      /\ unasked' = (unasked \/ (answers /\ ~asked[p][q]))
  BY DEF Told
<1>3. id \in {"ID_CONNECTION_LOST", "ID_DISCONNECTION_NOTIFICATION"} => ~answers
  OBVIOUS
<1> HIDE DEF answers
<1>4. /\ ~connected'[p][q]
      /\ \A r, s \in Peer : ~(r = p /\ s = q) => connected'[r][s] = connected[r][s]
  BY <1>1, <1>2
<1>5. (asked[p][q] /\ ~answers) \in BOOLEAN
  OBVIOUS
<1>6. /\ asked'[p][q] = (asked[p][q] /\ ~answers)
      /\ \A r, s \in Peer : ~(r = p /\ s = q) => asked'[r][s] = asked[r][s]
  BY <1>1, <1>2, <1>5, SetEntry
<1>7. /\ ~answers => (unasked' <=> unasked) /\ (asked'[p][q] <=> asked[p][q])
      /\ asked[p][q] => (unasked' <=> unasked)
  BY <1>2, <1>6
<1> QED
  BY <1>3, <1>4, <1>6, <1>7

(* What RemoveRequest changes.                                             *)
LEMMA RemoveEntry ==
    ASSUME TypeOK, NEW p \in Peer, NEW q \in Peer, RemoveRequest(p, q)
    PROVE  /\ q \notin requestedConnectionQueue'[p]
           /\ \A r, s \in Peer : ~(r = p /\ s = q) =>
                (s \in requestedConnectionQueue'[r]) = (s \in requestedConnectionQueue[r])
<1>1. /\ requestedConnectionQueue \in [Peer -> SUBSET Peer]
      /\ requestedConnectionQueue' = [requestedConnectionQueue EXCEPT ![p] = @ \ {q}]
  BY DEF TypeOK, RemoveRequest
<1>2. /\ requestedConnectionQueue'[p] = requestedConnectionQueue[p] \ {q}
      /\ \A r \in Peer : r # p => requestedConnectionQueue'[r] = requestedConnectionQueue[r]
  BY <1>1
<1> QED
  BY <1>2

(* Calm needs no upset.                                                    *)
LEMMA UpsetEndsCalm ==
    ASSUME TypeOK, upsets' = upsets + 1
    PROVE  ~Calm'
<1>1. upsets \in Nat
  BY PeerAssumption DEF TypeOK
<1> QED
  BY <1>1 DEF Calm

(* Connect.                                                                *)
LEMMA ConnectStep ==
    ASSUME ConnectionInv, NEW p \in Peer, NEW q \in Peer, p # q, Connect(p, q)
    PROVE  ConnectionInv'
<1>1. TypeOK /\ TypeOK'
  BY UserTypes DEF ConnectionInv
<1>2. /\ requestedConnectionQueue' = [requestedConnectionQueue EXCEPT ![p] = @ \cup {q}]
      /\ asked' = [asked EXCEPT ![p][q] = TRUE] /\ ~IsActive(p, q)
      /\ UNCHANGED <<remoteSystemList, bufferedCommands, banList, online, connected, unasked, stale, upsets>>
  BY DEF Connect, network
<1>3. asked'[p][q] = TRUE /\ \A r, s \in Peer : ~(r = p /\ s = q) => asked'[r][s] = asked[r][s]
  <2>1. asked \in [Peer -> [Peer -> BOOLEAN]]
    BY <1>1 DEF TypeOK
  <2> QED
    BY <1>2, <2>1
<1>4. \A r, s \in Peer : ~(r = p /\ s = q) =>
        (s \in requestedConnectionQueue'[r]) = (s \in requestedConnectionQueue[r])
  <2>1. requestedConnectionQueue \in [Peer -> SUBSET Peer]
    BY <1>1 DEF TypeOK
  <2>2. /\ requestedConnectionQueue'[p] = requestedConnectionQueue[p] \cup {q}
        /\ \A r \in Peer : r # p => requestedConnectionQueue'[r] = requestedConnectionQueue[r]
    BY <1>2, <2>1
  <2> QED
    BY <2>2
<1>5. Touches(p, q)
  BY <1>2, <1>3, <1>4 DEF Touches
<1>6. AskedWhileOpen(Side(p, q)')
  BY <1>2, <1>3 DEF AskedWhileOpen, Side
<1>7. Calm' => Calm /\ ~unasked' /\ \A r \in Peer : bufferedCommands'[r] = <<>>
  BY <1>2 DEF Calm, ConnectionInv
<1> QED
  BY <1>1, <1>2, <1>5, <1>6, <1>7, FrameStep

(* CancelConnectionAttempt.                                                *)
LEMMA CancelStep ==
    ASSUME ConnectionInv, NEW p \in Peer, NEW q \in Peer, p # q, CancelConnectionAttempt(p, q)
    PROVE  ConnectionInv'
<1>1. TypeOK /\ TypeOK'
  BY UserTypes DEF ConnectionInv
<1>2. /\ RemoveRequest(p, q) /\ Requesting(p, q) /\ upsets' = upsets + 1
      /\ asked' = [asked EXCEPT ![p][q] = FALSE]
      /\ UNCHANGED <<remoteSystemList, banList, online, connected>>
  BY DEF CancelConnectionAttempt, network
<1>3. \A r, s \in Peer : ~(r = p /\ s = q) => asked'[r][s] = asked[r][s]
  <2>1. asked \in [Peer -> [Peer -> BOOLEAN]]
    BY <1>1 DEF TypeOK
  <2> QED
    BY <1>2, <2>1
<1>4. Touches(p, q)
  <2>1. \A r, s \in Peer : ~(r = p /\ s = q) =>
          (s \in requestedConnectionQueue'[r]) = (s \in requestedConnectionQueue[r])
    BY <1>1, <1>2, RemoveEntry
  <2> QED
    BY <1>2, <1>3, <2>1 DEF Touches
<1>5. ~Calm'
  BY <1>1, <1>2, UpsetEndsCalm
<1> QED
  BY <1>1, <1>2, <1>4, <1>5, FrameStep

(* CloseConnection.                                                        *)
LEMMA CloseStep ==
    ASSUME ConnectionInv, NEW p \in Peer, NEW q \in Peer, p # q,
           NEW notify \in BOOLEAN, CloseConnection(p, q, notify)
    PROVE  ConnectionInv'
<1>1. TypeOK /\ TypeOK'
  BY UserTypes DEF ConnectionInv
<1>2. /\ Told(p, q, "ID_CONNECTION_LOST", FALSE) \/ UNCHANGED history
      /\ upsets' = upsets + 1
      /\ UNCHANGED <<requestedConnectionQueue, remoteSystemList, banList, online>>
  BY DEF CloseConnection, network
<1>3. /\ connected'[p][q] => connected[p][q]
      /\ \A r, s \in Peer : ~(r = p /\ s = q) => connected'[r][s] = connected[r][s] /\ asked'[r][s] = asked[r][s]
  <2>1. CASE Told(p, q, "ID_CONNECTION_LOST", FALSE)
    BY <1>1, <2>1, ToldEntry
  <2>2. CASE UNCHANGED history
    BY <2>2 DEF history
  <2> QED
    BY <1>2, <2>1, <2>2
<1>4. Touches(p, q)
  BY <1>2, <1>3 DEF Touches
<1>5. ~Calm'
  BY <1>1, <1>2, UpsetEndsCalm
<1> QED
  BY <1>1, <1>2, <1>3, <1>4, <1>5, FrameStep DEF Requesting

(* An attempt that fails or is refused: it was open, and is no more.       *)
LEMMA FailStep ==
    ASSUME ConnectionInv, TypeOK', NEW p \in Peer, NEW q \in Peer, p # q, NEW id,
           id \notin {"ID_NEW_INCOMING_CONNECTION", "ID_CONNECTION_LOST", "ID_DISCONNECTION_NOTIFICATION"},
           Requesting(p, q), RemoveRequest(p, q), Told(p, q, id, connected[p][q]),
           UNCHANGED <<remoteSystemList, bufferedCommands, banList, online, stale, upsets>>
    PROVE  ConnectionInv'
<1>1. TypeOK /\ connected[p][q] \in BOOLEAN
  <2>1. TypeOK
    BY DEF ConnectionInv
  <2>2. connected \in [Peer -> [Peer -> BOOLEAN]]
    BY <2>1 DEF TypeOK
  <2> QED
    BY <2>1, <2>2
<1>2. /\ connected'[p][q] = connected[p][q]
      /\ unasked' = (unasked \/ ~asked[p][q])
      /\ \A r, s \in Peer : ~(r = p /\ s = q) => connected'[r][s] = connected[r][s] /\ asked'[r][s] = asked[r][s]
  BY <1>1, ToldEntry
<1>3. /\ q \notin requestedConnectionQueue'[p]
      /\ \A r, s \in Peer : ~(r = p /\ s = q) =>
           (s \in requestedConnectionQueue'[r]) = (s \in requestedConnectionQueue[r])
  BY <1>1, RemoveEntry
<1>4. Touches(p, q)
  BY <1>2, <1>3 DEF Touches
<1>5. ASSUME Calm' PROVE Calm /\ ~unasked' /\ \A r \in Peer : bufferedCommands'[r] = <<>>
  <2>1. Calm
    BY <1>5 DEF Calm
  <2>2. ~unasked /\ AskedWhileOpen(Side(p, q)) /\ \A r \in Peer : bufferedCommands[r] = <<>>
    BY <2>1 DEF ConnectionInv, CalmInv
  <2>3. asked[p][q]
    BY <2>2 DEF AskedWhileOpen, Side
  <2> QED
    BY <1>2, <2>1, <2>2, <2>3
<1>6. AskedWhileOpen(Side(p, q)')
  <2>1. OneRequest(Side(p, q))
    BY DEF ConnectionInv, EndInv
  <2>2. IsActive(p, q) => ~remoteSystemList[p][q].weInitiatedTheConnection
    BY <2>1 DEF OneRequest, Side, Active, IsActive, Mode
  <2> QED
    BY <1>3, <2>2 DEF AskedWhileOpen, Side, Requesting, IsActive, Mode
<1> QED
  BY <1>2, <1>4, <1>5, <1>6, FrameStep

(* LastRequest and ReceiveRefusal.                                         *)
LEMMA EndingStep ==
    ASSUME ConnectionInv, NEW p \in Peer, NEW q \in Peer, p # q, LastRequest(p, q) \/ ReceiveRefusal(p, q)
    PROVE  ConnectionInv'
<1>1. TypeOK'
  BY EndingTypes DEF ConnectionInv
<1>2. PICK id : /\ id \notin {"ID_NEW_INCOMING_CONNECTION", "ID_CONNECTION_LOST", "ID_DISCONNECTION_NOTIFICATION"}
                /\ Requesting(p, q) /\ RemoveRequest(p, q) /\ Told(p, q, id, connected[p][q])
  BY DEF LastRequest, ReceiveRefusal, Refusal
<1>3. UNCHANGED <<remoteSystemList, bufferedCommands, banList, online, stale, upsets>>
  BY DEF LastRequest, ReceiveRefusal, network, bounds
<1> QED
  BY <1>1, <1>2, <1>3, FailStep

(* A step that only sends a datagram.                                      *)
LEMMA SendingStep ==
    ASSUME ConnectionInv, TypeOK',
           UNCHANGED <<requestedConnectionQueue, remoteSystemList, bufferedCommands, banList,
                       online, history, stale, bounds>>
    PROVE  ConnectionInv'
<1>1. \A r, s \in Peer : Side(r, s)' = Side(r, s)
  BY DEF Side, Requesting, history
<1>2. /\ (Calm' <=> Calm) /\ (unasked' <=> unasked) /\ bufferedCommands' = bufferedCommands
      /\ \A r \in Peer : (IsActive(r, r)' <=> IsActive(r, r)) /\ connected'[r][r] = connected[r][r]
                         /\ banList'[r] = banList[r]
  BY DEF Calm, IsActive, Mode, history, bounds
<1> QED
  BY <1>1, <1>2 DEF ConnectionInv

(* BanExpires.                                                             *)
LEMMA BanStep ==
    ASSUME ConnectionInv, NEW p \in Peer, NEW q \in Peer, p # q, BanExpires(p, q)
    PROVE  ConnectionInv'
<1>1. TypeOK /\ TypeOK'
  BY BanTypes DEF ConnectionInv
<1>2. /\ banList' = [banList EXCEPT ![p] = @ \ {q}]
      /\ UNCHANGED <<requestedConnectionQueue, remoteSystemList, bufferedCommands, online,
                     connected, asked, unasked, stale, upsets>>
  BY DEF BanExpires, network, history, bounds
<1>3. banList'[p] = banList[p] \ {q} /\ \A r \in Peer : r # p => banList'[r] = banList[r]
  BY <1>1, <1>2 DEF TypeOK
<1>4. Touches(p, q)
  BY <1>2, <1>3 DEF Touches
<1>5. ASSUME Calm'
      PROVE  /\ Calm /\ ~unasked' /\ \A r \in Peer : bufferedCommands'[r] = <<>>
             /\ AskedWhileOpen(Side(p, q)')
  <2>1. Calm
    BY <1>2, <1>5 DEF Calm
  <2>2. ~unasked /\ AskedWhileOpen(Side(p, q)) /\ \A r \in Peer : bufferedCommands[r] = <<>>
    BY <2>1 DEF ConnectionInv, CalmInv
  <2>3. AskedWhileOpen(Side(p, q)')
    BY <1>2, <2>2 DEF AskedWhileOpen, Side, Requesting
  <2> QED
    BY <1>2, <2>1, <2>2, <2>3
<1> QED
  BY <1>1, <1>2, <1>3, <1>4, <1>5, FrameStep DEF Requesting

(* ReceiveRequest2.                                                        *)
LEMMA Request2Step ==
    ASSUME ConnectionInv, NEW p \in Peer, NEW q \in Peer, p # q, ReceiveRequest2(p, q)
    PROVE  ConnectionInv'
<1>1. TypeOK /\ TypeOK'
  BY Request2Types DEF ConnectionInv
<1>2. UNCHANGED <<requestedConnectionQueue, bufferedCommands, banList, online, connected, asked,
                  unasked, stale, upsets>>
  BY <1>1, Request2Cases DEF history, bounds
<1>3. CASE UNCHANGED remoteSystemList
  <2>1. UNCHANGED <<requestedConnectionQueue, remoteSystemList, bufferedCommands, banList,
                    online, history, stale, bounds>>
    BY <1>1, <1>3, Request2Cases
  <2> QED
    BY <1>1, <2>1, SendingStep
<1>4. ASSUME NEW guid \in Nat, ~IsActive(p, q), remoteSystemList[p][q].session < MaxSessions,
             remoteSystemList' = [remoteSystemList EXCEPT ![p][q] = Assigned(p, q, guid)]
      PROVE  ConnectionInv'
  <2> DEFINE x == Side(p, q)
             y == Side(q, p)
             u == Side(p, q)'
             v == Side(q, p)'
  <2>1. remoteSystemList \in [Peer -> [Peer -> RemoteSystemStruct]] /\ remoteSystemList[p][q] \in RemoteSystemStruct
    BY <1>1 DEF TypeOK
  <2>2. /\ Assigned(p, q, guid) \in RemoteSystemStruct
        /\ Assigned(p, q, guid).connectMode = "UNVERIFIED_SENDER"
        /\ ~Assigned(p, q, guid).weInitiatedTheConnection
        /\ Assigned(p, q, guid).session = remoteSystemList[p][q].session + 1
        /\ Assigned(p, q, guid).heard = 0
    BY <1>4, <2>1, AssignedType
  <2>3. /\ remoteSystemList'[p][q] = Assigned(p, q, guid)
        /\ \A r, s \in Peer : ~(r = p /\ s = q) => remoteSystemList'[r][s] = remoteSystemList[r][s]
    BY <1>4, <2>1, <2>2, SetEntry
  <2>4. Touches(p, q)
    BY <1>2, <2>3 DEF Touches
  <2>5. v = y
    BY <1>2, <2>3 DEF Side, Requesting
  <2>6. Assigns(u, x)
    BY <1>2, <1>4, <2>2, <2>3 DEF Assigns, Side, Active, IsActive, Mode
  <2>7. u.bans = x.bans /\ u.requesting = x.requesting /\ u.asked = x.asked
    BY <1>2 DEF Side, Requesting
  <2>8. EndInv(x, y) /\ EndInv(y, x)
    BY DEF ConnectionInv
  <2>9. Typed(x) /\ Typed(y)
    BY <1>1, SidesTyped
  <2>10. Calm' => /\ Calm /\ ~unasked' /\ \A r \in Peer : bufferedCommands'[r] = <<>>
                  /\ CalmInv(x, y) /\ CalmInv(y, x)
    BY <1>2 DEF Calm, ConnectionInv
  <2> HIDE DEF x, y, u, v
  <2>11. EndInv(u, y) /\ EndInv(y, u)
    BY <2>6, <2>8, <2>9, EndAssign
  <2>12. Calm' => CalmInv(u, y) /\ CalmInv(y, u)
    BY <2>6, <2>7, <2>8, <2>9, <2>10, CalmAssign
  <2>13. EndInv(u, v) /\ EndInv(v, u) /\ (Calm' => CalmInv(u, v) /\ CalmInv(v, u))
    BY <2>5, <2>11, <2>12
  <2> QED
    BY <1>1, <2>4, <2>10, <2>13, Assemble DEF u, v
<1> QED
  BY <1>1, <1>3, <1>4, Request2Cases

(* One more message in a sequence.                                         *)
LEMMA AppendAdds ==
    ASSUME NEW S, NEW s \in Seq(S), NEW m \in S
    PROVE  Adds(Append(s, m), s, m)
<1>1. /\ DOMAIN s = 1 .. Len(s) /\ Len(s) \in Nat
      /\ DOMAIN Append(s, m) = 1 .. Len(s) + 1
      /\ Append(s, m)[Len(s) + 1] = m
      /\ \A i \in 1 .. Len(s) : Append(s, m)[i] = s[i]
  OBVIOUS
<1>2. Len(s) + 1 \notin 1 .. Len(s) /\ 1 .. Len(s) + 1 = (1 .. Len(s)) \cup {Len(s) + 1}
  BY <1>1
<1> QED
  BY <1>1, <1>2 DEF Adds

(* A slot that initiates.                                                  *)
LEMMA InitiatedFields ==
    ASSUME NEW slot \in RemoteSystemStruct
    PROVE  /\ Initiated(slot).connectMode = "REQUESTED_CONNECTION"
           /\ Initiated(slot).weInitiatedTheConnection = TRUE
           /\ Initiated(slot).session = slot.session /\ Initiated(slot).heard = slot.heard
BY DEF Initiated, RemoteSystemStruct

(* ReceiveReply2.                                                          *)
LEMMA Reply2Step ==
    ASSUME ConnectionInv, NEW p \in Peer, NEW q \in Peer, p # q, ReceiveReply2(p, q)
    PROVE  ConnectionInv'
<1>1. TypeOK /\ TypeOK'
  BY Reply2Types DEF ConnectionInv
<1>2. /\ UNCHANGED <<bufferedCommands, banList, stale, upsets>>
      /\ Requesting(p, q) /\ RemoveRequest(p, q)
  BY <1>1, Reply2Cases DEF bounds
<1>3. CASE /\ Told(p, q, "ID_CONNECTION_ATTEMPT_FAILED", connected[p][q])
           /\ UNCHANGED <<remoteSystemList, online>>
  BY <1>1, <1>2, <1>3, FailStep
<1>4. ASSUME NEW slot \in RemoteSystemStruct, slot.connectMode # "INACTIVE",
             \/ IsActive(p, q) /\ slot = remoteSystemList[p][q]
             \/ /\ ~IsActive(p, q) /\ remoteSystemList[p][q].session < MaxSessions
                /\ \E guid \in Nat : slot = Assigned(p, q, guid),
             remoteSystemList' = [remoteSystemList EXCEPT ![p][q] = Initiated(slot)],
             online' = [online EXCEPT ![p][q] = Append(@, Request(slot))],
             UNCHANGED history
      PROVE  ConnectionInv'
  <2> DEFINE x == Side(p, q)
             y == Side(q, p)
             w == [Side(p, q) EXCEPT !.slot = slot]
             u == Side(p, q)'
             v == Side(q, p)'
  <2>1. /\ remoteSystemList \in [Peer -> [Peer -> RemoteSystemStruct]]
        /\ online \in [Peer -> [Peer -> Seq(OnlineMessage)]]
        /\ remoteSystemList[p][q] \in RemoteSystemStruct
        /\ online[p][q] \in Seq(OnlineMessage)
    <3>1. /\ remoteSystemList \in [Peer -> [Peer -> RemoteSystemStruct]]
          /\ online \in [Peer -> [Peer -> Seq(OnlineMessage)]]
      BY <1>1 DEF TypeOK
    <3> QED
      BY <3>1
  <2>2. Initiated(slot) \in RemoteSystemStruct /\ Request(slot) \in OnlineMessage
    <3>1. "REQUESTED_CONNECTION" \in ConnectMode /\ 0 \in 0 .. MaxSessions
      BY PeerAssumption DEF ConnectMode, HalfOpen
    <3>2. Initiated(slot) \in RemoteSystemStruct
      BY <1>4, <3>1, ModeType DEF Initiated
    <3>3. slot.session \in 1 .. MaxSessions
      BY <1>4, PeerAssumption DEF RemoteSystemStruct
    <3> QED
      BY <3>2, <3>3 DEF Request, OnlineMessage, Unordered
  <2>3. /\ remoteSystemList'[p][q] = Initiated(slot)
        /\ \A r, s \in Peer : ~(r = p /\ s = q) => remoteSystemList'[r][s] = remoteSystemList[r][s]
    BY <1>4, <2>1, <2>2, SetEntry
  <2>4. Append(online[p][q], Request(slot)) \in Seq(OnlineMessage)
    BY <2>1, <2>2, SeqBasics
  <2>5. /\ online'[p][q] = Append(online[p][q], Request(slot))
        /\ \A r, s \in Peer : ~(r = p /\ s = q) => online'[r][s] = online[r][s]
    BY <1>4, <2>1, <2>4, SetEntry
  <2>6. /\ q \notin requestedConnectionQueue'[p]
        /\ \A r, s \in Peer : ~(r = p /\ s = q) =>
             (s \in requestedConnectionQueue'[r]) = (s \in requestedConnectionQueue[r])
    BY <1>1, <1>2, RemoveEntry
  <2>7. Touches(p, q)
    BY <1>2, <1>4, <2>3, <2>5, <2>6 DEF Touches, history
  <2>8. v = y
    BY <1>2, <1>4, <2>3, <2>5, <2>6 DEF Side, Requesting, history
  <2>9. /\ w.slot = slot /\ w.sent = online[p][q] /\ w.requesting = TRUE
        /\ w.wrong = x.wrong /\ w.connected = connected[p][q] /\ w.asked = asked[p][q]
        /\ w.bans = x.bans /\ x.asked = asked[p][q] /\ x.sent = online[p][q] /\ x.requesting = TRUE
        /\ x.connected = connected[p][q] /\ x.slot = remoteSystemList[p][q]
    BY <1>2 DEF Side
  <2>10. /\ u.slot = Initiated(slot) /\ u.sent = Append(online[p][q], Request(slot))
         /\ ~u.requesting /\ u.wrong = x.wrong /\ u.connected = connected[p][q]
         /\ u.asked = asked[p][q] /\ u.bans = x.bans
    BY <1>2, <1>4, <2>3, <2>5, <2>6 DEF Side, Requesting, history
  <2>11. EndInv(x, y) /\ EndInv(y, x)
    BY DEF ConnectionInv
  <2>12. Typed(x) /\ Typed(y)
    BY <1>1, SidesTyped
  <2>13. Calm' => /\ Calm /\ ~unasked' /\ \A r \in Peer : bufferedCommands'[r] = <<>>
                  /\ CalmInv(x, y) /\ CalmInv(y, x)
    BY <1>2, <1>4 DEF Calm, ConnectionInv, history
  <2>14. Adds(Append(online[p][q], Request(slot)), online[p][q], Request(slot))
    BY <2>1, <2>2, AppendAdds
  <2> HIDE DEF x, y, w, u, v
  <2>15. Initiates(u, w)
    <3>1. Active(w)
      BY <1>4, <2>9 DEF Active
    <3> QED
      BY <2>9, <2>10, <2>14, <3>1, InitiatedFields DEF Initiates
  <2>16. EndInv(w, y) /\ EndInv(y, w) /\ Typed(w) /\ (Calm' => CalmInv(w, y) /\ CalmInv(y, w))
    <3>1. CASE IsActive(p, q) /\ slot = remoteSystemList[p][q]
      <4>1. w = x
        BY <3>1 DEF w, x, Side
      <4> QED
        BY <2>11, <2>12, <2>13, <4>1
    <3>2. ASSUME ~IsActive(p, q), remoteSystemList[p][q].session < MaxSessions,
                 NEW guid \in Nat, slot = Assigned(p, q, guid)
          PROVE  EndInv(w, y) /\ EndInv(y, w) /\ Typed(w) /\ (Calm' => CalmInv(w, y) /\ CalmInv(y, w))
      <4>1. /\ slot.connectMode = "UNVERIFIED_SENDER" /\ ~slot.weInitiatedTheConnection
            /\ slot.session = remoteSystemList[p][q].session + 1 /\ slot.heard = 0
        BY <2>1, <3>2, AssignedType
      <4>2. ~Active(x)
        BY <2>9, <3>2 DEF Active, IsActive, Mode
      <4>3. Assigns(w, x)
        BY <2>9, <4>1, <4>2 DEF Assigns
      <4>4. w.bans = x.bans /\ w.requesting = x.requesting /\ w.asked = x.asked
        BY <2>9
      <4>5. EndInv(w, y) /\ EndInv(y, w)
        BY <2>11, <2>12, <4>3, EndAssign
      <4>6. Calm' => CalmInv(w, y) /\ CalmInv(y, w)
        BY <2>11, <2>12, <2>13, <4>3, <4>4, CalmAssign
      <4>7. Typed(w)
        <5>1. slot.connectMode \in ConnectMode /\ slot.session \in Nat
          BY <2>12, <2>9, <4>1 DEF Typed, ConnectMode, HalfOpen
        <5> QED
          BY <2>9, <2>12, <4>1, <5>1 DEF Typed
      <4> QED
        BY <4>5, <4>6, <4>7
    <3> QED
      BY <1>4, <3>1, <3>2
  <2>17. EndInv(u, y) /\ EndInv(y, u)
    BY <2>12, <2>15, <2>16, EndInitiate
  <2>18. Calm' => CalmInv(u, y) /\ CalmInv(y, u)
    <3>1. u.bans = w.bans
      BY <2>9, <2>10
    <3> QED
      BY <2>15, <2>16, <3>1, CalmInitiate
  <2>19. EndInv(u, v) /\ EndInv(v, u) /\ (Calm' => CalmInv(u, v) /\ CalmInv(v, u))
    BY <2>8, <2>17, <2>18
  <2> QED
    BY <1>1, <2>7, <2>13, <2>19, Assemble DEF u, v
<1> QED
  BY <1>1, <1>3, <1>4, Reply2Cases

(* What FreeSlot changes.                                                  *)
LEMMA FreeEntry ==
    ASSUME TypeOK, NEW p \in Peer, NEW q \in Peer, FreeSlot(p, q)
    PROVE  /\ remoteSystemList'[p][q].connectMode = "INACTIVE"
           /\ remoteSystemList'[p][q].session = remoteSystemList[p][q].session
           /\ remoteSystemList'[p][q].weInitiatedTheConnection = FALSE
           /\ Thinned(online'[p][q], online[p][q])
           /\ \A r, s \in Peer : ~(r = p /\ s = q) =>
                remoteSystemList'[r][s] = remoteSystemList[r][s] /\ online'[r][s] = online[r][s]
<1> DEFINE new == [Inactive EXCEPT !.session = remoteSystemList[p][q].session]
<1>1. /\ remoteSystemList \in [Peer -> [Peer -> RemoteSystemStruct]]
      /\ online \in [Peer -> [Peer -> Seq(OnlineMessage)]]
  BY DEF TypeOK
<1>2. remoteSystemList[p][q] \in RemoteSystemStruct /\ online[p][q] \in Seq(OnlineMessage)
  BY <1>1
<1>3. /\ new \in RemoteSystemStruct /\ new.connectMode = "INACTIVE"
      /\ new.session = remoteSystemList[p][q].session
      /\ new.weInitiatedTheConnection = FALSE
  <2>1. /\ new \in RemoteSystemStruct
        /\ new = [connectMode |-> "INACTIVE", guid |-> 0, weInitiatedTheConnection |-> FALSE,
                  session |-> remoteSystemList[p][q].session, heard |-> 0]
    BY <1>2, FreedType
  <2> QED
    BY <2>1
<1>4. remoteSystemList' = [remoteSystemList EXCEPT ![p][q] = new]
  BY DEF FreeSlot
<1> HIDE DEF new
<1>5. /\ remoteSystemList'[p][q] = new
      /\ \A r, s \in Peer : ~(r = p /\ s = q) => remoteSystemList'[r][s] = remoteSystemList[r][s]
  BY <1>1, <1>3, <1>4, SetEntry
<1>6. online' = online \/ online' = [online EXCEPT ![p][q] = <<>>]
  BY DEF FreeSlot
<1>7. <<>> \in Seq(OnlineMessage)
  OBVIOUS
<1>8. /\ online'[p][q] = online[p][q] \/ online'[p][q] = <<>>
      /\ \A r, s \in Peer : ~(r = p /\ s = q) => online'[r][s] = online[r][s]
  BY <1>1, <1>6, <1>7, SetEntry
<1>9. Thinned(online'[p][q], online[p][q])
  BY <1>2, <1>8, ThinsTrivially
<1> QED
  BY <1>3, <1>5, <1>8, <1>9

(* A slot that is freed.                                                   *)
LEMMA FreeStep ==
    ASSUME ConnectionInv, TypeOK', NEW p \in Peer, NEW q \in Peer, p # q,
           IsActive(p, q), FreeSlot(p, q), ~connected'[p][q],
           \A r, s \in Peer : ~(r = p /\ s = q) => connected'[r][s] = connected[r][s] /\ asked'[r][s] = asked[r][s],
           UNCHANGED <<requestedConnectionQueue, banList>>,
           Calm' => /\ Calm /\ ~unasked' /\ \A r \in Peer : bufferedCommands'[r] = <<>>
                    /\ ~IsActive(q, p) \/ Mode(p, q) \in Disconnecting
                    /\ Requesting(p, q) => asked'[p][q]
    PROVE  ConnectionInv'
<1> DEFINE x == Side(p, q)
           y == Side(q, p)
           u == Side(p, q)'
           v == Side(q, p)'
<1>1. TypeOK
  BY DEF ConnectionInv
<1>2. /\ remoteSystemList'[p][q].connectMode = "INACTIVE"
      /\ remoteSystemList'[p][q].session = remoteSystemList[p][q].session
      /\ remoteSystemList'[p][q].weInitiatedTheConnection = FALSE
      /\ Thinned(online'[p][q], online[p][q])
      /\ \A r, s \in Peer : ~(r = p /\ s = q) =>
           remoteSystemList'[r][s] = remoteSystemList[r][s] /\ online'[r][s] = online[r][s]
  BY <1>1, FreeEntry
<1>3. Touches(p, q)
  BY <1>2 DEF Touches
<1>4. v = y
  BY <1>2 DEF Side, Requesting
<1>5. Frees(u, x) /\ ~u.slot.weInitiatedTheConnection /\ u.bans = x.bans
  BY <1>2 DEF Frees, Side
<1>6. EndInv(x, y) /\ EndInv(y, x)
  BY DEF ConnectionInv
<1>7. Calm' => /\ CalmInv(x, y) /\ CalmInv(y, x) /\ (~Active(y) \/ x.slot.connectMode \in Disconnecting)
               /\ (u.requesting => u.asked)
  BY DEF ConnectionInv, Side, Active, IsActive, Mode, Requesting
<1>8. y.sent \in Seq(OnlineMessage)
  BY <1>1, SidesTyped
<1> HIDE DEF x, y, u, v
<1>9. Weakens(y, y)
  BY <1>8, ThinsTrivially DEF Weakens
<1>10. EndInv(u, y) /\ EndInv(y, u)
  BY <1>5, <1>6, <1>9, EndFree
<1>11. Calm' => CalmInv(u, y) /\ CalmInv(y, u)
  BY <1>5, <1>6, <1>7, CalmFree
<1>12. EndInv(u, v) /\ EndInv(v, u) /\ (Calm' => CalmInv(u, v) /\ CalmInv(v, u))
  BY <1>4, <1>10, <1>11
<1> QED
  BY <1>3, <1>12, Assemble DEF u, v

(* DropConnection.                                                         *)
LEMMA DropStep ==
    ASSUME ConnectionInv, NEW p \in Peer, NEW q \in Peer, p # q, DropConnection(p, q)
    PROVE  ConnectionInv'
<1>1. TypeOK /\ TypeOK'
  BY DropTypes DEF ConnectionInv
<1>2. /\ IsActive(p, q) /\ FreeSlot(p, q)
      /\ UNCHANGED <<requestedConnectionQueue, bufferedCommands, banList, stale>>
  BY <1>1, DropCases
<1>3. EndInv(Side(p, q), Side(q, p))
  BY DEF ConnectionInv
<1>4. /\ ~connected'[p][q]
      /\ \A r, s \in Peer : ~(r = p /\ s = q) => connected'[r][s] = connected[r][s] /\ asked'[r][s] = asked[r][s]
  <2>1. ASSUME NEW id, Told(p, q, id, FALSE)
        PROVE  /\ ~connected'[p][q]
               /\ \A r, s \in Peer : ~(r = p /\ s = q) =>
                    connected'[r][s] = connected[r][s] /\ asked'[r][s] = asked[r][s]
    BY <1>1, <2>1, ToldEnd
  <2>2. CASE UNCHANGED history /\ Mode(p, q) \notin {"REQUESTED_CONNECTION", "CONNECTED", "DISCONNECT_ASAP", "DISCONNECT_ON_NO_ACK"}
    <3>1. ~connected[p][q]
      BY <1>3, <2>2 DEF EndInv, ToldInTime, Side, Mode
    <3> QED
      BY <2>2, <3>1 DEF history
  <2> QED
    BY <1>1, <2>1, <2>2, DropCases
<1>5. ASSUME Calm'
      PROVE  /\ Calm /\ ~unasked' /\ \A r \in Peer : bufferedCommands'[r] = <<>>
             /\ ~IsActive(q, p) \/ Mode(p, q) \in Disconnecting
             /\ Requesting(p, q) => asked'[p][q]
  <2>1. PICK cost \in 0 .. 1 : /\ upsets' = upsets + cost
                               /\ cost = 0 => ~IsActive(q, p) \/ Mode(p, q) \in Disconnecting
    BY <1>1, DropCases
  <2>2. upsets \in Nat
    BY <1>1, PeerAssumption DEF TypeOK
  <2>3. cost = 0 /\ upsets = 0
    BY <1>5, <2>1, <2>2 DEF Calm
  <2>4. Calm
    BY <1>2, <1>5, <2>3 DEF Calm
  <2>5. ~unasked /\ AskedWhileOpen(Side(p, q)) /\ \A r \in Peer : bufferedCommands[r] = <<>>
    BY <2>4 DEF ConnectionInv, CalmInv
  <2>6. /\ Requesting(p, q) => asked[p][q]
        /\ Mode(p, q) = "REQUESTED_CONNECTION" => asked[p][q] /\ ~Requesting(p, q)
    BY <1>2, <1>3, <2>5 DEF AskedWhileOpen, EndInv, OneRequest, Side, Mode, Active, IsActive
  <2>7. ~unasked' /\ (Requesting(p, q) => asked'[p][q])
    <3>1. CASE Mode(p, q) = "REQUESTED_CONNECTION" /\ Told(p, q, "ID_CONNECTION_ATTEMPT_FAILED", FALSE)
      BY <1>1, <2>5, <2>6, <3>1, ToldEnd
    <3>2. ASSUME NEW id \in {"ID_CONNECTION_LOST", "ID_DISCONNECTION_NOTIFICATION"}, Told(p, q, id, FALSE)
          PROVE  ~unasked' /\ (Requesting(p, q) => asked'[p][q])
      BY <1>1, <2>5, <2>6, <3>2, ToldEnd
    <3>3. CASE UNCHANGED history
      BY <2>5, <2>6, <3>3 DEF history
    <3> QED
      BY <1>1, <3>1, <3>2, <3>3, DropCases
  <2> QED
    BY <1>2, <2>1, <2>3, <2>4, <2>5, <2>7
<1> QED
  BY <1>1, <1>2, <1>4, <1>5, FreeStep

(* What SendImmediate adds: one message at most.                           *)
LEMMA SentAdds ==
    ASSUME NEW p, NEW q, remoteSystemList[p][q] \in RemoteSystemStruct, IsActive(p, q),
           NEW s \in Seq(OnlineMessage), NEW a \in Unordered \cup Ordered
    PROVE  /\ s \o Sent(p, q, <<>>) = s
           /\ Mode(p, q) \in Disconnecting => s \o Sent(p, q, <<a>>) = s
           /\ Mode(p, q) \notin Disconnecting =>
                Adds(s \o Sent(p, q, <<a>>), s, [id |-> a, session |-> remoteSystemList[p][q].session])
<1> DEFINE n == remoteSystemList[p][q].session
           m == [id |-> a, session |-> n]
<1>1. m \in OnlineMessage
  <2>1. n \in 1 .. MaxSessions
    BY PeerAssumption DEF RemoteSystemStruct, IsActive, Mode
  <2> QED
    BY <2>1 DEF OnlineMessage
<1>2. s \o <<>> = s
  OBVIOUS
<1>3. Sent(p, q, <<>>) = <<>>
  <2>1. Len(<<>>) = 0 /\ 1 .. 0 = {}
    OBVIOUS
  <2>2. [i \in 1 .. Len(<<>>) |-> [id |-> <<>>[i], session |-> n]] = <<>>
    BY <2>1
  <2> QED
    BY <2>2 DEF Sent
<1>4. Mode(p, q) \in Disconnecting => Sent(p, q, <<a>>) = <<>>
  BY DEF Sent
<1>5. [i \in 1 .. Len(<<a>>) |-> [id |-> <<a>>[i], session |-> n]] = <<m>>
  <2>1. Len(<<a>>) = 1 /\ <<a>>[1] = a /\ 1 .. 1 = {1}
    OBVIOUS
  <2>2. [i \in 1 .. Len(<<a>>) |-> [id |-> <<a>>[i], session |-> n]] = [i \in {1} |-> m]
    BY <2>1
  <2>3. <<m>> = [i \in {1} |-> m]
    OBVIOUS
  <2> QED
    BY <2>2, <2>3
<1>6. Mode(p, q) \notin Disconnecting => Sent(p, q, <<a>>) = <<m>>
  BY <1>5 DEF Sent
<1> HIDE DEF m
<1>7. s \o <<m>> = Append(s, m)
  BY <1>1
<1>8. Adds(Append(s, m), s, m)
  BY <1>1, AppendAdds
<1> QED
  BY <1>2, <1>3, <1>4, <1>6, <1>7, <1>8 DEF m

(* RunCommand.                                                             *)
LEMMA CommandStep ==
    ASSUME ConnectionInv, NEW p \in Peer, RunCommand(p)
    PROVE  ConnectionInv'
<1>0. PICK q \in Peer : q = Head(bufferedCommands[p]).target
  BY CommandTypes DEF ConnectionInv
<1>1. TypeOK /\ TypeOK' /\ q \in Peer
  BY CommandTypes DEF ConnectionInv
<1>2. /\ UNCHANGED <<requestedConnectionQueue, banList, unasked, stale, upsets>>
      /\ bufferedCommands[p] # <<>>
  BY DEF RunCommand, bounds
<1>3. ~Calm'
  BY <1>2 DEF Calm, ConnectionInv
<1>4. \/ /\ ~IsActive(p, q)
         /\ UNCHANGED <<remoteSystemList, online, connected, asked>>
      \/ /\ IsActive(p, q)
         /\ online' = [online EXCEPT ![p][q] = @ \o Sent(p, q, <<"ID_DISCONNECTION_NOTIFICATION">>)]
         /\ remoteSystemList' = [remoteSystemList EXCEPT ![p][q].connectMode = "DISCONNECT_ASAP"]
         /\ asked' = [asked EXCEPT ![p][q] = @ /\ Requesting(p, q)]
         /\ UNCHANGED connected
      \/ /\ IsActive(p, q)
         /\ FreeSlot(p, q)
         /\ connected' = [connected EXCEPT ![p][q] = FALSE]
         /\ asked' = [asked EXCEPT ![p][q] = @ /\ Requesting(p, q)]
  BY <1>0 DEF RunCommand
<1>5. /\ remoteSystemList \in [Peer -> [Peer -> RemoteSystemStruct]]
      /\ online \in [Peer -> [Peer -> Seq(OnlineMessage)]]
      /\ connected \in [Peer -> [Peer -> BOOLEAN]] /\ asked \in [Peer -> [Peer -> BOOLEAN]]
  BY <1>1 DEF TypeOK
<1>6. remoteSystemList[p][q] \in RemoteSystemStruct /\ online[p][q] \in Seq(OnlineMessage)
  BY <1>1, <1>5
<1>7. CASE ~IsActive(p, q) /\ UNCHANGED <<remoteSystemList, online, connected, asked>>
  <2>1. \A r, s \in Peer : Side(r, s)' = Side(r, s)
    BY <1>2, <1>7 DEF Side, Requesting
  <2>2. \A r \in Peer : (IsActive(r, r)' <=> IsActive(r, r)) /\ connected'[r][r] = connected[r][r]
                        /\ banList'[r] = banList[r]
    BY <1>2, <1>7 DEF IsActive, Mode
  <2> QED
    BY <1>1, <1>3, <2>1, <2>2 DEF ConnectionInv
<1>8. ASSUME IsActive(p, q) PROVE p # q
  BY <1>8 DEF ConnectionInv
<1>9. ASSUME asked' = [asked EXCEPT ![p][q] = @ /\ Requesting(p, q)]
      PROVE  \A r, s \in Peer : ~(r = p /\ s = q) => asked'[r][s] = asked[r][s]
  <2>1. (asked[p][q] /\ Requesting(p, q)) \in BOOLEAN
    OBVIOUS
  <2>2. asked' = [asked EXCEPT ![p][q] = asked[p][q] /\ Requesting(p, q)]
    BY <1>9
  <2> QED
    BY <1>1, <1>5, <2>1, <2>2, SetEntry
<1>10. CASE /\ IsActive(p, q)
            /\ FreeSlot(p, q)
            /\ connected' = [connected EXCEPT ![p][q] = FALSE]
            /\ asked' = [asked EXCEPT ![p][q] = @ /\ Requesting(p, q)]
  <2>1. ~connected'[p][q] /\ \A r, s \in Peer : ~(r = p /\ s = q) => connected'[r][s] = connected[r][s]
    BY <1>1, <1>5, <1>10
  <2>2. \A r, s \in Peer : ~(r = p /\ s = q) => connected'[r][s] = connected[r][s] /\ asked'[r][s] = asked[r][s]
    BY <1>9, <1>10, <2>1
  <2>3. p # q
    BY <1>8, <1>10
  <2> QED
    BY <1>1, <1>2, <1>3, <1>10, <2>1, <2>2, <2>3, FreeStep
<1>11. CASE /\ IsActive(p, q)
            /\ online' = [online EXCEPT ![p][q] = @ \o Sent(p, q, <<"ID_DISCONNECTION_NOTIFICATION">>)]
            /\ remoteSystemList' = [remoteSystemList EXCEPT ![p][q].connectMode = "DISCONNECT_ASAP"]
            /\ asked' = [asked EXCEPT ![p][q] = @ /\ Requesting(p, q)]
            /\ UNCHANGED connected
  <2> DEFINE x == Side(p, q)
             y == Side(q, p)
             u == Side(p, q)'
             v == Side(q, p)'
             sent == Sent(p, q, <<"ID_DISCONNECTION_NOTIFICATION">>)
             new == [remoteSystemList[p][q] EXCEPT !.connectMode = "DISCONNECT_ASAP"]
  <2>1. "DISCONNECT_ASAP" \in ConnectMode /\ remoteSystemList[p][q].connectMode # "INACTIVE"
        /\ 0 \in 0 .. MaxSessions
    BY <1>11, PeerAssumption DEF ConnectMode, Disconnecting, IsActive, Mode
  <2>2. new \in RemoteSystemStruct
    BY <1>6, <2>1, ModeType
  <2>3. /\ new.connectMode = "DISCONNECT_ASAP" /\ new.session = remoteSystemList[p][q].session
        /\ new.heard = remoteSystemList[p][q].heard
        /\ new.weInitiatedTheConnection = remoteSystemList[p][q].weInitiatedTheConnection
    BY <1>6 DEF RemoteSystemStruct
  <2>4. remoteSystemList' = [remoteSystemList EXCEPT ![p][q] = new]
    BY <1>1, <1>5, <1>11
  <2> HIDE DEF new
  <2>5. /\ remoteSystemList'[p][q] = new
        /\ \A r, s \in Peer : ~(r = p /\ s = q) => remoteSystemList'[r][s] = remoteSystemList[r][s]
    BY <1>1, <1>5, <2>2, <2>4, SetEntry
  <2>6. sent \in Seq(OnlineMessage)
    <3>1. <<"ID_DISCONNECTION_NOTIFICATION">> \in Seq(Unordered \cup Ordered)
      BY DEF Ordered
    <3> QED
      BY <1>6, <1>11, <3>1, SentType
  <2>7. \/ online[p][q] \o sent = online[p][q]
        \/ Adds(online[p][q] \o sent, online[p][q],
                [id |-> "ID_DISCONNECTION_NOTIFICATION", session |-> remoteSystemList[p][q].session])
    <3>1. "ID_DISCONNECTION_NOTIFICATION" \in Unordered \cup Ordered
      BY DEF Ordered
    <3> QED
      BY <1>6, <1>11, <3>1, SentAdds
  <2>8. online' = [online EXCEPT ![p][q] = online[p][q] \o sent]
    BY <1>11
  <2> HIDE DEF sent
  <2>9. online[p][q] \o sent \in Seq(OnlineMessage)
    BY <1>6, <2>6
  <2>10. /\ online'[p][q] = online[p][q] \o sent
         /\ \A r, s \in Peer : ~(r = p /\ s = q) => online'[r][s] = online[r][s]
    BY <1>1, <1>5, <2>8, <2>9, SetEntry
  <2>11. Touches(p, q)
    BY <1>2, <1>9, <1>11, <2>5, <2>10 DEF Touches
  <2>12. v = y
    BY <1>1, <1>2, <1>8, <1>9, <1>11, <2>5, <2>10 DEF Side, Requesting
  <2>13. Notifies(u, x)
    BY <1>2, <1>11, <2>3, <2>5, <2>7, <2>10 DEF Notifies, Side, Active, IsActive, Mode, Requesting
  <2>14. EndInv(x, y) /\ EndInv(y, x)
    BY <1>1, <1>8, <1>11 DEF ConnectionInv
  <2>15. Typed(x) /\ Typed(y)
    BY <1>1, SidesTyped
  <2> HIDE DEF x, y, u, v
  <2>16. EndInv(u, v) /\ EndInv(v, u)
    BY <2>12, <2>13, <2>14, <2>15, EndNotify
  <2> QED
    BY <1>1, <1>3, <1>8, <1>11, <2>11, <2>16, Assemble DEF u, v
<1> QED
  BY <1>4, <1>7, <1>10, <1>11

(* Restart.                                                                *)
LEMMA RestartStep ==
    ASSUME ConnectionInv, NEW p \in Peer, Restart(p)
    PROVE  ConnectionInv'
<1>1. TypeOK /\ TypeOK'
  BY RestartTypes DEF ConnectionInv
<1>2. ~Calm'
  BY <1>1, UpsetEndsCalm DEF Restart
<1>3. /\ remoteSystemList \in [Peer -> [Peer -> RemoteSystemStruct]]
      /\ online \in [Peer -> [Peer -> Seq(OnlineMessage)]]
      /\ connected \in [Peer -> [Peer -> BOOLEAN]] /\ asked \in [Peer -> [Peer -> BOOLEAN]]
      /\ requestedConnectionQueue \in [Peer -> SUBSET Peer] /\ banList \in [Peer -> SUBSET Peer]
  BY <1>1 DEF TypeOK
<1>4. ASSUME NEW q \in Peer
      PROVE  /\ remoteSystemList'[p][q].connectMode = "INACTIVE"
             /\ remoteSystemList'[p][q].session = remoteSystemList[p][q].session
  <2>1. remoteSystemList[p][q] \in RemoteSystemStruct
    BY <1>3
  <2>2. remoteSystemList'[p][q] = [Inactive EXCEPT !.session = remoteSystemList[p][q].session]
    BY <1>3 DEF Restart
  <2> QED
    BY ZenonT(60), <2>1, <2>2, FreedType
<1>5. \A q \in Peer : ~connected'[p][q] /\ q \notin requestedConnectionQueue'[p] /\ q \notin banList'[p]
  BY <1>3 DEF Restart
<1>6. \A r \in Peer \ {p} :
        /\ remoteSystemList'[r] = remoteSystemList[r] /\ connected'[r] = connected[r]
        /\ asked'[r] = asked[r] /\ banList'[r] = banList[r]
        /\ requestedConnectionQueue'[r] = requestedConnectionQueue[r]
  BY <1>3 DEF Restart
<1>7. /\ \A q \in Peer : Thinned(online'[p][q], online[p][q])
      /\ \A r \in Peer \ {p} : online'[r] = online[r]
  <2>1. online' = online \/ online' = [online EXCEPT ![p] = [q \in Peer |-> <<>>]]
    BY DEF Restart
  <2>2. /\ \A q \in Peer : online'[p][q] = online[p][q] \/ online'[p][q] = <<>>
        /\ \A r \in Peer \ {p} : online'[r] = online[r]
    BY <1>3, <2>1
  <2>3. \A q \in Peer : online[p][q] \in Seq(OnlineMessage)
    BY <1>3
  <2> QED
    BY <2>2, <2>3, ThinsTrivially
<1>8. \A r \in Peer \ {p} : \A s \in Peer : Side(r, s)' = Side(r, s)
  BY <1>6, <1>7 DEF Side, Requesting
<1>9. \A q \in Peer : Frees(Side(p, q)', Side(p, q))
  BY <1>4, <1>5, <1>7 DEF Frees, Side
<1>10. ASSUME NEW q \in Peer, q # p
       PROVE  EndInv(Side(p, q)', Side(q, p)') /\ EndInv(Side(q, p)', Side(p, q)')
  <2>1. EndInv(Side(p, q), Side(q, p)) /\ EndInv(Side(q, p), Side(p, q))
    BY <1>10 DEF ConnectionInv
  <2>2. Side(q, p)' = Side(q, p)
    BY <1>8, <1>10
  <2>3. Side(q, p).sent \in Seq(OnlineMessage)
    BY <1>1, SidesTyped
  <2>4. Weakens(Side(q, p), Side(q, p))
    BY <2>3, ThinsTrivially DEF Weakens
  <2>5. EndInv(Side(p, q)', Side(q, p)) /\ EndInv(Side(q, p), Side(p, q)')
    BY <1>9, <2>1, <2>4, EndFree
  <2> QED
    BY <2>2, <2>5
<1>11. ASSUME NEW r \in Peer, NEW s \in Peer, r # s PROVE EndInv(Side(r, s)', Side(s, r)')
  <2>1. CASE r = p \/ s = p
    BY <1>10, <1>11, <2>1
  <2>2. CASE r # p /\ s # p
    <3>1. Side(r, s)' = Side(r, s) /\ Side(s, r)' = Side(s, r)
      BY <1>8, <2>2
    <3>2. EndInv(Side(r, s), Side(s, r))
      BY <1>11 DEF ConnectionInv
    <3> QED
      BY <3>1, <3>2
  <2> QED
    BY <2>1, <2>2
<1>12. ASSUME NEW r \in Peer PROVE ~IsActive(r, r)' /\ ~connected'[r][r] /\ r \notin banList'[r]
  <2>1. CASE r = p
    BY <1>4, <1>5, <2>1 DEF IsActive, Mode
  <2>2. CASE r # p
    BY <1>6, <2>2 DEF IsActive, Mode, ConnectionInv
  <2> QED
    BY <2>1, <2>2
<1>13. (\A r \in Peer : \A s \in Peer \ {r} : EndInv(Side(r, s), Side(s, r)))'
  BY <1>11
<1>14. (\A r \in Peer : ~IsActive(r, r) /\ ~connected[r][r] /\ r \notin banList[r])'
  BY <1>12
<1> QED
  BY <1>1, <1>2, <1>13, <1>14 DEF ConnectionInv

(* Two entries of a table set.                                             *)
LEMMA SetTwoEntries ==
    ASSUME NEW S, NEW f \in [Peer -> [Peer -> S]], NEW p \in Peer, NEW q \in Peer, p # q,
           NEW a \in S, NEW b \in S
    PROVE  /\ [[f EXCEPT ![q][p] = a] EXCEPT ![p][q] = b][p][q] = b
           /\ [[f EXCEPT ![q][p] = a] EXCEPT ![p][q] = b][q][p] = a
           /\ [f EXCEPT ![q][p] = a][p][q] = f[p][q]
           /\ \A x, y \in Peer : ~(x = p /\ y = q) /\ ~(x = q /\ y = p) =>
                [[f EXCEPT ![q][p] = a] EXCEPT ![p][q] = b][x][y] = f[x][y]
<1> DEFINE g == [f EXCEPT ![q][p] = a]
<1>1. /\ g \in [Peer -> [Peer -> S]] /\ g[q][p] = a
      /\ \A x, y \in Peer : ~(x = q /\ y = p) => g[x][y] = f[x][y]
  BY SetEntry
<1> HIDE DEF g
<1>2. /\ [g EXCEPT ![p][q] = b][p][q] = b
      /\ \A x, y \in Peer : ~(x = p /\ y = q) => [g EXCEPT ![p][q] = b][x][y] = g[x][y]
  BY <1>1, SetEntry
<1>3. g[p][q] = f[p][q] /\ [g EXCEPT ![p][q] = b][q][p] = a
  BY <1>1, <1>2
<1>4. \A x, y \in Peer : ~(x = p /\ y = q) /\ ~(x = q /\ y = p) => [g EXCEPT ![p][q] = b][x][y] = f[x][y]
  BY <1>1, <1>2
<1> QED
  BY <1>2, <1>3, <1>4 DEF g

(* The message that is taken from the other side.                          *)
Takes(v, y, i) ==
    /\ v.slot = y.slot /\ v.requesting = y.requesting /\ v.connected = y.connected
    /\ v.wrong = y.wrong /\ v.bans = y.bans /\ v.asked = y.asked
    /\ KeepsAllBut(i, v.sent, y.sent)
    /\ \E f : Thins(f, v.sent, y.sent) /\ \A k \in DOMAIN v.sent : f[k] # i

LEMMA TakenFrom ==
    ASSUME TypeOK, NEW p \in Peer, NEW q \in Peer, p # q, Touches(p, q),
           NEW i \in DOMAIN online[q][p], online'[q][p] = RemoveAt(online[q][p], i)
    PROVE  /\ Takes(Side(q, p)', Side(q, p), i)
           /\ Weakens(Side(q, p)', Side(q, p))
<1> DEFINE y == Side(q, p)
           v == Side(q, p)'
<1>1. /\ v.slot = y.slot /\ v.requesting = y.requesting /\ v.connected = y.connected
      /\ v.wrong = y.wrong /\ v.bans = y.bans /\ v.asked = y.asked
  BY Elsewhere
<1>2. online[q][p] \in Seq(OnlineMessage)
  BY DEF TypeOK
<1>3. v.sent = RemoveAt(online[q][p], i) /\ y.sent = online[q][p]
  BY DEF Side
<1>4. /\ KeepsAllBut(i, v.sent, y.sent)
      /\ \E f : Thins(f, v.sent, y.sent) /\ \A k \in DOMAIN v.sent : f[k] # i
  BY <1>2, <1>3, RemoveAtThins
<1> HIDE DEF y, v
<1>5. Takes(v, y, i)
  BY <1>1, <1>4 DEF Takes
<1>6. Weakens(v, y)
  BY <1>1, <1>4 DEF Weakens, Thinned
<1> QED
  BY <1>5, <1>6 DEF y, v

(* Receive: a message taken for a duplicate.                               *)
LEMMA DuplicateStep ==
    ASSUME ConnectionInv, TypeOK', NEW p \in Peer, NEW q \in Peer, p # q, IsActive(p, q),
           NEW i \in DOMAIN online[q][p], TakesDuplicate(p, q, i),
           UNCHANGED <<requestedConnectionQueue, bufferedCommands, upsets>>
    PROVE  ConnectionInv'
<1> DEFINE x == Side(p, q)
           y == Side(q, p)
           u == Side(p, q)'
           v == Side(q, p)'
<1>1. TypeOK
  BY DEF ConnectionInv
<1>2. online \in [Peer -> [Peer -> Seq(OnlineMessage)]]
  BY <1>1 DEF TypeOK
<1>3. /\ online' = [online EXCEPT ![q][p] = RemoveAt(online[q][p], i)]
      /\ UNCHANGED <<remoteSystemList, banList, connected, asked, unasked, stale>>
      /\ remoteSystemList[p][q].heard \notin {0, online[q][p][i].session}
  BY DEF TakesDuplicate, history
<1>4. RemoveAt(online[q][p], i) \in Seq(OnlineMessage)
  <2>1. online[q][p] \in Seq(OnlineMessage)
    BY <1>2
  <2> QED
    BY <2>1, RemoveAtSeq
<1>5. /\ online'[q][p] = RemoveAt(online[q][p], i)
      /\ \A r, s \in Peer : ~(r = q /\ s = p) => online'[r][s] = online[r][s]
  BY <1>2, <1>3, <1>4, SetEntry
<1>6. Touches(p, q)
  BY <1>3, <1>5 DEF Touches
<1>7. Takes(v, y, i) /\ Weakens(v, y)
  BY <1>1, <1>5, <1>6, TakenFrom
<1>8. u = x
  BY <1>3, <1>5 DEF Side, Requesting
<1>9. EndInv(x, y) /\ EndInv(y, x)
  BY DEF ConnectionInv
<1>10. Calm' => Calm /\ ~unasked' /\ \A r \in Peer : bufferedCommands'[r] = <<>>
  BY <1>3 DEF Calm, ConnectionInv
<1>11. Calm' => CalmInv(x, y) /\ CalmInv(y, x)
  BY <1>10 DEF ConnectionInv
<1>12. Active(x) /\ x.slot.heard \notin {0, y.sent[i].session} /\ i \in DOMAIN y.sent
       /\ x.sent \in Seq(OnlineMessage)
  BY <1>1, <1>3, SidesTyped DEF Side, Active, IsActive, Mode
<1> HIDE DEF x, y, u, v
<1>13. Weakens(x, x)
  BY <1>12, ThinsTrivially DEF Weakens
<1>14. EndInv(x, v) /\ EndInv(v, x)
  BY <1>7, <1>9, <1>13, EndFrame DEF Takes
<1>15. ASSUME Calm' PROVE CalmInv(x, v) /\ CalmInv(v, x)
  <2>1. Thinned(v.sent, y.sent)
    BY <1>7 DEF Weakens
  <2> QED
    BY <1>7, <1>11, <1>12, <1>15, <2>1, CalmDuplicate DEF Takes
<1>16. EndInv(u, v) /\ EndInv(v, u) /\ (Calm' => CalmInv(u, v) /\ CalmInv(v, u))
  BY <1>8, <1>14, <1>15
<1> QED
  BY <1>6, <1>10, <1>16, Assemble DEF u, v

(* Receive: nonsense data of an unverified sender.                         *)
LEMMA NonsenseStep ==
    ASSUME ConnectionInv, TypeOK', NEW p \in Peer, NEW q \in Peer, p # q, IsActive(p, q),
           NEW i \in DOMAIN online[q][p], TakesNonsense(p, q, i),
           UNCHANGED <<requestedConnectionQueue, bufferedCommands, upsets>>
    PROVE  ConnectionInv'
<1> DEFINE x == Side(p, q)
           y == Side(q, p)
           u == Side(p, q)'
           v == Side(q, p)'
           freed == [Inactive EXCEPT !.session = remoteSystemList[p][q].session]
<1>1. TypeOK
  BY DEF ConnectionInv
<1>2. /\ online \in [Peer -> [Peer -> Seq(OnlineMessage)]]
      /\ remoteSystemList \in [Peer -> [Peer -> RemoteSystemStruct]]
      /\ banList \in [Peer -> SUBSET Peer]
  BY <1>1 DEF TypeOK
<1>3. /\ remoteSystemList' = [remoteSystemList EXCEPT ![p][q] = freed]
      /\ online' = [[online EXCEPT ![q][p] = RemoveAt(online[q][p], i)] EXCEPT ![p][q] = <<>>]
      /\ banList' = [banList EXCEPT ![p] = @ \cup {q}]
      /\ stale' = (stale \/ ~IsOfSession(q, p, online[q][p][i].session))
      /\ UNCHANGED <<connected, asked, unasked>>
      /\ Mode(p, q) = "UNVERIFIED_SENDER" /\ online[q][p][i].id /= "ID_CONNECTION_REQUEST"
  BY DEF TakesNonsense, history
<1>4. RemoveAt(online[q][p], i) \in Seq(OnlineMessage) /\ <<>> \in Seq(OnlineMessage)
  <2>1. online[q][p] \in Seq(OnlineMessage)
    BY <1>2
  <2> QED
    BY <2>1, RemoveAtSeq
<1>5. /\ online'[q][p] = RemoveAt(online[q][p], i) /\ online'[p][q] = <<>>
      /\ \A r, s \in Peer : ~(r = p /\ s = q) /\ ~(r = q /\ s = p) => online'[r][s] = online[r][s]
  BY SMTT(60), <1>2, <1>3, <1>4, SetTwoEntries
<1>6. /\ freed \in RemoteSystemStruct /\ freed.connectMode = "INACTIVE"
      /\ freed.session = remoteSystemList[p][q].session /\ ~freed.weInitiatedTheConnection
  <2>1. remoteSystemList[p][q] \in RemoteSystemStruct
    BY <1>2
  <2>2. /\ freed \in RemoteSystemStruct
        /\ freed = [connectMode |-> "INACTIVE", guid |-> 0, weInitiatedTheConnection |-> FALSE,
                    session |-> remoteSystemList[p][q].session, heard |-> 0]
    BY <2>1, FreedType
  <2> QED
    BY <2>2
<1> HIDE DEF freed
<1>7. /\ remoteSystemList'[p][q] = freed
      /\ \A r, s \in Peer : ~(r = p /\ s = q) => remoteSystemList'[r][s] = remoteSystemList[r][s]
  BY <1>2, <1>3, <1>6, SetEntry
<1>8. \A r, s \in Peer : ~(r = p /\ s = q) => (s \in banList'[r]) = (s \in banList[r])
  <2>1. /\ banList'[p] = banList[p] \cup {q}
        /\ \A r \in Peer : r # p => banList'[r] = banList[r]
    BY <1>2, <1>3
  <2> QED
    BY <2>1
<1>9. Touches(p, q)
  BY ZenonT(60), <1>3, <1>5, <1>7, <1>8 DEF Touches
<1>10. Takes(v, y, i) /\ Weakens(v, y)
  BY <1>1, <1>5, <1>9, TakenFrom
<1>11. EndInv(x, y) /\ EndInv(y, x)
  BY DEF ConnectionInv
<1>12. ~connected[p][q]
  BY <1>3, <1>11 DEF EndInv, ToldInTime, Side, Mode
<1>13. /\ x.sent \in Seq(OnlineMessage) /\ i \in DOMAIN y.sent
       /\ y.sent[i].id \in Unordered \cup Ordered
  BY <1>1, SidesTyped DEF Side
<1>14. /\ u.slot = freed /\ u.sent = <<>> /\ u.requesting = x.requesting /\ u.asked = x.asked
       /\ u.wrong = x.wrong /\ ~u.connected /\ x.slot.session = remoteSystemList[p][q].session
       /\ x.slot.connectMode = "UNVERIFIED_SENDER" /\ y.sent[i].id # "ID_CONNECTION_REQUEST"
  BY <1>3, <1>5, <1>7, <1>12 DEF Side, Requesting, Mode
<1>15. ASSUME Calm'
       PROVE  /\ Calm /\ ~unasked' /\ \A r \in Peer : bufferedCommands'[r] = <<>>
              /\ CalmInv(x, y) /\ CalmInv(y, x) /\ Active(y) /\ y.sent[i].session = y.slot.session
  <2>1. Calm /\ IsOfSession(q, p, online[q][p][i].session)
    BY <1>3, <1>15 DEF Calm
  <2>2. Active(y) /\ y.sent[i].session = y.slot.session
    BY <2>1 DEF IsOfSession, IsActive, Mode, Active, Side
  <2> QED
    BY <1>3, <2>1, <2>2 DEF ConnectionInv
<1> HIDE DEF x, y, u, v
<1>16. Frees(u, x)
  BY <1>6, <1>13, <1>14, ThinsTrivially DEF Frees
<1>17. EndInv(u, v) /\ EndInv(v, u)
  BY <1>10, <1>11, <1>16, EndFree DEF Takes
<1>18. ASSUME Calm' PROVE CalmInv(u, v) /\ CalmInv(v, u)
  <2>1. Thinned(v.sent, y.sent)
    BY <1>10 DEF Weakens
  <2>2. /\ v.slot = y.slot /\ v.wrong = y.wrong /\ v.connected = y.connected /\ v.bans = y.bans
        /\ v.requesting = y.requesting /\ v.asked = y.asked
    BY <1>10 DEF Takes
  <2>3. ~u.slot.weInitiatedTheConnection
    BY <1>6, <1>14
  <2> QED
    BY <1>11, <1>13, <1>14, <1>15, <1>16, <1>18, <2>1, <2>2, <2>3, CalmNonsense
<1> QED
  BY <1>9, <1>15, <1>17, <1>18, Assemble DEF u, v

(* What the user is told with a message, and knows then.                   *)
Tells(p, q, id, was, mode) ==
    IF /\ id \in {"ID_CONNECTION_REQUEST_ACCEPTED", "ID_NEW_INCOMING_CONNECTION", "ID_INVALID_PASSWORD"}
       /\ mode # was
      THEN Told(p, q, id, id /= "ID_INVALID_PASSWORD") ELSE UNCHANGED history

Learns(p, q, id, was, mode) ==
    /\ connected'[p][q] =
         IF /\ id \in {"ID_CONNECTION_REQUEST_ACCEPTED", "ID_NEW_INCOMING_CONNECTION", "ID_INVALID_PASSWORD"}
            /\ mode # was
           THEN id # "ID_INVALID_PASSWORD" ELSE connected[p][q]
    /\ asked'[p][q] = (asked[p][q] /\ ~(/\ id \in {"ID_CONNECTION_REQUEST_ACCEPTED", "ID_INVALID_PASSWORD"}
                                        /\ mode # was))
    /\ unasked' => \/ unasked
                   \/ /\ id \in {"ID_CONNECTION_REQUEST_ACCEPTED", "ID_INVALID_PASSWORD"}
                      /\ mode # was /\ ~asked[p][q]
    /\ \A r, s \in Peer : ~(r = p /\ s = q) =>
         connected'[r][s] = connected[r][s] /\ asked'[r][s] = asked[r][s]

LEMMA HandledTold ==
    ASSUME TypeOK, NEW p \in Peer, NEW q \in Peer, NEW id, NEW was, NEW mode, Tells(p, q, id, was, mode)
    PROVE  Learns(p, q, id, was, mode)
<1> DEFINE shown == /\ id \in {"ID_CONNECTION_REQUEST_ACCEPTED", "ID_NEW_INCOMING_CONNECTION", "ID_INVALID_PASSWORD"}
                    /\ mode # was
<1>1. connected[p][q] \in BOOLEAN /\ asked[p][q] \in BOOLEAN
  BY DEF TypeOK
<1>2. CASE shown
  <2>1. (id /= "ID_INVALID_PASSWORD") \in BOOLEAN
    OBVIOUS
  <2>2. Told(p, q, id, id /= "ID_INVALID_PASSWORD")
    BY <1>2 DEF Tells
  <2>3. /\ connected'[p][q] = (id /= "ID_INVALID_PASSWORD")
        /\ asked'[p][q] = (asked[p][q] /\ id \in {"ID_NEW_INCOMING_CONNECTION", "ID_CONNECTION_LOST",
                                                  "ID_DISCONNECTION_NOTIFICATION"})
        /\ unasked' = (unasked \/ (/\ id \notin {"ID_NEW_INCOMING_CONNECTION", "ID_CONNECTION_LOST",
                                                 "ID_DISCONNECTION_NOTIFICATION"}
                                   /\ ~asked[p][q]))
        /\ \A r, s \in Peer : ~(r = p /\ s = q) =>
             connected'[r][s] = connected[r][s] /\ asked'[r][s] = asked[r][s]
    BY <2>1, <2>2, ToldEntry
  <2>4. id \in {"ID_NEW_INCOMING_CONNECTION", "ID_CONNECTION_LOST", "ID_DISCONNECTION_NOTIFICATION"}
          <=> id \notin {"ID_CONNECTION_REQUEST_ACCEPTED", "ID_INVALID_PASSWORD"}
    BY <1>2
  <2> QED
    BY <1>2, <2>3, <2>4 DEF Learns
<1>3. CASE ~shown
  <2>1. UNCHANGED <<connected, asked, unasked>>
    BY <1>3 DEF Tells, history
  <2>2. ~(id \in {"ID_CONNECTION_REQUEST_ACCEPTED", "ID_INVALID_PASSWORD"} /\ mode # was)
    BY <1>3
  <2> QED
    BY <1>1, <1>3, <2>1, <2>2 DEF Learns
<1> QED
  BY <1>2, <1>3

(* Receive: a message handled.                                             *)
LEMMA HandledStep ==
    ASSUME ConnectionInv, TypeOK', NEW p \in Peer, NEW q \in Peer, p # q, IsActive(p, q),
           NEW i \in DOMAIN online[q][p], TakesHandled(p, q, i),
           UNCHANGED <<requestedConnectionQueue, bufferedCommands, upsets>>
    PROVE  ConnectionInv'
<1>a. PICK m : m = online[q][p][i]
  OBVIOUS
<1>b. PICK mode, answer : mode = Handled(p, q, m.id).mode /\ answer = Handled(p, q, m.id).answer
  OBVIOUS
<1> DEFINE x == Side(p, q)
           y == Side(q, p)
           u == Side(p, q)'
           v == Side(q, p)'
           new == [remoteSystemList[p][q] EXCEPT !.connectMode = mode, !.heard = m.session]
           sent == online[p][q] \o Sent(p, q, answer)
<1>1. TypeOK
  BY DEF ConnectionInv
<1>2. /\ online \in [Peer -> [Peer -> Seq(OnlineMessage)]]
      /\ remoteSystemList \in [Peer -> [Peer -> RemoteSystemStruct]]
  BY <1>1 DEF TypeOK
<1>3. /\ remoteSystemList[p][q] \in RemoteSystemStruct /\ online[p][q] \in Seq(OnlineMessage)
      /\ online[q][p] \in Seq(OnlineMessage)
  BY <1>2
<1>4. m.id \in Unordered \cup Ordered /\ m.session \in 0 .. MaxSessions
  <2>1. m \in OnlineMessage
    BY <1>3, <1>a
  <2> QED
    BY <2>1, PeerAssumption DEF OnlineMessage
<1>5. IsHandled(Mode(p, q), m.id, <<q, p>> \in WrongPassword, mode, answer)
  BY <1>4, <1>b, HandledCases
<1>6. Mode(p, q) \in ConnectMode /\ Mode(p, q) # "INACTIVE"
  BY <1>3 DEF RemoteSystemStruct, Mode, IsActive
<1>7. /\ mode \in ConnectMode /\ answer \in Seq(Unordered \cup Ordered)
      /\ answer = <<>> \/ \E a \in {"ID_INVALID_PASSWORD", "ID_CONNECTION_REQUEST_ACCEPTED",
                                    "ID_NEW_INCOMING_CONNECTION"} : answer = <<a>>
  BY <1>5, <1>6, IsHandledType
<1>8. /\ remoteSystemList[p][q].heard \in {0, m.session}
      /\ Mode(p, q) = "UNVERIFIED_SENDER" => m.id = "ID_CONNECTION_REQUEST"
      /\ remoteSystemList' = [remoteSystemList EXCEPT ![p][q].connectMode = mode, ![p][q].heard = m.session]
      /\ online' = [[online EXCEPT ![q][p] = RemoveAt(@, i)] EXCEPT ![p][q] = @ \o Sent(p, q, answer)]
      /\ stale' = (stale \/ ~IsOfSession(q, p, m.session))
      /\ UNCHANGED banList
  BY <1>a, <1>b DEF TakesHandled
<1>9. Tells(p, q, m.id, Mode(p, q), mode)
  BY <1>a, <1>b DEF TakesHandled, IsShown, Tells
<1>10. /\ connected'[p][q] =
            IF /\ m.id \in {"ID_CONNECTION_REQUEST_ACCEPTED", "ID_NEW_INCOMING_CONNECTION", "ID_INVALID_PASSWORD"}
               /\ mode # Mode(p, q)
              THEN m.id # "ID_INVALID_PASSWORD" ELSE connected[p][q]
       /\ asked'[p][q] = (asked[p][q] /\ ~(/\ m.id \in {"ID_CONNECTION_REQUEST_ACCEPTED", "ID_INVALID_PASSWORD"}
                                           /\ mode # Mode(p, q)))
       /\ unasked' => \/ unasked
                      \/ /\ m.id \in {"ID_CONNECTION_REQUEST_ACCEPTED", "ID_INVALID_PASSWORD"}
                         /\ mode # Mode(p, q) /\ ~asked[p][q]
       /\ \A r, s \in Peer : ~(r = p /\ s = q) =>
            connected'[r][s] = connected[r][s] /\ asked'[r][s] = asked[r][s]
  <2>1. Learns(p, q, m.id, Mode(p, q), mode)
    BY <1>1, <1>9, HandledTold
  <2> QED
    BY <2>1 DEF Learns
<1>11. /\ new \in RemoteSystemStruct
       /\ new.connectMode = mode /\ new.heard = m.session /\ new.session = remoteSystemList[p][q].session
       /\ new.weInitiatedTheConnection = remoteSystemList[p][q].weInitiatedTheConnection
  <2>1. new \in RemoteSystemStruct
    BY <1>3, <1>4, <1>6, <1>7, ModeType DEF Mode
  <2> QED
    BY <1>3, <2>1 DEF RemoteSystemStruct
<1>12. remoteSystemList' = [remoteSystemList EXCEPT ![p][q] = new]
  BY <1>2, <1>8
<1> HIDE DEF new
<1>13. /\ remoteSystemList'[p][q] = new
       /\ \A r, s \in Peer : ~(r = p /\ s = q) => remoteSystemList'[r][s] = remoteSystemList[r][s]
  BY <1>2, <1>11, <1>12, SetEntry
<1>14. sent \in Seq(OnlineMessage)
  <2>1. Sent(p, q, answer) \in Seq(OnlineMessage)
    BY <1>3, <1>7, SentType
  <2> QED
    BY <1>3, <2>1
<1>15. RemoveAt(online[q][p], i) \in Seq(OnlineMessage)
  BY <1>3, RemoveAtSeq
<1>16. online' = [[online EXCEPT ![q][p] = RemoveAt(online[q][p], i)] EXCEPT ![p][q] = sent]
  <2>1. [online EXCEPT ![q][p] = RemoveAt(online[q][p], i)][p][q] = online[p][q]
    BY <1>2, <1>15, SetEntry
  <2> QED
    BY <1>8, <2>1
<1>17. \/ sent = online[p][q] /\ (answer = <<>> \/ Mode(p, q) \in Disconnecting)
       \/ \E a : answer = <<a>> /\ Adds(sent, online[p][q], [id |-> a, session |-> remoteSystemList[p][q].session])
  <2>1. CASE answer = <<>>
    <3>1. "ID_CONNECTION_REQUEST" \in Unordered \cup Ordered
      BY DEF Unordered
    <3> QED
      BY <1>3, <2>1, <3>1, SentAdds
  <2>2. ASSUME NEW a \in {"ID_INVALID_PASSWORD", "ID_CONNECTION_REQUEST_ACCEPTED", "ID_NEW_INCOMING_CONNECTION"},
               answer = <<a>>
        PROVE  \/ sent = online[p][q] /\ Mode(p, q) \in Disconnecting
               \/ Adds(sent, online[p][q], [id |-> a, session |-> remoteSystemList[p][q].session])
    <3>1. a \in Unordered \cup Ordered
      BY DEF Unordered, Ordered
    <3> QED
      BY <1>3, <2>2, <3>1, SentAdds
  <2> QED
    BY <1>7, <2>1, <2>2
<1> HIDE DEF sent
<1>18. /\ online'[q][p] = RemoveAt(online[q][p], i) /\ online'[p][q] = sent
       /\ \A r, s \in Peer : ~(r = p /\ s = q) /\ ~(r = q /\ s = p) => online'[r][s] = online[r][s]
  <2>1. PICK a, b : a = RemoveAt(online[q][p], i) /\ b = sent
    OBVIOUS
  <2>2. a \in Seq(OnlineMessage) /\ b \in Seq(OnlineMessage)
    BY <1>14, <1>15, <2>1
  <2>3. online' = [[online EXCEPT ![q][p] = a] EXCEPT ![p][q] = b]
    BY <1>16, <2>1
  <2>4. /\ online'[q][p] = a /\ online'[p][q] = b
        /\ \A r, s \in Peer : ~(r = p /\ s = q) /\ ~(r = q /\ s = p) => online'[r][s] = online[r][s]
    BY SMTT(60), <1>2, <2>2, <2>3, SetTwoEntries
  <2> QED
    BY <2>1, <2>4
<1>19. Touches(p, q)
  BY ZenonT(60), <1>8, <1>10, <1>13, <1>18 DEF Touches
<1>20. Takes(v, y, i)
  BY <1>1, <1>18, <1>19, TakenFrom
<1>21. /\ x.slot = remoteSystemList[p][q] /\ x.sent = online[p][q] /\ y.sent = online[q][p]
       /\ u.slot = new /\ u.sent = sent /\ u.requesting = x.requesting /\ u.wrong = x.wrong /\ u.bans = x.bans
       /\ u.connected = connected'[p][q] /\ x.connected = connected[p][q]
       /\ u.asked = asked'[p][q] /\ x.asked = asked[p][q] /\ y.wrong = (<<q, p>> \in WrongPassword)
  BY <1>8, <1>13, <1>18 DEF Side, Requesting
<1>22. y.slot = remoteSystemList[q][p]
  BY DEF Side
<1>23. EndInv(x, y) /\ EndInv(y, x)
  BY DEF ConnectionInv
<1>24. Calm => CalmInv(x, y) /\ CalmInv(y, x) /\ ~unasked /\ \A r \in Peer : bufferedCommands[r] = <<>>
  BY DEF ConnectionInv
<1>25. Typed(x) /\ Typed(y)
  BY <1>1, SidesTyped
<1> HIDE DEF x, y, u, v
<1>26. /\ x.slot.connectMode = Mode(p, q) /\ y.sent[i] = m /\ i \in DOMAIN y.sent
  BY <1>21, <1>a DEF Mode
<1>27. Handles(u, v, x, y, i, mode, answer)
  <2>1. Active(x) /\ x.slot.heard \in {0, m.session}
    BY <1>6, <1>8, <1>21, <1>26 DEF Active
  <2>2. IsHandled(x.slot.connectMode, m.id, y.wrong, mode, answer)
    BY <1>5, <1>21, <1>26
  <2>3. \/ u.sent = x.sent /\ (answer = <<>> \/ x.slot.connectMode \in Disconnecting)
        \/ \E a : answer = <<a>> /\ Adds(u.sent, x.sent, [id |-> a, session |-> x.slot.session])
    BY <1>17, <1>21, <1>26
  <2>4. u.connected = IF /\ m.id \in {"ID_CONNECTION_REQUEST_ACCEPTED", "ID_NEW_INCOMING_CONNECTION",
                                      "ID_INVALID_PASSWORD"}
                         /\ mode # x.slot.connectMode
                        THEN m.id # "ID_INVALID_PASSWORD" ELSE x.connected
    BY <1>10, <1>21, <1>26
  <2>5. /\ u.slot.connectMode = mode /\ u.slot.heard = m.session /\ u.slot.session = x.slot.session
        /\ u.slot.weInitiatedTheConnection = x.slot.weInitiatedTheConnection
    BY <1>11, <1>21
  <2> QED
    BY <1>8, <1>20, <1>21, <1>26, <2>1, <2>2, <2>3, <2>4, <2>5 DEF Handles, Takes
<1>28. EndInv(u, v) /\ EndInv(v, u)
  BY <1>23, <1>25, <1>27, EndHandle
<1>29. ASSUME Calm'
       PROVE  /\ Calm /\ ~unasked' /\ \A r \in Peer : bufferedCommands'[r] = <<>>
              /\ CalmInv(u, v) /\ CalmInv(v, u)
  <2>1. Calm /\ IsOfSession(q, p, m.session)
    BY <1>8, <1>29 DEF Calm
  <2>2. CalmInv(x, y) /\ CalmInv(y, x) /\ ~unasked /\ \A r \in Peer : bufferedCommands[r] = <<>>
    BY <1>24, <2>1
  <2>3. HandlesCurrent(u, v, x, y, i, mode, answer)
    BY <1>22, <1>26, <1>27, <2>1 DEF HandlesCurrent, IsOfSession, IsActive, Mode, Active
  <2>4. u.asked = (x.asked /\ ~(/\ y.sent[i].id \in {"ID_CONNECTION_REQUEST_ACCEPTED", "ID_INVALID_PASSWORD"}
                                /\ mode # x.slot.connectMode))
    BY <1>10, <1>21, <1>26
  <2>5. CalmInv(u, v) /\ CalmInv(v, u)
    <3>1. y.sent[i].id \in Unordered \cup Ordered
      BY <1>4, <1>26
    <3> QED
      BY <1>23, <1>25, <2>2, <2>3, <2>4, <3>1, CalmHandle
  <2>6. /\ m.id \in {"ID_CONNECTION_REQUEST_ACCEPTED", "ID_INVALID_PASSWORD"} /\ mode # Mode(p, q)
        => asked[p][q]
    <3>1. /\ y.sent[i].id \in {"ID_CONNECTION_REQUEST_ACCEPTED", "ID_INVALID_PASSWORD"}
          /\ mode # x.slot.connectMode
          => x.asked /\ x.slot.weInitiatedTheConnection
      BY <1>23, <2>2, <2>3, <2>4, AskedHandled
    <3> QED
      BY <1>21, <1>26, <3>1
  <2> QED
    BY <1>10, <2>1, <2>2, <2>5, <2>6
<1> QED
  BY <1>19, <1>28, <1>29, Assemble DEF u, v

(* Receive.                                                                *)
LEMMA ReceiveStep ==
    ASSUME ConnectionInv, NEW p \in Peer, NEW q \in Peer, p # q, Receive(p, q)
    PROVE  ConnectionInv'
<1>1. TypeOK /\ TypeOK'
  BY ReceiveTypes DEF ConnectionInv
<1>2. IsActive(p, q) /\ UNCHANGED <<requestedConnectionQueue, bufferedCommands, upsets>>
  BY <1>1, ReceiveCases DEF bounds
<1>3. PICK i \in DOMAIN online[q][p] :
        TakesDuplicate(p, q, i) \/ TakesNonsense(p, q, i) \/ TakesHandled(p, q, i)
  BY <1>1, ReceiveCases
<1>4. CASE TakesDuplicate(p, q, i)
  BY <1>1, <1>2, <1>4, DuplicateStep
<1>5. CASE TakesNonsense(p, q, i)
  BY <1>1, <1>2, <1>5, NonsenseStep
<1>6. CASE TakesHandled(p, q, i)
  BY <1>1, <1>2, <1>6, HandledStep
<1> QED
  BY <1>3, <1>4, <1>5, <1>6

-----------------------------------------------------------------------------
(* The inductive invariant, and what it gives.                             *)

(* It holds before anyone connects.                                        *)
LEMMA ConnectionInit ==
    ASSUME Init
    PROVE  ConnectionInv
<1>1. Inactive \in RemoteSystemStruct
  <2>1. 0 \in 0 .. MaxSessions /\ "INACTIVE" \in ConnectMode
    BY PeerAssumption DEF ConnectMode
  <2> QED
    BY <2>1 DEF Inactive, RemoteSystemStruct
<1>2. TypeOK
  <2>1. remoteSystemList \in [Peer -> [Peer -> RemoteSystemStruct]]
    BY <1>1 DEF Init
  <2>2. online \in [Peer -> [Peer -> Seq(OnlineMessage)]]
    <3>1. <<>> \in Seq(OnlineMessage)
      OBVIOUS
    <3> QED
      BY <3>1 DEF Init
  <2>3. bufferedCommands \in [Peer -> Seq([notify : BOOLEAN, target : Peer])]
    <3>1. <<>> \in Seq([notify : BOOLEAN, target : Peer])
      OBVIOUS
    <3> QED
      BY <3>1 DEF Init
  <2>4. 0 \in 0 .. MaxConnects /\ 0 \in 0 .. MaxUpsets
    BY PeerAssumption
  <2> QED
    BY <2>1, <2>2, <2>3, <2>4 DEF Init, TypeOK
<1>3. ASSUME NEW p \in Peer, NEW q \in Peer
      PROVE  /\ Side(p, q).slot = Inactive /\ Side(p, q).sent = <<>> /\ ~Side(p, q).requesting
             /\ ~Side(p, q).connected /\ ~Side(p, q).bans
  BY DEF Init, Side, Requesting
<1>4. /\ Inactive.connectMode = "INACTIVE" /\ ~Inactive.weInitiatedTheConnection
  BY DEF Inactive
<1>5. ASSUME NEW x, NEW y, x.slot = Inactive, x.sent = <<>>, ~x.requesting, ~x.connected, ~x.bans,
             y.slot = Inactive, y.sent = <<>>
      PROVE  EndInv(x, y) /\ CalmInv(x, y)
  <2>1. DOMAIN x.sent = {} /\ DOMAIN y.sent = {}
    BY <1>5
  <2>2. ~Active(x) /\ ~Active(y)
    BY <1>4, <1>5 DEF Active
  <2>3. EndInv(x, y)
    BY <1>4, <1>5, <2>1, <2>2 DEF EndInv, OneRequest, HeardByMode, ToldInTime, RefusedByPassword, Current
  <2>4. NobodyLeaves(x) /\ RepliesAwaited(x, y) /\ SilentAfterReply(x, y) /\ AskedWhileOpen(x)
    BY <1>4, <1>5, <2>1, <2>2 DEF NobodyLeaves, RepliesAwaited, SilentAfterReply, AskedWhileOpen
  <2>5. HeardIsCurrent(x, y) /\ NewFromConnected(x, y) /\ RequestAwaited(x, y)
        /\ AcceptanceAwaited(x, y) /\ StillPending(x, y)
    BY <1>4, <1>5, <2>2 DEF HeardIsCurrent, NewFromConnected, RequestAwaited, AcceptanceAwaited,
                            StillPending, Current
  <2> QED
    BY <1>5, <2>3, <2>4, <2>5 DEF CalmInv
<1>6. ASSUME NEW p \in Peer, NEW q \in Peer
      PROVE  EndInv(Side(p, q), Side(q, p)) /\ CalmInv(Side(p, q), Side(q, p))
  BY <1>3, <1>5
<1>7. \A p \in Peer : ~IsActive(p, p) /\ ~connected[p][p] /\ p \notin banList[p]
  BY <1>4 DEF Init, IsActive, Mode
<1>8. ~unasked /\ \A p \in Peer : bufferedCommands[p] = <<>>
  BY DEF Init
<1> QED
  BY <1>2, <1>6, <1>7, <1>8 DEF ConnectionInv

(* Every step keeps it.                                                    *)
LEMMA ConnectionStep ==
    ASSUME ConnectionInv, [Next]_vars
    PROVE  ConnectionInv'
<1>1. CASE UNCHANGED vars
  <2>1. UNCHANGED <<requestedConnectionQueue, remoteSystemList, bufferedCommands, banList, online,
                    connected, asked, unasked, stale, upsets>>
    BY <1>1 DEF vars, queues, network, history, bounds
  <2>2. TypeOK'
    BY TypeStep DEF ConnectionInv
  <2>3. \A r, s \in Peer : Side(r, s)' = Side(r, s)
    BY <2>1 DEF Side, Requesting
  <2>4. \A r \in Peer : IsActive(r, r)' <=> IsActive(r, r)
    BY <2>1 DEF IsActive, Mode
  <2>5. Calm' <=> Calm
    BY <2>1 DEF Calm
  <2> QED
    BY <2>1, <2>2, <2>3, <2>4, <2>5 DEF ConnectionInv
<1>2. ASSUME NEW p \in Peer, RunCommand(p) \/ Restart(p) PROVE ConnectionInv'
  BY <1>2, CommandStep, RestartStep
<1>3. ASSUME NEW p \in Peer, NEW q \in Peer \ {p},
             \/ Connect(p, q)
             \/ CancelConnectionAttempt(p, q)
             \/ \E notify \in BOOLEAN : CloseConnection(p, q, notify)
      PROVE  ConnectionInv'
  BY <1>3, ConnectStep, CancelStep, CloseStep
<1>4. ASSUME NEW p \in Peer, NEW q \in Peer \ {p},
             \/ NextRequest(p, q) \/ ReceiveWhileBanned(p, q)
             \/ ReceiveRequest1(p, q) \/ ReceiveReply1(p, q)
      PROVE  ConnectionInv'
  <2>1. UNCHANGED <<requestedConnectionQueue, remoteSystemList, bufferedCommands, banList,
                    online, history, stale, bounds>>
    BY <1>4 DEF NextRequest, ReceiveWhileBanned, ReceiveRequest1, ReceiveReply1, queues
  <2>2. TypeOK'
    BY <1>4, SendingTypes DEF ConnectionInv
  <2> QED
    BY <2>1, <2>2, SendingStep
<1>5. ASSUME NEW p \in Peer, NEW q \in Peer \ {p}, LastRequest(p, q) \/ ReceiveRefusal(p, q)
      PROVE  ConnectionInv'
  BY <1>5, EndingStep
<1>6. ASSUME NEW p \in Peer, NEW q \in Peer \ {p}, ReceiveRequest2(p, q) \/ ReceiveReply2(p, q)
      PROVE  ConnectionInv'
  BY <1>6, Request2Step, Reply2Step
<1>7. ASSUME NEW p \in Peer, NEW q \in Peer \ {p}, Receive(p, q) PROVE ConnectionInv'
  BY <1>7, ReceiveStep
<1>8. ASSUME NEW p \in Peer, NEW q \in Peer \ {p}, DropConnection(p, q) \/ BanExpires(p, q)
      PROVE  ConnectionInv'
  BY <1>8, DropStep, BanStep
<1> QED
  BY <1>1, <1>2, <1>3, <1>4, <1>5, <1>6, <1>7, <1>8 DEF Next

(* The relation of the two sides of every connection is an invariant of    *)
(* RakPeer: the modes of the slots, what they heard, what is on its way    *)
(* between them and what their users were told.                            *)
THEOREM ConnectionInvariant == Spec => []ConnectionInv
<1>1. Init => ConnectionInv
  BY ConnectionInit
<1>2. ConnectionInv /\ [Next]_vars => ConnectionInv'
  BY ConnectionStep
<1> QED
  BY <1>1, <1>2, PTL DEF Spec

(* Slots, queues and messages keep their types.                            *)
THEOREM ConnectionTypeCorrect == Spec => []TypeOK
<1>1. ConnectionInv => TypeOK
  BY DEF ConnectionInv
<1> QED
  BY <1>1, ConnectionInvariant, PTL

(* A user that takes another peer for connected has a slot for it, however *)
(* connections were closed, lost or restarted: the end of each is reported *)
(* by RunUpdateCycle or was asked for.                                     *)
THEOREM EndAlwaysReported == Spec => []EndIsReported
<1>1. ASSUME ConnectionInv PROVE EndIsReported
  <2>1. ASSUME NEW p \in Peer, NEW q \in Peer, connected[p][q] PROVE IsActive(p, q)
    <3>1. p # q
      BY <1>1, <2>1 DEF ConnectionInv
    <3>2. ToldInTime(Side(p, q), Side(q, p))
      BY <1>1, <3>1 DEF ConnectionInv, EndInv
    <3> QED
      BY <2>1, <3>2 DEF ToldInTime, Side, IsActive, Mode
  <2> QED
    BY <2>1 DEF EndIsReported
<1> QED
  BY <1>1, ConnectionInvariant, PTL

(* A call of Connect is answered once at most in a calm run: while nobody  *)
(* gives up, restarts or loses a live connection to a timer, and no        *)
(* message of a session that is over is taken.                             *)
THEOREM OneAnswerAtMost == Spec => []AtMostOneAnswer
<1>1. ConnectionInv => AtMostOneAnswer
  BY DEF ConnectionInv, AtMostOneAnswer
<1> QED
  BY <1>1, ConnectionInvariant, PTL

(* Two sides that match are the sides of peers whose passwords do.         *)
LEMMA MatchedPasswords ==
    ASSUME NEW p \in Peer, NEW q \in Peer, PasswordsMatch(p, q)
    PROVE  Matched(Side(p, q), Side(q, p))
<1>1. <<p, q>> \notin WrongPassword /\ <<q, p>> \notin WrongPassword
  BY DEF PasswordsMatch
<1> QED
  BY <1>1 DEF Matched, Side

(* In a calm run peers whose passwords match are not banned for nonsense   *)
(* data.  It says nothing once somebody has given up, restarted or lost a  *)
(* live connection to a timer, or a message of a session that is over was  *)
(* taken: a conforming peer may be banned then.                            *)
THEOREM ConformingPeersStay == Spec => []NoConformingPeerBanned
<1>1. ASSUME ConnectionInv PROVE NoConformingPeerBanned
  <2>1. ASSUME Calm, NEW p \in Peer, NEW q \in Peer, PasswordsMatch(p, q)
        PROVE  q \notin banList[p]
    <3>1. CASE p = q
      BY <1>1, <3>1 DEF ConnectionInv
    <3>2. CASE p # q
      <4>1. CalmInv(Side(p, q), Side(q, p))
        BY <1>1, <2>1, <3>2 DEF ConnectionInv
      <4>2. ~Side(p, q).bans
        BY <2>1, <4>1, MatchedPasswords DEF CalmInv
      <4> QED
        BY <4>2 DEF Side
    <3> QED
      BY <3>1, <3>2
  <2> QED
    BY <2>1 DEF NoConformingPeerBanned
<1> QED
  BY <1>1, ConnectionInvariant, PTL

(* What two sides have come to once no message is on its way.              *)
LEMMA QuietSides ==
    ASSUME NEW x, NEW y, EndInv(x, y), EndInv(y, x), CalmInv(x, y), CalmInv(y, x), Matched(x, y),
           x.slot.connectMode \in ConnectMode, y.slot.connectMode \in ConnectMode,
           x.sent = <<>>, y.sent = <<>>
    PROVE  /\ x.slot.connectMode \in {"INACTIVE", "UNVERIFIED_SENDER", "CONNECTED"}
           /\ x.slot.connectMode = "CONNECTED" => y.slot.connectMode = "CONNECTED"
           /\ x.connected <=> x.slot.connectMode = "CONNECTED"
<1>1. Matched(y, x) /\ \A id : ~Current(x, id) /\ ~Current(y, id)
  <2>1. DOMAIN x.sent = {} /\ DOMAIN y.sent = {}
    OBVIOUS
  <2> QED
    BY <2>1 DEF Matched, Current, Has
<1>2. ASSUME NEW a, NEW b, EndInv(a, b), CalmInv(a, b), Matched(a, b),
             \A id : ~Current(a, id) /\ ~Current(b, id), a.slot.connectMode \in ConnectMode
      PROVE  a.slot.connectMode \in {"INACTIVE", "UNVERIFIED_SENDER", "CONNECTED"}
  <2>1. a.slot.connectMode \notin {"REQUESTED_CONNECTION", "HANDLING_CONNECTION_REQUEST"}
    BY <1>2 DEF CalmInv, StillPending
  <2>2. a.slot.connectMode \notin Disconnecting
    BY <1>2 DEF CalmInv, NobodyLeaves, EndInv, RefusedByPassword, Disconnecting
  <2> QED
    BY <1>2, <2>1, <2>2 DEF ConnectMode, HalfOpen
<1>3. /\ x.slot.connectMode \in {"INACTIVE", "UNVERIFIED_SENDER", "CONNECTED"}
      /\ y.slot.connectMode \in {"INACTIVE", "UNVERIFIED_SENDER", "CONNECTED"}
  BY <1>1, <1>2
<1>4. ASSUME x.slot.connectMode = "CONNECTED" PROVE y.slot.connectMode = "CONNECTED"
  <2>1. x.slot.heard # 0 /\ Active(x)
    BY <1>4 DEF EndInv, HeardByMode, Active
  <2>2. Active(y) /\ y.slot.connectMode # "UNVERIFIED_SENDER"
    BY <2>1 DEF CalmInv, HeardIsCurrent
  <2> QED
    BY <1>3, <2>2 DEF Active
<1>5. x.connected <=> x.slot.connectMode = "CONNECTED"
  BY <1>3 DEF EndInv, ToldInTime, CalmInv, NobodyLeaves
<1> QED
  BY <1>3, <1>4, <1>5

(* In a calm run a handshake between peers whose passwords match that is   *)
(* over, with nothing on its way and nobody asking, has left both peers    *)
(* connected or neither, and their users know.  It says nothing of the     *)
(* pair once somebody, also of another pair, has given up, restarted or    *)
(* lost a live connection to a timer, or a stale message was taken.        *)
THEOREM HandshakesConverge == Spec => []HandshakeConverges
<1>1. ASSUME ConnectionInv PROVE HandshakeConverges
  <2>1. ASSUME Calm, NEW p \in Peer, NEW q \in Peer, Quiet(p, q), PasswordsMatch(p, q)
        PROVE  /\ Mode(p, q) \in {"INACTIVE", "UNVERIFIED_SENDER", "CONNECTED"}
               /\ Mode(p, q) = "CONNECTED" <=> Mode(q, p) = "CONNECTED"
               /\ connected[p][q] <=> Mode(p, q) = "CONNECTED"
    <3>1. CASE p = q
      BY <1>1, <3>1 DEF ConnectionInv, IsActive
    <3>2. CASE p # q
      <4> DEFINE x == Side(p, q)
                 y == Side(q, p)
      <4>1. EndInv(x, y) /\ EndInv(y, x) /\ CalmInv(x, y) /\ CalmInv(y, x)
        BY <1>1, <2>1, <3>2 DEF ConnectionInv
      <4>2. Matched(x, y) /\ Matched(y, x)
        BY <2>1, MatchedPasswords DEF Matched
      <4>3. /\ x.slot.connectMode = Mode(p, q) /\ y.slot.connectMode = Mode(q, p)
            /\ x.sent = <<>> /\ y.sent = <<>> /\ x.connected = connected[p][q]
        BY <2>1 DEF Side, Mode, Quiet
      <4>4. x.slot.connectMode \in ConnectMode /\ y.slot.connectMode \in ConnectMode
        BY <1>1, SidesTyped DEF ConnectionInv, Typed
      <4> HIDE DEF x, y
      <4>5. /\ x.slot.connectMode \in {"INACTIVE", "UNVERIFIED_SENDER", "CONNECTED"}
            /\ x.slot.connectMode = "CONNECTED" => y.slot.connectMode = "CONNECTED"
            /\ x.connected <=> x.slot.connectMode = "CONNECTED"
        BY <4>1, <4>2, <4>3, <4>4, QuietSides
      <4>6. y.slot.connectMode = "CONNECTED" => x.slot.connectMode = "CONNECTED"
        BY <4>1, <4>2, <4>3, <4>4, QuietSides
      <4> QED
        BY <4>3, <4>5, <4>6
    <3> QED
      BY <3>1, <3>2
  <2>2. \A p, q \in Peer : connected[p][q] \in BOOLEAN
    BY <1>1 DEF ConnectionInv, TypeOK
  <2> QED
    BY <2>1, <2>2 DEF HandshakeConverges
<1> QED
  BY <1>1, ConnectionInvariant, PTL

=============================================================================
