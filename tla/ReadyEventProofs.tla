-------------------------- MODULE ReadyEventProofs --------------------------
(***************************************************************************)
(* Proofs about the ReadyEvent plugin, for every set of systems, every     *)
(* interleaving of the users' calls with the messages on their way, and    *)
(* every loss of a connection.                                             *)
(***************************************************************************)
EXTENDS ReadyEvent, FiniteSetTheorems, SequenceTheorems, TLAPS

-----------------------------------------------------------------------------
(* Queues of messages.                                                     *)

(* What a message adds to a queue.                                         *)
LEMMA AppendFacts ==
    ASSUME NEW s \in Seq(Message), NEW m \in Message
    PROVE  /\ Append(s, m) \in Seq(Message)
           /\ Append(s, m) # <<>>
           /\ Append(s, m)[Len(Append(s, m))] = m
           /\ \A x : Holds(Append(s, m), x) <=> Holds(s, x) \/ x = m
           /\ m \in Status => LastStatusIs(Append(s, m), m)
           /\ m \notin Status => /\ NoStatusIn(s) => NoStatusIn(Append(s, m))
                                 /\ \A x : LastStatusIs(s, x) => LastStatusIs(Append(s, m), x)
<1>1. /\ Append(s, m) \in Seq(Message)
      /\ Len(Append(s, m)) = Len(s) + 1
      /\ Len(s) \in Nat
      /\ DOMAIN s = 1 .. Len(s)
      /\ DOMAIN Append(s, m) = 1 .. Len(s) + 1
      /\ \A i \in 1 .. Len(s) : Append(s, m)[i] = s[i]
      /\ Append(s, m)[Len(s) + 1] = m
  OBVIOUS
<1>2. \A x : Holds(Append(s, m), x) <=> Holds(s, x) \/ x = m
  BY <1>1 DEF Holds
<1>3. m \in Status => LastStatusIs(Append(s, m), m)
  BY <1>1 DEF LastStatusIs
<1>4. m \notin Status /\ NoStatusIn(s) => NoStatusIn(Append(s, m))
  BY <1>1 DEF NoStatusIn
<1>5. ASSUME m \notin Status, NEW x, LastStatusIs(s, x)
      PROVE  LastStatusIs(Append(s, m), x)
  <2>1. PICK i \in 1 .. Len(s) : s[i] = x /\ \A j \in 1 .. Len(s) : j > i => s[j] \notin Status
    BY <1>1, <1>5 DEF LastStatusIs
  <2>2. \A j \in 1 .. Len(s) + 1 : j > i => Append(s, m)[j] \notin Status
    BY <1>1, <1>5, <2>1
  <2> QED
    BY <1>1, <2>1, <2>2 DEF LastStatusIs
<1>6. Append(s, m) # <<>>
  BY <1>1
<1> QED
  BY <1>1, <1>2, <1>3, <1>4, <1>5, <1>6

(* What the message that is taken from a queue leaves behind.              *)
LEMMA TailFacts ==
    ASSUME NEW s \in Seq(Message), s # <<>>
    PROVE  /\ Tail(s) \in Seq(Message)
           /\ Head(s) \in Message
           /\ Head(s) = s[1]
           /\ Len(Tail(s)) = Len(s) - 1
           /\ \A i \in DOMAIN Tail(s) : i + 1 \in DOMAIN s /\ Tail(s)[i] = s[i + 1]
           /\ Tail(s) # <<>> => Tail(s)[Len(Tail(s))] = s[Len(s)]
           /\ Tail(s) = <<>> => Head(s) = s[Len(s)]
           /\ Holds(s, Head(s))
           /\ \A x : Holds(s, x) <=> Holds(Tail(s), x) \/ x = Head(s)
           /\ NoStatusIn(s) => NoStatusIn(Tail(s)) /\ Head(s) \notin Status
           /\ \A x : LastStatusIs(s, x) => \/ LastStatusIs(Tail(s), x)
                                           \/ NoStatusIn(Tail(s)) /\ x = Head(s)
<1>1. /\ Tail(s) \in Seq(Message)
      /\ Head(s) = s[1]
      /\ Len(s) \in Nat /\ Len(s) > 0
      /\ Len(Tail(s)) = Len(s) - 1
      /\ DOMAIN s = 1 .. Len(s)
      /\ DOMAIN Tail(s) = 1 .. Len(s) - 1
      /\ \A i \in 1 .. Len(s) - 1 : Tail(s)[i] = s[i + 1]
  OBVIOUS
<1>2. Head(s) \in Message
  BY <1>1
<1>3. \A i \in DOMAIN Tail(s) : i + 1 \in DOMAIN s /\ Tail(s)[i] = s[i + 1]
  BY <1>1
<1>4. Tail(s) # <<>> => Tail(s)[Len(Tail(s))] = s[Len(s)]
  <2>1. Tail(s) # <<>> => Len(s) - 1 \in 1 .. Len(s) - 1
    BY <1>1
  <2> QED
    BY <1>1, <2>1
<1>5. Tail(s) = <<>> => Head(s) = s[Len(s)]
  <2>1. Tail(s) = <<>> => Len(Tail(s)) = 0
    BY <1>1, EmptySeq
  <2>2. Tail(s) = <<>> => Len(s) = 1
    BY <1>1, <2>1
  <2> QED
    BY <1>1, <2>2
<1>6. \A i \in 1 .. Len(s) : i = 1 \/ (i - 1 \in 1 .. Len(s) - 1 /\ s[i] = Tail(s)[i - 1])
  BY <1>1
<1>7. \A x : Holds(s, x) <=> Holds(Tail(s), x) \/ x = Head(s)
  <2>1. ASSUME NEW x, Holds(s, x)
        PROVE  Holds(Tail(s), x) \/ x = Head(s)
    BY <1>1, <1>6, <2>1 DEF Holds
  <2>2. ASSUME NEW x, Holds(Tail(s), x) \/ x = Head(s)
        PROVE  Holds(s, x)
    BY <1>1, <1>3, <2>2 DEF Holds
  <2> QED
    BY <2>1, <2>2
<1>8. NoStatusIn(s) => NoStatusIn(Tail(s)) /\ Head(s) \notin Status
  BY <1>1, <1>3 DEF NoStatusIn
<1>9. ASSUME NEW x, LastStatusIs(s, x)
      PROVE  LastStatusIs(Tail(s), x) \/ (NoStatusIn(Tail(s)) /\ x = Head(s))
  <2>1. PICK i \in 1 .. Len(s) : s[i] = x /\ \A j \in 1 .. Len(s) : j > i => s[j] \notin Status
    BY <1>1, <1>9 DEF LastStatusIs
  <2>2. CASE i = 1
    <3>1. \A k \in 1 .. Len(s) - 1 : Tail(s)[k] \notin Status
      BY <1>1, <2>1, <2>2
    <3> QED
      BY <1>1, <2>1, <2>2, <3>1 DEF NoStatusIn
  <2>3. CASE i # 1
    <3>1. i - 1 \in 1 .. Len(s) - 1 /\ Tail(s)[i - 1] = x
      BY <1>1, <1>6, <2>1, <2>3
    <3>2. \A k \in 1 .. Len(s) - 1 : k > i - 1 => Tail(s)[k] \notin Status
      BY <1>1, <2>1, <2>3
    <3> QED
      BY <1>1, <3>1, <3>2 DEF LastStatusIs
  <2> QED
    BY <2>2, <2>3
<1>10. Holds(s, Head(s))
  BY <1>7
<1> QED
  BY <1>1, <1>2, <1>3, <1>4, <1>5, <1>7, <1>8, <1>9, <1>10

-----------------------------------------------------------------------------
(* Steps that end in UpdateReadyStatus.                                    *)

(* A wait list by its entries.                                             *)
LEMMA ListFacts ==
    ASSUME NEW list \in SystemList
    PROVE  /\ DOMAIN list \subseteq System
           /\ list \in [DOMAIN list -> RemoteSystem]
           /\ \A q \in DOMAIN list : /\ list[q] \in RemoteSystem
                                     /\ list[q].lastSentStatus \in Status
                                     /\ list[q].lastReceivedStatus \in Reported
<1>1. PICK others \in SUBSET System : list \in [others -> RemoteSystem]
  BY DEF SystemList
<1> QED
  BY <1>1 DEF RemoteSystem

(* The status UpdateReadyStatus leaves behind.                             *)
LEMMA UpdatedStatusFacts ==
    ASSUME NEW status \in Status, NEW list \in SystemList
    PROVE  LET new == UpdatedStatus(status, list) IN
           /\ new \in Status
           /\ new = "SET" => \E q \in DOMAIN list : list[q].lastReceivedStatus = "UNSET"
           /\ new = "ALL_SET" => \A q \in DOMAIN list : list[q].lastReceivedStatus # "UNSET"
           /\ new = "UNSET" <=> status = "UNSET"
           /\ new = "FORCE_ALL_SET" <=> status = "FORCE_ALL_SET"
           /\ status = "ALL_SET" /\ (\A q \in DOMAIN list : list[q].lastReceivedStatus # "UNSET")
              => new = "ALL_SET"
BY DEF UpdatedStatus, Status, Reported

(* The state after Update, entry by entry.                                 *)
HasUpdated(p, new, list, network, queues) ==
    /\ eventStatus' \in [System -> Status \cup {NoEvent}]
    /\ eventStatus'[p] = new
    /\ \A x \in System \ {p} : eventStatus'[x] = eventStatus[x]
    /\ systemList' \in [System -> SystemList]
    /\ \A x \in System \ {p} : systemList'[x] = systemList[x]
    /\ DOMAIN systemList'[p] = DOMAIN list
    /\ \A q \in DOMAIN list :
         /\ systemList'[p][q].lastSentStatus = new
         /\ systemList'[p][q].lastReceivedStatus = list[q].lastReceivedStatus
    /\ net' \in [System -> [System -> Seq(Message)]]
    /\ \A x \in System \ {p} : net'[x] = network[x]
    /\ \A q \in System :
         net'[p][q] = IF /\ q \in DOMAIN list /\ list[q].lastSentStatus # new
                         /\ Connected(p, q)
                      THEN Append(queues[q], new) ELSE queues[q]

(* Update leads to it.                                                     *)
LEMMA UpdateFacts ==
    ASSUME TypeOK, NEW p \in System, NEW status \in Status, NEW list \in SystemList,
           NEW network \in [System -> [System -> Seq(Message)]],
           NEW queues \in [System -> Seq(Message)],
           Update(p, status, list, network, queues),
           NEW new, new = UpdatedStatus(status, list)
    PROVE  HasUpdated(p, new, list, network, queues)
<1> DEFINE told == [q \in DOMAIN list |-> [list[q] EXCEPT !.lastSentStatus = new]]
           post == Posted(queues, p, Uninformed(new, list), new)
<1>1. new \in Status
  BY UpdatedStatusFacts
<1>2. /\ eventStatus' = [eventStatus EXCEPT ![p] = new]
      /\ systemList' = [systemList EXCEPT ![p] = told]
      /\ net' = [network EXCEPT ![p] = post]
  BY DEF Update
<1>3. /\ told \in SystemList
      /\ \A q \in DOMAIN list : /\ told[q].lastSentStatus = new
                                /\ told[q].lastReceivedStatus = list[q].lastReceivedStatus
  <2>1. \A q \in DOMAIN list :
           /\ [list[q] EXCEPT !.lastSentStatus = new] \in RemoteSystem
           /\ [list[q] EXCEPT !.lastSentStatus = new].lastSentStatus = new
           /\ [list[q] EXCEPT !.lastSentStatus = new].lastReceivedStatus
                 = list[q].lastReceivedStatus
    BY <1>1, ListFacts DEF RemoteSystem
  <2>2. told \in [DOMAIN list -> RemoteSystem]
    BY <2>1
  <2> QED
    BY <2>1, <2>2, ListFacts DEF SystemList
<1>4. /\ \A q \in System :
           post[q] = IF /\ q \in DOMAIN list /\ list[q].lastSentStatus # new
                        /\ Connected(p, q)
                     THEN Append(queues[q], new) ELSE queues[q]
      /\ post \in [System -> Seq(Message)]
  <2>1. new \in Message
    BY <1>1 DEF Message
  <2>2. \A q \in System : queues[q] \in Seq(Message) /\ Append(queues[q], new) \in Seq(Message)
    BY <2>1
  <2> QED
    BY <2>2 DEF Posted, Uninformed
<1> HIDE DEF told, post
<1>5. /\ eventStatus \in [System -> Status \cup {NoEvent}]
      /\ systemList \in [System -> SystemList]
  BY DEF TypeOK
<1>6. DOMAIN told = DOMAIN list
  BY DEF told
<1> QED
  BY <1>1, <1>2, <1>3, <1>4, <1>5, <1>6 DEF HasUpdated

-----------------------------------------------------------------------------
(* Settling, of any statuses, lists and queues.                            *)

Typed(st, sl, nt) ==
    /\ st \in [System -> Status \cup {NoEvent}]
    /\ sl \in [System -> SystemList]
    /\ nt \in [System -> [System -> Seq(Message)]]
    /\ \A p \in System : p \notin DOMAIN sl[p]

(* Its three parts for one pair.                                           *)
LEMMA SettlingPair ==
    ASSUME NEW st, NEW sl, NEW nt, NEW dn, NEW fg, Settling(st, sl, nt, dn, fg),
           NEW a \in System, NEW b \in System
    PROVE  /\ EndArrivesLast(sl, nt, dn, a, b)
           /\ {a, b} \notin dn /\ <<a, b>> \notin fg /\ b \in DOMAIN sl[a]
              => KnowledgeOnItsWay(st, sl, nt, a, b)
           /\ {a, b} \notin dn /\ <<a, b>> \notin fg /\ b \notin DOMAIN sl[a]
              => HasToldNothing(sl, nt, a, b)
BY DEF Settling

(* A new status changes nothing, if a forced event stays forced.           *)
LEMMA NewStatusSettles ==
    ASSUME NEW st, NEW sl, NEW nt, NEW dn, NEW fg,
           Typed(st, sl, nt), Settling(st, sl, nt, dn, fg),
           NEW p \in System, NEW new \in Status \cup {NoEvent},
           st[p] = "FORCE_ALL_SET" => new = "FORCE_ALL_SET" \/ DOMAIN sl[p] = {}
    PROVE  /\ Typed([st EXCEPT ![p] = new], sl, nt)
           /\ Settling([st EXCEPT ![p] = new], sl, nt, dn, fg)
<1> DEFINE st2 == [st EXCEPT ![p] = new]
<1>1. Typed(st2, sl, nt)
  BY DEF Typed
<1>2. ASSUME NEW q \in System, DOMAIN sl[q] # {}
      PROVE  st[q] = "FORCE_ALL_SET" => st2[q] = "FORCE_ALL_SET"
  BY <1>2 DEF Typed
<1>3. ASSUME NEW q \in System, DOMAIN sl[q] # {}, st[q] # "FORCE_ALL_SET"
      PROVE  \A received, sent : Knows(st[q], received, sent) => Knows(st2[q], received, sent)
  BY <1>3 DEF Knows
<1> HIDE DEF st2
<1>4. ASSUME NEW a \in System, NEW b \in System, {a, b} \notin dn, <<a, b>> \notin fg,
             b \in DOMAIN sl[a]
      PROVE  KnowledgeOnItsWay(st2, sl, nt, a, b)
  <2>1. KnowledgeOnItsWay(st, sl, nt, a, b)
    BY <1>4, SettlingPair
  <2>2. ASSUME a \in DOMAIN sl[b],
               Knows(st[b], sl[b][a].lastReceivedStatus, sl[a][b].lastSentStatus)
        PROVE  Knows(st2[b], sl[b][a].lastReceivedStatus, sl[a][b].lastSentStatus)
    <3>1. DOMAIN sl[b] # {}
      BY <2>2
    <3> QED
      BY <1>2, <2>2, <3>1 DEF Knows
  <2> QED
    BY <2>1, <2>2 DEF KnowledgeOnItsWay
<1>5. Settling(st2, sl, nt, dn, fg)
  BY <1>4, SettlingPair DEF Settling
<1> QED
  BY <1>1, <1>5 DEF st2

(* p tells its status: to each system it sends new, or nothing, and then   *)
(* the entry of the list stays, or there is no connection.                 *)
LEMMA TellSettles ==
    ASSUME NEW st, NEW sl, NEW nt, NEW dn, NEW fg,
           Typed(st, sl, nt), Settling(st, sl, nt, dn, fg),
           NEW p \in System, NEW new \in Status,
           NEW list \in SystemList, DOMAIN list = DOMAIN sl[p],
           \A q \in DOMAIN list : list[q].lastReceivedStatus = sl[p][q].lastReceivedStatus,
           NEW out \in [System -> Seq(Message)],
           \A q \in System :
              \/ /\ out[q] = nt[p][q]
                 /\ q \in DOMAIN list => \/ list[q].lastSentStatus = sl[p][q].lastSentStatus
                                         \/ {p, q} \in dn
              \/ /\ out[q] = Append(nt[p][q], new)
                 /\ q \in DOMAIN list /\ {p, q} \notin dn
                 /\ list[q].lastSentStatus = new
    PROVE  /\ Typed(st, [sl EXCEPT ![p] = list], [nt EXCEPT ![p] = out])
           /\ Settling(st, [sl EXCEPT ![p] = list], [nt EXCEPT ![p] = out], dn, fg)
<1> DEFINE sl2 == [sl EXCEPT ![p] = list]
           nt2 == [nt EXCEPT ![p] = out]
<1>1. /\ sl2 \in [System -> SystemList]
      /\ \A x \in System : DOMAIN sl2[x] = DOMAIN sl[x]
      /\ \A x \in System : \A q \in DOMAIN sl[x] :
            sl2[x][q].lastReceivedStatus = sl[x][q].lastReceivedStatus
      /\ \A x \in System : x # p => sl2[x] = sl[x]
      /\ sl2[p] = list
  BY DEF Typed
<1>2. /\ nt2 \in [System -> [System -> Seq(Message)]]
      /\ \A q \in System : nt2[p][q] = out[q]
      /\ \A x, q \in System : x # p => nt2[x][q] = nt[x][q]
  BY DEF Typed
<1>3. new \in Message /\ new # "ID_CONNECTION_LOST" /\ new # "QUERY"
  BY DEF Message, Status, Reported
<1> HIDE DEF sl2, nt2
<1>4. Typed(st, sl2, nt2)
  BY <1>1, <1>2 DEF Typed
<1>5. ASSUME NEW q \in System, out[q] # nt[p][q]
      PROVE  /\ q \in DOMAIN list /\ {p, q} \notin dn /\ list[q].lastSentStatus = new
             /\ LastStatusIs(out[q], new)
             /\ \A x : x # new => (Holds(out[q], x) <=> Holds(nt[p][q], x))
  <2>1. nt[p][q] \in Seq(Message)
    BY DEF Typed
  <2>2. /\ \A x : Holds(Append(nt[p][q], new), x) <=> Holds(nt[p][q], x) \/ x = new
        /\ LastStatusIs(Append(nt[p][q], new), new)
    BY <1>3, <2>1, AppendFacts
  <2>3. /\ out[q] = Append(nt[p][q], new)
        /\ q \in DOMAIN list /\ {p, q} \notin dn
        /\ list[q].lastSentStatus = new
    BY <1>5
  <2> QED
    BY <2>2, <2>3
<1>6. ASSUME NEW a \in System, NEW b \in System
      PROVE  EndArrivesLast(sl2, nt2, dn, a, b)
  <2>1. EndArrivesLast(sl, nt, dn, a, b)
    BY SettlingPair
  <2>2. /\ {a, b} \in dn => nt2[a][b] = nt[a][b]
        /\ Holds(nt2[a][b], "ID_CONNECTION_LOST") => Holds(nt[a][b], "ID_CONNECTION_LOST")
        /\ DOMAIN sl2[b] = DOMAIN sl[b]
    BY <1>1, <1>2, <1>3, <1>5
  <2>3. CASE {a, b} \notin dn
    BY <2>1, <2>2, <2>3 DEF EndArrivesLast
  <2>4. CASE {a, b} \in dn
    BY <2>1, <2>2, <2>4 DEF EndArrivesLast
  <2> QED
    BY <2>3, <2>4
<1>7. ASSUME NEW a \in System, NEW b \in System, {a, b} \notin dn, <<a, b>> \notin fg,
             b \notin DOMAIN sl2[a]
      PROVE  HasToldNothing(sl2, nt2, a, b)
  <2>1. HasToldNothing(sl, nt, a, b)
    BY <1>1, <1>7, SettlingPair
  <2>2. nt2[a][b] = nt[a][b]
    <3>1. CASE a = p
      <4>1. out[b] = nt[p][b]
        BY <1>1, <1>5, <1>7, <3>1
      <4> QED
        BY <1>2, <3>1, <4>1
    <3>2. CASE a # p
      BY <1>2, <3>2
    <3> QED
      BY <3>1, <3>2
  <2>3. /\ DOMAIN sl2[b] = DOMAIN sl[b]
        /\ a \in DOMAIN sl[b] => sl2[b][a].lastReceivedStatus = sl[b][a].lastReceivedStatus
    BY <1>1
  <2> QED
    BY <2>1, <2>2, <2>3 DEF HasToldNothing
<1>8. ASSUME NEW a \in System, NEW b \in System, {a, b} \notin dn, <<a, b>> \notin fg,
             b \in DOMAIN sl2[a]
      PROVE  KnowledgeOnItsWay(st, sl2, nt2, a, b)
  <2>1. b \in DOMAIN sl[a]
    BY <1>1, <1>8
  <2>2. KnowledgeOnItsWay(st, sl, nt, a, b)
    BY <1>8, <2>1, SettlingPair
  <2>3. Holds(nt[b][a], "QUERY") => Holds(nt2[b][a], "QUERY")
    <3>1. CASE b = p
      BY <1>2, <1>3, <1>5, <3>1
    <3>2. CASE b # p
      BY <1>2, <3>2
    <3> QED
      BY <3>1, <3>2
  <2>6. /\ DOMAIN sl2[b] = DOMAIN sl[b]
        /\ a \in DOMAIN sl[b] => sl2[b][a].lastReceivedStatus = sl[b][a].lastReceivedStatus
    BY <1>1
  <2>4. CASE a = p /\ out[b] # nt[p][b]
    <3>1. LastStatusIs(nt2[a][b], sl2[a][b].lastSentStatus)
      BY <1>1, <1>2, <1>5, <2>4
    <3> QED
      BY <3>1 DEF KnowledgeOnItsWay
  <2>5. CASE ~(a = p /\ out[b] # nt[p][b])
    <3>1. nt2[a][b] = nt[a][b]
      BY <1>2, <2>5
    <3>2. sl2[a][b].lastSentStatus = sl[a][b].lastSentStatus
      <4>1. CASE a # p
        BY <1>1, <4>1
      <4>2. CASE a = p
        <5>1. out[b] = nt[p][b] /\ b \in DOMAIN list /\ {p, b} \notin dn
          BY <1>1, <1>8, <2>5, <4>2
        <5>2. ASSUME out[b] = Append(nt[p][b], new)
              PROVE  FALSE
          <6>1. nt[p][b] \in Seq(Message)
            BY DEF Typed
          <6> QED
            BY <1>3, <5>1, <5>2, <6>1
        <5> QED
          BY <1>1, <4>2, <5>1, <5>2
      <4> QED
        BY <4>1, <4>2
    <3> QED
      BY <2>2, <2>3, <2>6, <3>1, <3>2 DEF KnowledgeOnItsWay
  <2> QED
    BY <2>4, <2>5
<1> QED
  BY <1>4, <1>6, <1>7, <1>8 DEF Settling, sl2, nt2

(* p drops systems from its list: those it forgets, or is not connected    *)
(* with.                                                                   *)
LEMMA DropSettles ==
    ASSUME NEW st, NEW sl, NEW nt, NEW dn, NEW fg,
           Typed(st, sl, nt), Settling(st, sl, nt, dn, fg),
           NEW p \in System, NEW kept \in SUBSET (DOMAIN sl[p]),
           NEW fg2, fg \subseteq fg2,
           \A q \in DOMAIN sl[p] \ kept : <<p, q>> \in fg2 \/ {p, q} \in dn
    PROVE  /\ Typed(st, [sl EXCEPT ![p] = Restrict(sl[p], kept)], nt)
           /\ Settling(st, [sl EXCEPT ![p] = Restrict(sl[p], kept)], nt, dn, fg2)
<1> DEFINE list == Restrict(sl[p], kept)
           sl2 == [sl EXCEPT ![p] = list]
<1>1. list \in SystemList /\ DOMAIN list = kept /\ \A q \in kept : list[q] = sl[p][q]
  <2>1. sl[p] \in SystemList
    BY DEF Typed
  <2>2. list \in [kept -> RemoteSystem]
    BY <2>1, ListFacts DEF Restrict
  <2>3. kept \in SUBSET System
    BY <2>1, ListFacts
  <2> QED
    BY <2>2, <2>3 DEF SystemList, Restrict
<1> HIDE DEF list
<1>2. /\ sl2 \in [System -> SystemList]
      /\ \A x \in System : x # p => sl2[x] = sl[x]
      /\ sl2[p] = list
  BY <1>1 DEF Typed
<1> HIDE DEF sl2
<1>3. \A x \in System : /\ DOMAIN sl2[x] \subseteq DOMAIN sl[x]
                        /\ \A q \in DOMAIN sl2[x] : sl2[x][q] = sl[x][q]
  <2>1. ASSUME NEW x \in System
        PROVE  /\ DOMAIN sl2[x] \subseteq DOMAIN sl[x]
               /\ \A q \in DOMAIN sl2[x] : sl2[x][q] = sl[x][q]
    <3>1. CASE x = p
      BY <1>1, <1>2, <3>1
    <3>2. CASE x # p
      BY <1>2, <3>2
    <3> QED
      BY <3>1, <3>2
  <2> QED
    BY <2>1
<1>4. Typed(st, sl2, nt)
  BY <1>2, <1>3 DEF Typed
<1>5. ASSUME NEW a \in System, NEW b \in System
      PROVE  EndArrivesLast(sl2, nt, dn, a, b)
  <2>1. EndArrivesLast(sl, nt, dn, a, b)
    BY SettlingPair
  <2>2. a \in DOMAIN sl2[b] => a \in DOMAIN sl[b]
    BY <1>3
  <2> QED
    BY <2>1, <2>2 DEF EndArrivesLast
<1>6. ASSUME NEW a \in System, NEW b \in System, {a, b} \notin dn, <<a, b>> \notin fg2,
             b \notin DOMAIN sl2[a]
      PROVE  HasToldNothing(sl2, nt, a, b)
  <2>1. b \notin DOMAIN sl[a]
    BY <1>1, <1>2, <1>6
  <2>2. HasToldNothing(sl, nt, a, b)
    BY <1>6, <2>1, SettlingPair
  <2>3. a \in DOMAIN sl2[b] => a \in DOMAIN sl[b] /\ sl2[b][a] = sl[b][a]
    BY <1>3
  <2> QED
    BY <2>2, <2>3 DEF HasToldNothing
<1>7. ASSUME NEW a \in System, NEW b \in System, {a, b} \notin dn, <<a, b>> \notin fg2,
             b \in DOMAIN sl2[a]
      PROVE  KnowledgeOnItsWay(st, sl2, nt, a, b)
  <2>1. b \in DOMAIN sl[a] /\ sl2[a][b] = sl[a][b]
    BY <1>3, <1>7
  <2>2. KnowledgeOnItsWay(st, sl, nt, a, b)
    BY <1>7, <2>1, SettlingPair
  <2>3. a \in DOMAIN sl2[b] => a \in DOMAIN sl[b] /\ sl2[b][a] = sl[b][a]
    BY <1>3
  <2> QED
    BY <2>1, <2>2, <2>3 DEF KnowledgeOnItsWay
<1> QED
  BY <1>4, <1>5, <1>6, <1>7 DEF Settling, sl2, list

(* p takes note of the status that is the next message from q.             *)
LEMMA ReceivedSettles ==
    ASSUME NEW st, NEW sl, NEW nt, NEW dn, NEW fg,
           Typed(st, sl, nt), Settling(st, sl, nt, dn, fg),
           NEW p \in System, NEW q \in System, q \in DOMAIN sl[p],
           nt[q][p] # <<>>, NEW m \in Reported, m = Head(nt[q][p]),
           NEW list \in SystemList, DOMAIN list = DOMAIN sl[p],
           list[q].lastReceivedStatus = m,
           list[q].lastSentStatus = sl[p][q].lastSentStatus,
           \A x \in DOMAIN list : x # q => list[x] = sl[p][x]
    PROVE  /\ Typed(st, [sl EXCEPT ![p] = list], nt)
           /\ Settling(st, [sl EXCEPT ![p] = list], nt, dn, fg)
<1> DEFINE sl2 == [sl EXCEPT ![p] = list]
<1>1. /\ sl2 \in [System -> SystemList]
      /\ \A x \in System : x # p => sl2[x] = sl[x]
      /\ sl2[p] = list
  BY DEF Typed
<1> HIDE DEF sl2
<1>2. ASSUME NEW x \in System
      PROVE  /\ DOMAIN sl2[x] = DOMAIN sl[x]
             /\ \A y \in DOMAIN sl[x] :
                   /\ sl2[x][y].lastSentStatus = sl[x][y].lastSentStatus
                   /\ x # p \/ y # q => sl2[x][y].lastReceivedStatus = sl[x][y].lastReceivedStatus
  <2>1. CASE x = p
    BY <1>1, <2>1
  <2>2. CASE x # p
    BY <1>1, <2>2
  <2> QED
    BY <2>1, <2>2
<1>3. Typed(st, sl2, nt)
  BY <1>1, <1>2 DEF Typed
<1>4. nt[q][p] \in Seq(Message) /\ m \in Status
  BY DEF Typed, Status
<1>5. ~NoStatusIn(nt[q][p])
  BY <1>4, TailFacts
<1>6. ASSUME NEW a \in System, NEW b \in System
      PROVE  EndArrivesLast(sl2, nt, dn, a, b)
  <2>1. EndArrivesLast(sl, nt, dn, a, b)
    BY SettlingPair
  <2> QED
    BY <1>2, <2>1 DEF EndArrivesLast
<1>7. ASSUME NEW a \in System, NEW b \in System, {a, b} \notin dn, <<a, b>> \notin fg,
             b \notin DOMAIN sl2[a]
      PROVE  HasToldNothing(sl2, nt, a, b)
  <2>1. HasToldNothing(sl, nt, a, b)
    BY <1>2, <1>7, SettlingPair
  <2>2. ~(b = p /\ a = q)
    BY <2>1 DEF HasToldNothing
  <2>3. /\ DOMAIN sl2[b] = DOMAIN sl[b]
        /\ a \in DOMAIN sl[b] => sl2[b][a].lastReceivedStatus = sl[b][a].lastReceivedStatus
    BY <1>2, <2>2
  <2> QED
    BY <2>1, <2>3 DEF HasToldNothing
<1>8. ASSUME NEW a \in System, NEW b \in System, {a, b} \notin dn, <<a, b>> \notin fg,
             b \in DOMAIN sl2[a]
      PROVE  KnowledgeOnItsWay(st, sl2, nt, a, b)
  <2>1. b \in DOMAIN sl[a] /\ sl2[a][b].lastSentStatus = sl[a][b].lastSentStatus
    BY <1>2, <1>8
  <2>2. KnowledgeOnItsWay(st, sl, nt, a, b)
    BY <1>8, <2>1, SettlingPair
  <2>3. CASE b = p /\ a = q
    BY <1>5, <2>1, <2>2, <2>3 DEF KnowledgeOnItsWay
  <2>4. CASE ~(b = p /\ a = q)
    <3>1. /\ DOMAIN sl2[b] = DOMAIN sl[b]
          /\ a \in DOMAIN sl[b] => sl2[b][a].lastReceivedStatus = sl[b][a].lastReceivedStatus
      BY <1>2, <2>4
    <3> QED
      BY <2>1, <2>2, <3>1 DEF KnowledgeOnItsWay
  <2> QED
    BY <2>3, <2>4
<1> QED
  BY <1>3, <1>6, <1>7, <1>8 DEF Settling, sl2

(* A message other than the end of the connection leaves the queue from q  *)
(* to p: a status that p knows, or a query that p has answered or that     *)
(* needs no answer.                                                        *)
LEMMA PopSettles ==
    ASSUME NEW st, NEW sl, NEW nt, NEW dn, NEW fg,
           Typed(st, sl, nt), Settling(st, sl, nt, dn, fg),
           NEW p \in System, NEW q \in System,
           nt[q][p] # <<>>, NEW m, m = Head(nt[q][p]), m # "ID_CONNECTION_LOST",
           m \in Status /\ q \in DOMAIN sl[p] => Knows(st[p], sl[p][q].lastReceivedStatus, m),
           /\ m = "QUERY" /\ q \in DOMAIN sl[p]
           /\ {p, q} \notin dn
           => LastStatusIs(nt[p][q], sl[p][q].lastSentStatus) \/ sl[p][q].lastSentStatus = "UNSET"
    PROVE  /\ Typed(st, sl, [nt EXCEPT ![q][p] = Tail(@)])
           /\ Settling(st, sl, [nt EXCEPT ![q][p] = Tail(@)], dn, fg)
<1> DEFINE nt2 == [nt EXCEPT ![q][p] = Tail(@)]
<1>1. nt[q][p] \in Seq(Message) /\ Tail(nt[q][p]) \in Seq(Message)
  BY DEF Typed
<1>2. /\ nt2 \in [System -> [System -> Seq(Message)]]
      /\ nt2[q][p] = Tail(nt[q][p])
      /\ \A a, b \in System : a # q \/ b # p => nt2[a][b] = nt[a][b]
  BY <1>1 DEF Typed
<1> HIDE DEF nt2
<1>3. Typed(st, sl, nt2)
  BY <1>2 DEF Typed
<1>4. /\ Tail(nt[q][p]) # <<>> => Tail(nt[q][p])[Len(Tail(nt[q][p]))] = nt[q][p][Len(nt[q][p])]
      /\ Tail(nt[q][p]) = <<>> => m = nt[q][p][Len(nt[q][p])]
      /\ \A x : Holds(nt[q][p], x) <=> Holds(Tail(nt[q][p]), x) \/ x = m
      /\ NoStatusIn(nt[q][p]) => NoStatusIn(Tail(nt[q][p])) /\ m \notin Status
      /\ \A x : LastStatusIs(nt[q][p], x) => \/ LastStatusIs(Tail(nt[q][p]), x)
                                             \/ NoStatusIn(Tail(nt[q][p])) /\ x = m
  BY <1>1, TailFacts
<1>5. ASSUME NEW a \in System, NEW b \in System
      PROVE  EndArrivesLast(sl, nt2, dn, a, b)
  <2>1. EndArrivesLast(sl, nt, dn, a, b)
    BY SettlingPair
  <2>2. CASE a = q /\ b = p
    <3>1. CASE {a, b} \notin dn
      BY <1>2, <1>4, <2>1, <2>2, <3>1 DEF EndArrivesLast
    <3>2. CASE {a, b} \in dn
      BY <1>2, <1>4, <2>1, <2>2, <3>2 DEF EndArrivesLast
    <3> QED
      BY <3>1, <3>2
  <2>3. CASE a # q \/ b # p
    BY <1>2, <2>1, <2>3 DEF EndArrivesLast
  <2> QED
    BY <2>2, <2>3
<1>6. ASSUME NEW a \in System, NEW b \in System, {a, b} \notin dn, <<a, b>> \notin fg,
             b \notin DOMAIN sl[a]
      PROVE  HasToldNothing(sl, nt2, a, b)
  <2>1. HasToldNothing(sl, nt, a, b)
    BY <1>6, SettlingPair
  <2>2. a # q \/ b # p
    BY <2>1 DEF HasToldNothing
  <2> QED
    BY <1>2, <2>1, <2>2 DEF HasToldNothing
<1>7. ASSUME NEW a \in System, NEW b \in System, {a, b} \notin dn, <<a, b>> \notin fg,
             b \in DOMAIN sl[a]
      PROVE  KnowledgeOnItsWay(st, sl, nt2, a, b)
  <2>1. KnowledgeOnItsWay(st, sl, nt, a, b)
    BY <1>7, SettlingPair
  <2>2. a # b
    BY <1>7 DEF Typed
  <2>3. CASE a = q /\ b = p
    <3>1. nt2[a][b] = Tail(nt[q][p]) /\ nt2[b][a] = nt[b][a]
      BY <1>2, <2>2, <2>3
    <3>2. CASE LastStatusIs(nt[a][b], sl[a][b].lastSentStatus)
      <4>1. CASE LastStatusIs(nt2[a][b], sl[a][b].lastSentStatus)
        BY <4>1 DEF KnowledgeOnItsWay
      <4>2. CASE NoStatusIn(nt2[a][b]) /\ sl[a][b].lastSentStatus = m
        <5>1. m \in Status
          <6>1. sl[a] \in SystemList
            BY DEF Typed
          <6> QED
            BY <1>7, <4>2, <6>1, ListFacts
        <5>2. a \in DOMAIN sl[b] => Knows(st[b], sl[b][a].lastReceivedStatus, m)
          BY <2>3, <5>1
        <5> QED
          BY <4>2, <5>2 DEF KnowledgeOnItsWay
      <4> QED
        BY <1>4, <2>3, <3>1, <3>2, <4>1, <4>2
    <3>3. CASE NoStatusIn(nt[a][b]) /\ ~LastStatusIs(nt[a][b], sl[a][b].lastSentStatus)
      BY <1>4, <2>1, <2>3, <3>1, <3>3 DEF KnowledgeOnItsWay
    <3> QED
      BY <2>1, <3>2, <3>3 DEF KnowledgeOnItsWay
  <2>4. CASE a = p /\ b = q
    <3>1. nt2[b][a] = Tail(nt[q][p]) /\ nt2[a][b] = nt[a][b]
      BY <1>2, <2>2, <2>4
    <3>2. CASE m # "QUERY"
      <4>1. Holds(nt[b][a], "QUERY") => Holds(nt2[b][a], "QUERY")
        BY <1>4, <2>4, <3>1, <3>2
      <4> QED
        BY <2>1, <3>1, <4>1 DEF KnowledgeOnItsWay
    <3>3. CASE m = "QUERY"
      <4>1. LastStatusIs(nt[a][b], sl[a][b].lastSentStatus) \/ sl[a][b].lastSentStatus = "UNSET"
        BY <1>7, <2>4, <3>3
      <4> QED
        BY <2>1, <3>1, <4>1 DEF KnowledgeOnItsWay, Knows
    <3> QED
      BY <3>2, <3>3
  <2>5. CASE ~(a = q /\ b = p) /\ ~(a = p /\ b = q)
    <3>1. nt2[a][b] = nt[a][b] /\ nt2[b][a] = nt[b][a]
      BY <1>2, <2>5
    <3> QED
      BY <2>1, <3>1 DEF KnowledgeOnItsWay
  <2> QED
    BY <2>3, <2>4, <2>5
<1> QED
  BY <1>3, <1>5, <1>6, <1>7 DEF Settling, nt2

(* p adds systems it can reach to its list and asks them for their status. *)
LEMMA AddSettles ==
    ASSUME NEW st, NEW sl, NEW nt, NEW dn, NEW fg,
           Typed(st, sl, nt), Settling(st, sl, nt, dn, fg),
           NEW p \in System, NEW others \in SUBSET (System \ {p}),
           others \cap DOMAIN sl[p] = {},
           \A q \in others : {q, p} \notin dn \/ nt[q][p] # <<>>,
           NEW list \in SystemList, DOMAIN list = DOMAIN sl[p] \cup others,
           \A q \in DOMAIN sl[p] : list[q] = sl[p][q],
           \A q \in others : /\ list[q].lastSentStatus = "UNSET"
                             /\ list[q].lastReceivedStatus = "UNSET",
           NEW out \in [System -> Seq(Message)],
           \A q \in System : out[q] = IF q \in others /\ {p, q} \notin dn
                                      THEN Append(nt[p][q], "QUERY") ELSE nt[p][q]
    PROVE  /\ Typed(st, [sl EXCEPT ![p] = list], [nt EXCEPT ![p] = out])
           /\ Settling(st, [sl EXCEPT ![p] = list], [nt EXCEPT ![p] = out], dn, fg)
<1> DEFINE sl2 == [sl EXCEPT ![p] = list]
           nt2 == [nt EXCEPT ![p] = out]
<1>1. /\ sl2 \in [System -> SystemList]
      /\ \A x \in System : x # p => sl2[x] = sl[x]
      /\ sl2[p] = list
  BY DEF Typed
<1>2. /\ nt2 \in [System -> [System -> Seq(Message)]]
      /\ \A q \in System : nt2[p][q] = out[q]
      /\ \A x, q \in System : x # p => nt2[x][q] = nt[x][q]
  BY DEF Typed
<1> HIDE DEF sl2, nt2
<1>3. Typed(st, sl2, nt2)
  BY <1>1, <1>2 DEF Typed
<1>4. "QUERY" \in Message /\ "QUERY" \notin Status /\ "QUERY" # "ID_CONNECTION_LOST"
  BY DEF Message, Status, Reported
<1>5. ASSUME NEW q \in System
      PROVE  /\ \A x : x # "QUERY" => (Holds(out[q], x) <=> Holds(nt[p][q], x))
             /\ Holds(nt[p][q], "QUERY") => Holds(out[q], "QUERY")
             /\ q \in others /\ {p, q} \notin dn => Holds(out[q], "QUERY")
             /\ NoStatusIn(nt[p][q]) => NoStatusIn(out[q])
             /\ \A x : LastStatusIs(nt[p][q], x) => LastStatusIs(out[q], x)
             /\ {p, q} \in dn \/ q \notin others => out[q] = nt[p][q]
  <2>1. nt[p][q] \in Seq(Message)
    BY DEF Typed
  <2>2. /\ \A x : Holds(Append(nt[p][q], "QUERY"), x) <=> Holds(nt[p][q], x) \/ x = "QUERY"
        /\ NoStatusIn(nt[p][q]) => NoStatusIn(Append(nt[p][q], "QUERY"))
        /\ \A x : LastStatusIs(nt[p][q], x) => LastStatusIs(Append(nt[p][q], "QUERY"), x)
    BY <1>4, <2>1, AppendFacts
  <2>3. CASE q \in others /\ {p, q} \notin dn
    BY <2>2, <2>3
  <2>4. CASE ~(q \in others /\ {p, q} \notin dn)
    BY <2>4
  <2> QED
    BY <2>3, <2>4
<1>6. ASSUME NEW a \in System, NEW b \in System
      PROVE  EndArrivesLast(sl2, nt2, dn, a, b)
  <2>1. EndArrivesLast(sl, nt, dn, a, b)
    BY SettlingPair
  <2>2. CASE {a, b} \notin dn
    <3>1. Holds(nt2[a][b], "ID_CONNECTION_LOST") => Holds(nt[a][b], "ID_CONNECTION_LOST")
      BY <1>2, <1>4, <1>5
    <3> QED
      BY <2>1, <2>2, <3>1 DEF EndArrivesLast
  <2>3. CASE {a, b} \in dn
    <3>1. nt2[a][b] = nt[a][b]
      BY <1>2, <1>5, <2>3
    <3>2. nt[a][b] = <<>> /\ a \in DOMAIN sl2[b] => a \in DOMAIN sl[b]
      BY <1>1, <2>3
    <3> QED
      BY <2>1, <2>3, <3>1, <3>2 DEF EndArrivesLast
  <2> QED
    BY <2>2, <2>3
<1>7. ASSUME NEW a \in System, NEW b \in System, {a, b} \notin dn, <<a, b>> \notin fg,
             b \notin DOMAIN sl2[a]
      PROVE  HasToldNothing(sl2, nt2, a, b)
  <2>1. b \notin DOMAIN sl[a]
    BY <1>1, <1>7
  <2>2. HasToldNothing(sl, nt, a, b)
    BY <1>7, <2>1, SettlingPair
  <2>3. nt2[a][b] = nt[a][b]
    <3>1. CASE a = p
      BY <1>1, <1>2, <1>5, <1>7, <3>1
    <3>2. CASE a # p
      BY <1>2, <3>2
    <3> QED
      BY <3>1, <3>2
  <2>4. a \in DOMAIN sl2[b] => sl2[b][a].lastReceivedStatus = "UNSET"
    <3>1. CASE b = p
      BY <1>1, <2>2, <3>1 DEF HasToldNothing
    <3>2. CASE b # p
      BY <1>1, <2>2, <3>2 DEF HasToldNothing
    <3> QED
      BY <3>1, <3>2
  <2> QED
    BY <2>2, <2>3, <2>4 DEF HasToldNothing
<1>8. ASSUME NEW a \in System, NEW b \in System, {a, b} \notin dn, <<a, b>> \notin fg,
             b \in DOMAIN sl2[a]
      PROVE  KnowledgeOnItsWay(st, sl2, nt2, a, b)
  <2>1. CASE a = p /\ b \in others
    <3>1. HasToldNothing(sl, nt, a, b)
      BY <1>8, <2>1, SettlingPair
    <3>2. b # p /\ sl2[b] = sl[b] /\ sl2[a][b].lastSentStatus = "UNSET"
      BY <1>1, <2>1
    <3>3. NoStatusIn(nt2[a][b])
      <4>1. NoStatusIn(nt[a][b])
        BY <3>1 DEF HasToldNothing, NoStatusIn
      <4> QED
        BY <1>2, <1>5, <2>1, <4>1
    <3> QED
      BY <3>1, <3>2, <3>3 DEF HasToldNothing, KnowledgeOnItsWay, Knows
  <2>2. CASE ~(a = p /\ b \in others)
    <3>1. b \in DOMAIN sl[a] /\ sl2[a][b] = sl[a][b]
      BY <1>1, <1>8, <2>2
    <3>2. KnowledgeOnItsWay(st, sl, nt, a, b)
      BY <1>8, <3>1, SettlingPair
    <3>3. /\ NoStatusIn(nt[a][b]) => NoStatusIn(nt2[a][b])
          /\ \A x : LastStatusIs(nt[a][b], x) => LastStatusIs(nt2[a][b], x)
      <4>1. CASE a = p
        BY <1>2, <1>5, <4>1
      <4>2. CASE a # p
        BY <1>2, <4>2
      <4> QED
        BY <4>1, <4>2
    <3>4. CASE b = p /\ a \in others
      <4>1. {p, a} \notin dn
        <5>1. {p, a} = {a, b}
          BY <3>4
        <5> QED
          BY <1>8, <5>1
      <4>2. Holds(nt2[b][a], "QUERY") /\ sl2[b][a].lastReceivedStatus = "UNSET"
        BY <1>1, <1>2, <1>5, <3>4, <4>1
      <4> QED
        BY <3>1, <3>2, <3>3, <4>2 DEF KnowledgeOnItsWay
    <3>5. CASE ~(b = p /\ a \in others)
      <4>1. a \in DOMAIN sl2[b] => a \in DOMAIN sl[b] /\ sl2[b][a] = sl[b][a]
        BY <1>1, <3>5
      <4>2. Holds(nt[b][a], "QUERY") => Holds(nt2[b][a], "QUERY")
        <5>1. CASE b = p
          BY <1>2, <1>5, <5>1
        <5>2. CASE b # p
          BY <1>2, <5>2
        <5> QED
          BY <5>1, <5>2
      <4> QED
        BY <3>1, <3>2, <3>3, <4>1, <4>2 DEF KnowledgeOnItsWay
    <3> QED
      BY <3>4, <3>5
  <2> QED
    BY <2>1, <2>2
<1> QED
  BY <1>3, <1>6, <1>7, <1>8 DEF Settling, sl2, nt2

(* Of two systems, what may change when connections are lost, or their end *)
(* arrives: nothing if they are still connected, and otherwise the queue   *)
(* ends with ID_CONNECTION_LOST or has delivered it.                       *)
Ends(sl, nt, sl2, nt2, dn2, a, b) ==
    /\ b \in DOMAIN sl2[a] => b \in DOMAIN sl[a] /\ sl2[a][b] = sl[a][b]
    /\ {a, b} \in dn2 =>
         /\ nt2[a][b] = <<>> => a \notin DOMAIN sl2[b]
         /\ nt2[a][b] # <<>> => nt2[a][b][Len(nt2[a][b])] = "ID_CONNECTION_LOST"
    /\ {a, b} \notin dn2 =>
         /\ b \in DOMAIN sl[a] => b \in DOMAIN sl2[a]
         /\ nt2[a][b] = nt[a][b] \/ (nt2[a][b] = <<>> /\ a = b)

(* A step that does no more keeps Settling.                                *)
LEMMA DisconnectSettles ==
    ASSUME NEW st, NEW sl, NEW nt, NEW dn, NEW fg,
           Typed(st, sl, nt), Settling(st, sl, nt, dn, fg),
           NEW sl2 \in [System -> SystemList],
           NEW nt2 \in [System -> [System -> Seq(Message)]],
           NEW dn2, dn \subseteq dn2,
           \A a, b \in System : Ends(sl, nt, sl2, nt2, dn2, a, b)
    PROVE  /\ Typed(st, sl2, nt2)
           /\ Settling(st, sl2, nt2, dn2, fg)
<1>1. Typed(st, sl2, nt2)
  BY DEF Typed, Ends
<1>2. ASSUME NEW a \in System, NEW b \in System
      PROVE  EndArrivesLast(sl2, nt2, dn2, a, b)
  <2>1. CASE {a, b} \in dn2
    BY <2>1 DEF EndArrivesLast, Ends
  <2>2. CASE {a, b} \notin dn2
    <3>1. ~Holds(nt[a][b], "ID_CONNECTION_LOST")
      <4>1. EndArrivesLast(sl, nt, dn, a, b)
        BY SettlingPair
      <4>2. {a, b} \notin dn
        BY <2>2
      <4> QED
        BY <4>1, <4>2 DEF EndArrivesLast
    <3>2. ~Holds(<<>>, "ID_CONNECTION_LOST")
      BY DEF Holds
    <3>3. ~Holds(nt2[a][b], "ID_CONNECTION_LOST")
      <4>1. nt2[a][b] = nt[a][b] \/ nt2[a][b] = <<>>
        BY <2>2 DEF Ends
      <4> QED
        BY <3>1, <3>2, <4>1
    <3> QED
      BY <2>2, <3>3 DEF EndArrivesLast
  <2> QED
    BY <2>1, <2>2
<1>3. ASSUME NEW a \in System, NEW b \in System, {a, b} \notin dn2, <<a, b>> \notin fg,
             b \notin DOMAIN sl2[a]
      PROVE  HasToldNothing(sl2, nt2, a, b)
  <2>1. HasToldNothing(sl, nt, a, b)
    <3>1. {a, b} \notin dn /\ b \notin DOMAIN sl[a]
      BY <1>3 DEF Ends
    <3> QED
      BY <1>3, <3>1, SettlingPair
  <2>2. /\ nt2[a][b] = nt[a][b] \/ nt2[a][b] = <<>>
        /\ a \in DOMAIN sl2[b] => a \in DOMAIN sl[b] /\ sl2[b][a] = sl[b][a]
    BY <1>3 DEF Ends
  <2> QED
    BY <2>1, <2>2 DEF HasToldNothing
<1>4. ASSUME NEW a \in System, NEW b \in System, {a, b} \notin dn2, <<a, b>> \notin fg,
             b \in DOMAIN sl2[a]
      PROVE  KnowledgeOnItsWay(st, sl2, nt2, a, b)
  <2>1. b \in DOMAIN sl[a] /\ sl2[a][b] = sl[a][b]
    BY <1>4 DEF Ends
  <2>2. KnowledgeOnItsWay(st, sl, nt, a, b)
    BY <1>4, <2>1, SettlingPair
  <2>3. a # b
    BY <2>1 DEF Typed
  <2>4. {b, a} \notin dn2
    <3>1. {b, a} = {a, b}
      OBVIOUS
    <3> QED
      BY <1>4, <3>1
  <2>5. nt2[a][b] = nt[a][b] /\ nt2[b][a] = nt[b][a]
    BY <1>4, <2>3, <2>4 DEF Ends
  <2>6. a \in DOMAIN sl2[b] => a \in DOMAIN sl[b] /\ sl2[b][a] = sl[b][a]
    BY DEF Ends
  <2> QED
    BY <2>1, <2>2, <2>5, <2>6 DEF KnowledgeOnItsWay
<1> QED
  BY <1>1, <1>2, <1>3, <1>4 DEF Settling

(* Two systems connect again when both have noticed that they were not     *)
(* connected: neither is in the list of the other.                         *)
LEMMA ReconnectSettles ==
    ASSUME NEW st, NEW sl, NEW nt, NEW dn, NEW fg,
           Typed(st, sl, nt), Settling(st, sl, nt, dn, fg),
           NEW p \in System, NEW q \in System, {p, q} \in dn,
           nt[p][q] = <<>>, nt[q][p] = <<>>
    PROVE  Settling(st, sl, nt, dn \ {{p, q}}, fg \ {<<p, q>>, <<q, p>>})
<1> DEFINE dn2 == dn \ {{p, q}}
           fg2 == fg \ {<<p, q>>, <<q, p>>}
<1>1. {q, p} = {p, q}
  OBVIOUS
<1>2. p \notin DOMAIN sl[q] /\ q \notin DOMAIN sl[p]
  <2>1. EndArrivesLast(sl, nt, dn, p, q) /\ EndArrivesLast(sl, nt, dn, q, p)
    BY SettlingPair
  <2> QED
    BY <1>1, <2>1 DEF EndArrivesLast
<1>3. ASSUME NEW a \in System, NEW b \in System, {a, b} = {p, q}
      PROVE  (a = p /\ b = q) \/ (a = q /\ b = p)
  BY <1>3
<1>4. ASSUME NEW a \in System, NEW b \in System
      PROVE  EndArrivesLast(sl, nt, dn2, a, b)
  <2>1. EndArrivesLast(sl, nt, dn, a, b)
    BY SettlingPair
  <2>2. CASE {a, b} = {p, q}
    <3>1. nt[a][b] = <<>>
      BY <1>3, <2>2
    <3> QED
      BY <2>2, <3>1 DEF EndArrivesLast, Holds
  <2>3. CASE {a, b} # {p, q}
    BY <2>1, <2>3 DEF EndArrivesLast
  <2> QED
    BY <2>2, <2>3
<1>5. ASSUME NEW a \in System, NEW b \in System, {a, b} \notin dn2, <<a, b>> \notin fg2
      PROVE  IF b \in DOMAIN sl[a] THEN KnowledgeOnItsWay(st, sl, nt, a, b)
                                   ELSE HasToldNothing(sl, nt, a, b)
  <2>1. CASE {a, b} = {p, q}
    <3>1. nt[a][b] = <<>> /\ b \notin DOMAIN sl[a] /\ a \notin DOMAIN sl[b]
      BY <1>2, <1>3, <2>1
    <3> QED
      BY <3>1 DEF HasToldNothing
  <2>2. CASE {a, b} # {p, q}
    <3>1. {a, b} \notin dn
      BY <1>5, <2>2
    <3>2. <<a, b>> \notin fg
      <4>1. <<a, b>> # <<p, q>> /\ <<a, b>> # <<q, p>>
        BY <1>1, <2>2
      <4> QED
        BY <1>5, <4>1
    <3> QED
      BY <3>1, <3>2, SettlingPair
  <2> QED
    BY <2>1, <2>2
<1> QED
  BY <1>4, <1>5 DEF Settling

-----------------------------------------------------------------------------
(* NothingTakenBack, of any statuses, lists and queues.                    *)

(* A system that had status old may get status new and take nothing back.  *)
Rises(old, new) == \A told \in Message : Bears(old, told) => Bears(new, told)

(* Queues in which nothing is taken back.                                  *)
LEMMA OnlyRisesFacts ==
    ASSUME NEW status, NEW s \in Seq(Message), OnlyRises(status, s)
    PROVE  /\ \A new : Rises(status, new) => OnlyRises(new, s)
           /\ \A m \in Message :
                 m # "UNSET" /\ Bears(status, m) /\ (m = "SET" => ~Holds(s, "ALL_SET"))
                 => OnlyRises(status, Append(s, m))
           /\ s # <<>> => /\ OnlyRises(status, Tail(s))
                          /\ Head(s) # "UNSET" /\ Bears(status, Head(s))
                          /\ Head(s) = "ALL_SET" => ~Holds(s, "SET")
           /\ \A k \in 0 .. Len(s) : /\ Lost(s, k) \in Seq(Message)
                                     /\ OnlyRises(status, Lost(s, k))
                                     /\ Lost(s, k) # <<>>
                                     /\ Lost(s, k)[Len(Lost(s, k))] = "ID_CONNECTION_LOST"
                                     /\ Holds(Lost(s, k), "SET") => Holds(s, "SET")
<1>1. /\ Len(s) \in Nat
      /\ DOMAIN s = 1 .. Len(s)
      /\ \A i \in DOMAIN s : s[i] \in Message
  OBVIOUS
<1>2. ASSUME NEW new, Rises(status, new)
      PROVE  OnlyRises(new, s)
  BY <1>1, <1>2 DEF OnlyRises, Rises
<1>3. ASSUME NEW t \in Seq(Message), OnlyRises(status, t), NEW m \in Message,
             m # "UNSET", Bears(status, m), m = "SET" => ~Holds(t, "ALL_SET")
      PROVE  OnlyRises(status, Append(t, m))
  <2>1. /\ Len(t) \in Nat
        /\ DOMAIN t = 1 .. Len(t)
        /\ DOMAIN Append(t, m) = 1 .. Len(t) + 1
        /\ \A i \in 1 .. Len(t) : Append(t, m)[i] = t[i]
        /\ Append(t, m)[Len(t) + 1] = m
    OBVIOUS
  <2>2. ASSUME NEW i \in 1 .. Len(t) + 1
        PROVE  /\ Append(t, m)[i] # "UNSET"
               /\ Bears(status, Append(t, m)[i])
               /\ Append(t, m)[i] = "SET"
                  => \A j \in 1 .. i - 1 : Append(t, m)[j] # "ALL_SET"
    <3>1. CASE i \in 1 .. Len(t)
      <4>1. /\ t[i] # "UNSET" /\ Bears(status, t[i])
            /\ t[i] = "SET" => \A j \in 1 .. i - 1 : t[j] # "ALL_SET"
        BY <1>3, <2>1, <3>1 DEF OnlyRises
      <4> QED
        BY <2>1, <3>1, <4>1
    <3>2. CASE i = Len(t) + 1
      BY <1>3, <2>1, <3>2 DEF Holds
    <3> QED
      BY <2>1, <3>1, <3>2
  <2> QED
    BY <2>1, <2>2 DEF OnlyRises
<1>4. ASSUME s # <<>>
      PROVE  /\ OnlyRises(status, Tail(s))
             /\ Head(s) # "UNSET" /\ Bears(status, Head(s))
             /\ Head(s) = "ALL_SET" => ~Holds(s, "SET")
  <2>1. /\ Len(s) > 0 /\ Head(s) = s[1]
        /\ DOMAIN Tail(s) = 1 .. Len(s) - 1
        /\ \A i \in 1 .. Len(s) - 1 : Tail(s)[i] = s[i + 1]
    BY <1>1, <1>4
  <2>2. ASSUME NEW i \in 1 .. Len(s) - 1
        PROVE  /\ Tail(s)[i] # "UNSET"
               /\ Bears(status, Tail(s)[i])
               /\ Tail(s)[i] = "SET" => \A j \in 1 .. i - 1 : Tail(s)[j] # "ALL_SET"
    <3>1. /\ s[i + 1] # "UNSET" /\ Bears(status, s[i + 1])
          /\ s[i + 1] = "SET" => \A j \in 1 .. i : s[j] # "ALL_SET"
      <4>1. i + 1 \in DOMAIN s /\ i + 1 - 1 = i
        BY <1>1
      <4> QED
        BY <4>1 DEF OnlyRises
    <3> QED
      BY <1>1, <2>1, <3>1
  <2>3. OnlyRises(status, Tail(s))
    BY <2>1, <2>2 DEF OnlyRises
  <2>4. Head(s) # "UNSET" /\ Bears(status, Head(s))
    BY <1>1, <2>1 DEF OnlyRises
  <2>5. ASSUME Head(s) = "ALL_SET", NEW i \in DOMAIN s, s[i] = "SET"
        PROVE  FALSE
    <3>1. i # 1 /\ 1 \in 1 .. i - 1
      BY <1>1, <2>1, <2>5
    <3> QED
      BY <2>1, <2>5, <3>1 DEF OnlyRises
  <2> QED
    BY <2>3, <2>4, <2>5 DEF Holds
<1>5. ASSUME NEW k \in 0 .. Len(s)
      PROVE  /\ Lost(s, k) \in Seq(Message)
             /\ OnlyRises(status, Lost(s, k))
             /\ Lost(s, k) # <<>>
             /\ Lost(s, k)[Len(Lost(s, k))] = "ID_CONNECTION_LOST"
             /\ Holds(Lost(s, k), "SET") => Holds(s, "SET")
  <2> DEFINE t == SubSeq(s, 1, k)
  <2>1. /\ t \in Seq(Message) /\ Len(t) = k
        /\ \A i \in 1 .. k : t[i] = s[i]
    BY <1>1
  <2>2. DOMAIN t = 1 .. k
    BY <1>1, <2>1
  <2> HIDE DEF t
  <2>3. OnlyRises(status, t)
    BY <1>1, <2>1, <2>2 DEF OnlyRises
  <2>4. "ID_CONNECTION_LOST" \in Message /\ Bears(status, "ID_CONNECTION_LOST")
    BY DEF Message, Bears
  <2>5. OnlyRises(status, Append(t, "ID_CONNECTION_LOST"))
    BY <1>3, <2>1, <2>3, <2>4
  <2>6. /\ Append(t, "ID_CONNECTION_LOST") \in Seq(Message)
        /\ Append(t, "ID_CONNECTION_LOST") # <<>>
        /\ Append(t, "ID_CONNECTION_LOST")[Len(Append(t, "ID_CONNECTION_LOST"))]
             = "ID_CONNECTION_LOST"
        /\ Holds(Append(t, "ID_CONNECTION_LOST"), "SET") => Holds(t, "SET")
    BY <2>1, <2>4, AppendFacts
  <2>7. Holds(t, "SET") => Holds(s, "SET")
    BY <1>1, <2>1, <2>2 DEF Holds
  <2> QED
    BY <2>5, <2>6, <2>7 DEF Lost, t
<1> QED
  BY <1>2, <1>3, <1>4, <1>5

(* A status that does not fall back changes nothing.                       *)
LEMMA NewStatusTakesNothingBack ==
    ASSUME NEW st, NEW sl, NEW nt, Typed(st, sl, nt), NothingTakenBack(st, sl, nt),
           NEW p \in System, NEW new \in Status \cup {NoEvent}, Rises(st[p], new)
    PROVE  NothingTakenBack([st EXCEPT ![p] = new], sl, nt)
<1> DEFINE st2 == [st EXCEPT ![p] = new]
<1>1. \A a \in System : Rises(st[a], st2[a])
  BY DEF Typed, Rises
<1> HIDE DEF st2
<1>2. ASSUME NEW a \in System, NEW b \in System
      PROVE  StillTrue(st2, sl, nt, a, b)
  <2>1. StillTrue(st, sl, nt, a, b)
    BY DEF NothingTakenBack
  <2>2. sl[a] \in SystemList /\ sl[b] \in SystemList /\ nt[a][b] \in Seq(Message)
    BY DEF Typed
  <2>3. OnlyRises(st2[a], nt[a][b])
    BY <1>1, <2>1, <2>2, OnlyRisesFacts DEF StillTrue
  <2>4. /\ b \in DOMAIN sl[a] => sl[a][b].lastSentStatus \in Message
        /\ a \in DOMAIN sl[b] => sl[b][a].lastReceivedStatus \in Message
    BY <2>2, ListFacts DEF Message, Status
  <2> QED
    BY <1>1, <2>1, <2>3, <2>4 DEF StillTrue, Rises
<1> QED
  BY <1>2 DEF NothingTakenBack, st2

(* Of two systems, what may change when they hear, ask, drop from their    *)
(* lists or lose something.                                                *)
Hears(sl, nt, sl2, nt2, a, b) ==
    /\ b \in DOMAIN sl2[a] =>
         /\ \/ sl2[a][b].lastSentStatus = "UNSET"
            \/ b \in DOMAIN sl[a] /\ sl2[a][b].lastSentStatus = sl[a][b].lastSentStatus
         /\ \/ sl2[a][b].lastReceivedStatus = "UNSET"
            \/ b \in DOMAIN sl[a] /\ sl2[a][b].lastReceivedStatus = sl[a][b].lastReceivedStatus
            \/ nt[b][a] # <<>> /\ sl2[a][b].lastReceivedStatus = Head(nt[b][a])
    /\ \/ nt2[a][b] = nt[a][b]
       \/ nt[a][b] # <<>> /\ nt2[a][b] = Tail(nt[a][b])
       \/ nt2[a][b] = Append(nt[a][b], "QUERY")
       \/ \E k \in 0 .. Len(nt[a][b]) : nt2[a][b] = Lost(nt[a][b], k)

(* None of that takes anything back.                                       *)
LEMMA HearingTakesNothingBack ==
    ASSUME NEW st, NEW sl, NEW nt, Typed(st, sl, nt), NothingTakenBack(st, sl, nt),
           NEW sl2, NEW nt2, \A a, b \in System : Hears(sl, nt, sl2, nt2, a, b)
    PROVE  NothingTakenBack(st, sl2, nt2)
<1>1. ASSUME NEW a \in System, NEW b \in System
      PROVE  StillTrue(st, sl2, nt2, a, b)
  <2>0. Hears(sl, nt, sl2, nt2, a, b) /\ Hears(sl, nt, sl2, nt2, b, a)
    OBVIOUS
  <2>1. StillTrue(st, sl, nt, a, b)
    BY DEF NothingTakenBack
  <2>2. nt[a][b] \in Seq(Message) /\ OnlyRises(st[a], nt[a][b])
    BY <2>1 DEF Typed, StillTrue
  <2>3. Bears(st[a], "UNSET") /\ "QUERY" \in Message /\ Bears(st[a], "QUERY")
    BY DEF Bears, Message
  <2>4. /\ OnlyRises(st[a], nt2[a][b])
        /\ Holds(nt2[a][b], "SET") => Holds(nt[a][b], "SET")
    <3>1. CASE nt2[a][b] = nt[a][b]
      BY <2>2, <3>1
    <3>2. CASE nt[a][b] # <<>> /\ nt2[a][b] = Tail(nt[a][b])
      <4>1. OnlyRises(st[a], Tail(nt[a][b]))
        BY <2>2, <3>2, OnlyRisesFacts
      <4>2. Holds(Tail(nt[a][b]), "SET") => Holds(nt[a][b], "SET")
        BY <2>2, <3>2, TailFacts
      <4> QED
        BY <3>2, <4>1, <4>2
    <3>3. CASE nt2[a][b] = Append(nt[a][b], "QUERY")
      <4>1. OnlyRises(st[a], Append(nt[a][b], "QUERY"))
        BY <2>2, <2>3, OnlyRisesFacts
      <4>2. Holds(Append(nt[a][b], "QUERY"), "SET") => Holds(nt[a][b], "SET")
        BY <2>2, <2>3, AppendFacts
      <4> QED
        BY <3>3, <4>1, <4>2
    <3>4. CASE \E k \in 0 .. Len(nt[a][b]) : nt2[a][b] = Lost(nt[a][b], k)
      BY <2>2, <3>4, OnlyRisesFacts
    <3> QED
      BY <2>0, <3>1, <3>2, <3>3, <3>4 DEF Hears
  <2>5. b \in DOMAIN sl2[a] => Bears(st[a], sl2[a][b].lastSentStatus)
    BY <2>0, <2>1, <2>3 DEF StillTrue, Hears
  <2>6. ASSUME a \in DOMAIN sl2[b]
        PROVE  /\ Bears(st[a], sl2[b][a].lastReceivedStatus)
               /\ sl2[b][a].lastReceivedStatus = "ALL_SET" => ~Holds(nt2[a][b], "SET")
    <3>1. CASE sl2[b][a].lastReceivedStatus = "UNSET"
      BY <2>3, <3>1
    <3>2. CASE a \in DOMAIN sl[b] /\ sl2[b][a].lastReceivedStatus = sl[b][a].lastReceivedStatus
      BY <2>1, <2>4, <3>2 DEF StillTrue
    <3>3. CASE nt[a][b] # <<>> /\ sl2[b][a].lastReceivedStatus = Head(nt[a][b])
      BY <2>2, <2>4, <3>3, OnlyRisesFacts
    <3> QED
      BY <2>0, <2>6, <3>1, <3>2, <3>3 DEF Hears
  <2> QED
    BY <2>4, <2>5, <2>6 DEF StillTrue
<1> QED
  BY <1>1 DEF NothingTakenBack

(* Nor does telling the status: UNSET is told only to a system that was    *)
(* told another status before, and that would have been taken back.        *)
LEMMA TellingTakesNothingBack ==
    ASSUME NEW st, NEW sl, NEW nt, Typed(st, sl, nt), NothingTakenBack(st, sl, nt),
           NEW p \in System, st[p] \in Status,
           NEW list \in SystemList, DOMAIN list = DOMAIN sl[p],
           \A q \in DOMAIN list :
              /\ list[q].lastReceivedStatus = sl[p][q].lastReceivedStatus
              /\ \/ list[q].lastSentStatus = sl[p][q].lastSentStatus
                 \/ list[q].lastSentStatus = st[p],
           NEW out \in [System -> Seq(Message)],
           \A q \in System :
              \/ out[q] = nt[p][q]
              \/ /\ out[q] = Append(nt[p][q], st[p]) /\ q \in DOMAIN list
                 /\ st[p] # "UNSET" \/ sl[p][q].lastSentStatus # "UNSET"
    PROVE  NothingTakenBack(st, [sl EXCEPT ![p] = list], [nt EXCEPT ![p] = out])
<1> DEFINE sl2 == [sl EXCEPT ![p] = list]
           nt2 == [nt EXCEPT ![p] = out]
<1>1. /\ \A x \in System : DOMAIN sl2[x] = DOMAIN sl[x]
      /\ \A x \in System : x # p => sl2[x] = sl[x]
      /\ \A x \in System : \A q \in DOMAIN sl[x] :
            sl2[x][q].lastReceivedStatus = sl[x][q].lastReceivedStatus
      /\ sl2[p] = list
  BY DEF Typed
<1>2. /\ \A q \in System : nt2[p][q] = out[q]
      /\ \A x, q \in System : x # p => nt2[x][q] = nt[x][q]
  BY DEF Typed
<1> HIDE DEF sl2, nt2
<1>3. ASSUME NEW a \in System, NEW b \in System
      PROVE  StillTrue(st, sl2, nt2, a, b)
  <2>1. StillTrue(st, sl, nt, a, b)
    BY DEF NothingTakenBack
  <2>2. /\ DOMAIN sl2[b] = DOMAIN sl[b] /\ DOMAIN sl2[a] = DOMAIN sl[a]
        /\ a \in DOMAIN sl[b] => sl2[b][a].lastReceivedStatus = sl[b][a].lastReceivedStatus
    BY <1>1
  <2>3. CASE a # p
    BY <1>1, <1>2, <2>1, <2>2, <2>3 DEF StillTrue
  <2>4. CASE a = p
    <3>1. Bears(st[p], st[p])
      BY DEF Bears
    <3>2. b \in DOMAIN sl[a] => Bears(st[a], sl2[a][b].lastSentStatus)
      BY <1>1, <2>1, <2>4, <3>1 DEF StillTrue
    <3>3. CASE nt2[a][b] = nt[a][b]
      BY <2>1, <2>2, <3>2, <3>3 DEF StillTrue
    <3>4. CASE nt2[a][b] # nt[a][b]
      <4>1. /\ nt2[a][b] = Append(nt[a][b], st[a]) /\ b \in DOMAIN sl[a]
            /\ st[a] # "UNSET" \/ sl[a][b].lastSentStatus # "UNSET"
        BY <1>2, <2>4, <3>4
      <4>2. st[a] # "UNSET"
        <5>1. Bears(st[a], sl[a][b].lastSentStatus)
          BY <2>1, <4>1 DEF StillTrue
        <5>2. sl[a][b].lastSentStatus \in Status
          <6>1. sl[a] \in SystemList
            BY DEF Typed
          <6> QED
            BY <4>1, <6>1, ListFacts
        <5> QED
          BY <4>1, <5>1, <5>2 DEF Bears, Status, Reported
      <4>3. nt[a][b] \in Seq(Message) /\ st[a] \in Message /\ OnlyRises(st[a], nt[a][b])
        BY <2>1, <2>4 DEF Typed, StillTrue, Message
      <4>4. st[a] = "SET" => ~Holds(nt[a][b], "ALL_SET")
        BY <4>3 DEF OnlyRises, Bears, Holds
      <4>5. OnlyRises(st[a], nt2[a][b])
        BY <2>4, <3>1, <4>1, <4>2, <4>3, <4>4, OnlyRisesFacts
      <4>6. Holds(nt2[a][b], "SET") => Holds(nt[a][b], "SET") \/ st[a] = "SET"
        BY <4>1, <4>3, AppendFacts
      <4>7. ASSUME a \in DOMAIN sl[b], sl[b][a].lastReceivedStatus = "ALL_SET"
            PROVE  ~Holds(nt2[a][b], "SET")
        <5>1. Bears(st[a], "ALL_SET") /\ ~Holds(nt[a][b], "SET")
          BY <2>1, <4>7 DEF StillTrue
        <5> QED
          BY <4>6, <5>1 DEF Bears
      <4> QED
        BY <2>1, <2>2, <3>2, <4>5, <4>7 DEF StillTrue
    <3> QED
      BY <3>3, <3>4
  <2> QED
    BY <2>3, <2>4
<1> QED
  BY <1>3 DEF NothingTakenBack, sl2, nt2

-----------------------------------------------------------------------------
(* The steps of the specification.                                         *)

(* The parts of the invariant in a state that is given by its values.      *)
LEMMA InvFacts ==
    ASSUME ReadyInv
    PROVE  /\ Typed(eventStatus, systemList, net)
           /\ \A p \in System : eventStatus[p] = NoEvent => DOMAIN systemList[p] = {}
           /\ \A p \in System : eventStatus[p] # NoEvent => eventStatus[p] \in Status
           /\ \A p \in System : net[p] \in [System -> Seq(Message)]
           /\ \A p \in System : systemList[p] \in SystemList
           /\ Settling(eventStatus, systemList, net, down, forgot)
           /\ forgot \subseteq System \X System
           /\ undos \in 0 .. MaxUndo /\ MaxUndo \in Nat /\ undone \in BOOLEAN
           /\ down \subseteq {{p, q} : p \in System, q \in System}
           /\ \A p \in System : {p, p} \notin down
<1>1. TypeOK /\ Settling(eventStatus, systemList, net, down, forgot)
  BY DEF ReadyInv
<1>2. MaxUndo \in Nat
  BY ReadyAssumption
<1> QED
  BY <1>1, <1>2 DEF TypeOK, Typed, HasEvent, WaitsFor, Connected

(* A step that ends in UpdateReadyStatus keeps the invariant, if what it   *)
(* did to the list and the queues before does.                             *)
LEMMA UpdateKeeps ==
    ASSUME ReadyInv,
           NEW p \in System, NEW status \in Status, NEW list \in SystemList,
           NEW network \in [System -> [System -> Seq(Message)]],
           NEW queues \in [System -> Seq(Message)],
           Update(p, status, list, network, queues),
           eventStatus[p] = "FORCE_ALL_SET" => status = "FORCE_ALL_SET" \/ DOMAIN list = {},
           Typed(eventStatus, [systemList EXCEPT ![p] = list], [network EXCEPT ![p] = queues]),
           Settling(eventStatus, [systemList EXCEPT ![p] = list],
                    [network EXCEPT ![p] = queues], down, forgot'),
           forgot' \subseteq System \X System, down' = down,
           undos' \in 0 .. MaxUndo, undone' \in BOOLEAN,
           \/ undone'
           \/ /\ NothingTakenBack(eventStatus, [systemList EXCEPT ![p] = list],
                                  [network EXCEPT ![p] = queues])
              /\ Rises(eventStatus[p], UpdatedStatus(status, list))
    PROVE  ReadyInv'
<1> DEFINE new == UpdatedStatus(status, list)
           sl1 == [systemList EXCEPT ![p] = list]
           nt1 == [network EXCEPT ![p] = queues]
           st1 == [eventStatus EXCEPT ![p] = new]
           told == systemList'[p]
           out == net'[p]
<1>0. new = UpdatedStatus(status, list)
  OBVIOUS
<1> HIDE DEF new, sl1, nt1, st1, told, out
<1>1. TypeOK
  BY DEF ReadyInv
<1>2. HasUpdated(p, new, list, network, queues)
  BY <1>0, <1>1, UpdateFacts
<1>3. /\ new \in Status
      /\ new = "SET" => \E q \in DOMAIN list : list[q].lastReceivedStatus = "UNSET"
      /\ new = "ALL_SET" => \A q \in DOMAIN list : list[q].lastReceivedStatus # "UNSET"
      /\ new = "FORCE_ALL_SET" <=> status = "FORCE_ALL_SET"
  BY UpdatedStatusFacts DEF new
<1> USE DEF sl1, nt1, st1, told, out
<1>4. /\ sl1 \in [System -> SystemList] /\ sl1[p] = list
      /\ \A x \in System : x # p => sl1[x] = systemList[x]
      /\ nt1 \in [System -> [System -> Seq(Message)]] /\ nt1[p] = queues
      /\ \A x \in System : x # p => nt1[x] = network[x]
      /\ st1 \in [System -> Status \cup {NoEvent}] /\ st1[p] = new
  BY <1>1, <1>3 DEF TypeOK
<1>5. /\ eventStatus' = st1
      /\ systemList' = [sl1 EXCEPT ![p] = told]
      /\ net' = [nt1 EXCEPT ![p] = out]
  BY <1>1, <1>2, <1>4 DEF TypeOK, HasUpdated
<1> HIDE DEF sl1, nt1, st1
<1>6. told \in SystemList /\ DOMAIN told = DOMAIN list /\ out \in [System -> Seq(Message)]
  BY <1>2 DEF HasUpdated
<1>7. Typed(st1, sl1, nt1) /\ Settling(st1, sl1, nt1, down, forgot')
  <2>1. Typed(eventStatus, sl1, nt1) /\ Settling(eventStatus, sl1, nt1, down, forgot')
    BY DEF sl1, nt1
  <2>2. eventStatus[p] = "FORCE_ALL_SET" => new = "FORCE_ALL_SET" \/ DOMAIN sl1[p] = {}
    BY <1>3, <1>4
  <2> QED
    BY <1>3, <2>1, <2>2, NewStatusSettles DEF st1
<1>8. \A q \in System :
         \/ /\ out[q] = nt1[p][q]
            /\ q \in DOMAIN told => \/ told[q].lastSentStatus = sl1[p][q].lastSentStatus
                                    \/ {p, q} \in down
         \/ /\ out[q] = Append(nt1[p][q], new)
            /\ q \in DOMAIN told /\ {p, q} \notin down
            /\ told[q].lastSentStatus = new
            /\ sl1[p][q].lastSentStatus # new
  <2>1. ASSUME NEW q \in System
        PROVE  \/ /\ out[q] = queues[q]
                  /\ q \in DOMAIN list => \/ told[q].lastSentStatus = list[q].lastSentStatus
                                          \/ {p, q} \in down
               \/ /\ out[q] = Append(queues[q], new)
                  /\ q \in DOMAIN list /\ {p, q} \notin down
                  /\ told[q].lastSentStatus = new
                  /\ list[q].lastSentStatus # new
    <3>1. CASE q \in DOMAIN list /\ list[q].lastSentStatus # new /\ Connected(p, q)
      BY <1>2, <3>1 DEF Connected, HasUpdated
    <3>2. CASE ~(q \in DOMAIN list /\ list[q].lastSentStatus # new /\ Connected(p, q))
      BY <1>2, <3>2 DEF Connected, HasUpdated
    <3> QED
      BY <3>1, <3>2
  <2> QED
    BY <1>4, <1>6, <2>1
<1>9. \A q \in DOMAIN told : told[q].lastReceivedStatus = sl1[p][q].lastReceivedStatus
  BY <1>2, <1>4 DEF HasUpdated
<1>10. /\ Typed(eventStatus', systemList', net')
       /\ Settling(eventStatus', systemList', net', down', forgot')
  <2>1. /\ Typed(st1, [sl1 EXCEPT ![p] = told], [nt1 EXCEPT ![p] = out])
        /\ Settling(st1, [sl1 EXCEPT ![p] = told], [nt1 EXCEPT ![p] = out], down, forgot')
    <3> HIDE DEF told, out
    <3> QED
      <4>1. DOMAIN told = DOMAIN sl1[p]
        BY <1>4, <1>6
      <4>2. \A q \in System :
               \/ /\ out[q] = nt1[p][q]
                  /\ q \in DOMAIN told => \/ told[q].lastSentStatus = sl1[p][q].lastSentStatus
                                          \/ {p, q} \in down
               \/ /\ out[q] = Append(nt1[p][q], new)
                  /\ q \in DOMAIN told /\ {p, q} \notin down
                  /\ told[q].lastSentStatus = new
        BY <1>8
      <4> QED
        BY <1>3, <1>6, <1>7, <1>9, <4>1, <4>2, TellSettles, ZenonT(30)
  <2> QED
    BY <1>5, <2>1
<1>11. StatusFollowsList(eventStatus', systemList')
  <2>1. StatusFollowsList(eventStatus, systemList)
    BY DEF ReadyInv
  <2>2. ASSUME NEW x \in System
        PROVE  /\ eventStatus'[x] = "SET" /\ DOMAIN systemList'[x] # {}
                  => \E q \in DOMAIN systemList'[x] :
                        systemList'[x][q].lastReceivedStatus = "UNSET"
               /\ eventStatus'[x] = "ALL_SET"
                  => \A q \in DOMAIN systemList'[x] :
                        systemList'[x][q].lastReceivedStatus # "UNSET"
    <3>1. CASE x = p
      BY <1>2, <1>3, <3>1 DEF HasUpdated
    <3>2. CASE x # p
      <4>1. eventStatus'[x] = eventStatus[x] /\ systemList'[x] = systemList[x]
        BY <1>2, <3>2 DEF HasUpdated
      <4> QED
        BY <2>1, <4>1 DEF StatusFollowsList
    <3> QED
      BY <3>1, <3>2
  <2> QED
    BY <2>2 DEF StatusFollowsList
<1>12. ListWasTold(eventStatus', systemList')
  <2>1. ListWasTold(eventStatus, systemList)
    BY DEF ReadyInv
  <2>2. ASSUME NEW x \in System
        PROVE  \A q \in DOMAIN systemList'[x] :
                  \/ systemList'[x][q].lastSentStatus = eventStatus'[x]
                  \/ eventStatus'[x] = "FORCE_ALL_SET"
    <3>1. CASE x = p
      BY <1>2, <3>1 DEF HasUpdated
    <3>2. CASE x # p
      <4>1. eventStatus'[x] = eventStatus[x] /\ systemList'[x] = systemList[x]
        BY <1>2, <3>2 DEF HasUpdated
      <4> QED
        BY <2>1, <4>1 DEF ListWasTold
    <3> QED
      BY <3>1, <3>2
  <2> QED
    BY <2>2 DEF ListWasTold
<1>13. TypeOK'
  <2>1. \A x \in System : eventStatus'[x] = NoEvent => DOMAIN systemList'[x] = {}
    <3>1. new # NoEvent
      BY <1>3 DEF Status, Reported, NoEvent
    <3>2. \A x \in System : eventStatus[x] = NoEvent => DOMAIN systemList[x] = {}
      BY InvFacts
    <3> QED
      BY <1>2, <3>1, <3>2 DEF HasUpdated
  <2>2. \A x \in System : x \notin DOMAIN systemList'[x]
    BY <1>10 DEF Typed
  <2>3. /\ down' \subseteq {{a, b} : a \in System, b \in System}
        /\ \A x \in System : {x, x} \notin down'
    BY <1>1 DEF TypeOK, Connected
  <2> QED
    BY <1>2, <2>1, <2>2, <2>3 DEF TypeOK, HasEvent, WaitsFor, HasUpdated, Connected
<1>14. undone' \/ NothingTakenBack(eventStatus', systemList', net')
  <2>1. ASSUME ~undone'
        PROVE  NothingTakenBack(eventStatus', systemList', net')
    <3>1. NothingTakenBack(eventStatus, sl1, nt1) /\ Rises(eventStatus[p], new)
      BY <2>1 DEF sl1, nt1, new
    <3>2. Typed(eventStatus, sl1, nt1)
      BY DEF sl1, nt1
    <3>3. NothingTakenBack(st1, sl1, nt1)
      BY <1>3, <3>1, <3>2, NewStatusTakesNothingBack DEF st1
    <3>4. \A q \in DOMAIN told : told[q].lastSentStatus = st1[p]
      BY <1>2, <1>4 DEF HasUpdated
    <3>5. \A q \in System :
             \/ out[q] = nt1[p][q]
             \/ /\ out[q] = Append(nt1[p][q], st1[p]) /\ q \in DOMAIN told
                /\ st1[p] # "UNSET" \/ sl1[p][q].lastSentStatus # "UNSET"
      BY <1>4, <1>8
    <3>6. NothingTakenBack(st1, [sl1 EXCEPT ![p] = told], [nt1 EXCEPT ![p] = out])
      <4>1. st1[p] \in Status /\ DOMAIN told = DOMAIN sl1[p]
        BY <1>3, <1>4, <1>6
      <4> HIDE DEF told, out
      <4> QED
        BY <1>6, <1>7, <1>9, <3>3, <3>4, <3>5, <4>1, TellingTakesNothingBack
    <3> QED
      BY <1>5, <3>6
  <2> QED
    BY <2>1
<1> QED
  <2> HIDE DEF told, out
  <2> QED
    BY <1>10, <1>11, <1>12, <1>13, <1>14 DEF ReadyInv

(* Statuses that do not fall back, and what UpdateReadyStatus does to them. *)
LEMMA RisesFacts ==
    /\ \A x, y : Rises(x, x) /\ Rises(x, "FORCE_ALL_SET")
                 /\ Rises("UNSET", y) /\ Rises(NoEvent, y)
    /\ \A status \in Status, list \in SystemList :
          \/ status # "ALL_SET"
          \/ \A q \in DOMAIN list : list[q].lastReceivedStatus # "UNSET"
          => Rises(status, UpdatedStatus(status, list))
<1>1. \A x, y : Rises(x, x) /\ Rises(x, "FORCE_ALL_SET")
                /\ Rises("UNSET", y) /\ Rises(NoEvent, y)
  BY DEF Rises, Bears, NoEvent
<1>2. Rises("SET", "ALL_SET")
  BY DEF Rises, Bears
<1>3. ASSUME NEW status \in Status, NEW list \in SystemList,
             \/ status # "ALL_SET"
             \/ \A q \in DOMAIN list : list[q].lastReceivedStatus # "UNSET"
      PROVE  UpdatedStatus(status, list) = status
             \/ (status = "SET" /\ UpdatedStatus(status, list) = "ALL_SET")
  BY <1>3 DEF UpdatedStatus
<1> QED
  BY <1>1, <1>2, <1>3

(* Replacing an entry by itself.                                           *)
LEMMA SameFacts ==
    ASSUME ReadyInv, NEW p \in System
    PROVE  /\ [systemList EXCEPT ![p] = systemList[p]] = systemList
           /\ [net EXCEPT ![p] = net[p]] = net
<1>1. Typed(eventStatus, systemList, net)
  BY InvFacts
<1> QED
  BY <1>1 DEF Typed

(* SetEvent of a new event.                                                *)
LEMMA SetNewEventKeeps ==
    ASSUME ReadyInv, NEW p \in System, NEW isReady \in BOOLEAN, SetNewEvent(p, isReady)
    PROVE  ReadyInv'
<1> DEFINE new == IF isReady THEN "SET" ELSE "UNSET"
<1>1. new \in Status /\ new # "ALL_SET" /\ new # NoEvent
  BY DEF Status, Reported, NoEvent
<1>2. /\ eventStatus[p] = NoEvent
      /\ eventStatus' = [eventStatus EXCEPT ![p] = new]
      /\ UNCHANGED <<systemList, net, down, undos, undone, forgot>>
  BY DEF SetNewEvent, HasEvent, Keep
<1> HIDE DEF new
<1>3. /\ Typed(eventStatus, systemList, net)
      /\ Settling(eventStatus, systemList, net, down, forgot)
      /\ DOMAIN systemList[p] = {}
  BY <1>2, InvFacts
<1>4. /\ Typed(eventStatus', systemList', net')
      /\ Settling(eventStatus', systemList', net', down', forgot')
  <2>1. eventStatus[p] # "FORCE_ALL_SET"
    BY <1>2 DEF NoEvent
  <2> QED
    BY <1>1, <1>2, <1>3, <2>1, NewStatusSettles
<1>5. /\ eventStatus'[p] = new
      /\ \A x \in System : x # p => eventStatus'[x] = eventStatus[x]
  BY <1>1, <1>2, <1>3 DEF Typed
<1>6. TypeOK'
  <2>1. TypeOK
    BY DEF ReadyInv
  <2> QED
    BY <1>1, <1>2, <1>3, <1>4, <1>5, <2>1 DEF TypeOK, Typed, HasEvent, WaitsFor, Connected
<1>7. StatusFollowsList(eventStatus', systemList')
  <2>1. StatusFollowsList(eventStatus, systemList)
    BY DEF ReadyInv
  <2> QED
    BY <1>1, <1>2, <1>3, <1>5, <2>1 DEF StatusFollowsList
<1>8. ListWasTold(eventStatus', systemList')
  <2>1. ListWasTold(eventStatus, systemList)
    BY DEF ReadyInv
  <2> QED
    BY <1>2, <1>3, <1>5, <2>1 DEF ListWasTold
<1>9. undone' \/ NothingTakenBack(eventStatus', systemList', net')
  <2>1. undone \/ NothingTakenBack(eventStatus, systemList, net)
    BY DEF ReadyInv
  <2>2. Rises(eventStatus[p], new)
    BY <1>2, RisesFacts
  <2>3. ASSUME NothingTakenBack(eventStatus, systemList, net)
        PROVE  NothingTakenBack(eventStatus', systemList', net')
    BY <1>1, <1>2, <1>3, <2>2, <2>3, NewStatusTakesNothingBack
  <2> QED
    BY <1>2, <2>1, <2>3
<1> QED
  BY <1>4, <1>6, <1>7, <1>8, <1>9 DEF ReadyInv

(* UpdateReadyStatus with the list as it is.                               *)
LEMMA PlainUpdateKeeps ==
    ASSUME ReadyInv, NEW p \in System, NEW status \in Status,
           Update(p, status, systemList[p], net, net[p]),
           eventStatus[p] = "FORCE_ALL_SET" => status = "FORCE_ALL_SET",
           UNCHANGED <<down, forgot>>, undos' \in 0 .. MaxUndo, undone' \in BOOLEAN,
           \/ undone'
           \/ undone' = undone /\ Rises(eventStatus[p], UpdatedStatus(status, systemList[p]))
    PROVE  ReadyInv'
<1>1. /\ Typed(eventStatus, systemList, net)
      /\ Settling(eventStatus, systemList, net, down, forgot)
      /\ systemList[p] \in SystemList /\ net[p] \in [System -> Seq(Message)]
      /\ net \in [System -> [System -> Seq(Message)]]
      /\ forgot \subseteq System \X System
  BY InvFacts DEF Typed
<1>2. /\ [systemList EXCEPT ![p] = systemList[p]] = systemList
      /\ [net EXCEPT ![p] = net[p]] = net
  BY SameFacts
<1>3. undone \/ NothingTakenBack(eventStatus, systemList, net)
  BY DEF ReadyInv
<1>4. \/ undone'
      \/ /\ NothingTakenBack(eventStatus, systemList, net)
         /\ Rises(eventStatus[p], UpdatedStatus(status, systemList[p]))
  BY <1>3
<1> QED
  BY <1>1, <1>2, <1>4, UpdateKeeps

(* SetEvent.                                                               *)
LEMMA SetEventKeeps ==
    ASSUME ReadyInv, NEW p \in System, NEW isReady \in BOOLEAN, SetEvent(p, isReady)
    PROVE  ReadyInv'
<1>1. /\ undos \in 0 .. MaxUndo /\ MaxUndo \in Nat /\ systemList[p] \in SystemList
      /\ undone \in BOOLEAN
  BY InvFacts DEF ReadyInv, TypeOK
<1>2. CASE isReady
  <2>1. /\ eventStatus[p] = "UNSET" /\ UNCHANGED <<undos, undone, down, forgot>>
        /\ Update(p, "SET", systemList[p], net, net[p])
    BY <1>2 DEF SetEvent, Keep
  <2>2. Rises(eventStatus[p], UpdatedStatus("SET", systemList[p]))
    BY <2>1, RisesFacts
  <2>3. "SET" \in Status
    BY DEF Status, Reported
  <2> QED
    BY <1>1, <2>1, <2>2, <2>3, PlainUpdateKeeps
<1>3. CASE ~isReady
  <2>1. /\ eventStatus[p] \in {"SET", "ALL_SET"} /\ UNCHANGED <<down, forgot>>
        /\ undos < MaxUndo /\ undos' = undos + 1 /\ undone' = TRUE
        /\ Update(p, "UNSET", systemList[p], net, net[p])
    BY <1>3 DEF SetEvent, Undo
  <2>2. undos' \in 0 .. MaxUndo
    BY <1>1, <2>1
  <2>3. "UNSET" \in Status /\ eventStatus[p] # "FORCE_ALL_SET"
    BY <2>1 DEF Status, Reported
  <2> QED
    BY <1>1, <2>1, <2>2, <2>3, PlainUpdateKeeps
<1> QED
  BY <1>2, <1>3

(* ForceCompletion.                                                        *)
LEMMA ForceCompletionKeeps ==
    ASSUME ReadyInv, NEW p \in System, ForceCompletion(p)
    PROVE  ReadyInv'
<1>1. undos \in 0 .. MaxUndo /\ systemList[p] \in SystemList /\ undone \in BOOLEAN
  BY InvFacts DEF ReadyInv, TypeOK
<1>2. /\ UNCHANGED <<undos, undone, down, forgot>>
      /\ Update(p, "FORCE_ALL_SET", systemList[p], net, net[p])
  BY DEF ForceCompletion, Keep
<1>3. "FORCE_ALL_SET" \in Status
  BY DEF Status
<1>4. Rises(eventStatus[p], UpdatedStatus("FORCE_ALL_SET", systemList[p]))
  <2>1. UpdatedStatus("FORCE_ALL_SET", systemList[p]) = "FORCE_ALL_SET"
    BY <1>1, <1>3, UpdatedStatusFacts
  <2> QED
    BY <2>1, RisesFacts
<1> QED
  BY <1>1, <1>2, <1>3, <1>4, PlainUpdateKeeps

(* DeleteEvent.                                                            *)
LEMMA DeleteEventKeeps ==
    ASSUME ReadyInv, NEW p \in System, DeleteEvent(p)
    PROVE  ReadyInv'
<1>1. /\ eventStatus' = [eventStatus EXCEPT ![p] = NoEvent]
      /\ systemList' = [systemList EXCEPT ![p] = Empty]
      /\ undos < MaxUndo /\ undos' = undos + 1 /\ undone' = TRUE
      /\ forgot' = forgot \cup {<<p, q>> : q \in DOMAIN systemList[p]}
      /\ UNCHANGED <<net, down>>
  BY DEF DeleteEvent, Undo, Forget, WaitsFor
<1>2. /\ Typed(eventStatus, systemList, net)
      /\ Settling(eventStatus, systemList, net, down, forgot)
      /\ systemList[p] \in SystemList
      /\ forgot \subseteq System \X System
      /\ undos \in 0 .. MaxUndo /\ MaxUndo \in Nat
  BY InvFacts
<1>3. Restrict(systemList[p], {}) = Empty /\ DOMAIN Empty = {}
  BY DEF Restrict, Empty
<1>4. Typed(eventStatus, systemList', net) /\ Settling(eventStatus, systemList', net, down, forgot')
  <2>1. {} \in SUBSET DOMAIN systemList[p] /\ forgot \subseteq forgot'
    BY <1>1
  <2>2. \A q \in DOMAIN systemList[p] \ {} : <<p, q>> \in forgot' \/ {p, q} \in down
    BY <1>1
  <2>3. systemList' = [systemList EXCEPT ![p] = Restrict(systemList[p], {})]
    BY <1>1, <1>3
  <2> QED
    BY <1>2, <2>1, <2>2, <2>3, DropSettles
<1>5. systemList'[p] = Empty /\ \A x \in System : x # p => systemList'[x] = systemList[x]
  BY <1>1, <1>2 DEF Typed
<1>6. /\ Typed(eventStatus', systemList', net')
      /\ Settling(eventStatus', systemList', net', down', forgot')
  BY <1>1, <1>3, <1>4, <1>5, NewStatusSettles
<1>7. eventStatus'[p] = NoEvent /\ \A x \in System : x # p => eventStatus'[x] = eventStatus[x]
  BY <1>1, <1>2 DEF Typed
<1>8. TypeOK'
  <2>1. TypeOK
    BY DEF ReadyInv
  <2>2. forgot' \subseteq System \X System
    BY <1>1, <1>2, ListFacts
  <2>3. undos' \in 0 .. MaxUndo
    BY <1>1, <1>2
  <2>4. \A x \in System : eventStatus'[x] = NoEvent => DOMAIN systemList'[x] = {}
    BY <1>3, <1>5, <1>7, InvFacts
  <2> QED
    BY <1>1, <1>6, <2>1, <2>2, <2>3, <2>4 DEF TypeOK, Typed, HasEvent, WaitsFor, Connected
<1>9. StatusFollowsList(eventStatus', systemList')
  <2>1. StatusFollowsList(eventStatus, systemList)
    BY DEF ReadyInv
  <2> QED
    BY <1>3, <1>5, <1>7, <2>1 DEF StatusFollowsList, NoEvent
<1>10. ListWasTold(eventStatus', systemList')
  <2>1. ListWasTold(eventStatus, systemList)
    BY DEF ReadyInv
  <2> QED
    BY <1>3, <1>5, <1>7, <2>1 DEF ListWasTold
<1> QED
  BY <1>1, <1>6, <1>8, <1>9, <1>10 DEF ReadyInv

(* AddToWaitList.                                                          *)
LEMMA AddToWaitListKeeps ==
    ASSUME ReadyInv, NEW p \in System, NEW others \in SUBSET Reachable(p),
           AddToWaitList(p, others)
    PROVE  ReadyInv'
<1> DEFINE status == IF HasEvent(p) THEN eventStatus[p] ELSE "UNSET"
           added  == others \ WaitsFor(p)
           list   == [q \in WaitsFor(p) \cup added |->
                        IF q \in added
                        THEN [lastSentStatus |-> "UNSET", lastReceivedStatus |-> "UNSET"]
                        ELSE systemList[p][q]]
           out    == Posted(net[p], p, added, "QUERY")
<1>1. /\ Update(p, status, list, net, out)
      /\ undone' = (undone \/ status = "ALL_SET")
      /\ UNCHANGED <<down, undos, forgot>>
  BY DEF AddToWaitList
<1>2. /\ Typed(eventStatus, systemList, net)
      /\ Settling(eventStatus, systemList, net, down, forgot)
      /\ systemList[p] \in SystemList
      /\ net[p] \in [System -> Seq(Message)]
      /\ net \in [System -> [System -> Seq(Message)]]
      /\ forgot \subseteq System \X System
      /\ undos \in 0 .. MaxUndo
      /\ eventStatus[p] # NoEvent => eventStatus[p] \in Status
  BY InvFacts DEF Typed
<1>3. status \in Status /\ (eventStatus[p] = "FORCE_ALL_SET" => status = "FORCE_ALL_SET")
  <2>1. "UNSET" \in Status
    BY DEF Status, Reported
  <2> QED
    BY <1>2, <2>1 DEF HasEvent, NoEvent
<1>4. /\ added \in SUBSET (System \ {p})
      /\ added \cap DOMAIN systemList[p] = {}
      /\ \A q \in added : {q, p} \notin down \/ net[q][p] # <<>>
  <2>1. \A q \in others : q \in System \ {p} /\ (Connected(p, q) \/ net[q][p] # <<>>)
    BY DEF Reachable
  <2>2. \A q : {q, p} = {p, q}
    OBVIOUS
  <2> QED
    BY <2>1, <2>2 DEF Connected, WaitsFor
<1>5. /\ list \in SystemList
      /\ DOMAIN list = DOMAIN systemList[p] \cup added
      /\ \A q \in DOMAIN systemList[p] : list[q] = systemList[p][q]
      /\ \A q \in added : /\ list[q].lastSentStatus = "UNSET"
                          /\ list[q].lastReceivedStatus = "UNSET"
  <2>1. DOMAIN list = DOMAIN systemList[p] \cup added
    BY DEF WaitsFor
  <2>2. \A q \in DOMAIN list :
           list[q] = IF q \in added
                     THEN [lastSentStatus |-> "UNSET", lastReceivedStatus |-> "UNSET"]
                     ELSE systemList[p][q]
    OBVIOUS
  <2>3. \A q \in DOMAIN list : list[q] \in RemoteSystem
    <3>1. [lastSentStatus |-> "UNSET", lastReceivedStatus |-> "UNSET"] \in RemoteSystem
      BY DEF RemoteSystem, Status, Reported
    <3> QED
      BY <1>2, <2>1, <2>2, <3>1, ListFacts
  <2>4. DOMAIN list \subseteq System
    BY <1>2, <1>4, <2>1, ListFacts
  <2>5. list \in [DOMAIN list -> RemoteSystem]
    BY <2>3
  <2>6. list \in SystemList
    BY <2>4, <2>5 DEF SystemList
  <2> HIDE DEF list, added
  <2> QED
    BY <1>4, <2>1, <2>2, <2>6
<1>6. /\ out \in [System -> Seq(Message)]
      /\ \A q \in System : out[q] = IF q \in added /\ {p, q} \notin down
                                    THEN Append(net[p][q], "QUERY") ELSE net[p][q]
  <2>1. \A q \in System : net[p][q] \in Seq(Message) /\ Append(net[p][q], "QUERY") \in Seq(Message)
    BY <1>2 DEF Message
  <2> HIDE DEF added
  <2> QED
    BY <2>1 DEF Posted, Connected
<1> HIDE DEF status, added, list, out
<1>7. /\ Typed(eventStatus, [systemList EXCEPT ![p] = list], [net EXCEPT ![p] = out])
      /\ Settling(eventStatus, [systemList EXCEPT ![p] = list], [net EXCEPT ![p] = out],
                  down, forgot)
  BY <1>2, <1>4, <1>5, <1>6, AddSettles, ZenonT(30)
<1>8. undone \in BOOLEAN /\ (undone \/ NothingTakenBack(eventStatus, systemList, net))
  BY DEF ReadyInv, TypeOK
<1>9. undone' \in BOOLEAN
  BY <1>1, <1>8
<1>10. ASSUME ~undone'
       PROVE  /\ NothingTakenBack(eventStatus, [systemList EXCEPT ![p] = list],
                                  [net EXCEPT ![p] = out])
              /\ Rises(eventStatus[p], UpdatedStatus(status, list))
  <2>1. ~undone /\ status # "ALL_SET"
    BY <1>1, <1>10
  <2>2. NothingTakenBack(eventStatus, systemList, net)
    BY <1>8, <2>1
  <2>3. Rises(eventStatus[p], UpdatedStatus(status, list))
    <3>1. CASE eventStatus[p] = NoEvent
      BY <3>1, RisesFacts
    <3>2. CASE eventStatus[p] # NoEvent
      <4>1. status = eventStatus[p]
        BY <3>2 DEF status, HasEvent
      <4> QED
        BY <1>3, <1>5, <2>1, <4>1, RisesFacts
    <3> QED
      BY <3>1, <3>2
  <2> DEFINE sl2 == [systemList EXCEPT ![p] = list]
             nt2 == [net EXCEPT ![p] = out]
  <2>4. /\ sl2[p] = list /\ \A x \in System : x # p => sl2[x] = systemList[x]
        /\ nt2[p] = out /\ \A x \in System : x # p => nt2[x] = net[x]
    BY <1>2 DEF Typed
  <2> HIDE DEF sl2, nt2
  <2>5. ASSUME NEW a \in System, NEW b \in System
        PROVE  Hears(systemList, net, sl2, nt2, a, b)
    <3>1. CASE a = p
      BY <1>5, <1>6, <2>4, <3>1 DEF Hears
    <3>2. CASE a # p
      BY <2>4, <3>2 DEF Hears
    <3> QED
      BY <3>1, <3>2
  <2>6. NothingTakenBack(eventStatus, sl2, nt2)
    BY <1>2, <2>2, <2>5, HearingTakesNothingBack
  <2> QED
    BY <2>3, <2>6 DEF sl2, nt2
<1> QED
  BY <1>1, <1>2, <1>3, <1>5, <1>6, <1>7, <1>9, <1>10, UpdateKeeps, ZenonT(30)

(* RemoveFromWaitList.                                                     *)
LEMMA RemoveFromWaitListKeeps ==
    ASSUME ReadyInv, NEW p \in System, NEW others, RemoveFromWaitList(p, others)
    PROVE  ReadyInv'
<1> DEFINE kept == WaitsFor(p) \ others
           list == Restrict(systemList[p], kept)
<1>1. /\ eventStatus[p] # NoEvent /\ others \subseteq DOMAIN systemList[p]
      /\ Update(p, eventStatus[p], list, net, net[p])
      /\ undos < MaxUndo /\ undos' = undos + 1 /\ undone' = TRUE
      /\ forgot' = forgot \cup {<<p, q>> : q \in others}
      /\ down' = down
  BY DEF RemoveFromWaitList, HasEvent, WaitsFor, Undo, Forget
<1>2. /\ Typed(eventStatus, systemList, net)
      /\ Settling(eventStatus, systemList, net, down, forgot)
      /\ systemList[p] \in SystemList
      /\ net[p] \in [System -> Seq(Message)]
      /\ net \in [System -> [System -> Seq(Message)]]
      /\ forgot \subseteq System \X System
      /\ undos \in 0 .. MaxUndo /\ MaxUndo \in Nat
      /\ eventStatus[p] \in Status
  BY <1>1, InvFacts DEF Typed
<1>3. /\ kept \in SUBSET DOMAIN systemList[p] /\ forgot \subseteq forgot'
      /\ \A q \in DOMAIN systemList[p] \ kept : <<p, q>> \in forgot' \/ {p, q} \in down
  BY <1>1 DEF WaitsFor
<1>4. list \in SystemList
  <2>1. kept \in SUBSET System /\ \A q \in kept : systemList[p][q] \in RemoteSystem
    BY <1>2, <1>3, ListFacts
  <2>2. list \in [kept -> RemoteSystem]
    BY <2>1 DEF Restrict
  <2> QED
    BY <2>1, <2>2 DEF SystemList
<1>5. /\ Typed(eventStatus, [systemList EXCEPT ![p] = list], net)
      /\ Settling(eventStatus, [systemList EXCEPT ![p] = list], net, down, forgot')
  <2> HIDE DEF kept
  <2> QED
    BY <1>2, <1>3, DropSettles
<1>6. [net EXCEPT ![p] = net[p]] = net
  BY SameFacts
<1>7. /\ forgot' \subseteq System \X System
      /\ undos' \in 0 .. MaxUndo /\ undone' \in BOOLEAN /\ undone'
  <2>1. DOMAIN systemList[p] \subseteq System
    BY <1>2, ListFacts
  <2> QED
    BY <1>1, <1>2, <2>1
<1> HIDE DEF list
<1> QED
  BY <1>1, <1>2, <1>4, <1>5, <1>6, <1>7, UpdateKeeps

(* A step that leaves the users' counters and the connections alone.       *)
LEMMA KeepsByParts ==
    ASSUME ReadyInv, UNCHANGED <<down, forgot, undos, undone>>,
           Typed(eventStatus', systemList', net'),
           Settling(eventStatus', systemList', net', down, forgot),
           \A x \in System : eventStatus'[x] = NoEvent => DOMAIN systemList'[x] = {},
           StatusFollowsList(eventStatus', systemList'),
           ListWasTold(eventStatus', systemList'),
           NothingTakenBack(eventStatus, systemList, net)
           => NothingTakenBack(eventStatus', systemList', net')
    PROVE  ReadyInv'
<1>1. TypeOK'
  <2>1. TypeOK
    BY DEF ReadyInv
  <2> QED
    BY <2>1 DEF TypeOK, Typed, HasEvent, WaitsFor, Connected
<1>2. undone' \/ NothingTakenBack(eventStatus', systemList', net')
  BY DEF ReadyInv
<1>3. Settling(eventStatus', systemList', net', down', forgot')
  OBVIOUS
<1> QED
  BY <1>1, <1>2, <1>3 DEF ReadyInv

(* The queues when p takes the first message from q.                       *)
LEMMA RestFacts ==
    ASSUME ReadyInv, NEW p \in System, NEW q \in System, net[q][p] # <<>>
    PROVE  /\ Rest(q, p) \in [System -> [System -> Seq(Message)]]
           /\ Rest(q, p)[q][p] = Tail(net[q][p])
           /\ \A a, b \in System : a # q \/ b # p => Rest(q, p)[a][b] = net[a][b]
           /\ q # p => [Rest(q, p) EXCEPT ![p] = net[p]] = Rest(q, p)
           /\ net[q][p] \in Seq(Message)
           /\ \A a, b \in System : \/ Rest(q, p)[a][b] = net[a][b]
                                   \/ /\ net[a][b] # <<>>
                                      /\ Rest(q, p)[a][b] = Tail(net[a][b])
           /\ \A a, b \in System : Hears(systemList, net, systemList, Rest(q, p), a, b)
<1>1. net \in [System -> [System -> Seq(Message)]] /\ net[q][p] \in Seq(Message)
  BY InvFacts DEF Typed
<1>2. Tail(net[q][p]) \in Seq(Message)
  BY <1>1
<1>3. /\ Rest(q, p) \in [System -> [System -> Seq(Message)]]
      /\ Rest(q, p)[q][p] = Tail(net[q][p])
      /\ \A a, b \in System : a # q \/ b # p => Rest(q, p)[a][b] = net[a][b]
      /\ q # p => [Rest(q, p) EXCEPT ![p] = net[p]] = Rest(q, p)
  BY <1>1, <1>2 DEF Rest
<1>4. ASSUME NEW a \in System, NEW b \in System
      PROVE  \/ Rest(q, p)[a][b] = net[a][b]
             \/ net[a][b] # <<>> /\ Rest(q, p)[a][b] = Tail(net[a][b])
  <2>1. CASE a = q /\ b = p
    BY <1>3, <2>1
  <2>2. CASE a # q \/ b # p
    BY <1>3, <2>2
  <2> QED
    BY <2>1, <2>2
<1>5. \A a, b \in System : Hears(systemList, net, systemList, Rest(q, p), a, b)
  BY <1>4 DEF Hears
<1> QED
  BY <1>1, <1>3, <1>4, <1>5

(* p takes a message from q that changes nothing else.                     *)
LEMMA IgnoredKeeps ==
    ASSUME ReadyInv, NEW p \in System, NEW q \in System, net[q][p] # <<>>,
           Ignored(q, p), UNCHANGED <<down, forgot, undos, undone>>,
           Typed(eventStatus, systemList, Rest(q, p)),
           Settling(eventStatus, systemList, Rest(q, p), down, forgot)
    PROVE  ReadyInv'
<1>1. net' = Rest(q, p) /\ UNCHANGED <<eventStatus, systemList>>
  BY DEF Ignored
<1>2. /\ Typed(eventStatus', systemList', net')
      /\ Settling(eventStatus', systemList', net', down, forgot)
      /\ StatusFollowsList(eventStatus', systemList')
      /\ ListWasTold(eventStatus', systemList')
      /\ \A x \in System : eventStatus'[x] = NoEvent => DOMAIN systemList'[x] = {}
  BY <1>1, InvFacts DEF ReadyInv
<1>3. ASSUME NothingTakenBack(eventStatus, systemList, net)
      PROVE  NothingTakenBack(eventStatus', systemList', net')
  <2>1. \A a, b \in System : Hears(systemList, net, systemList, Rest(q, p), a, b)
    BY RestFacts
  <2>2. Typed(eventStatus, systemList, net)
    BY InvFacts
  <2> QED
    BY <1>1, <1>3, <2>1, <2>2, HearingTakesNothingBack
<1> QED
  BY <1>2, <1>3, KeepsByParts

(* OnReadyEventForceAllSet.                                                *)
LEMMA OnReadyEventForceAllSetKeeps ==
    ASSUME ReadyInv, NEW p \in System, NEW q \in System, OnReadyEventForceAllSet(q, p)
    PROVE  ReadyInv'
<1> DEFINE new == IF HasEvent(p) THEN "FORCE_ALL_SET" ELSE eventStatus[p]
<1>1. /\ net[q][p] # <<>> /\ Head(net[q][p]) = "FORCE_ALL_SET"
      /\ eventStatus' = [eventStatus EXCEPT ![p] = new]
      /\ net' = Rest(q, p)
      /\ UNCHANGED <<systemList, down, forgot, undos, undone>>
  BY DEF OnReadyEventForceAllSet, Arrives, Keep
<1>2. /\ Typed(eventStatus, systemList, net)
      /\ Settling(eventStatus, systemList, net, down, forgot)
      /\ \A x \in System : eventStatus[x] = NoEvent => DOMAIN systemList[x] = {}
      /\ eventStatus[p] # NoEvent => eventStatus[p] \in Status
  BY InvFacts
<1>3. /\ new \in Status \cup {NoEvent}
      /\ new = "FORCE_ALL_SET" \/ (new = NoEvent /\ eventStatus[p] = NoEvent)
      /\ eventStatus[p] = "FORCE_ALL_SET" => new = "FORCE_ALL_SET"
  <2>1. CASE eventStatus[p] = NoEvent
    BY <2>1 DEF HasEvent, NoEvent
  <2>2. CASE eventStatus[p] # NoEvent
    BY <2>2 DEF HasEvent, Status
  <2> QED
    BY <2>1, <2>2
<1> HIDE DEF new
<1>4. /\ Typed(eventStatus', systemList, net)
      /\ Settling(eventStatus', systemList, net, down, forgot)
  BY <1>1, <1>2, <1>3, NewStatusSettles
<1>5. eventStatus'[p] = new /\ \A x \in System : x # p => eventStatus'[x] = eventStatus[x]
  BY <1>1, <1>2 DEF Typed
<1>6. /\ Typed(eventStatus', systemList, Rest(q, p))
      /\ Settling(eventStatus', systemList, Rest(q, p), down, forgot)
  <2>1. q \in DOMAIN systemList[p]
        => Knows(eventStatus'[p], systemList[p][q].lastReceivedStatus, "FORCE_ALL_SET")
    BY <1>2, <1>3, <1>5 DEF Knows
  <2> QED
    BY <1>1, <1>4, <2>1, PopSettles DEF Rest
<1>7. StatusFollowsList(eventStatus', systemList')
  <2>1. StatusFollowsList(eventStatus, systemList)
    BY DEF ReadyInv
  <2> QED
    BY <1>1, <1>3, <1>5, <2>1 DEF StatusFollowsList, NoEvent
<1>8. ListWasTold(eventStatus', systemList')
  <2>1. ListWasTold(eventStatus, systemList)
    BY DEF ReadyInv
  <2> QED
    BY <1>1, <1>2, <1>3, <1>5, <2>1 DEF ListWasTold
<1>9. ASSUME NothingTakenBack(eventStatus, systemList, net)
      PROVE  NothingTakenBack(eventStatus', systemList', net')
  <2>1. Rises(eventStatus[p], new)
    BY <1>3, RisesFacts
  <2>2. NothingTakenBack(eventStatus', systemList, net)
    BY <1>1, <1>2, <1>3, <1>9, <2>1, NewStatusTakesNothingBack
  <2>3. \A a, b \in System : Hears(systemList, net, systemList, Rest(q, p), a, b)
    BY <1>1, RestFacts
  <2> QED
    BY <1>1, <1>4, <2>2, <2>3, HearingTakesNothingBack
<1>10. \A x \in System : eventStatus'[x] = NoEvent => DOMAIN systemList'[x] = {}
  <2>1. new = NoEvent => eventStatus[p] = NoEvent
    BY <1>3 DEF NoEvent
  <2> QED
    BY <1>1, <1>2, <1>5, <2>1
<1> QED
  BY <1>1, <1>6, <1>7, <1>8, <1>9, <1>10, KeepsByParts

(* OnReadyEventPacketUpdate.                                               *)
LEMMA OnReadyEventPacketUpdateKeeps ==
    ASSUME ReadyInv, NEW p \in System, NEW q \in System, OnReadyEventPacketUpdate(q, p)
    PROVE  ReadyInv'
<1> DEFINE status == Head(net[q][p])
           list   == [systemList[p] EXCEPT ![q].lastReceivedStatus = status]
<1>1. /\ net[q][p] # <<>> /\ status \in Reported
      /\ IF q \notin DOMAIN systemList[p] \/ systemList[p][q].lastReceivedStatus = status
         THEN Ignored(q, p)
         ELSE IF eventStatus[p] = "FORCE_ALL_SET"
         THEN /\ systemList' = [systemList EXCEPT ![p] = list]
              /\ net' = Rest(q, p)
              /\ UNCHANGED eventStatus
         ELSE Update(p, eventStatus[p], list, Rest(q, p), net[p])
      /\ UNCHANGED <<down, forgot, undos, undone>>
  BY DEF OnReadyEventPacketUpdate, Arrives, Keep, WaitsFor
<1>2. /\ Typed(eventStatus, systemList, net)
      /\ Settling(eventStatus, systemList, net, down, forgot)
      /\ \A x \in System : eventStatus[x] = NoEvent => DOMAIN systemList[x] = {}
      /\ eventStatus[p] # NoEvent => eventStatus[p] \in Status
      /\ systemList[p] \in SystemList
      /\ net[p] \in [System -> Seq(Message)]
      /\ forgot \subseteq System \X System
      /\ undos \in 0 .. MaxUndo /\ undone \in BOOLEAN
  BY InvFacts
<1>3. status # "QUERY" /\ status # "FORCE_ALL_SET" /\ status # "ID_CONNECTION_LOST"
  BY <1>1 DEF Reported
<1>4. CASE q \notin DOMAIN systemList[p] \/ systemList[p][q].lastReceivedStatus = status
  <2>1. Ignored(q, p)
    BY <1>1, <1>4
  <2>2. /\ Typed(eventStatus, systemList, Rest(q, p))
        /\ Settling(eventStatus, systemList, Rest(q, p), down, forgot)
    <3>1. q \in DOMAIN systemList[p]
          => Knows(eventStatus[p], systemList[p][q].lastReceivedStatus, status)
      BY <1>3, <1>4 DEF Knows
    <3> HIDE DEF status
    <3> QED
      BY <1>1, <1>2, <1>3, <3>1, PopSettles DEF Rest, status
  <2> QED
    BY <1>1, <2>1, <2>2, IgnoredKeeps
<1>5. CASE q \in DOMAIN systemList[p] /\ systemList[p][q].lastReceivedStatus # status
  <2> DEFINE sl2 == [systemList EXCEPT ![p] = list]
  <2>1. /\ list \in SystemList /\ DOMAIN list = DOMAIN systemList[p]
        /\ list[q].lastReceivedStatus = status
        /\ list[q].lastSentStatus = systemList[p][q].lastSentStatus
        /\ \A x \in DOMAIN list : x # q => list[x] = systemList[p][x]
    <3>1. systemList[p] \in [DOMAIN systemList[p] -> RemoteSystem]
          /\ DOMAIN systemList[p] \subseteq System
      BY <1>2, ListFacts
    <3>2. [systemList[p][q] EXCEPT !.lastReceivedStatus = status] \in RemoteSystem
      BY <1>1, <1>5, <3>1 DEF RemoteSystem
    <3>3. list \in [DOMAIN systemList[p] -> RemoteSystem]
      BY <1>5, <3>1, <3>2
    <3>4. list \in SystemList
      BY <3>1, <3>3 DEF SystemList
    <3> QED
      BY <1>5, <3>1, <3>4 DEF RemoteSystem
  <2>2. q # p /\ eventStatus[p] \in Status
    BY <1>2, <1>5 DEF Typed
  <2> HIDE DEF status, list
  <2>3. sl2[p] = list /\ \A x \in System : x # p => sl2[x] = systemList[x]
    BY <1>2 DEF Typed
  <2>4. Typed(eventStatus, sl2, net) /\ Settling(eventStatus, sl2, net, down, forgot)
    BY <1>1, <1>2, <1>5, <2>1, ReceivedSettles DEF status
  <2> HIDE DEF sl2
  <2>5. /\ Typed(eventStatus, sl2, Rest(q, p))
        /\ Settling(eventStatus, sl2, Rest(q, p), down, forgot)
    <3>1. Knows(eventStatus[p], sl2[p][q].lastReceivedStatus, status)
      BY <1>3, <2>1, <2>3 DEF Knows
    <3> QED
      BY <1>1, <1>3, <2>4, <3>1, PopSettles DEF Rest, status
  <2>6. ASSUME NothingTakenBack(eventStatus, systemList, net)
        PROVE  NothingTakenBack(eventStatus, sl2, Rest(q, p))
    <3>1. ASSUME NEW a \in System, NEW b \in System
          PROVE  Hears(systemList, net, sl2, Rest(q, p), a, b)
      <4>1. \/ Rest(q, p)[a][b] = net[a][b]
            \/ net[a][b] # <<>> /\ Rest(q, p)[a][b] = Tail(net[a][b])
        BY <1>1, RestFacts
      <4>2. CASE a = p
        BY <1>1, <2>1, <2>3, <4>1, <4>2 DEF Hears, status
      <4>3. CASE a # p
        BY <2>3, <4>1, <4>3 DEF Hears
      <4> QED
        BY <4>2, <4>3
    <3> QED
      BY <1>2, <2>6, <3>1, HearingTakesNothingBack
  <2>7. CASE eventStatus[p] = "FORCE_ALL_SET"
    <3>1. systemList' = sl2 /\ net' = Rest(q, p) /\ eventStatus' = eventStatus
      BY <1>1, <1>5, <2>7 DEF sl2
    <3>2. StatusFollowsList(eventStatus', systemList')
      <4>1. StatusFollowsList(eventStatus, systemList)
        BY DEF ReadyInv
      <4> QED
        BY <2>3, <2>7, <3>1, <4>1 DEF StatusFollowsList
    <3>3. ListWasTold(eventStatus', systemList')
      <4>1. ListWasTold(eventStatus, systemList)
        BY DEF ReadyInv
      <4> QED
        BY <2>3, <2>7, <3>1, <4>1 DEF ListWasTold
    <3>4. \A x \in System : eventStatus'[x] = NoEvent => DOMAIN systemList'[x] = {}
      BY <1>2, <2>3, <2>7, <3>1 DEF NoEvent
    <3> QED
      BY <1>1, <2>5, <2>6, <3>1, <3>2, <3>3, <3>4, KeepsByParts
  <2>8. CASE eventStatus[p] # "FORCE_ALL_SET"
    <3>1. Update(p, eventStatus[p], list, Rest(q, p), net[p])
      BY <1>1, <1>5, <2>8
    <3>2. /\ [Rest(q, p) EXCEPT ![p] = net[p]] = Rest(q, p)
          /\ Rest(q, p) \in [System -> [System -> Seq(Message)]]
      BY <1>1, <2>2, RestFacts
    <3>3. ASSUME NothingTakenBack(eventStatus, systemList, net)
          PROVE  Rises(eventStatus[p], UpdatedStatus(eventStatus[p], list))
      <4>1. status # "UNSET"
        <5>1. StillTrue(eventStatus, systemList, net, q, p)
          BY <3>3 DEF NothingTakenBack
        <5>2. net[q][p] \in Seq(Message) /\ OnlyRises(eventStatus[q], net[q][p])
          BY <1>1, <5>1, RestFacts DEF StillTrue
        <5> QED
          BY <1>1, <5>2, OnlyRisesFacts DEF status
      <4>2. eventStatus[p] = "ALL_SET"
            => \A x \in DOMAIN list : list[x].lastReceivedStatus # "UNSET"
        <5>1. StatusFollowsList(eventStatus, systemList)
          BY DEF ReadyInv
        <5> QED
          BY <2>1, <4>1, <5>1 DEF StatusFollowsList
      <4> QED
        BY <2>1, <2>2, <4>2, RisesFacts
    <3>4. undone' \/ (NothingTakenBack(eventStatus, sl2, Rest(q, p))
                      /\ Rises(eventStatus[p], UpdatedStatus(eventStatus[p], list)))
      <4>1. undone \/ NothingTakenBack(eventStatus, systemList, net)
        BY DEF ReadyInv
      <4>2. undone' = undone
        BY <1>1
      <4> QED
        BY <2>6, <3>3, <4>1, <4>2
    <3>5. undone' \in BOOLEAN /\ undos' \in 0 .. MaxUndo
      BY <1>1, <1>2
    <3>6. UNCHANGED <<down, forgot>>
      BY <1>1
    <3> QED
      BY <1>2, <2>1, <2>2, <2>5, <2>8, <3>1, <3>2, <3>4, <3>5, <3>6, UpdateKeeps DEF sl2
  <2> QED
    BY <2>7, <2>8
<1> QED
  BY <1>4, <1>5

(* OnReadyEventQuery.                                                      *)
LEMMA OnReadyEventQueryKeeps ==
    ASSUME ReadyInv, NEW p \in System, NEW q \in System, OnReadyEventQuery(q, p)
    PROVE  ReadyInv'
<1> DEFINE ignored == \/ q \notin DOMAIN systemList[p]
                      \/ eventStatus[p] = "UNSET" /\ systemList[p][q].lastSentStatus = "UNSET"
<1>1. /\ net[q][p] # <<>> /\ Head(net[q][p]) = "QUERY"
      /\ IF ignored
         THEN Ignored(q, p)
         ELSE /\ net' = [Rest(q, p) EXCEPT ![p] = Posted(@, p, {q}, eventStatus[p])]
              /\ systemList' = [systemList EXCEPT ![p][q].lastSentStatus = eventStatus[p]]
              /\ UNCHANGED eventStatus
      /\ UNCHANGED <<down, forgot, undos, undone>>
  BY DEF OnReadyEventQuery, Arrives, Keep, WaitsFor
<1>2. /\ Typed(eventStatus, systemList, net)
      /\ Settling(eventStatus, systemList, net, down, forgot)
      /\ \A x \in System : eventStatus[x] = NoEvent => DOMAIN systemList[x] = {}
      /\ eventStatus[p] # NoEvent => eventStatus[p] \in Status
      /\ systemList[p] \in SystemList
      /\ net[p] \in [System -> Seq(Message)]
      /\ net \in [System -> [System -> Seq(Message)]]
      /\ systemList \in [System -> SystemList]
  BY InvFacts DEF Typed
<1>3. "QUERY" \notin Status
  BY DEF Status, Reported
<1>4. CASE ignored
  <2>1. Ignored(q, p)
    BY <1>1, <1>4
  <2>2. /\ Typed(eventStatus, systemList, Rest(q, p))
        /\ Settling(eventStatus, systemList, Rest(q, p), down, forgot)
    BY <1>1, <1>2, <1>3, <1>4, PopSettles DEF Rest
  <2> QED
    BY <1>1, <2>1, <2>2, IgnoredKeeps
<1>5. CASE ~ignored
  <2> DEFINE new  == eventStatus[p]
             list == [systemList[p] EXCEPT ![q].lastSentStatus = new]
             out  == Posted(net[p], p, {q}, new)
             sl2  == [systemList EXCEPT ![p] = list]
             nt2  == [net EXCEPT ![p] = out]
  <2>1. /\ q \in DOMAIN systemList[p] /\ q # p /\ new \in Status
        /\ new # "UNSET" \/ systemList[p][q].lastSentStatus # "UNSET"
    BY <1>2, <1>5 DEF Typed
  <2>2. /\ list \in SystemList /\ DOMAIN list = DOMAIN systemList[p]
        /\ list[q].lastReceivedStatus = systemList[p][q].lastReceivedStatus
        /\ list[q].lastSentStatus = new
        /\ \A x \in DOMAIN list : x # q => list[x] = systemList[p][x]
    <3>1. systemList[p] \in [DOMAIN systemList[p] -> RemoteSystem]
          /\ DOMAIN systemList[p] \subseteq System
      BY <1>2, ListFacts
    <3>2. [systemList[p][q] EXCEPT !.lastSentStatus = new] \in RemoteSystem
      BY <2>1, <3>1 DEF RemoteSystem
    <3>3. list \in [DOMAIN systemList[p] -> RemoteSystem]
      BY <2>1, <3>1, <3>2
    <3>4. list \in SystemList
      BY <3>1, <3>3 DEF SystemList
    <3> QED
      BY <2>1, <3>1, <3>4 DEF RemoteSystem
  <2>3. /\ out \in [System -> Seq(Message)]
        /\ \A x \in System : x # q => out[x] = net[p][x]
        /\ {p, q} \in down => out[q] = net[p][q]
        /\ {p, q} \notin down => out[q] = Append(net[p][q], new)
    <3>1. new \in Message
      BY <2>1 DEF Message
    <3>2. \A x \in System : net[p][x] \in Seq(Message) /\ Append(net[p][x], new) \in Seq(Message)
      BY <1>2, <3>1
    <3> HIDE DEF new
    <3> QED
      BY <3>2 DEF Posted, Connected
  <2>4. /\ eventStatus' = eventStatus
        /\ systemList' = sl2
        /\ net' = [nt2 EXCEPT ![q][p] = Tail(@)]
    <3>1. /\ net' = [Rest(q, p) EXCEPT ![p] = Posted(@, p, {q}, new)]
          /\ systemList' = [systemList EXCEPT ![p][q].lastSentStatus = new]
          /\ UNCHANGED eventStatus
      BY <1>1, <1>5
    <3>2. systemList' = sl2
      BY <1>2, <3>1
    <3>3. Rest(q, p)[p] = net[p]
      BY <1>2, <2>1 DEF Rest
    <3>4. net' = [Rest(q, p) EXCEPT ![p] = out]
      BY <3>1, <3>3
    <3>5. [Rest(q, p) EXCEPT ![p] = out] = [nt2 EXCEPT ![q][p] = Tail(@)]
      <4> HIDE DEF out
      <4> QED
        BY <1>2, <2>1, <2>3 DEF Rest
    <3> QED
      BY <3>1, <3>2, <3>4, <3>5
  <2>5. eventStatus[p] = new
    OBVIOUS
  <2> HIDE DEF new, list, out
  <2>6. Typed(eventStatus, sl2, nt2) /\ Settling(eventStatus, sl2, nt2, down, forgot)
    <3>1. \A x \in DOMAIN list : list[x].lastReceivedStatus = systemList[p][x].lastReceivedStatus
      BY <2>2
    <3>2. \A x \in System :
             \/ /\ out[x] = net[p][x]
                /\ x \in DOMAIN list => \/ list[x].lastSentStatus = systemList[p][x].lastSentStatus
                                        \/ {p, x} \in down
             \/ /\ out[x] = Append(net[p][x], new)
                /\ x \in DOMAIN list /\ {p, x} \notin down
                /\ list[x].lastSentStatus = new
      <4>1. ASSUME NEW x \in System, x # q
            PROVE  /\ out[x] = net[p][x]
                   /\ x \in DOMAIN list => list[x].lastSentStatus = systemList[p][x].lastSentStatus
        BY <2>2, <2>3, <4>1
      <4>2. CASE {p, q} \in down
        BY <2>3, <4>1, <4>2
      <4>3. CASE {p, q} \notin down
        BY <2>1, <2>2, <2>3, <4>1, <4>3
      <4> QED
        BY <4>2, <4>3
    <3> QED
      BY <1>2, <2>1, <2>2, <2>3, <3>1, <3>2, TellSettles, ZenonT(30)
  <2>7. /\ sl2[p] = list /\ \A x \in System : x # p => sl2[x] = systemList[x]
        /\ nt2[p] = out /\ \A x \in System : x # p => nt2[x] = net[x]
    BY <1>2 DEF Typed
  <2> HIDE DEF sl2, nt2
  <2>8. /\ Typed(eventStatus', systemList', net')
        /\ Settling(eventStatus', systemList', net', down, forgot)
    <3>1. nt2[q][p] # <<>> /\ Head(nt2[q][p]) = "QUERY"
      BY <1>1, <2>1, <2>7
    <3>2. {p, q} \notin down => LastStatusIs(nt2[p][q], sl2[p][q].lastSentStatus)
      <4>1. net[p][q] \in Seq(Message) /\ new \in Message
        BY <1>2, <2>1 DEF Message
      <4>2. LastStatusIs(Append(net[p][q], new), new)
        BY <2>1, <4>1, AppendFacts
      <4> QED
        BY <2>2, <2>3, <2>7, <4>2
    <3> QED
      BY <1>3, <2>4, <2>6, <3>1, <3>2, PopSettles
  <2>9. \A x \in System : /\ DOMAIN sl2[x] = DOMAIN systemList[x]
                          /\ \A y \in DOMAIN sl2[x] :
                                sl2[x][y].lastReceivedStatus = systemList[x][y].lastReceivedStatus
    BY <2>2, <2>7
  <2>10. StatusFollowsList(eventStatus', systemList')
    <3>1. StatusFollowsList(eventStatus, systemList)
      BY DEF ReadyInv
    <3>2. ASSUME NEW x \in System
          PROVE  /\ eventStatus[x] = "SET" /\ DOMAIN sl2[x] # {}
                    => \E y \in DOMAIN sl2[x] : sl2[x][y].lastReceivedStatus = "UNSET"
                 /\ eventStatus[x] = "ALL_SET"
                    => \A y \in DOMAIN sl2[x] : sl2[x][y].lastReceivedStatus # "UNSET"
      <4>1. /\ eventStatus[x] = "SET" /\ DOMAIN systemList[x] # {}
               => \E y \in DOMAIN systemList[x] : systemList[x][y].lastReceivedStatus = "UNSET"
            /\ eventStatus[x] = "ALL_SET"
               => \A y \in DOMAIN systemList[x] : systemList[x][y].lastReceivedStatus # "UNSET"
        BY <3>1 DEF StatusFollowsList
      <4> QED
        BY <2>9, <4>1
    <3> QED
      BY <2>4, <3>2 DEF StatusFollowsList
  <2>11. ListWasTold(eventStatus', systemList')
    <3>1. ListWasTold(eventStatus, systemList)
      BY DEF ReadyInv
    <3>2. ASSUME NEW x \in System, NEW y \in DOMAIN sl2[x]
          PROVE  sl2[x][y].lastSentStatus = eventStatus[x] \/ eventStatus[x] = "FORCE_ALL_SET"
      <4>1. CASE x = p /\ y = q
        BY <2>2, <2>5, <2>7, <4>1
      <4>2. CASE x # p \/ y # q
        <5>1. y \in DOMAIN systemList[x] /\ sl2[x][y] = systemList[x][y]
          BY <2>2, <2>7, <3>2, <4>2
        <5> QED
          BY <3>1, <5>1 DEF ListWasTold
      <4> QED
        BY <4>1, <4>2
    <3> QED
      BY <2>4, <3>2 DEF ListWasTold
  <2>12. ASSUME NothingTakenBack(eventStatus, systemList, net)
         PROVE  NothingTakenBack(eventStatus', systemList', net')
    <3>1. \A x \in DOMAIN list :
             /\ list[x].lastReceivedStatus = systemList[p][x].lastReceivedStatus
             /\ \/ list[x].lastSentStatus = systemList[p][x].lastSentStatus
                \/ list[x].lastSentStatus = eventStatus[p]
      BY <2>2, <2>5
    <3>2. \A x \in System :
             \/ out[x] = net[p][x]
             \/ /\ out[x] = Append(net[p][x], eventStatus[p]) /\ x \in DOMAIN list
                /\ eventStatus[p] # "UNSET" \/ systemList[p][x].lastSentStatus # "UNSET"
      BY <2>1, <2>2, <2>3, <2>5
    <3>3. NothingTakenBack(eventStatus, sl2, nt2)
      BY <1>2, <2>1, <2>2, <2>3, <2>5, <2>12, <3>1, <3>2, TellingTakesNothingBack, ZenonT(30)
         DEF sl2, nt2
    <3>4. \A a, b \in System : Hears(sl2, nt2, sl2, net', a, b)
      <4>1. \A a, b \in System :
               \/ net'[a][b] = nt2[a][b]
               \/ nt2[a][b] # <<>> /\ net'[a][b] = Tail(nt2[a][b])
        <5>1. nt2 \in [System -> [System -> Seq(Message)]]
          BY <2>6 DEF Typed
        <5>2. nt2[q][p] # <<>>
          BY <1>1, <2>1, <2>7
        <5> QED
          BY <2>4, <5>1, <5>2
      <4> QED
        BY <4>1 DEF Hears
    <3> QED
      BY <2>4, <2>6, <3>3, <3>4, HearingTakesNothingBack
  <2>13. \A x \in System : eventStatus'[x] = NoEvent => DOMAIN systemList'[x] = {}
    BY <1>2, <2>4, <2>9
  <2> QED
    BY <1>1, <2>8, <2>10, <2>11, <2>12, <2>13, KeepsByParts
<1> QED
  BY <1>4, <1>5

(* OnClosedConnection.                                                     *)
LEMMA OnClosedConnectionKeeps ==
    ASSUME ReadyInv, NEW p \in System, NEW q \in System, OnClosedConnection(q, p)
    PROVE  ReadyInv'
<1> DEFINE kept == DOMAIN systemList[p] \ {q}
           list == Restrict(systemList[p], kept)
           sl2  == [systemList EXCEPT ![p] = list]
           nt2  == Rest(q, p)
<1>1. /\ net[q][p] # <<>> /\ Head(net[q][p]) = "ID_CONNECTION_LOST"
      /\ IF HasEvent(p) THEN Update(p, eventStatus[p], list, nt2, net[p]) ELSE Ignored(q, p)
      /\ UNCHANGED <<down, forgot, undos, undone>>
  BY DEF OnClosedConnection, Arrives, Keep, WaitsFor
<1>2. /\ Typed(eventStatus, systemList, net)
      /\ Settling(eventStatus, systemList, net, down, forgot)
      /\ eventStatus[p] = NoEvent => DOMAIN systemList[p] = {}
      /\ eventStatus[p] # NoEvent => eventStatus[p] \in Status
      /\ systemList[p] \in SystemList
      /\ net[p] \in [System -> Seq(Message)]
      /\ forgot \subseteq System \X System
      /\ undos \in 0 .. MaxUndo /\ undone \in BOOLEAN
      /\ {p, p} \notin down
  BY InvFacts
<1>3. /\ list \in SystemList /\ DOMAIN list = kept
      /\ \A x \in kept : list[x] = systemList[p][x]
  <2>1. kept \in SUBSET System /\ \A x \in kept : systemList[p][x] \in RemoteSystem
    BY <1>2, ListFacts
  <2>2. list \in [kept -> RemoteSystem]
    BY <2>1 DEF Restrict
  <2> QED
    BY <2>1, <2>2 DEF SystemList, Restrict
<1> HIDE DEF list
<1>4. /\ sl2 \in [System -> SystemList] /\ sl2[p] = list
      /\ \A x \in System : x # p => sl2[x] = systemList[x]
  BY <1>2, <1>3 DEF Typed
<1>5. /\ nt2 \in [System -> [System -> Seq(Message)]]
      /\ nt2[q][p] = Tail(net[q][p])
      /\ \A a, b \in System : a # q \/ b # p => nt2[a][b] = net[a][b]
      /\ q # p => [nt2 EXCEPT ![p] = net[p]] = nt2
      /\ net[q][p] \in Seq(Message)
  BY <1>1, RestFacts
<1>6. {q, p} \in down
  <2>1. EndArrivesLast(systemList, net, down, q, p)
    BY <1>2, SettlingPair
  <2>2. Holds(net[q][p], "ID_CONNECTION_LOST")
    BY <1>1, <1>5, TailFacts
  <2> QED
    BY <2>1, <2>2 DEF EndArrivesLast
<1>7. q # p
  BY <1>2, <1>6
<1> HIDE DEF sl2, nt2
<1>8. \A a, b \in System :
         b \in DOMAIN sl2[a] => b \in DOMAIN systemList[a] /\ sl2[a][b] = systemList[a][b]
  BY <1>3, <1>4
<1>9. Typed(eventStatus, sl2, nt2) /\ Settling(eventStatus, sl2, nt2, down, forgot)
  <2>1. ASSUME NEW a \in System, NEW b \in System
        PROVE  Ends(systemList, net, sl2, nt2, down, a, b)
    <3>1. EndArrivesLast(systemList, net, down, a, b)
      BY <1>2, SettlingPair
    <3>2. CASE {a, b} \notin down
      <4>1. ~(a = q /\ b = p)
        BY <1>6, <3>2
      <4>2. ~(a = p /\ b = q)
        <5>1. {p, q} = {q, p}
          OBVIOUS
        <5> QED
          BY <1>6, <3>2, <5>1
      <4>3. nt2[a][b] = net[a][b]
        BY <1>5, <4>1
      <4>4. b \in DOMAIN systemList[a] => b \in DOMAIN sl2[a]
        BY <1>3, <1>4, <4>2
      <4> QED
        BY <1>8, <3>2, <4>3, <4>4 DEF Ends
    <3>3. CASE {a, b} \in down /\ a = q /\ b = p
      <4>1. /\ q \notin DOMAIN sl2[p]
            /\ net[q][p][Len(net[q][p])] = "ID_CONNECTION_LOST"
        BY <1>1, <1>3, <1>4, <3>1, <3>3 DEF EndArrivesLast
      <4>2. Tail(net[q][p]) # <<>>
            => Tail(net[q][p])[Len(Tail(net[q][p]))] = net[q][p][Len(net[q][p])]
        BY <1>1, <1>5, TailFacts
      <4> QED
        BY <1>5, <1>8, <3>3, <4>1, <4>2 DEF Ends
    <3>4. CASE {a, b} \in down /\ ~(a = q /\ b = p)
      <4>1. nt2[a][b] = net[a][b]
        BY <1>5, <3>4
      <4>2. a \in DOMAIN sl2[b] => a \in DOMAIN systemList[b]
        BY <1>8
      <4> QED
        BY <1>8, <3>1, <3>4, <4>1, <4>2 DEF EndArrivesLast, Ends
    <3> QED
      BY <3>2, <3>3, <3>4
  <2> QED
    BY <1>2, <1>4, <1>5, <2>1, DisconnectSettles
<1>10. CASE ~HasEvent(p)
  <2>1. Ignored(q, p)
    BY <1>1, <1>10
  <2>2. sl2 = systemList
    <3>1. DOMAIN systemList[p] = {} /\ DOMAIN list = {}
      BY <1>2, <1>3, <1>10 DEF HasEvent
    <3>2. list = systemList[p]
      <4>1. /\ systemList[p] \in [{} -> RemoteSystem] /\ list \in [{} -> RemoteSystem]
        BY <1>2, <1>3, <3>1, ListFacts
      <4> QED
        BY <4>1
    <3> QED
      BY <1>2, <3>2 DEF sl2, Typed
  <2> QED
    BY <1>1, <1>9, <2>1, <2>2, IgnoredKeeps DEF nt2
<1>11. CASE HasEvent(p)
  <2>1. Update(p, eventStatus[p], list, nt2, net[p]) /\ eventStatus[p] \in Status
    BY <1>1, <1>2, <1>11 DEF HasEvent
  <2>2. Rises(eventStatus[p], UpdatedStatus(eventStatus[p], list))
    <3>1. StatusFollowsList(eventStatus, systemList)
      BY DEF ReadyInv
    <3>2. eventStatus[p] = "ALL_SET" => \A x \in DOMAIN list : list[x].lastReceivedStatus # "UNSET"
      BY <1>3, <3>1 DEF StatusFollowsList
    <3> QED
      BY <1>3, <2>1, <3>2, RisesFacts
  <2>3. ASSUME NothingTakenBack(eventStatus, systemList, net)
        PROVE  NothingTakenBack(eventStatus, sl2, nt2)
    <3>1. ASSUME NEW a \in System, NEW b \in System
          PROVE  Hears(systemList, net, sl2, nt2, a, b)
      <4>1. \/ nt2[a][b] = net[a][b]
            \/ net[a][b] # <<>> /\ nt2[a][b] = Tail(net[a][b])
        BY <1>1, RestFacts DEF nt2
      <4> QED
        BY <1>8, <4>1 DEF Hears
    <3> QED
      BY <1>2, <2>3, <3>1, HearingTakesNothingBack
  <2>4. undone' \/ (NothingTakenBack(eventStatus, sl2, nt2)
                    /\ Rises(eventStatus[p], UpdatedStatus(eventStatus[p], list)))
    <3>1. undone \/ NothingTakenBack(eventStatus, systemList, net)
      BY DEF ReadyInv
    <3>2. undone' = undone
      BY <1>1
    <3> QED
      BY <2>2, <2>3, <3>1, <3>2
  <2>5. /\ undone' \in BOOLEAN /\ undos' \in 0 .. MaxUndo
        /\ UNCHANGED <<down, forgot>>
    BY <1>1, <1>2
  <2> QED
    BY <1>2, <1>3, <1>5, <1>7, <1>9, <2>1, <2>4, <2>5, UpdateKeeps DEF sl2
<1> QED
  BY <1>10, <1>11

(* What is left of a queue when the connection is lost.                    *)
LEMMA LostFacts ==
    ASSUME NEW s \in Seq(Message), NEW k \in 0 .. Len(s)
    PROVE  /\ Lost(s, k) \in Seq(Message)
           /\ Lost(s, k) # <<>>
           /\ Lost(s, k)[Len(Lost(s, k))] = "ID_CONNECTION_LOST"
<1>1. SubSeq(s, 1, k) \in Seq(Message) /\ "ID_CONNECTION_LOST" \in Message
  BY DEF Message
<1> QED
  BY <1>1, AppendFacts DEF Lost

(* LoseConnection.                                                         *)
LEMMA LoseConnectionKeeps ==
    ASSUME ReadyInv, NEW p \in System, NEW q \in System, LoseConnection(p, q)
    PROVE  ReadyInv'
<1>1. /\ p # q /\ undos < MaxUndo /\ undos' = undos + 1
      /\ down' = down \cup {{p, q}}
      /\ UNCHANGED <<eventStatus, systemList, undone, forgot>>
  BY DEF LoseConnection, Fault
<1>2. PICK i \in 0 .. Len(net[p][q]), j \in 0 .. Len(net[q][p]) :
         net' = [net EXCEPT ![p][q] = Lost(@, i), ![q][p] = Lost(@, j)]
  BY DEF LoseConnection
<1>3. /\ Typed(eventStatus, systemList, net)
      /\ Settling(eventStatus, systemList, net, down, forgot)
      /\ net \in [System -> [System -> Seq(Message)]]
      /\ systemList \in [System -> SystemList]
      /\ undos \in 0 .. MaxUndo /\ MaxUndo \in Nat
  BY InvFacts DEF Typed
<1>11. /\ down \subseteq {{a, b} : a \in System, b \in System}
       /\ \A x \in System : {x, x} \notin down
  BY InvFacts
<1>4. /\ net[p][q] \in Seq(Message) /\ net[q][p] \in Seq(Message)
      /\ Lost(net[p][q], i) \in Seq(Message) /\ Lost(net[q][p], j) \in Seq(Message)
  BY <1>3, LostFacts
<1>5. /\ net' \in [System -> [System -> Seq(Message)]]
      /\ net'[p][q] = Lost(net[p][q], i)
      /\ net'[q][p] = Lost(net[q][p], j)
      /\ \A a, b \in System : ~(a = p /\ b = q) /\ ~(a = q /\ b = p) => net'[a][b] = net[a][b]
  <2> DEFINE u == Lost(net[p][q], i)
             v == Lost(net[q][p], j)
  <2>1. net' = [net EXCEPT ![p][q] = u, ![q][p] = v]
    BY <1>1, <1>2, <1>3
  <2>2. u \in Seq(Message) /\ v \in Seq(Message)
    BY <1>4
  <2> HIDE DEF u, v
  <2>3. /\ net' \in [System -> [System -> Seq(Message)]]
        /\ net'[p][q] = u /\ net'[q][p] = v
        /\ \A a, b \in System : ~(a = p /\ b = q) /\ ~(a = q /\ b = p) => net'[a][b] = net[a][b]
    BY <1>1, <1>3, <2>1, <2>2
  <2> QED
    BY <2>3 DEF u, v
<1>6. ASSUME NEW a \in System, NEW b \in System, {a, b} = {p, q}
      PROVE  (a = p /\ b = q) \/ (a = q /\ b = p)
  BY <1>1, <1>6
<1>7. Typed(eventStatus', systemList', net') /\ Settling(eventStatus', systemList', net', down', forgot')
  <2>1. ASSUME NEW a \in System, NEW b \in System
        PROVE  Ends(systemList, net, systemList, net', down', a, b)
    <3>1. EndArrivesLast(systemList, net, down, a, b)
      BY <1>3, SettlingPair
    <3>2. CASE {a, b} = {p, q}
      <4>1. net'[a][b] # <<>> /\ net'[a][b][Len(net'[a][b])] = "ID_CONNECTION_LOST"
        <5>1. CASE a = p /\ b = q
          BY <1>4, <1>5, <5>1, LostFacts
        <5>2. CASE a = q /\ b = p
          BY <1>4, <1>5, <5>2, LostFacts
        <5> QED
          BY <1>6, <3>2, <5>1, <5>2
      <4>2. {a, b} \in down'
        BY <1>1, <3>2
      <4> QED
        BY <4>1, <4>2 DEF Ends
    <3>3. CASE {a, b} # {p, q}
      <4>1. net'[a][b] = net[a][b]
        <5>1. {q, p} = {p, q}
          OBVIOUS
        <5> QED
          BY <1>5, <3>3, <5>1
      <4>2. {a, b} \in down' <=> {a, b} \in down
        BY <1>1, <3>3
      <4>3. CASE {a, b} \in down
        BY <3>1, <4>1, <4>2, <4>3 DEF EndArrivesLast, Ends
      <4>4. CASE {a, b} \notin down
        BY <4>1, <4>2, <4>4 DEF Ends
      <4> QED
        BY <4>3, <4>4
    <3> QED
      BY <3>2, <3>3
  <2>2. down \subseteq down'
    BY <1>1
  <2>3. Typed(eventStatus, systemList, net') /\ Settling(eventStatus, systemList, net', down', forgot)
    BY <1>3, <1>5, <2>1, <2>2, DisconnectSettles
  <2> QED
    BY <1>1, <2>3
<1>8. TypeOK'
  <2>1. TypeOK
    BY DEF ReadyInv
  <2>2. undos' \in 0 .. MaxUndo
    BY <1>1, <1>3
  <2>3. down' \subseteq {{a, b} : a \in System, b \in System}
    BY <1>1, <1>11
  <2>4. \A x \in System : {x, x} \notin down'
    <3>1. ASSUME NEW x \in System, {x, x} \in down'
          PROVE  FALSE
      <4>1. {x, x} = {p, q}
        <5>1. {x, x} \notin down
          BY <1>11
        <5> QED
          BY <1>1, <3>1, <5>1
      <4>2. p \in {x, x} /\ q \in {x, x}
        BY <4>1
      <4> QED
        BY <1>1, <4>2
    <3> QED
      BY <3>1
  <2>5. /\ eventStatus' \in [System -> Status \cup {NoEvent}]
        /\ systemList' \in [System -> SystemList]
        /\ \A x \in System :
             /\ x \notin DOMAIN systemList'[x]
             /\ eventStatus'[x] = NoEvent => DOMAIN systemList'[x] = {}
        /\ undone' \in BOOLEAN
        /\ forgot' \subseteq System \X System
    BY <1>1, <2>1 DEF TypeOK, HasEvent, WaitsFor
  <2> QED
    BY <1>5, <2>2, <2>3, <2>4, <2>5 DEF TypeOK, HasEvent, WaitsFor, Connected
<1>9. undone' \/ NothingTakenBack(eventStatus', systemList', net')
  <2>1. undone \/ NothingTakenBack(eventStatus, systemList, net)
    BY DEF ReadyInv
  <2>2. ASSUME NothingTakenBack(eventStatus, systemList, net)
        PROVE  NothingTakenBack(eventStatus', systemList', net')
    <3>1. ASSUME NEW a \in System, NEW b \in System
          PROVE  Hears(systemList, net, systemList, net', a, b)
      <4>1. CASE a = p /\ b = q
        BY <1>5, <4>1 DEF Hears
      <4>2. CASE a = q /\ b = p
        BY <1>5, <4>2 DEF Hears
      <4>3. CASE ~(a = p /\ b = q) /\ ~(a = q /\ b = p)
        BY <1>5, <4>3 DEF Hears
      <4> QED
        BY <4>1, <4>2, <4>3
    <3> QED
      BY <1>1, <1>3, <2>2, <3>1, HearingTakesNothingBack
  <2>3. undone' = undone
    BY <1>1
  <2> QED
    BY <2>1, <2>2, <2>3
<1>10. StatusFollowsList(eventStatus', systemList') /\ ListWasTold(eventStatus', systemList')
  BY <1>1 DEF ReadyInv
<1> QED
  BY <1>7, <1>8, <1>9, <1>10 DEF ReadyInv

(* OnRakPeerShutdown.                                                      *)
LEMMA OnRakPeerShutdownKeeps ==
    ASSUME ReadyInv, NEW p \in System, OnRakPeerShutdown(p)
    PROVE  ReadyInv'
<1>1. /\ undos < MaxUndo /\ undos' = undos + 1 /\ undone' = TRUE
      /\ eventStatus' = [eventStatus EXCEPT ![p] = NoEvent]
      /\ systemList' = [systemList EXCEPT ![p] = Empty]
      /\ down' = down \cup {{p, q} : q \in System \ {p}}
      /\ forgot' = forgot
  BY DEF OnRakPeerShutdown, Fault
<1>2. net' = [r \in System |-> [q \in System |->
                 IF q = p THEN <<>>
                 ELSE IF r = p /\ {p, q} \notin down THEN Lost(net[p][q], Len(net[p][q]))
                 ELSE net[r][q]]]
  BY DEF OnRakPeerShutdown, Connected
<1>3. /\ Typed(eventStatus, systemList, net)
      /\ Settling(eventStatus, systemList, net, down, forgot)
      /\ net \in [System -> [System -> Seq(Message)]]
      /\ systemList \in [System -> SystemList]
      /\ eventStatus \in [System -> Status \cup {NoEvent}]
      /\ undos \in 0 .. MaxUndo /\ MaxUndo \in Nat
      /\ \A x \in System : eventStatus[x] = NoEvent => DOMAIN systemList[x] = {}
      /\ \A x \in System : x \notin DOMAIN systemList[x]
  BY InvFacts DEF Typed
<1>4. /\ down \subseteq {{a, b} : a \in System, b \in System}
      /\ \A x \in System : {x, x} \notin down
  BY InvFacts
<1>5. \A q \in System : LET lost == Lost(net[p][q], Len(net[p][q])) IN
         /\ lost \in Seq(Message) /\ lost # <<>>
         /\ lost[Len(lost)] = "ID_CONNECTION_LOST"
  <2>1. ASSUME NEW q \in System
        PROVE  net[p][q] \in Seq(Message) /\ Len(net[p][q]) \in 0 .. Len(net[p][q])
    BY <1>3
  <2> QED
    BY <2>1, LostFacts
<1>6. /\ net' \in [System -> [System -> Seq(Message)]]
      /\ \A r \in System : net'[r][p] = <<>>
      /\ \A q \in System : q # p /\ {p, q} \notin down
                           => /\ net'[p][q] # <<>>
                              /\ net'[p][q][Len(net'[p][q])] = "ID_CONNECTION_LOST"
      /\ \A q \in System : q # p /\ {p, q} \in down => net'[p][q] = net[p][q]
      /\ \A r, q \in System : r # p /\ q # p => net'[r][q] = net[r][q]
  <2>1. \A r, q \in System :
           net'[r][q] = IF q = p THEN <<>>
                        ELSE IF r = p /\ {p, q} \notin down THEN Lost(net[p][q], Len(net[p][q]))
                        ELSE net[r][q]
    BY <1>2
  <2>2. ASSUME NEW r \in System, NEW q \in System
        PROVE  net'[r][q] \in Seq(Message)
    <3>1. net[r][q] \in Seq(Message) /\ <<>> \in Seq(Message)
      BY <1>3
    <3> QED
      BY <1>5, <2>1, <3>1
  <2>3. net' \in [System -> [System -> Seq(Message)]]
    BY <1>2, <2>2
  <2>4. ASSUME NEW q \in System, q # p, {p, q} \notin down
        PROVE  net'[p][q] # <<>> /\ net'[p][q][Len(net'[p][q])] = "ID_CONNECTION_LOST"
    <3>1. net'[p][q] = Lost(net[p][q], Len(net[p][q]))
      BY <2>1, <2>4
    <3> QED
      BY <1>5, <3>1
  <2> QED
    BY <2>1, <2>3, <2>4
<1>7. /\ systemList' \in [System -> SystemList] /\ DOMAIN systemList'[p] = {}
      /\ \A x \in System : x # p => systemList'[x] = systemList[x]
  <2>1. Empty \in SystemList /\ DOMAIN Empty = {}
    <3>1. Empty \in [{} -> RemoteSystem] /\ DOMAIN Empty = {}
      BY DEF Empty
    <3> QED
      BY <3>1 DEF SystemList
  <2> HIDE DEF Empty
  <2> QED
    BY <1>1, <1>3, <2>1
<1>8. /\ eventStatus' \in [System -> Status \cup {NoEvent}] /\ eventStatus'[p] = NoEvent
      /\ \A x \in System : x # p => eventStatus'[x] = eventStatus[x]
  BY <1>1, <1>3
<1>9. Typed(eventStatus, systemList', net') /\ Settling(eventStatus, systemList', net', down', forgot)
  <2>1. ASSUME NEW a \in System, NEW b \in System
        PROVE  Ends(systemList, net, systemList', net', down', a, b)
    <3>1. EndArrivesLast(systemList, net, down, a, b)
      BY <1>3, SettlingPair
    <3>2. b \in DOMAIN systemList'[a]
          => b \in DOMAIN systemList[a] /\ systemList'[a][b] = systemList[a][b]
      BY <1>7
    <3>3. CASE b = p /\ a = p
      <4>1. net'[a][b] = <<>> /\ a \notin DOMAIN systemList'[b] /\ b \notin DOMAIN systemList[a]
        BY <1>3, <1>6, <1>7, <3>3
      <4> QED
        BY <3>2, <3>3, <4>1 DEF Ends
    <3>4. CASE b = p /\ a # p
      <4>1. {a, b} \in down'
        <5>1. {a, b} = {p, a}
          BY <3>4
        <5>2. {p, a} \in down'
          BY <1>1, <3>4
        <5> QED
          BY <5>1, <5>2
      <4>2. net'[a][b] = <<>> /\ a \notin DOMAIN systemList'[b]
        BY <1>6, <1>7, <3>4
      <4> QED
        BY <3>2, <4>1, <4>2 DEF Ends
    <3>5. CASE a = p /\ b # p
      <4>1. {a, b} \in down'
        BY <1>1, <3>5
      <4>2. CASE {a, b} \notin down
        <5>1. net'[a][b] # <<>> /\ net'[a][b][Len(net'[a][b])] = "ID_CONNECTION_LOST"
          BY <1>6, <3>5, <4>2
        <5> QED
          BY <3>2, <4>1, <5>1 DEF Ends
      <4>3. CASE {a, b} \in down
        <5>1. net'[a][b] = net[a][b] /\ systemList'[b] = systemList[b]
          BY <1>6, <1>7, <3>5, <4>3
        <5>2. /\ net[a][b] = <<>> => a \notin DOMAIN systemList[b]
              /\ net[a][b] # <<>> => net[a][b][Len(net[a][b])] = "ID_CONNECTION_LOST"
          BY <3>1, <4>3 DEF EndArrivesLast
        <5> QED
          BY <3>2, <4>1, <5>1, <5>2 DEF Ends
      <4> QED
        BY <4>2, <4>3
    <3>6. CASE a # p /\ b # p
      <4>1. {a, b} \in down' <=> {a, b} \in down
        <5>1. ASSUME NEW q \in System, {a, b} = {p, q}
              PROVE  FALSE
          <6>1. p \in {a, b}
            BY <5>1
          <6> QED
            BY <3>6, <6>1
        <5> QED
          BY <1>1, <5>1
      <4>2. /\ net'[a][b] = net[a][b]
            /\ systemList'[a] = systemList[a] /\ systemList'[b] = systemList[b]
        BY <1>6, <1>7, <3>6
      <4>3. CASE {a, b} \in down
        <5>1. /\ net[a][b] = <<>> => a \notin DOMAIN systemList[b]
              /\ net[a][b] # <<>> => net[a][b][Len(net[a][b])] = "ID_CONNECTION_LOST"
          BY <3>1, <4>3 DEF EndArrivesLast
        <5> QED
          BY <4>1, <4>2, <4>3, <5>1 DEF Ends
      <4>4. CASE {a, b} \notin down
        BY <4>1, <4>2, <4>4 DEF Ends
      <4> QED
        BY <4>3, <4>4
    <3> QED
      BY <3>3, <3>4, <3>5, <3>6
  <2>2. down \subseteq down'
    BY <1>1
  <2> QED
    BY <1>3, <1>6, <1>7, <2>1, <2>2, DisconnectSettles
<1>10. Settling(eventStatus', systemList', net', down', forgot')
  BY <1>1, <1>7, <1>9, NewStatusSettles
<1>11. TypeOK'
  <2>1. TypeOK
    BY DEF ReadyInv
  <2>2. undos' \in 0 .. MaxUndo /\ undone' \in BOOLEAN
    BY <1>1, <1>3
  <2>3. down' \subseteq {{a, b} : a \in System, b \in System}
    BY <1>1, <1>4
  <2>4. \A x \in System : {x, x} \notin down'
    <3>1. ASSUME NEW x \in System, {x, x} \in down'
          PROVE  FALSE
      <4>1. {x, x} \notin down
        BY <1>4
      <4>2. PICK q \in System \ {p} : {x, x} = {p, q}
        BY <1>1, <3>1, <4>1
      <4>3. p \in {x, x} /\ q \in {x, x}
        BY <4>2
      <4> QED
        BY <4>2, <4>3
    <3> QED
      BY <3>1
  <2>5. \A x \in System :
           /\ x \notin DOMAIN systemList'[x]
           /\ eventStatus'[x] = NoEvent => DOMAIN systemList'[x] = {}
    BY <1>3, <1>7, <1>8
  <2>6. forgot' \subseteq System \X System
    BY <1>1, <2>1 DEF TypeOK
  <2>7. net' \in [System -> [System -> Seq(Message)]]
    BY <1>6
  <2>8. systemList' \in [System -> SystemList] /\ eventStatus' \in [System -> Status \cup {NoEvent}]
    BY <1>7, <1>8
  <2> QED
    BY <2>2, <2>3, <2>4, <2>5, <2>6, <2>7, <2>8 DEF TypeOK, HasEvent, WaitsFor, Connected
<1>12. StatusFollowsList(eventStatus', systemList')
  <2>1. StatusFollowsList(eventStatus, systemList)
    BY DEF ReadyInv
  <2>2. ASSUME NEW x \in System
        PROVE  /\ eventStatus'[x] = "SET" /\ DOMAIN systemList'[x] # {}
                  => \E q \in DOMAIN systemList'[x] :
                        systemList'[x][q].lastReceivedStatus = "UNSET"
               /\ eventStatus'[x] = "ALL_SET"
                  => \A q \in DOMAIN systemList'[x] :
                        systemList'[x][q].lastReceivedStatus # "UNSET"
    <3>1. CASE x = p
      BY <1>8, <3>1 DEF NoEvent
    <3>2. CASE x # p
      <4>1. eventStatus'[x] = eventStatus[x] /\ systemList'[x] = systemList[x]
        BY <1>7, <1>8, <3>2
      <4> QED
        BY <2>1, <4>1 DEF StatusFollowsList
    <3> QED
      BY <3>1, <3>2
  <2> QED
    BY <2>2 DEF StatusFollowsList
<1>13. ListWasTold(eventStatus', systemList')
  <2>1. ListWasTold(eventStatus, systemList)
    BY DEF ReadyInv
  <2> QED
    BY <1>7, <1>8, <2>1 DEF ListWasTold
<1> QED
  BY <1>1, <1>10, <1>11, <1>12, <1>13 DEF ReadyInv

(* Reconnect.                                                              *)
LEMMA ReconnectKeeps ==
    ASSUME ReadyInv, NEW p \in System, NEW q \in System, Reconnect(p, q)
    PROVE  ReadyInv'
<1>1. /\ {p, q} \in down /\ net[p][q] = <<>> /\ net[q][p] = <<>>
      /\ down' = down \ {{p, q}}
      /\ forgot' = forgot \ {<<p, q>>, <<q, p>>}
      /\ UNCHANGED <<eventStatus, systemList, net, undos, undone>>
  BY DEF Reconnect, Connected
<1>2. /\ Typed(eventStatus, systemList, net)
      /\ Settling(eventStatus, systemList, net, down, forgot)
  BY InvFacts
<1>3. Settling(eventStatus', systemList', net', down', forgot')
  BY <1>1, <1>2, ReconnectSettles
<1>4. TypeOK'
  <2>1. TypeOK
    BY DEF ReadyInv
  <2>2. /\ down \subseteq {{a, b} : a \in System, b \in System}
        /\ \A x \in System : {x, x} \notin down
    BY InvFacts
  <2>3. down' \subseteq down /\ forgot' \subseteq forgot
    BY <1>1
  <2>4. /\ down' \subseteq {{a, b} : a \in System, b \in System}
        /\ \A x \in System : {x, x} \notin down'
    BY <2>2, <2>3
  <2>5. /\ eventStatus' \in [System -> Status \cup {NoEvent}]
        /\ systemList' \in [System -> SystemList]
        /\ \A x \in System :
             /\ x \notin DOMAIN systemList'[x]
             /\ eventStatus'[x] = NoEvent => DOMAIN systemList'[x] = {}
        /\ net' \in [System -> [System -> Seq(Message)]]
        /\ undos' \in 0 .. MaxUndo
        /\ undone' \in BOOLEAN
        /\ forgot' \subseteq System \X System
    BY <1>1, <2>1, <2>3 DEF TypeOK, HasEvent, WaitsFor
  <2> QED
    BY <2>4, <2>5 DEF TypeOK, HasEvent, WaitsFor, Connected
<1>5. /\ StatusFollowsList(eventStatus', systemList')
      /\ ListWasTold(eventStatus', systemList')
      /\ undone' \/ NothingTakenBack(eventStatus', systemList', net')
  BY <1>1 DEF ReadyInv
<1> QED
  BY <1>3, <1>4, <1>5 DEF ReadyInv

(* At the start no system has an event or has sent anything.               *)
LEMMA ReadyInvInit == Init => ReadyInv
<1> SUFFICES ASSUME Init PROVE ReadyInv
  OBVIOUS
<1>1. /\ \A p \in System : eventStatus[p] = NoEvent /\ DOMAIN systemList[p] = {}
      /\ \A p, q \in System : net[p][q] = <<>>
      /\ down = {} /\ undos = 0 /\ undone = FALSE /\ forgot = {}
  BY DEF Init, Empty
<1>2. TypeOK
  <2>1. MaxUndo \in Nat
    BY ReadyAssumption
  <2>2. eventStatus \in [System -> Status \cup {NoEvent}]
    BY DEF Init
  <2>3. systemList \in [System -> SystemList]
    <3>1. Empty \in [{} -> RemoteSystem]
      BY DEF Empty
    <3>2. Empty \in SystemList
      BY <3>1 DEF SystemList
    <3> QED
      BY <3>2 DEF Init
  <2>4. net \in [System -> [System -> Seq(Message)]]
    <3>1. <<>> \in Seq(Message)
      OBVIOUS
    <3> QED
      BY <3>1 DEF Init
  <2>5. undos \in 0 .. MaxUndo
    BY <1>1, <2>1
  <2>6. /\ down \subseteq {{a, b} : a \in System, b \in System}
        /\ \A p \in System : {p, p} \notin down
        /\ forgot \subseteq System \X System
        /\ undone \in BOOLEAN
    <3>1. down = {} /\ forgot = {} /\ undone = FALSE
      BY <1>1
    <3>2. undone \in BOOLEAN
      BY <3>1
    <3>3. forgot \subseteq System \X System
      BY <3>1
    <3>4. down \subseteq {{a, b} : a \in System, b \in System}
      BY <3>1
    <3>5. \A p \in System : {p, p} \notin down
      BY <3>1
    <3> QED
      BY <3>2, <3>3, <3>4, <3>5
  <2> QED
    <3>1. \A p \in System : p \notin WaitsFor(p) /\ (~HasEvent(p) => WaitsFor(p) = {})
      BY <1>1 DEF WaitsFor
    <3>2. \A p \in System : Connected(p, p)
      BY <1>1 DEF Connected
    <3> QED
      BY <2>2, <2>3, <2>4, <2>5, <2>6, <3>1, <3>2 DEF TypeOK
<1>3. StatusFollowsList(eventStatus, systemList) /\ ListWasTold(eventStatus, systemList)
  BY <1>1 DEF StatusFollowsList, ListWasTold, NoEvent
<1>4. Settling(eventStatus, systemList, net, down, forgot)
  <2>1. ASSUME NEW p \in System, NEW q \in System
        PROVE  /\ EndArrivesLast(systemList, net, down, p, q)
               /\ q \notin DOMAIN systemList[p]
               /\ HasToldNothing(systemList, net, p, q)
    BY <1>1 DEF EndArrivesLast, HasToldNothing, Holds
  <2> QED
    BY <2>1 DEF Settling
<1>5. NothingTakenBack(eventStatus, systemList, net)
  BY <1>1 DEF NothingTakenBack, StillTrue, OnlyRises
<1> QED
  BY <1>2, <1>3, <1>4, <1>5 DEF ReadyInv

(* Every step keeps the invariant.                                         *)
LEMMA ReadyInvStep == ReadyInv /\ [Next]_vars => ReadyInv'
<1> SUFFICES ASSUME ReadyInv, [Next]_vars PROVE ReadyInv'
  OBVIOUS
<1>1. ASSUME NEW p \in System, User(p)
      PROVE  ReadyInv'
  <2>1. CASE \E b \in BOOLEAN : SetNewEvent(p, b)
    BY <2>1, SetNewEventKeeps
  <2>2. CASE \E b \in BOOLEAN : SetEvent(p, b)
    BY <2>2, SetEventKeeps
  <2>3. CASE ForceCompletion(p)
    BY <2>3, ForceCompletionKeeps
  <2>4. CASE DeleteEvent(p)
    BY <2>4, DeleteEventKeeps
  <2>5. CASE \E q \in Reachable(p) : AddToWaitList(p, {q})
    BY <2>5, AddToWaitListKeeps
  <2>6. CASE AddToWaitList(p, Reachable(p))
    <3>1. Reachable(p) \in SUBSET Reachable(p)
      OBVIOUS
    <3> QED
      BY <2>6, <3>1, AddToWaitListKeeps
  <2>7. CASE \E q \in WaitsFor(p) : RemoveFromWaitList(p, {q})
    BY <2>7, RemoveFromWaitListKeeps
  <2>8. CASE RemoveFromWaitList(p, WaitsFor(p))
    BY <2>8, RemoveFromWaitListKeeps
  <2>9. CASE OnRakPeerShutdown(p)
    BY <2>9, OnRakPeerShutdownKeeps
  <2> QED
    BY <1>1, <2>1, <2>2, <2>3, <2>4, <2>5, <2>6, <2>7, <2>8, <2>9 DEF User
<1>2. ASSUME NEW p \in System, NEW q \in System,
             Deliver(q, p) \/ LoseConnection(p, q) \/ Reconnect(p, q)
      PROVE  ReadyInv'
  BY <1>2, OnReadyEventPacketUpdateKeeps, OnReadyEventForceAllSetKeeps, OnReadyEventQueryKeeps,
     OnClosedConnectionKeeps, LoseConnectionKeeps, ReconnectKeeps DEF Deliver
<1>3. CASE UNCHANGED vars
  BY <1>3 DEF vars, ReadyInv, TypeOK, HasEvent, WaitsFor, Connected
<1> QED
  BY <1>1, <1>2, <1>3 DEF Next

-----------------------------------------------------------------------------
(* The theorems.                                                           *)

(* The inductive invariant holds in every state: what a system told is on  *)
(* its way, known or about to be asked for; and unless a user took         *)
(* something back, all that was told is still true.                        *)
THEOREM ReadyInvariant == Spec => []ReadyInv
<1> QED
  BY ReadyInvInit, ReadyInvStep, PTL DEF Spec

(* The variables keep their types; a system that has no event waits for    *)
(* nobody, and none waits for itself.                                      *)
THEOREM ReadyTypeCorrect == Spec => []TypeOK
<1>1. ReadyInv => TypeOK
  BY DEF ReadyInv
<1> QED
  BY ReadyInvariant, <1>1, PTL

(* The status two systems have of each other is right when nothing is on   *)
(* its way between them.                                                   *)
LEMMA InvSettles == ReadyInv => KnowledgeSettles
<1> SUFFICES ASSUME ReadyInv, NEW p \in System, NEW q \in System,
                    p \in WaitsFor(q), q \in WaitsFor(p),
                    Connected(p, q), net[p][q] = <<>>, net[q][p] = <<>>,
                    <<p, q>> \notin forgot
             PROVE  IF eventStatus[p] /= "FORCE_ALL_SET"
                    THEN systemList[q][p].lastReceivedStatus = eventStatus[p]
                    ELSE systemList[p][q].lastSentStatus = "FORCE_ALL_SET"
                         => eventStatus[q] = "FORCE_ALL_SET"
  BY DEF KnowledgeSettles
<1>1. KnowledgeOnItsWay(eventStatus, systemList, net, p, q)
  BY InvFacts, SettlingPair DEF WaitsFor, Connected
<1>2. ~LastStatusIs(net[p][q], systemList[p][q].lastSentStatus) /\ ~Holds(net[q][p], "QUERY")
  BY DEF LastStatusIs, Holds
<1>3. Knows(eventStatus[q], systemList[q][p].lastReceivedStatus, systemList[p][q].lastSentStatus)
  BY <1>1, <1>2 DEF KnowledgeOnItsWay, WaitsFor
<1>4. systemList[p][q].lastSentStatus = eventStatus[p] \/ eventStatus[p] = "FORCE_ALL_SET"
  BY DEF ReadyInv, ListWasTold, WaitsFor
<1> QED
  BY <1>3, <1>4 DEF Knows

(* It does so in every state.                                              *)
THEOREM KnowledgeSettlesAlways == Spec => []KnowledgeSettles
<1> QED
  BY ReadyInvariant, InvSettles, PTL

(* Completion is not claimed too early: as long as nobody takes anything   *)
(* back, everybody a system waits for is ready, and so is everybody those  *)
(* systems wait for.                                                       *)
THEOREM CompletedOnlyWhenAllReady == Spec => []CompletedMeansAllReady
<1>1. ReadyInv => CompletedMeansAllReady
  <2> SUFFICES ASSUME ReadyInv, NEW p \in System, ~undone, IsEventCompleted(p),
                      eventStatus[p] # "FORCE_ALL_SET", NEW q \in WaitsFor(p),
                      eventStatus[q] # "FORCE_ALL_SET"
               PROVE  eventStatus[q] = "ALL_SET" /\ \A r \in WaitsFor(q) : Ready(r)
    BY DEF CompletedMeansAllReady
  <2>1. NothingTakenBack(eventStatus, systemList, net)
    BY DEF ReadyInv
  <2>2. q \in System /\ q \in DOMAIN systemList[p]
    BY InvFacts, ListFacts DEF WaitsFor
  <2>3. systemList[p][q].lastReceivedStatus = "ALL_SET"
    BY DEF IsEventCompleted
  <2>4. StillTrue(eventStatus, systemList, net, q, p)
    BY <2>1, <2>2 DEF NothingTakenBack
  <2>5. eventStatus[q] = "ALL_SET"
    BY <2>2, <2>3, <2>4 DEF StillTrue, Bears
  <2>6. ASSUME NEW r \in WaitsFor(q)
        PROVE  Ready(r)
    <3>1. r \in System /\ r \in DOMAIN systemList[q]
          /\ systemList[q][r].lastReceivedStatus \in Reported
      BY <2>2, InvFacts, ListFacts DEF WaitsFor
    <3>2. systemList[q][r].lastReceivedStatus # "UNSET"
      BY <2>2, <2>5, <3>1 DEF ReadyInv, StatusFollowsList
    <3>3. StillTrue(eventStatus, systemList, net, r, q)
      BY <2>1, <2>2, <3>1 DEF NothingTakenBack
    <3>4. Bears(eventStatus[r], systemList[q][r].lastReceivedStatus)
      BY <3>1, <3>3 DEF StillTrue
    <3> QED
      BY <3>1, <3>2, <3>4 DEF Bears, Ready, Reported
  <2> QED
    BY <2>5, <2>6
<1> QED
  BY ReadyInvariant, <1>1, PTL

(* Nor too late: at rest, the event of a mesh of ready systems is          *)
(* completed on all of them.                                               *)
THEOREM CompletedAtRest == Spec => []CompleteAtRest
<1>1. ReadyInv => CompleteAtRest
  <2> SUFFICES ASSUME ReadyInv, \A p, q \in System : net[p][q] = <<>>,
                      NEW group \in SUBSET System, Cardinality(group) > 1, MeshReady(group),
                      NEW p \in group
               PROVE  IsEventCompleted(p)
    BY DEF CompleteAtRest
  <2>1. \A x \in group : /\ x \in System
                         /\ eventStatus[x] \in {"SET", "ALL_SET"}
                         /\ WaitsFor(x) = group \ {x}
                         /\ \A y \in WaitsFor(x) : Connected(x, y) /\ <<x, y>> \notin forgot
    BY DEF MeshReady
  <2>2. ASSUME NEW x \in group, NEW y \in WaitsFor(x)
        PROVE  y \in group /\ systemList[x][y].lastReceivedStatus = eventStatus[y]
    <3>1. y \in group /\ x \in WaitsFor(y) /\ x \in System /\ y \in System
      BY <2>1, <2>2
    <3>2. Connected(y, x) /\ <<y, x>> \notin forgot /\ eventStatus[y] # "FORCE_ALL_SET"
      BY <2>1, <3>1
    <3>3. net[x][y] = <<>> /\ net[y][x] = <<>>
      BY <3>1
    <3>4. KnowledgeSettles
      BY InvSettles
    <3> QED
      BY <2>2, <3>1, <3>2, <3>3, <3>4 DEF KnowledgeSettles
  <2>3. ASSUME NEW x \in group
        PROVE  eventStatus[x] = "ALL_SET"
    <3>1. WaitsFor(x) # {}
      <4>1. ASSUME WaitsFor(x) = {}
            PROVE  FALSE
        <5>1. group = {x}
          BY <2>1, <4>1
        <5>2. Cardinality({x}) = 1
          BY FS_Singleton
        <5> QED
          BY <5>1, <5>2
      <4> QED
        BY <4>1
    <3>2. \A y \in WaitsFor(x) : systemList[x][y].lastReceivedStatus # "UNSET"
      BY <2>1, <2>2
    <3>3. StatusFollowsList(eventStatus, systemList)
      BY DEF ReadyInv
    <3>4. eventStatus[x] # "SET"
      BY <2>1, <3>1, <3>2, <3>3 DEF StatusFollowsList, WaitsFor
    <3> QED
      BY <2>1, <3>4
  <2> QED
    BY <2>2, <2>3 DEF IsEventCompleted
<1> QED
  BY ReadyInvariant, <1>1, PTL

(* UpdateReadyStatus of x does not undo completion, if the list it sees    *)
(* does not.                                                               *)
LEMMA UpdateStaysCompleted ==
    ASSUME TypeOK, NEW x \in System, NEW status \in Status, NEW list \in SystemList,
           NEW network \in [System -> [System -> Seq(Message)]],
           NEW queues \in [System -> Seq(Message)],
           Update(x, status, list, network, queues),
           NEW p \in System, IsEventCompleted(p),
           \/ p # x
           \/ status = "FORCE_ALL_SET"
           \/ status = "ALL_SET" /\ \A q \in DOMAIN list : list[q].lastReceivedStatus = "ALL_SET"
    PROVE  IsEventCompleted(p)'
<1>1. PICK new : new = UpdatedStatus(status, list)
  OBVIOUS
<1>2. HasUpdated(x, new, list, network, queues)
  BY <1>1, UpdateFacts
<1>3. CASE p # x
  <2>1. eventStatus'[p] = eventStatus[p] /\ systemList'[p] = systemList[p]
    BY <1>2, <1>3 DEF HasUpdated
  <2> QED
    BY <2>1 DEF IsEventCompleted, WaitsFor
<1>4. CASE p = x /\ status = "FORCE_ALL_SET"
  <2>1. new = "FORCE_ALL_SET"
    BY <1>1, <1>4, UpdatedStatusFacts
  <2> QED
    BY <1>2, <1>4, <2>1 DEF HasUpdated, IsEventCompleted
<1>5. CASE /\ p = x /\ status = "ALL_SET"
           /\ \A q \in DOMAIN list : list[q].lastReceivedStatus = "ALL_SET"
  <2>1. new = "ALL_SET"
    BY <1>1, <1>5, UpdatedStatusFacts
  <2> QED
    BY <1>2, <1>5, <2>1 DEF HasUpdated, IsEventCompleted, WaitsFor
<1> QED
  BY <1>3, <1>4, <1>5

(* Completion is final: no message on its way, no query, no lost           *)
(* connection undoes it.                                                   *)
THEOREM CompletionStaysFinal == Spec => CompletionIsFinal
<1>1. ASSUME ReadyInv, [Next]_vars, NEW p \in System, IsEventCompleted(p), ~undone'
      PROVE  IsEventCompleted(p)'
  <2>1. /\ TypeOK
        /\ net \in [System -> [System -> Seq(Message)]]
        /\ \A x \in System : systemList[x] \in SystemList /\ net[x] \in [System -> Seq(Message)]
        /\ \A x \in System : eventStatus[x] # NoEvent => eventStatus[x] \in Status
        /\ \A x \in System : eventStatus[x] = NoEvent => DOMAIN systemList[x] = {}
    BY <1>1, InvFacts DEF ReadyInv, Typed
  <2>2. /\ "SET" \in Status /\ "UNSET" \in Status /\ "FORCE_ALL_SET" \in Status
        /\ "ALL_SET" \in Status
    BY DEF Status, Reported
  <2>3. /\ eventStatus[p] = "FORCE_ALL_SET" \/ eventStatus[p] = "ALL_SET"
        /\ eventStatus[p] = "ALL_SET"
           => \A q \in DOMAIN systemList[p] : systemList[p][q].lastReceivedStatus = "ALL_SET"
    BY <1>1 DEF IsEventCompleted, WaitsFor
  <2>4. ASSUME eventStatus'[p] = eventStatus[p], systemList'[p] = systemList[p]
        PROVE  IsEventCompleted(p)'
    BY <1>1, <2>4 DEF IsEventCompleted, WaitsFor
  <2>5. ASSUME NEW x \in System, NEW b \in BOOLEAN, SetNewEvent(x, b)
        PROVE  IsEventCompleted(p)'
    <3>1. x # p
      BY <2>3, <2>5 DEF SetNewEvent, HasEvent, NoEvent
    <3> QED
      BY <2>1, <2>4, <2>5, <3>1 DEF SetNewEvent, TypeOK
  <2>6. ASSUME NEW x \in System, NEW b \in BOOLEAN, SetEvent(x, b)
        PROVE  IsEventCompleted(p)'
    <3>1. b /\ eventStatus[x] = "UNSET" /\ Update(x, "SET", systemList[x], net, net[x])
      BY <1>1, <2>6 DEF SetEvent, Undo
    <3>2. p # x
      BY <2>3, <3>1
    <3> QED
      BY <1>1, <2>1, <2>2, <3>1, <3>2, UpdateStaysCompleted
  <2>7. ASSUME NEW x \in System, ForceCompletion(x)
        PROVE  IsEventCompleted(p)'
    BY <1>1, <2>1, <2>2, <2>7, UpdateStaysCompleted DEF ForceCompletion
  <2>8. ASSUME NEW x \in System, DeleteEvent(x)
        PROVE  FALSE
    BY <1>1, <2>8 DEF DeleteEvent, Undo
  <2>9. ASSUME NEW x \in System, NEW others, RemoveFromWaitList(x, others)
        PROVE  FALSE
    BY <1>1, <2>9 DEF RemoveFromWaitList, Undo
  <2>10. ASSUME NEW x \in System, OnRakPeerShutdown(x)
         PROVE  FALSE
    BY <1>1, <2>10 DEF OnRakPeerShutdown
  <2>11. ASSUME NEW x \in System, NEW others \in SUBSET Reachable(x), AddToWaitList(x, others)
         PROVE  IsEventCompleted(p)'
    <3> DEFINE status == IF HasEvent(x) THEN eventStatus[x] ELSE "UNSET"
               added  == others \ WaitsFor(x)
               list   == [q \in WaitsFor(x) \cup added |->
                            IF q \in added
                            THEN [lastSentStatus |-> "UNSET", lastReceivedStatus |-> "UNSET"]
                            ELSE systemList[x][q]]
               out    == Posted(net[x], x, added, "QUERY")
    <3>1. Update(x, status, list, net, out) /\ undone' = (undone \/ status = "ALL_SET")
      BY <2>11 DEF AddToWaitList
    <3>2. status \in Status
      BY <2>1, <2>2 DEF HasEvent
    <3>3. status # "ALL_SET"
      BY <1>1, <3>1
    <3>4. \/ p # x
          \/ status = "FORCE_ALL_SET"
      BY <2>3, <3>3 DEF HasEvent, NoEvent
    <3>5. list \in SystemList
      <4>1. others \subseteq System
        BY <2>11 DEF Reachable
      <4>2. [lastSentStatus |-> "UNSET", lastReceivedStatus |-> "UNSET"] \in RemoteSystem
        BY DEF RemoteSystem, Status, Reported
      <4>3. WaitsFor(x) \subseteq System /\ \A q \in WaitsFor(x) : systemList[x][q] \in RemoteSystem
        BY <2>1, ListFacts DEF WaitsFor
      <4>4. list \in [WaitsFor(x) \cup added -> RemoteSystem]
        BY <4>2, <4>3
      <4>5. WaitsFor(x) \cup added \in SUBSET System
        BY <4>1, <4>3
      <4> QED
        BY <4>4, <4>5 DEF SystemList
    <3>6. out \in [System -> Seq(Message)]
      <4>1. \A q \in System : net[x][q] \in Seq(Message) /\ Append(net[x][q], "QUERY") \in Seq(Message)
        BY <2>1 DEF Message
      <4> QED
        BY <4>1 DEF Posted
    <3> HIDE DEF status, added, list, out
    <3> QED
      BY <1>1, <2>1, <3>1, <3>2, <3>4, <3>5, <3>6, UpdateStaysCompleted
  <2>12. ASSUME NEW x \in System, NEW q \in System, OnReadyEventPacketUpdate(q, x)
         PROVE  IsEventCompleted(p)'
    <3> DEFINE status == Head(net[q][x])
               list   == [systemList[x] EXCEPT ![q].lastReceivedStatus = status]
    <3>1. /\ net[q][x] # <<>> /\ status \in Reported
          /\ IF q \notin DOMAIN systemList[x] \/ systemList[x][q].lastReceivedStatus = status
             THEN Ignored(q, x)
             ELSE IF eventStatus[x] = "FORCE_ALL_SET"
             THEN /\ systemList' = [systemList EXCEPT ![x] = list]
                  /\ net' = Rest(q, x)
                  /\ UNCHANGED eventStatus
             ELSE Update(x, eventStatus[x], list, Rest(q, x), net[x])
          /\ undone' = undone
      BY <2>12 DEF OnReadyEventPacketUpdate, Arrives, Keep, WaitsFor
    <3>2. CASE q \notin DOMAIN systemList[x] \/ systemList[x][q].lastReceivedStatus = status
      BY <2>4, <3>1, <3>2 DEF Ignored
    <3>3. CASE /\ q \in DOMAIN systemList[x] /\ systemList[x][q].lastReceivedStatus # status
               /\ eventStatus[x] = "FORCE_ALL_SET"
      <4>1. /\ systemList' = [systemList EXCEPT ![x] = list]
            /\ eventStatus' = eventStatus
        BY <3>1, <3>3
      <4>2. CASE p = x
        BY <3>3, <4>1, <4>2 DEF IsEventCompleted
      <4>3. CASE p # x
        <5>1. systemList'[p] = systemList[p]
          BY <2>1, <4>1, <4>3 DEF TypeOK
        <5> QED
          BY <2>4, <4>1, <5>1
      <4> QED
        BY <4>2, <4>3
    <3>4. CASE /\ q \in DOMAIN systemList[x] /\ systemList[x][q].lastReceivedStatus # status
               /\ eventStatus[x] # "FORCE_ALL_SET"
      <4>1. Update(x, eventStatus[x], list, Rest(q, x), net[x])
        BY <3>1, <3>4
      <4>2. p # x
        <5>1. ASSUME p = x
              PROVE  FALSE
          <6>1. systemList[x][q].lastReceivedStatus = "ALL_SET"
            BY <2>3, <3>4, <5>1
          <6>2. NothingTakenBack(eventStatus, systemList, net)
            BY <1>1, <3>1 DEF ReadyInv
          <6>3. StillTrue(eventStatus, systemList, net, q, x)
            BY <6>2 DEF NothingTakenBack
          <6>4. net[q][x] \in Seq(Message) /\ OnlyRises(eventStatus[q], net[q][x])
            BY <2>1, <6>3 DEF StillTrue
          <6>5. ~Holds(net[q][x], "SET")
            BY <3>4, <6>1, <6>3 DEF StillTrue
          <6>6. status # "SET"
            BY <3>1, <6>4, <6>5, TailFacts
          <6>7. status # "UNSET"
            BY <3>1, <6>4, OnlyRisesFacts
          <6> QED
            BY <3>1, <3>4, <6>1, <6>6, <6>7 DEF Reported
        <5> QED
          BY <5>1
      <4>3. list \in SystemList
        <5>1. /\ systemList[x] \in [DOMAIN systemList[x] -> RemoteSystem]
              /\ DOMAIN systemList[x] \subseteq System
          BY <2>1, ListFacts
        <5>2. [systemList[x][q] EXCEPT !.lastReceivedStatus = status] \in RemoteSystem
          BY <3>1, <3>4, <5>1 DEF RemoteSystem
        <5>3. list \in [DOMAIN systemList[x] -> RemoteSystem]
          BY <3>4, <5>1, <5>2
        <5> QED
          BY <5>1, <5>3 DEF SystemList
      <4>4. eventStatus[x] \in Status
        BY <2>1, <3>4
      <4>5. Rest(q, x) \in [System -> [System -> Seq(Message)]]
        BY <1>1, <3>1, RestFacts
      <4> HIDE DEF list
      <4> QED
        BY <1>1, <2>1, <4>1, <4>2, <4>3, <4>4, <4>5, UpdateStaysCompleted
    <3> QED
      BY <3>2, <3>3, <3>4
  <2>13. ASSUME NEW x \in System, NEW q \in System, OnReadyEventForceAllSet(q, x)
         PROVE  IsEventCompleted(p)'
    <3>1. /\ eventStatus' = [eventStatus EXCEPT ![x] = IF HasEvent(x) THEN "FORCE_ALL_SET" ELSE @]
          /\ systemList' = systemList
      BY <2>13 DEF OnReadyEventForceAllSet
    <3>2. CASE p # x
      BY <2>1, <2>4, <3>1, <3>2 DEF TypeOK
    <3>3. CASE p = x
      <4>1. HasEvent(x)
        BY <2>3, <3>3 DEF HasEvent, NoEvent
      <4>2. eventStatus'[p] = "FORCE_ALL_SET"
        BY <2>1, <3>1, <3>3, <4>1 DEF TypeOK
      <4> QED
        BY <4>2 DEF IsEventCompleted
    <3> QED
      BY <3>2, <3>3
  <2>14. ASSUME NEW x \in System, NEW q \in System, OnReadyEventQuery(q, x)
         PROVE  IsEventCompleted(p)'
    <3>1. CASE Ignored(q, x)
      BY <2>4, <3>1 DEF Ignored
    <3>2. CASE ~Ignored(q, x)
      <4>1. /\ q \in DOMAIN systemList[x]
            /\ systemList' = [systemList EXCEPT ![x][q].lastSentStatus = eventStatus[x]]
            /\ eventStatus' = eventStatus
        BY <2>14, <3>2 DEF OnReadyEventQuery, WaitsFor
      <4>2. \A y \in System : systemList[y] \in [DOMAIN systemList[y] -> RemoteSystem]
        BY <2>1, ListFacts
      <4>3. /\ DOMAIN systemList'[p] = DOMAIN systemList[p]
            /\ \A y \in DOMAIN systemList[p] :
                  systemList'[p][y].lastReceivedStatus = systemList[p][y].lastReceivedStatus
        <5>1. CASE p = x
          BY <2>1, <4>1, <4>2, <5>1 DEF TypeOK, RemoteSystem
        <5>2. CASE p # x
          BY <2>1, <4>1, <5>2 DEF TypeOK
        <5> QED
          BY <5>1, <5>2
      <4> QED
        BY <1>1, <4>1, <4>3 DEF IsEventCompleted, WaitsFor
    <3> QED
      BY <3>1, <3>2
  <2>15. ASSUME NEW x \in System, NEW q \in System, OnClosedConnection(q, x)
         PROVE  IsEventCompleted(p)'
    <3>1. CASE ~HasEvent(x)
      BY <2>4, <2>15, <3>1 DEF OnClosedConnection, Ignored
    <3>2. CASE HasEvent(x)
      <4> DEFINE kept == WaitsFor(x) \ {q}
                 list == Restrict(systemList[x], kept)
      <4>1. Update(x, eventStatus[x], list, Rest(q, x), net[x]) /\ net[q][x] # <<>>
        BY <2>15, <3>2 DEF OnClosedConnection, Arrives
      <4>2. /\ list \in SystemList /\ DOMAIN list = kept
            /\ \A y \in kept : list[y] = systemList[x][y]
        <5>1. kept \in SUBSET System /\ \A y \in kept : systemList[x][y] \in RemoteSystem
          BY <2>1, ListFacts DEF WaitsFor
        <5>2. list \in [kept -> RemoteSystem]
          BY <5>1 DEF Restrict
        <5> QED
          BY <5>1, <5>2 DEF SystemList, Restrict
      <4>3. eventStatus[x] \in Status
        BY <2>1, <3>2 DEF HasEvent
      <4>4. Rest(q, x) \in [System -> [System -> Seq(Message)]]
        BY <1>1, <4>1, RestFacts
      <4> HIDE DEF list
      <4>5. \/ p # x
            \/ eventStatus[x] = "FORCE_ALL_SET"
            \/ eventStatus[x] = "ALL_SET" /\ \A y \in DOMAIN list : list[y].lastReceivedStatus = "ALL_SET"
        BY <2>3, <4>2 DEF WaitsFor
      <4> QED
        BY <1>1, <2>1, <4>1, <4>2, <4>3, <4>4, <4>5, UpdateStaysCompleted
    <3> QED
      BY <3>1, <3>2
  <2>16. ASSUME NEW x \in System, NEW q \in System, LoseConnection(x, q) \/ Reconnect(x, q)
         PROVE  IsEventCompleted(p)'
    BY <2>4, <2>16 DEF LoseConnection, Reconnect
  <2>17. CASE UNCHANGED vars
    BY <2>4, <2>17 DEF vars
  <2>18. ASSUME NEW x \in System, User(x)
         PROVE  IsEventCompleted(p)'
    <3>1. CASE \E b \in BOOLEAN : SetNewEvent(x, b) \/ SetEvent(x, b)
      BY <2>5, <2>6, <3>1
    <3>2. CASE ForceCompletion(x)
      BY <2>7, <3>2
    <3>3. CASE \/ DeleteEvent(x) \/ OnRakPeerShutdown(x) \/ RemoveFromWaitList(x, WaitsFor(x))
               \/ \E q \in WaitsFor(x) : RemoveFromWaitList(x, {q})
      BY <2>8, <2>9, <2>10, <3>3
    <3>4. CASE \E q \in Reachable(x) : AddToWaitList(x, {q})
      BY <2>11, <3>4
    <3>5. CASE AddToWaitList(x, Reachable(x))
      <4>1. Reachable(x) \in SUBSET Reachable(x)
        OBVIOUS
      <4> QED
        BY <2>11, <3>5, <4>1
    <3> QED
      BY <2>18, <3>1, <3>2, <3>3, <3>4, <3>5 DEF User
  <2> QED
    BY <1>1, <2>12, <2>13, <2>14, <2>15, <2>16, <2>17, <2>18 DEF Next, Deliver
<1>2. ReadyInv /\ [Next]_vars
      => [\A p \in System : IsEventCompleted(p) /\ ~undone' => IsEventCompleted(p)']_vars
  BY <1>1
<1> QED
  BY ReadyInvariant, <1>2, PTL DEF Spec, CompletionIsFinal

=============================================================================
