----------------------- MODULE ReliableDeliveryProofs -----------------------
(***************************************************************************)
(* Proofs about the sender and the receiver of reliable messages: for      *)
(* every range of numbers, resend buffer, history and network, no message  *)
(* is lost, the list and the array of the resend buffer agree, the history *)
(* describes the datagrams, and the receiver's window is the one           *)
(* ReceiveWindow specifies.                                                *)
(***************************************************************************)
EXTENDS ReliableDelivery, RangesProofs

(* The receiver's window with what is proved about it.                     *)
W == INSTANCE ReceiveWindowProofs WITH
        base <- BaseMessage,
        wire <- [i \in 1 .. sentCount |-> NumberOf(i - 1)]

-----------------------------------------------------------------------------
(* The inductive invariant.                                                *)

(* A message has the number that belongs to its id.                        *)
IsNumbered(m) == m.id \in 0 .. sentCount - 1 /\ m.num = NumberOf(m.id)

(* Every slot that is taken holds a numbered message whose slot it is, and *)
(* none that is more than ResendLen messages old.                          *)
BufferHolds ==
    \A s \in 0 .. ResendLen - 1 :
        resendBuffer[s] # Empty =>
            /\ IsNumbered(resendBuffer[s])
            /\ Slot(resendBuffer[s].num) = s
            /\ resendBuffer[s].id + ResendLen >= sentCount

IsFresh(m) == IsNumbered(m) /\ m.id + MaxAge >= sentCount

(* The age of a datagram number: how many datagrams back it was given.     *)
Age(d) == Minus(nextDatagramSequenceNumber, d)

(* What travels, and what is being parsed, was sent, and not long ago.     *)
NetworkCarries ==
    \A p \in Datagrams :
        /\ Age(p.num) \in 1 .. HalfRange
        /\ \A i \in DOMAIN p.messages : IsFresh(p.messages[i])

ParsingCarries == \A i \in DOMAIN parsing : IsFresh(parsing[i])

(* The datagram numbers the receiver has acknowledged, or will.            *)
AckPackets == {p \in net : p.type = "ack"}

Acked == Members(acknowlegements) \cup UNION {Members(p.ranges) : p \in AckPackets}

AcksAreRecent == \A d \in Acked : Age(d) \in 1 .. HalfRange

(* What the receiver has of messages: handed over or about to be.          *)
Have == Delivered \cup {parsing[i].id : i \in DOMAIN parsing}

HistoryNumber(i) == Plus(datagramHistoryPopCount, i - 1)

(* The message an entry of the history names is the one with this number   *)
(* among those sent since; if its datagram was acknowledged, the receiver  *)
(* has it.                                                                 *)
EntryNames(i, num, id) ==
    /\ id \in 0 .. sentCount - 1
    /\ num = NumberOf(id)
    /\ id + ResendLen * (Len(datagramHistory) - i + 1) >= sentCount
    /\ HistoryNumber(i) \in Acked => id \in Have

HistoryMeans ==
    \A i \in DOMAIN datagramHistory : \A num \in datagramHistory[i] :
        \E id \in Nat : EntryNames(i, num, id)

HistoryFits ==
    /\ Len(datagramHistory) <= HistoryLen + 1
    /\ Minus(nextDatagramSequenceNumber, datagramHistoryPopCount) = Len(datagramHistory)

EntriesDescribe ==
    \A i \in DOMAIN datagramHistory : \A p \in Datagrams :
        p.num = HistoryNumber(i) =>
            datagramHistory[i] = {} \/ datagramHistory[i] = Numbers(p.messages)

(* The lists of answers are ascending, in the network too.                 *)
AnswersAscend ==
    IsDeserialized(acknowlegements) /\ IsDeserialized(NAKs)

DeliveryInv ==
    /\ TypeOK
    /\ BufferHolds
    /\ ListMatchesBuffer
    /\ NetworkCarries
    /\ ParsingCarries
    /\ AcksAreRecent
    /\ HistoryFits
    /\ HistoryMeans
    /\ EntriesDescribe
    /\ AnswersAscend
    /\ NoLostMessage
    /\ W!WindowInv

-----------------------------------------------------------------------------
(* Arithmetic.                                                             *)

(* The half of the range, and that the range is twice as large.            *)
LEMMA Halves ==
    /\ HalfRange \in Nat
    /\ NumRange = 2 * HalfRange + 2
    /\ NumRange \in Nat
BY NumRangeAssumption, SMT DEF HalfRange, MaxNumber

(* A quotient is determined by its remainder being one.                    *)
LEMMA RemainderUnique ==
    ASSUME NEW r \in Nat \ {0}, NEW d \in Int, NEW e \in Int,
           NEW m \in 0 .. r - 1, NEW n \in 0 .. r - 1, r * d + m = r * e + n
    PROVE  d = e /\ m = n
<1>1. r * (d - e) = n - m
  BY SMT
<1>2. n - m < r /\ n - m > -r
  BY SMT
<1>3. CASE d - e >= 1
  <2>1. r * (d - e) >= r
    BY <1>3, SMT
  <2> QED
    BY <1>1, <1>2, <2>1, SMT
<1>4. CASE d - e <= -1
  <2>1. r * (d - e) <= -r
    BY <1>4, SMT
  <2> QED
    BY <1>1, <1>2, <2>1, SMT
<1>5. CASE d = e
  BY <1>1, <1>5, SMT
<1> QED
  BY <1>3, <1>4, <1>5, SMT

(* Division with remainder.                                                *)
LEMMA DivMod ==
    ASSUME NEW x \in Int, NEW r \in Nat \ {0}
    PROVE  /\ x \div r \in Int /\ x % r \in 0 .. r - 1
           /\ x = r * (x \div r) + (x % r)
BY SMT

(* A multiple of r does not change a remainder by r.                       *)
LEMMA RemainderOf ==
    ASSUME NEW r \in Nat \ {0}, NEW d \in Int, NEW m \in 0 .. r - 1, NEW x \in Int,
           x = r * d + m
    PROVE  x % r = m
<1>1. /\ x \div r \in Int /\ x % r \in 0 .. r - 1
      /\ x = r * (x \div r) + (x % r)
  BY DivMod
<1> DEFINE e == x \div r
           n == x % r
<1>2. e \in Int /\ n \in 0 .. r - 1 /\ x = r * e + n
  BY <1>1
<1> HIDE DEF e, n
<1>3. r * d + m = r * e + n
  BY <1>2
<1>4. m = n
  BY <1>2, <1>3, RemainderUnique
<1> QED
  BY <1>4 DEF n

(* Two numbers with the same remainder are equal or at least r apart, and  *)
(* differ by a multiple of r.                                              *)
LEMMA SameRemainder ==
    ASSUME NEW r \in Nat \ {0}, NEW x \in Int, NEW y \in Int, x % r = y % r,
           x - y < r, y - x < r
    PROVE  x = y
<1>a. x \div r \in Int /\ x % r \in 0 .. r - 1 /\ x = r * (x \div r) + (x % r)
  BY DivMod
<1>b. y \div r \in Int /\ y % r \in 0 .. r - 1 /\ y = r * (y \div r) + (y % r)
  BY DivMod
<1> DEFINE d == x \div r
           m == x % r
           e == y \div r
           n == y % r
<1>1. d \in Int /\ m \in 0 .. r - 1 /\ x = r * d + m /\ m = n
  BY <1>a
<1>0. e \in Int /\ n \in 0 .. r - 1 /\ y = r * e + n
  BY <1>b
<1> HIDE DEF d, m, e, n
<1>c. d \in Int /\ e \in Int
  BY <1>0, <1>1
<1>2. x - y = r * (d - e)
  BY <1>0, <1>1, SMT
<1>3. CASE d - e >= 1
  <2>1. r * (d - e) >= r
    BY <1>c, <1>3, SMT
  <2> QED
    BY <1>2, <2>1, SMT
<1>4. CASE d - e <= -1
  <2>1. r * (d - e) <= -r
    BY <1>c, <1>4, SMT
  <2> QED
    BY <1>2, <2>1, SMT
<1>5. CASE d = e
  BY <1>0, <1>1, <1>5, SMT
<1> QED
  BY <1>c, <1>3, <1>4, <1>5, SMT

(* A remainder by r is not changed by a remainder by a multiple of r.      *)
LEMMA RemainderTwice ==
    ASSUME NEW r \in Nat \ {0}, NEW n \in Nat \ {0}, n % r = 0, NEW x \in Int
    PROVE  (x % n) % r = x % r
<1>1. PICK q \in Int : n = r * q
  BY DivMod
<1>2. PICK d \in Int, m \in 0 .. n - 1 : x = n * d + m /\ m = x % n
  BY DivMod
<1>3. PICK e \in Int, k \in 0 .. r - 1 : m = r * e + k /\ k = m % r
  <2>1. m \in Int
    OBVIOUS
  <2>2. m \div r \in Int /\ m % r \in 0 .. r - 1 /\ m = r * (m \div r) + (m % r)
    BY <2>1, DivMod
  <2> QED
    BY <2>2
<1>4. x = r * (q * d + e) + k
  <2>1. n * d = r * (q * d)
    BY <1>1, SMT
  <2>2. q * d \in Int
    BY SMT
  <2> HIDE <1>1
  <2>3. \A t \in Int : r * (t + e) = r * t + r * e
    BY SMT
  <2>4. r * (q * d + e) = r * (q * d) + r * e
    BY <2>2, <2>3
  <2>5. x = r * (q * d) + m
    BY <1>2, <2>1
  <2>6. \A t \in Int : r * t \in Int
    BY SMT
  <2>7. r * (q * d) \in Int /\ r * e \in Int
    BY <2>2, <2>6
  <2> DEFINE u == r * (q * d)
             v == r * e
             w == r * (q * d + e)
  <2>8. u \in Int /\ v \in Int /\ w = u + v /\ x = u + m /\ m = v + k
    BY <1>3, <2>4, <2>5, <2>7, Zenon
  <2> HIDE DEF u, v, w
  <2>9. x = w + k
    BY <2>8
  <2> QED
    BY <2>9 DEF w
<1>5. q * d + e \in Int
  BY SMT
<1>6. x % r = k
  BY <1>4, <1>5, RemainderOf
<1> QED
  BY <1>2, <1>3, <1>6

-----------------------------------------------------------------------------
(* Message numbers and slots.                                              *)

(* The number of message id, when c messages were sent and the next one    *)
(* gets s.                                                                 *)
Num(s, c, id) == (s - (c - id)) % NumRange

(* It is a number.                                                         *)
LEMMA NumIsNumber ==
    ASSUME NEW s \in Number, NEW c \in Nat, NEW id \in Nat
    PROVE  Num(s, c, id) \in Number
<1>1. s - (c - id) \in Int /\ NumRange \in Nat \ {0}
  BY NumRangeAssumption DEF Number
<1> QED
  BY <1>1, DivMod DEF Num, Number

(* Two messages that have the same number are NumRange messages apart.     *)
LEMMA NumDiffers ==
    ASSUME NEW s \in Number, NEW c \in Nat, NEW a \in Nat, NEW b \in Nat,
           a - b < NumRange, b - a < NumRange, Num(s, c, a) = Num(s, c, b)
    PROVE  a = b
<1>1. /\ s - (c - a) \in Int /\ s - (c - b) \in Int /\ NumRange \in Nat \ {0}
      /\ (s - (c - a)) - (s - (c - b)) < NumRange
      /\ (s - (c - b)) - (s - (c - a)) < NumRange
  BY NumRangeAssumption DEF Number
<1>2. s - (c - a) = s - (c - b)
  BY <1>1, SameRemainder DEF Num
<1> QED
  BY <1>2 DEF Number

(* The number of a message does not change when n more are numbered.       *)
LEMMA NumStays ==
    ASSUME NEW s \in Number, NEW c \in Nat, NEW id \in Nat, NEW n \in 0 .. NumRange - 1
    PROVE  Num(Plus(s, n), c + n, id) = Num(s, c, id)
<1> DEFINE x == s - (c - id)
           y == Plus(s, n) - ((c + n) - id)
<1>1. x \in Int /\ y \in Int /\ NumRange \in Nat \ {0}
  BY NumRangeAssumption DEF Number, Plus
<1>2. y = x \/ y = x - NumRange
  BY NumRangeAssumption DEF Number, Plus
<1> HIDE DEF x, y
<1>3. x \div NumRange \in Int /\ x % NumRange \in 0 .. NumRange - 1
      /\ x = NumRange * (x \div NumRange) + (x % NumRange)
  BY <1>1, DivMod
<1> DEFINE d == x \div NumRange
           m == x % NumRange
<1>4. d \in Int /\ m \in 0 .. NumRange - 1 /\ x = NumRange * d + m
  BY <1>3
<1> HIDE DEF d, m
<1>5. CASE y = x - NumRange
  <2>1. y = NumRange * (d - 1) + m
    BY <1>1, <1>4, <1>5, SMT
  <2>2. y % NumRange = m
    BY <1>1, <1>4, <2>1, RemainderOf
  <2> QED
    BY <2>2 DEF m, Num, x, y
<1>6. CASE y = x
  BY <1>6 DEF Num, x, y
<1> QED
  BY <1>2, <1>5, <1>6

(* The messages numbered next get the numbers from s on.                   *)
LEMMA NumOfNew ==
    ASSUME NEW s \in Number, NEW c \in Nat, NEW i \in 0 .. NumRange - 1
    PROVE  Num(s, c, c + i) = Plus(s, i)
<1> DEFINE x == s - (c - (c + i))
<1>1. x = s + i /\ NumRange \in Nat \ {0} /\ x \in Int
  BY NumRangeAssumption DEF Number
<1>2. Plus(s, i) \in 0 .. NumRange - 1
  BY NumRangeAssumption DEF Number, Plus
<1>3. x = NumRange * 0 + Plus(s, i) \/ x = NumRange * 1 + Plus(s, i)
  BY <1>1, NumRangeAssumption DEF Number, Plus
<1> HIDE DEF x
<1>4. x % NumRange = Plus(s, i)
  <2>1. PICK m \in 0 .. NumRange - 1 : m = Plus(s, i)
    BY <1>2
  <2>2. 0 \in Int /\ 1 \in Int
    OBVIOUS
  <2>3. PICK d \in Int : x = NumRange * d + m
    BY <1>3, <2>1, <2>2, Zenon
  <2>4. x % NumRange = m
    BY <1>1, <2>3, RemainderOf, ZenonT(60)
  <2> QED
    BY <2>1, <2>4
<1> QED
  BY <1>4 DEF Num, x

(* The slot of a message: ResendLen messages share one.                    *)
LEMMA SlotOfNum ==
    ASSUME NEW s \in Number, NEW c \in Nat, NEW id \in Nat
    PROVE  /\ Slot(Num(s, c, id)) \in 0 .. ResendLen - 1
           /\ Slot(Num(s, c, id)) = (s - (c - id)) % ResendLen
<1>1. /\ s - (c - id) \in Int /\ NumRange \in Nat \ {0} /\ NumRange % ResendLen = 0
      /\ ResendLen \in Nat \ {0}
  BY NumRangeAssumption, DeliveryAssumption DEF Number
<1>2. Slot(Num(s, c, id)) = (s - (c - id)) % ResendLen
  BY <1>1, RemainderTwice DEF Num, Slot
<1> QED
  BY <1>1, <1>2, DivMod

(* Messages less than ResendLen apart have different slots.                *)
LEMMA SlotDiffers ==
    ASSUME NEW s \in Number, NEW c \in Nat, NEW a \in Nat, NEW b \in Nat,
           a - b < ResendLen, b - a < ResendLen, Slot(Num(s, c, a)) = Slot(Num(s, c, b))
    PROVE  a = b
<1>1. /\ s - (c - a) \in Int /\ s - (c - b) \in Int /\ ResendLen \in Nat \ {0}
      /\ (s - (c - a)) - (s - (c - b)) < ResendLen
      /\ (s - (c - b)) - (s - (c - a)) < ResendLen
  BY DeliveryAssumption DEF Number
<1>2. (s - (c - a)) % ResendLen = (s - (c - b)) % ResendLen
  BY SlotOfNum
<1>3. s - (c - a) = s - (c - b)
  BY <1>1, <1>2, SameRemainder
<1> QED
  BY <1>3 DEF Number

(* Messages ResendLen apart have the same slot.                            *)
LEMMA SlotRecurs ==
    ASSUME NEW s \in Number, NEW c \in Nat, NEW id \in Nat
    PROVE  Slot(Num(s, c, id + ResendLen)) = Slot(Num(s, c, id))
<1> DEFINE x == s - (c - id)
           y == s - (c - (id + ResendLen))
<1>1. /\ x \in Int /\ y \in Int /\ ResendLen \in Nat \ {0} /\ id + ResendLen \in Nat
      /\ y = x + ResendLen
  BY DeliveryAssumption DEF Number
<1>2. Slot(Num(s, c, id)) = x % ResendLen /\ Slot(Num(s, c, id + ResendLen)) = y % ResendLen
  BY <1>1, SlotOfNum
<1> HIDE DEF x, y
<1>3. x \div ResendLen \in Int /\ x % ResendLen \in 0 .. ResendLen - 1
      /\ x = ResendLen * (x \div ResendLen) + (x % ResendLen)
  BY <1>1, DivMod
<1> DEFINE d == x \div ResendLen
           m == x % ResendLen
<1>4. d \in Int /\ m \in 0 .. ResendLen - 1 /\ x = ResendLen * d + m
  BY <1>3
<1> HIDE DEF d, m
<1>5. y = ResendLen * (d + 1) + m
  BY <1>1, <1>4, SMT
<1>6. y % ResendLen = m
  BY <1>1, <1>4, <1>5, RemainderOf
<1> QED
  BY <1>2, <1>6 DEF m

-----------------------------------------------------------------------------
(* Sequences defined by recursion.                                         *)

(* A step that is a function on S can be iterated any number of times.     *)
LEMMA Iteration ==
    ASSUME NEW S, NEW first \in S, NEW n \in Nat, NEW step \in [1 .. n -> [S -> S]]
    PROVE  \E f \in [0 .. n -> S] :
              f[0] = first /\ \A i \in 1 .. n : f[i] = step[i][f[i - 1]]
<1> DEFINE Is(f, m) == /\ f \in [0 .. m -> S]
                       /\ f[0] = first /\ \A i \in 1 .. m : f[i] = step[i][f[i - 1]]
           Bad == {m \in Nat : m <= n /\ ~\E f : Is(f, m)}
<1>1. SUFFICES ASSUME Bad # {} PROVE FALSE
  <2>1. n \notin Bad => \E f : Is(f, n)
    OBVIOUS
  <2> QED
    BY <2>1
<1>2. PICK m \in Bad : \A k \in Bad : m <= k
  BY <1>1, LeastOf
<1>3. CASE m = 0
  <2>1. Is([i \in 0 .. 0 |-> first], 0)
    OBVIOUS
  <2> QED
    BY <1>2, <1>3, <2>1
<1>4. CASE m # 0
  <2>1. m \in Nat /\ m <= n /\ m - 1 \in Nat /\ m - 1 <= n /\ ~(m <= m - 1)
    BY <1>4
  <2>2. PICK g : Is(g, m - 1)
    BY <1>2, <2>1
  <2> DEFINE f == [i \in 0 .. m |-> IF i = m THEN step[m][g[m - 1]] ELSE g[i]]
  <2>3. g[m - 1] \in S /\ step[m] \in [S -> S] /\ step[m][g[m - 1]] \in S
    <3>1. m - 1 \in 0 .. m - 1 /\ m \in 1 .. n
      BY <2>1
    <3> QED
      BY <2>2, <3>1
  <2>4. f \in [0 .. m -> S]
    BY <2>1, <2>2, <2>3
  <2>5. f[0] = first
    BY <1>4, <2>1, <2>2
  <2>6. ASSUME NEW i \in 1 .. m PROVE f[i] = step[i][f[i - 1]]
    <3>1. i - 1 \in 0 .. m /\ i - 1 # m /\ f[i - 1] = g[i - 1]
      BY <2>1
    <3>2. CASE i = m
      BY <2>1, <3>1, <3>2
    <3>3. CASE i # m
      <4>1. i \in 1 .. m - 1 /\ f[i] = g[i]
        BY <2>1, <3>3
      <4> QED
        BY <2>2, <3>1, <4>1
    <3> QED
      BY <3>2, <3>3
  <2>7. Is(f, m)
    BY <2>4, <2>5, <2>6
  <2> QED
    BY <1>2, <2>7
<1> QED
  BY <1>3, <1>4

(* A property of 0 that passes from each number to the next holds up to n. *)
LEMMA CountingUp ==
    ASSUME NEW n \in Nat, NEW P \in SUBSET Nat, 0 \in P,
           \A i \in 1 .. n : i - 1 \in P => i \in P
    PROVE  \A i \in 0 .. n : i \in P
<1> DEFINE Bad == {m \in Nat : m <= n /\ m \notin P}
<1>1. SUFFICES ASSUME Bad # {} PROVE FALSE
  OBVIOUS
<1>2. PICK m \in Bad : \A k \in Bad : m <= k
  BY <1>1, LeastOf
<1>3. m \in 1 .. n /\ m - 1 \in Nat /\ m - 1 <= n /\ ~(m <= m - 1)
  OBVIOUS
<1>4. m - 1 \in P
  BY <1>2, <1>3
<1> QED
  BY <1>2, <1>3, <1>4

(* A list without repetition.                                              *)
IsDistinct(list) == \A i, j \in DOMAIN list : list[i] = list[j] => i = j

(* What Without computes.                                                  *)
KeptBy(list, ids, f) ==
    f = [i \in 0 .. Len(list) |->
            IF i = 0 THEN <<>>
            ELSE IF list[i] \in ids THEN f[i - 1] ELSE Append(f[i - 1], list[i])]

(* The list without some ids has exactly the others, and repeats none if   *)
(* the list did not.                                                       *)
LEMMA WithoutDef ==
    ASSUME NEW S, NEW list \in Seq(S), NEW ids
    PROVE  /\ Without(list, ids) \in Seq(S)
           /\ ToSet(Without(list, ids)) = ToSet(list) \ ids
           /\ IsDistinct(list) => IsDistinct(Without(list, ids))
<1> DEFINE n == Len(list)
           step == [i \in 1 .. n |-> [l \in Seq(S) |->
                        IF list[i] \in ids THEN l ELSE Append(l, list[i])]]
<1>1. n \in Nat /\ DOMAIN list = 1 .. n /\ \A i \in 1 .. n : list[i] \in S
  OBVIOUS
<1>2. \E f : KeptBy(list, ids, f)
  <2>1. step \in [1 .. n -> [Seq(S) -> Seq(S)]]
    BY <1>1
  <2>2. <<>> \in Seq(S)
    OBVIOUS
  <2> HIDE DEF step
  <2>3. PICK f \in [0 .. n -> Seq(S)] :
              f[0] = <<>> /\ \A i \in 1 .. n : f[i] = step[i][f[i - 1]]
    <3> HIDE DEF n
    <3>1. PICK T : T = Seq(S)
      OBVIOUS
    <3>2. n \in Nat /\ <<>> \in T /\ step \in [1 .. n -> [T -> T]]
      BY <1>1, <2>1, <2>2, <3>1
    <3>3. \E f \in [0 .. n -> T] :
              f[0] = <<>> /\ \A i \in 1 .. n : f[i] = step[i][f[i - 1]]
      BY <3>2, Iteration
    <3> QED
      BY <3>1, <3>3
  <2>4. ASSUME NEW i \in 0 .. n
        PROVE  f[i] = IF i = 0 THEN <<>>
                      ELSE IF list[i] \in ids THEN f[i - 1] ELSE Append(f[i - 1], list[i])
    <3>1. CASE i = 0
      BY <2>3, <3>1
    <3>2. CASE i # 0
      <4>1. i \in 1 .. n /\ i - 1 \in 0 .. n /\ f[i - 1] \in Seq(S)
        BY <1>1, <3>2
      <4>2. f[i] = step[i][f[i - 1]]
        BY <2>3, <4>1
      <4>3. step[i][f[i - 1]] = IF list[i] \in ids THEN f[i - 1] ELSE Append(f[i - 1], list[i])
        BY <4>1 DEF step
      <4> QED
        BY <3>2, <4>2, <4>3
    <3> QED
      BY <3>1, <3>2
  <2>5. KeptBy(list, ids, f)
    BY <2>4 DEF KeptBy
  <2> QED
    BY <2>5
<1> DEFINE Kept == CHOOSE f : KeptBy(list, ids, f)
<1>3. KeptBy(list, ids, Kept)
  BY <1>2
<1>4. Without(list, ids) = Kept[n]
  BY DEF Without, KeptBy
<1> HIDE DEF Kept
<1> DEFINE P == {i \in Nat : i <= n =>
                   /\ Kept[i] \in Seq(S)
                   /\ \A x : x \in ToSet(Kept[i]) <=> x \notin ids /\ \E j \in 1 .. i : list[j] = x
                   /\ IsDistinct(list) => IsDistinct(Kept[i])}
<1>5. 0 \in P
  <2>1. Kept[0] = <<>>
    BY <1>1, <1>3 DEF KeptBy
  <2>2. DOMAIN Kept[0] = {} /\ Kept[0] \in Seq(S)
    BY <2>1
  <2>3. \A x : x \notin ToSet(Kept[0])
    BY <2>2 DEF ToSet
  <2>4. IsDistinct(Kept[0])
    BY <2>2 DEF IsDistinct
  <2> QED
    BY <2>2, <2>3, <2>4
<1>6. ASSUME NEW i \in 1 .. n, i - 1 \in P
      PROVE  i \in P
  <2>1. /\ i \in Nat /\ i <= n /\ i - 1 \in Nat /\ i # 0 /\ i - 1 <= n
    BY <1>1
  <2>2. Kept[i] = IF list[i] \in ids THEN Kept[i - 1] ELSE Append(Kept[i - 1], list[i])
    <3>1. Kept = [j \in 0 .. n |->
            IF j = 0 THEN <<>>
            ELSE IF list[j] \in ids THEN Kept[j - 1] ELSE Append(Kept[j - 1], list[j])]
      BY <1>3 DEF KeptBy
    <3>2. i \in 0 .. n
      BY <1>1
    <3>3. Kept[i] = IF i = 0 THEN <<>>
            ELSE IF list[i] \in ids THEN Kept[i - 1] ELSE Append(Kept[i - 1], list[i])
      BY <3>1, <3>2, Zenon
    <3> QED
      BY <2>1, <3>3, Zenon
  <2> DEFINE l == Kept[i - 1]
             k == Len(l)
  <2>3. /\ l \in Seq(S)
        /\ \A x : x \in ToSet(l) <=> x \notin ids /\ \E j \in 1 .. i - 1 : list[j] = x
        /\ IsDistinct(list) => IsDistinct(l)
    BY <1>6, <2>1
  <2>4. \A x : (\E j \in 1 .. i : list[j] = x) <=> (\E j \in 1 .. i - 1 : list[j] = x) \/ x = list[i]
    BY <2>1
  <2>5. CASE list[i] \in ids
    BY <2>1, <2>2, <2>3, <2>4, <2>5
  <2>6. CASE list[i] \notin ids
    <3> DEFINE new == Append(l, list[i])
    <3>1. Kept[i] = new /\ list[i] \in S
      BY <1>1, <2>2, <2>6
    <3> HIDE DEF l
    <3>2. /\ new \in Seq(S) /\ k \in Nat /\ DOMAIN l = 1 .. k /\ DOMAIN new = 1 .. k + 1
          /\ \A j \in 1 .. k : new[j] = l[j]
          /\ new[k + 1] = list[i]
      BY <2>3, <3>1
    <3> HIDE DEF new, k
    <3>3. \A x : x \in ToSet(new) <=> x \in ToSet(l) \/ x = list[i]
      <4>1. \A x : x \in ToSet(new) <=> \E j \in 1 .. k + 1 : new[j] = x
        BY <3>2 DEF ToSet
      <4>2. \A x : x \in ToSet(l) <=> \E j \in 1 .. k : l[j] = x
        BY <3>2 DEF ToSet
      <4>3. \A x : (\E j \in 1 .. k + 1 : new[j] = x) <=> (\E j \in 1 .. k : l[j] = x) \/ x = list[i]
        BY <3>2
      <4> QED
        BY <4>1, <4>2, <4>3
    <3>4. \A x : x \in ToSet(new) <=> x \notin ids /\ \E j \in 1 .. i : list[j] = x
      BY <2>3, <2>4, <2>6, <3>3
    <3>5. ASSUME IsDistinct(list) PROVE IsDistinct(new)
      <4>1. list[i] \notin ToSet(l)
        <5>1. \A j \in 1 .. i - 1 : list[j] # list[i]
          BY <1>1, <2>1, <3>5 DEF IsDistinct
        <5> QED
          BY <2>3, <5>1
      <4>2. \A j \in 1 .. k : l[j] # list[i]
        BY <3>2, <4>1 DEF ToSet
      <4>3. \A a, b \in 1 .. k : l[a] = l[b] => a = b
        BY <2>3, <3>2, <3>5 DEF IsDistinct
      <4> QED
        BY <3>2, <4>2, <4>3 DEF IsDistinct
    <3> QED
      BY <2>1, <3>1, <3>2, <3>4, <3>5
  <2> QED
    BY <2>5, <2>6
<1>7. n \in P
  <2> HIDE DEF P
  <2>1. P \in SUBSET Nat
    BY DEF P
  <2>2. \A i \in 0 .. n : i \in P
    BY <1>1, <1>5, <1>6, <2>1, CountingUp
  <2> QED
    BY <1>1, <2>2
<1>8. ToSet(list) = {list[j] : j \in 1 .. n}
  BY <1>1 DEF ToSet
<1> QED
  BY <1>1, <1>4, <1>7, <1>8

(* What InsertSkipped computes.                                            *)
AfterSkips(list, num, count, f) ==
    f = [i \in 0 .. count |->
            IF i = 0 THEN list ELSE Inserted(f[i - 1], Minus(num, count - i + 1))]

AscendingLists == {list \in Seq(RangeNode) : IsDeserialized(list)}

(* Inserting one number keeps a list ascending and adds this number.       *)
LEMMA InsertedOne ==
    ASSUME NEW list \in AscendingLists, NEW num \in Number
    PROVE  /\ Inserted(list, num) \in AscendingLists
           /\ Members(Inserted(list, num)) = Members(list) \cup {num}
<1>1. list \in Seq(RangeNode) /\ IsDeserialized(list)
  BY DEF AscendingLists
<1>2. IsInsertion(list, num, Inserted(list, num))
  BY <1>1, InsertedIsInsertion
<1> QED
  BY <1>2 DEF IsInsertion, AscendingLists

(* Inserting the skipped numbers keeps a list ascending.                   *)
LEMMA InsertSkippedDef ==
    ASSUME NEW list \in AscendingLists, NEW num \in Number, NEW count \in 0 .. NumRange - 1
    PROVE  InsertSkipped(list, num, count) \in AscendingLists
<1> DEFINE step == [i \in 1 .. count |-> [l \in AscendingLists |->
                        Inserted(l, Minus(num, count - i + 1))]]
<1>1. \A i \in 1 .. count : Minus(num, count - i + 1) \in Number
  BY NumRangeAssumption DEF Minus, Number
<1>2. count \in Nat
  OBVIOUS
<1>3. \E f : AfterSkips(list, num, count, f)
  <2>1. step \in [1 .. count -> [AscendingLists -> AscendingLists]]
    BY <1>1, InsertedOne
  <2> HIDE DEF step
  <2>0. PICK T : T = AscendingLists
    OBVIOUS
  <2>2. PICK f \in [0 .. count -> AscendingLists] :
              f[0] = list /\ \A i \in 1 .. count : f[i] = step[i][f[i - 1]]
    <3>1. list \in T /\ step \in [1 .. count -> [T -> T]]
      BY <2>0, <2>1
    <3>2. \E f \in [0 .. count -> T] :
              f[0] = list /\ \A i \in 1 .. count : f[i] = step[i][f[i - 1]]
      BY <1>2, <3>1, Iteration
    <3> QED
      BY <2>0, <3>2
  <2>3. ASSUME NEW i \in 0 .. count
        PROVE  f[i] = IF i = 0 THEN list ELSE Inserted(f[i - 1], Minus(num, count - i + 1))
    <3>1. CASE i = 0
      BY <2>2, <3>1
    <3>2. CASE i # 0
      <4>1. i \in 1 .. count /\ i - 1 \in 0 .. count
        BY <1>2, <3>2
      <4>2. f[i - 1] \in AscendingLists /\ f[i] = step[i][f[i - 1]]
        BY <2>2, <4>1
      <4>3. step[i][f[i - 1]] = Inserted(f[i - 1], Minus(num, count - i + 1))
        BY <4>1, <4>2 DEF step
      <4> QED
        BY <3>2, <4>2, <4>3
    <3> QED
      BY <3>1, <3>2
  <2>4. AfterSkips(list, num, count, f)
    BY <2>2, <2>3 DEF AfterSkips
  <2> QED
    BY <2>4
<1> DEFINE After == CHOOSE f : AfterSkips(list, num, count, f)
<1>4. AfterSkips(list, num, count, After)
  BY <1>3
<1>5. InsertSkipped(list, num, count) = After[count]
  BY DEF InsertSkipped, AfterSkips
<1> HIDE DEF After
<1> DEFINE P == {i \in Nat : i <= count => After[i] \in AscendingLists}
<1>6. After = [i \in 0 .. count |->
            IF i = 0 THEN list ELSE Inserted(After[i - 1], Minus(num, count - i + 1))]
  BY <1>4 DEF AfterSkips
<1>7. 0 \in P
  BY <1>2, <1>6
<1>8. ASSUME NEW i \in 1 .. count, i - 1 \in P
      PROVE  i \in P
  <2>1. i \in 0 .. count /\ i # 0 /\ i - 1 \in Nat /\ i - 1 <= count /\ i \in Nat
    BY <1>2
  <2>2. After[i] = Inserted(After[i - 1], Minus(num, count - i + 1))
    BY <1>6, <2>1, Zenon
  <2>3. After[i - 1] \in AscendingLists
    BY <1>8, <2>1
  <2> QED
    BY <1>1, <2>1, <2>2, <2>3, InsertedOne
<1>9. count \in P
  <2> HIDE DEF P
  <2>1. P \in SUBSET Nat
    BY DEF P
  <2>2. \A i \in 0 .. count : i \in P
    BY <1>2, <1>7, <1>8, <2>1, CountingUp
  <2> QED
    BY <1>2, <2>2
<1> QED
  BY <1>2, <1>5, <1>9

-----------------------------------------------------------------------------
(* The lists of an update of the sender.                                   *)

(* Datagrams that are made of n messages: at least one.                    *)
AreMadeOf(datagrams, messages, n, S) ==
    /\ datagrams \in Seq(Seq(S))
    /\ Len(datagrams) \in 1 .. n
    /\ \A i \in 1 .. Len(datagrams) : \A j \in DOMAIN datagrams[i] :
          \E x \in DOMAIN messages : datagrams[i][j] = messages[x]

(* The datagrams an update cuts.                                           *)
LEMMA CutDef ==
    ASSUME NEW S, NEW messages \in Seq(S), NEW n \in Nat, n = Len(messages),
           NEW ends \in Ends(n)
    PROVE  AreMadeOf(Cut(messages, ends), messages, n, S)
<1>1. PICK d \in 1 .. n : /\ ends \in [1 .. d -> 1 .. n]
                          /\ ends[d] = n /\ \A i \in 1 .. d - 1 : ends[i] < ends[i + 1]
  BY DEF Ends
<1> DEFINE start(i) == IF i = 1 THEN 1 ELSE ends[i - 1] + 1
           cut == Cut(messages, ends)
<1>2. /\ cut = [i \in 1 .. d |-> SubSeq(messages, start(i), ends[i])]
  BY <1>1 DEF Cut
<1>3. ASSUME NEW i \in 1 .. d
      PROVE  /\ start(i) \in Nat \ {0} /\ ends[i] \in Nat /\ start(i) <= ends[i] /\ ends[i] <= n
             /\ SubSeq(messages, start(i), ends[i]) \in Seq(S)
             /\ \A j \in DOMAIN SubSeq(messages, start(i), ends[i]) :
                   \E x \in DOMAIN messages : SubSeq(messages, start(i), ends[i])[j] = messages[x]
  <2>1. /\ start(i) \in Nat \ {0} /\ ends[i] \in Nat /\ start(i) <= ends[i] /\ ends[i] <= n
    <3>1. CASE i = 1
      BY <1>1, <3>1
    <3>2. CASE i # 1
      <4>1. i - 1 \in 1 .. d - 1 /\ i - 1 \in 1 .. d /\ (i - 1) + 1 = i
        BY <3>2
      <4>2. ends[i - 1] < ends[i] /\ ends[i - 1] \in 1 .. n /\ ends[i] \in 1 .. n
        BY <1>1, <4>1
      <4> QED
        BY <3>2, <4>2
    <3> QED
      BY <3>1, <3>2
  <2> DEFINE a == start(i)
             b == ends[i]
  <2>2. a \in Nat \ {0} /\ b \in Nat /\ a <= b /\ b <= n
    BY <2>1
  <2> HIDE DEF a, b, start
  <2>3. /\ SubSeq(messages, a, b) \in Seq(S)
        /\ DOMAIN SubSeq(messages, a, b) = 1 .. b - a + 1
        /\ \A j \in 1 .. b - a + 1 : SubSeq(messages, a, b)[j] = messages[a + j - 1]
    BY <2>2
  <2>4. \A j \in 1 .. b - a + 1 : a + j - 1 \in DOMAIN messages
    BY <2>2
  <2> QED
    BY <2>1, <2>3, <2>4 DEF a, b
<1> HIDE DEF start
<1>4. cut \in Seq(Seq(S)) /\ Len(cut) = d
  BY <1>2, <1>3
<1> HIDE DEF cut
<1>5. ASSUME NEW i \in 1 .. d
      PROVE  \A j \in DOMAIN cut[i] : \E x \in DOMAIN messages : cut[i][j] = messages[x]
  <2>1. cut[i] = SubSeq(messages, start(i), ends[i])
    BY <1>2
  <2> QED
    BY SMTT(60), <1>3, <2>1
<1>6. cut \in Seq(Seq(S)) /\ Len(cut) \in 1 .. n
  BY <1>4
<1>7. \A i \in 1 .. Len(cut) : \A j \in DOMAIN cut[i] : \E x \in DOMAIN messages : cut[i][j] = messages[x]
  BY <1>4, <1>5, Zenon
<1> QED
  BY <1>6, <1>7, Zenon DEF cut, AreMadeOf

(* What a concatenation is made of.                                        *)
LEMMA Joined ==
    ASSUME NEW S, NEW a \in Seq(S), NEW b \in Seq(S)
    PROVE  /\ a \o b \in Seq(S) /\ Len(a \o b) = Len(a) + Len(b)
           /\ \A i \in 1 .. Len(a) : (a \o b)[i] = a[i]
           /\ \A i \in Len(a) + 1 .. Len(a) + Len(b) : (a \o b)[i] = b[i - Len(a)]
OBVIOUS

(* A sequence is a function on the numbers up to its length.               *)
LEMMA SequenceIsFunction ==
    ASSUME NEW S, NEW s \in Seq(S)
    PROVE  s = [i \in 1 .. Len(s) |-> s[i]]
OBVIOUS

(* What a sequence contains.                                               *)
LEMMA InToSet ==
    ASSUME NEW s, NEW i \in DOMAIN s
    PROVE  s[i] \in ToSet(s)
BY DEF ToSet

(* The list after an update: the ids of the list and the new ones, and no  *)
(* id twice.                                                               *)
LEMMA RequeuedDef ==
    ASSUME NEW S, resendList \in Seq(S), IsDistinct(resendList),
           NEW k \in 0 .. Len(resendList), NEW new, NEW n \in Nat, DOMAIN new = 1 .. n,
           \A i \in 1 .. n : new[i].id \in S /\ new[i].id \notin ToSet(resendList),
           \A i, j \in 1 .. n : new[i].id = new[j].id => i = j
    PROVE  /\ Requeued(k, new) \in Seq(S)
           /\ ToSet(Requeued(k, new)) = ToSet(resendList) \cup {new[i].id : i \in 1 .. n}
           /\ IsDistinct(Requeued(k, new))
<1> DEFINE len == Len(resendList)
           all == Requeued(k, new)
<1>1. len \in Nat /\ k \in Nat /\ k <= len /\ DOMAIN resendList = 1 .. len
  OBVIOUS
<1> DEFINE s1 == SubSeq(resendList, k + 1, len)
           s2 == SubSeq(resendList, 1, k)
           s3 == [i \in 1 .. n |-> new[i].id]
<1>2. all = s1 \o s2 \o s3
  BY DEF Requeued
<1>3. /\ s1 \in Seq(S) /\ Len(s1) = len - k
      /\ \A i \in 1 .. len - k : s1[i] = resendList[k + i]
  <2>1. CASE k = len
    BY <1>1, <2>1
  <2>2. CASE k < len
    BY SMTT(60), <1>1, <2>2
  <2> QED
    BY <1>1, <2>1, <2>2
<1>4. /\ s2 \in Seq(S) /\ Len(s2) = k
      /\ \A i \in 1 .. k : s2[i] = resendList[i]
  <2>1. CASE k = 0
    BY <1>1, <2>1
  <2>2. CASE k > 0
    BY <1>1, <2>2
  <2> QED
    BY <1>1, <2>1, <2>2
<1>5. /\ s3 \in Seq(S) /\ Len(s3) = n
      /\ \A i \in 1 .. n : s3[i] = new[i].id
  OBVIOUS
<1> HIDE DEF s1, s2, s3
<1>6. /\ s1 \o s2 \in Seq(S) /\ Len(s1 \o s2) = len
      /\ \A i \in 1 .. len - k : (s1 \o s2)[i] = resendList[k + i]
      /\ \A i \in len - k + 1 .. len : (s1 \o s2)[i] = resendList[i - (len - k)]
  <2>1. /\ s1 \o s2 \in Seq(S) /\ Len(s1 \o s2) = Len(s1) + Len(s2)
        /\ \A i \in 1 .. Len(s1) : (s1 \o s2)[i] = s1[i]
        /\ \A i \in Len(s1) + 1 .. Len(s1) + Len(s2) : (s1 \o s2)[i] = s2[i - Len(s1)]
    BY <1>3, <1>4, Joined
  <2>2. Len(s1) + Len(s2) = len /\ \A i \in len - k + 1 .. len : i - (len - k) \in 1 .. k
    BY <1>1, <1>3, <1>4
  <2> QED
    BY SMTT(60), <1>1, <1>3, <1>4, <2>1, <2>2
<1> DEFINE s12 == s1 \o s2
<1> HIDE DEF s12
<1>7. /\ all \in Seq(S) /\ Len(all) = len + n
      /\ \A i \in 1 .. len - k : all[i] = resendList[k + i]
      /\ \A i \in len - k + 1 .. len : all[i] = resendList[i - (len - k)]
      /\ \A i \in len + 1 .. len + n : all[i] = new[i - len].id
  <2>1. all = s12 \o s3
    BY <1>2 DEF s12
  <2>2. /\ s12 \in Seq(S) /\ Len(s12) = len
        /\ \A i \in 1 .. len - k : s12[i] = resendList[k + i]
        /\ \A i \in len - k + 1 .. len : s12[i] = resendList[i - (len - k)]
    BY <1>6 DEF s12
  <2>3. /\ s12 \o s3 \in Seq(S) /\ Len(s12 \o s3) = len + n
        /\ \A i \in 1 .. len : (s12 \o s3)[i] = s12[i]
        /\ \A i \in len + 1 .. len + n : (s12 \o s3)[i] = s3[i - len]
    <3>0. s12 \in Seq(S) /\ s3 \in Seq(S)
      BY <1>5, <2>2
    <3>1. /\ s12 \o s3 \in Seq(S) /\ Len(s12 \o s3) = Len(s12) + Len(s3)
          /\ \A i \in 1 .. Len(s12) : (s12 \o s3)[i] = s12[i]
          /\ \A i \in Len(s12) + 1 .. Len(s12) + Len(s3) : (s12 \o s3)[i] = s3[i - Len(s12)]
      BY <3>0, Joined
    <3>2. Len(s12) = len /\ Len(s3) = n
      BY <1>5, <2>2
    <3> QED
      BY <3>1, <3>2
  <2>4. /\ \A i \in 1 .. len - k : i \in 1 .. len
        /\ \A i \in len - k + 1 .. len : i \in 1 .. len
        /\ \A i \in len + 1 .. len + n : i - len \in 1 .. n
    BY <1>1
  <2> HIDE DEF all
  <2> QED
    BY <1>5, <2>1, <2>2, <2>3, <2>4
<1> HIDE DEF all
<1>8. DOMAIN all = 1 .. len + n
  BY <1>1, <1>7
<1> DEFINE from(i) == IF i <= len - k THEN k + i ELSE i - (len - k)
<1>9. \A i \in 1 .. len : from(i) \in 1 .. len /\ all[i] = resendList[from(i)]
  BY <1>1, <1>7
<1>10. ToSet(all) = ToSet(resendList) \cup {new[i].id : i \in 1 .. n}
  <2>1. ASSUME NEW x \in ToSet(all) PROVE x \in ToSet(resendList) \cup {new[i].id : i \in 1 .. n}
    <3>1. PICK i \in 1 .. len + n : x = all[i]
      BY <1>8 DEF ToSet
    <3>2. CASE i <= len
      BY <1>1, <1>9, <3>1, <3>2 DEF ToSet
    <3>3. CASE i > len
      <4>1. i - len \in 1 .. n /\ all[i] = new[i - len].id
        BY <1>1, <1>7, <3>3
      <4> QED
        BY <3>1, <4>1
    <3> QED
      BY <1>1, <3>2, <3>3
  <2>2. ASSUME NEW x \in ToSet(resendList) PROVE x \in ToSet(all)
    <3>1. PICK i \in 1 .. len : x = resendList[i]
      BY <1>1 DEF ToSet
    <3>2. CASE i <= k
      <4>1. /\ i + (len - k) \in len - k + 1 .. len /\ i + (len - k) \in 1 .. len + n
            /\ (i + (len - k)) - (len - k) = i
        BY <1>1, <3>2
      <4>2. PICK j \in 1 .. len + n : j = i + (len - k)
        BY <4>1
      <4>3. all[j] = x /\ j \in DOMAIN all
        BY <1>7, <1>8, <3>1, <4>1, <4>2
      <4> QED
        BY <4>3, InToSet
    <3>3. CASE i > k
      <4>1. i - k \in 1 .. len - k /\ i - k \in 1 .. len + n /\ k + (i - k) = i
        BY <1>1, <3>3
      <4>2. PICK j \in 1 .. len + n : j = i - k
        BY <4>1
      <4>3. all[j] = x /\ j \in DOMAIN all
        BY <1>7, <1>8, <3>1, <4>1, <4>2
      <4> QED
        BY <4>3, InToSet
    <3> QED
      BY <1>1, <3>2, <3>3
  <2>3. ASSUME NEW i \in 1 .. n PROVE new[i].id \in ToSet(all)
    <3>1. len + i \in len + 1 .. len + n /\ len + i \in 1 .. len + n /\ (len + i) - len = i
      BY <1>1
    <3> QED
      BY <1>7, <1>8, <3>1, InToSet, SMTT(60)
  <2> QED
    BY <2>1, <2>2, <2>3
<1>11. IsDistinct(all)
  <2>1. SUFFICES ASSUME NEW i \in 1 .. len + n, NEW j \in 1 .. len + n, i <= j, all[i] = all[j]
                 PROVE  i = j
    BY <1>1, <1>8 DEF IsDistinct
  <2>2. CASE j <= len
    <3>1. i \in 1 .. len /\ j \in 1 .. len
      BY <1>1, <2>1, <2>2
    <3>2. from(i) = from(j)
      BY <1>1, <1>9, <2>1, <3>1, ZenonT(60) DEF IsDistinct
    <3> QED
      BY <1>1, <3>1, <3>2
  <2>3. CASE i <= len /\ j > len
    <3>1. i \in 1 .. len /\ j - len \in 1 .. n /\ all[j] = new[j - len].id
      BY <1>1, <1>7, <2>3
    <3>2. all[i] \in ToSet(resendList)
      BY <1>1, <1>9, <3>1 DEF ToSet
    <3> QED
      BY <2>1, <3>1, <3>2
  <2>4. CASE i > len
    <3>1. /\ i - len \in 1 .. n /\ j - len \in 1 .. n
          /\ all[i] = new[i - len].id /\ all[j] = new[j - len].id
      BY <1>1, <1>7, <2>1, <2>4
    <3>2. i - len = j - len
      BY <2>1, <3>1
    <3> QED
      BY <1>1, <3>2
  <2> QED
    BY <1>1, <2>1, <2>2, <2>3, <2>4
<1> QED
  BY <1>7, <1>10, <1>11 DEF all

-----------------------------------------------------------------------------
(* Datagram numbers and the history.                                       *)

(* What the constants are to each other.                                   *)
LEMMA Sizes ==
    /\ HalfRange \in Nat /\ HalfRange >= 3 /\ NumRange \in Nat /\ NumRange = 2 * HalfRange + 2
    /\ ResendLen \in Nat /\ ResendLen >= 1 /\ ResendLen <= HalfRange + 1
    /\ HistoryLen \in Nat /\ HistoryLen + 1 <= HalfRange
    /\ MaxAge \in Nat /\ ResendLen <= MaxAge /\ MaxAge <= HalfRange + 1
    /\ MaxMessages \in Nat
<1>1. HalfRange \in Nat /\ HalfRange >= 3 /\ NumRange \in Nat /\ NumRange = 2 * HalfRange + 2
  BY Halves, NumRangeAssumption
<1>2. /\ ResendLen \in Nat /\ ResendLen >= 1 /\ ResendLen <= HalfRange + 1
      /\ HistoryLen \in Nat /\ HistoryLen < HalfRange
      /\ MaxAge \in Nat /\ ResendLen <= MaxAge /\ MaxAge <= HalfRange + 1
      /\ MaxMessages \in Nat
  BY DeliveryAssumption
<1> QED
  BY <1>1, <1>2

(* Sums and differences of numbers.                                        *)
LEMMA Differences ==
    ASSUME NEW a \in Number, NEW b \in Number
    PROVE  /\ Plus(a, b) \in Number /\ Minus(a, b) \in Number
           /\ Plus(b, Minus(a, b)) = a
           /\ Minus(a, b) = 0 <=> a = b
BY NumRangeAssumption DEF Number, Plus, Minus

(* A number gets older by as many datagrams as are sent.                   *)
LEMMA AgeGrows ==
    ASSUME NEW nd \in Number, NEW d \in Number, NEW j \in Nat, Minus(nd, d) + j <= HalfRange
    PROVE  Plus(nd, j) \in Number /\ Minus(Plus(nd, j), d) = Minus(nd, d) + j
BY Sizes DEF Number, Plus, Minus

(* A number that has yet to be given does not look like a recent one.      *)
LEMMA NewIsAhead ==
    ASSUME NEW nd \in Number, NEW t \in Nat, t <= HalfRange
    PROVE  Plus(nd, t) \in Number /\ Minus(nd, Plus(nd, t)) \notin 1 .. HalfRange
BY Sizes DEF Number, Plus, Minus

(* The age of a datagram just sent.                                        *)
LEMMA NewAge ==
    ASSUME NEW nd \in Number, NEW t \in Nat, NEW j \in Nat, t < j, j <= HalfRange
    PROVE  /\ Plus(nd, j) \in Number /\ Plus(nd, t) \in Number
           /\ Minus(Plus(nd, j), Plus(nd, t)) = j - t
BY Sizes DEF Number, Plus, Minus

(* Adding twice.                                                           *)
LEMMA PlusPlus ==
    ASSUME NEW a \in Number, NEW x \in Nat, NEW y \in Nat, x + y < NumRange
    PROVE  /\ Plus(a, x) \in Number
           /\ Plus(Plus(a, x), y) = Plus(a, x + y)
BY Sizes DEF Number, Plus

(* Different distances lead to different numbers.                          *)
LEMMA PlusDiffers ==
    ASSUME NEW a \in Number, NEW x \in Number, NEW y \in Number, Plus(a, x) = Plus(a, y)
    PROVE  x = y
BY Sizes DEF Number, Plus

(* The age of the i-th entry of a history of len entries.                  *)
LEMMA EntryAge ==
    ASSUME NEW first \in Number, NEW nd \in Number, NEW len \in Nat, Minus(nd, first) = len,
           len <= HalfRange, NEW i \in 1 .. len
    PROVE  /\ Plus(first, i - 1) \in Number
           /\ Minus(nd, Plus(first, i - 1)) = len - i + 1
BY Sizes DEF Number, Plus, Minus

(* What is in the history is one of its entries.                           *)
LEMMA InHistoryDef ==
    ASSUME TypeOK, HistoryFits, NEW d \in Number, InHistory(d)
    PROVE  \E i \in DOMAIN datagramHistory :
              /\ HistoryNumber(i) = d
              /\ MessagesOfDatagram(d) = datagramHistory[i]
<1> DEFINE first == datagramHistoryPopCount
           len == Len(datagramHistory)
           x == Minus(d, first)
<1>1. /\ first \in Number /\ len \in Nat /\ DOMAIN datagramHistory = 1 .. len
      /\ len <= HalfRange /\ x < len
  BY Sizes DEF TypeOK, HistoryFits, InHistory
<1> HIDE DEF len
<1>2. x \in Nat /\ x + 1 \in 1 .. len /\ Plus(first, (x + 1) - 1) = d
  <2>1. x \in Number /\ Plus(first, x) = d
    BY <1>1, Differences
  <2> HIDE DEF x
  <2> QED
    BY <1>1, <2>1 DEF Number
<1>3. ~LessThan(d, first)
  BY <1>1, Sizes DEF LessThan, Minus, Number
<1>4. MessagesOfDatagram(d) = datagramHistory[x + 1]
  BY <1>3 DEF MessagesOfDatagram
<1>5. HistoryNumber(x + 1) = d
  BY <1>2 DEF HistoryNumber
<1> QED
  BY <1>1, <1>2, <1>4, <1>5

(* As many messages as the entries of a history can stand for.             *)
LEMMA EntryReach ==
    ASSUME NEW a \in Nat, a >= 1
    PROVE  /\ ResendLen * a \in Nat
           /\ ResendLen * a >= ResendLen
           /\ a <= HistoryLen + 1 => ResendLen * a <= NumRange
           /\ \A j \in Nat : j >= 1 => ResendLen * (a + j) >= ResendLen * a + ResendLen
<1>1. ResendLen \in Nat /\ ResendLen >= 1 /\ HistoryLen \in Nat
  BY Sizes
<1>2. ResendLen * a \in Nat /\ ResendLen * a >= ResendLen
  BY <1>1, SMT
<1>3. \A j \in Nat : j >= 1 => ResendLen * (a + j) >= ResendLen * a + ResendLen
  <2>1. SUFFICES ASSUME NEW j \in Nat, j >= 1
                 PROVE  ResendLen * (a + j) >= ResendLen * a + ResendLen
    OBVIOUS
  <2>2. ResendLen * (a + j) = ResendLen * a + ResendLen * j
    BY <1>1, SMT
  <2>3. ResendLen * j >= ResendLen
    BY <1>1, <2>1, SMT
  <2> QED
    BY <1>1, <1>2, <2>2, <2>3, SMT
<1>4. ASSUME a <= HistoryLen + 1 PROVE ResendLen * a <= NumRange
  <2>1. (HistoryLen + 1) * ResendLen <= NumRange
    BY DeliveryAssumption
  <2>2. ResendLen * a <= (HistoryLen + 1) * ResendLen
    BY <1>1, <1>4, SMT
  <2> QED
    BY <1>1, <1>2, <2>1, <2>2, Sizes, SMT
<1> QED
  BY <1>2, <1>3, <1>4

-----------------------------------------------------------------------------
(* The receiver's window.                                                  *)

(* The assumptions of ReceiveWindow hold.                                  *)
LEMMA WindowAssumptions ==
    W!NumRangeAssumption /\ W!HoleLimitAssumption /\ W!WindowAssumption
BY NumRangeAssumption, HoleLimitAssumption, DeliveryAssumption
   DEF W!NumRangeAssumption, W!HoleLimitAssumption, W!WindowAssumption, W!Number, Number,
       W!HalfRange, HalfRange, W!MaxNumber, MaxNumber

(* What both modules call delivered.                                       *)
LEMMA SameDelivered == W!Delivered = Delivered
BY DEF W!Delivered, Delivered, ToSet

(* Where the base and the messages handed over lie.                        *)
LEMMA WindowFacts ==
    ASSUME W!WindowInv
    PROVE  /\ sentCount \in Nat /\ BaseMessage \in Nat
           /\ BaseMessage <= sentCount /\ sentCount - BaseMessage <= ResendLen
           /\ \A m \in Delivered : m \in Nat /\ m < sentCount
<1>1. /\ sentCount \in Nat /\ BaseMessage \in Nat
      /\ BaseMessage <= sentCount /\ sentCount - BaseMessage <= ResendLen
      /\ \A m \in W!Delivered : m < sentCount
  BY DEF W!WindowInv, W!TypeOK
<1>2. \A m \in W!Delivered : m \in Nat
  BY DEF W!WindowInv, W!TypeOK, W!Delivered
<1> QED
  BY <1>1, <1>2, SameDelivered

(* A step that leaves the numbering and the window alone.                  *)
LEMMA WindowStays ==
    ASSUME W!WindowInv,
           UNCHANGED <<sentCount, sendReliableMessageNumberIndex, windowVars>>
    PROVE  W!WindowInv' /\ UNCHANGED W!vars
<1>1. UNCHANGED W!vars
  BY DEF W!vars, windowVars, BaseMessage, NumberOf
<1> QED
  BY <1>1, WindowAssumptions, W!WindowStep

(* A message that may arrive is accepted if and only if it is missing.     *)
LEMMA AcceptedWhenMissing ==
    ASSUME W!WindowInv, NEW m \in 0 .. sentCount - 1, m + MaxAge >= sentCount
    PROVE  IsAccepted(NumberOf(m), receivedPacketsBaseIndex, hasReceivedPacketQueue)
              <=> m \notin Delivered
<1> DEFINE wire == [i \in 1 .. sentCount |-> NumberOf(i - 1)]
<1>1. m + MaxAge >= BaseMessage
  BY WindowFacts, Sizes
<1>2. W!IsAccepted(wire[m + 1], receivedPacketsBaseIndex, hasReceivedPacketQueue)
         <=> m \notin W!Delivered
  BY <1>1, WindowAssumptions, W!AcceptedIffMissing
<1>3. wire[m + 1] = NumberOf(m)
  <2>1. m + 1 \in 1 .. sentCount /\ (m + 1) - 1 = m
    BY WindowFacts
  <2> QED
    BY <2>1
<1> HIDE DEF wire
<1>4. W!IsAccepted(NumberOf(m), receivedPacketsBaseIndex, hasReceivedPacketQueue)
        <=> IsAccepted(NumberOf(m), receivedPacketsBaseIndex, hasReceivedPacketQueue)
  BY DEF W!IsAccepted, IsAccepted, W!HoleCount, HoleCount, W!Minus, Minus,
         W!HalfRange, HalfRange, W!MaxNumber, MaxNumber
<1> QED
  BY <1>2, <1>3, <1>4, SameDelivered

-----------------------------------------------------------------------------
(* The first state.                                                        *)

(* It maps to a first state of ReceiveWindow.                              *)
LEMMA WindowStarts ==
    ASSUME Init
    PROVE  W!Init /\ Window!Init
<1>1. /\ sentCount = 0 /\ sendReliableMessageNumberIndex \in StartNumbers
      /\ sendReliableMessageNumberIndex \in Number
      /\ receivedPacketsBaseIndex = sendReliableMessageNumberIndex
      /\ hasReceivedPacketQueue = <<>> /\ outputQueue = <<>>
  BY DeliveryAssumption DEF Init
<1>2. BaseMessage = 0
  BY <1>1 DEF BaseMessage, Minus, Number
<1>3. [i \in 1 .. sentCount |-> NumberOf(i - 1)] = <<>>
  BY <1>1
<1> QED
  BY <1>1, <1>2, <1>3 DEF W!Init, Window!Init

(* The invariant holds in it.                                              *)
LEMMA DeliveryInit == Init => DeliveryInv
<1> SUFFICES ASSUME Init PROVE DeliveryInv
  OBVIOUS
<1> DEFINE nd == nextDatagramSequenceNumber
           len == EntriesBefore(nd)
<1>1. /\ sentCount = 0 /\ sendReliableMessageNumberIndex \in Number
      /\ resendBuffer = [s \in 0 .. ResendLen - 1 |-> Empty]
      /\ resendList = <<>> /\ due = {} /\ nd \in Number
      /\ datagramHistory = [i \in 1 .. len |-> {}]
      /\ datagramHistoryPopCount = Minus(nd, len)
      /\ connection = "open" /\ net = {} /\ expectedNextSequenceNumber = nd
      /\ acknowlegements = <<>> /\ NAKs = <<>> /\ parsing = <<>>
      /\ receivedPacketsBaseIndex = sendReliableMessageNumberIndex
      /\ hasReceivedPacketQueue = <<>> /\ outputQueue = <<>>
  BY DeliveryAssumption DEF Init
<1>2. len \in Nat /\ len <= HistoryLen + 1 /\ len <= nd
  BY <1>1, Sizes DEF EntriesBefore, Number
<1>3. datagramHistoryPopCount \in Number /\ Minus(nd, datagramHistoryPopCount) = len
  BY <1>1, <1>2, Sizes DEF Minus, Number
<1> HIDE DEF len, nd
<1>4. Len(datagramHistory) = len /\ datagramHistory \in Seq(SUBSET Number)
  BY <1>1, <1>2
<1>5. TypeOK
  <2>1. sentCount \in 0 .. MaxMessages
    BY <1>1, Sizes
  <2>2. {sendReliableMessageNumberIndex, datagramHistoryPopCount, nextDatagramSequenceNumber,
         expectedNextSequenceNumber, receivedPacketsBaseIndex} \subseteq Number
    BY <1>1, <1>3 DEF nd
  <2>3. resendBuffer \in [0 .. ResendLen - 1 -> Message \cup {Empty}]
    BY <1>1
  <2>4. due \subseteq ToSet(resendList)
    BY <1>1
  <2> QED
    BY <1>1, <1>4, <2>1, <2>2, <2>3, <2>4 DEF TypeOK
<1>6. BufferHolds
  BY <1>1 DEF BufferHolds
<1>7. ListMatchesBuffer
  <2>1. ToSet(resendList) = {}
    BY <1>1 DEF ToSet
  <2>2. {resendBuffer[s].id : s \in DOMAIN resendBuffer} \ {Empty.id} = {}
    BY <1>1
  <2> QED
    BY <1>1, <2>1, <2>2 DEF ListMatchesBuffer
<1>8. NetworkCarries /\ EntriesDescribe
  BY <1>1 DEF NetworkCarries, EntriesDescribe, Datagrams
<1>9. ParsingCarries
  BY <1>1 DEF ParsingCarries
<1>10. AcksAreRecent
  <2>1. Members(<<>>) = {}
    BY DEF Members, IsWithinRange
  <2> QED
    BY <1>1, <2>1 DEF AcksAreRecent, Acked, AckPackets
<1>11. HistoryFits
  BY <1>2, <1>3, <1>4 DEF HistoryFits, nd
<1>12. HistoryMeans
  <2>1. \A i \in DOMAIN datagramHistory : datagramHistory[i] = {}
    BY <1>1
  <2> QED
    BY <2>1 DEF HistoryMeans
<1>13. AnswersAscend
  BY <1>1 DEF AnswersAscend, IsDeserialized
<1>14. NoLostMessage
  BY <1>1 DEF NoLostMessage
<1>15. W!WindowInv
  BY WindowStarts, WindowAssumptions, W!WindowInit
<1> QED
  BY <1>5, <1>6, <1>7, <1>8, <1>9, <1>10, <1>11, <1>12, <1>13, <1>14, <1>15 DEF DeliveryInv

-----------------------------------------------------------------------------
(* Steps that send nothing.                                                *)

(* The history keeps its meaning while entries are only emptied, nothing   *)
(* more is acknowledged and the receiver keeps what it has.                *)
LEMMA HistoryKept ==
    ASSUME HistoryMeans, DOMAIN datagramHistory' = DOMAIN datagramHistory,
           Len(datagramHistory') = Len(datagramHistory),
           \A i \in DOMAIN datagramHistory : datagramHistory'[i] \subseteq datagramHistory[i],
           UNCHANGED <<sentCount, sendReliableMessageNumberIndex, datagramHistoryPopCount>>,
           Acked' \subseteq Acked, Have \subseteq Have'
    PROVE  HistoryMeans'
<1>1. SUFFICES ASSUME NEW i \in DOMAIN datagramHistory, NEW num \in datagramHistory[i]
               PROVE  \E id \in Nat : EntryNames(i, num, id)'
  BY DEF HistoryMeans
<1>2. PICK id \in Nat : EntryNames(i, num, id)
  BY <1>1 DEF HistoryMeans
<1>3. EntryNames(i, num, id)'
  BY <1>2 DEF EntryNames, HistoryNumber, NumberOf
<1> QED
  BY <1>3

(* Fewer packets are acknowledged when packets leave the network.          *)
LEMMA AckedShrinks ==
    ASSUME net' \subseteq net, UNCHANGED acknowlegements
    PROVE  Acked' \subseteq Acked /\ Datagrams' \subseteq Datagrams
<1>1. AckPackets' \subseteq AckPackets
  BY DEF AckPackets
<1>2. Acked' \subseteq Acked
  BY <1>1 DEF Acked
<1>3. Datagrams' \subseteq Datagrams
  BY DEF Datagrams
<1> QED
  BY <1>2, <1>3

(* Packets leave the network, and timers are ended.                        *)
LEMMA NetShrinks ==
    ASSUME DeliveryInv, net' \subseteq net, connection' \in {"open", "dead", "flagged"},
           due' \subseteq ToSet(resendList),
           UNCHANGED <<sentCount, sendReliableMessageNumberIndex, resendBuffer, resendList,
                       historyVars, receiverVars>>
    PROVE  DeliveryInv'
<1>1. /\ TypeOK /\ BufferHolds /\ ListMatchesBuffer /\ NetworkCarries /\ ParsingCarries
      /\ AcksAreRecent /\ HistoryFits /\ HistoryMeans /\ EntriesDescribe /\ AnswersAscend
      /\ NoLostMessage /\ W!WindowInv
  BY DEF DeliveryInv
<1>2. /\ UNCHANGED <<sentCount, sendReliableMessageNumberIndex, resendBuffer, resendList>>
      /\ UNCHANGED <<datagramHistory, datagramHistoryPopCount, nextDatagramSequenceNumber>>
      /\ UNCHANGED <<expectedNextSequenceNumber, acknowlegements, NAKs, parsing>>
      /\ UNCHANGED <<receivedPacketsBaseIndex, hasReceivedPacketQueue, outputQueue>>
      /\ UNCHANGED windowVars
  BY DEF historyVars, receiverVars, answerVars, windowVars
<1>3. Acked' \subseteq Acked /\ Datagrams' \subseteq Datagrams
  BY <1>2, AckedShrinks
<1>4. TypeOK'
  BY <1>1, <1>2 DEF TypeOK
<1>5. BufferHolds'
  BY <1>1, <1>2 DEF BufferHolds, IsNumbered, NumberOf
<1>6. ListMatchesBuffer'
  BY <1>1, <1>2 DEF ListMatchesBuffer
<1>7. NetworkCarries'
  BY <1>1, <1>2, <1>3 DEF NetworkCarries, Age, IsFresh, IsNumbered, NumberOf
<1>8. ParsingCarries'
  BY <1>1, <1>2 DEF ParsingCarries, IsFresh, IsNumbered, NumberOf
<1>9. AcksAreRecent'
  BY <1>1, <1>2, <1>3 DEF AcksAreRecent, Age
<1>10. HistoryFits'
  BY <1>1, <1>2 DEF HistoryFits
<1>11. Have' = Have
  BY <1>2 DEF Have, Delivered
<1>12. HistoryMeans'
  BY <1>1, <1>2, <1>3, <1>11, HistoryKept
<1>13. EntriesDescribe'
  BY <1>1, <1>2, <1>3 DEF EntriesDescribe, HistoryNumber
<1>14. AnswersAscend'
  BY <1>1, <1>2 DEF AnswersAscend
<1>15. NoLostMessage'
  BY <1>1, <1>2 DEF NoLostMessage, Delivered
<1>16. W!WindowInv'
  BY <1>1, <1>2, WindowStays
<1> QED
  BY <1>4, <1>5, <1>6, <1>7, <1>8, <1>9, <1>10, <1>12, <1>13, <1>14, <1>15, <1>16
     DEF DeliveryInv

(* The network loses a packet.                                             *)
LEMMA LoseStep ==
    ASSUME DeliveryInv, NEW p \in net, Lose(p)
    PROVE  DeliveryInv'
<1>1. /\ net' \subseteq net /\ connection' \in {"open", "dead", "flagged"}
      /\ due' \subseteq ToSet(resendList)
      /\ UNCHANGED <<sentCount, sendReliableMessageNumberIndex, resendBuffer, resendList,
                     historyVars, receiverVars>>
  BY DEF DeliveryInv, TypeOK, Lose, senderVars, bufferVars
<1> QED
  BY <1>1, NetShrinks

(* The sender gives up.                                                    *)
LEMMA AckTimeoutStep ==
    ASSUME DeliveryInv, AckTimeout
    PROVE  DeliveryInv'
<1>1. /\ net' \subseteq net /\ connection' \in {"open", "dead", "flagged"}
      /\ due' \subseteq ToSet(resendList)
      /\ UNCHANGED <<sentCount, sendReliableMessageNumberIndex, resendBuffer, resendList,
                     historyVars, receiverVars>>
  BY DEF DeliveryInv, TypeOK, AckTimeout, bufferVars
<1> QED
  BY <1>1, NetShrinks

(* A NAK ends timers of messages in the list.                              *)
LEMMA ReceiveNakStep ==
    ASSUME DeliveryInv, NEW p \in net, ReceiveNak(p)
    PROVE  DeliveryInv'
<1> DEFINE missing == IF datagramHistory = <<>> THEN {} ELSE Handled(p.ranges)
           slots == {Slot(num) : num \in UNION {MessagesOfDatagram(d) : d \in missing}}
           named == {resendBuffer[s].id : s \in {t \in slots : resendBuffer[t] # Empty}}
<1>1. /\ Arrives(p) /\ due' = due \cup named
      /\ connection' = IF IsFlagged(p.ranges) THEN "flagged" ELSE "open"
      /\ UNCHANGED <<sentCount, sendReliableMessageNumberIndex, resendBuffer, resendList,
                     historyVars, receiverVars>>
  BY DEF ReceiveNak
<1>2. named \subseteq ToSet(resendList)
  <2>1. \A s \in slots : s \in 0 .. ResendLen - 1
    <3>1. \A d \in missing : d \in Number /\ InHistory(d)
      <4>1. \A d \in Handled(p.ranges) : d \in Examined(p.ranges) /\ InHistory(d)
        <5>1. Examined(p.ranges) \subseteq Nat
          BY DEF Examined, Members, Number
        <5>2. \A d \in Nat : d <= d
          OBVIOUS
        <5> QED
          BY <5>1, <5>2 DEF Handled
      <4>2. \A d \in Examined(p.ranges) : d \in Number
        BY DEF Examined, Members
      <4> QED
        BY <4>1, <4>2
    <3>2. \A d \in missing : MessagesOfDatagram(d) \subseteq Number
      <4>1. SUFFICES ASSUME NEW d \in missing PROVE MessagesOfDatagram(d) \subseteq Number
        OBVIOUS
      <4>2. PICK i \in DOMAIN datagramHistory : MessagesOfDatagram(d) = datagramHistory[i]
        BY <3>1, InHistoryDef DEF DeliveryInv
      <4> QED
        BY <4>2 DEF DeliveryInv, TypeOK
    <3>3. \A num \in Number : Slot(num) \in 0 .. ResendLen - 1
      <4>1. ResendLen \in Nat \ {0} /\ \A num \in Number : num \in Int
        BY DeliveryAssumption DEF Number
      <4> QED
        BY <4>1, DivMod DEF Slot
    <3> QED
      BY <3>2, <3>3
  <2> HIDE DEF slots
  <2>2. \A s \in 0 .. ResendLen - 1 : resendBuffer[s] # Empty => resendBuffer[s].id # Empty.id
    <3>1. \A s \in 0 .. ResendLen - 1 : resendBuffer[s] # Empty => resendBuffer[s].id \in Nat
      BY Sizes DEF DeliveryInv, BufferHolds, IsNumbered, TypeOK
    <3>2. Empty.id \notin Nat
      BY DEF Empty
    <3> QED
      BY <3>1, <3>2
  <2>3. ToSet(resendList) = {resendBuffer[s].id : s \in 0 .. ResendLen - 1} \ {Empty.id}
    BY DEF DeliveryInv, ListMatchesBuffer, TypeOK
  <2> QED
    BY <2>1, <2>2, <2>3
<1>3. net' \subseteq net
  BY <1>1 DEF Arrives
<1>4. due' \subseteq ToSet(resendList)
  BY <1>1, <1>2 DEF DeliveryInv, TypeOK
<1> QED
  BY <1>1, <1>3, <1>4, NetShrinks

-----------------------------------------------------------------------------
(* The receiver.                                                           *)

(* Its answers move from its lists to the network.                         *)
LEMMA ReceiverUpdateStep ==
    ASSUME DeliveryInv, NEW sendAcks \in BOOLEAN, ReceiverUpdate(sendAcks)
    PROVE  DeliveryInv'
<1>1. /\ TypeOK /\ BufferHolds /\ ListMatchesBuffer /\ NetworkCarries /\ ParsingCarries
      /\ AcksAreRecent /\ HistoryFits /\ HistoryMeans /\ EntriesDescribe /\ AnswersAscend
      /\ NoLostMessage /\ W!WindowInv
  BY DEF DeliveryInv
<1>2. PICK acks, naks :
        /\ acks = {} \/ acks = {Answer("ack", acknowlegements)}
        /\ naks = {} \/ naks = {Answer("nak", NAKs)}
        /\ net' = net \cup acks \cup naks
        /\ acknowlegements' = IF acks = {} THEN acknowlegements ELSE <<>>
        /\ NAKs' = <<>>
  BY DEF ReceiverUpdate
<1>3. /\ UNCHANGED <<sentCount, sendReliableMessageNumberIndex, resendBuffer, resendList, due>>
      /\ UNCHANGED <<datagramHistory, datagramHistoryPopCount, nextDatagramSequenceNumber>>
      /\ UNCHANGED <<connection, expectedNextSequenceNumber, parsing>>
      /\ UNCHANGED <<receivedPacketsBaseIndex, hasReceivedPacketQueue, outputQueue>>
      /\ UNCHANGED windowVars
  BY DEF ReceiverUpdate, senderVars, bufferVars, historyVars, windowVars
<1>4. /\ \A p \in acks : p.type = "ack" /\ p.ranges = acknowlegements
      /\ \A p \in naks : p.type = "nak" /\ p.ranges = NAKs
  BY <1>2 DEF Answer
<1>5. Datagrams' = Datagrams
  BY <1>2, <1>4 DEF Datagrams
<1>6. Acked' \subseteq Acked
  <2>1. AckPackets' = AckPackets \cup acks
    BY <1>2, <1>4 DEF AckPackets
  <2>2. Members(<<>>) = {}
    BY DEF Members, IsWithinRange
  <2>3. Members(acknowlegements') \subseteq Members(acknowlegements)
    BY <1>2, <2>2
  <2>4. \A p \in acks : Members(p.ranges) = Members(acknowlegements)
    BY <1>4
  <2> QED
    BY <2>1, <2>3, <2>4 DEF Acked
<1>7. TypeOK'
  <2>1. /\ acknowlegements \in Seq(RangeNode) /\ NAKs \in Seq(RangeNode)
        /\ acknowlegements' \in Seq(RangeNode) /\ NAKs' \in Seq(RangeNode)
    BY <1>1, <1>2 DEF TypeOK
  <2>2. \A p \in net' : \/ p.type = "data" /\ p.num \in Number /\ p.messages \in Seq(Message)
                        \/ p.type \in {"ack", "nak"} /\ p.ranges \in Seq(RangeNode)
    BY <1>1, <1>2, <1>4, <2>1 DEF TypeOK
  <2> QED
    BY <1>1, <1>3, <2>1, <2>2 DEF TypeOK
<1>8. BufferHolds'
  BY <1>1, <1>3 DEF BufferHolds, IsNumbered, NumberOf
<1>9. ListMatchesBuffer'
  BY <1>1, <1>3 DEF ListMatchesBuffer
<1>10. NetworkCarries'
  BY <1>1, <1>3, <1>5 DEF NetworkCarries, Age, IsFresh, IsNumbered, NumberOf
<1>11. ParsingCarries'
  BY <1>1, <1>3 DEF ParsingCarries, IsFresh, IsNumbered, NumberOf
<1>12. AcksAreRecent'
  BY <1>1, <1>3, <1>6 DEF AcksAreRecent, Age
<1>13. HistoryFits'
  BY <1>1, <1>3 DEF HistoryFits
<1>14. Have' = Have
  BY <1>3 DEF Have, Delivered
<1>15. HistoryMeans'
  BY <1>1, <1>3, <1>6, <1>14, HistoryKept
<1>16. EntriesDescribe'
  BY <1>1, <1>3, <1>5 DEF EntriesDescribe, HistoryNumber
<1>17. AnswersAscend'
  <2>1. IsDeserialized(<<>>)
    BY DEF IsDeserialized
  <2> QED
    BY <1>1, <1>2, <2>1 DEF AnswersAscend
<1>18. NoLostMessage'
  BY <1>1, <1>3 DEF NoLostMessage, Delivered
<1>19. W!WindowInv'
  BY <1>1, <1>3, WindowStays
<1> QED
  BY <1>7, <1>8, <1>9, <1>10, <1>11, <1>12, <1>13, <1>15, <1>16, <1>17, <1>18, <1>19
     DEF DeliveryInv

(* An entry of the history and a message that have the same number are     *)
(* about the same message.                                                 *)
LEMMA EntryIsMessage ==
    ASSUME TypeOK, HistoryFits, NEW i \in DOMAIN datagramHistory, NEW num, NEW id \in Nat,
           EntryNames(i, num, id), NEW m \in 0 .. sentCount - 1, num = NumberOf(m),
           m + MaxAge >= sentCount
    PROVE  id = m
<1>1. /\ sentCount \in Nat /\ sendReliableMessageNumberIndex \in Number
      /\ m \in Nat /\ m < sentCount
  BY DEF TypeOK
<1> DEFINE a == Len(datagramHistory) - i + 1
<1>2. a \in Nat /\ a >= 1 /\ a <= HistoryLen + 1
  BY SMTT(60), Sizes DEF HistoryFits, TypeOK
<1>3. id < sentCount /\ id + ResendLen * a >= sentCount
  BY <1>1 DEF EntryNames
<1> HIDE DEF a
<1>4. ResendLen * a \in Nat /\ ResendLen * a <= NumRange
  BY <1>2, EntryReach
<1>5. m - id < NumRange /\ id - m < NumRange
  BY <1>1, <1>3, <1>4, Sizes
<1>6. Num(sendReliableMessageNumberIndex, sentCount, id)
        = Num(sendReliableMessageNumberIndex, sentCount, m)
  BY DEF EntryNames, Num, NumberOf
<1> QED
  BY <1>1, <1>5, <1>6, NumDiffers

(* What becomes of the history when a datagram arrives: the receiver has   *)
(* its messages when it acknowledges it.                                   *)
LEMMA HistoryOnArrival ==
    ASSUME DeliveryInv, NEW p \in Datagrams, parsing = <<>>, parsing' = p.messages,
           UNCHANGED <<sentCount, sendReliableMessageNumberIndex, datagramHistory,
                       datagramHistoryPopCount, outputQueue>>,
           Acked' \subseteq Acked \cup {p.num}
    PROVE  HistoryMeans'
<1>0. TypeOK /\ HistoryFits /\ HistoryMeans /\ EntriesDescribe /\ NetworkCarries
  BY DEF DeliveryInv
<1>1. SUFFICES ASSUME NEW i \in DOMAIN datagramHistory, NEW num \in datagramHistory[i]
               PROVE  \E id \in Nat : EntryNames(i, num, id)'
  BY DEF HistoryMeans
<1>2. PICK id \in Nat : EntryNames(i, num, id)
  BY <1>0, <1>1 DEF HistoryMeans
<1>3. Have' = Delivered \cup {p.messages[x].id : x \in DOMAIN p.messages}
  BY DEF Have, Delivered
<1>4. Have \subseteq Have'
  <2>1. Have = Delivered
    BY DEF Have
  <2> QED
    BY <1>3, <2>1
<1>5. ASSUME HistoryNumber(i) \in Acked' PROVE id \in Have'
  <2>1. CASE HistoryNumber(i) \in Acked
    BY <1>2, <1>4, <2>1 DEF EntryNames
  <2>2. CASE HistoryNumber(i) = p.num
    <3>1. datagramHistory[i] = Numbers(p.messages)
      BY <1>0, <1>1, <2>2 DEF EntriesDescribe
    <3>2. PICK x \in DOMAIN p.messages : num = p.messages[x].num
      BY <1>1, <3>1 DEF Numbers
    <3>3. IsFresh(p.messages[x])
      BY <1>0 DEF NetworkCarries
    <3>4. PICK m \in 0 .. sentCount - 1 :
            m = p.messages[x].id /\ num = NumberOf(m) /\ m + MaxAge >= sentCount
      BY <3>2, <3>3 DEF IsFresh, IsNumbered
    <3>5. id = m
      BY <1>0, <1>2, <3>4, EntryIsMessage
    <3> QED
      BY <1>3, <3>4, <3>5
  <2> QED
    BY <1>5, <2>1, <2>2
<1>6. EntryNames(i, num, id)'
  BY <1>2, <1>5 DEF EntryNames, HistoryNumber, NumberOf
<1> QED
  BY <1>6

(* A datagram arrives.                                                     *)
LEMMA ReceiveDatagramStep ==
    ASSUME DeliveryInv, NEW p \in net, ReceiveDatagram(p)
    PROVE  DeliveryInv'
<1>1. /\ TypeOK /\ BufferHolds /\ ListMatchesBuffer /\ NetworkCarries /\ ParsingCarries
      /\ AcksAreRecent /\ HistoryFits /\ HistoryMeans /\ EntriesDescribe /\ AnswersAscend
      /\ NoLostMessage /\ W!WindowInv
  BY DEF DeliveryInv
<1> DEFINE skipped == Skipped(p.num)
           count == IF skipped > SkipCap THEN SkipCap ELSE skipped
<1>2. /\ p.type = "data" /\ net' \subseteq net /\ parsing = <<>>
      /\ UNCHANGED <<senderVars, windowVars>>
  BY DEF ReceiveDatagram, Arrives, Idle
<1>3. /\ UNCHANGED <<sentCount, sendReliableMessageNumberIndex, resendBuffer, resendList, due>>
      /\ UNCHANGED <<datagramHistory, datagramHistoryPopCount, nextDatagramSequenceNumber>>
      /\ UNCHANGED <<connection, receivedPacketsBaseIndex, hasReceivedPacketQueue, outputQueue>>
      /\ UNCHANGED <<historyVars, windowVars>>
  BY <1>2 DEF senderVars, bufferVars, historyVars, windowVars
<1>4. CASE skipped > SkipCap /\ skipped > SkipReject
  <2>1. UNCHANGED <<answerVars, parsing>>
    BY <1>4 DEF ReceiveDatagram
  <2>2. /\ connection' \in {"open", "dead", "flagged"} /\ due' \subseteq ToSet(resendList)
        /\ UNCHANGED receiverVars
    BY <1>1, <1>3, <2>1 DEF TypeOK, receiverVars
  <2> QED
    BY <1>2, <1>3, <2>2, NetShrinks
<1>5. CASE ~(skipped > SkipCap /\ skipped > SkipReject)
  <2>1. /\ expectedNextSequenceNumber' = IF IsAhead(p.num) THEN Plus(p.num, 1)
                                         ELSE expectedNextSequenceNumber
        /\ NAKs' = InsertSkipped(NAKs, p.num, count)
        /\ acknowlegements' = Inserted(acknowlegements, p.num)
        /\ parsing' = p.messages
    BY <1>5 DEF ReceiveDatagram
  <2>2. p \in Datagrams /\ p.num \in Number /\ p.messages \in Seq(Message)
    <3>1. "data" \notin {"ack", "nak"}
      OBVIOUS
    <3> QED
      BY <1>1, <1>2, <3>1 DEF Datagrams, TypeOK
  <2>3. /\ acknowlegements \in AscendingLists /\ NAKs \in AscendingLists
        /\ expectedNextSequenceNumber \in Number
    BY <1>1 DEF TypeOK, AnswersAscend, AscendingLists
  <2>4. count \in 0 .. NumRange - 1
    <3>1. skipped \in 0 .. NumRange - 1
      <4>1. Minus(p.num, expectedNextSequenceNumber) \in Number
        BY <2>2, <2>3, Differences
      <4>2. 0 \in Number
        BY Sizes DEF Number
      <4> QED
        BY <4>1, <4>2 DEF Skipped, Number
    <3>2. SkipCap \in Nat
      BY DeliveryAssumption
    <3> HIDE DEF skipped
    <3> QED
      BY <3>1, <3>2, Sizes
  <2> HIDE DEF count, skipped
  <2>5. acknowlegements' \in AscendingLists /\ Members(acknowlegements') = Members(acknowlegements) \cup {p.num}
    <3>1. PICK num \in Number : num = p.num
      BY <2>2
    <3> QED
      BY <2>1, <2>3, <3>1, InsertedOne
  <2>6. NAKs' \in AscendingLists
    <3>1. PICK num \in Number : num = p.num
      BY <2>2
    <3> QED
      BY <2>1, <2>3, <2>4, <3>1, InsertSkippedDef
  <2>7. expectedNextSequenceNumber' \in Number
    BY <2>1, <2>2, <2>3, Sizes DEF Plus, Number
  <2>8. Acked' \subseteq Acked \cup {p.num} /\ Datagrams' \subseteq Datagrams
    <3>1. AckPackets' \subseteq AckPackets
      BY <1>2 DEF AckPackets
    <3> QED
      BY <1>2, <2>5, <3>1 DEF Acked, Datagrams
  <2>9. TypeOK'
    <3>1. /\ acknowlegements' \in Seq(RangeNode) /\ NAKs' \in Seq(RangeNode)
      BY <2>5, <2>6 DEF AscendingLists
    <3>2. parsing' \in Seq(Message)
      BY <2>1, <2>2
    <3>3. {sendReliableMessageNumberIndex', datagramHistoryPopCount', nextDatagramSequenceNumber',
           expectedNextSequenceNumber', receivedPacketsBaseIndex'} \subseteq Number
      BY <1>1, <1>3, <2>7 DEF TypeOK
    <3> QED
      BY <1>1, <1>2, <1>3, <3>1, <3>2, <3>3 DEF TypeOK
  <2>10. BufferHolds'
    BY <1>1, <1>3 DEF BufferHolds, IsNumbered, NumberOf
  <2>11. ListMatchesBuffer'
    BY <1>1, <1>3 DEF ListMatchesBuffer
  <2>12. NetworkCarries'
    BY <1>1, <1>3, <2>8 DEF NetworkCarries, Age, IsFresh, IsNumbered, NumberOf
  <2>13. ParsingCarries'
    BY <1>1, <1>3, <2>1, <2>2 DEF ParsingCarries, NetworkCarries, IsFresh, IsNumbered, NumberOf
  <2>14. AcksAreRecent'
    <3>1. Age(p.num) \in 1 .. HalfRange
      BY <1>1, <2>2 DEF NetworkCarries
    <3> QED
      BY <1>1, <1>3, <2>8, <3>1 DEF AcksAreRecent, Age
  <2>15. HistoryFits'
    BY <1>1, <1>3 DEF HistoryFits
  <2>16. HistoryMeans'
    BY <1>2, <1>3, <2>1, <2>2, <2>8, HistoryOnArrival
  <2>17. EntriesDescribe'
    BY <1>1, <1>3, <2>8 DEF EntriesDescribe, HistoryNumber
  <2>18. AnswersAscend'
    BY <2>5, <2>6 DEF AnswersAscend, AscendingLists
  <2>19. NoLostMessage'
    BY <1>1, <1>2, <1>3 DEF NoLostMessage, Delivered
  <2>20. W!WindowInv'
    BY <1>1, <1>3, WindowStays
  <2> QED
    BY <2>9, <2>10, <2>11, <2>12, <2>13, <2>14, <2>15, <2>16, <2>17, <2>18, <2>19, <2>20
       DEF DeliveryInv
<1> QED
  BY <1>4, <1>5

(* The first element of a sequence, and the others.                        *)
LEMMA HeadAndTail ==
    ASSUME NEW S, NEW s \in Seq(S), s # <<>>
    PROVE  /\ Head(s) \in S /\ Head(s) = s[1] /\ 1 \in DOMAIN s
           /\ Tail(s) \in Seq(S)
           /\ \A i \in DOMAIN Tail(s) : i + 1 \in DOMAIN s /\ Tail(s)[i] = s[i + 1]
           /\ \A i \in DOMAIN s : i = 1 \/ (i - 1 \in DOMAIN Tail(s) /\ s[i] = Tail(s)[i - 1])
OBVIOUS

(* The operators of the window are the same in both modules.               *)
LEMMA SameOperators ==
    /\ \A a, b : W!Plus(a, b) = Plus(a, b) /\ W!Minus(a, b) = Minus(a, b)
    /\ W!Number = Number
    /\ \A num, b, q : W!IsAccepted(num, b, q) <=> IsAccepted(num, b, q)
    /\ \A num, b, q : W!MarkReceived(num, b, q) = MarkReceived(num, b, q)
    /\ \A q : W!LeadingReceived(q) = LeadingReceived(q) /\ W!PopLeading(q) = PopLeading(q)
<1>1. \A a, b : W!Plus(a, b) = Plus(a, b) /\ W!Minus(a, b) = Minus(a, b)
  BY DEF W!Plus, Plus, W!Minus, Minus
<1>2. W!Number = Number
  BY DEF W!Number, Number
<1>3. \A num, b, q : W!IsAccepted(num, b, q) <=> IsAccepted(num, b, q)
  BY DEF W!IsAccepted, IsAccepted, W!HoleCount, HoleCount, W!Minus, Minus,
         W!HalfRange, HalfRange, W!MaxNumber, MaxNumber
<1>4. \A num, b, q : W!MarkReceived(num, b, q) = MarkReceived(num, b, q)
  BY DEF W!MarkReceived, MarkReceived, W!HoleCount, HoleCount, W!Minus, Minus
<1>5. \A q : W!LeadingReceived(q) = LeadingReceived(q)
  BY DEF W!LeadingReceived, LeadingReceived
<1>6. \A q : W!PopLeading(q) = PopLeading(q)
  BY DEF W!PopLeading, PopLeading, W!LeadingReceived, LeadingReceived
<1> QED
  BY <1>1, <1>2, <1>3, <1>4, <1>5, <1>6

(* An accepted message moves the base by what the closing loop pops.       *)
LEMMA BaseMoves ==
    ASSUME TypeOK, W!WindowInv, NEW m \in 0 .. sentCount - 1, m + MaxAge >= sentCount,
           IsAccepted(NumberOf(m), receivedPacketsBaseIndex, hasReceivedPacketQueue),
           NEW popped,
           popped = LeadingReceived(MarkReceived(NumberOf(m), receivedPacketsBaseIndex,
                                                 hasReceivedPacketQueue))
    PROVE  sentCount - Minus(sendReliableMessageNumberIndex, Plus(receivedPacketsBaseIndex, popped))
              = BaseMessage + popped
<1> DEFINE s == sendReliableMessageNumberIndex
           b == receivedPacketsBaseIndex
           old == hasReceivedPacketQueue
           num == NumberOf(m)
           h == Minus(num, b)
           q == MarkReceived(num, b, old)
           wire == [i \in 1 .. sentCount |-> NumberOf(i - 1)]
<1>1. /\ s \in Number /\ b \in Number /\ old \in Seq(BOOLEAN) /\ sentCount \in Nat
      /\ m \in Nat /\ m < sentCount
  BY DEF TypeOK
<1>2. /\ BaseMessage \in Nat /\ BaseMessage <= sentCount /\ sentCount - BaseMessage <= ResendLen
  BY WindowFacts
<1>3. Len(old) <= sentCount - BaseMessage
  BY DEF W!WindowInv
<1>4. num \in Number
  BY <1>1, NumIsNumber DEF NumberOf, Num
<1>5. m >= BaseMessage /\ h = m - BaseMessage
  <2>1. m \notin W!Delivered
    BY AcceptedWhenMissing, SameDelivered
  <2>2. m + MaxAge >= BaseMessage
    BY <1>1, <1>2, Sizes
  <2>3. m >= BaseMessage /\ W!Minus(wire[m + 1], b) = m - BaseMessage
    BY <2>1, <2>2, WindowAssumptions, W!AcceptedIffMissing
  <2>4. wire[m + 1] = num
    <3>1. m + 1 \in 1 .. sentCount /\ (m + 1) - 1 = m
      BY <1>1
    <3> QED
      BY <3>1
  <2> HIDE DEF wire, num
  <2> QED
    BY <2>3, <2>4, SameOperators
<1>6. q \in Seq(BOOLEAN) /\ Len(q) <= sentCount - BaseMessage
  <2>1. PICK len \in Nat : len = IF h < Len(old) THEN Len(old) ELSE h + 1
    <3>1. h \in Nat /\ Len(old) \in Nat
      BY <1>1, <1>2, <1>5
    <3> QED
      BY <3>1
  <2>2. PICK g \in Nat : g = h
    BY <1>1, <1>2, <1>5
  <2>3. num \in W!Number /\ b \in W!Number /\ g = W!Minus(num, b)
        /\ len = IF g < Len(old) THEN Len(old) ELSE g + 1
    BY <1>1, <1>4, <2>1, <2>2, SameOperators
  <2>4. W!MarkReceived(num, b, old) \in Seq(BOOLEAN) /\ Len(W!MarkReceived(num, b, old)) = len
    <3> HIDE DEF num, b, old, h, q
    <3> QED
      BY <1>1, <2>3, WindowAssumptions, W!MarkReceivedDef
  <2>5. len <= sentCount - BaseMessage
    BY <1>1, <1>2, <1>3, <1>5, <2>1
  <2> QED
    BY <2>4, <2>5, SameOperators
<1> HIDE DEF q
<1>7. popped \in Nat /\ popped <= sentCount - BaseMessage
  <2>1. W!LeadingReceived(q) \in 0 .. Len(q)
    BY <1>6, WindowAssumptions, W!LeadingReceivedDef
  <2>2. popped = LeadingReceived(q)
    BY DEF q, num, b, old
  <2>3. popped \in 0 .. Len(q) /\ Len(q) \in Nat
    BY <1>6, <2>1, <2>2, SameOperators
  <2> QED
    BY <1>1, <1>2, <1>6, <2>3
<1>8. Minus(s, b) = sentCount - BaseMessage
  <2>1. Minus(s, b) \in Int
    BY <1>1, Differences DEF Number
  <2> QED
    BY <1>1, <2>1 DEF BaseMessage
<1>9. Minus(s, Plus(b, popped)) = Minus(s, b) - popped
  <2> HIDE DEF s, b
  <2> QED
    BY <1>1, <1>2, <1>7, <1>8, Sizes DEF Minus, Plus, Number
<1> QED
  BY <1>1, <1>2, <1>7, <1>8, <1>9

(* The message being parsed was sent, and is in time.                      *)
LEMMA HeadIsFresh ==
    ASSUME DeliveryInv, parsing # <<>>
    PROVE  /\ Head(parsing) \in Message
           /\ Head(parsing).id \in 0 .. sentCount - 1
           /\ Head(parsing).id + MaxAge >= sentCount
           /\ Head(parsing).num = NumberOf(Head(parsing).id)
<1>1. parsing \in Seq(Message)
  BY DEF DeliveryInv, TypeOK
<1>2. Head(parsing) \in Message /\ Head(parsing) = parsing[1] /\ 1 \in DOMAIN parsing
  BY <1>1, HeadAndTail
<1>3. IsFresh(parsing[1])
  BY <1>2 DEF DeliveryInv, ParsingCarries
<1> QED
  BY <1>2, <1>3 DEF IsFresh, IsNumbered

(* Parsing a message is a step of the window.                              *)
LEMMA ParseMaps ==
    ASSUME DeliveryInv, ParseMessage
    PROVE  /\ [W!Next]_(W!vars)
           /\ UNCHANGED <<sentCount, sendReliableMessageNumberIndex>>
<1>1. TypeOK /\ W!WindowInv
  BY DEF DeliveryInv
<1>2. PICK m : /\ m = Head(parsing).id /\ m \in 0 .. sentCount - 1 /\ m + MaxAge >= sentCount
               /\ Head(parsing).num = NumberOf(m)
  BY HeadIsFresh DEF ParseMessage
<1> DEFINE b == receivedPacketsBaseIndex
           old == hasReceivedPacketQueue
           num == NumberOf(m)
           queue == MarkReceived(num, b, old)
           wire == [i \in 1 .. sentCount |-> NumberOf(i - 1)]
<1>3. UNCHANGED <<sentCount, sendReliableMessageNumberIndex>>
  BY DEF ParseMessage, senderVars, bufferVars
<1>4. CASE ~IsAccepted(num, b, old)
  <2>1. UNCHANGED windowVars
    BY <1>2, <1>4 DEF ParseMessage
  <2> QED
    BY <1>1, <1>3, <2>1, WindowStays
<1>5. CASE IsAccepted(num, b, old)
  <2>1. /\ hasReceivedPacketQueue' = PopLeading(queue)
        /\ receivedPacketsBaseIndex' = Plus(b, LeadingReceived(queue))
        /\ outputQueue' = Append(outputQueue, m)
    BY <1>2, <1>5 DEF ParseMessage
  <2>2. PICK popped : popped = LeadingReceived(queue)
    OBVIOUS
  <2>3. BaseMessage' = BaseMessage + popped
    <3>1. sentCount - Minus(sendReliableMessageNumberIndex, Plus(b, popped)) = BaseMessage + popped
      BY <1>1, <1>2, <1>5, <2>2, BaseMoves
    <3>2. BaseMessage' = sentCount - Minus(sendReliableMessageNumberIndex, Plus(b, popped))
      BY <1>3, <2>1, <2>2 DEF BaseMessage
    <3> QED
      BY <3>1, <3>2
  <2>4. wire[m + 1] = num
    <3>1. m + 1 \in 1 .. sentCount /\ (m + 1) - 1 = m
      BY SMTT(60), <1>1, <1>2 DEF TypeOK
    <3> QED
      BY <3>1
  <2>5. wire' = wire
    BY <1>3 DEF NumberOf
  <2>6. m + MaxAge >= BaseMessage
    BY <1>1, <1>2, WindowFacts, Sizes
  <2>7. /\ W!IsAccepted(num, b, old)
        /\ W!MarkReceived(num, b, old) = queue
        /\ W!LeadingReceived(queue) = popped
        /\ W!PopLeading(queue) = PopLeading(queue)
        /\ W!Plus(b, popped) = Plus(b, popped)
    BY <1>5, <2>2, SameOperators
  <2> HIDE DEF wire, num, queue
  <2>8. /\ W!IsAccepted(wire[m + 1], b, old)
        /\ hasReceivedPacketQueue' = W!PopLeading(W!MarkReceived(wire[m + 1], b, old))
        /\ receivedPacketsBaseIndex'
              = W!Plus(b, W!LeadingReceived(W!MarkReceived(wire[m + 1], b, old)))
        /\ BaseMessage' = BaseMessage + W!LeadingReceived(W!MarkReceived(wire[m + 1], b, old))
    BY <2>1, <2>2, <2>3, <2>4, <2>7
  <2>9. W!ReceiveMessage(m)
    BY <1>3, <2>1, <2>5, <2>6, <2>8 DEF W!ReceiveMessage, wire
  <2> QED
    BY <1>2, <1>3, <2>9 DEF W!Next
<1> QED
  BY <1>3, <1>4, <1>5

(* A message of a datagram is parsed: the receiver has what it had.        *)
LEMMA ParseKeeps ==
    ASSUME DeliveryInv, ParseMessage
    PROVE  /\ Delivered' = Delivered \cup {Head(parsing).id}
           /\ outputQueue' \in Seq(0 .. MaxMessages - 1)
           /\ Have' = Have
<1>1. /\ outputQueue \in Seq(0 .. MaxMessages - 1) /\ parsing \in Seq(Message)
      /\ parsing # <<>> /\ parsing' = Tail(parsing)
      /\ sentCount \in 0 .. MaxMessages
  BY DEF DeliveryInv, TypeOK, ParseMessage
<1>2. PICK m : /\ m = Head(parsing).id /\ m \in 0 .. sentCount - 1 /\ m + MaxAge >= sentCount
               /\ Head(parsing).num = NumberOf(m)
  BY HeadIsFresh DEF ParseMessage
<1> DEFINE b == receivedPacketsBaseIndex
           old == hasReceivedPacketQueue
<1>3. IsAccepted(NumberOf(m), b, old) <=> m \notin Delivered
  BY <1>2, AcceptedWhenMissing DEF DeliveryInv
<1>4. Delivered' = Delivered \cup {m} /\ outputQueue' \in Seq(0 .. MaxMessages - 1)
  <2>1. CASE ~IsAccepted(NumberOf(m), b, old)
    <3>1. outputQueue' = outputQueue
      BY <1>2, <2>1 DEF ParseMessage, windowVars
    <3> QED
      BY <1>1, <1>3, <2>1, <3>1 DEF Delivered
  <2>2. CASE IsAccepted(NumberOf(m), b, old)
    <3>1. outputQueue' = Append(outputQueue, m)
      BY <1>2, <2>2 DEF ParseMessage
    <3>2. m \in 0 .. MaxMessages - 1
      BY <1>1, <1>2, Sizes
    <3>3. outputQueue' \in Seq(0 .. MaxMessages - 1)
      BY <1>1, <3>1, <3>2
    <3>4. /\ DOMAIN outputQueue' = DOMAIN outputQueue \cup {Len(outputQueue) + 1}
          /\ \A i \in DOMAIN outputQueue : outputQueue'[i] = outputQueue[i]
          /\ outputQueue'[Len(outputQueue) + 1] = m
      BY <1>1, <3>1, <3>2
    <3>5. ToSet(outputQueue') = ToSet(outputQueue) \cup {m}
      BY <3>4 DEF ToSet
    <3> QED
      BY <3>3, <3>5 DEF Delivered
  <2> QED
    BY <2>1, <2>2
<1>5. Have' = Have
  <2> DEFINE tail == Tail(parsing)
  <2>1. /\ parsing[1].id = m /\ 1 \in DOMAIN parsing
        /\ \A i \in DOMAIN tail : i + 1 \in DOMAIN parsing /\ tail[i] = parsing[i + 1]
        /\ \A i \in DOMAIN parsing : i = 1 \/ (i - 1 \in DOMAIN tail /\ parsing[i] = tail[i - 1])
    BY <1>1, <1>2, HeadAndTail
  <2> HIDE DEF tail
  <2>2. {parsing[i].id : i \in DOMAIN parsing} = {tail[i].id : i \in DOMAIN tail} \cup {m}
    BY <2>1
  <2>3. Have' = Delivered' \cup {tail[i].id : i \in DOMAIN tail}
    BY <1>1 DEF Have, tail
  <2> QED
    BY <1>4, <2>2, <2>3 DEF Have
<1> QED
  BY <1>2, <1>4, <1>5

(* A message that the receiver has, or that is in the buffer and the list. *)
IsSafe(id) ==
    \/ id \in Have
    \/ /\ \E s \in 0 .. ResendLen - 1 : resendBuffer[s].id = id /\ Slot(resendBuffer[s].num) = s
       /\ id \in ToSet(resendList)

(* No message is lost if every one is safe.                                *)
LEMMA NoLostIsSafe ==
    ASSUME TypeOK
    PROVE  NoLostMessage <=> \A id \in 0 .. sentCount - 1 : IsSafe(id)
<1>1. DOMAIN resendBuffer = 0 .. ResendLen - 1
  BY DEF TypeOK
<1>2. \A id : id \in Have <=> id \in Delivered \/ \E i \in DOMAIN parsing : parsing[i].id = id
  BY DEF Have
<1> QED
  BY <1>1, <1>2 DEF NoLostMessage, IsSafe

(* The same after a step.                                                  *)
LEMMA SafeAfterwards ==
    ASSUME TypeOK', \A id \in 0 .. sentCount' - 1 : IsSafe(id)'
    PROVE  NoLostMessage'
<1>1. DOMAIN resendBuffer' = 0 .. ResendLen - 1
  BY DEF TypeOK
<1>2. \A id : id \in Have' <=> id \in Delivered' \/ \E i \in DOMAIN parsing' : parsing'[i].id = id
  BY DEF Have
<1> QED
  BY <1>1, <1>2 DEF NoLostMessage, IsSafe

(* The invariant while a datagram is parsed.                               *)
LEMMA ParseMessageStep ==
    ASSUME DeliveryInv, ParseMessage
    PROVE  DeliveryInv'
<1>1. /\ TypeOK /\ BufferHolds /\ ListMatchesBuffer /\ NetworkCarries /\ ParsingCarries
      /\ AcksAreRecent /\ HistoryFits /\ HistoryMeans /\ EntriesDescribe /\ AnswersAscend
      /\ NoLostMessage /\ W!WindowInv
  BY DEF DeliveryInv
<1>2. /\ UNCHANGED <<sentCount, sendReliableMessageNumberIndex, resendBuffer, resendList, due>>
      /\ UNCHANGED <<datagramHistory, datagramHistoryPopCount, nextDatagramSequenceNumber>>
      /\ UNCHANGED <<connection, net, expectedNextSequenceNumber, acknowlegements, NAKs>>
      /\ parsing # <<>> /\ parsing' = Tail(parsing) /\ parsing \in Seq(Message)
  BY <1>1 DEF ParseMessage, senderVars, bufferVars, historyVars, answerVars, TypeOK
<1>3. Have' = Have /\ outputQueue' \in Seq(0 .. MaxMessages - 1)
  BY ParseKeeps
<1>4. W!WindowInv'
  BY <1>1, ParseMaps, WindowAssumptions, W!WindowStep
<1>5. receivedPacketsBaseIndex' \in Number /\ hasReceivedPacketQueue' \in Seq(BOOLEAN)
  BY <1>4, SameOperators DEF W!WindowInv, W!TypeOK
<1>6. /\ Tail(parsing) \in Seq(Message)
      /\ \A i \in DOMAIN Tail(parsing) : i + 1 \in DOMAIN parsing /\ Tail(parsing)[i] = parsing[i + 1]
  BY <1>2, HeadAndTail
<1>7. TypeOK'
  <2>1. {sendReliableMessageNumberIndex', datagramHistoryPopCount', nextDatagramSequenceNumber',
         expectedNextSequenceNumber', receivedPacketsBaseIndex'} \subseteq Number
    BY <1>1, <1>2, <1>5 DEF TypeOK
  <2> QED
    BY <1>1, <1>2, <1>3, <1>5, <1>6, <2>1 DEF TypeOK
<1>8. BufferHolds'
  BY <1>1, <1>2 DEF BufferHolds, IsNumbered, NumberOf
<1>9. ListMatchesBuffer'
  BY <1>1, <1>2 DEF ListMatchesBuffer
<1>10. NetworkCarries'
  BY <1>1, <1>2 DEF NetworkCarries, Age, IsFresh, IsNumbered, NumberOf, Datagrams
<1>11. ParsingCarries'
  <2>1. \A i \in DOMAIN Tail(parsing) : IsFresh(Tail(parsing)[i])
    BY <1>1, <1>6 DEF ParsingCarries
  <2> QED
    BY <1>2, <2>1 DEF ParsingCarries, IsFresh, IsNumbered, NumberOf
<1>12. AcksAreRecent' /\ Acked' = Acked
  BY <1>1, <1>2 DEF AcksAreRecent, Age, Acked, AckPackets
<1>13. HistoryFits'
  BY <1>1, <1>2 DEF HistoryFits
<1>14. HistoryMeans'
  BY <1>1, <1>2, <1>3, <1>12, HistoryKept
<1>15. EntriesDescribe'
  BY <1>1, <1>2 DEF EntriesDescribe, HistoryNumber, Datagrams
<1>16. AnswersAscend'
  BY <1>1, <1>2 DEF AnswersAscend
<1>17. NoLostMessage'
  <2>1. \A id \in 0 .. sentCount - 1 : IsSafe(id)
    BY <1>1, NoLostIsSafe
  <2>2. \A id : IsSafe(id) => IsSafe(id)'
    BY <1>2, <1>3 DEF IsSafe
  <2> QED
    BY <1>2, <1>7, <2>1, <2>2, SafeAfterwards
<1> QED
  BY <1>4, <1>7, <1>8, <1>9, <1>10, <1>11, <1>12, <1>13, <1>14, <1>15, <1>16, <1>17
     DEF DeliveryInv

-----------------------------------------------------------------------------
(* The sender hears an acknowledgement.                                    *)

(* What the slots hold.                                                    *)
LEMMA SlotsHold == ToSet(Slots) = {resendBuffer[s] : s \in 0 .. ResendLen - 1}
<1>1. ResendLen \in Nat
  BY Sizes
<1>2. DOMAIN Slots = 1 .. ResendLen /\ \A t \in 1 .. ResendLen : Slots[t] = resendBuffer[t - 1]
  BY DEF Slots
<1>3. \A t \in 1 .. ResendLen : t - 1 \in 0 .. ResendLen - 1
  BY <1>1
<1>4. \A s \in 0 .. ResendLen - 1 : s + 1 \in 1 .. ResendLen /\ (s + 1) - 1 = s
  BY <1>1
<1>5. ASSUME NEW x \in ToSet(Slots) PROVE x \in {resendBuffer[s] : s \in 0 .. ResendLen - 1}
  <2>1. PICK t \in 1 .. ResendLen : x = resendBuffer[t - 1]
    BY <1>2 DEF ToSet
  <2> QED
    BY <1>3, <2>1
<1>6. ASSUME NEW s \in 0 .. ResendLen - 1 PROVE resendBuffer[s] \in ToSet(Slots)
  <2>1. PICK t \in 1 .. ResendLen : t - 1 = s
    BY <1>4
  <2>2. Slots[t] = resendBuffer[s] /\ t \in DOMAIN Slots
    BY <1>2, <2>1
  <2> QED
    BY <2>2, InToSet
<1> QED
  BY <1>5, <1>6

(* A message is in one slot only.                                          *)
LEMMA SlotIsUnique ==
    ASSUME BufferHolds, NEW s \in 0 .. ResendLen - 1, NEW t \in 0 .. ResendLen - 1,
           resendBuffer[s] # Empty, resendBuffer[t] # Empty,
           resendBuffer[s].id = resendBuffer[t].id
    PROVE  s = t
BY DEF BufferHolds, IsNumbered

(* What is in a slot has an id, an empty slot has none.                    *)
LEMMA IdOfSlot ==
    ASSUME TypeOK, BufferHolds, NEW s \in 0 .. ResendLen - 1
    PROVE  /\ resendBuffer[s] # Empty =>
                resendBuffer[s].id \in 0 .. sentCount - 1 /\ resendBuffer[s].id # Empty.id
           /\ resendBuffer[s] = Empty => resendBuffer[s].id = Empty.id /\ Empty.id = -1
<1>1. Empty.id = -1
  BY DEF Empty
<1>2. resendBuffer[s] # Empty => resendBuffer[s].id \in 0 .. sentCount - 1
  BY DEF BufferHolds, IsNumbered
<1>3. sentCount \in Nat
  BY DEF TypeOK
<1> QED
  BY <1>1, <1>2, <1>3

(* What an acknowledgement names.                                          *)
LEMMA HandledAreMembers ==
    ASSUME NEW list \in Seq(RangeNode), NEW d \in Handled(list)
    PROVE  d \in Number /\ InHistory(d) /\ d \in Members(list)
<1>1. d \in Examined(list)
  BY DEF Handled
<1>2. d \in Nat /\ d <= d
  BY <1>1, Sizes DEF Examined, Members, Number
<1>3. InHistory(d)
  BY <1>1, <1>2 DEF Handled
<1>4. CASE ~LastIsReserved(list)
  BY <1>1, <1>3, <1>4 DEF Examined, Members
<1>5. CASE LastIsReserved(list)
  <2> DEFINE front == SubSeq(list, 1, Len(list) - 1)
  <2>1. d \in Members(front)
    BY <1>1, <1>5 DEF Examined
  <2>2. Len(list) \in Nat /\ Len(list) >= 1 /\ DOMAIN list = 1 .. Len(list)
    BY <1>5 DEF LastIsReserved
  <2>3. /\ DOMAIN front \subseteq DOMAIN list
        /\ \A i \in DOMAIN front : front[i] = list[i]
    <3>1. CASE Len(list) = 1
      <4>1. front = <<>>
        BY <3>1
      <4> QED
        BY <4>1
    <3>2. CASE Len(list) > 1
      BY <2>2, <3>2
    <3> QED
      BY <2>2, <3>1, <3>2
  <2> HIDE DEF front
  <2>4. d \in Members(list)
    BY <2>1, <2>3 DEF Members, IsWithinRange
  <2> QED
    BY <1>3, <2>4 DEF Members
<1> QED
  BY <1>4, <1>5

(* The receiver has every message an acknowledgement removes.              *)
LEMMA RemovedIsReceived ==
    ASSUME DeliveryInv, NEW p \in AckPackets, NEW d \in Handled(p.ranges),
           NEW s \in 0 .. ResendLen - 1, resendBuffer[s] # Empty,
           resendBuffer[s].num \in MessagesOfDatagram(d)
    PROVE  resendBuffer[s].id \in Have
<1>1. TypeOK /\ BufferHolds /\ HistoryFits /\ HistoryMeans
  BY DEF DeliveryInv
<1>2. p.ranges \in Seq(RangeNode)
  <2>1. p \in net /\ p.type = "ack" /\ p.type # "data"
    BY DEF AckPackets
  <2> QED
    BY <1>1, <2>1 DEF TypeOK
<1>3. d \in Number /\ InHistory(d) /\ d \in Acked
  BY <1>2, HandledAreMembers DEF Acked
<1>4. PICK i \in DOMAIN datagramHistory :
        HistoryNumber(i) = d /\ MessagesOfDatagram(d) = datagramHistory[i]
  BY <1>1, <1>3, InHistoryDef
<1>5. PICK id \in Nat : EntryNames(i, resendBuffer[s].num, id)
  BY <1>1, <1>4 DEF HistoryMeans
<1>6. id \in Have
  BY <1>3, <1>4, <1>5 DEF EntryNames
<1>7. PICK m \in 0 .. sentCount - 1 : /\ m = resendBuffer[s].id /\ resendBuffer[s].num = NumberOf(m)
                                      /\ m + ResendLen >= sentCount
  BY <1>1 DEF BufferHolds, IsNumbered
<1>8. m + MaxAge >= sentCount
  <2>1. sentCount \in Nat
    BY <1>1 DEF TypeOK
  <2> QED
    BY <1>7, <2>1, Sizes
<1>9. id = m
  BY <1>1, <1>5, <1>7, <1>8, EntryIsMessage
<1> QED
  BY <1>6, <1>7, <1>9

(* An acknowledgement takes received messages out of buffer and list.      *)
LEMMA ReceiveAckStep ==
    ASSUME DeliveryInv, NEW p \in net, ReceiveAck(p)
    PROVE  DeliveryInv'
<1>1. /\ TypeOK /\ BufferHolds /\ ListMatchesBuffer /\ NetworkCarries /\ ParsingCarries
      /\ AcksAreRecent /\ HistoryFits /\ HistoryMeans /\ EntriesDescribe /\ AnswersAscend
      /\ NoLostMessage /\ W!WindowInv
  BY DEF DeliveryInv
<1>2. PICK acked, removed, ids :
        /\ acked = IF datagramHistory = <<>> THEN {} ELSE Handled(p.ranges)
        /\ removed = Acknowledged(UNION {MessagesOfDatagram(d) : d \in acked})
        /\ ids = {m.id : m \in removed}
        /\ resendBuffer' = [s \in DOMAIN resendBuffer |->
              IF resendBuffer[s] \in removed THEN Empty ELSE resendBuffer[s]]
        /\ resendList' = Without(resendList, ids)
        /\ due' = due \ ids
        /\ datagramHistory' = [i \in DOMAIN datagramHistory |->
              IF Plus(datagramHistoryPopCount, i - 1) \in acked THEN {} ELSE datagramHistory[i]]
  BY DEF ReceiveAck
<1>3. /\ p.type = "ack" /\ net' \subseteq net /\ parsing = <<>>
      /\ connection' \in {"open", "dead", "flagged"}
      /\ UNCHANGED <<sentCount, sendReliableMessageNumberIndex, datagramHistoryPopCount,
                     nextDatagramSequenceNumber, receiverVars>>
  BY DEF ReceiveAck, Arrives, Idle
<1>4. /\ UNCHANGED <<expectedNextSequenceNumber, acknowlegements, NAKs, parsing>>
      /\ UNCHANGED <<receivedPacketsBaseIndex, hasReceivedPacketQueue, outputQueue>>
      /\ UNCHANGED <<sentCount, sendReliableMessageNumberIndex, windowVars>>
      /\ UNCHANGED <<datagramHistoryPopCount, nextDatagramSequenceNumber>>
  BY <1>3 DEF receiverVars, answerVars, windowVars
<1>5. /\ \A s \in 0 .. ResendLen - 1 : resendBuffer[s] \in removed =>
                resendBuffer[s] # Empty /\ resendBuffer[s].id \in Have
      /\ \A m \in removed : \E s \in 0 .. ResendLen - 1 : m = resendBuffer[s]
  <2>1. \A m \in removed : /\ m \in ToSet(Slots) /\ m # Empty
                           /\ \E d \in acked : m.num \in MessagesOfDatagram(d)
    BY <1>2 DEF Acknowledged
  <2>2. p \in AckPackets
    BY <1>3 DEF AckPackets
  <2>3. \A d \in acked : d \in Handled(p.ranges)
    BY <1>2
  <2>4. ASSUME NEW s \in 0 .. ResendLen - 1, resendBuffer[s] \in removed
        PROVE  resendBuffer[s] # Empty /\ resendBuffer[s].id \in Have
    <3>1. PICK d \in acked : resendBuffer[s].num \in MessagesOfDatagram(d)
      BY <2>1, <2>4
    <3>2. d \in Handled(p.ranges) /\ resendBuffer[s] # Empty
      BY <2>1, <2>3, <2>4
    <3> QED
      BY <2>2, <3>1, <3>2, RemovedIsReceived
  <2> QED
    BY <2>1, <2>4, SlotsHold
<1>6. DOMAIN resendBuffer = 0 .. ResendLen - 1
  BY <1>1 DEF TypeOK
<1>7. /\ DOMAIN resendBuffer' = 0 .. ResendLen - 1
      /\ \A s \in 0 .. ResendLen - 1 :
            resendBuffer'[s] = IF resendBuffer[s] \in removed THEN Empty ELSE resendBuffer[s]
  BY <1>2, <1>6
<1>8. ASSUME NEW s \in 0 .. ResendLen - 1, resendBuffer[s] # Empty, resendBuffer[s] \notin removed
      PROVE  resendBuffer[s].id \notin ids
  <2>1. SUFFICES ASSUME resendBuffer[s].id \in ids PROVE FALSE
    OBVIOUS
  <2>2. PICK m \in removed : m.id = resendBuffer[s].id
    BY <1>2, <2>1
  <2>3. PICK t \in 0 .. ResendLen - 1 : m = resendBuffer[t]
    BY <1>5
  <2>4. s = t
    BY <1>1, <1>5, <1>8, <2>2, <2>3, SlotIsUnique
  <2> QED
    BY <1>8, <2>3, <2>4
<1>9. /\ resendList' \in Seq(0 .. MaxMessages - 1)
      /\ ToSet(resendList') = ToSet(resendList) \ ids
      /\ IsDistinct(resendList')
  <2>1. resendList \in Seq(0 .. MaxMessages - 1) /\ IsDistinct(resendList)
    BY <1>1 DEF TypeOK, ListMatchesBuffer, IsDistinct
  <2>2. PICK S : S = 0 .. MaxMessages - 1
    OBVIOUS
  <2>3. PICK list \in Seq(S) : list = resendList
    BY <2>1, <2>2
  <2>4. /\ Without(list, ids) \in Seq(S)
        /\ ToSet(Without(list, ids)) = ToSet(list) \ ids
        /\ IsDistinct(list) => IsDistinct(Without(list, ids))
    BY WithoutDef
  <2> QED
    BY <1>2, <2>1, <2>2, <2>3, <2>4
<1>10. /\ datagramHistory \in Seq(SUBSET Number)
       /\ datagramHistory' \in Seq(SUBSET Number)
       /\ DOMAIN datagramHistory' = DOMAIN datagramHistory
       /\ Len(datagramHistory') = Len(datagramHistory)
       /\ \A i \in DOMAIN datagramHistory :
             datagramHistory'[i] = {} \/ datagramHistory'[i] = datagramHistory[i]
  <2>1. datagramHistory \in Seq(SUBSET Number)
    BY <1>1 DEF TypeOK
  <2>2. PICK len \in Nat : /\ len = Len(datagramHistory) /\ DOMAIN datagramHistory = 1 .. len
                           /\ \A i \in 1 .. len : datagramHistory[i] \in SUBSET Number
    BY <2>1
  <2>3. DOMAIN datagramHistory' = 1 .. len
    BY <1>2, <2>2
  <2>4. \A i \in 1 .. len : datagramHistory'[i] = {} \/ datagramHistory'[i] = datagramHistory[i]
    BY <1>2, <2>2
  <2>5. datagramHistory' \in [1 .. len -> SUBSET Number]
    <3>1. datagramHistory' = [i \in 1 .. len |-> datagramHistory'[i]]
      BY <1>2, <2>2
    <3>2. \A i \in 1 .. len : datagramHistory'[i] \in SUBSET Number
      BY <2>2, <2>4
    <3> QED
      BY <3>1, <3>2
  <2>6. datagramHistory' \in Seq(SUBSET Number) /\ Len(datagramHistory') = len
    BY <2>5
  <2> QED
    BY <2>1, <2>2, <2>3, <2>4, <2>6
<1>11. Acked' \subseteq Acked /\ Datagrams' \subseteq Datagrams /\ Have' = Have
  BY <1>3, <1>4, AckedShrinks DEF Have, Delivered
<1>12. TypeOK'
  <2>1. resendBuffer' \in [0 .. ResendLen - 1 -> Message \cup {Empty}]
    BY <1>1, <1>2, <1>6 DEF TypeOK
  <2>2. due' \subseteq ToSet(resendList')
    BY <1>1, <1>2, <1>9 DEF TypeOK
  <2> QED
    BY <1>1, <1>3, <1>4, <1>9, <1>10, <2>1, <2>2 DEF TypeOK
<1>13. BufferHolds'
  <2>1. SUFFICES ASSUME NEW s \in 0 .. ResendLen - 1, resendBuffer'[s] # Empty
                 PROVE  /\ (IsNumbered(resendBuffer[s]))'
                        /\ Slot(resendBuffer'[s].num) = s
                        /\ resendBuffer'[s].id + ResendLen >= sentCount'
    BY DEF BufferHolds
  <2>2. resendBuffer'[s] = resendBuffer[s]
    BY <1>7, <2>1
  <2> QED
    BY <1>1, <1>4, <2>1, <2>2 DEF BufferHolds, IsNumbered, NumberOf
<1>14. ListMatchesBuffer'
  <2>1. ToSet(resendList) = {resendBuffer[s].id : s \in 0 .. ResendLen - 1} \ {Empty.id}
    BY <1>1, <1>6 DEF ListMatchesBuffer
  <2>2. ASSUME NEW x \in ToSet(resendList')
        PROVE  x \in {resendBuffer'[s].id : s \in 0 .. ResendLen - 1} \ {Empty.id}
    <3>1. PICK s \in 0 .. ResendLen - 1 : x = resendBuffer[s].id /\ x # Empty.id /\ x \notin ids
      BY <1>9, <2>1
    <3>2. resendBuffer[s] \notin removed
      BY <1>2, <3>1
    <3>3. resendBuffer'[s] = resendBuffer[s]
      BY <1>7, <3>2
    <3> QED
      BY <3>1, <3>3
  <2>3. ASSUME NEW s \in 0 .. ResendLen - 1, resendBuffer'[s].id # Empty.id
        PROVE  resendBuffer'[s].id \in ToSet(resendList')
    <3>1. resendBuffer[s] \notin removed /\ resendBuffer'[s] = resendBuffer[s]
      BY <1>7, <2>3
    <3>2. resendBuffer[s] # Empty
      BY <2>3, <3>1
    <3>3. resendBuffer[s].id \in ToSet(resendList) /\ resendBuffer[s].id \notin ids
      BY <1>8, <2>1, <2>3, <3>1, <3>2
    <3> QED
      BY <1>9, <3>1, <3>3
  <2>4. ToSet(resendList') = {resendBuffer'[s].id : s \in 0 .. ResendLen - 1} \ {Empty.id}
    BY <2>2, <2>3
  <2> QED
    BY <1>7, <1>9, <2>4 DEF ListMatchesBuffer, IsDistinct
<1>15. NetworkCarries'
  BY <1>1, <1>4, <1>11 DEF NetworkCarries, Age, IsFresh, IsNumbered, NumberOf
<1>16. ParsingCarries'
  BY <1>1, <1>4 DEF ParsingCarries, IsFresh, IsNumbered, NumberOf
<1>17. AcksAreRecent'
  BY <1>1, <1>4, <1>11 DEF AcksAreRecent, Age
<1>18. HistoryFits'
  BY <1>1, <1>4, <1>10 DEF HistoryFits
<1>19. HistoryMeans'
  <2>1. \A i \in DOMAIN datagramHistory : datagramHistory'[i] \subseteq datagramHistory[i]
    BY <1>10
  <2> QED
    BY <1>1, <1>4, <1>10, <1>11, <2>1, HistoryKept
<1>20. EntriesDescribe'
  BY <1>1, <1>4, <1>10, <1>11 DEF EntriesDescribe, HistoryNumber
<1>21. AnswersAscend'
  BY <1>1, <1>4 DEF AnswersAscend
<1>22. NoLostMessage'
  <2>1. ASSUME NEW id \in 0 .. sentCount - 1 PROVE IsSafe(id)'
    <3>1. IsSafe(id)
      BY <1>1, NoLostIsSafe
    <3>2. CASE id \in Have
      BY <1>11, <3>2 DEF IsSafe
    <3>3. CASE id \notin Have
      <4>1. PICK s \in 0 .. ResendLen - 1 : /\ resendBuffer[s].id = id
                                            /\ Slot(resendBuffer[s].num) = s
                                            /\ id \in ToSet(resendList)
        BY <3>1, <3>3 DEF IsSafe
      <4>2. resendBuffer[s] # Empty
        <5>1. id # -1
          BY <1>1 DEF TypeOK
        <5> QED
          BY <4>1, <5>1 DEF Empty
      <4>3. resendBuffer[s] \notin removed
        BY <1>5, <3>3, <4>1
      <4>4. resendBuffer'[s] = resendBuffer[s] /\ id \in ToSet(resendList')
        BY <1>7, <1>8, <1>9, <4>1, <4>2, <4>3
      <4> QED
        BY <4>1, <4>4 DEF IsSafe
    <3> QED
      BY <3>2, <3>3
  <2> QED
    BY <1>4, <1>12, <2>1, SafeAfterwards
<1>23. W!WindowInv'
  BY <1>1, <1>4, WindowStays
<1> QED
  BY <1>12, <1>13, <1>14, <1>15, <1>16, <1>17, <1>18, <1>19, <1>20, <1>21, <1>22, <1>23
     DEF DeliveryInv

-----------------------------------------------------------------------------
(* An update of the sender: numbering.                                     *)

(* The messages an update numbers.                                         *)
LEMMA NewDef ==
    ASSUME TypeOK, NEW n \in 0 .. ResendLen, sentCount + n <= MaxMessages
    PROVE  /\ NewMessages(n) \in Seq(Message) /\ Len(NewMessages(n)) = n
           /\ DOMAIN NewMessages(n) = 1 .. n
           /\ \A i \in 1 .. n :
                 /\ NewMessages(n)[i].id = sentCount + i - 1
                 /\ NewMessages(n)[i].num = NumberOf(sentCount + i - 1)
                 /\ Slot(NewMessages(n)[i].num) \in 0 .. ResendLen - 1
                 /\ NewMessages(n)[i] # Empty
<1> DEFINE s == sendReliableMessageNumberIndex
           new == NewMessages(n)
<1>1. s \in Number /\ sentCount \in Nat /\ n \in Nat
  BY DEF TypeOK
<1>2. /\ DOMAIN new = 1 .. n
      /\ \A i \in 1 .. n : new[i] = [id |-> sentCount + i - 1, num |-> Plus(s, i - 1)]
  BY DEF NewMessages
<1>3. ASSUME NEW i \in 1 .. n
      PROVE  /\ Plus(s, i - 1) = NumberOf(sentCount + i - 1)
             /\ Slot(NumberOf(sentCount + i - 1)) \in 0 .. ResendLen - 1
             /\ Plus(s, i - 1) \in Number
  <2>1. PICK x \in 0 .. NumRange - 1 : x = i - 1
    BY Sizes
  <2>2. Num(s, sentCount, sentCount + x) = Plus(s, x)
    BY <1>1, <2>1, NumOfNew
  <2>3. sentCount + i - 1 = sentCount + x
    BY <1>1, <2>1
  <2>4. PICK id \in Nat : id = sentCount + x
    BY <1>1, <2>1
  <2>5. Slot(Num(s, sentCount, id)) \in 0 .. ResendLen - 1 /\ Num(s, sentCount, id) \in Number
    BY <1>1, SlotOfNum, NumIsNumber
  <2> QED
    BY <2>1, <2>2, <2>3, <2>4, <2>5 DEF NumberOf, Num
<1>4. \A i \in 1 .. n : sentCount + i - 1 \in 0 .. MaxMessages - 1
  BY <1>1, Sizes
<1>5. \A i \in 1 .. n : new[i] \in Message
  BY <1>2, <1>3, <1>4 DEF Message
<1>6. \A i \in 1 .. n : new[i] # Empty
  <2>1. \A i \in 1 .. n : sentCount + i - 1 # -1
    BY <1>1
  <2> QED
    BY <1>2, <2>1 DEF Empty
<1>7. new \in Seq(Message) /\ Len(new) = n
  <2>1. new \in [1 .. n -> Message]
    BY <1>2, <1>5 DEF NewMessages
  <2> QED
    BY <1>1, <2>1
<1> HIDE DEF new
<1>8. ASSUME NEW i \in 1 .. n
      PROVE  new[i].id = sentCount + i - 1 /\ new[i].num = NumberOf(sentCount + i - 1)
  <2>1. new[i].id = sentCount + i - 1 /\ new[i].num = Plus(s, i - 1)
    BY <1>2
  <2> QED
    BY <1>3, <2>1, Zenon
<1> QED
  BY <1>2, <1>3, <1>6, <1>7, <1>8 DEF new

(* Numbering does not change the numbers of messages.                      *)
LEMMA NumbersStay ==
    ASSUME TypeOK, NEW n \in 0 .. ResendLen, sentCount' = sentCount + n,
           sendReliableMessageNumberIndex' = Plus(sendReliableMessageNumberIndex, n)
    PROVE  /\ sendReliableMessageNumberIndex' \in Number
           /\ \A id \in Nat : NumberOf(id)' = NumberOf(id)
<1>1. /\ sendReliableMessageNumberIndex \in Number /\ sentCount \in Nat
      /\ n \in 0 .. NumRange - 1
  <2>1. n \in 0 .. NumRange - 1
    BY Sizes
  <2> QED
    BY <2>1 DEF TypeOK
<1>2. sendReliableMessageNumberIndex' \in Number
  BY <1>1, Sizes DEF Plus, Number
<1>3. ASSUME NEW id \in Nat PROVE NumberOf(id)' = NumberOf(id)
  <2>1. Num(Plus(sendReliableMessageNumberIndex, n), sentCount + n, id)
          = Num(sendReliableMessageNumberIndex, sentCount, id)
    BY <1>1, NumStays
  <2> QED
    BY <2>1 DEF Num, NumberOf
<1> QED
  BY <1>2, <1>3

(* The buffer after new messages were put in their slots.                  *)
BufferGains(n) ==
    /\ resendBuffer' \in [0 .. ResendLen - 1 -> Message \cup {Empty}]
    /\ \A s \in 0 .. ResendLen - 1 :
          /\ resendBuffer[s] # Empty => resendBuffer'[s] = resendBuffer[s]
          /\ resendBuffer'[s] # Empty =>
                \/ resendBuffer'[s] = resendBuffer[s]
                \/ \E i \in 1 .. n : /\ resendBuffer'[s] = NewMessages(n)[i]
                                     /\ Slot(NewMessages(n)[i].num) = s
    /\ \A i \in 1 .. n : resendBuffer'[Slot(NewMessages(n)[i].num)] = NewMessages(n)[i]

(* That is what an update does to the buffer: no slot is overwritten.      *)
LEMMA BufferGainsNew ==
    ASSUME DeliveryInv, NEW n \in 0 .. ResendLen, sentCount + n <= MaxMessages,
           SlotsFree(NewMessages(n)),
           resendBuffer' = [s \in DOMAIN resendBuffer |->
              IF \E i \in DOMAIN NewMessages(n) : Slot(NewMessages(n)[i].num) = s
              THEN NewMessages(n)[CHOOSE i \in DOMAIN NewMessages(n) : Slot(NewMessages(n)[i].num) = s]
              ELSE resendBuffer[s]]
    PROVE  BufferGains(n)
<1>1. TypeOK /\ BufferHolds
  BY DEF DeliveryInv
<1>2. PICK new : new = NewMessages(n)
  OBVIOUS
<1>3. /\ new \in Seq(Message) /\ DOMAIN new = 1 .. n
      /\ \A i \in 1 .. n :
                 /\ new[i].id = sentCount + i - 1
                 /\ new[i].num = NumberOf(sentCount + i - 1)
                 /\ Slot(new[i].num) \in 0 .. ResendLen - 1
                 /\ new[i] # Empty
  BY <1>1, <1>2, NewDef
<1>4. /\ DOMAIN resendBuffer = 0 .. ResendLen - 1
      /\ resendBuffer \in [0 .. ResendLen - 1 -> Message \cup {Empty}]
  BY <1>1 DEF TypeOK
<1>5. \A i \in 1 .. n : resendBuffer[Slot(new[i].num)] = Empty
  BY <1>2, <1>3 DEF SlotsFree
<1>6. ASSUME NEW i \in 1 .. n, NEW j \in 1 .. n, Slot(new[i].num) = Slot(new[j].num)
      PROVE  i = j
  <2>1. /\ sendReliableMessageNumberIndex \in Number /\ sentCount \in Nat
    BY <1>1 DEF TypeOK
  <2>2. PICK a \in Nat, b \in Nat : a = sentCount + i - 1 /\ b = sentCount + j - 1
    BY <2>1
  <2>3. a - b < ResendLen /\ b - a < ResendLen
    BY <2>1, <2>2, Sizes
  <2>4. Slot(Num(sendReliableMessageNumberIndex, sentCount, a))
          = Slot(Num(sendReliableMessageNumberIndex, sentCount, b))
    BY <1>3, <1>6, <2>2 DEF Num, NumberOf
  <2>5. a = b
    BY <2>1, <2>3, <2>4, SlotDiffers
  <2> QED
    BY <2>1, <2>2, <2>5
<1>7. \A s \in 0 .. ResendLen - 1 :
        resendBuffer'[s] = IF \E i \in 1 .. n : Slot(new[i].num) = s
                           THEN new[CHOOSE i \in 1 .. n : Slot(new[i].num) = s]
                           ELSE resendBuffer[s]
  BY <1>2, <1>3, <1>4
<1>8. \A i \in 1 .. n : resendBuffer'[Slot(new[i].num)] = new[i]
  <2>1. SUFFICES ASSUME NEW i \in 1 .. n PROVE resendBuffer'[Slot(new[i].num)] = new[i]
    OBVIOUS
  <2>2. PICK s \in 0 .. ResendLen - 1 : s = Slot(new[i].num)
    BY <1>3
  <2>3. (CHOOSE x \in 1 .. n : Slot(new[x].num) = s) = i
    BY <1>6, <2>2
  <2>4. resendBuffer'[s] = new[CHOOSE x \in 1 .. n : Slot(new[x].num) = s]
    <3>1. \E x \in 1 .. n : Slot(new[x].num) = s
      BY <2>2
    <3> QED
      BY <1>7, <3>1, Zenon
  <2> QED
    BY <2>2, <2>3, <2>4, Zenon
<1>9. ASSUME NEW s \in 0 .. ResendLen - 1
      PROVE  /\ resendBuffer[s] # Empty => resendBuffer'[s] = resendBuffer[s]
             /\ \/ resendBuffer'[s] = resendBuffer[s]
                \/ \E i \in 1 .. n : resendBuffer'[s] = new[i] /\ Slot(new[i].num) = s
  <2>1. CASE \E i \in 1 .. n : Slot(new[i].num) = s
    BY <1>5, <1>8, <2>1
  <2>2. CASE ~\E i \in 1 .. n : Slot(new[i].num) = s
    BY <1>7, <2>2
  <2> QED
    BY <2>1, <2>2
<1>10. resendBuffer' \in [0 .. ResendLen - 1 -> Message \cup {Empty}]
  <2>1. resendBuffer' = [s \in 0 .. ResendLen - 1 |-> resendBuffer'[s]]
    BY <1>4
  <2>2. \A i \in 1 .. n : new[i] \in Message
    BY <1>3
  <2>3. \A s \in 0 .. ResendLen - 1 : resendBuffer'[s] \in Message \cup {Empty}
    BY <1>4, <1>9, <2>2
  <2> QED
    BY <2>1, <2>3
<1> QED
  BY <1>2, <1>8, <1>9, <1>10 DEF BufferGains

(* Every slot still holds what belongs there, and nothing too old.         *)
LEMMA BufferHoldsNew ==
    ASSUME DeliveryInv, NEW n \in 0 .. ResendLen, sentCount + n <= MaxMessages,
           SlotsFree(NewMessages(n)), BufferGains(n), sentCount' = sentCount + n,
           sendReliableMessageNumberIndex' = Plus(sendReliableMessageNumberIndex, n)
    PROVE  BufferHolds'
<1>1. TypeOK /\ BufferHolds
  BY DEF DeliveryInv
<1>2. PICK new : new = NewMessages(n)
  OBVIOUS
<1>3. /\ DOMAIN new = 1 .. n
      /\ \A i \in 1 .. n :
                 /\ new[i].id = sentCount + i - 1
                 /\ new[i].num = NumberOf(sentCount + i - 1)
                 /\ Slot(new[i].num) \in 0 .. ResendLen - 1
                 /\ new[i] # Empty
  BY <1>1, <1>2, NewDef
<1>4. /\ sendReliableMessageNumberIndex \in Number /\ sentCount \in Nat
  BY <1>1 DEF TypeOK
<1>5. \A id \in Nat : NumberOf(id)' = NumberOf(id)
  BY <1>1, NumbersStay
<1>6. SUFFICES ASSUME NEW s \in 0 .. ResendLen - 1, NEW m, m = resendBuffer'[s], m # Empty
               PROVE  /\ m.id \in 0 .. sentCount' - 1
                      /\ m.num = NumberOf(m.id)'
                      /\ Slot(m.num) = s
                      /\ m.id + ResendLen >= sentCount'
  BY DEF BufferHolds, IsNumbered, NumberOf
<1>7. CASE m = resendBuffer[s]
  <2>1. /\ m.id \in 0 .. sentCount - 1 /\ m.num = NumberOf(m.id)
        /\ Slot(m.num) = s /\ m.id + ResendLen >= sentCount
    BY <1>1, <1>6, <1>7 DEF BufferHolds, IsNumbered
  <2>2. PICK id \in Nat : id = m.id
    BY <2>1
  <2>3. id + ResendLen >= sentCount + n
    <3>1. SUFFICES ASSUME id + ResendLen < sentCount + n PROVE FALSE
      BY <1>4, <2>2, Sizes
    <3>2. PICK i \in 1 .. n : sentCount + i - 1 = id + ResendLen
      <4>1. (id + ResendLen - sentCount) + 1 \in 1 .. n
        BY <1>4, <2>1, <2>2, <3>1, Sizes
      <4>2. sentCount + ((id + ResendLen - sentCount) + 1) - 1 = id + ResendLen
        BY <1>4, Sizes
      <4> QED
        BY <4>1, <4>2
    <3>3. Slot(NumberOf(id + ResendLen)) = Slot(NumberOf(id))
      BY <1>4, SlotRecurs DEF NumberOf, Num
    <3>4. Slot(new[i].num) = s
      BY <1>3, <2>1, <2>2, <3>2, <3>3
    <3>5. resendBuffer[s] = Empty
      BY <1>2, <1>3, <3>4 DEF SlotsFree
    <3> QED
      BY <1>6, <1>7, <3>5
  <2> QED
    BY <1>4, <1>5, <2>1, <2>2, <2>3
<1>8. CASE \E i \in 1 .. n : m = new[i] /\ Slot(new[i].num) = s
  <2>1. PICK i \in 1 .. n : m = new[i] /\ Slot(new[i].num) = s
    BY <1>8
  <2>2. PICK id \in Nat : id = sentCount + i - 1
    BY <1>4
  <2>3. id \in 0 .. sentCount' - 1 /\ id + ResendLen >= sentCount'
    BY <1>4, <2>2, Sizes
  <2> QED
    BY <1>3, <1>5, <2>1, <2>2, <2>3
<1> QED
  BY <1>2, <1>6, <1>7, <1>8 DEF BufferGains

(* The list after an update matches the buffer.                            *)
LEMMA ListMatchesNew ==
    ASSUME DeliveryInv, NEW k \in 0 .. Len(resendList), NEW n \in 0 .. ResendLen,
           sentCount + n <= MaxMessages, BufferGains(n), resendList' = Requeued(k, NewMessages(n))
    PROVE  /\ ListMatchesBuffer'
           /\ resendList' \in Seq(0 .. MaxMessages - 1)
           /\ ToSet(resendList') = ToSet(resendList) \cup {sentCount + i - 1 : i \in 1 .. n}
<1>1. TypeOK /\ BufferHolds /\ ListMatchesBuffer
  BY DEF DeliveryInv
<1>2. PICK new : new = NewMessages(n)
  OBVIOUS
<1>3. /\ DOMAIN new = 1 .. n
      /\ \A i \in 1 .. n :
                 /\ new[i].id = sentCount + i - 1
                 /\ Slot(new[i].num) \in 0 .. ResendLen - 1
                 /\ new[i] # Empty
  BY <1>1, <1>2, NewDef
<1>4. /\ sentCount \in Nat /\ resendList \in Seq(0 .. MaxMessages - 1) /\ IsDistinct(resendList)
      /\ DOMAIN resendBuffer = 0 .. ResendLen - 1
  BY <1>1 DEF TypeOK, ListMatchesBuffer, IsDistinct
<1>5. ToSet(resendList) = {resendBuffer[s].id : s \in 0 .. ResendLen - 1} \ {Empty.id}
  BY <1>1, <1>4 DEF ListMatchesBuffer
<1>6. \A x \in ToSet(resendList) : x < sentCount
  <2>1. SUFFICES ASSUME NEW x \in ToSet(resendList) PROVE x < sentCount
    OBVIOUS
  <2>2. PICK s \in 0 .. ResendLen - 1 : x = resendBuffer[s].id /\ x # Empty.id
    BY <1>5
  <2>3. resendBuffer[s] # Empty
    BY <2>2
  <2> QED
    BY <1>1, <1>4, <2>2, <2>3, IdOfSlot
<1>7. /\ \A i \in 1 .. n : new[i].id \in 0 .. MaxMessages - 1 /\ new[i].id \notin ToSet(resendList)
      /\ \A i, j \in 1 .. n : new[i].id = new[j].id => i = j
      /\ n \in Nat
  BY SMTT(60), <1>3, <1>4, <1>6, Sizes
<1>8. /\ resendList' \in Seq(0 .. MaxMessages - 1)
      /\ ToSet(resendList') = ToSet(resendList) \cup {new[i].id : i \in 1 .. n}
      /\ IsDistinct(resendList')
  <2>1. PICK S : S = 0 .. MaxMessages - 1
    OBVIOUS
  <2>2. /\ resendList \in Seq(S)
        /\ \A i \in 1 .. n : new[i].id \in S /\ new[i].id \notin ToSet(resendList)
    BY <1>4, <1>7, <2>1
  <2>3. /\ Requeued(k, new) \in Seq(S)
        /\ ToSet(Requeued(k, new)) = ToSet(resendList) \cup {new[i].id : i \in 1 .. n}
        /\ IsDistinct(Requeued(k, new))
    BY <1>3, <1>4, <1>7, <2>2, RequeuedDef
  <2> QED
    BY <1>2, <2>1, <2>3
<1>9. ASSUME NEW x \in ToSet(resendList')
      PROVE  x \in {resendBuffer'[s].id : s \in 0 .. ResendLen - 1} \ {Empty.id}
  <2>1. CASE x \in ToSet(resendList)
    <3>1. PICK s \in 0 .. ResendLen - 1 : x = resendBuffer[s].id /\ x # Empty.id
      BY <1>5, <2>1
    <3>2. resendBuffer'[s] = resendBuffer[s]
      BY <3>1 DEF BufferGains
    <3> QED
      BY <3>1, <3>2
  <2>2. CASE \E i \in 1 .. n : x = new[i].id
    <3>1. PICK i \in 1 .. n : x = new[i].id
      BY <2>2
    <3>2. PICK s \in 0 .. ResendLen - 1 : s = Slot(new[i].num)
      BY <1>3
    <3>3. resendBuffer'[s] = new[i]
      BY <1>2, <3>2 DEF BufferGains
    <3>4. x # Empty.id
      <4>1. x \in Nat
        BY <1>7, <3>1
      <4> QED
        BY <4>1 DEF Empty
    <3> QED
      BY <3>1, <3>3, <3>4
  <2> QED
    BY <1>8, <1>9, <2>1, <2>2
<1>10. ASSUME NEW s \in 0 .. ResendLen - 1, resendBuffer'[s].id # Empty.id
       PROVE  resendBuffer'[s].id \in ToSet(resendList')
  <2>1. resendBuffer'[s] # Empty
    BY <1>10
  <2>2. CASE resendBuffer'[s] = resendBuffer[s]
    BY <1>5, <1>8, <1>10, <2>2
  <2>3. CASE \E i \in 1 .. n : resendBuffer'[s] = new[i]
    BY <1>8, <2>3
  <2> QED
    BY <1>2, <2>1, <2>2, <2>3 DEF BufferGains
<1>11. ToSet(resendList') = {resendBuffer'[s].id : s \in 0 .. ResendLen - 1} \ {Empty.id}
  BY <1>9, <1>10
<1>12. DOMAIN resendBuffer' = 0 .. ResendLen - 1
  BY DEF BufferGains
<1>13. ListMatchesBuffer'
  BY <1>8, <1>11, <1>12 DEF ListMatchesBuffer, IsDistinct
<1>14. {new[i].id : i \in 1 .. n} = {sentCount + i - 1 : i \in 1 .. n}
  BY <1>3
<1> QED
  BY <1>8, <1>13, <1>14

(* Every message is safe after an update.                                  *)
LEMMA SafeAfterUpdate ==
    ASSUME DeliveryInv, NEW n \in 0 .. ResendLen, sentCount + n <= MaxMessages, BufferGains(n),
           sentCount' = sentCount + n, UNCHANGED <<parsing, outputQueue>>,
           ToSet(resendList') = ToSet(resendList) \cup {sentCount + i - 1 : i \in 1 .. n}
    PROVE  \A id \in 0 .. sentCount' - 1 : IsSafe(id)'
<1>1. TypeOK /\ BufferHolds /\ NoLostMessage
  BY DEF DeliveryInv
<1>2. PICK new : new = NewMessages(n)
  OBVIOUS
<1>3. /\ \A i \in 1 .. n :
                 /\ new[i].id = sentCount + i - 1
                 /\ Slot(new[i].num) \in 0 .. ResendLen - 1
                 /\ new[i] # Empty
  BY <1>1, <1>2, NewDef
<1>4. sentCount \in Nat /\ n \in Nat
  BY <1>1 DEF TypeOK
<1>5. Have' = Have
  BY DEF Have, Delivered
<1>6. SUFFICES ASSUME NEW id \in 0 .. sentCount' - 1 PROVE IsSafe(id)'
  OBVIOUS
<1>9. id \in Nat /\ id < sentCount + n
  BY <1>4
<1>7. CASE id < sentCount
  <2>1. IsSafe(id) /\ id # -1
    BY <1>1, <1>4, <1>7, <1>9, NoLostIsSafe
  <2>2. CASE id \in Have
    BY <1>5, <2>2 DEF IsSafe
  <2>3. CASE id \notin Have
    <3>1. PICK s \in 0 .. ResendLen - 1 : /\ resendBuffer[s].id = id
                                          /\ Slot(resendBuffer[s].num) = s
                                          /\ id \in ToSet(resendList)
      BY <2>1, <2>3 DEF IsSafe
    <3>2. resendBuffer[s] # Empty
      BY <2>1, <3>1 DEF Empty
    <3>3. resendBuffer'[s] = resendBuffer[s]
      BY <3>2 DEF BufferGains
    <3> QED
      BY <3>1, <3>3 DEF IsSafe
  <2> QED
    BY <2>2, <2>3
<1>8. CASE id >= sentCount
  <2>1. PICK i \in 1 .. n : id = sentCount + i - 1
    <3>1. id - sentCount + 1 \in 1 .. n /\ id = sentCount + (id - sentCount + 1) - 1
      BY <1>4, <1>8, <1>9
    <3> QED
      BY <3>1
  <2>2. PICK s \in 0 .. ResendLen - 1 : s = Slot(new[i].num)
    BY <1>3
  <2>3. resendBuffer'[s] = new[i]
    BY <1>2, <2>2 DEF BufferGains
  <2>4. new[i].id = id /\ id \in ToSet(resendList')
    BY <1>3, <2>1
  <2> QED
    BY <2>2, <2>3, <2>4 DEF IsSafe
<1> QED
  BY <1>4, <1>7, <1>8, <1>9

(* Numbering messages is a step of the window: a free slot means that the  *)
(* message that was in it has been handed over.                            *)
LEMMA UpdateMaps ==
    ASSUME DeliveryInv, NEW n \in 0 .. ResendLen, sentCount + n <= MaxMessages,
           SlotsFree(NewMessages(n)), parsing = <<>>, sentCount' = sentCount + n,
           sendReliableMessageNumberIndex' = Plus(sendReliableMessageNumberIndex, n),
           UNCHANGED windowVars
    PROVE  [W!Next]_(W!vars)
<1>1. TypeOK /\ BufferHolds /\ NoLostMessage /\ W!WindowInv
  BY DEF DeliveryInv
<1> DEFINE s == sendReliableMessageNumberIndex
           b == receivedPacketsBaseIndex
<1>2. s \in Number /\ b \in Number /\ sentCount \in Nat /\ n \in Nat
  BY <1>1 DEF TypeOK
<1>3. CASE n = 0
  <2>1. sentCount' = sentCount /\ s' = s
    BY <1>2, <1>3, Sizes DEF Plus, Number
  <2> QED
    BY <1>1, <2>1, WindowStays
<1>4. CASE n # 0
  <2>1. n \in 1 .. ResendLen
    BY <1>2, <1>4
  <2>2. ASSUME NEW m \in sentCount .. sentCount + n - 1, m >= ResendLen
        PROVE  m - ResendLen \in Delivered
    <3>1. PICK id \in Nat : /\ id = m - ResendLen /\ id < sentCount /\ m = id + ResendLen
      BY <1>2, <2>2, Sizes
    <3>2. IsSafe(id)
      BY <1>1, <1>2, <3>1, NoLostIsSafe
    <3>3. PICK i \in 1 .. n : m = sentCount + i - 1
      <4>1. m - sentCount + 1 \in 1 .. n /\ m = sentCount + (m - sentCount + 1) - 1
        BY <1>2
      <4> QED
        BY <4>1
    <3>4. resendBuffer[Slot(NumberOf(m))] = Empty
      <4>1. i \in DOMAIN NewMessages(n) /\ NewMessages(n)[i].num = NumberOf(m)
        BY <1>1, <3>3, NewDef
      <4> QED
        BY <4>1 DEF SlotsFree
    <3>5. Slot(NumberOf(m)) = Slot(NumberOf(id))
      BY <1>2, <3>1, SlotRecurs DEF NumberOf, Num
    <3>6. ~\E t \in 0 .. ResendLen - 1 : resendBuffer[t].id = id
      <4>1. SUFFICES ASSUME NEW t \in 0 .. ResendLen - 1, resendBuffer[t].id = id PROVE FALSE
        OBVIOUS
      <4>2. resendBuffer[t] # Empty
        <5>1. id # -1
          OBVIOUS
        <5> QED
          BY <4>1, <5>1 DEF Empty
      <4>3. t = Slot(NumberOf(id))
        BY <1>1, <4>1, <4>2 DEF BufferHolds, IsNumbered
      <4> QED
        BY <3>4, <3>5, <4>2, <4>3
    <3>7. id \in Have
      BY <3>2, <3>6 DEF IsSafe
    <3>8. Have = Delivered
      BY DEF Have
    <3> QED
      BY <3>1, <3>7, <3>8
  <2>3. /\ BaseMessage \in Nat /\ BaseMessage <= sentCount /\ sentCount - BaseMessage <= ResendLen
    BY <1>1, WindowFacts
  <2>4. BaseMessage \notin Delivered
    BY <1>1, WindowAssumptions, W!BaseIsMissing, SameDelivered
  <2>5. sentCount + n - BaseMessage <= ResendLen
    <3>1. SUFFICES ASSUME sentCount + n - BaseMessage > ResendLen PROVE FALSE
      BY <1>2, <2>3, Sizes
    <3>2. PICK m \in sentCount .. sentCount + n - 1 : m = BaseMessage + ResendLen
      <4>1. BaseMessage + ResendLen \in sentCount .. sentCount + n - 1
        BY <1>2, <2>3, <3>1, Sizes
      <4> QED
        BY <4>1
    <3>3. m >= ResendLen /\ m - ResendLen = BaseMessage
      BY <2>3, <3>2, Sizes
    <3> QED
      BY <2>2, <2>4, <3>3
  <2>6. BaseMessage' = BaseMessage
    <3>1. b' = b
      BY DEF windowVars
    <3>2. Minus(s, b) = sentCount - BaseMessage
      <4>1. Minus(s, b) \in Int
        BY <1>2, Differences DEF Number
      <4> QED
        BY <1>2, <4>1 DEF BaseMessage
    <3>3. Minus(Plus(s, n), b) = Minus(s, b) + n
      <4> HIDE DEF s, b
      <4> QED
        BY <1>2, <2>3, <2>5, <3>2, Sizes DEF Minus, Plus, Number
    <3>4. BaseMessage' = (sentCount + n) - Minus(Plus(s, n), b)
      BY <3>1 DEF BaseMessage
    <3> QED
      BY <1>2, <2>3, <3>2, <3>3, <3>4
  <2> DEFINE wire == [i \in 1 .. sentCount |-> NumberOf(i - 1)]
             more == [i \in 1 .. n |-> Plus(s, i - 1)]
             after == [i \in 1 .. sentCount + n |-> NumberOf(i - 1)']
  <2>7. after = wire \o more
    <3>1. /\ wire \in Seq(Number) /\ Len(wire) = sentCount
          /\ \A i \in 1 .. sentCount : wire[i] = NumberOf(i - 1)
      <4>1. \A i \in 1 .. sentCount : NumberOf(i - 1) \in Number
        <5>1. SUFFICES ASSUME NEW i \in 1 .. sentCount PROVE NumberOf(i - 1) \in Number
          OBVIOUS
        <5>2. PICK id \in Nat : id = i - 1
          BY <1>2
        <5> QED
          BY <1>2, <5>2, NumIsNumber DEF NumberOf, Num
      <4> QED
        BY <1>2, <4>1
    <3>2. /\ more \in Seq(Number) /\ Len(more) = n
          /\ \A i \in 1 .. n : more[i] = NumberOf(sentCount + i - 1)
      <4>1. ASSUME NEW i \in 1 .. n
            PROVE Plus(s, i - 1) \in Number /\ Plus(s, i - 1) = NumberOf(sentCount + i - 1)
        <5>1. NewMessages(n)[i].num = NumberOf(sentCount + i - 1)
          BY <1>1, NewDef
        <5>2. NewMessages(n)[i].num = Plus(s, i - 1)
          BY DEF NewMessages
        <5>3. Plus(s, i - 1) \in Number
          BY <1>2, Sizes DEF Plus, Number
        <5> QED
          BY <5>1, <5>2, <5>3
      <4> QED
        BY <1>2, <4>1
    <3> HIDE DEF wire, more
    <3>3. /\ wire \o more \in Seq(Number) /\ Len(wire \o more) = Len(wire) + Len(more)
          /\ \A i \in 1 .. Len(wire) : (wire \o more)[i] = wire[i]
          /\ \A i \in Len(wire) + 1 .. Len(wire) + Len(more) : (wire \o more)[i] = more[i - Len(wire)]
      <4>1. wire \in Seq(Number) /\ more \in Seq(Number)
        BY <3>1, <3>2
      <4> QED
        BY <4>1, Joined
    <3>4. wire \o more = [i \in 1 .. sentCount + n |-> (wire \o more)[i]]
      <4>1. Len(wire \o more) = sentCount + n
        BY <3>1, <3>2, <3>3
      <4>2. PICK all \in Seq(Number) : all = wire \o more
        BY <3>3
      <4>3. all = [i \in 1 .. Len(all) |-> all[i]]
        BY SequenceIsFunction
      <4> QED
        BY <4>1, <4>2, <4>3, Zenon
    <3>5. ASSUME NEW i \in 1 .. sentCount + n PROVE (wire \o more)[i] = NumberOf(i - 1)'
      <4>1. PICK id \in Nat : id = i - 1
        BY <1>2
      <4>2. NumberOf(id)' = NumberOf(id)
        BY <1>1, NumbersStay
      <4>3. CASE i <= sentCount
        BY <1>2, <3>1, <3>3, <4>1, <4>2, <4>3
      <4>4. CASE i > sentCount
        <5>1. /\ i \in Len(wire) + 1 .. Len(wire) + Len(more) /\ i - Len(wire) \in 1 .. n
              /\ i - Len(wire) = i - sentCount
              /\ sentCount + (i - sentCount) - 1 = id
          BY <1>2, <3>1, <3>2, <4>1, <4>4
        <5>2. (wire \o more)[i] = more[i - sentCount]
          BY <3>3, <5>1
        <5>3. more[i - sentCount] = NumberOf(id)
          BY <3>2, <5>1
        <5> QED
          BY <4>1, <4>2, <5>2, <5>3
      <4>5. i <= sentCount \/ i > sentCount
        BY <1>2
      <4> QED
        BY <4>3, <4>4, <4>5, Zenon
    <3> QED
      BY <3>4, <3>5
  <2>8. [i \in 1 .. sentCount |-> NumberOf(i - 1)]' = after
    OBVIOUS
  <2>9. more = [i \in 1 .. n |-> W!Plus(s, i - 1)] /\ W!Plus(s, n) = Plus(s, n)
    BY SameOperators
  <2> HIDE DEF more, after
  <2>10. W!NumberMessages(n)
    BY <2>2, <2>6, <2>7, <2>8, <2>9, SameDelivered DEF W!NumberMessages, windowVars
  <2> QED
    BY <2>1, <2>10 DEF W!Next
<1> QED
  BY <1>3, <1>4

-----------------------------------------------------------------------------
(* An update of the sender: datagrams.                                     *)

(* A message that goes into a datagram when c messages were sent.          *)
IsSent(m, c) ==
    /\ m \in Message
    /\ m.id \in 0 .. c - 1 /\ m.num = NumberOf(m.id) /\ m.id + ResendLen >= c

(* An update sends messages that are in the buffer after it.               *)
LEMMA MessagesSent ==
    ASSUME DeliveryInv, NEW k \in 0 .. Len(resendList), NEW n \in 0 .. ResendLen,
           sentCount + n <= MaxMessages, BufferGains(n), BufferHolds', sentCount' = sentCount + n,
           sendReliableMessageNumberIndex' = Plus(sendReliableMessageNumberIndex, n),
           NEW messages, messages = [i \in 1 .. k |-> MessageOf(resendList[i])] \o NewMessages(n)
    PROVE  /\ messages \in Seq(Message) /\ Len(messages) = k + n
           /\ \A x \in DOMAIN messages : IsSent(messages[x], sentCount + n)
<1>1. TypeOK /\ BufferHolds /\ ListMatchesBuffer
  BY DEF DeliveryInv
<1>2. /\ sentCount \in Nat /\ n \in Nat /\ k \in Nat
      /\ DOMAIN resendList = 1 .. Len(resendList) /\ Len(resendList) \in Nat
      /\ resendBuffer \in [0 .. ResendLen - 1 -> Message \cup {Empty}]
  BY <1>1 DEF TypeOK
<1>3. \A id \in Nat : NumberOf(id)' = NumberOf(id)
  BY <1>1, NumbersStay
<1>0. PICK c \in Nat : c = sentCount + n /\ c = sentCount'
  BY <1>2
<1>4. ASSUME NEW s \in 0 .. ResendLen - 1, NEW m, m = resendBuffer'[s], m # Empty
      PROVE  IsSent(m, c)
  <2>1. /\ m.id \in 0 .. c - 1 /\ m.num = NumberOf(m.id)'
        /\ m.id + ResendLen >= c
    <3>1. /\ resendBuffer'[s].id \in 0 .. sentCount' - 1
          /\ resendBuffer'[s].num = (NumberOf(resendBuffer[s].id))'
          /\ resendBuffer'[s].id + ResendLen >= sentCount'
      BY <1>4 DEF BufferHolds, IsNumbered
    <3>2. (NumberOf(resendBuffer[s].id))' = NumberOf(m.id)'
      BY <1>4 DEF NumberOf
    <3> QED
      BY <1>0, <1>4, <3>1, <3>2
  <2>2. PICK id \in Nat : id = m.id
    BY <2>1
  <2>3. m.num = NumberOf(m.id)
    BY <1>3, <2>1, <2>2
  <2>4. m \in Message
    BY <1>4 DEF BufferGains
  <2> QED
    BY <2>1, <2>3, <2>4 DEF IsSent
<1> DEFINE resent == [i \in 1 .. k |-> MessageOf(resendList[i])]
<1>5. ASSUME NEW i \in 1 .. k PROVE IsSent(MessageOf(resendList[i]), c)
  <2>1. PICK id : id = resendList[i] /\ id \in ToSet(resendList)
    <3>1. i \in DOMAIN resendList
      BY <1>2
    <3> QED
      BY <3>1, InToSet
  <2>2. PICK s \in 0 .. ResendLen - 1 : resendBuffer[s].id = id /\ id # Empty.id
    BY <1>1, <1>2, <2>1 DEF ListMatchesBuffer
  <2>3. \E m \in ToSet(Slots) : m.id = id
    BY <2>2, SlotsHold
  <2>4. MessageOf(id) \in ToSet(Slots) /\ MessageOf(id).id = id
    BY <2>3 DEF MessageOf
  <2>5. PICK t \in 0 .. ResendLen - 1 : MessageOf(id) = resendBuffer[t]
    BY <2>4, SlotsHold
  <2>6. resendBuffer[t] # Empty
    BY <2>2, <2>4, <2>5
  <2>7. resendBuffer'[t] = resendBuffer[t]
    BY <2>6 DEF BufferGains
  <2>8. IsSent(resendBuffer[t], c)
    BY <1>4, <2>6, <2>7
  <2> QED
    BY <2>1, <2>5, <2>8
<1>6. resent \in Seq(Message) /\ Len(resent) = k /\ \A i \in 1 .. k : IsSent(resent[i], c)
  <2>1. \A i \in 1 .. k : MessageOf(resendList[i]) \in Message
    BY <1>5 DEF IsSent
  <2>2. resent \in Seq(Message) /\ Len(resent) = k
    BY <1>2, <2>1
  <2>3. \A i \in 1 .. k : resent[i] = MessageOf(resendList[i])
    OBVIOUS
  <2> HIDE DEF resent
  <2> QED
    BY <1>5, <2>2, <2>3
<1>7. PICK new : new = NewMessages(n)
  OBVIOUS
<1>8. /\ new \in Seq(Message) /\ Len(new) = n
      /\ \A i \in 1 .. n : /\ new[i] # Empty /\ Slot(new[i].num) \in 0 .. ResendLen - 1
                           /\ resendBuffer'[Slot(new[i].num)] = new[i]
  BY <1>1, <1>7, NewDef DEF BufferGains
<1>9. \A i \in 1 .. n : IsSent(new[i], c)
  BY <1>4, <1>8
<1> HIDE DEF resent
<1>10. PICK r \in Seq(Message), w \in Seq(Message) : r = resent /\ w = new /\ messages = r \o w
  BY <1>6, <1>7, <1>8 DEF resent
<1>11. /\ r \o w \in Seq(Message) /\ Len(r \o w) = Len(r) + Len(w)
       /\ \A i \in 1 .. Len(r) : (r \o w)[i] = r[i]
       /\ \A i \in Len(r) + 1 .. Len(r) + Len(w) : (r \o w)[i] = w[i - Len(r)]
  BY Joined
<1>12. Len(r) = k /\ Len(w) = n
  BY <1>6, <1>8, <1>10
<1>13. messages \in Seq(Message) /\ Len(messages) = k + n /\ DOMAIN messages = 1 .. k + n
  <2>1. messages \in Seq(Message)
    BY <1>10, <1>11, Zenon
  <2>2. Len(messages) = k + n
    BY <1>10, <1>11, <1>12, Zenon
  <2> QED
    BY <2>1, <2>2
<1>15. /\ \A i \in 1 .. k : messages[i] = resent[i]
       /\ \A i \in k + 1 .. k + n : messages[i] = new[i - k]
  BY <1>10, <1>11, <1>12, ZenonT(60)
<1>14. ASSUME NEW x \in 1 .. k + n PROVE IsSent(messages[x], c)
  <2>1. CASE x <= k
    <3>1. x \in 1 .. k /\ messages[x] = resent[x]
      BY <1>2, <1>15, <2>1
    <3> QED
      BY <1>6, <3>1
  <2>2. CASE x > k
    <3>1. x - k \in 1 .. n /\ messages[x] = new[x - k]
      <4>1. x - k \in 1 .. n /\ x \in k + 1 .. k + n
        BY <1>2, <2>2
      <4> QED
        BY <1>15, <4>1, Zenon
    <3> QED
      BY <1>9, <3>1
  <2>3. x <= k \/ x > k
    BY <1>2
  <2> QED
    BY <2>1, <2>2, <2>3, Zenon
<1> QED
  BY <1>0, <1>13, <1>14, Zenon

(* What the history keeps: all but the first entries.                      *)
LEMMA KeepDef ==
    ASSUME NEW T, NEW entries \in Seq(T)
    PROVE  \E e \in Nat :
              /\ e <= Len(entries) /\ KeepInHistory(entries).dropped = e
              /\ KeepInHistory(entries).kept \in Seq(T)
              /\ Len(KeepInHistory(entries).kept) = Len(entries) - e
              /\ Len(entries) - e <= HistoryLen + 1
              /\ \A i \in 1 .. Len(entries) - e : KeepInHistory(entries).kept[i] = entries[i + e]
<1> DEFINE len == Len(entries)
           x == len - (HistoryLen + 1)
<1>1. len \in Nat /\ HistoryLen \in Nat /\ x \in Int
  BY Sizes
<1>2. CASE x > 0
  <2> DEFINE kept == SubSeq(entries, x + 1, len)
  <2>1. KeepInHistory(entries) = [kept |-> kept, dropped |-> x]
    BY <1>2 DEF KeepInHistory
  <2>2. x + 1 \in Nat /\ x + 1 >= 1 /\ x + 1 <= len /\ x \in Nat /\ x <= len
    BY <1>1, <1>2
  <2>3. kept \in Seq(T) /\ Len(kept) = len - x /\ \A i \in 1 .. len - x : kept[i] = entries[i + x]
    <3> HIDE DEF x
    <3>1. /\ kept \in Seq(T) /\ Len(kept) = len - (x + 1) + 1
          /\ \A i \in 1 .. len - (x + 1) + 1 : kept[i] = entries[(x + 1) + i - 1]
      <4>1. PICK a \in Nat : a = x + 1
        BY <2>2
      <4>2. a >= 1 /\ a <= len
        BY <2>2, <4>1
      <4>3. /\ SubSeq(entries, a, len) \in Seq(T) /\ Len(SubSeq(entries, a, len)) = len - a + 1
            /\ \A i \in 1 .. len - a + 1 : SubSeq(entries, a, len)[i] = entries[a + i - 1]
        BY <1>1, <4>2
      <4> QED
        BY <4>1, <4>3
    <3>2. len - (x + 1) + 1 = len - x /\ \A i \in 1 .. len - x : (x + 1) + i - 1 = i + x
      BY <1>1, <2>2
    <3> QED
      BY <3>1, <3>2
  <2>4. len - x <= HistoryLen + 1
    BY <1>1
  <2> HIDE DEF kept, x
  <2>5. KeepInHistory(entries).kept = kept /\ KeepInHistory(entries).dropped = x
    BY <2>1
  <2> QED
    BY <2>2, <2>3, <2>4, <2>5
<1>3. CASE ~(x > 0)
  <2>1. KeepInHistory(entries) = [kept |-> entries, dropped |-> 0]
    BY <1>3 DEF KeepInHistory
  <2>2. KeepInHistory(entries).kept = entries /\ KeepInHistory(entries).dropped = 0
    BY <2>1
  <2>3. 0 \in Nat /\ 0 <= len /\ len - 0 = len /\ len <= HistoryLen + 1 /\ \A i \in 1 .. len : i + 0 = i
    BY <1>1, <1>3
  <2> QED
    BY <2>2, <2>3
<1> QED
  BY <1>2, <1>3

(* The datagrams an update sends.                                          *)
Sends(datagrams) ==
    net' = net \cup {Data(Plus(nextDatagramSequenceNumber, i - 1), datagrams[i]) :
                        i \in DOMAIN datagrams}

(* The numbers the assumption on the network is about.                     *)
LEMMA OutstandingHas ==
    /\ expectedNextSequenceNumber \in OutstandingNumbers
    /\ \A d \in Acked : d \in Number /\ d \in OutstandingNumbers
    /\ \A p \in Datagrams : p.num \in OutstandingNumbers
<1>0. PICK A : A = {p.num : p \in Datagrams}
  OBVIOUS
<1>4. PICK B : B = UNION {Members(p.ranges) : p \in Answers}
  OBVIOUS
<1>5. OutstandingNumbers = A \cup B \cup Members(acknowlegements) \cup Members(NAKs)
                              \cup {expectedNextSequenceNumber}
  BY <1>0, <1>4, Zenon DEF OutstandingNumbers
<1>1. Members(acknowlegements) \subseteq OutstandingNumbers
      /\ {expectedNextSequenceNumber} \subseteq OutstandingNumbers
  BY <1>5
<1>2. \A p \in Datagrams : p.num \in OutstandingNumbers
  BY Zenon DEF OutstandingNumbers
<1>3. ASSUME NEW d \in Acked PROVE d \in Number /\ d \in OutstandingNumbers
  <2>1. CASE d \in Members(acknowlegements)
    <3>1. d \in Number
      BY <2>1 DEF Members
    <3>2. d \in OutstandingNumbers
      BY <1>1, <2>1
    <3> QED
      BY <3>1, <3>2
  <2>2. CASE \E p \in AckPackets : d \in Members(p.ranges)
    <3>1. PICK p \in AckPackets : d \in Members(p.ranges)
      BY <2>2
    <3>2. p \in Answers
      BY DEF AckPackets, Answers, Datagrams
    <3>3. d \in OutstandingNumbers
      BY <3>1, <3>2, Zenon DEF OutstandingNumbers
    <3>4. d \in Number
      BY <3>1 DEF Members
    <3> QED
      BY <3>3, <3>4
  <2> QED
    BY <2>1, <2>2 DEF Acked
<1> QED
  BY <1>1, <1>2, <1>3

(* What is on its way when j datagrams were sent, and how old it is.       *)
LEMMA SentPackets ==
    ASSUME DeliveryInv, NEW j \in Nat, NEW datagrams, DOMAIN datagrams = 1 .. j,
           \A d \in OutstandingNumbers : Age(d) + j <= HalfRange,
           Sends(datagrams), UNCHANGED acknowlegements
    PROVE  /\ j <= HalfRange
           /\ Acked' = Acked
           /\ \A d \in Acked : d \in Number /\ Age(d) \in 1 .. HalfRange /\ Age(d) + j <= HalfRange
           /\ \A p \in Datagrams : /\ p.num \in Number /\ Age(p.num) \in 1 .. HalfRange
                                   /\ Age(p.num) + j <= HalfRange
           /\ \A p \in Datagrams' :
                 \/ p \in Datagrams
                 \/ \E i \in 1 .. j : p = Data(Plus(nextDatagramSequenceNumber, i - 1), datagrams[i])
<1>1. TypeOK /\ NetworkCarries /\ AcksAreRecent
  BY DEF DeliveryInv
<1> DEFINE nd == nextDatagramSequenceNumber
           sent == {Data(Plus(nd, i - 1), datagrams[i]) : i \in 1 .. j}
<1>2. nd \in Number /\ expectedNextSequenceNumber \in Number
  BY <1>1 DEF TypeOK
<1>3. j <= HalfRange
  <2>1. expectedNextSequenceNumber \in OutstandingNumbers
    BY OutstandingHas
  <2>2. Age(expectedNextSequenceNumber) \in Number
    BY <1>2, Differences DEF Age
  <2>3. PICK a \in Number : a = Age(expectedNextSequenceNumber) /\ a + j <= HalfRange
    BY <2>1, <2>2
  <2> QED
    BY <2>3, Sizes DEF Number
<1>4. net' = net \cup sent
  BY DEF Sends
<1>5. \A p \in sent : p.type = "data"
  BY DEF Data
<1> HIDE DEF sent
<1>6. AckPackets' = AckPackets
  BY <1>4, <1>5 DEF AckPackets
<1>7. Acked' = Acked
  BY <1>6 DEF Acked
<1>8. \A d \in Acked : d \in Number /\ d \in OutstandingNumbers
  BY OutstandingHas
<1>9. \A p \in Datagrams : p.num \in OutstandingNumbers /\ p.num \in Number
  <2>1. SUFFICES ASSUME NEW p \in Datagrams PROVE p.num \in OutstandingNumbers /\ p.num \in Number
    OBVIOUS
  <2>2. p \in net /\ p.type = "data" /\ "data" \notin {"ack", "nak"}
    BY DEF Datagrams
  <2>3. p.num \in Number
    BY <1>1, <2>2 DEF TypeOK
  <2> QED
    BY <2>3, OutstandingHas
<1>10. \A p \in Datagrams' : p \in Datagrams \/ p \in sent
  BY <1>4, <1>5 DEF Datagrams
<1> QED
  BY <1>1, <1>3, <1>7, <1>8, <1>9, <1>10 DEF AcksAreRecent, NetworkCarries, sent

(* The history after j datagrams were added and e entries dropped.         *)
HistoryMoves(datagrams, j, e) ==
    /\ e <= Len(datagramHistory) + j
    /\ datagramHistory' \in Seq(SUBSET Number)
    /\ Len(datagramHistory') = Len(datagramHistory) + j - e
    /\ Len(datagramHistory') <= HistoryLen + 1
    /\ datagramHistoryPopCount' = Plus(datagramHistoryPopCount, e)
    /\ \A i \in 1 .. Len(datagramHistory') :
          /\ i + e <= Len(datagramHistory) => datagramHistory'[i] = datagramHistory[i + e]
          /\ i + e > Len(datagramHistory) =>
                datagramHistory'[i] = Numbers(datagrams[i + e - Len(datagramHistory)])

(* That is what AddFirstToDatagramHistory does, j times.                   *)
LEMMA HistoryMovesOn ==
    ASSUME TypeOK, NEW datagrams \in Seq(Seq(Message)), NEW j \in Nat, j = Len(datagrams),
           NEW history,
           history = KeepInHistory(datagramHistory
                        \o [i \in DOMAIN datagrams |-> Numbers(datagrams[i])]),
           datagramHistory' = history.kept,
           datagramHistoryPopCount' = Plus(datagramHistoryPopCount, history.dropped)
    PROVE  \E e \in Nat : HistoryMoves(datagrams, j, e)
<1> DEFINE added == [i \in DOMAIN datagrams |-> Numbers(datagrams[i])]
<1>1. PICK a \in Seq(SUBSET Number) : a = datagramHistory
  BY DEF TypeOK
<1>2. /\ added \in Seq(SUBSET Number) /\ Len(added) = j
      /\ \A i \in 1 .. j : added[i] = Numbers(datagrams[i])
  <2>1. DOMAIN datagrams = 1 .. j /\ \A i \in 1 .. j : datagrams[i] \in Seq(Message)
    OBVIOUS
  <2>2. \A i \in 1 .. j : Numbers(datagrams[i]) \in SUBSET Number
    <3>1. SUFFICES ASSUME NEW i \in 1 .. j, NEW x \in Numbers(datagrams[i]) PROVE x \in Number
      OBVIOUS
    <3>2. PICK y \in DOMAIN datagrams[i] : x = datagrams[i][y].num
      BY <3>1 DEF Numbers
    <3>3. datagrams[i][y] \in Message
      BY <2>1
    <3> QED
      BY <3>2, <3>3 DEF Message
  <2> QED
    BY <2>1, <2>2
<1> HIDE DEF added
<1>3. PICK b \in Seq(SUBSET Number) : b = added
  BY <1>2
<1>4. /\ a \o b \in Seq(SUBSET Number) /\ Len(a \o b) = Len(a) + Len(b)
      /\ \A i \in 1 .. Len(a) : (a \o b)[i] = a[i]
      /\ \A i \in Len(a) + 1 .. Len(a) + Len(b) : (a \o b)[i] = b[i - Len(a)]
  <2>1. PICK T : T = SUBSET Number
    OBVIOUS
  <2>2. a \in Seq(T) /\ b \in Seq(T)
    BY <2>1
  <2> QED
    BY <2>1, <2>2, Joined
<1>5. PICK all \in Seq(SUBSET Number) : all = a \o b
  BY <1>4
<1>6. history = KeepInHistory(all)
  BY <1>1, <1>3, <1>5 DEF added
<1>7. PICK e \in Nat :
              /\ e <= Len(all) /\ KeepInHistory(all).dropped = e
              /\ KeepInHistory(all).kept \in Seq(SUBSET Number)
              /\ Len(KeepInHistory(all).kept) = Len(all) - e
              /\ Len(all) - e <= HistoryLen + 1
              /\ \A i \in 1 .. Len(all) - e : KeepInHistory(all).kept[i] = all[i + e]
  <2>1. PICK T : T = SUBSET Number
    OBVIOUS
  <2>2. all \in Seq(T)
    BY <2>1
  <2>3. \E e \in Nat :
              /\ e <= Len(all) /\ KeepInHistory(all).dropped = e
              /\ KeepInHistory(all).kept \in Seq(T)
              /\ Len(KeepInHistory(all).kept) = Len(all) - e
              /\ Len(all) - e <= HistoryLen + 1
              /\ \A i \in 1 .. Len(all) - e : KeepInHistory(all).kept[i] = all[i + e]
    BY <2>2, KeepDef
  <2> QED
    BY <2>1, <2>3
<1>8. PICK len \in Nat : len = Len(datagramHistory) /\ len = Len(a)
  BY <1>1
<1>9. /\ Len(all) = len + j
      /\ \A i \in 1 .. len : all[i] = datagramHistory[i]
      /\ \A i \in len + 1 .. len + j : all[i] = Numbers(datagrams[i - len])
  <2>1. Len(all) = len + j /\ Len(b) = j
    BY <1>2, <1>3, <1>4, <1>5, <1>8
  <2>2. \A i \in 1 .. len : all[i] = datagramHistory[i]
    BY <1>1, <1>4, <1>5, <1>8
  <2>3. ASSUME NEW i \in len + 1 .. len + j PROVE all[i] = Numbers(datagrams[i - len])
    <3>1. i - len \in 1 .. j
      OBVIOUS
    <3>2. all[i] = added[i - len]
      BY <1>3, <1>4, <1>5, <1>8, <2>1
    <3> QED
      BY <1>2, <3>1, <3>2
  <2> QED
    BY <2>1, <2>2, <2>3
<1>10. ASSUME NEW i \in 1 .. len + j - e
       PROVE  /\ i + e <= len => datagramHistory'[i] = datagramHistory[i + e]
              /\ i + e > len => datagramHistory'[i] = Numbers(datagrams[i + e - len])
  <2>1. i \in 1 .. Len(all) - e
    BY <1>9
  <2>2. datagramHistory'[i] = all[i + e]
    BY <1>6, <1>7, <2>1
  <2>3. i + e <= len => i + e \in 1 .. len
    OBVIOUS
  <2>4. i + e > len => i + e \in len + 1 .. len + j
    BY <1>7, <1>9
  <2> QED
    BY <1>9, <2>2, <2>3, <2>4
<1>11. /\ datagramHistory' \in Seq(SUBSET Number) /\ Len(datagramHistory') = len + j - e
       /\ len + j - e <= HistoryLen + 1 /\ e <= len + j
       /\ datagramHistoryPopCount' = Plus(datagramHistoryPopCount, e)
  BY <1>6, <1>7, <1>9
<1>12. HistoryMoves(datagrams, j, e)
  BY <1>8, <1>10, <1>11 DEF HistoryMoves
<1> QED
  BY <1>12


(* The numbers of a history that has moved on.                             *)
LEMMA MovedNumbers ==
    ASSUME NEW first \in Number, NEW nd \in Number, NEW len \in Nat, NEW j \in Nat, NEW e \in Nat,
           Minus(nd, first) = len, len <= HalfRange, j <= HalfRange, e <= len + j
    PROVE  /\ Plus(first, e) \in Number /\ Plus(nd, j) \in Number
           /\ Minus(Plus(nd, j), Plus(first, e)) = len + j - e
           /\ \A i \in 1 .. len + j - e :
                 /\ i + e <= len => Plus(Plus(first, e), i - 1) = Plus(first, (i + e) - 1)
                 /\ i + e > len => Plus(Plus(first, e), i - 1) = Plus(nd, (i + e - len) - 1)
<1>1. HalfRange \in Nat /\ NumRange \in Nat /\ NumRange = 2 * HalfRange + 2
  BY Sizes
<1>2. Plus(first, e) \in Number /\ Plus(nd, j) \in Number
  BY <1>1, Sizes DEF Number, Plus
<1>3. nd = Plus(first, len)
  BY Differences
<1>4. ASSUME NEW x \in Nat, x < NumRange
      PROVE  Plus(first, x) = IF first + x < NumRange THEN first + x ELSE first + x - NumRange
  BY <1>1, <1>4 DEF Number, Plus
<1>5. Plus(nd, j) = Plus(first, len + j)
  BY <1>1, <1>3, PlusPlus
<1>6. Minus(Plus(nd, j), Plus(first, e)) = len + j - e
  <2>1. Plus(first, len + j) = IF first + (len + j) < NumRange THEN first + (len + j) ELSE first + (len + j) - NumRange
    <3>1. len + j \in Nat /\ len + j < NumRange
      BY <1>1
    <3> QED
      BY <1>4, <3>1
  <2>2. Plus(first, e) = IF first + e < NumRange THEN first + e ELSE first + e - NumRange
    <3>1. e < NumRange
      BY <1>1
    <3> QED
      BY <1>4, <3>1
  <2>3. PICK u \in Number, v \in Number : u = Plus(first, len + j) /\ v = Plus(first, e)
    BY <1>2, <1>5
  <2>4. Minus(u, v) = len + j - e
    <3>1. \/ u - v = len + j - e \/ u - v = len + j - e - NumRange
      BY <1>1, <2>1, <2>2, <2>3 DEF Number
    <3>2. len + j - e \in 0 .. NumRange - 1 /\ u \in Int /\ v \in Int
      BY <1>1 DEF Number
    <3>3. CASE u - v = len + j - e
      BY <1>1, <3>2, <3>3 DEF Minus
    <3>4. CASE u - v = len + j - e - NumRange
      BY <1>1, <3>2, <3>4 DEF Minus
    <3> QED
      BY <3>1, <3>3, <3>4
  <2> QED
    BY <1>5, <2>3, <2>4
<1>7. ASSUME NEW i \in 1 .. len + j - e
      PROVE  /\ i + e <= len => Plus(Plus(first, e), i - 1) = Plus(first, (i + e) - 1)
             /\ i + e > len => Plus(Plus(first, e), i - 1) = Plus(nd, (i + e - len) - 1)
  <2>1. Plus(Plus(first, e), i - 1) = Plus(first, e + (i - 1))
    <3>1. i - 1 \in Nat /\ e + (i - 1) < NumRange
      BY <1>1
    <3> QED
      BY <3>1, PlusPlus
  <2>2. e + (i - 1) = (i + e) - 1
    OBVIOUS
  <2>3. ASSUME i + e > len PROVE Plus(first, e + (i - 1)) = Plus(nd, (i + e - len) - 1)
    <3>1. PICK y \in Nat : y = (i + e - len) - 1
      BY <2>3
    <3>2. len + y < NumRange /\ len + y = e + (i - 1)
      BY <1>1, <3>1
    <3>3. Plus(Plus(first, len), y) = Plus(first, len + y)
      BY <3>2, PlusPlus
    <3> QED
      BY <1>3, <3>1, <3>2, <3>3
  <2> QED
    BY <2>1, <2>2, <2>3
<1> QED
  BY <1>2, <1>6, <1>7

(* What an update sends, j datagrams and n new messages.                   *)
UpdateSends(datagrams, j, n) ==
    /\ DOMAIN datagrams = 1 .. j /\ j >= 1
    /\ \A i \in 1 .. j : /\ datagrams[i] \in Seq(Message)
                         /\ \A x \in DOMAIN datagrams[i] : IsSent(datagrams[i][x], sentCount + n)
    /\ \A d \in OutstandingNumbers : Age(d) + j <= HalfRange
    /\ \A p \in Datagrams : \A i \in DOMAIN p.messages :
          p.messages[i].id + MaxAge >= sentCount + n
    /\ Sends(datagrams)
    /\ sentCount' = sentCount + n
    /\ sendReliableMessageNumberIndex' = Plus(sendReliableMessageNumberIndex, n)
    /\ nextDatagramSequenceNumber' = Plus(nextDatagramSequenceNumber, j)
    /\ UNCHANGED <<acknowlegements, parsing, outputQueue>>

(* The numbers after an update.                                            *)
LEMMA NumbersAfter ==
    ASSUME DeliveryInv, NEW datagrams, NEW j \in Nat, NEW e \in Nat, NEW n \in 0 .. ResendLen,
           UpdateSends(datagrams, j, n), HistoryMoves(datagrams, j, e)
    PROVE  /\ j <= HalfRange /\ Len(datagramHistory) \in Nat /\ Len(datagramHistory) <= HalfRange
           /\ datagramHistoryPopCount' \in Number /\ nextDatagramSequenceNumber' \in Number
           /\ HistoryFits'
           /\ \A i \in 1 .. Len(datagramHistory') :
                 /\ i + e <= Len(datagramHistory) => HistoryNumber(i)' = HistoryNumber(i + e)
                 /\ i + e > Len(datagramHistory) =>
                       HistoryNumber(i)' = Plus(nextDatagramSequenceNumber,
                                                (i + e - Len(datagramHistory)) - 1)
<1>1. TypeOK /\ HistoryFits
  BY DEF DeliveryInv
<1>2. j <= HalfRange
  <2>1. /\ DOMAIN datagrams = 1 .. j /\ Sends(datagrams) /\ UNCHANGED acknowlegements
        /\ \A d \in OutstandingNumbers : Age(d) + j <= HalfRange
    BY DEF UpdateSends
  <2> QED
    BY <2>1, SentPackets
<1>3. PICK first \in Number, nd \in Number, len \in Nat :
         first = datagramHistoryPopCount /\ nd = nextDatagramSequenceNumber /\ len = Len(datagramHistory)
  BY <1>1 DEF TypeOK
<1>4. Minus(nd, first) = len /\ len <= HalfRange /\ e <= len + j
  BY <1>1, <1>3, Sizes DEF HistoryFits, HistoryMoves
<1>5. /\ Plus(first, e) \in Number /\ Plus(nd, j) \in Number
      /\ Minus(Plus(nd, j), Plus(first, e)) = len + j - e
      /\ \A i \in 1 .. len + j - e :
            /\ i + e <= len => Plus(Plus(first, e), i - 1) = Plus(first, (i + e) - 1)
            /\ i + e > len => Plus(Plus(first, e), i - 1) = Plus(nd, (i + e - len) - 1)
  BY <1>2, <1>4, MovedNumbers
<1>6. /\ datagramHistoryPopCount' = Plus(first, e) /\ nextDatagramSequenceNumber' = Plus(nd, j)
      /\ Len(datagramHistory') = len + j - e /\ Len(datagramHistory') <= HistoryLen + 1
  BY <1>3 DEF HistoryMoves, UpdateSends
<1>7. HistoryFits'
  BY <1>5, <1>6 DEF HistoryFits
<1>8. \A i \in 1 .. Len(datagramHistory') :
         /\ i + e <= len => HistoryNumber(i)' = HistoryNumber(i + e)
         /\ i + e > len => HistoryNumber(i)' = Plus(nd, (i + e - len) - 1)
  <2>1. SUFFICES ASSUME NEW i \in 1 .. len + j - e
                 PROVE  /\ i + e <= len => HistoryNumber(i)' = HistoryNumber(i + e)
                        /\ i + e > len => HistoryNumber(i)' = Plus(nd, (i + e - len) - 1)
    BY <1>6
  <2>2. HistoryNumber(i)' = Plus(Plus(first, e), i - 1) /\ HistoryNumber(i + e) = Plus(first, (i + e) - 1)
    BY <1>3, <1>6 DEF HistoryNumber
  <2> QED
    BY <1>5, <2>2
<1> QED
  BY <1>2, <1>3, <1>4, <1>5, <1>6, <1>7, <1>8

(* The history still means what it says.                                   *)
LEMMA HistoryMeansAfter ==
    ASSUME DeliveryInv, NEW datagrams, NEW j \in Nat, NEW e \in Nat, NEW n \in 0 .. ResendLen,
           UpdateSends(datagrams, j, n), HistoryMoves(datagrams, j, e)
    PROVE  HistoryMeans'
<1>1. TypeOK /\ HistoryMeans
  BY DEF DeliveryInv
<1>2. PICK len \in Nat, sc \in Nat : len = Len(datagramHistory) /\ sc = sentCount
  BY <1>1 DEF TypeOK
<1>3. PICK nd \in Number : nd = nextDatagramSequenceNumber
  BY <1>1 DEF TypeOK
<1>4. /\ Acked' = Acked /\ j <= HalfRange
      /\ \A d \in Acked : Age(d) \in 1 .. HalfRange
  <2>1. /\ DOMAIN datagrams = 1 .. j /\ Sends(datagrams) /\ UNCHANGED acknowlegements
        /\ \A d \in OutstandingNumbers : Age(d) + j <= HalfRange
    BY DEF UpdateSends
  <2> QED
    BY <2>1, SentPackets
<1>5. Have' = Have
  BY DEF UpdateSends, Have, Delivered
<1>6. \A id \in Nat : NumberOf(id)' = NumberOf(id)
  BY <1>1, NumbersStay DEF UpdateSends
<1>7. sentCount' = sc + n /\ n <= ResendLen /\ n \in Nat /\ j >= 1 /\ DOMAIN datagrams = 1 .. j
  BY <1>2, Sizes DEF UpdateSends
<1>8. /\ Len(datagramHistory') = len + j - e
      /\ DOMAIN datagramHistory' = 1 .. len + j - e
  BY <1>2 DEF HistoryMoves
<1>9. ResendLen \in Nat
  BY Sizes
<1>10. SUFFICES ASSUME NEW i \in 1 .. len + j - e, NEW num \in datagramHistory'[i]
                PROVE  \E id \in Nat : EntryNames(i, num, id)'
  BY <1>8 DEF HistoryMeans
<1>11. PICK a \in Nat : a = len + j - e - i + 1 /\ a >= 1
  OBVIOUS
<1>12. CASE i + e <= len
  <2>1. datagramHistory'[i] = datagramHistory[i + e] /\ HistoryNumber(i)' = HistoryNumber(i + e)
    BY <1>2, <1>8, <1>12, NumbersAfter DEF HistoryMoves
  <2>2. i + e \in DOMAIN datagramHistory
    BY <1>1, <1>2, <1>12 DEF TypeOK
  <2>3. PICK id \in Nat : EntryNames(i + e, num, id)
    BY <1>1, <1>10, <2>1, <2>2 DEF HistoryMeans
  <2>4. PICK b \in Nat : b = len - (i + e) + 1 /\ b >= 1 /\ a = b + j
    BY <1>11, <1>12
  <2>5. /\ id \in 0 .. sc - 1 /\ num = NumberOf(id)
        /\ id + ResendLen * b >= sc
        /\ HistoryNumber(i + e) \in Acked => id \in Have
    BY <1>2, <2>3, <2>4 DEF EntryNames
  <2>6. id + ResendLen * a >= sc + n
    <3>1. ResendLen * b \in Nat /\ ResendLen * (b + j) >= ResendLen * b + ResendLen
      BY <1>7, <2>4, EntryReach
    <3>2. PICK x, y : x = ResendLen * b /\ y = ResendLen * (b + j)
      OBVIOUS
    <3>3. ResendLen * (b + j) \in Nat
      BY <1>9, SMT
    <3> QED
      BY <1>7, <1>9, <2>4, <2>5, <3>1, <3>2, <3>3
  <2>7. id \in 0 .. (sc + n) - 1
    BY <1>7, <2>5
  <2>8. EntryNames(i, num, id)'
    BY SMTT(60), <1>4, <1>5, <1>6, <1>7, <1>8, <1>11, <2>1, <2>5, <2>6, <2>7 DEF EntryNames
  <2> QED
    BY <2>8
<1>13. CASE i + e > len
  <2>1. PICK t \in 1 .. j : t = i + e - len
    BY <1>13
  <2>2. datagramHistory'[i] = Numbers(datagrams[t]) /\ HistoryNumber(i)' = Plus(nd, t - 1)
    BY <1>2, <1>3, <1>8, <1>13, <2>1, NumbersAfter DEF HistoryMoves
  <2>3. PICK x \in DOMAIN datagrams[t] : num = datagrams[t][x].num
    BY <1>10, <2>2 DEF Numbers
  <2>4. PICK m : m = datagrams[t][x]
    OBVIOUS
  <2>5. IsSent(m, sc + n)
    BY <1>2, <2>4 DEF UpdateSends
  <2>6. PICK id \in Nat : id = m.id /\ num = NumberOf(id) /\ id \in 0 .. (sc + n) - 1 /\ id + ResendLen >= sc + n
    BY <2>3, <2>4, <2>5 DEF IsSent
  <2>7. id + ResendLen * a >= sc + n
    <3>1. ResendLen * a \in Nat /\ ResendLen * a >= ResendLen
      BY <1>11, EntryReach
    <3> QED
      BY SMTT(60), <1>7, <1>9, <2>6, <3>1
  <2>8. HistoryNumber(i)' \notin Acked
    <3>1. t - 1 \in Nat /\ t - 1 <= HalfRange
      BY <1>4, Sizes
    <3>2. Minus(nd, Plus(nd, t - 1)) \notin 1 .. HalfRange
      BY <3>1, NewIsAhead
    <3> QED
      BY <1>3, <1>4, <2>2, <3>2 DEF Age
  <2>9. EntryNames(i, num, id)'
    BY <1>4, <1>6, <1>7, <1>8, <1>11, <2>6, <2>7, <2>8 DEF EntryNames
  <2> QED
    BY <2>9
<1> QED
  BY <1>12, <1>13


(* What is known of what travels after an update.                          *)
LEMMA PacketsAfter ==
    ASSUME DeliveryInv, NEW datagrams, NEW j \in Nat, NEW n \in 0 .. ResendLen,
           UpdateSends(datagrams, j, n)
    PROVE  /\ j <= HalfRange /\ DOMAIN datagrams = 1 .. j
           /\ Acked' = Acked
           /\ \A d \in Acked : d \in Number /\ Age(d) \in 1 .. HalfRange /\ Age(d) + j <= HalfRange
           /\ \A p \in Datagrams : /\ p.num \in Number /\ Age(p.num) \in 1 .. HalfRange
                                   /\ Age(p.num) + j <= HalfRange
           /\ \A p \in Datagrams' :
                 \/ p \in Datagrams
                 \/ \E i \in 1 .. j : p = Data(Plus(nextDatagramSequenceNumber, i - 1), datagrams[i])
           /\ \A d \in Number : Age(d) + j <= HalfRange => Age(d)' = Age(d) + j
<1>1. /\ DOMAIN datagrams = 1 .. j /\ Sends(datagrams) /\ UNCHANGED acknowlegements
      /\ \A d \in OutstandingNumbers : Age(d) + j <= HalfRange
  BY DEF UpdateSends
<1>2. nextDatagramSequenceNumber \in Number
  BY DEF DeliveryInv, TypeOK
<1>3. \A d \in Number : Age(d) + j <= HalfRange => Age(d)' = Age(d) + j
  BY <1>2, AgeGrows DEF Age, UpdateSends
<1> QED
  BY <1>1, <1>3, SentPackets

(* The history still describes what travels.                               *)
LEMMA EntriesDescribeAfter ==
    ASSUME DeliveryInv, NEW datagrams, NEW j \in Nat, NEW e \in Nat, NEW n \in 0 .. ResendLen,
           UpdateSends(datagrams, j, n), HistoryMoves(datagrams, j, e)
    PROVE  EntriesDescribe'
<1>1. TypeOK /\ HistoryFits /\ EntriesDescribe
  BY DEF DeliveryInv
<1>2. PICK len \in Nat : len = Len(datagramHistory) /\ len <= HalfRange
  BY NumbersAfter
<1>3. PICK nd \in Number, first \in Number :
         nd = nextDatagramSequenceNumber /\ first = datagramHistoryPopCount /\ Minus(nd, first) = len
  BY <1>1, <1>2 DEF TypeOK, HistoryFits
<1>4. j <= HalfRange /\ HalfRange + 1 <= NumRange /\ HalfRange \in Nat /\ NumRange \in Nat
  <2>1. j <= HalfRange
    BY PacketsAfter
  <2> QED
    BY <2>1, Sizes
<1>5. /\ Len(datagramHistory') = len + j - e
      /\ DOMAIN datagramHistory' = 1 .. len + j - e
      /\ DOMAIN datagramHistory = 1 .. len
  BY <1>1, <1>2 DEF HistoryMoves, TypeOK
<1>6. SUFFICES ASSUME NEW i \in 1 .. len + j - e, NEW p \in Datagrams', p.num = HistoryNumber(i)'
               PROVE  datagramHistory'[i] = {} \/ datagramHistory'[i] = Numbers(p.messages)
  <2>1. DOMAIN datagramHistory' = 1 .. len + j - e
    BY <1>5
  <2>2. ASSUME NEW i \in DOMAIN datagramHistory', NEW p \in Datagrams', p.num = HistoryNumber(i)'
        PROVE  datagramHistory'[i] = {} \/ datagramHistory'[i] = Numbers(p.messages)
    BY <1>6, <2>1, <2>2
  <2> QED
    BY <2>2, Zenon DEF EntriesDescribe
<1>7. \A t \in 1 .. j : Minus(nd, Plus(nd, t - 1)) \notin 1 .. HalfRange
  <2>1. SUFFICES ASSUME NEW t \in 1 .. j PROVE Minus(nd, Plus(nd, t - 1)) \notin 1 .. HalfRange
    OBVIOUS
  <2>2. t - 1 \in Nat /\ t - 1 <= HalfRange
    BY <1>4
  <2> QED
    BY <2>2, NewIsAhead
<1>8. CASE i + e <= len
  <2>1. datagramHistory'[i] = datagramHistory[i + e] /\ HistoryNumber(i)' = HistoryNumber(i + e)
    BY <1>2, <1>5, <1>8, NumbersAfter DEF HistoryMoves
  <2>2. i + e \in 1 .. len
    BY <1>8
  <2>3. CASE p \in Datagrams
    BY <1>1, <1>5, <1>6, <2>1, <2>2, <2>3 DEF EntriesDescribe
  <2>4. CASE \E x \in 1 .. j : p = Data(Plus(nd, x - 1), datagrams[x])
    <3>1. PICK x \in 1 .. j : p.num = Plus(nd, x - 1)
      BY <2>4 DEF Data
    <3>2. Minus(nd, Plus(first, (i + e) - 1)) = len - (i + e) + 1
      <4>1. PICK y \in 1 .. len : y = i + e
        BY <2>2
      <4>2. Minus(nd, Plus(first, y - 1)) = len - y + 1
        BY <1>2, <1>3, EntryAge
      <4> QED
        BY <4>1, <4>2
    <3>3. p.num = Plus(first, (i + e) - 1)
      BY <1>3, <1>6, <2>1 DEF HistoryNumber
    <3>4. len - (i + e) + 1 \in 1 .. HalfRange
      BY <1>2, <1>4, <2>2
    <3> QED
      BY <1>7, <3>1, <3>2, <3>3, <3>4
  <2> QED
    BY <1>3, <2>3, <2>4, PacketsAfter
<1>9. CASE i + e > len
  <2>1. PICK t \in 1 .. j : t = i + e - len
    BY <1>9
  <2>2. datagramHistory'[i] = Numbers(datagrams[t]) /\ HistoryNumber(i)' = Plus(nd, t - 1)
    BY <1>2, <1>3, <1>5, <1>9, <2>1, NumbersAfter DEF HistoryMoves
  <2>3. CASE p \in Datagrams
    <3>1. Minus(nd, p.num) \in 1 .. HalfRange
      BY <1>3, <2>3, PacketsAfter DEF Age
    <3> QED
      BY <1>6, <1>7, <2>2, <3>1
  <2>4. CASE \E x \in 1 .. j : p = Data(Plus(nd, x - 1), datagrams[x])
    <3>1. PICK x \in 1 .. j : p.num = Plus(nd, x - 1) /\ p.messages = datagrams[x]
      BY <2>4 DEF Data
    <3>2. x - 1 \in Number /\ t - 1 \in Number
      BY <1>4 DEF Number
    <3>3. Plus(nd, x - 1) = Plus(nd, t - 1)
      BY <1>6, <2>2, <3>1
    <3>4. x - 1 = t - 1
      BY <3>2, <3>3, PlusDiffers
    <3>5. x = t
      BY <3>4
    <3> QED
      BY <2>2, <3>1, <3>5
  <2> QED
    BY <1>3, <2>3, <2>4, PacketsAfter
<1> QED
  BY <1>8, <1>9

(* What travels and what was acknowledged gets older, not too old.         *)
LEMMA NetworkAfter ==
    ASSUME DeliveryInv, NEW datagrams, NEW j \in Nat, NEW n \in 0 .. ResendLen,
           UpdateSends(datagrams, j, n)
    PROVE  NetworkCarries' /\ AcksAreRecent'
<1>1. TypeOK /\ NetworkCarries
  BY DEF DeliveryInv
<1>2. PICK nd \in Number, sc \in Nat : nd = nextDatagramSequenceNumber /\ sc = sentCount
  BY <1>1 DEF TypeOK
<1>3. HalfRange \in Nat /\ MaxAge \in Nat /\ ResendLen \in Nat /\ ResendLen <= MaxAge
  BY Sizes
<1>4. \A id \in Nat : NumberOf(id)' = NumberOf(id)
  BY <1>1, NumbersStay DEF UpdateSends
<1>5. sentCount' = sc + n /\ n \in Nat
  BY <1>2, <1>3 DEF UpdateSends
<1>6. AcksAreRecent'
  <2>1. SUFFICES ASSUME NEW d \in Acked PROVE Age(d)' \in 1 .. HalfRange
    BY PacketsAfter DEF AcksAreRecent
  <2>2. d \in Number /\ Age(d) \in 1 .. HalfRange /\ Age(d) + j <= HalfRange /\ Age(d)' = Age(d) + j
    BY PacketsAfter
  <2> QED
    BY <1>3, <2>2
<1>7. ASSUME NEW m, m.id \in 0 .. (sc + n) - 1, m.num = NumberOf(m.id), m.id + MaxAge >= sc + n
      PROVE  IsFresh(m)'
  <2>1. PICK id \in Nat : id = m.id
    BY <1>7
  <2>2. m.num = NumberOf(m.id)'
    BY <1>4, <1>7, <2>1
  <2> QED
    BY <1>5, <1>7, <2>2 DEF IsFresh, IsNumbered
<1>8. ASSUME NEW p \in Datagrams
      PROVE  Age(p.num)' \in 1 .. HalfRange /\ \A i \in DOMAIN p.messages : IsFresh(p.messages[i])'
  <2>1. /\ p.num \in Number /\ Age(p.num) \in 1 .. HalfRange /\ Age(p.num) + j <= HalfRange
    BY PacketsAfter
  <2>2. Age(p.num)' = Age(p.num) + j
    BY <2>1, PacketsAfter
  <2>3. Age(p.num)' \in 1 .. HalfRange
    BY <1>3, <2>1, <2>2
  <2>4. ASSUME NEW i \in DOMAIN p.messages PROVE IsFresh(p.messages[i])'
    <3>1. PICK m : m = p.messages[i]
      OBVIOUS
    <3>2. m.id \in 0 .. sc - 1 /\ m.num = NumberOf(m.id)
      BY <1>1, <1>2, <3>1 DEF NetworkCarries, IsFresh, IsNumbered
    <3>3. m.id + MaxAge >= sc + n
      BY <1>2, <3>1 DEF UpdateSends
    <3>4. m.id \in 0 .. (sc + n) - 1
      BY <1>5, <3>2
    <3>5. IsFresh(m)'
      BY <1>7, <3>2, <3>3, <3>4
    <3> QED
      BY <3>1, <3>5
  <2> QED
    BY <2>3, <2>4
<1>9. ASSUME NEW x \in 1 .. j, NEW p, p = Data(Plus(nd, x - 1), datagrams[x])
      PROVE  Age(p.num)' \in 1 .. HalfRange /\ \A i \in DOMAIN p.messages : IsFresh(p.messages[i])'
  <2>1. p.num = Plus(nd, x - 1) /\ p.messages = datagrams[x]
    BY <1>9 DEF Data
  <2>2. j <= HalfRange
    BY PacketsAfter
  <2>3. Minus(Plus(nd, j), Plus(nd, x - 1)) = j - (x - 1)
    <3>1. x - 1 \in Nat /\ x - 1 < j
      OBVIOUS
    <3> QED
      BY <2>2, <3>1, NewAge
  <2>4. Age(p.num)' = j - (x - 1)
    BY <1>2, <2>1, <2>3 DEF Age, UpdateSends
  <2>5. Age(p.num)' \in 1 .. HalfRange
    BY <1>3, <2>2, <2>4
  <2>6. ASSUME NEW i \in DOMAIN p.messages PROVE IsFresh(p.messages[i])'
    <3>1. PICK m : m = p.messages[i]
      OBVIOUS
    <3>2. IsSent(m, sc + n)
      BY <1>2, <2>1, <3>1 DEF UpdateSends
    <3>3. m.id \in 0 .. (sc + n) - 1 /\ m.num = NumberOf(m.id) /\ m.id + ResendLen >= sc + n
      BY <3>2 DEF IsSent
    <3>4. m.id + MaxAge >= sc + n
      BY <1>3, <1>5, <3>3
    <3>5. IsFresh(m)'
      BY <1>7, <3>3, <3>4
    <3> QED
      BY <3>1, <3>5
  <2> QED
    BY <2>5, <2>6
<1>10. NetworkCarries'
  <2>1. SUFFICES ASSUME NEW p \in Datagrams'
                 PROVE  Age(p.num)' \in 1 .. HalfRange /\ \A i \in DOMAIN p.messages : IsFresh(p.messages[i])'
    BY Zenon DEF NetworkCarries
  <2> QED
    BY <1>2, <1>8, <1>9, PacketsAfter
<1> QED
  BY <1>6, <1>10


(* The parts of an update.                                                 *)
LEMMA UpdateParts ==
    ASSUME DeliveryInv, NEW k \in 0 .. Len(resendList), NEW n \in 0 .. ResendLen,
           NEW ends \in Ends(k + n), SenderUpdate(k, n, ends)
    PROVE  /\ sentCount + n <= MaxMessages /\ SlotsFree(NewMessages(n)) /\ parsing = <<>>
           /\ BufferGains(n) /\ BufferHolds'
           /\ sentCount' = sentCount + n
           /\ sendReliableMessageNumberIndex' = Plus(sendReliableMessageNumberIndex, n)
           /\ resendList' = Requeued(k, NewMessages(n)) /\ due' \subseteq due
           /\ UNCHANGED <<connection, receiverVars>>
           /\ \E j \in Nat, e \in Nat, datagrams \in Seq(Seq(Message)) :
                 /\ UpdateSends(datagrams, j, n) /\ HistoryMoves(datagrams, j, e)
<1>1. /\ sentCount + n <= MaxMessages /\ SlotsFree(NewMessages(n)) /\ parsing = <<>>
      /\ sentCount' = sentCount + n
      /\ sendReliableMessageNumberIndex' = Plus(sendReliableMessageNumberIndex, n)
      /\ resendList' = Requeued(k, NewMessages(n)) /\ due' \subseteq due
      /\ UNCHANGED <<connection, receiverVars>>
  BY DEF SenderUpdate, Idle
<1>2. resendBuffer' = [s \in DOMAIN resendBuffer |->
              IF \E i \in DOMAIN NewMessages(n) : Slot(NewMessages(n)[i].num) = s
              THEN NewMessages(n)[CHOOSE i \in DOMAIN NewMessages(n) : Slot(NewMessages(n)[i].num) = s]
              ELSE resendBuffer[s]]
  BY Zenon DEF SenderUpdate
<1>3. BufferGains(n)
  BY <1>1, <1>2, BufferGainsNew
<1>4. BufferHolds'
  BY <1>1, <1>3, BufferHoldsNew
<1>5. PICK messages : messages = [i \in 1 .. k |-> MessageOf(resendList[i])] \o NewMessages(n)
  OBVIOUS
<1>6. /\ messages \in Seq(Message) /\ Len(messages) = k + n
      /\ \A x \in DOMAIN messages : IsSent(messages[x], sentCount + n)
  BY <1>1, <1>3, <1>4, <1>5, MessagesSent
<1>7. PICK c \in Nat : c = k + n
  BY Sizes
<1>8. AreMadeOf(Cut(messages, ends), messages, c, Message)
  <2>1. ends \in Ends(c) /\ c = Len(messages)
    BY <1>6, <1>7
  <2> QED
    BY <1>6, <2>1, CutDef
<1>9. PICK datagrams \in Seq(Seq(Message)) :
         datagrams = Cut(messages, ends) /\ AreMadeOf(datagrams, messages, c, Message)
  BY <1>8 DEF AreMadeOf
<1>10. PICK j \in Nat : j = Len(datagrams) /\ j >= 1 /\ DOMAIN datagrams = 1 .. j
  BY <1>7, <1>9 DEF AreMadeOf
<1>11. /\ NoneTooOld(Len(datagrams), n)
       /\ nextDatagramSequenceNumber' = Plus(nextDatagramSequenceNumber, Len(datagrams))
       /\ Sends(datagrams)
  BY <1>5, <1>9, Zenon DEF SenderUpdate, Sends
<1>12. \A i \in 1 .. j : /\ datagrams[i] \in Seq(Message)
                         /\ \A x \in DOMAIN datagrams[i] : IsSent(datagrams[i][x], sentCount + n)
  <2>1. SUFFICES ASSUME NEW i \in 1 .. j
                 PROVE  /\ datagrams[i] \in Seq(Message)
                        /\ \A x \in DOMAIN datagrams[i] : IsSent(datagrams[i][x], sentCount + n)
    OBVIOUS
  <2>2. datagrams[i] \in Seq(Message)
    BY <1>10
  <2>3. ASSUME NEW y \in DOMAIN datagrams[i] PROVE IsSent(datagrams[i][y], sentCount + n)
    <3>1. PICK x \in DOMAIN messages : datagrams[i][y] = messages[x]
      BY <1>9, <1>10 DEF AreMadeOf
    <3> QED
      BY <1>6, <3>1
  <2> QED
    BY <2>2, <2>3
<1>13. UpdateSends(datagrams, j, n)
  <2>1. UNCHANGED <<acknowlegements, parsing, outputQueue>>
    BY <1>1 DEF receiverVars, answerVars, windowVars
  <2>2. /\ \A d \in OutstandingNumbers : Age(d) + j <= HalfRange
        /\ \A p \in Datagrams : \A i \in DOMAIN p.messages :
              p.messages[i].id + MaxAge >= sentCount + n
    BY <1>10, <1>11 DEF NoneTooOld, Age
  <2> QED
    BY <1>1, <1>10, <1>11, <1>12, <2>1, <2>2 DEF UpdateSends
<1>14. PICK history : /\ history = KeepInHistory(datagramHistory
                                    \o [i \in DOMAIN datagrams |-> Numbers(datagrams[i])])
                      /\ datagramHistory' = history.kept
                      /\ datagramHistoryPopCount' = Plus(datagramHistoryPopCount, history.dropped)
  BY <1>5, <1>9, Zenon DEF SenderUpdate
<1>15. \E e \in Nat : HistoryMoves(datagrams, j, e)
  BY <1>10, <1>14, HistoryMovesOn DEF DeliveryInv
<1> QED
  BY <1>1, <1>3, <1>4, <1>13, <1>15

(* The invariant after an update of the sender.                            *)
LEMMA SenderUpdateStep ==
    ASSUME DeliveryInv, NEW k \in 0 .. Len(resendList), NEW n \in 0 .. ResendLen,
           NEW ends \in Ends(k + n), SenderUpdate(k, n, ends)
    PROVE  DeliveryInv' /\ [W!Next]_(W!vars)
<1>1. TypeOK /\ ListMatchesBuffer /\ AnswersAscend /\ W!WindowInv
  BY DEF DeliveryInv
<1>2. /\ sentCount + n <= MaxMessages /\ SlotsFree(NewMessages(n)) /\ parsing = <<>>
      /\ BufferGains(n) /\ BufferHolds'
      /\ sentCount' = sentCount + n
      /\ sendReliableMessageNumberIndex' = Plus(sendReliableMessageNumberIndex, n)
      /\ resendList' = Requeued(k, NewMessages(n)) /\ due' \subseteq due
      /\ UNCHANGED <<connection, receiverVars>>
  BY UpdateParts
<1>3. PICK j \in Nat, e \in Nat, datagrams \in Seq(Seq(Message)) :
         UpdateSends(datagrams, j, n) /\ HistoryMoves(datagrams, j, e)
  BY UpdateParts
<1>4. /\ UNCHANGED <<expectedNextSequenceNumber, acknowlegements, NAKs, parsing>>
      /\ UNCHANGED <<receivedPacketsBaseIndex, hasReceivedPacketQueue, outputQueue>>
      /\ UNCHANGED windowVars
  BY <1>2 DEF receiverVars, answerVars, windowVars
<1>5. /\ ListMatchesBuffer'
      /\ resendList' \in Seq(0 .. MaxMessages - 1)
      /\ ToSet(resendList') = ToSet(resendList) \cup {sentCount + i - 1 : i \in 1 .. n}
  BY <1>2, ListMatchesNew
<1>6. HistoryFits' /\ datagramHistoryPopCount' \in Number /\ nextDatagramSequenceNumber' \in Number
  BY <1>3, NumbersAfter
<1>7. HistoryMeans' /\ EntriesDescribe' /\ NetworkCarries' /\ AcksAreRecent'
  BY <1>3, HistoryMeansAfter, EntriesDescribeAfter, NetworkAfter
<1>8. [W!Next]_(W!vars)
  BY <1>2, <1>4, UpdateMaps
<1>9. W!WindowInv'
  BY <1>1, <1>8, WindowAssumptions, W!WindowStep
<1>10. TypeOK'
  <2>1. sentCount' \in 0 .. MaxMessages
    BY <1>1, <1>2, Sizes DEF TypeOK
  <2>2. sendReliableMessageNumberIndex' \in Number
    BY <1>1, <1>2, NumbersStay
  <2>3. {sendReliableMessageNumberIndex', datagramHistoryPopCount', nextDatagramSequenceNumber',
         expectedNextSequenceNumber', receivedPacketsBaseIndex'} \subseteq Number
    BY <1>1, <1>4, <1>6, <2>2 DEF TypeOK
  <2>4. \A p \in net' : \/ p.type = "data" /\ p.num \in Number /\ p.messages \in Seq(Message)
                        \/ p.type \in {"ack", "nak"} /\ p.ranges \in Seq(RangeNode)
    <3>1. PICK nd \in Number : nd = nextDatagramSequenceNumber
      BY <1>1 DEF TypeOK
    <3>2. SUFFICES ASSUME NEW p \in net', p \notin net
                   PROVE  p.type = "data" /\ p.num \in Number /\ p.messages \in Seq(Message)
      BY <1>1 DEF TypeOK
    <3>3. PICK i \in 1 .. j : p = Data(Plus(nd, i - 1), datagrams[i])
      BY <1>3, <3>1, <3>2 DEF UpdateSends, Sends
    <3>4. Plus(nd, i - 1) \in Number
      <4>1. i - 1 \in Nat /\ i - 1 <= HalfRange
        <5>1. j <= HalfRange
          BY <1>3, PacketsAfter
        <5> QED
          BY <5>1, Sizes
      <4> QED
        BY <4>1, NewIsAhead
    <3>5. datagrams[i] \in Seq(Message)
      BY <1>3 DEF UpdateSends
    <3> QED
      BY <3>3, <3>4, <3>5 DEF Data
  <2>5. due' \subseteq ToSet(resendList')
    BY <1>1, <1>2, <1>5 DEF TypeOK
  <2>6. resendBuffer' \in [0 .. ResendLen - 1 -> Message \cup {Empty}]
    BY <1>2 DEF BufferGains
  <2>7. datagramHistory' \in Seq(SUBSET Number)
    BY <1>3 DEF HistoryMoves
  <2>8. /\ connection' \in {"open", "dead", "flagged"}
        /\ acknowlegements' \in Seq(RangeNode) /\ NAKs' \in Seq(RangeNode)
        /\ parsing' \in Seq(Message)
        /\ hasReceivedPacketQueue' \in Seq(BOOLEAN)
        /\ outputQueue' \in Seq(0 .. MaxMessages - 1)
    BY <1>1, <1>2, <1>4 DEF TypeOK
  <2> QED
    BY <1>5, <2>1, <2>3, <2>4, <2>5, <2>6, <2>7, <2>8, Zenon DEF TypeOK
<1>11. NoLostMessage'
  <2>1. \A id \in 0 .. sentCount' - 1 : IsSafe(id)'
    BY <1>2, <1>4, <1>5, SafeAfterUpdate
  <2> QED
    BY <1>10, <2>1, SafeAfterwards
<1>12. ParsingCarries'
  BY <1>2, <1>4 DEF ParsingCarries
<1>13. AnswersAscend'
  BY <1>1, <1>4 DEF AnswersAscend
<1> QED
  BY <1>2, <1>5, <1>6, <1>7, <1>8, <1>9, <1>10, <1>11, <1>12, <1>13 DEF DeliveryInv


-----------------------------------------------------------------------------
(* The theorems.                                                           *)

(* Every step keeps the invariant and is a step of the window, or none.    *)
LEMMA DeliveryStep ==
    ASSUME DeliveryInv, [Next]_vars
    PROVE  DeliveryInv' /\ [W!Next]_(W!vars)
<1>0. W!WindowInv
  BY DEF DeliveryInv
<1>1. ASSUME NEW k \in 0 .. Len(resendList), NEW n \in 0 .. ResendLen,
             NEW ends \in Ends(k + n), SenderUpdate(k, n, ends)
      PROVE  DeliveryInv' /\ [W!Next]_(W!vars)
  BY <1>1, SenderUpdateStep
<1>2. ASSUME AckTimeout
      PROVE  DeliveryInv' /\ [W!Next]_(W!vars)
  <2>1. DeliveryInv'
    BY <1>2, AckTimeoutStep
  <2>2. UNCHANGED <<sentCount, sendReliableMessageNumberIndex, windowVars>>
    BY <1>2 DEF AckTimeout, bufferVars, receiverVars
  <2> QED
    BY <1>0, <2>1, <2>2, WindowStays
<1>3. ASSUME NEW p \in net, ReceiveAck(p)
      PROVE  DeliveryInv' /\ [W!Next]_(W!vars)
  <2>1. DeliveryInv'
    BY <1>3, ReceiveAckStep
  <2>2. UNCHANGED <<sentCount, sendReliableMessageNumberIndex, windowVars>>
    BY <1>3 DEF ReceiveAck, receiverVars
  <2> QED
    BY <1>0, <2>1, <2>2, WindowStays
<1>4. ASSUME NEW p \in net, ReceiveNak(p)
      PROVE  DeliveryInv' /\ [W!Next]_(W!vars)
  <2>1. DeliveryInv'
    BY <1>4, ReceiveNakStep
  <2>2. UNCHANGED <<sentCount, sendReliableMessageNumberIndex, windowVars>>
    BY <1>4 DEF ReceiveNak, receiverVars
  <2> QED
    BY <1>0, <2>1, <2>2, WindowStays
<1>5. ASSUME NEW p \in net, ReceiveDatagram(p)
      PROVE  DeliveryInv' /\ [W!Next]_(W!vars)
  <2>1. DeliveryInv'
    BY <1>5, ReceiveDatagramStep
  <2>2. UNCHANGED <<sentCount, sendReliableMessageNumberIndex, windowVars>>
    BY <1>5 DEF ReceiveDatagram, senderVars, bufferVars
  <2> QED
    BY <1>0, <2>1, <2>2, WindowStays
<1>6. ASSUME NEW p \in net, Lose(p)
      PROVE  DeliveryInv' /\ [W!Next]_(W!vars)
  <2>1. DeliveryInv'
    BY <1>6, LoseStep
  <2>2. UNCHANGED <<sentCount, sendReliableMessageNumberIndex, windowVars>>
    BY <1>6 DEF Lose, senderVars, bufferVars, receiverVars
  <2> QED
    BY <1>0, <2>1, <2>2, WindowStays
<1>7. ASSUME ParseMessage
      PROVE  DeliveryInv' /\ [W!Next]_(W!vars)
  BY <1>7, ParseMessageStep, ParseMaps
<1>8. ASSUME NEW sendAcks \in BOOLEAN, ReceiverUpdate(sendAcks)
      PROVE  DeliveryInv' /\ [W!Next]_(W!vars)
  <2>1. DeliveryInv'
    BY <1>8, ReceiverUpdateStep
  <2>2. UNCHANGED <<sentCount, sendReliableMessageNumberIndex, windowVars>>
    BY <1>8 DEF ReceiverUpdate, senderVars, bufferVars
  <2> QED
    BY <1>0, <2>1, <2>2, WindowStays
<1>9. ASSUME UNCHANGED vars
      PROVE  DeliveryInv' /\ [W!Next]_(W!vars)
  <2>1. /\ net' \subseteq net /\ connection' \in {"open", "dead", "flagged"}
        /\ due' \subseteq ToSet(resendList)
        /\ UNCHANGED <<sentCount, sendReliableMessageNumberIndex, resendBuffer, resendList,
                       historyVars, receiverVars>>
    BY <1>9 DEF vars, senderVars, bufferVars, DeliveryInv, TypeOK
  <2>2. DeliveryInv'
    BY <2>1, NetShrinks
  <2>3. UNCHANGED <<sentCount, sendReliableMessageNumberIndex, windowVars>>
    BY <2>1 DEF receiverVars
  <2> QED
    BY <1>0, <2>2, <2>3, WindowStays
<1> QED
  BY <1>1, <1>2, <1>3, <1>4, <1>5, <1>6, <1>7, <1>8, <1>9, Zenon DEF Next

(* The inductive invariant holds in every state: slots hold the messages   *)
(* whose they are, the history names only messages sent so recently that   *)
(* their numbers are theirs alone, and an acknowledgement is only ever     *)
(* under way for a datagram whose messages the receiver has.               *)
THEOREM DeliveryInvariant == Spec => []DeliveryInv
<1> QED
  BY DeliveryInit, DeliveryStep, PTL DEF Spec

(* Every variable keeps its type.                                          *)
THEOREM DeliveryTypeCorrect == Spec => []TypeOK
<1>1. DeliveryInv => TypeOK
  BY DEF DeliveryInv
<1> QED
  BY DeliveryInvariant, <1>1, PTL

(* No reliable message is lost, whatever the network loses, duplicates and *)
(* reorders: one that was not handed over is in its slot of the resend     *)
(* buffer and in the list of timers.                                       *)
THEOREM NoMessageIsLost == Spec => []NoLostMessage
<1>1. DeliveryInv => NoLostMessage
  BY DEF DeliveryInv
<1> QED
  BY DeliveryInvariant, <1>1, PTL

(* The linked list and the array of the resend buffer hold the same        *)
(* messages, each once.                                                    *)
THEOREM ListAndBufferAgree == Spec => []ListMatchesBuffer
<1>1. DeliveryInv => ListMatchesBuffer
  BY DEF DeliveryInv
<1> QED
  BY DeliveryInvariant, <1>1, PTL

(* The datagram history ends with the last datagram sent and says of every *)
(* datagram under way what that datagram carries, or nothing.              *)
THEOREM HistoryIsTrue == Spec => []HistoryDescribesDatagrams
<1>1. ASSUME DeliveryInv PROVE HistoryDescribesDatagrams
  <2>1. TypeOK /\ HistoryFits /\ EntriesDescribe
    BY <1>1 DEF DeliveryInv
  <2>2. Minus(nextDatagramSequenceNumber, datagramHistoryPopCount) = Len(datagramHistory)
    BY <2>1 DEF HistoryFits
  <2>3. ASSUME NEW p \in Datagrams, InHistory(p.num)
        PROVE  MessagesOfDatagram(p.num) \in {{}, Numbers(p.messages)}
    <3>1. p.num \in Number
      BY <2>1 DEF TypeOK, Datagrams
    <3>2. PICK i \in DOMAIN datagramHistory :
             HistoryNumber(i) = p.num /\ MessagesOfDatagram(p.num) = datagramHistory[i]
      BY <2>1, <2>3, <3>1, InHistoryDef
    <3> QED
      BY <2>1, <3>2 DEF EntriesDescribe
  <2> QED
    BY <2>2, <2>3 DEF HistoryDescribesDatagrams
<1> QED
  BY DeliveryInvariant, <1>1, PTL

(* The two instances of the window take the same steps.                    *)
LEMMA SameWindow ==
    (W!Next <=> Window!Next) /\ (UNCHANGED W!vars <=> UNCHANGED Window!vars)
<1>1. UNCHANGED W!vars <=> UNCHANGED Window!vars
  BY DEF W!vars, Window!vars
<1>2. \A n : W!NumberMessages(n) <=> Window!NumberMessages(n)
  BY DEF W!NumberMessages, Window!NumberMessages, W!Delivered, Window!Delivered,
         W!Plus, Window!Plus
<1>3. \A m : W!ReceiveMessage(m) <=> Window!ReceiveMessage(m)
  BY DEF W!ReceiveMessage, Window!ReceiveMessage, W!IsAccepted, Window!IsAccepted,
         W!MarkReceived, Window!MarkReceived, W!LeadingReceived, Window!LeadingReceived,
         W!PopLeading, Window!PopLeading, W!HoleCount, Window!HoleCount,
         W!Minus, Window!Minus, W!Plus, Window!Plus, W!HalfRange, Window!HalfRange,
         W!MaxNumber, Window!MaxNumber
<1>4. \A m : W!IgnoreMessage(m) <=> Window!IgnoreMessage(m)
  BY DEF W!IgnoreMessage, Window!IgnoreMessage, W!IsAccepted, Window!IsAccepted,
         W!HoleCount, Window!HoleCount, W!Minus, Window!Minus, W!HalfRange, Window!HalfRange,
         W!MaxNumber, Window!MaxNumber, W!vars, Window!vars
<1> QED
  BY <1>1, <1>2, <1>3, <1>4 DEF W!Next, Window!Next

(* The receiver's window behaves as ReceiveWindow says: the sender numbers *)
(* a message only when the one ResendLen before it was handed over, and no *)
(* copy arrives that is too old for the window.                            *)
THEOREM WindowIsImplemented == Spec => ImplementsReceiveWindow
<1>1. Init => Window!Init
  BY WindowStarts
<1>2. ASSUME DeliveryInv, [Next]_vars
      PROVE  [Window!Next]_(Window!vars)
  <2>1. [W!Next]_(W!vars)
    BY <1>2, DeliveryStep
  <2>2. W!Next \/ UNCHANGED W!vars
    BY <2>1
  <2>3. Window!Next \/ UNCHANGED Window!vars
    BY <2>2, SameWindow
  <2> QED
    BY <2>3
<1> QED
  BY DeliveryInvariant, <1>1, <1>2, PTL DEF Spec, ImplementsReceiveWindow, Window!Spec

(* No message is handed to the user twice, although the network duplicates *)
(* datagrams and the sender sends messages again.                          *)
THEOREM HandedOverOnce == Spec => []Window!AtMostOnce
<1>1. DeliveryInv => Window!AtMostOnce
  BY DEF DeliveryInv, W!WindowInv, W!AtMostOnce, Window!AtMostOnce
<1> QED
  BY DeliveryInvariant, <1>1, PTL

(* Sender, network and receiver together keep the promise of               *)
(* ReliableChannel: what is handed over was sent, each message once.       *)
THEOREM DeliveryImplementsChannel == Spec => W!ImplementsReliableChannel
<1>1. Init => W!Init
  BY WindowStarts
<1>2. ASSUME DeliveryInv, [Next]_vars
      PROVE  [W!Next]_(W!vars)
  BY <1>2, DeliveryStep
<1>3. W!Spec => W!ImplementsReliableChannel
  BY WindowAssumptions, W!WindowImplementsChannel
<1> QED
  BY DeliveryInvariant, <1>1, <1>2, <1>3, PTL DEF Spec, W!Spec

=============================================================================
