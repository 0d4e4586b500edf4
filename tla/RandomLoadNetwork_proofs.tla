---------------------- MODULE RandomLoadNetwork_proofs ----------------------
(* Theorems about RandomLoadNetwork, for every set of nodes and sizes, every *)
(* configuration of the calculator and every bound.                         *)
EXTENDS RandomLoadNetwork, FiniteSetTheorems, TLAPS

USE ConfigAssumption, BoundsAssumption
-----------------------------------------------------------------------------
(* Arithmetic of CalcTime.                                                  *)

LEMMA DivIsNat == ASSUME NEW a \in Nat, NEW b \in Nat \ {0} PROVE a \div b \in Nat
OBVIOUS

LEMMA ProductIsNat == ASSUME NEW a \in Nat, NEW b \in Nat PROVE a * b \in Nat
OBVIOUS

(* A latency is a natural number, whether it replaces the base one or not.  *)
LEMMA ArrivalIsNat ==
  ASSUME TypeOK, NEW p \in Node \X Node, NEW size \in Size, NEW random \in 0..(randomRange - 1)
  PROVE  now + InOrder(p, BaseTime(random)) + perByte * size \in Nat
<1>1. (packetsInTransit * timePerPacket) \div PacketUnit \in Nat
  BY ProductIsNat, DivIsNat DEF TypeOK
<1>2. BaseTime(random) \in Nat
  BY <1>1 DEF BaseTime
<1>3. now \in Nat /\ mostRecentMsg[p] \in Nat
  BY DEF TypeOK, Queue!Tick
<1>4. InOrder(p, BaseTime(random)) \in Nat
  BY <1>2, <1>3 DEF InOrder
<1>5. perByte * size \in Nat
  BY ProductIsNat
<1> QED
  BY <1>3, <1>4, <1>5
-----------------------------------------------------------------------------
(* The messages in transit are the places of the agenda that are taken.     *)

Taken(a) == {p \in Queue!Tick \X Nat : p[2] \in 1..Len(a[p[1]])}

LEMMA PlacesAreTaken ==
  ASSUME NEW a \in [Queue!Tick -> Seq(Message)]
  PROVE  UNION {{<<t, k>> : k \in DOMAIN a[t]} : t \in Queue!Tick} = Taken(a)
<1> DEFINE Places == UNION {{<<t, k>> : k \in DOMAIN a[t]} : t \in Queue!Tick}
<1>1. \A t \in Queue!Tick : DOMAIN a[t] = 1..Len(a[t]) /\ Len(a[t]) \in Nat
  OBVIOUS
<1>2. ASSUME NEW p \in Places
      PROVE  p \in Taken(a)
  <2>1. PICK t \in Queue!Tick : \E k \in DOMAIN a[t] : p = <<t, k>>
    OBVIOUS
  <2>2. PICK k \in DOMAIN a[t] : p = <<t, k>>
    BY <2>1
  <2> QED
    BY <2>2, <1>1 DEF Taken
<1>3. ASSUME NEW p \in Taken(a)
      PROVE  p \in Places
  <2>1. p = <<p[1], p[2]>> /\ p[1] \in Queue!Tick /\ p[2] \in DOMAIN a[p[1]]
    BY <1>1 DEF Taken
  <2> QED
    BY <2>1
<1> QED
  BY <1>2, <1>3

(* Scheduling takes the place after the last one of a tick.                 *)
LEMMA ScheduleTakesPlace ==
  ASSUME NEW a \in [Queue!Tick -> Seq(Message)], NEW m \in Message, NEW t \in Queue!Tick,
         NEW b, b = [a EXCEPT ![t] = Append(@, m)]
  PROVE  /\ b \in [Queue!Tick -> Seq(Message)]
         /\ <<t, Len(a[t]) + 1>> \notin Taken(a)
         /\ Taken(b) = Taken(a) \cup {<<t, Len(a[t]) + 1>>}
<1>1. b \in [Queue!Tick -> Seq(Message)]
  OBVIOUS
<1>2. /\ Len(a[t]) \in Nat /\ Len(b[t]) = Len(a[t]) + 1
      /\ \A s \in Queue!Tick : s # t => b[s] = a[s]
  OBVIOUS
<1>3. <<t, Len(a[t]) + 1>> \in Queue!Tick \X Nat
  BY <1>2
<1>4. \A p \in Queue!Tick \X Nat :
        p[2] \in 1..Len(b[p[1]]) <=> p[2] \in 1..Len(a[p[1]]) \/ p = <<t, Len(a[t]) + 1>>
  <2> TAKE p \in Queue!Tick \X Nat
  <2>1. p = <<p[1], p[2]>> /\ p[1] \in Queue!Tick /\ p[2] \in Nat
    OBVIOUS
  <2>2. CASE p[1] = t
    BY <2>1, <2>2, <1>2
  <2>3. CASE p[1] # t
    BY <2>1, <2>3, <1>2
  <2> QED
    BY <2>2, <2>3
<1> QED
  BY <1>1, <1>2, <1>3, <1>4 DEF Taken

(* A delivery frees the last place of the tick.                             *)
LEMMA CallFreesPlace ==
  ASSUME NEW a \in [Queue!Tick -> Seq(Message)], NEW t \in Queue!Tick, a[t] # <<>>,
         NEW b, b = [a EXCEPT ![t] = Tail(@)]
  PROVE  /\ b \in [Queue!Tick -> Seq(Message)]
         /\ <<t, Len(a[t])>> \in Taken(a)
         /\ Taken(b) = Taken(a) \ {<<t, Len(a[t])>>}
<1>1. b \in [Queue!Tick -> Seq(Message)]
  OBVIOUS
<1>2. /\ Len(a[t]) \in Nat \ {0} /\ Len(b[t]) = Len(a[t]) - 1
      /\ \A s \in Queue!Tick : s # t => b[s] = a[s]
  OBVIOUS
<1>3. \A p \in Queue!Tick \X Nat :
        p[2] \in 1..Len(b[p[1]]) <=> p[2] \in 1..Len(a[p[1]]) /\ p # <<t, Len(a[t])>>
  <2> TAKE p \in Queue!Tick \X Nat
  <2>1. p = <<p[1], p[2]>> /\ p[1] \in Queue!Tick /\ p[2] \in Nat
    OBVIOUS
  <2>2. CASE p[1] = t
    BY <2>1, <2>2, <1>2
  <2>3. CASE p[1] # t
    BY <2>1, <2>3, <1>2
  <2> QED
    BY <2>2, <2>3
<1> QED
  BY <1>1, <1>2, <1>3 DEF Taken

(* A place more, and a place less.                                          *)
LEMMA OneMore ==
  \A S, x : IsFiniteSet(S) /\ x \notin S =>
    IsFiniteSet(S \cup {x}) /\ Cardinality(S \cup {x}) = Cardinality(S) + 1
BY FS_AddElement

LEMMA OneLess ==
  \A S, x : IsFiniteSet(S) /\ x \in S =>
    IsFiniteSet(S \ {x}) /\ Cardinality(S \ {x}) = Cardinality(S) - 1
BY FS_RemoveElement
-----------------------------------------------------------------------------
(* The inductive invariant: the types of everything but the load, and that  *)
(* the load counts finitely many messages.                                  *)
LoadInv ==
  /\ now \in Queue!Tick
  /\ agenda \in [Queue!Tick -> Seq(Message)]
  /\ mostRecentMsg \in [Node \X Node -> Queue!Tick]
  /\ sent \in 0..MaxMessages
  /\ IsFiniteSet(Taken(agenda))
  /\ packetsInTransit = Cardinality(Taken(agenda))

(* The invariant says what the run checks.                                  *)
LEMMA LoadInvSuffices == LoadInv => TypeOK /\ LoadIsExact
BY PlacesAreTaken, FS_CardinalityType DEF LoadInv, TypeOK, LoadIsExact, InTransit

LEMMA LoadInvInit == Init => LoadInv
<1> SUFFICES ASSUME Init PROVE LoadInv
  OBVIOUS
<1>1. agenda = [t \in Queue!Tick |-> <<>>] /\ now = 0 /\ packetsInTransit = 0 /\ sent = 0
  BY DEF Init, Queue!Init
<1>2. Taken(agenda) = {}
  BY <1>1 DEF Taken
<1>3. IsFiniteSet(Taken(agenda)) /\ Cardinality(Taken(agenda)) = 0
  BY <1>2, FS_EmptySet
<1>4. 0 \in Queue!Tick
  BY DEF Queue!Tick
<1>5. agenda \in [Queue!Tick -> Seq(Message)]
  BY <1>1
<1> QED
  BY <1>1, <1>3, <1>4, <1>5 DEF LoadInv, Init

(* Sending, delivery and the passing of time keep the load exact.           *)
LEMMA LoadInvNext == LoadInv /\ [Next]_vars => LoadInv'
<1> SUFFICES ASSUME LoadInv, [Next]_vars PROVE LoadInv'
  OBVIOUS
<1> USE DEF LoadInv
<1>1. ASSUME NEW from \in Node, NEW to \in Node, NEW size \in Size,
             NEW random \in 0..(randomRange - 1), RecvMsg(from, to, size, random)
      PROVE  LoadInv'
  <2> DEFINE arrival == now + InOrder(<<from, to>>, BaseTime(random)) + perByte * size
             m == [from |-> from, to |-> to, number |-> sent + 1]
  <2>1. arrival \in Queue!Tick
    BY <1>1, ArrivalIsNat, LoadInvSuffices DEF RecvMsg, Queue!Tick
  <2>2. m \in Message
    BY <1>1 DEF RecvMsg, Message
  <2>3. agenda' = [agenda EXCEPT ![arrival] = Append(@, m)] /\ now' = now
    BY <1>1 DEF RecvMsg, Queue!Schedule
  <2> HIDE DEF arrival, m
  <2>4. /\ agenda' \in [Queue!Tick -> Seq(Message)]
        /\ <<arrival, Len(agenda[arrival]) + 1>> \notin Taken(agenda)
        /\ Taken(agenda') = Taken(agenda) \cup {<<arrival, Len(agenda[arrival]) + 1>>}
    BY <2>1, <2>2, <2>3, ScheduleTakesPlace
  <2>5. /\ IsFiniteSet(Taken(agenda'))
        /\ Cardinality(Taken(agenda')) = Cardinality(Taken(agenda)) + 1
    <3> DEFINE S == Taken(agenda)
               x == <<arrival, Len(agenda[arrival]) + 1>>
    <3>1. IsFiniteSet(S) /\ x \notin S /\ Taken(agenda') = S \cup {x}
      BY <2>4
    <3> HIDE DEF S, x
    <3>2. IsFiniteSet(S \cup {x}) /\ Cardinality(S \cup {x}) = Cardinality(S) + 1
      BY <3>1, OneMore
    <3> QED
      BY <3>1, <3>2 DEF S
  <2>6. packetsInTransit' = Cardinality(Taken(agenda'))
    BY <1>1, <2>5 DEF RecvMsg, OnMsgSend
  <2>7. mostRecentMsg' \in [Node \X Node -> Queue!Tick]
    BY <1>1, <2>1 DEF RecvMsg, arrival
  <2>8. sent' \in 0..MaxMessages
    BY <1>1 DEF RecvMsg
  <2> QED
    BY <2>3, <2>4, <2>5, <2>6, <2>7, <2>8 DEF Taken, Queue!Tick
<1>2. CASE DeliverMsg
  <2>1. /\ agenda[now] # <<>> /\ agenda' = [agenda EXCEPT ![now] = Tail(@)] /\ now' = now
        /\ packetsInTransit' = packetsInTransit - 1
        /\ UNCHANGED <<mostRecentMsg, sent>>
    BY <1>2 DEF DeliverMsg, Queue!Call, OnMsgDelivered
  <2>2. /\ agenda' \in [Queue!Tick -> Seq(Message)]
        /\ <<now, Len(agenda[now])>> \in Taken(agenda)
        /\ Taken(agenda') = Taken(agenda) \ {<<now, Len(agenda[now])>>}
    BY <2>1, CallFreesPlace
  <2>3. /\ IsFiniteSet(Taken(agenda'))
        /\ Cardinality(Taken(agenda')) = Cardinality(Taken(agenda)) - 1
    <3> DEFINE S == Taken(agenda)
               x == <<now, Len(agenda[now])>>
    <3>1. IsFiniteSet(S) /\ x \in S /\ Taken(agenda') = S \ {x}
      BY <2>2
    <3> HIDE DEF S, x
    <3>2. IsFiniteSet(S \ {x}) /\ Cardinality(S \ {x}) = Cardinality(S) - 1
      BY <3>1, OneLess
    <3> QED
      BY <3>1, <3>2 DEF S
  <2> QED
    BY <2>1, <2>2, <2>3 DEF Taken, Queue!Tick
<1>3. CASE Tick
  BY <1>3 DEF Tick, Queue!Advance, Queue!Tick, Taken
<1>4. CASE UNCHANGED vars
  BY <1>4 DEF vars, Queue!Tick, Taken
<1> QED
  BY <1>1, <1>2, <1>3, <1>4 DEF Next

LEMMA LoadInvariant == Spec => []LoadInv
BY LoadInvInit, LoadInvNext, PTL DEF Spec

(* Messages, arrival times and the counter keep their types: the unsigned   *)
(* packetsInTransit does not go below zero (93-102).                        *)
THEOREM NetworkTypeCorrect == Spec => []TypeOK
BY LoadInvariant, LoadInvSuffices, PTL

(* The load a latency is charged for is the number of messages in transit.  *)
THEOREM LoadIsAlwaysExact == Spec => []LoadIsExact
BY LoadInvariant, LoadInvSuffices, PTL
-----------------------------------------------------------------------------
(* The order of delivery.  CalcTime replaces the base latency to make two   *)
(* messages of a pair arrive in order, and the time for the size is added   *)
(* afterwards (RecvMsg): so the order is kept for certain only when that    *)
(* time is at least the largest base latency there can be.                  *)
LargePackets ==
  /\ enforceInOrder
  /\ \A size \in Size :
       initialTime + (randomRange - 1) + (MaxMessages * timePerPacket) \div PacketUnit
         <= perByte * size

LEMMA ProductGrows ==
  ASSUME NEW a \in Nat, NEW b \in Nat, NEW c \in Nat, a <= b PROVE a * c <= b * c
OBVIOUS

LEMMA DivGrows ==
  ASSUME NEW a \in Nat, NEW b \in Nat, NEW c \in Nat \ {0}, a <= b PROVE a \div c <= b \div c
OBVIOUS

(* A message arrives no earlier than the last one of its pair.              *)
LEMMA ArrivesAfterTheLast ==
  ASSUME LargePackets, TypeOK, packetsInTransit <= MaxMessages,
         NEW p \in Node \X Node, NEW size \in Size, NEW random \in 0..(randomRange - 1)
  PROVE  mostRecentMsg[p] <= now + InOrder(p, BaseTime(random)) + perByte * size
<1> DEFINE load == (packetsInTransit * timePerPacket) \div PacketUnit
           full == (MaxMessages * timePerPacket) \div PacketUnit
           sizeTime == perByte * size
<1>1. load \in Nat /\ full \in Nat /\ load <= full
  BY ProductIsNat, ProductGrows, DivIsNat, DivGrows DEF TypeOK
<1>2. sizeTime \in Nat /\ initialTime + (randomRange - 1) + full <= sizeTime
  BY ProductIsNat DEF LargePackets
<1>3. now \in Nat /\ mostRecentMsg[p] \in Nat /\ enforceInOrder
  BY DEF TypeOK, Queue!Tick, LargePackets
<1>4. BaseTime(random) = initialTime + random + load
  BY DEF BaseTime
<1> HIDE DEF load, full, sizeTime
<1> DEFINE base == BaseTime(random)
<1>5. base \in Nat /\ base <= sizeTime
  BY <1>1, <1>2, <1>4
<1> HIDE DEF base
<1>6. InOrder(p, base) = IF mostRecentMsg[p] > now + base THEN mostRecentMsg[p] - (now + base) ELSE base
  BY <1>3 DEF InOrder
<1>7. mostRecentMsg[p] <= now + InOrder(p, base) + sizeTime
  BY <1>2, <1>3, <1>5, <1>6
<1> QED
  BY <1>7 DEF base, sizeTime

(* The inductive invariant: no more messages are in transit than were sent, *)
(* a message in transit arrives no later than the last one of its pair and  *)
(* has one of the numbers given, and the messages of a pair are in order.   *)
OrderInv ==
  /\ packetsInTransit <= sent
  /\ \A p \in Taken(agenda) :
       /\ p[1] <= mostRecentMsg[<<MessageAt(p).from, MessageAt(p).to>>]
       /\ MessageAt(p).number <= sent
  /\ \A p, q \in Taken(agenda) :
       /\ MessageAt(p).from = MessageAt(q).from
       /\ MessageAt(p).to = MessageAt(q).to
       /\ MessageAt(p).number < MessageAt(q).number
       => Before(p, q)

LEMMA OrderInvInit == Init => OrderInv
<1> SUFFICES ASSUME Init PROVE OrderInv
  OBVIOUS
<1>1. Taken(agenda) = {}
  BY DEF Init, Queue!Init, Taken
<1> QED
  BY <1>1 DEF Init, OrderInv

(* Sending puts the message behind every one of its pair.                   *)
LEMMA SendingKeepsOrder ==
  ASSUME LargePackets, LoadInv, TypeOK, OrderInv, NEW from \in Node, NEW to \in Node, NEW size \in Size,
         NEW random \in 0..(randomRange - 1), RecvMsg(from, to, size, random)
  PROVE  OrderInv'
<1> DEFINE pair == <<from, to>>
           arrival == now + InOrder(pair, BaseTime(random)) + perByte * size
           m == [from |-> from, to |-> to, number |-> sent + 1]
           new == <<arrival, Len(agenda[arrival]) + 1>>
           At(p) == agenda'[p[1]][p[2]]
<1>1. arrival \in Queue!Tick
  BY ArrivalIsNat DEF RecvMsg, Queue!Tick
<1>2. m \in Message /\ sent \in Nat
  BY DEF RecvMsg, Message, TypeOK
<1>3. agenda' = [agenda EXCEPT ![arrival] = Append(@, m)]
  BY DEF RecvMsg, Queue!Schedule
<1>4. mostRecentMsg' = [mostRecentMsg EXCEPT ![pair] = arrival]
  BY DEF RecvMsg, LargePackets
<1>5. packetsInTransit' <= sent' /\ sent' = sent + 1 /\ packetsInTransit <= MaxMessages
  BY DEF RecvMsg, OnMsgSend, OrderInv, TypeOK
<1>6. mostRecentMsg[pair] <= arrival
  BY <1>5, ArrivesAfterTheLast
<1>7. m.from = from /\ m.to = to /\ m.number = sent + 1
  OBVIOUS
<1> HIDE DEF arrival, m
<1>8. /\ agenda' \in [Queue!Tick -> Seq(Message)]
      /\ Taken(agenda') = Taken(agenda) \cup {new}
  BY <1>1, <1>2, <1>3, ScheduleTakesPlace DEF LoadInv
<1>9. At(new) = m
  BY <1>1, <1>2, <1>3 DEF MessageAt, LoadInv
<1>10. ASSUME NEW p \in Taken(agenda)
       PROVE  /\ At(p) = MessageAt(p) /\ MessageAt(p) \in Message
              /\ p[1] \in Queue!Tick /\ p[2] \in Nat
              /\ p[1] = arrival => p[2] < new[2]
              /\ new[2] \in Nat
  BY <1>1, <1>2, <1>3 DEF MessageAt, LoadInv, Taken
<1>11. mostRecentMsg \in [Node \X Node -> Queue!Tick] /\ pair \in Node \X Node
  BY DEF TypeOK
<1>12. arrival \in Nat /\ \A t \in Queue!Tick : t \in Nat
  BY <1>1 DEF Queue!Tick
<1>13. new[1] = arrival
  OBVIOUS
<1> HIDE DEF new, At
<1>14. ASSUME NEW p \in Taken(agenda)
       PROVE  /\ p[1] <= mostRecentMsg'[<<At(p).from, At(p).to>>]
              /\ At(p).number <= sent'
              /\ At(p).number < m.number
              /\ At(p).from = from /\ At(p).to = to => Before(p, new)
  <2>1. MessageAt(p).from \in Node /\ MessageAt(p).to \in Node /\ MessageAt(p).number \in Nat
    BY <1>10 DEF Message
  <2> DEFINE q == <<MessageAt(p).from, MessageAt(p).to>>
  <2>2. p[1] <= mostRecentMsg[q] /\ MessageAt(p).number <= sent
    BY DEF OrderInv
  <2>3. q \in Node \X Node /\ mostRecentMsg[q] \in Nat /\ p[1] \in Nat
    BY <2>1, <1>10, <1>11, <1>12
  <2>4. p[1] <= mostRecentMsg'[q]
    BY <2>2, <2>3, <1>4, <1>6, <1>11, <1>12
  <2>5. ASSUME MessageAt(p).from = from, MessageAt(p).to = to
        PROVE  Before(p, new)
    <3>1. p[1] <= arrival
      BY <2>5, <2>2, <2>3, <1>6, <1>12
    <3> QED
      BY <3>1, <2>3, <1>10, <1>12, <1>13 DEF Before
  <2>6. MessageAt(p).number <= sent' /\ MessageAt(p).number < m.number
    BY <2>1, <2>2, <1>2, <1>5, <1>7
  <2> QED
    BY <2>4, <2>5, <2>6, <1>10
<1>15. ASSUME NEW p \in Taken(agenda'), NEW q \in Taken(agenda'),
              At(p).from = At(q).from, At(p).to = At(q).to,
              At(p).number < At(q).number
       PROVE  Before(p, q)
  <2>1. CASE p \in Taken(agenda) /\ q \in Taken(agenda)
    BY <2>1, <1>10, <1>15 DEF OrderInv
  <2>2. CASE p \in Taken(agenda) /\ q = new
    BY <2>2, <1>14, <1>15, <1>9, <1>7
  <2>3. CASE p = new /\ q \in Taken(agenda)
    <3>1. At(q).number \in Nat
      BY <2>3, <1>10 DEF Message
    <3>2. At(q).number < m.number /\ m.number < At(q).number
      BY <2>3, <1>14, <1>15, <1>9
    <3> QED
      BY <3>1, <3>2, <1>2, <1>7
  <2>4. CASE p = new /\ q = new
    BY <2>4, <1>15, <1>9, <1>7, <1>2
  <2> QED
    BY <2>1, <2>2, <2>3, <2>4, <1>8
<1>16. ASSUME NEW p \in Taken(agenda')
       PROVE  /\ p[1] <= mostRecentMsg'[<<At(p).from, At(p).to>>]
              /\ At(p).number <= sent'
  <2>1. CASE p \in Taken(agenda)
    BY <2>1, <1>14
  <2>2. CASE p = new
    <3>1. mostRecentMsg'[pair] = arrival
      BY <1>4, <1>11
    <3> QED
      BY <3>1, <2>2, <1>2, <1>5, <1>7, <1>9, <1>12, <1>13
  <2> QED
    BY <2>1, <2>2, <1>8
<1>17. Taken(agenda)' = Taken(agenda')
  BY DEF Taken, Queue!Tick
<1>18. \A p, q : Before(p, q)' = Before(p, q)
  BY DEF Before
<1> QED
  BY <1>5, <1>15, <1>16, <1>17 DEF OrderInv, Before, MessageAt, At

(* A delivery takes the first message of the tick: the others keep their    *)
(* order, one place further up.                                             *)
LEMMA DeliveryKeepsOrder ==
  ASSUME LoadInv, TypeOK, OrderInv, DeliverMsg
  PROVE  OrderInv'
<1> DEFINE up(p) == IF p[1] = now THEN <<p[1], p[2] + 1>> ELSE p
<1>1. /\ agenda[now] # <<>> /\ agenda' = [agenda EXCEPT ![now] = Tail(@)] /\ now' = now
      /\ packetsInTransit' = packetsInTransit - 1
      /\ mostRecentMsg' = mostRecentMsg /\ sent' = sent
  BY DEF DeliverMsg, Queue!Call, OnMsgDelivered
<1>2. packetsInTransit' <= sent'
  BY <1>1 DEF OrderInv, TypeOK
<1>3. ASSUME NEW p \in Taken(agenda')
      PROVE  /\ up(p) \in Taken(agenda) /\ MessageAt(p)' = MessageAt(up(p))
             /\ up(p)[1] = p[1] /\ p[2] \in Nat /\ p[1] \in Nat
             /\ p[1] = now => up(p)[2] = p[2] + 1
             /\ p[1] # now => up(p)[2] = p[2]
  <2>1. now \in Queue!Tick /\ agenda \in [Queue!Tick -> Seq(Message)]
    BY DEF LoadInv
  <2>2. p = <<p[1], p[2]>> /\ p[1] \in Queue!Tick /\ p[2] \in Nat /\ p[2] \in 1..Len(agenda'[p[1]])
    BY DEF Taken
  <2>3. p[1] \in Nat
    BY <2>2 DEF Queue!Tick
  <2>4. CASE p[1] = now
    <3>1. agenda'[now] = Tail(agenda[now]) /\ agenda[now] \in Seq(Message)
      BY <1>1, <2>1
    <3>2. /\ p[2] + 1 \in 1..Len(agenda[now])
          /\ Tail(agenda[now])[p[2]] = agenda[now][p[2] + 1]
      <4> DEFINE s == agenda[now]
      <4>1. s \in Seq(Message) /\ s # <<>> /\ agenda'[now] = Tail(s)
        BY <3>1, <1>1
      <4> HIDE DEF s
      <4>2. Len(s) \in Nat /\ Len(Tail(s)) = Len(s) - 1
        BY <4>1
      <4>3. \A k \in 1..(Len(s) - 1) : Tail(s)[k] = s[k + 1]
        BY <4>1, <4>2
      <4>4. \A k \in 1..(Len(s) - 1) : Tail(s)[k] = s[k + 1] /\ k + 1 \in 1..Len(s)
        BY <4>2, <4>3
      <4>5. p[2] \in 1..(Len(s) - 1)
        BY <4>1, <4>2, <2>2, <2>4
      <4> QED
        BY <4>1, <4>2, <4>4, <4>5 DEF s
    <3>4. up(p) = <<now, p[2] + 1>> /\ <<now, p[2] + 1>> \in Taken(agenda)
      BY <3>2, <2>1, <2>2, <2>4 DEF Taken, up
    <3>5. agenda'[p[1]][p[2]] = agenda[now][p[2] + 1]
      BY <3>1, <3>2, <2>4
    <3> QED
      BY <3>4, <3>5, <2>2, <2>3, <2>4 DEF MessageAt
  <2>5. CASE p[1] # now
    BY <2>1, <2>2, <2>3, <2>5, <1>1 DEF Taken, MessageAt
  <2> QED
    BY <2>4, <2>5
<1> HIDE DEF up
<1>4. ASSUME NEW p \in Taken(agenda')
      PROVE  /\ p[1] <= mostRecentMsg'[<<MessageAt(p)'.from, MessageAt(p)'.to>>]
             /\ MessageAt(p)'.number <= sent'
  BY <1>1, <1>3 DEF OrderInv
<1>5. ASSUME NEW p \in Taken(agenda'), NEW q \in Taken(agenda'),
             MessageAt(p)'.from = MessageAt(q)'.from, MessageAt(p)'.to = MessageAt(q)'.to,
             MessageAt(p)'.number < MessageAt(q)'.number
      PROVE  Before(p, q)
  <2>1. Before(up(p), up(q))
    BY <1>3, <1>5 DEF OrderInv
  <2> QED
    BY <2>1, <1>3 DEF Before
<1>6. Taken(agenda)' = Taken(agenda')
  BY DEF Taken, Queue!Tick
<1> QED
  BY <1>2, <1>4, <1>5, <1>6 DEF OrderInv, Before

LEMMA OrderInvNext == LargePackets /\ LoadInv /\ OrderInv /\ [Next]_vars => OrderInv'
<1> SUFFICES ASSUME LargePackets, LoadInv, OrderInv, [Next]_vars PROVE OrderInv'
  OBVIOUS
<1>1. TypeOK
  BY LoadInvSuffices
<1>2. ASSUME NEW from \in Node, NEW to \in Node, NEW size \in Size,
             NEW random \in 0..(randomRange - 1), RecvMsg(from, to, size, random)
      PROVE  OrderInv'
  BY <1>1, <1>2, SendingKeepsOrder
<1>3. CASE DeliverMsg
  BY <1>1, <1>3, DeliveryKeepsOrder
<1>4. CASE Tick \/ UNCHANGED vars
  <2>1. UNCHANGED <<agenda, packetsInTransit, mostRecentMsg, sent>>
    BY <1>4 DEF Tick, Queue!Advance, vars
  <2> QED
    BY <2>1 DEF OrderInv, Taken, Queue!Tick, MessageAt, Before
<1> QED
  BY <1>2, <1>3, <1>4 DEF Next

LEMMA OrderInvSuffices == LoadInv /\ OrderInv => DeliveredInOrder
BY PlacesAreTaken DEF LoadInv, OrderInv, DeliveredInOrder, InTransit

(* With enforceInOrder, messages whose size takes no less time than the     *)
(* largest base latency arrive in the order they were sent in, whatever the *)
(* random latencies and the load: CalcTime's correction (InOrder) is then   *)
(* never undone by the size that RecvMsg adds.                              *)
THEOREM LargePacketsAreDeliveredInOrder ==
  ASSUME LargePackets PROVE Spec => []DeliveredInOrder
<1>1. Init => OrderInv
  BY OrderInvInit
<1>2. LoadInv /\ OrderInv /\ [Next]_vars => OrderInv'
  BY OrderInvNext
<1>3. LoadInv /\ OrderInv => DeliveredInOrder
  BY OrderInvSuffices
<1> QED
  BY <1>1, <1>2, <1>3, LoadInvariant, PTL DEF Spec
=============================================================================
