------------------------- MODULE RandomLoadNetwork --------------------------
(***************************************************************************)
(* The network of src/src/MemSys/Devices/RandomLoadNetwork.cpp with the    *)
(* RandomLoadedCalculator: every message gets a random latency, more of it *)
(* the more messages are in transit, plus a time for its size; with        *)
(* enforceInOrder the calculator remembers per pair of nodes when the last *)
(* message arrives.  The delivery is an event of the EventManager, of      *)
(* which the network sees the EventQueue.                                  *)
(***************************************************************************)
EXTENDS Integers, Sequences, FiniteSets

CONSTANTS Node,
          Size,             \* the sizes of messages
          initialTime,      \* MinTime
          randomRange,      \* MaxTime - MinTime + 1
          timePerPacket,    \* in units of 1 / PacketUnit
          PacketUnit,
          perByte,
          enforceInOrder,
          MaxTick,          \* bound on the simulated time
          MaxMessages       \* bound on the messages sent

ASSUME ConfigAssumption ==
  /\ Size \subseteq Nat
  /\ initialTime \in Nat /\ randomRange \in Nat \ {0, 1}
  /\ timePerPacket \in Nat /\ PacketUnit \in Nat \ {0} /\ perByte \in Nat
  /\ enforceInOrder \in BOOLEAN
ASSUME BoundsAssumption == MaxTick \in Nat /\ MaxMessages \in Nat

VARIABLES
  now,
  agenda,             \* the deliveries to come
  packetsInTransit,
  mostRecentMsg,      \* per pair of nodes
  sent                \* how many messages were sent: the number of the last one

vars == <<now, agenda, packetsInTransit, mostRecentMsg, sent>>

Message == [from : Node, to : Node, number : 1..MaxMessages]

Queue == INSTANCE EventQueue WITH Event <- Message

Init ==
  /\ Queue!Init
  /\ packetsInTransit = 0
  /\ mostRecentMsg = [p \in Node \X Node |-> 0]
  /\ sent = 0

(* A slip: the order is not looked at.                                      *)
AsDrawn(p, dtBase) == dtBase

(* CalcTime: the base latency dtBase is replaced when a message for the     *)
(* same pair of nodes arrives later than this one would.                    *)
InOrder(p, dtBase) ==
  IF enforceInOrder /\ mostRecentMsg[p] > now + dtBase
  THEN mostRecentMsg[p] - (now + dtBase)
  ELSE dtBase

(* A slip: a message that is not counted.                                   *)
OnMsgSendUncounted == UNCHANGED packetsInTransit

OnMsgSend == packetsInTransit' = packetsInTransit + 1

(* A slip: a message that is counted for ever.                              *)
OnMsgDeliveredUncounted == UNCHANGED packetsInTransit

OnMsgDelivered == packetsInTransit' = packetsInTransit - 1

BaseTime(random) == initialTime + random + (packetsInTransit * timePerPacket) \div PacketUnit

(* RecvMsg: one of the nodes sends a message to another or to itself.       *)
RecvMsg(from, to, size, random) ==
  LET arrival == now + InOrder(<<from, to>>, BaseTime(random)) + perByte * size
      m       == [from |-> from, to |-> to, number |-> sent + 1]
  IN /\ sent < MaxMessages /\ arrival <= MaxTick
     /\ mostRecentMsg' = IF enforceInOrder THEN [mostRecentMsg EXCEPT ![<<from, to>>] = arrival]
                                           ELSE mostRecentMsg
     /\ OnMsgSend
     /\ Queue!Schedule(m, arrival)
     /\ sent' = sent + 1

DeliverMsg ==
  /\ Queue!Call
  /\ OnMsgDelivered
  /\ UNCHANGED <<mostRecentMsg, sent>>

Tick ==
  /\ Queue!Advance
  /\ UNCHANGED <<packetsInTransit, mostRecentMsg, sent>>

Next ==
  \/ \E from, to \in Node, size \in Size, random \in 0..(randomRange - 1) :
       RecvMsg(from, to, size, random)
  \/ DeliverMsg
  \/ Tick

Spec == Init /\ [][Next]_vars
-----------------------------------------------------------------------------
(* Messages, arrival times and the load have their types: the unsigned      *)
(* counter (93-102) does not go below zero.                                 *)
TypeOK ==
  /\ now \in Queue!Tick
  /\ agenda \in [Queue!Tick -> Seq(Message)]
  /\ packetsInTransit \in Nat
  /\ mostRecentMsg \in [Node \X Node -> Queue!Tick]
  /\ sent \in 0..MaxMessages

(* The messages in transit, as places of the agenda, and which of two is    *)
(* delivered first.                                                         *)
InTransit == UNION {{<<t, k>> : k \in DOMAIN agenda[t]} : t \in Queue!Tick}
MessageAt(p) == agenda[p[1]][p[2]]
Before(p, q) == p[1] < q[1] \/ (p[1] = q[1] /\ p[2] < q[2])

(* The load that CalcTime charges for is the number of messages in transit, *)
(* and no delivery finds the counter at zero (the assertions at 96 and 100).*)
LoadIsExact == packetsInTransit = Cardinality(InTransit)

(* The messages from one node to another arrive in the order they were sent *)
(* in.                                                                      *)
DeliveredInOrder ==
  \A p, q \in InTransit :
    /\ MessageAt(p).from = MessageAt(q).from
    /\ MessageAt(p).to = MessageAt(q).to
    /\ MessageAt(p).number < MessageAt(q).number
    => Before(p, q)
=============================================================================
