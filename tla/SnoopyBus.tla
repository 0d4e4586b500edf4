------------------------------ MODULE SnoopyBus ------------------------------
(***************************************************************************)
(* src/src/MemSys/Devices/SnoopyBus.cpp with the caches above it and the   *)
(* memory below it, as OutSimpleMemory and its variants generate them      *)
(* (MemGen.cs:340-430): one level of caches, each under a processor.       *)
(*                                                                         *)
(* Messages and callbacks are events that are delivered when their delay   *)
(* has passed, those of one tick in the order they were scheduled.  The    *)
(* device below is the memory, which answers reads and evictions, or a     *)
(* shared cache that also invalidates blocks when it gives them up.        *)
(*                                                                         *)
(* The class of the caches is a parameter: MOESI of MOESICache, MESI of    *)
(* MESICache or MSI of MSICache.                                           *)
(***************************************************************************)
EXTENDS Naturals, Sequences, FiniteSets, SequencesExt

CONSTANTS Local, Remote,   \* the connections: the caches, and the device below
          Tag, Associativity, NoBlock, NoID, NoTransfer,
          hitTime, missTime, evictionTime, invalidateTime, evictionPolicy, class,
          readTime,        \* of the memory
          dataTime,        \* of the bus, for a message that carries a block
          plainTime,       \* of the bus, for any other
          MaxRequests,     \* bound on the requests of all processors
          MaxInvalidates   \* bound on the invalidations of the device below

VARIABLES cache,        \* per local connection: the cache
          bus,          \* the bus
          queue,        \* scheduled events: [to, from, msg, delay]
          requested,    \* how many requests the processors have made
          invalidated   \* how many invalidations the device below has made

vars == <<cache, bus, queue, requested, invalidated>>

C == INSTANCE CacheFamily

Connection == Local \cup {Remote}

ASSUME BoundsAssumption == MaxRequests \in Nat /\ MaxInvalidates \in Nat
ASSUME TimesAssumption ==
  {hitTime, missTime, evictionTime, invalidateTime, readTime, dataTime, plainTime} \subseteq Nat
ASSUME FramesAssumption == Associativity \in Nat \ {0}

(* With one cache nobody is asked in a broadcast, and no response ever turns *)
(* a request to the device below (162).                                     *)
ASSUME ConnectionAssumption ==
  /\ IsFiniteSet(Local) /\ Cardinality(Local) > 1
  /\ Remote \notin Local /\ "Bus" \notin Connection

(* NoBlock is no tag and no block, NoTransfer is no transfer, and the states *)
(* in which a block can be lead to such states.                             *)
ASSUME NoBlockAssumption == NoBlock \notin Tag /\ NoBlock \notin C!Block
ASSUME NoTransferAssumption ==
  LET Asking == {C!Read(t, x, NoID) : t \in Tag, x \in BOOLEAN}
                  \cup {C!Eviction(t, b) : t \in Tag, b \in BOOLEAN} \cup {C!Invalidate(t) : t \in Tag}
  IN NoTransfer \notin [pendingResponses : Nat, solicitingMsg : Asking,
                        solicitingConnection : Connection, satisfied : BOOLEAN]
ASSUME ClassAssumption ==
  LET Valid == DOMAIN class.AfterRead IN
    /\ Valid \subseteq C!State \ {"Invalid"}
    /\ {"Modified", "Shared", class.ExclusiveFill} \subseteq Valid
    /\ \A s \in Valid : class.AfterRead[s] \in Valid /\ class.AfterMerge[s] \in Valid
    /\ class.AfterMerge["Invalid"] \in Valid \cup {"Invalid"}

(* TransferData, or NoTransfer; out is the outbox of the handler that runs. *)
NewBus ==
  [waitingMsgs        |-> [c \in Connection |-> <<>>],
   pendingTransfers   |-> [t \in Tag |-> NoTransfer],
   transferInProgress |-> FALSE,
   out                |-> <<>>]

Init ==
  /\ cache = [c \in Local |-> C!NewCache(TRUE)]
  /\ bus = NewBus
  /\ queue = <<>>
  /\ requested = 0 /\ invalidated = 0
-----------------------------------------------------------------------------
(* The bus.  Its handlers map it, and the message, to the set of busses they *)
(* can leave.                                                               *)

IsRequest(m) == m.type \in {"Read", "Eviction", "Invalidate"}

Send(b, to, m, delay) ==
  [b EXCEPT !.out = Append(@, [to |-> to, from |-> "Bus", msg |-> m, delay |-> delay])]
Reattempt(b, delay) == Send(b, "Bus", [type |-> "AttemptTransfer"], delay)

(* Each is asked but the sender; the device below last and only if need be.  *)
BroadcastMsg(b, m, c) ==
  LET asked == SetToSeq(Local \ {c})
      sends == [k \in DOMAIN asked |-> [to |-> asked[k], from |-> "Bus", msg |-> m, delay |-> 0]]
  IN [b EXCEPT !.out = @ \o sends,
               !.pendingTransfers[m.tag] =
                  [pendingResponses |-> Cardinality(Connection) - 1, solicitingMsg |-> m,
                   solicitingConnection |-> c, satisfied |-> FALSE]]

(* The messages of c whose address has no transfer                          *)
Ready(b, c) ==
  {k \in DOMAIN b.waitingMsgs[c] : b.pendingTransfers[b.waitingMsgs[c][k].tag] = NoTransfer}

(* The first message of each connection that can go competes, and that of   *)
(* the device below wins (RemoteFirstRandomArbitration).                    *)
AttemptTransfer(b) ==
  LET pending == {c \in Connection : Ready(b, c) # {}}
      First(c) == CHOOSE k \in Ready(b, c) : \A j \in Ready(b, c) : k <= j
      Transfer(c) ==
        BroadcastMsg([b EXCEPT !.transferInProgress = TRUE,
                               !.waitingMsgs[c] = RemoveAt(@, First(c))],
                     b.waitingMsgs[c][First(c)], c)
  IN IF pending = {} THEN {[b EXCEPT !.transferInProgress = FALSE]}
     ELSE {Transfer(c) : c \in IF Remote \in pending THEN {Remote} ELSE pending}

(* The responses that end a transfer before everybody has answered: those   *)
(* that carry a block                                                       *)
Satisfies(m) == \/ m.type = "ReadResponse" /\ m.satisfied
                \/ m.type = "InvalidateResponse" /\ m.blockAttached

(* Constant when the two times are equal, Linear otherwise                  *)
CalculateTime(m) == IF Satisfies(m) THEN dataTime ELSE plainTime

(* Slip: who asks is not looked at, and the last response for the device     *)
(* below finds no transfer.                                                 *)
DoneAtOne(b, t, left) == left <= 1

(* No response is still to come.  When one of the others has answered a     *)
(* local request the device below is not asked.                             *)
Done(b, t, left) == left = 0 \/ (left = 1 /\ b.pendingTransfers[t].solicitingConnection # Remote)

(* Slip: the entry stays when the last response has come.                   *)
NeverErased(b, t, satisfied, done) ==
  LET pending == b.pendingTransfers[t]
      left == [pending EXCEPT !.pendingResponses = pending.pendingResponses - 1, !.satisfied = satisfied]
  IN [b EXCEPT !.pendingTransfers[t] = left]

(* The entry after one more response                                        *)
Counted(b, t, satisfied, done) ==
  LET pending == b.pendingTransfers[t]
      left == [pending EXCEPT !.pendingResponses = pending.pendingResponses - 1, !.satisfied = satisfied]
  IN [b EXCEPT !.pendingTransfers[t] = IF done THEN NoTransfer ELSE left]

(* Slip: when all the others have answered in vain the device below is not  *)
(* asked.                                                                   *)
NobodyHasIt(b, m, left) == b

AskRemote(b, m, left) ==
  IF left = 1 THEN Send(b, Remote, b.pendingTransfers[m.tag].solicitingMsg, 0) ELSE b

ProcessResponse(b, m) ==
  LET transfer == b.pendingTransfers[m.tag]
      left == transfer.pendingResponses - 1
      satisfied == transfer.satisfied \/ Satisfies(m)
      done == IF satisfied THEN Done(b, m.tag, left) ELSE left = 0
      answers == ~transfer.satisfied /\ (satisfied \/ left = 0)
      counted == Counted(b, m.tag, satisfied, done)
      sent == IF answers THEN Send(counted, transfer.solicitingConnection, m, CalculateTime(m))
              ELSE IF ~satisfied /\ transfer.solicitingConnection # Remote
                   THEN AskRemote(counted, m, left) ELSE counted
  IN IF answers \/ done THEN Reattempt(sent, CalculateTime(m)) ELSE sent

RecvMsg(b, c, m) ==
  IF ~IsRequest(m) THEN {ProcessResponse(b, m)}
  ELSE LET d == [b EXCEPT !.waitingMsgs[c] = Append(@, m)]
       IN IF b.transferInProgress THEN {d} ELSE AttemptTransfer(d)
-----------------------------------------------------------------------------
Emptied(c) == [c EXCEPT !.toLocal = <<>>, !.toRemote = <<>>]

(* Cache n is left as c; its messages are scheduled after the events of q.   *)
LeaveCache(n, c, q) ==
  /\ cache' = [cache EXCEPT ![n] = Emptied(c)]
  /\ queue' = q \o [k \in DOMAIN c.toRemote |->
                      [to |-> "Bus", from |-> n, msg |-> c.toRemote[k].msg,
                       delay |-> c.toRemote[k].delay]]

ProcessorRequests(n) ==
  \E t \in Tag : \E m \in {C!Read(t, FALSE, NoID), C!Write(t, NoID)} :
    /\ requested < MaxRequests
    /\ requested' = requested + 1
    /\ \E c \in C!OnLocalRequest(cache[n], m) : LeaveCache(n, c, queue)
    /\ UNCHANGED <<bus, invalidated>>

(* The shared cache below gives a block up, for which no transfer is pending *)
(* and which it does not invalidate already.                                *)
Waiting(c, t) == \E k \in DOMAIN bus.waitingMsgs[c] : bus.waitingMsgs[c][k].tag = t

RemoteInvalidates ==
  \E t \in Tag :
    /\ invalidated < MaxInvalidates
    /\ invalidated' = invalidated + 1
    /\ bus.pendingTransfers[t] = NoTransfer /\ ~Waiting(Remote, t)
    /\ \A k \in DOMAIN queue : ~(queue[k].from = Remote /\ queue[k].msg.tag = t)
    /\ queue' = Append(queue, [to |-> "Bus", from |-> Remote, msg |-> C!Invalidate(t),
                               delay |-> invalidateTime])
    /\ UNCHANGED <<cache, bus, requested>>

(* The first event whose time has come                                      *)
Due(k) == queue[k].delay = 0 /\ \A j \in 1..(k - 1) : queue[j].delay > 0

CacheReceives(n) ==
  \E k \in DOMAIN queue :
    /\ Due(k) /\ queue[k].to = n
    /\ \E c \in C!FromRemote(cache[n], queue[k].msg, TRUE) : LeaveCache(n, c, RemoveAt(queue, k))
    /\ UNCHANGED <<bus, requested, invalidated>>

BusReceives ==
  \E k \in DOMAIN queue :
    /\ Due(k) /\ queue[k].to = "Bus"
    /\ \E b \in IF queue[k].msg.type = "AttemptTransfer" THEN AttemptTransfer(bus)
                ELSE RecvMsg(bus, queue[k].from, queue[k].msg) :
         /\ bus' = [b EXCEPT !.out = <<>>]
         /\ queue' = RemoveAt(queue, k) \o b.out
    /\ UNCHANGED <<cache, requested, invalidated>>

(* TestMemory::RecvMsg: a read is answered exclusively whoever has the block. *)
(* Responses to invalidations are for the shared cache, which is done then. *)
MemoryReceives ==
  \E k \in DOMAIN queue :
    LET m == queue[k].msg
        Reply(r, d) == Append(RemoveAt(queue, k), [to |-> "Bus", from |-> Remote, msg |-> r, delay |-> d])
    IN /\ Due(k) /\ queue[k].to = Remote
       /\ queue' = CASE m.type = "Read"     -> Reply(C!ReadResponse(m, TRUE, TRUE), readTime)
                     [] m.type = "Eviction" -> Reply(C!EvictionResponse(m.tag), 0)
                     [] OTHER               -> RemoveAt(queue, k)
       /\ UNCHANGED <<cache, bus, requested, invalidated>>

Tick ==
  /\ queue # <<>>
  /\ \A k \in DOMAIN queue : queue[k].delay > 0
  /\ queue' = [k \in DOMAIN queue |-> [queue[k] EXCEPT !.delay = @ - 1]]
  /\ UNCHANGED <<cache, bus, requested, invalidated>>

Next ==
  \/ \E n \in Local : ProcessorRequests(n) \/ CacheReceives(n)
  \/ RemoteInvalidates
  \/ BusReceives
  \/ MemoryReceives
  \/ Tick

Spec == Init /\ [][Next]_vars
-----------------------------------------------------------------------------
Transfers == {t \in Tag : bus.pendingTransfers[t] # NoTransfer}

(* The tables of the caches, and no transfer waits for more responses than  *)
(* there are others on the bus or for none (SnoopyBus.cpp:212).             *)
TypeOK ==
  /\ \A n \in Local : C!CacheTypeOK(cache[n])
  /\ \A t \in Transfers :
       bus.pendingTransfers[t].pendingResponses \in 1..(Cardinality(Connection) - 1)

(* What the bus counts is what is still to come: requests on the way to a    *)
(* device, responses on the way to the bus, and the device below while it    *)
(* has not been asked (ProcessResponse, 154-200).  So each response finds    *)
(* its transfer (the assertion at 129), however transfers overlap.          *)
ResponsesAreCounted ==
  \A t \in Tag :
    LET Open(e) == /\ e.msg.type # "AttemptTransfer" /\ e.msg.tag = t
                   /\ \/ e.from = "Bus" /\ IsRequest(e.msg)
                      \/ e.from # "Bus" /\ ~IsRequest(e.msg)
        open == {k \in DOMAIN queue : Open(queue[k])}
        below == {k \in open : Remote \in {queue[k].to, queue[k].from}}
        transfer == bus.pendingTransfers[t]
    IN IF transfer = NoTransfer THEN open = {}
       ELSE IF transfer.solicitingConnection = Remote
       THEN transfer.pendingResponses = Cardinality(open) /\ below = {}
       ELSE /\ transfer.pendingResponses = Cardinality(open \ below) + 1
            /\ below # {} <=> open \ below = {}

(* When nothing is scheduled any more nothing waits: no message on the bus,  *)
(* no transfer, no request in a cache.  The end of each transfer must start  *)
(* the next one, whatever was waiting at the time (94-113).                 *)
IdleIsDone ==
  queue = <<>> =>
    /\ Transfers = {}
    /\ \A c \in Connection : bus.waitingMsgs[c] = <<>>
    /\ \A n \in Local, t \in Tag :
         cache[n].waitingOnSetUnlock = <<>> /\ cache[n].waitingOnBlockUnlock[t] = <<>>

(* "The Modified state signifies that the cache block is modified and that  *)
(* no other cache contains the entry" (src/report/report.txt:48); Exclusive *)
(* turns into Modified without asking anybody (MOESICache.cpp:494).         *)
ModifiedIsAlone ==
  \A n, o \in Local, t \in Tag :
    n # o /\ C!Usable(cache[n], t) /\ cache[n].blocks[t].state \in {"Modified", "Exclusive"}
      => ~C!Usable(cache[o], t)
=============================================================================
