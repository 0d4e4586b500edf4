-------------------------- MODULE OriginDirectory --------------------------
(***************************************************************************)
(* src/src/MemSys/Devices/OriginDirectory.cpp, the directory protocol in   *)
(* the manner of the SGI Origin that OutOriginDirectoryMemory of MemGen.cs *)
(* (462) generates. Lines without a file name are lines of that file.      *)
(*                                                                         *)
(* One address. Every node has an object of the class, which is a state    *)
(* machine on the side of its cache (CacheData); that of Home, the node    *)
(* the address belongs to, is the directory as well (DirectoryData). A     *)
(* handler maps the data of one side and a message to the data it leaves,  *)
(* with an outbox of messages, or to Error: the message type is not        *)
(* handled in that state (PrintError) or an assertion fails. The program   *)
(* then stops, as it does in a debug build.                                *)
(*                                                                         *)
(* Messages are events of the EventManager, due after their delay, those   *)
(* of one tick in the order they were scheduled. Between nodes a message   *)
(* takes remoteSendTime to the network and one of the latencies in it, so  *)
(* that they overtake each other (EnforceOrder 0, MemGen.cs 323); a node   *)
(* reaches itself and its own cache in localSendTime, but for a request it *)
(* makes again (lookupRetryTime), and its cache reaches it with the delays *)
(* of the cache. The caches are those of MOESICache.cpp, seen from below:  *)
(* one block, which other blocks may push out at any time.                 *)
(*                                                                         *)
(* Memory answers reads; that it acknowledges writes has no effect but on  *)
(* pendingMemoryWriteAccesses and is left out, and so is data.             *)
(***************************************************************************)
EXTENDS Naturals, Sequences, FiniteSets, SequencesExt

CONSTANTS Node, Home, NoNode, NoMsg,
          missTime, hitTime, evictionTime, invalidateTime,   \* of the caches
          askReadTime, askInvalidateTime,  \* in which the level above a cache answers it
          localSendTime, remoteSendTime, lookupRetryTime, memoryTime,
          Scenarios       \* who uses the address, over which network: records of
                          \*   maxReads: per node, bound on how often its cache begins to read,
                          \*   latencies: of messages in the network

ASSUME HomeAssumption == Home \in Node /\ NoNode \notin Node
ASSUME TimeAssumption ==
  {missTime, hitTime, evictionTime, invalidateTime, askReadTime, askInvalidateTime,
   localSendTime, remoteSendTime, lookupRetryTime, memoryTime} \subseteq Nat \ {0}
ASSUME ScenariosAssumption ==
  \A s \in Scenarios : s.maxReads \in [Node -> Nat] /\ s.latencies \subseteq Nat

VARIABLES scenario,    \* one of Scenarios
          local,       \* per node: CacheData
          home,        \* at Home: DirectoryData
          cache,       \* per node: the cache above
          events,      \* the messages on their way, in the order in which they are due
          stopped      \* a handler has reached an Error

vars == <<scenario, local, home, cache, events, stopped>>

Error == [state |-> "Error"]
Require(holds, c) == IF holds THEN c ELSE Error

(* Messages to the directory, from src                                     *)
Read(src, id, x)          == [to |-> "Directory", type |-> "Read", src |-> src, id |-> id, exclusive |-> x]
WritebackRequest(src)     == [to |-> "Directory", type |-> "WritebackRequest", src |-> src]
Writeback(src)            == [to |-> "Directory", type |-> "Writeback", src |-> src]
Transfer(src, isDirty)    == [to |-> "Directory", type |-> "Transfer", src |-> src, isDirty |-> isDirty]
DirectoryNak(src)         == [to |-> "Directory", type |-> "DirectoryNak", src |-> src]

(* Messages to the cache side of node to; id is that of the read they are  *)
(* about (solicitingMessage)                                               *)
CacheNak(to, id, i)       == [to |-> to, type |-> "CacheNak", id |-> id, ofIntervention |-> i]
Invalidate(to, newOwner)  == [to |-> to, type |-> "Invalidate", newOwner |-> newOwner]
InvalidateAck(to)         == [to |-> to, type |-> "InvalidateAck"]
Intervention(to, r)       == [to |-> to, type |-> "Intervention", newOwner |-> r.src, id |-> r.id,
                              exclusive |-> r.exclusive]
SpeculativeReply(r)       == [to |-> r.src, type |-> "SpeculativeReply", id |-> r.id]
ReadResponse(to, id, x)   == [to |-> to, type |-> "ReadResponse", id |-> id, exclusive |-> x]
ReadReply(r, x, k)        == [to |-> r.src, type |-> "ReadReply", id |-> r.id, exclusive |-> x,
                              pendingInvalidates |-> k]
WritebackAck(to, isBusy)  == [to |-> to, type |-> "WritebackAck", isBusy |-> isBusy]

(* Messages from a cache and to it                                         *)
CacheRead(id, x)          == [type |-> "Read", id |-> id, exclusive |-> x]
Eviction(attached)        == [type |-> "Eviction", blockAttached |-> attached]
CacheResponse(isDirty)    == [type |-> "CacheResponse", isDirty |-> isDirty]
InvalidateResponse(b)     == [type |-> "InvalidateResponse", blockAttached |-> b]
ToCacheRead               == [type |-> "Read"]
ToCacheInvalidate         == [type |-> "Invalidate"]
ToCacheResponse(x)        == [type |-> "ReadResponse", exclusive |-> x]

(* CacheData. pendingLocalReads is cacheDataPendingLocalReads; the table   *)
(* of that name has the same reads. firstReply is the message that is held *)
(* back, or the intervention or invalidation the cache has been asked for. *)
NewCacheData ==
  [state |-> "Invalid", firstReply |-> NoMsg, secondReply |-> NoMsg, invalidAcksReceived |-> 0,
   isCanceledReadRequest |-> FALSE, pendingLocalReads |-> <<>>, pendingEviction |-> FALSE,
   out |-> <<>>, toCache |-> <<>>]

NewDirectoryData ==
  [state |-> "Unowned", owner |-> NoNode, previousOwner |-> NoNode, sharers |-> {},
   firstRequest |-> NoMsg, secondRequestSrc |-> NoNode, pendingSharedReads |-> {},
   out |-> <<>>, toMemory |-> <<>>]

Send(c, m) == [c EXCEPT !.out = Append(@, m)]
ToCache(c, m) == [c EXCEPT !.toCache = Append(@, m)]
-----------------------------------------------------------------------------
(* The side of the cache: of node n, with data c.                          *)

ClearTempCacheData(c) ==
  [c EXCEPT !.firstReply = NoMsg, !.secondReply = NoMsg, !.invalidAcksReceived = 0]

Become(c, state) == [ClearTempCacheData(c) EXCEPT !.state = state]

(* The read r goes to the directory (OnCacheInvalid, OnCacheShared).       *)
Ask(c, n, r) ==
  Send([c EXCEPT !.state = IF r.exclusive THEN "WaitingForExclusiveReadResponse"
                                          ELSE "WaitingForSharedReadResponse"],
       Read(n, r.id, r.exclusive))

(* In Exclusive a read is taken off without a word to the cache, which has *)
(* the block by then (OnCacheExclusive), and the next one is processed.    *)
ProcessRemainingPendingLocalReads(c, n) ==
  IF c.pendingLocalReads = <<>> THEN c
  ELSE LET r == Head(c.pendingLocalReads)
       IN CASE c.state = "Exclusive" -> [c EXCEPT !.pendingLocalReads = <<>>]
            [] c.state = "Shared"    -> Require(r.exclusive, Ask(c, n, r))
            [] c.state = "Invalid"   -> Ask(c, n, r)

(* The first read is the one that is answered.                             *)
AnswersFirst(c, id) == c.pendingLocalReads # <<>> /\ Head(c.pendingLocalReads).id = id

ProcessReadResponse(c, n, id) ==
  IF ~AnswersFirst(c, id) THEN Error
  ELSE ProcessRemainingPendingLocalReads([c EXCEPT !.pendingLocalReads = Tail(@)], n)

(* A slip: the read is taken off the list and the cache is not told.       *)
FillSilently(c, n, id, x) == ProcessReadResponse(Become(c, IF x THEN "Exclusive" ELSE "Shared"), n, id)

(* The read id is answered and the block goes to the cache.                *)
Fill(c, n, id, x) ==
  ProcessReadResponse(ToCache(Become(c, IF x THEN "Exclusive" ELSE "Shared"), ToCacheResponse(x)), n, id)

(* A slip: the request that got a nak is not made again.                   *)
DropRequest(c, n) == c

ResendRequestToDirectory(c, n) ==
  LET r == Head(c.pendingLocalReads)
  IN Send(c, [Read(n, r.id, r.exclusive) EXCEPT !.to = "DirectoryLater"])

(* Only in three states is a read processed when it comes.                 *)
OnCacheRead(c, n, r) ==
  LET d == [c EXCEPT !.pendingLocalReads = Append(@, r)]
  IN CASE c.state = "Exclusive" -> ProcessReadResponse(d, n, r.id)
       [] c.state = "Shared"    -> Require(r.exclusive, Ask(d, n, r))
       [] c.state = "Invalid"   -> Ask(d, n, r)
       [] OTHER                 -> d

(* A slip: the directory does not hear of it.                              *)
SendCacheNakOnly(c, n, m) == Send(c, CacheNak(m.newOwner, m.id, TRUE))

SendInterventionNaks(c, n, m) == Send(Send(c, DirectoryNak(n)), CacheNak(m.newOwner, m.id, TRUE))

(* The block, or the right to it, goes to the requester, and the directory *)
(* hears of it: with the data, if they are dirty and the requester does    *)
(* not become the owner.                                                   *)
YieldTo(c, n, m, isDirty) ==
  Send(Send(c, ReadResponse(m.newOwner, m.id, m.exclusive)),
       IF isDirty /\ ~m.exclusive THEN Writeback(n) ELSE Transfer(n, m.exclusive))

ProcessInterventionWhileInvalid(c, n, m) == YieldTo(c, n, m, FALSE)
ProcessInvalidateWhileInvalid(c, m) == Send(c, InvalidateAck(m.newOwner))

(* The cache has answered for the intervention m (OnCacheCleanExclusive,   *)
(* OnCacheDirtyExclusive).                                                 *)
OnCacheYields(c, n, m, isDirty) ==
  YieldTo(Become(c, IF m.exclusive THEN "Invalid" ELSE "Shared"), n, m, isDirty)

OnCacheExclusive(c, n, m) ==
  CASE m.type = "Intervention" ->
         Require(c.firstReply = NoMsg,
                 ToCache([c EXCEPT !.firstReply = m],
                         IF m.exclusive THEN ToCacheInvalidate ELSE ToCacheRead))
    [] m.type = "Eviction" ->
         IF c.firstReply # NoMsg
         THEN [c EXCEPT !.secondReply = m, !.state = "ExclusiveInterventionEviction"]
         ELSE IF m.blockAttached
         THEN Send([c EXCEPT !.state = "WaitingForWritebackResponse", !.pendingEviction = TRUE],
                   WritebackRequest(n))
         ELSE [c EXCEPT !.state = "Invalid"]
    [] m.type = "InvalidateResponse" ->
         IF c.firstReply = NoMsg THEN Error ELSE OnCacheYields(c, n, c.firstReply, m.blockAttached)
    [] m.type = "CacheResponse" ->
         IF c.firstReply = NoMsg THEN Error ELSE OnCacheYields(c, n, c.firstReply, m.isDirty)
    [] OTHER -> Error

OnCacheExclusiveInterventionEviction(c, n, m) ==
  IF m.type \in {"InvalidateResponse", "CacheResponse"}
  THEN Require(c.firstReply.exclusive <=> m.type = "InvalidateResponse",
               YieldTo(Become(c, "Invalid"), n, c.firstReply, c.secondReply.blockAttached))
  ELSE Error

(* The two states of each of the next three kinds differ in x only.        *)
OnCacheWaitingForSpeculativeReply(c, n, m, x) ==
  CASE m.type = "SpeculativeReply" -> Require(m.id = c.firstReply.id, Fill(c, n, m.id, x))
    [] m.type = "Invalidate"       -> ProcessInvalidateWhileInvalid(c, m)
    [] OTHER                       -> Error

OnCacheWaitingForResponseAck(c, n, m, x) ==
  CASE m.type = "ReadResponse" -> Require(m.exclusive = x, Fill(c, n, m.id, x))
    [] m.type = "CacheNak"     ->
         Require(AnswersFirst(c, m.id),
                 Become(ResendRequestToDirectory(c, n),
                        IF x THEN "WaitingForExclusiveReadResponse" ELSE "WaitingForSharedReadResponse"))
    [] m.type = "Intervention" -> SendInterventionNaks(c, n, m)
    [] m.type = "Invalidate"   -> ProcessInvalidateWhileInvalid(c, m)
    [] OTHER                   -> Error

OnCacheInvalid(c, n, m) ==
  CASE m.type = "Intervention" -> ProcessInterventionWhileInvalid(c, n, m)
    [] m.type = "Invalidate"   -> ProcessInvalidateWhileInvalid(c, m)
    [] OTHER                   -> Error

(* The cache is asked to give its shared copy up.                          *)
PassInvalidateOn(c, m) == Require(c.firstReply = NoMsg, ToCache([c EXCEPT !.firstReply = m], ToCacheInvalidate))

IsOfType(m, type) == m # NoMsg /\ m.type = type

OnCacheShared(c, n, m) ==
  CASE m.type = "Invalidate"         -> PassInvalidateOn(c, m)
    [] m.type = "InvalidateResponse" ->
         IF IsOfType(c.firstReply, "Invalidate")
         THEN Send(Become(c, "Invalid"), InvalidateAck(c.firstReply.newOwner)) ELSE Error
    [] m.type = "Eviction"           ->
         Require(c.firstReply = NoMsg \/ IsOfType(c.firstReply, "Invalidate"),
                 [c EXCEPT !.state = IF c.firstReply = NoMsg THEN "Invalid" ELSE @])
    [] OTHER                         -> Error

(* A nak for an intervention is followed, or preceded, by a speculative    *)
(* reply: the request is made again when both have come.                   *)
OnCacheNakOrSpeculativeReply(c, n, m, speculative) ==
  CASE m.type = "CacheNak" ->
         IF ~m.ofIntervention THEN ResendRequestToDirectory(c, n) ELSE [c EXCEPT !.firstReply = m]
    [] m.type = "SpeculativeReply" ->
         IF c.firstReply = NoMsg THEN [c EXCEPT !.state = speculative, !.firstReply = m]
         ELSE Require(IsOfType(c.firstReply, "CacheNak"),
                      ClearTempCacheData(ResendRequestToDirectory(c, n)))

OnCacheWaitingForExclusiveReadResponse(c, n, m) ==
  CASE m.type = "CacheNak" ->
         IF ~AnswersFirst(c, m.id) THEN Error
         ELSE IF c.firstReply # NoMsg
         THEN Require(IsOfType(c.firstReply, "Invalidate") /\ ~c.isCanceledReadRequest,
                      [c EXCEPT !.isCanceledReadRequest = TRUE])
         ELSE OnCacheNakOrSpeculativeReply(c, n, m, "")
    [] m.type = "SpeculativeReply" ->
         OnCacheNakOrSpeculativeReply(c, n, m, "WaitingForExclusiveResponseAck")
    [] m.type = "Invalidate" -> PassInvalidateOn(c, m)
    [] m.type = "InvalidateResponse" ->
         IF ~IsOfType(c.firstReply, "Invalidate") THEN Error
         ELSE LET d == Send(ClearTempCacheData(c), InvalidateAck(c.firstReply.newOwner))
              IN IF c.isCanceledReadRequest
                 THEN ResendRequestToDirectory([d EXCEPT !.isCanceledReadRequest = FALSE], n) ELSE d
    [] m.type = "ReadReply" ->
         Require(c.firstReply = NoMsg /\ m.exclusive,
                 IF m.pendingInvalidates = 0 THEN Fill(c, n, m.id, TRUE)
                 ELSE [c EXCEPT !.state = "WaitingForInvalidates", !.firstReply = m])
    [] m.type = "InvalidateAck" ->
         Require(c.firstReply = NoMsg /\ c.invalidAcksReceived = 0,
                 [c EXCEPT !.state = "WaitingForInvalidates", !.invalidAcksReceived = 1])
    [] m.type = "ReadResponse" ->
         Require(m.exclusive, [c EXCEPT !.state = "ExclusiveWaitingForSpeculativeReply", !.firstReply = m])
    [] m.type = "Intervention" -> Require(c.firstReply = NoMsg, SendInterventionNaks(c, n, m))
    [] OTHER -> Error

OnCacheWaitingForSharedReadResponse(c, n, m) ==
  CASE m.type = "CacheNak" ->
         Require(AnswersFirst(c, m.id) /\ c.firstReply = NoMsg, OnCacheNakOrSpeculativeReply(c, n, m, ""))
    [] m.type = "SpeculativeReply" ->
         OnCacheNakOrSpeculativeReply(c, n, m, "WaitingForSharedResponseAck")
    [] m.type = "ReadReply" -> Require(c.firstReply = NoMsg, Fill(c, n, m.id, m.exclusive))
    [] m.type = "ReadResponse" ->
         Require(~m.exclusive /\ c.firstReply = NoMsg,
                 [c EXCEPT !.state = "SharedWaitingForSpeculativeReply", !.firstReply = m])
    [] m.type = "Intervention" -> Require(c.firstReply = NoMsg, SendInterventionNaks(c, n, m))
    [] m.type = "Invalidate" -> ProcessInvalidateWhileInvalid(c, m)
    [] OTHER -> Error

(* WaitingForKInvalidatesJInvalidatesReceived: K is pendingInvalidates of  *)
(* the reply, once it has come, and J is invalidAcksReceived.              *)
OnCacheWaitingForInvalidates(c, n, m) ==
  CASE m.type = "Intervention" -> SendInterventionNaks(c, n, m)
    [] m.type = "InvalidateAck" ->
         LET d == [c EXCEPT !.invalidAcksReceived = @ + 1]
         IN IF c.firstReply = NoMsg THEN d
            ELSE Require(IsOfType(c.firstReply, "ReadReply")
                           /\ c.firstReply.pendingInvalidates > c.invalidAcksReceived,
                         IF c.firstReply.pendingInvalidates = d.invalidAcksReceived
                         THEN Fill(d, n, c.firstReply.id, TRUE) ELSE d)
    [] m.type = "ReadReply" ->
         Require(m.exclusive /\ m.pendingInvalidates > 0 /\ c.firstReply = NoMsg,
                 IF m.pendingInvalidates = c.invalidAcksReceived THEN Fill(c, n, m.id, TRUE)
                 ELSE [c EXCEPT !.firstReply = m])
    [] OTHER -> Error

(* A slip: the eviction is done, and reads that came meanwhile are left.   *)
EvictedOnly(c, n) == [Become(c, "Invalid") EXCEPT !.pendingEviction = FALSE]

(* The eviction is done, and reads that came meanwhile are looked at.      *)
Evicted(c, n) ==
  ProcessRemainingPendingLocalReads([Become(c, "Invalid") EXCEPT !.pendingEviction = FALSE], n)

OnCacheWaitingForWritebackResponse(c, n, m) ==
  CASE m.type = "WritebackAck" ->
         IF m.isBusy THEN [c EXCEPT !.state = "WaitingForIntervention", !.firstReply = m]
         ELSE Evicted(c, n)
    [] m.type = "Intervention" -> [c EXCEPT !.state = "WaitingForWritebackBusyAck", !.firstReply = m]
    [] OTHER -> Error

OnCache(c, n, m) ==
  IF m.type = "Read" THEN OnCacheRead(c, n, m)
  ELSE CASE c.state = "Exclusive" -> OnCacheExclusive(c, n, m)
         [] c.state = "ExclusiveInterventionEviction" -> OnCacheExclusiveInterventionEviction(c, n, m)
         [] c.state = "ExclusiveWaitingForSpeculativeReply" -> OnCacheWaitingForSpeculativeReply(c, n, m, TRUE)
         [] c.state = "SharedWaitingForSpeculativeReply" -> OnCacheWaitingForSpeculativeReply(c, n, m, FALSE)
         [] c.state = "Invalid" -> OnCacheInvalid(c, n, m)
         [] c.state = "Shared" -> OnCacheShared(c, n, m)
         [] c.state = "WaitingForExclusiveReadResponse" -> OnCacheWaitingForExclusiveReadResponse(c, n, m)
         [] c.state = "WaitingForSharedReadResponse" -> OnCacheWaitingForSharedReadResponse(c, n, m)
         [] c.state = "WaitingForExclusiveResponseAck" -> OnCacheWaitingForResponseAck(c, n, m, TRUE)
         [] c.state = "WaitingForSharedResponseAck" -> OnCacheWaitingForResponseAck(c, n, m, FALSE)
         [] c.state = "WaitingForInvalidates" -> OnCacheWaitingForInvalidates(c, n, m)
         [] c.state = "WaitingForWritebackResponse" -> OnCacheWaitingForWritebackResponse(c, n, m)
         [] c.state = "WaitingForIntervention" ->
              IF m.type = "Intervention" THEN Evicted(c, n) ELSE Error
         [] c.state = "WaitingForWritebackBusyAck" ->
              IF m.type = "WritebackAck" THEN Require(m.isBusy, Evicted(c, n)) ELSE Error
-----------------------------------------------------------------------------
(* The side of the directory, with data d. Nodes that ask while it is busy *)
(* get a nak, and ask again.                                               *)

ClearTempDirectoryData(d) ==
  [d EXCEPT !.firstRequest = NoMsg, !.previousOwner = NoNode, !.secondRequestSrc = NoNode]

ToState(d, state) == [d EXCEPT !.state = state]
Settle(d, state) == ToState(ClearTempDirectoryData(d), state)

SendRequestToMemory(d, r) == [d EXCEPT !.toMemory = Append(@, r)]
Nak(d, r) == Send(d, CacheNak(r.src, r.id, FALSE))

OnDirectoryUnowned(d, m) ==
  IF m.type = "Read"
  THEN Require(d.owner = NoNode,
               SendRequestToMemory([d EXCEPT !.state = "ExclusiveMemoryAccess",
                                             !.firstRequest = m, !.owner = m.src], m))
  ELSE Error

OnDirectoryExclusiveMemoryAccess(d, m) ==
  CASE m.type = "Memory" -> Settle(Send(d, ReadReply(d.firstRequest, TRUE, 0)), "Exclusive")
    [] m.type = "Read"   -> Nak(d, m)
    [] OTHER             -> Error

(* The requester becomes the owner before the owner has heard of it.       *)
OnDirectoryExclusive(d, m) ==
  LET asked == SendRequestToMemory([d EXCEPT !.firstRequest = m, !.owner = m.src], m)
  IN CASE m.type = "Read" /\ d.owner = m.src -> ToState(asked, "ExclusiveMemoryAccess")
       [] m.type = "Read" /\ d.owner # m.src /\ m.exclusive ->
            [asked EXCEPT !.state = "BusyExclusiveMemoryAccess", !.previousOwner = d.owner]
       [] m.type = "Read" /\ d.owner # m.src /\ ~m.exclusive ->
            [asked EXCEPT !.state = "BusySharedMemoryAccess", !.previousOwner = d.owner,
                          !.sharers = @ \cup {d.owner}]
       [] m.type = "WritebackRequest" ->
            Require(d.owner = m.src,
                    Send([d EXCEPT !.state = "Unowned", !.owner = NoNode], WritebackAck(m.src, FALSE)))
       [] OTHER -> Error

(* The next three stand for the pairs of states that differ in whether the *)
(* request is exclusive, which firstRequest says.                          *)
BusyMemoryAccess(x) == IF x THEN "BusyExclusiveMemoryAccess" ELSE "BusySharedMemoryAccess"
BusyMemoryAccessWriteback(x) ==
  IF x THEN "BusyExclusiveMemoryAccessWritebackRequest" ELSE "BusySharedMemoryAccessWritebackRequest"
Busy(x) == IF x THEN "BusyExclusive" ELSE "BusyShared"
Owned(x) == IF x THEN "Exclusive" ELSE "Shared"

OnDirectoryBusyMemoryAccess(d, m, x) ==
  CASE m.type = "Memory" ->
         ToState(Send(Send(d, Intervention(d.previousOwner, d.firstRequest)),
                      SpeculativeReply(d.firstRequest)), Busy(x))
    [] m.type = "WritebackRequest" ->
         [d EXCEPT !.state = BusyMemoryAccessWriteback(x), !.secondRequestSrc = m.src]
    [] m.type = "Read" -> Nak(d, m)
    [] OTHER -> Error

(* A slip: the node that gives the block up is not told.                   *)
RequesterOnly(d, m, x) ==
  CASE m.type = "Memory" -> Settle(Send(d, ReadReply(d.firstRequest, x, 0)), Owned(x))
    [] m.type = "Read" -> Nak(d, m)
    [] OTHER -> Error

(* The owner gives the block up before memory has answered: memory will    *)
(* do.                                                                     *)
OnDirectoryBusyMemoryAccessWritebackRequest(d, m, x) ==
  CASE m.type = "Memory" ->
         Settle(Send(Send(d, ReadReply(d.firstRequest, x, 0)), WritebackAck(d.secondRequestSrc, FALSE)),
                Owned(x))
    [] m.type = "Read" -> Nak(d, m)
    [] OTHER -> Error

(* An intervention is on its way to the previous owner.                    *)
OnDirectoryBusy(d, m, x) ==
  CASE m.type = "Read" -> Nak(d, m)
    [] m.type = "WritebackRequest" ->
         Require(m.src = d.previousOwner,
                 Settle(Send(Send(d, ReadResponse(d.owner, d.firstRequest.id, x)), WritebackAck(m.src, TRUE)),
                        Owned(x)))
    [] m.type = "Transfer" ->
         Require(m.src = d.previousOwner /\ (x => m.isDirty), Settle(d, Owned(x)))
    [] m.type = "Writeback" /\ ~x -> Require(m.src = d.previousOwner, Settle(d, "Shared"))
    [] m.type = "DirectoryNak" ->
         Require(x \/ m.src = d.previousOwner,
                 Settle([d EXCEPT !.owner = d.previousOwner, !.sharers = {}], "Exclusive"))
    [] OTHER -> Error

(* A slip: the requester is invalidated on top.                            *)
SendInvalidatesToAll(d, to, src) ==
  [d EXCEPT !.out = @ \o SetToSeq({Invalidate(n, src) : n \in to \cup {src}})]

SendInvalidates(d, to, src) == [d EXCEPT !.out = @ \o SetToSeq({Invalidate(n, src) : n \in to})]

(* The requester r becomes the only one.  It is told how many nodes have   *)
(* been asked to give their copies up, and waits for as many answers.      *)
GrantExclusive(d, r, invalidates) ==
  [Send(d, ReadReply(r, TRUE, invalidates)) EXCEPT !.state = "Exclusive", !.owner = r.src, !.sharers = {}]

(* A slip: memory is asked for every shared read.                          *)
AddAndAsk(d, m) ==
  SendRequestToMemory([d EXCEPT !.sharers = @ \cup {m.src}, !.pendingSharedReads = @ \cup {m}], m)

AddSharedRead(d, m) == [d EXCEPT !.sharers = @ \cup {m.src}, !.pendingSharedReads = @ \cup {m}]

OnDirectoryShared(d, m) ==
  IF m.type # "Read" THEN Error
  ELSE IF ~m.exclusive THEN ToState(SendRequestToMemory(AddSharedRead(d, m), m), "SharedMemoryAccess")
  ELSE IF m.src \notin d.sharers \cup {d.owner}
  THEN SendRequestToMemory([d EXCEPT !.state = "SharedExclusiveMemoryAccess", !.firstRequest = m], m)
  ELSE LET others == (d.sharers \cup {d.owner}) \ {m.src}
       IN GrantExclusive(SendInvalidates(d, others, m.src), m, Cardinality(others))

(* The owner is asked, and counted, once more if it is a sharer too.       *)
OnDirectorySharedExclusiveMemoryAccess(d, m) ==
  LET r == d.firstRequest
      owner == {d.owner} \ {r.src}
      sharers == d.sharers \ {r.src}
  IN CASE m.type = "Memory" ->
            ClearTempDirectoryData(
              GrantExclusive(SendInvalidates(SendInvalidates(d, owner, r.src), sharers, r.src),
                             r, Cardinality(owner) + Cardinality(sharers)))
       [] m.type = "Read" -> Nak(d, m)
       [] OTHER -> Error

OnDirectorySharedMemoryAccess(d, m) ==
  CASE m.type = "Memory" ->
         [d EXCEPT !.state = "Shared", !.pendingSharedReads = {},
                   !.out = @ \o SetToSeq({ReadReply(r, FALSE, 0) : r \in d.pendingSharedReads})]
    [] m.type = "Read" /\ ~m.exclusive -> AddSharedRead(d, m)
    [] m.type = "Read" /\ m.exclusive -> Nak(d, m)
    [] OTHER -> Error

(* What the handlers assert before they look at the message.               *)
DirectoryAsserts(d) ==
  /\ d.state \in {"Exclusive", "BusyExclusive"} => d.sharers = {}
  /\ d.state \in {"Exclusive", "Shared"} => d.firstRequest = NoMsg
  /\ d.state = "Shared" => d.owner # NoNode /\ d.sharers # {} /\ d.pendingSharedReads = {}
  /\ d.state = "SharedMemoryAccess" => d.pendingSharedReads # {} /\ d.sharers # {}

OnDirectory(d, m) ==
  Require(DirectoryAsserts(d),
    CASE d.state = "Unowned" -> OnDirectoryUnowned(d, m)
      [] d.state = "ExclusiveMemoryAccess" -> OnDirectoryExclusiveMemoryAccess(d, m)
      [] d.state = "Exclusive" -> OnDirectoryExclusive(d, m)
      [] d.state = "Shared" -> OnDirectoryShared(d, m)
      [] d.state = "SharedMemoryAccess" -> OnDirectorySharedMemoryAccess(d, m)
      [] d.state = "SharedExclusiveMemoryAccess" -> OnDirectorySharedExclusiveMemoryAccess(d, m)
      [] OTHER ->
           \* one of the three pairs
           LET x == d.firstRequest.exclusive
           IN CASE d.state = BusyMemoryAccess(x) -> OnDirectoryBusyMemoryAccess(d, m, x)
                [] d.state = BusyMemoryAccessWriteback(x) ->
                     OnDirectoryBusyMemoryAccessWritebackRequest(d, m, x)
                [] d.state = Busy(x) -> OnDirectoryBusy(d, m, x))
-----------------------------------------------------------------------------
(* The cache above, with data c: what it holds of the block, what it waits *)
(* for ("read" or "write"), how many reads it has made, and how often it   *)
(* has begun to. Answers(c, later) is the cache with what it sends.        *)
NewCache == [held |-> "None", waiting |-> "none", reads |-> 0, begun |-> 0]

Later(msg, delay) == [msg |-> msg, delay |-> delay]
Answers(c, later) == [cache |-> c, later |-> later]
CacheAsks(c, x) ==
  Answers([c EXCEPT !.waiting = IF x THEN "write" ELSE "read", !.reads = @ + 1],
          <<Later(CacheRead(c.reads + 1, x), missTime)>>)

(* The processor reads or writes, or another block needs the frame.        *)
CacheBegins(c) ==
  IF c.waiting # "none" THEN {}
  ELSE {CacheAsks([c EXCEPT !.begun = @ + 1], x) : x \in CASE c.held = "None" -> {TRUE, FALSE}
                                                         [] c.held = "Shared" -> {TRUE}
                                                         [] c.held = "Exclusive" -> {}}

CacheEvicts(c) ==
  IF c.waiting # "none" \/ c.held = "None" THEN {}
  ELSE {Answers([c EXCEPT !.held = "None"], <<Later(Eviction(attached), evictionTime)>>)
          : attached \in BOOLEAN}

(* A response that nobody waits for is thrown away; a shared one is not    *)
(* enough for a write, which may have come while a read was out.           *)
CacheTakes(c, m) ==
  IF c.waiting = "none" THEN {Answers(c, <<>>)}
  ELSE IF m.exclusive
  THEN {Answers([c EXCEPT !.held = "Exclusive", !.waiting = "none"], <<>>)}
  ELSE {CacheAsks([c EXCEPT !.held = "Shared"], TRUE)}
         \cup (IF c.waiting = "write" THEN {}
               ELSE {Answers([c EXCEPT !.held = "Shared", !.waiting = "none"], <<>>)})

(* The cache gives the block up.  If requests wait for it, it asks for it  *)
(* again, even though it has done so before (RespondInvalidate).           *)
CacheInvalidates(c) ==
  {Answers([c EXCEPT !.held = "None", !.reads = IF c.waiting = "none" THEN @ ELSE @ + 1],
           <<Later(InvalidateResponse(attached), invalidateTime)>>
             \o (IF c.waiting = "none" THEN <<>>
                 ELSE <<Later(CacheRead(c.reads + 1, FALSE), invalidateTime)>>))
     : attached \in {FALSE, c.held = "Exclusive"}}

CacheResponds(c) ==
  {Answers([c EXCEPT !.held = IF @ = "None" THEN @ ELSE "Shared"], <<Later(CacheResponse(isDirty), hitTime)>>)
     : isDirty \in {FALSE, c.held # "None"}}

(* A request of the directory side: the level above is asked first if the  *)
(* block is in its hands.                                                  *)
LevelAboveAnswers(type) == [type |-> "LevelAboveAnswers", request |-> type]

CacheDoes(c, request) == IF request = "Read" THEN CacheResponds(c) ELSE CacheInvalidates(c)

AsksAbove(c, request) ==
  IF request = "Read" THEN c.held = "Exclusive" ELSE c.held # "None" \/ c.waiting # "none"

CacheHears(c, m) ==
  CASE m.type = "ReadResponse" -> CacheTakes(c, m)
    [] m.type # "ReadResponse" /\ ~AsksAbove(c, m.type) -> CacheDoes(c, m.type)
    [] m.type # "ReadResponse" /\ AsksAbove(c, m.type) ->
         {Answers(c, <<Later(LevelAboveAnswers(m.type),
                             IF m.type = "Read" THEN askReadTime ELSE askInvalidateTime)>>)}
-----------------------------------------------------------------------------

Init ==
  /\ scenario \in Scenarios
  /\ local = [n \in Node |-> NewCacheData]
  /\ home = NewDirectoryData
  /\ cache = [n \in Node |-> NewCache]
  /\ events = <<>>
  /\ stopped = FALSE

(* legs are the delays of the steps that follow the first one.               *)
Event(at, node, msg, delay, legs) == [at |-> at, node |-> node, msg |-> msg, delay |-> delay, legs |-> legs]

(* A slip: an event comes after all that are scheduled.                     *)
ScheduleLast(q, e) == Append(q, e)

(* An event comes after those that are due with it.                         *)
Schedule(q, e) == InsertAt(q, Cardinality({k \in DOMAIN q : q[k].delay <= e.delay}) + 1, e)
ScheduleAll(q, es) == FoldLeft(Schedule, q, es)

(* A message from node n: to itself, or to the network, through it, and from *)
(* it to the other node.                                                    *)
Sent(n, m) ==
  LET at == IF m.to \in {"Directory", "DirectoryLater"} THEN "Directory" ELSE "CacheSide"
      to == IF at = "Directory" THEN Home ELSE m.to
  IN IF to = n
     THEN Event(at, to, [m EXCEPT !.to = at],
                IF m.to = "DirectoryLater" THEN lookupRetryTime ELSE localSendTime, <<>>)
     ELSE Event(at, to, [m EXCEPT !.to = at], remoteSendTime, <<scenario.latencies, {0}>>)

(* What the handlers of node n send.                                        *)
Outgoing(n, out) == [k \in DOMAIN out |-> Sent(n, out[k])]

Stop == stopped' = TRUE /\ UNCHANGED <<scenario, local, home, cache, events>>

(* A handler of the cache side of node n leaves c; that of the directory    *)
(* leaves d; the cache does a.                                              *)
LeaveCacheSide(n, c, q) ==
  IF c = Error THEN Stop
  ELSE /\ local' = [local EXCEPT ![n] = [c EXCEPT !.out = <<>>, !.toCache = <<>>]]
       /\ events' = ScheduleAll(q, Outgoing(n, c.out)
                                      \o [k \in DOMAIN c.toCache |->
                                            Event("Cache", n, c.toCache[k], localSendTime, <<>>)])
       /\ UNCHANGED <<scenario, home, cache, stopped>>

LeaveDirectory(d, q) ==
  IF d = Error THEN Stop
  ELSE /\ home' = [d EXCEPT !.out = <<>>, !.toMemory = <<>>]
       /\ events' = ScheduleAll(q, Outgoing(Home, d.out)
                                      \o [k \in DOMAIN d.toMemory |->
                                            Event("Directory", Home, [type |-> "Memory"],
                                                  localSendTime, <<{memoryTime}>>)])
       /\ UNCHANGED <<scenario, local, cache, stopped>>

LeaveCache(n, a, q) ==
  /\ cache' = [cache EXCEPT ![n] = a.cache]
  /\ events' = ScheduleAll(q, [k \in DOMAIN a.later |->
                                 Event(IF a.later[k].msg.type = "LevelAboveAnswers" THEN "Cache" ELSE "CacheSide",
                                       n, a.later[k].msg, a.later[k].delay, <<>>)])
  /\ UNCHANGED <<scenario, local, home, stopped>>

IsDue == events # <<>> /\ Head(events).delay = 0

CacheActs(n) ==
  /\ ~stopped /\ ~IsDue
  /\ \E a \in CacheEvicts(cache[n]) \cup (IF cache[n].begun < scenario.maxReads[n] THEN CacheBegins(cache[n]) ELSE {}) :
       LeaveCache(n, a, events)

(* A step of an event that has more of them: it is scheduled again.         *)
PassOn ==
  /\ ~stopped /\ IsDue /\ Head(events).legs # <<>>
  /\ \E delay \in Head(Head(events).legs) :
       events' = Schedule(Tail(events), [Head(events) EXCEPT !.delay = delay, !.legs = Tail(@)])
  /\ UNCHANGED <<scenario, local, home, cache, stopped>>

Deliver ==
  /\ ~stopped /\ IsDue /\ Head(events).legs = <<>>
  /\ LET e == Head(events)
         n == e.node
         m == e.msg
         q == Tail(events)
     IN CASE e.at = "Directory" -> LeaveDirectory(OnDirectory(home, m), q)
          [] e.at = "CacheSide" -> LeaveCacheSide(n, OnCache(local[n], n, m), q)
          [] e.at = "Cache"     ->
               \E a \in IF m.type = "LevelAboveAnswers" THEN CacheDoes(cache[n], m.request)
                                                        ELSE CacheHears(cache[n], m) :
                 LeaveCache(n, a, q)

Tick ==
  /\ ~stopped /\ ~IsDue /\ events # <<>>
  /\ events' = [k \in DOMAIN events |-> [events[k] EXCEPT !.delay = @ - 1]]
  /\ UNCHANGED <<scenario, local, home, cache, stopped>>

Next == (\E n \in Node : CacheActs(n)) \/ PassOn \/ Deliver \/ Tick

Spec == Init /\ [][Next]_vars
-----------------------------------------------------------------------------
(* The tables have their types.                                            *)
TypeOK ==
  /\ stopped \in BOOLEAN
  /\ home.sharers \subseteq Node /\ home.owner \in Node \cup {NoNode}
  /\ home.previousOwner \in Node \cup {NoNode} /\ home.secondRequestSrc \in Node \cup {NoNode}
  /\ \A n \in Node :
       /\ local[n].invalidAcksReceived \in 0..Cardinality(Node)
       /\ cache[n].held \in {"None", "Shared", "Exclusive"}
       /\ cache[n].waiting \in {"none", "read", "write"}
  /\ \A k \in DOMAIN events :
       /\ events[k].node \in Node /\ events[k].delay \in Nat
       /\ k > 1 => events[k - 1].delay <= events[k].delay

InFlight(P(_)) == Cardinality({k \in DOMAIN events : P(events[k])})
IsTo(e, at, n, type) == e.at = at /\ e.node = n /\ e.msg.type = type
Coming(at, n, type) == \E k \in DOMAIN events : IsTo(events[k], at, n, type)
Holding(type) == {n \in Node : IsOfType(local[n].firstReply, type)}
Asked(type, requester) == {n \in Holding(type) : local[n].firstReply.newOwner = requester}

(* The invalidations that have not been acknowledged to node n.            *)
Unacknowledged(n) ==
  InFlight(LAMBDA e : e.at = "CacheSide" /\ e.msg.type = "Invalidate" /\ e.msg.newOwner = n)
    + Cardinality(Asked("Invalidate", n))
    + InFlight(LAMBDA e : IsTo(e, "CacheSide", n, "InvalidateAck"))

(* How many acknowledgements node n has been, or is being, told to wait    *)
(* for.                                                                    *)
Expected(n) ==
  LET replies == {k \in DOMAIN events : IsTo(events[k], "CacheSide", n, "ReadReply")}
  IN FoldSet(LAMBDA k, sum : sum + events[k].msg.pendingInvalidates,
             IF n \in Holding("ReadReply") THEN local[n].firstReply.pendingInvalidates ELSE 0, replies)

(* A node that takes the block for its own waits for exactly as many       *)
(* acknowledgements as there are invalidations sent for it, whichever of   *)
(* reply and acknowledgements comes first (1616, 1913).                    *)
AcksAreCounted == \A n \in Node : Expected(n) = local[n].invalidAcksReceived + Unacknowledged(n)

(* The directory waits for memory exactly while a read is there (289,      *)
(* 411).                                                                   *)
MemoryIsAsked ==
  InFlight(LAMBDA e : e.at = "Directory" /\ e.msg.type = "Memory")
    = IF home.state \in {"Unowned", "Exclusive", "Shared", "BusyExclusive", "BusyShared"} THEN 0 ELSE 1

(* While the directory waits for the previous owner, the intervention or   *)
(* what it is answered with is under way: nobody is left to ask otherwise. *)
BusyIsAnswered ==
  home.state \in {"BusyExclusive", "BusyShared"} =>
    \/ Holding("Intervention") # {}
    \/ \E k \in DOMAIN events :
         events[k].msg.type \in {"Intervention", "Transfer", "Writeback", "DirectoryNak"}

(* A node that waits to give the block back will hear of it.               *)
EvictionHandshake ==
  \A n \in Node : local[n].state = "WaitingForWritebackResponse" =>
    \/ Coming("CacheSide", n, "WritebackAck")
    \/ home.secondRequestSrc = n
    \/ \E k \in DOMAIN events : events[k].msg = WritebackRequest(n)

(* A cache whose requests wait has a read on its way or at the directory   *)
(* side, or is being answered.                                             *)
CacheIsServed ==
  \A n \in Node : cache[n].waiting # "none" =>
    \/ Coming("CacheSide", n, "Read")
    \/ local[n].pendingLocalReads # <<>>
    \/ Coming("Cache", n, "ReadResponse")

AsksDirectory(n) ==
  local[n].state \in {"WaitingForExclusiveReadResponse", "WaitingForSharedReadResponse",
                      "WaitingForExclusiveResponseAck", "WaitingForSharedResponseAck",
                      "ExclusiveWaitingForSpeculativeReply", "SharedWaitingForSpeculativeReply",
                      "WaitingForInvalidates"}

(* While a node waits for the directory its request, or what it has led    *)
(* to, is somewhere: naks, interventions that meet no block, and replies   *)
(* that come in two parts lose none (308, 332, 1554, 1988).                *)
RequestIsOut ==
  \A n \in Node : AsksDirectory(n) =>
    \/ \E k \in DOMAIN events :
         LET m == events[k].msg
         IN \/ events[k].at = "Directory" /\ m.type = "Read" /\ m.src = n
            \/ m.type = "Intervention" /\ m.newOwner = n
            \/ events[k].at = "CacheSide" /\ events[k].node = n
               /\ m.type \in {"CacheNak", "ReadReply", "ReadResponse", "SpeculativeReply"}
    \/ home.firstRequest # NoMsg /\ home.firstRequest.src = n
    \/ \E r \in home.pendingSharedReads : r.src = n
    \/ Asked("Intervention", n) # {}
    \/ Unacknowledged(n) > 0
    \/ local[n].isCanceledReadRequest

Settled(n) == local[n].state \in {"Invalid", "Shared", "Exclusive"}

(* A node that waits for nothing has no reads of its cache left: 'process  *)
(* more pendingLocalReads if there are any' (3388).                        *)
ReadsAreServed ==
  \A n \in Node : Settled(n) => local[n].pendingLocalReads = <<>>

(* Reads that come while their node waits are taken up when it has done    *)
(* waiting, but for one case: an eviction that meets an intervention.      *)
OnlyEvictionsForgetReads ==
  [][\A n \in Node : (Settled(n) /\ local[n].pendingLocalReads # <<>>)' =>
        \/ Settled(n) /\ local[n].pendingLocalReads # <<>>
        \/ local[n].state = "ExclusiveInterventionEviction"]_vars
=============================================================================
