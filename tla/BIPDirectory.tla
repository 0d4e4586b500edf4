---------------------------- MODULE BIPDirectory ----------------------------
(***************************************************************************)
(* The directory protocol of src/src/MemSys/Devices/BIPDirectory.cpp, for  *)
(* one block address.                                                      *)
(*                                                                         *)
(* Every node runs one BIPDirectory between its cache and the network; the *)
(* node the address hashes to (CalcNodeID) is its Home, keeps the entry    *)
(* directoryData[addr] and has the memory that stores the block.  All      *)
(* tables of the class are keyed by address or by message number, so the   *)
(* addresses do not interact and one address stands for each of them.      *)
(*                                                                         *)
(* Handlers run one at a time (EventManager::ProcessTick), so a handler is *)
(* one action; all concurrency is in the order in which messages arrive.   *)
(* The network gives every message a random latency and the configuration  *)
(* that runs this protocol switches its ordering off (MemGen.cs:323), so   *)
(* messages are delivered in any order, each exactly once.  A callback the *)
(* home schedules for itself is a message from Home to Home.               *)
(*                                                                         *)
(* The cache is any device that keeps the contract of BIPMOESICache: it    *)
(* answers each Read and each Invalidate of the directory once, an answer  *)
(* that satisfies a Read gives up the block iff the Read asked for that,   *)
(* and it may read and evict whenever it likes.                            *)
(***************************************************************************)
EXTENDS Integers, FiniteSets

CONSTANTS Node,             \* the nodes, each with a cache and a directory
          Home,             \* the node whose directory keeps the address
          NoNode,           \* InvalidNodeID
          MsgID,            \* numbers of read messages
          MaxMemoryWrites   \* bound on the blocks on their way to the memory

ASSUME NodeAssumption == IsFiniteSet(Node) /\ Home \in Node /\ NoNode \notin Node
ASSUME MaxMemoryWritesAssumption == MaxMemoryWrites \in Nat

VARIABLES
  owner, sharers,                  \* directoryData[addr] at Home
  pendingDirectorySharedReads,     \* at Home: lookups being served, shared
  pendingDirectoryExclusiveReads,  \* at Home: the lookup being served, exclusive
  invalidateResponsesExpected,     \* of that exclusive lookup
  invalidateResponsesReceived,
  pendingMemoryReadAccesses,       \* at Home: reads the memory has not answered
  pendingMemoryWriteAccesses,      \* at Home: how many writes it has not answered
  pendingLocalReads,               \* per node: reads of its own cache
  pendingRemoteReads,              \* per node: fetches its cache has not answered
  pendingRemoteInvalidates,        \* nodes whose cache has an invalidate to answer
  pendingEviction,                 \* nodes with an eviction in progress
  net,                             \* messages and self callbacks in flight
  toCache                          \* per node: messages on the way to its cache

entry == <<owner, sharers>>
lookups == <<pendingDirectorySharedReads, pendingDirectoryExclusiveReads>>
counts == <<invalidateResponsesExpected, invalidateResponsesReceived>>
home == <<entry, lookups, counts, pendingMemoryReadAccesses, pendingMemoryWriteAccesses>>
local == <<pendingLocalReads, pendingRemoteReads, pendingRemoteInvalidates, pendingEviction>>
vars == <<home, local, net, toCache>>
-----------------------------------------------------------------------------
(* Table entries and messages.  The node a message does not name is Home.   *)

ReadData == [id : MsgID, exclusive : BOOLEAN]    \* a ReadMsg
LookupData == [id : MsgID, src : Node]           \* LookupData<ReadMsg>

Lookup(n, i, x)        == [type |-> "Lookup", src |-> n, id |-> i, exclusive |-> x]
Fetch(n, i, x)         == [type |-> "Fetch", dst |-> n, id |-> i, exclusive |-> x]
FetchReply(n, i, x)    == [type |-> "FetchReply", src |-> n, id |-> i, exclusive |-> x]
DirectoryNak(n)        == [type |-> "DirectoryNak", src |-> n]
Reply(n, i, s, x)      == [type |-> "Reply", dst |-> n, id |-> i,
                           satisfied |-> s, exclusive |-> x]
Eviction(n, b)         == [type |-> "Eviction", src |-> n, blockAttached |-> b]
EvictionResponse(n)    == [type |-> "EvictionResponse", dst |-> n]
Invalidate(n)          == [type |-> "Invalidate", dst |-> n]
InvalidateResponse(n, b) == [type |-> "InvalidateResponse", src |-> n, blockAttached |-> b]

NetMsg == [type : {"Lookup", "FetchReply"}, src : Node, id : MsgID, exclusive : BOOLEAN]
     \cup [type : {"Fetch"}, dst : Node, id : MsgID, exclusive : BOOLEAN]
     \cup [type : {"Reply"}, dst : Node, id : MsgID, satisfied : BOOLEAN, exclusive : BOOLEAN]
     \cup [type : {"DirectoryNak"}, src : Node]
     \cup [type : {"Eviction", "InvalidateResponse"}, src : Node, blockAttached : BOOLEAN]
     \cup [type : {"EvictionResponse", "Invalidate"}, dst : Node]

CacheRead(i, x)         == [type |-> "Read", id |-> i, exclusive |-> x]
CacheReadResponse(i, x) == [type |-> "ReadResponse", id |-> i, exclusive |-> x]
CacheInvalidate         == [type |-> "Invalidate"]

CacheMsg == [type : {"Read", "ReadResponse"}, id : MsgID, exclusive : BOOLEAN]
       \cup {CacheInvalidate}

Init ==
  /\ owner = NoNode
  /\ sharers = {}
  /\ pendingDirectorySharedReads = {}
  /\ pendingDirectoryExclusiveReads = {}
  /\ invalidateResponsesExpected = 0
  /\ invalidateResponsesReceived = 0
  /\ pendingMemoryReadAccesses = {}
  /\ pendingMemoryWriteAccesses = 0
  /\ pendingLocalReads = [n \in Node |-> {}]
  /\ pendingRemoteReads = [n \in Node |-> {}]
  /\ pendingRemoteInvalidates = {}
  /\ pendingEviction = {}
  /\ net = {}
  /\ toCache = [n \in Node |-> {}]
-----------------------------------------------------------------------------
(* Requests of the local cache.                                             *)

OnLocalRead(n, i, x) ==
  /\ pendingLocalReads' = [pendingLocalReads EXCEPT ![n] = @ \cup {[id |-> i, exclusive |-> x]}]
  /\ net' = net \cup {Lookup(n, i, x)}
  /\ UNCHANGED <<home, pendingRemoteReads, pendingRemoteInvalidates, pendingEviction, toCache>>

(* SendWriteRequestToMemory for the block attached to a message             *)
WriteBack(attached) ==
  pendingMemoryWriteAccesses' = pendingMemoryWriteAccesses + (IF attached THEN 1 ELSE 0)

(* The node is dropped from the entry, as its owner or else as a sharer.    *)
EraseShare(n) ==
  /\ owner' = IF owner = n THEN NoNode ELSE owner
  /\ sharers' = IF owner = n THEN sharers ELSE sharers \ {n}

(* OnLocalEviction.  A second eviction while one is pending is dropped; the *)
(* home handles its own in place and its pendingEviction is empty again.    *)
OnLocalEviction(n, attached) ==
  /\ \/ /\ n \in pendingEviction
        /\ UNCHANGED <<entry, pendingMemoryWriteAccesses, pendingEviction, net>>
     \/ /\ n \notin pendingEviction /\ n = Home
        /\ EraseShare(Home)
        /\ WriteBack(attached)
        /\ UNCHANGED <<pendingEviction, net>>
     \/ /\ n \notin pendingEviction /\ n # Home
        /\ pendingEviction' = pendingEviction \cup {n}
        /\ net' = net \cup {Eviction(n, attached)}
        /\ UNCHANGED <<entry, pendingMemoryWriteAccesses>>
  /\ UNCHANGED <<lookups, counts, pendingMemoryReadAccesses, pendingLocalReads,
                 pendingRemoteReads, pendingRemoteInvalidates, toCache>>
-----------------------------------------------------------------------------
(* Fetching the block, at Home.                                             *)

(* OnRemoteReadCache: the fetch is passed on to the cache of node n.        *)
OnRemoteReadCache(n, i, x) ==
  /\ pendingRemoteReads' = [pendingRemoteReads EXCEPT ![n] = @ \cup {[id |-> i, exclusive |-> x]}]
  /\ toCache' = [toCache EXCEPT ![n] = @ \cup {CacheRead(i, x)}]

(* A slip: the sharers are asked although there is an owner.                *)
SharersFirst == IF sharers # {} THEN sharers ELSE {owner} \ {NoNode}

FetchTargets == IF owner # NoNode THEN {owner} ELSE sharers

(* PerformDirectoryFetch for some lookup of "pending": from the owner, else *)
(* from a sharer, else from memory.  The tables are hashed, so which lookup *)
(* and which sharer come first is arbitrary.  "rest" is what stays in net.  *)
PerformDirectoryFetch(pending, x, rest) ==
  \E p \in pending :
    \/ \E target \in FetchTargets \ {Home} :
         /\ net' = rest \cup {Fetch(target, p.id, x)}
         /\ UNCHANGED <<pendingRemoteReads, pendingMemoryReadAccesses, toCache>>
    \/ /\ Home \in FetchTargets
       /\ OnRemoteReadCache(Home, p.id, x)
       /\ net' = rest
       /\ UNCHANGED pendingMemoryReadAccesses
    \/ /\ FetchTargets = {}
       /\ pendingMemoryReadAccesses' = pendingMemoryReadAccesses \cup {p.id}
       /\ net' = rest
       /\ UNCHANGED <<pendingRemoteReads, toCache>>

(* A slip: an exclusive lookup does not wait for the shared ones.           *)
BusyIfExclusive(x) == pendingDirectoryExclusiveReads # {}

Busy(x) == \/ pendingDirectoryExclusiveReads # {}
           \/ x /\ pendingDirectorySharedReads # {}

(* A slip: the home's own callback is not scheduled again.                  *)
ForgetOwnLookup(m) ==
  /\ m.type = "Lookup" /\ Busy(m.exclusive)
  /\ net' = (net \ {m}) \cup {Reply(n, m.id, FALSE, FALSE) : n \in {m.src} \ {Home}}
  /\ UNCHANGED <<home, local, toCache>>

(* OnDirectoryBlockRequest when the entry is busy: a remote requester is    *)
(* told to try again; the home's own callback is rescheduled as it is.      *)
RefuseLookup(m) ==
  /\ m.type = "Lookup" /\ Busy(m.exclusive)
  /\ net' = IF m.src = Home THEN net ELSE (net \ {m}) \cup {Reply(m.src, m.id, FALSE, FALSE)}
  /\ UNCHANGED <<home, local, toCache>>

AcceptExclusiveLookup(m) ==
  /\ m.type = "Lookup" /\ ~Busy(TRUE) /\ m.exclusive
  /\ pendingDirectoryExclusiveReads' = {[id |-> m.id, src |-> m.src]}
  /\ invalidateResponsesExpected' = 0
  /\ invalidateResponsesReceived' = 0
  /\ PerformDirectoryFetch(pendingDirectoryExclusiveReads', TRUE, net \ {m})
  /\ UNCHANGED <<entry, pendingDirectorySharedReads, pendingMemoryWriteAccesses,
                 pendingLocalReads, pendingRemoteInvalidates, pendingEviction>>

(* A slip: every shared lookup makes a fetch.                               *)
NeverFetching == FALSE

(* A shared lookup that finds another one pending waits for its fetch.      *)
AlreadyFetching == pendingDirectorySharedReads # {}

AcceptSharedLookup(m) ==
  /\ m.type = "Lookup" /\ ~Busy(FALSE) /\ ~m.exclusive
  /\ pendingDirectorySharedReads' = pendingDirectorySharedReads \cup {[id |-> m.id, src |-> m.src]}
  /\ IF AlreadyFetching
     THEN /\ net' = net \ {m}
          /\ UNCHANGED <<pendingRemoteReads, pendingMemoryReadAccesses, toCache>>
     ELSE PerformDirectoryFetch(pendingDirectorySharedReads', FALSE, net \ {m})
  /\ UNCHANGED <<entry, pendingDirectoryExclusiveReads, counts, pendingMemoryWriteAccesses,
                 pendingLocalReads, pendingRemoteInvalidates, pendingEviction>>

OnDirectoryBlockRequest(m) ==
  RefuseLookup(m) \/ AcceptExclusiveLookup(m) \/ AcceptSharedLookup(m)

(* A slip: the fetch is made again for shared lookups only.                 *)
RetrySharedFetch(m) ==
  /\ m.type = "DirectoryNak"
  /\ IF pendingDirectorySharedReads # {}
     THEN PerformDirectoryFetch(pendingDirectorySharedReads, FALSE, net \ {m})
     ELSE /\ net' = net \ {m}
          /\ UNCHANGED <<pendingRemoteReads, pendingMemoryReadAccesses, toCache>>
  /\ UNCHANGED <<entry, lookups, counts, pendingMemoryWriteAccesses,
                 pendingLocalReads, pendingRemoteInvalidates, pendingEviction>>

(* OnRemoteDirectoryNak: the cache no longer had the block, so the fetch is *)
(* made again from the entry as it is now, unless nobody waits for it.      *)
OnRemoteDirectoryNak(m) ==
  /\ m.type = "DirectoryNak"
  /\ \/ /\ pendingDirectorySharedReads # {}
        /\ PerformDirectoryFetch(pendingDirectorySharedReads, FALSE, net \ {m})
     \/ /\ pendingDirectorySharedReads = {} /\ pendingDirectoryExclusiveReads # {}
        /\ PerformDirectoryFetch(pendingDirectoryExclusiveReads, TRUE, net \ {m})
     \/ /\ pendingDirectorySharedReads = {} /\ pendingDirectoryExclusiveReads = {}
        /\ net' = net \ {m}
        /\ UNCHANGED <<pendingRemoteReads, pendingMemoryReadAccesses, toCache>>
  /\ UNCHANGED <<entry, lookups, counts, pendingMemoryWriteAccesses,
                 pendingLocalReads, pendingRemoteInvalidates, pendingEviction>>

(* RecvMsg: a fetch reaches the node it was sent to.                        *)
OnFetch(m) ==
  /\ m.type = "Fetch"
  /\ OnRemoteReadCache(m.dst, m.id, m.exclusive)
  /\ net' = net \ {m}
  /\ UNCHANGED <<home, pendingLocalReads, pendingRemoteInvalidates, pendingEviction>>

(* OnLocalReadResponse: the cache of n answers fetch r, for the home.       *)
OnLocalReadResponse(n, r, satisfied) ==
  /\ r \in pendingRemoteReads[n]
  /\ pendingRemoteReads' = [pendingRemoteReads EXCEPT ![n] = @ \ {r}]
  /\ net' = net \cup {IF satisfied THEN FetchReply(n, r.id, r.exclusive) ELSE DirectoryNak(n)}
  /\ UNCHANGED <<home, pendingLocalReads, pendingRemoteInvalidates, pendingEviction>>
-----------------------------------------------------------------------------
(* Answering the lookups, at Home.  In these the data comes from src, with  *)
(* exclusive ownership or not, in answer to the fetch numbered i; o and S   *)
(* are the owner and the sharers without the node that gave the block up.   *)

(* The responses of the home to the lookups in P.  The one to a lookup of   *)
(* its own goes to the cache at once (OnDirectoryBlockResponse).            *)
Respond(P, x, rest) ==
  LET own == {p.id : p \in {q \in P : q.src = Home}}
  IN /\ net' = rest \cup {Reply(p.src, p.id, TRUE, x) : p \in {q \in P : q.src # Home}}
     /\ pendingLocalReads' = [pendingLocalReads EXCEPT ![Home] = {r \in @ : r.id \notin own}]
     /\ toCache' = [toCache EXCEPT ![Home] = @ \cup {CacheReadResponse(i, x) : i \in own}]

(* All shared lookups are answered together.  Without an owner the first of *)
(* them in the hash table becomes the owner.  If that leaves a single       *)
(* reader, it gets the block exclusively.                                   *)
AnswerSharedReads(o, S, rest) ==
  LET readers == {p.src : p \in pendingDirectorySharedReads}
  IN /\ pendingDirectorySharedReads # {}
     /\ owner' \in IF o = NoNode THEN readers ELSE {o}
     /\ sharers' = S \cup (readers \ {owner'})
     /\ Respond(pendingDirectorySharedReads, sharers' = {}, rest)
     /\ pendingDirectorySharedReads' = {}
     /\ UNCHANGED <<pendingDirectoryExclusiveReads, counts, pendingMemoryWriteAccesses,
                    pendingRemoteInvalidates>>

(* A slip: the node becomes a sharer of a block without an owner.           *)
AddSharer(o, S, n) ==
  /\ owner' = o
  /\ sharers' = S \cup {n}

(* AddDirectoryShare of a node that takes the block exclusively             *)
AddDirectoryShare(o, S, n) ==
  /\ owner' = IF o \in {n, NoNode} THEN n ELSE o
  /\ sharers' = IF o \in {n, NoNode} THEN S ELSE S \cup {n}

(* Nobody else has a copy: the response is the one that brought the block.  *)
AnswerExclusiveRead(o, S, i, x, rest) ==
  \E p \in pendingDirectoryExclusiveReads :
     /\ pendingDirectorySharedReads = {} /\ S = {}
     /\ Respond({[id |-> i, src |-> p.src]}, x, rest)
     /\ AddDirectoryShare(o, S, p.src)
     /\ pendingDirectoryExclusiveReads' = {}
     /\ UNCHANGED <<pendingDirectorySharedReads, counts, pendingMemoryWriteAccesses,
                    pendingRemoteInvalidates>>

(* The block is held while every sharer, the requester too, is invalidated. *)
InvalidateSharers(o, S, rest) ==
  /\ pendingDirectorySharedReads = {} /\ pendingDirectoryExclusiveReads # {} /\ S # {}
  /\ owner' = o /\ sharers' = S
  /\ invalidateResponsesReceived' = 0
  /\ invalidateResponsesExpected' = Cardinality(S)
  /\ net' = rest \cup {Invalidate(n) : n \in S \ {Home}}
  /\ pendingRemoteInvalidates' = pendingRemoteInvalidates \cup (S \cap {Home})
  /\ toCache' = IF Home \in S THEN [toCache EXCEPT ![Home] = @ \cup {CacheInvalidate}] ELSE toCache
  /\ UNCHANGED <<lookups, pendingMemoryWriteAccesses, pendingLocalReads>>

OnRemoteReadResponse(src, i, x, rest) ==
  LET o == IF x /\ owner = src THEN NoNode ELSE owner
      S == IF x /\ owner # src THEN sharers \ {src} ELSE sharers
  IN /\ \/ AnswerSharedReads(o, S, rest)
        \/ AnswerExclusiveRead(o, S, i, x, rest)
        \/ InvalidateSharers(o, S, rest)
     /\ UNCHANGED <<pendingRemoteReads, pendingEviction>>

OnFetchReply(m) ==
  /\ m.type = "FetchReply"
  /\ OnRemoteReadResponse(m.src, m.id, m.exclusive, net \ {m})
  /\ UNCHANGED pendingMemoryReadAccesses

(* OnLocalMemoryReadResponse; TestMemory grants every read exclusively.     *)
OnLocalMemoryReadResponse(i) ==
  /\ i \in pendingMemoryReadAccesses
  /\ pendingMemoryReadAccesses' = pendingMemoryReadAccesses \ {i}
  /\ OnRemoteReadResponse(NoNode, i, TRUE, net)

(* A slip: a response the home did not ask for is counted.                  *)
OnAnyMemoryWriteResponse ==
  /\ pendingMemoryWriteAccesses' = pendingMemoryWriteAccesses - 1
  /\ UNCHANGED <<entry, lookups, counts, pendingMemoryReadAccesses, local, net, toCache>>

OnLocalMemoryWriteResponse ==
  /\ pendingMemoryWriteAccesses > 0
  /\ pendingMemoryWriteAccesses' = pendingMemoryWriteAccesses - 1
  /\ UNCHANGED <<entry, lookups, counts, pendingMemoryReadAccesses, local, net, toCache>>

(* OnDirectoryBlockResponse at a requester: the data go to its cache, or    *)
(* the lookup is made again under the same number.                          *)
OnDirectoryBlockResponse(m) ==
  /\ m.type = "Reply"
  /\ \E r \in pendingLocalReads[m.dst] :
       /\ r.id = m.id
       /\ IF m.satisfied
          THEN /\ pendingLocalReads' = [pendingLocalReads EXCEPT ![m.dst] = @ \ {r}]
               /\ toCache' = [toCache EXCEPT ![m.dst] = @ \cup {CacheReadResponse(m.id, m.exclusive)}]
               /\ net' = net \ {m}
          ELSE /\ net' = (net \ {m}) \cup {Lookup(m.dst, r.id, r.exclusive)}
               /\ UNCHANGED <<pendingLocalReads, toCache>>
  /\ UNCHANGED <<home, pendingRemoteReads, pendingRemoteInvalidates, pendingEviction>>
-----------------------------------------------------------------------------
(* Evictions and invalidations.                                             *)

OnRemoteEviction(m) ==
  /\ m.type = "Eviction"
  /\ EraseShare(m.src)
  /\ WriteBack(m.blockAttached)
  /\ net' = (net \ {m}) \cup {EvictionResponse(m.src)}
  /\ UNCHANGED <<lookups, counts, pendingMemoryReadAccesses, local, toCache>>

(* A slip: the eviction stays pending.                                      *)
EvictionStaysPending(m) ==
  /\ m.type = "EvictionResponse"
  /\ net' = net \ {m}
  /\ UNCHANGED <<home, local, toCache>>

(* The cache drops the response it is forwarded, so it is not sent here.    *)
OnRemoteEvictionResponse(m) ==
  /\ m.type = "EvictionResponse"
  /\ pendingEviction' = pendingEviction \ {m.dst}
  /\ net' = net \ {m}
  /\ UNCHANGED <<home, pendingLocalReads, pendingRemoteReads, pendingRemoteInvalidates, toCache>>

OnRemoteInvalidate(m) ==
  /\ m.type = "Invalidate"
  /\ pendingRemoteInvalidates' = pendingRemoteInvalidates \cup {m.dst}
  /\ toCache' = [toCache EXCEPT ![m.dst] = @ \cup {CacheInvalidate}]
  /\ net' = net \ {m}
  /\ UNCHANGED <<home, pendingLocalReads, pendingRemoteReads, pendingEviction>>

(* A slip: the last acknowledgement is not waited for.                      *)
AllButOneReceived(received) == received + 1 >= invalidateResponsesExpected

AllReceived(received) == received = invalidateResponsesExpected

(* OnRemoteInvalidateResponse.  "cached" is what stays on the way to the    *)
(* caches.  The home answers its own lookup without going through           *)
(* OnDirectoryBlockResponse, so its pendingLocalReads entry stays (1113).   *)
OnRemoteInvalidateResponse(src, attached, rest, cached) ==
  \E p \in pendingDirectoryExclusiveReads :
    LET o == IF owner = src THEN NoNode ELSE owner
        S == IF owner = src THEN sharers ELSE sharers \ {src}
        received == invalidateResponsesReceived + 1
        done == /\ AllReceived(received)
                /\ \/ o \in {NoNode, p.src} /\ S = {}
                   \/ o = NoNode /\ S = {p.src}
    IN /\ WriteBack(attached)
       /\ IF done
          THEN /\ owner' = p.src
               /\ sharers' = {}
               /\ pendingDirectoryExclusiveReads' = {}
               /\ invalidateResponsesExpected' = 0
               /\ invalidateResponsesReceived' = 0
               /\ net' = IF p.src = Home THEN rest ELSE rest \cup {Reply(p.src, p.id, TRUE, TRUE)}
               /\ toCache' = IF p.src = Home
                             THEN [cached EXCEPT ![Home] = @ \cup {CacheReadResponse(p.id, TRUE)}]
                             ELSE cached
          ELSE /\ owner' = o
               /\ sharers' = S
               /\ invalidateResponsesReceived' = received
               /\ net' = rest
               /\ toCache' = cached
               /\ UNCHANGED <<pendingDirectoryExclusiveReads, invalidateResponsesExpected>>
       /\ UNCHANGED <<pendingDirectorySharedReads, pendingMemoryReadAccesses,
                      pendingLocalReads, pendingRemoteReads, pendingEviction>>

OnInvalidateResponse(m) ==
  /\ m.type = "InvalidateResponse"
  /\ OnRemoteInvalidateResponse(m.src, m.blockAttached, net \ {m}, toCache)
  /\ UNCHANGED pendingRemoteInvalidates

(* OnLocalInvalidateResponse: the cache of n has dropped the block.         *)
OnLocalInvalidateResponse(n, attached, cached) ==
  /\ n \in pendingRemoteInvalidates
  /\ pendingRemoteInvalidates' = pendingRemoteInvalidates \ {n}
  /\ IF n = Home
     THEN OnRemoteInvalidateResponse(Home, attached, net, cached)
     ELSE /\ net' = net \cup {InvalidateResponse(n, attached)}
          /\ toCache' = cached
          /\ UNCHANGED <<home, pendingLocalReads, pendingRemoteReads, pendingEviction>>
-----------------------------------------------------------------------------
(* The caches, as the environment of the directories.                       *)

(* A number no message has: currentMsgStamp only grows, so a number is      *)
(* reused here once no read of a cache and no message to a cache has it.    *)
Fresh(i) == \A n \in Node : /\ \A r \in pendingLocalReads[n] : r.id # i
                            /\ \A m \in toCache[n] \ {CacheInvalidate} : m.id # i

CacheReads(n) == \E i \in MsgID, x \in BOOLEAN : Fresh(i) /\ OnLocalRead(n, i, x)

(* The bound: how many blocks are on their way to the memory.               *)
MayWriteBack ==
  LET attached == {m \in net : m.type \in {"Eviction", "InvalidateResponse"} /\ m.blockAttached}
  IN pendingMemoryWriteAccesses + Cardinality(attached) < MaxMemoryWrites

CacheEvicts(n) ==
  \E attached \in BOOLEAN : /\ attached => MayWriteBack
                            /\ OnLocalEviction(n, attached)

CacheAnswersRead(n) ==
  \E m \in toCache[n], satisfied \in BOOLEAN :
    /\ m.type = "Read"
    /\ toCache' = [toCache EXCEPT ![n] = @ \ {m}]
    /\ OnLocalReadResponse(n, [id |-> m.id, exclusive |-> m.exclusive], satisfied)

CacheAnswersInvalidate(n) ==
  /\ CacheInvalidate \in toCache[n]
  /\ \E attached \in BOOLEAN :
       /\ attached => MayWriteBack
       /\ OnLocalInvalidateResponse(n, attached, [toCache EXCEPT ![n] = @ \ {CacheInvalidate}])

CacheTakesResponse(n) ==
  \E m \in toCache[n] :
    /\ m.type = "ReadResponse"
    /\ toCache' = [toCache EXCEPT ![n] = @ \ {m}]
    /\ UNCHANGED <<home, local, net>>

RecvMsg(m) ==
  \/ OnDirectoryBlockRequest(m)
  \/ OnDirectoryBlockResponse(m)
  \/ OnRemoteDirectoryNak(m)
  \/ OnFetch(m)
  \/ OnFetchReply(m)
  \/ OnRemoteEviction(m)
  \/ OnRemoteEvictionResponse(m)
  \/ OnRemoteInvalidate(m)
  \/ OnInvalidateResponse(m)

Next ==
  \/ \E m \in net : RecvMsg(m)
  \/ \E i \in pendingMemoryReadAccesses : OnLocalMemoryReadResponse(i)
  \/ OnLocalMemoryWriteResponse
  \/ \E n \in Node : \/ CacheReads(n)
                     \/ CacheEvicts(n)
                     \/ CacheAnswersRead(n)
                     \/ CacheAnswersInvalidate(n)
                     \/ CacheTakesResponse(n)

Spec == Init /\ [][Next]_vars
-----------------------------------------------------------------------------
(* Every table and every message in flight has its type; no count goes      *)
(* below zero (578).                                                        *)
TypeOK ==
  /\ owner \in Node \cup {NoNode}
  /\ sharers \subseteq Node
  /\ pendingDirectorySharedReads \subseteq LookupData
  /\ pendingDirectoryExclusiveReads \subseteq LookupData
  /\ invalidateResponsesExpected \in Nat
  /\ invalidateResponsesReceived \in Nat
  /\ pendingMemoryReadAccesses \subseteq MsgID
  /\ pendingMemoryWriteAccesses \in Nat
  /\ pendingLocalReads \in [Node -> SUBSET ReadData]
  /\ pendingRemoteReads \in [Node -> SUBSET ReadData]
  /\ pendingRemoteInvalidates \subseteq Node
  /\ pendingEviction \subseteq Node
  /\ net \subseteq NetMsg
  /\ toCache \in [Node -> SUBSET CacheMsg]
-----------------------------------------------------------------------------
(* What is in progress for the lookups at Home.                             *)

Pending == pendingDirectorySharedReads \cup pendingDirectoryExclusiveReads

(* The fetches in progress: on the way to a cache, at a cache, answered,    *)
(* refused, or at the memory.  "from" is the node that is asked.            *)
Fetches ==
     {[at |-> "sent", from |-> m.dst, id |-> m.id, exclusive |-> m.exclusive] :
        m \in {k \in net : k.type = "Fetch"}}
\cup (UNION {{[at |-> "cache", from |-> n, id |-> r.id, exclusive |-> r.exclusive] :
        r \in pendingRemoteReads[n]} : n \in Node})
\cup {[at |-> "answered", from |-> m.src, id |-> m.id, exclusive |-> m.exclusive] :
        m \in {k \in net : k.type = "FetchReply"}}
\cup {[at |-> "refused", from |-> m.src] : m \in {k \in net : k.type = "DirectoryNak"}}
\cup {[at |-> "memory", id |-> i] : i \in pendingMemoryReadAccesses}

(* The messages of an invalidation of node n, and the nodes that have yet   *)
(* to acknowledge one.                                                      *)
InvalidationOf(n) == {Invalidate(n), InvalidateResponse(n, TRUE), InvalidateResponse(n, FALSE)}
Invalidating == {n \in Node : n \in pendingRemoteInvalidates \/ InvalidationOf(n) \cap net # {}}

EvictionOf(n) == {Eviction(n, TRUE), Eviction(n, FALSE), EvictionResponse(n)}

(* Where read r of node n is: a lookup on its way, a lookup at Home, or a   *)
(* reply on its way back.                                                   *)
Whereabouts(n, r) ==
  {m \in net : \/ m = Lookup(n, r.id, r.exclusive)
               \/ m.type = "Reply" /\ m.dst = n /\ m.id = r.id}
  \cup ({[id |-> r.id, src |-> n]} \cap (IF r.exclusive THEN pendingDirectoryExclusiveReads
                                                       ELSE pendingDirectorySharedReads))
-----------------------------------------------------------------------------
(* Safety.                                                                  *)

(* Shared lookups wait together, an exclusive lookup waits alone, and never *)
(* both: OnRemoteReadResponse decides by the tables alone which kind of     *)
(* lookup the block it was sent is for (assertions at 178-182, 653).        *)
OneKindOfLookup ==
  /\ pendingDirectorySharedReads = {} \/ pendingDirectoryExclusiveReads = {}
  /\ \A p, q \in pendingDirectoryExclusiveReads : p = q

(* While lookups wait at Home, exactly one fetch or one round of            *)
(* invalidations works for them, and without any there is none: two would   *)
(* answer a lookup twice and none would leave it waiting for ever.  The     *)
(* handlers assume it of every message they get (652, 1042).                *)
OneFetch ==
  \/ Pending = {} /\ Fetches = {} /\ Invalidating = {}
  \/ Pending # {} /\ Invalidating = {} /\ \E f \in Fetches : Fetches = {f}
  \/ Pending # {} /\ Invalidating # {} /\ Fetches = {}

(* A fetch is for the kind of lookup that waits, carries the number of the  *)
(* exclusive lookup (its answer becomes the response to it), and whatever   *)
(* is evicted meanwhile, the entry never has an owner other than the node   *)
(* that was asked (722, 726); memory is only asked while no cache is listed.*)
FetchMatchesLookup ==
  \A f \in Fetches :
    /\ f.at = "memory" => owner = NoNode /\ sharers = {}
    /\ f.at \in {"sent", "cache", "answered"} =>
         /\ owner \in {NoNode, f.from}
         /\ f.exclusive <=> pendingDirectoryExclusiveReads # {}
    /\ f.at # "refused" => \A p \in pendingDirectoryExclusiveReads : p.id = f.id

(* A round of invalidations counts right: every node asked owes one         *)
(* acknowledgement and is in one stage of it, and whoever is still listed   *)
(* as a sharer is among them, so the last one finds no other copy listed    *)
(* (the nested tests at 1041-1128 have no branch for anything else).        *)
InvalidationRound ==
  /\ invalidateResponsesReceived + Cardinality(Invalidating) = invalidateResponsesExpected
  /\ Invalidating # {} => /\ pendingDirectoryExclusiveReads # {}
                          /\ owner = NoNode
                          /\ sharers \subseteq Invalidating
  /\ \A n \in Node : \A m \in InvalidationOf(n) \cap net :
       n \notin pendingRemoteInvalidates /\ InvalidationOf(n) \cap net = {m}

(* Every read of a cache is in exactly one place, under refusals, retries   *)
(* and reordering: it is neither lost nor answered twice, and a reply finds *)
(* its entry (1219) and grants an exclusive read exclusively.  Only the     *)
(* home may keep the entry of a read it has answered, an exclusive one      *)
(* (1113).                                                                  *)
RequestTracked ==
  /\ \A n \in Node : \A r \in pendingLocalReads[n] :
       \/ \E w \in Whereabouts(n, r) : Whereabouts(n, r) = {w}
       \/ n = Home /\ r.exclusive /\ Whereabouts(n, r) = {}
  /\ \A m \in net : m.type = "Lookup" =>
       [id |-> m.id, exclusive |-> m.exclusive] \in pendingLocalReads[m.src]
  /\ \A p \in Pending : \E r \in pendingLocalReads[p.src] : r.id = p.id
  /\ \A m \in net : m.type = "Reply" => \E r \in pendingLocalReads[m.dst] :
       r.id = m.id /\ (r.exclusive /\ m.satisfied => m.exclusive)

(* A node has an eviction pending exactly while one message of it is in     *)
(* flight, so that no eviction of it is dropped later than that and the     *)
(* home is never sent a second one (995).                                   *)
EvictionHandshake ==
  \A n \in Node :
    /\ n \in pendingEviction <=> EvictionOf(n) \cap net # {}
    /\ \A m \in EvictionOf(n) \cap net : EvictionOf(n) \cap net = {m}

(* Home grants a block exclusively only in the step that leaves the grantee *)
(* its owner and nobody its sharer: through sharers that evict while they   *)
(* are invalidated, owners that evict while they are asked, and replies     *)
(* whose exclusiveness was decided by another handler (667-719, 727-751,    *)
(* 1041-1128).                                                              *)
GrantIsExclusive ==
  [][ /\ \A m \in net' \ net :
           m.type = "Reply" /\ m.exclusive => owner' = m.dst /\ sharers' = {}
      /\ \A m \in toCache'[Home] \ toCache[Home] :
           m.type = "ReadResponse" /\ m.exclusive => owner' = Home /\ sharers' = {} ]_vars
-----------------------------------------------------------------------------
(* Liveness.  The network delivers every message, EventManager runs every   *)
(* callback, the memory answers and so do the caches.  Nothing makes a      *)
(* cache read or evict.                                                     *)
Fairness ==
  /\ \A m \in NetMsg : WF_vars(m \in net /\ RecvMsg(m))
  /\ \A i \in MsgID : WF_vars(OnLocalMemoryReadResponse(i))
  /\ WF_vars(OnLocalMemoryWriteResponse)
  /\ \A n \in Node : /\ WF_vars(CacheAnswersRead(n))
                     /\ WF_vars(CacheAnswersInvalidate(n))
                     /\ WF_vars(CacheTakesResponse(n))

FairSpec == Spec /\ Fairness

(* A lookup that Home has accepted is answered, unless caches refuse the    *)
(* fetch for ever.                                                          *)
AcceptedLookupIsAnswered ==
  <>[](\A n \in Node : DirectoryNak(n) \notin net)
    => \A p \in LookupData : p \in Pending ~> p \notin Pending
=============================================================================
