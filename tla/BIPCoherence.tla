---------------------------- MODULE BIPCoherence ----------------------------
(***************************************************************************)
(* The caches of the nodes (BIPMOESICache, one level with TopCache = 1)    *)
(* over the directories (BIPDirectory), for the block Addr of one address  *)
(* and the other blocks that compete with it for the frames of its set.    *)
(*                                                                         *)
(* The directory module takes the caches for devices that keep a contract; *)
(* here they are the code, with the messages between a cache and its       *)
(* directory in both directions, and the contract is a property.           *)
(***************************************************************************)
EXTENDS BIPDirectory, Sequences, SequencesExt

CONSTANTS Tag, Addr, Associativity, NoBlock, NoID,
          hitTime, missTime, evictionTime, invalidateTime, evictionPolicy,
          MaxRequests    \* bound on the requests of a processor

ASSUME AddrAssumption == Addr \in Tag
ASSUME MaxRequestsAssumption == MaxRequests \in Nat

VARIABLES cache,       \* per node: the cache
          fromCache,   \* per node: messages on the way to its directory, as sent
          requests     \* per node: how many requests its processor has made

C == INSTANCE BIPMOESICache

ASSUME CacheAssumption == NoBlock \notin Tag /\ NoBlock \notin C!Block /\ Associativity \in Nat

coherenceVars == <<vars, cache, fromCache, requests>>

CoherenceInit ==
  /\ Init
  /\ cache = [n \in Node |-> C!NewCache(TRUE)]
  /\ fromCache = [n \in Node |-> <<>>]
  /\ requests = [n \in Node |-> 0]

AppendAboutAddr(s, e) == IF e.msg.tag = Addr THEN Append(s, e) ELSE s

(* Cache n is left as c.  Its messages about Addr go to the directory, the  *)
(* processor takes its answers.                                             *)
Leave(n, c) ==
  /\ cache' = [cache EXCEPT ![n] = [c EXCEPT !.toLocal = <<>>, !.toRemote = <<>>]]
  /\ fromCache' = [fromCache EXCEPT ![n] = FoldLeft(AppendAboutAddr, @, c.toRemote)]

(* A processor reads and writes; it never reads exclusively.  Other blocks   *)
(* are only read: all that matters of them here is that they take frames.   *)
Requests == {C!Read(t, FALSE, NoID) : t \in Tag} \cup {C!Write(Addr, NoID)}

ProcessorRequests(n) ==
  \E m \in Requests :
    /\ requests[n] < MaxRequests
    /\ requests' = [requests EXCEPT ![n] = @ + 1]
    /\ \E c \in C!OnLocalRequest(cache[n], m) : Leave(n, c)
    /\ UNCHANGED vars

(* A message of the directory, as the cache gets it                         *)
AsSent(m) ==
  CASE m.type = "Read"         -> C!Read(Addr, m.exclusive, m.id)
    [] m.type = "ReadResponse" -> C!ReadResponse(C!Read(Addr, FALSE, m.id), TRUE, m.exclusive)
    [] m.type = "Invalidate"   -> C!Invalidate(Addr)

CacheReceives(n) ==
  \E m \in toCache[n] :
    /\ toCache' = [toCache EXCEPT ![n] = @ \ {m}]
    /\ \E c \in C!FromRemote(cache[n], AsSent(m), TRUE) : Leave(n, c)
    /\ UNCHANGED <<home, local, net, requests>>

(* The directory of another block answers a read that is waited for.        *)
OtherBlockArrives(n) ==
  \E t \in Tag \ {Addr} :
    /\ cache[n].waitingOnBlockUnlock[t] # <<>>
    /\ \E c \in C!OnRemoteReadResponse(cache[n], C!ReadResponse(C!Read(t, FALSE, NoID), TRUE, FALSE), TRUE) :
         Leave(n, c)
    /\ UNCHANGED <<vars, requests>>

(* To the directory module a request is at the cache until the answer has    *)
(* arrived at the directory.                                                *)
Asked == [n \in Node |-> toCache[n]
  \cup {CacheRead(r.id, r.exclusive) : r \in
          {q \in pendingRemoteReads[n] : \E k \in DOMAIN fromCache[n] :
             fromCache[n][k].msg.type = "ReadResponse" /\ fromCache[n][k].msg.id = q.id}}
  \cup {CacheInvalidate : k \in
          {j \in DOMAIN fromCache[n] : fromCache[n][j].msg.type = "InvalidateResponse"}}]

Directory == INSTANCE BIPDirectory WITH toCache <- Asked

(* A message overtakes those that were sent with a longer delay only.       *)
MayArrive(s, k) == \A j \in 1..(k - 1) : s[j].delay > s[k].delay

DirectoryReceives(n) ==
  \E k \in DOMAIN fromCache[n] :
    LET m == fromCache[n][k].msg
    IN /\ MayArrive(fromCache[n], k)
       /\ fromCache' = [fromCache EXCEPT ![n] = SubSeq(@, 1, k - 1) \o SubSeq(@, k + 1, Len(@))]
       /\ \/ /\ m.type = "Read"
             /\ \E i \in MsgID : Directory!Fresh(i) /\ OnLocalRead(n, i, m.exclusive)
          \/ /\ m.type = "ReadResponse"
             /\ \E r \in pendingRemoteReads[n] : r.id = m.id /\ OnLocalReadResponse(n, r, m.satisfied)
             /\ UNCHANGED toCache
          \/ /\ m.type = "Eviction"
             /\ m.blockAttached => MayWriteBack
             /\ OnLocalEviction(n, m.blockAttached)
          \/ /\ m.type = "InvalidateResponse"
             /\ m.blockAttached => MayWriteBack
             /\ OnLocalInvalidateResponse(n, m.blockAttached, toCache)
       /\ UNCHANGED <<cache, requests>>

CoherenceNext ==
  \/ \E n \in Node : \/ ProcessorRequests(n)
                     \/ CacheReceives(n)
                     \/ OtherBlockArrives(n)
                     \/ DirectoryReceives(n)
  \/ /\ \/ \E m \in net : RecvMsg(m)
        \/ \E i \in pendingMemoryReadAccesses : OnLocalMemoryReadResponse(i)
        \/ OnLocalMemoryWriteResponse
     /\ UNCHANGED <<cache, fromCache, requests>>

CoherenceSpec == CoherenceInit /\ [][CoherenceNext]_coherenceVars
-----------------------------------------------------------------------------
(* The tables of the directories, and those of every cache.                 *)
CoherenceTypeOK ==
  /\ TypeOK
  /\ \A n \in Node : C!CacheTypeOK(cache[n])

(* The caches keep the contract of the directory module: they answer each   *)
(* Read and each Invalidate once, whatever else they are doing.             *)
CachesKeepContract == Directory!Spec

(* In every cache a block is locked exactly while requests wait for it,     *)
(* however invalidations, fetches and surplus responses interleave.         *)
LockedIffWaiting == \A n \in Node : C!LockedIffWaiting(cache[n])

(* In every cache requests wait for a frame only while an UnlockBlock is    *)
(* due that will make them again (BIPMOESICache.cpp:236-247).               *)
FrameWaitersWillWake == \A n \in Node : C!FrameWaitersWillWake(cache[n])

(* While requests wait for the block, a read for it is somewhere on its way *)
(* to the directory, at the home, or on its way back: if evictions,         *)
(* invalidations and surplus responses (685-705) could use the response up, *)
(* the requests would wait for ever.                                        *)
WaitersAreServed ==
  \A n \in Node : cache[n].waitingOnBlockUnlock[Addr] # <<>> =>
    \/ \E k \in DOMAIN fromCache[n] : fromCache[n][k].msg.type = "Read"
    \/ \E m \in net : \/ m.type = "Lookup" /\ m.src = n
                      \/ m.type = "Reply" /\ m.dst = n
    \/ \E p \in Pending : p.src = n
    \/ \E m \in toCache[n] : m.type = "ReadResponse"

(* "The Modified state signifies that the cache block is modified and that  *)
(* no other cache contains the entry" (src/report/report.txt:48).           *)
ModifiedIsAlone ==
  \A n, o \in Node : n # o /\ C!Usable(cache[n], Addr) /\ cache[n].blocks[Addr].state = "Modified"
                        => ~C!Usable(cache[o], Addr)
=============================================================================
