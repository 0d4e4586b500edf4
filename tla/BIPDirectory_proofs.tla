------------------------ MODULE BIPDirectory_proofs ------------------------
(* Theorems about BIPDirectory, for every set of nodes, every set of        *)
(* message numbers and every bound.                                         *)
(*                                                                          *)
(* Types, the kinds of lookup and the eviction handshake each have an       *)
(* invariant of their own.  The others hold only together: one fetch or one *)
(* round of invalidations works for the lookups that wait, it is the right  *)
(* one, and its acknowledgements are counted right.  They are inductive as  *)
(* one invariant, PhaseInv, which is stated of the tables and of net rather *)
(* than of the set Fetches.  On top of it: no read of a cache is lost or    *)
(* answered twice, by an invariant that says of every node and message      *)
(* number in which stage a read is.                                         *)
EXTENDS BIPDirectory, FiniteSetTheorems, TLAPS

USE NodeAssumption, MaxMemoryWritesAssumption
-----------------------------------------------------------------------------
(* Messages.                                                                *)

(* Every message the handlers make is a message of the protocol.            *)
LEMMA MessagesMade ==
  /\ \A n \in Node, i \in MsgID, x \in BOOLEAN : Lookup(n, i, x) \in NetMsg
  /\ \A n \in Node, i \in MsgID, x \in BOOLEAN : Fetch(n, i, x) \in NetMsg
  /\ \A n \in Node, i \in MsgID, x \in BOOLEAN : FetchReply(n, i, x) \in NetMsg
  /\ \A n \in Node, i \in MsgID, s, x \in BOOLEAN : Reply(n, i, s, x) \in NetMsg
  /\ \A n \in Node : DirectoryNak(n) \in NetMsg
  /\ \A n \in Node, b \in BOOLEAN : Eviction(n, b) \in NetMsg
  /\ \A n \in Node, b \in BOOLEAN : InvalidateResponse(n, b) \in NetMsg
  /\ \A n \in Node : EvictionResponse(n) \in NetMsg
  /\ \A n \in Node : Invalidate(n) \in NetMsg
BY DEF NetMsg, Lookup, Fetch, FetchReply, Reply, DirectoryNak, Eviction,
       EvictionResponse, Invalidate, InvalidateResponse

(* A message is what its kind says, field by field.                         *)
LEMMA MessageFields ==
  ASSUME NEW m \in NetMsg
  PROVE  /\ m.type = "Lookup" => m.src \in Node /\ m.id \in MsgID /\ m.exclusive \in BOOLEAN
         /\ m.type = "FetchReply" => m.src \in Node /\ m.id \in MsgID /\ m.exclusive \in BOOLEAN
         /\ m.type = "Fetch" => m.dst \in Node /\ m.id \in MsgID /\ m.exclusive \in BOOLEAN
         /\ m.type = "Reply" => /\ m.dst \in Node /\ m.id \in MsgID
                                /\ m.satisfied \in BOOLEAN /\ m.exclusive \in BOOLEAN
         /\ m.type = "DirectoryNak" => m.src \in Node
         /\ m.type = "Eviction" => m.src \in Node /\ m.blockAttached \in BOOLEAN
         /\ m.type = "InvalidateResponse" => m.src \in Node /\ m.blockAttached \in BOOLEAN
         /\ m.type \in {"EvictionResponse", "Invalidate"} => m.dst \in Node
BY DEF NetMsg

(* The same for the messages to a cache.                                    *)
LEMMA CacheMessages ==
  /\ \A i \in MsgID, x \in BOOLEAN : CacheRead(i, x) \in CacheMsg
  /\ \A i \in MsgID, x \in BOOLEAN : CacheReadResponse(i, x) \in CacheMsg
  /\ CacheInvalidate \in CacheMsg
  /\ \A m \in CacheMsg : m.type = "Read" => m.id \in MsgID /\ m.exclusive \in BOOLEAN
BY DEF CacheMsg, CacheRead, CacheReadResponse, CacheInvalidate
-----------------------------------------------------------------------------
(* Type correctness.                                                        *)

LEMMA InitTypeOK == Init => TypeOK
BY DEF Init, TypeOK

(* PerformDirectoryFetch puts typed entries in the tables and in net.       *)
LEMMA FetchTypeOK ==
  ASSUME TypeOK,
         NEW pending \in SUBSET LookupData, NEW x \in BOOLEAN, NEW rest \in SUBSET NetMsg,
         PerformDirectoryFetch(pending, x, rest)
  PROVE  /\ net' \subseteq NetMsg
         /\ pendingRemoteReads' \in [Node -> SUBSET ReadData]
         /\ pendingMemoryReadAccesses' \subseteq MsgID
         /\ toCache' \in [Node -> SUBSET CacheMsg]
<1> USE DEF TypeOK
<1>1. PICK p \in pending :
        \/ \E target \in FetchTargets \ {Home} :
             /\ net' = rest \cup {Fetch(target, p.id, x)}
             /\ UNCHANGED <<pendingRemoteReads, pendingMemoryReadAccesses, toCache>>
        \/ /\ Home \in FetchTargets
           /\ OnRemoteReadCache(Home, p.id, x)
           /\ net' = rest
           /\ UNCHANGED pendingMemoryReadAccesses
        \/ /\ FetchTargets = {}
           /\ pendingMemoryReadAccesses' = pendingMemoryReadAccesses \cup {p.id}
           /\ net' = rest
           /\ UNCHANGED <<pendingRemoteReads, toCache>>
  BY DEF PerformDirectoryFetch
<1>2. p.id \in MsgID
  BY DEF LookupData
<1>3. FetchTargets \subseteq Node
  BY DEF FetchTargets
<1>4. CASE \E target \in FetchTargets \ {Home} :
             /\ net' = rest \cup {Fetch(target, p.id, x)}
             /\ UNCHANGED <<pendingRemoteReads, pendingMemoryReadAccesses, toCache>>
  BY <1>2, <1>3, <1>4, MessagesMade
<1>5. CASE /\ OnRemoteReadCache(Home, p.id, x)
           /\ net' = rest
           /\ UNCHANGED pendingMemoryReadAccesses
  BY <1>2, <1>5, CacheMessages DEF OnRemoteReadCache, ReadData
<1>6. CASE /\ pendingMemoryReadAccesses' = pendingMemoryReadAccesses \cup {p.id}
           /\ net' = rest
           /\ UNCHANGED <<pendingRemoteReads, toCache>>
  BY <1>2, <1>6
<1> QED BY <1>1, <1>4, <1>5, <1>6

(* The same for the responses of the home.                                  *)
LEMMA RespondTypeOK ==
  ASSUME TypeOK,
         NEW P \in SUBSET LookupData, NEW x \in BOOLEAN, NEW rest \in SUBSET NetMsg,
         Respond(P, x, rest)
  PROVE  /\ net' \subseteq NetMsg
         /\ pendingLocalReads' \in [Node -> SUBSET ReadData]
         /\ toCache' \in [Node -> SUBSET CacheMsg]
<1> USE DEF TypeOK
<1> DEFINE own == {p.id : p \in {q \in P : q.src = Home}}
           replies == {Reply(p.src, p.id, TRUE, x) : p \in {q \in P : q.src # Home}}
<1>1. \A p \in P : p.id \in MsgID /\ p.src \in Node
  BY DEF LookupData
<1>2. own \subseteq MsgID
  BY <1>1
<1>3. replies \subseteq NetMsg
  <2>1. \A p \in P : Reply(p.src, p.id, TRUE, x) \in NetMsg
    BY <1>1, MessagesMade
  <2> QED BY <2>1
<1>4. net' = rest \cup replies
  BY DEF Respond
<1>5. pendingLocalReads' = [pendingLocalReads EXCEPT ![Home] = {r \in @ : r.id \notin own}]
  BY DEF Respond
<1>6. toCache' = [toCache EXCEPT ![Home] = @ \cup {CacheReadResponse(i, x) : i \in own}]
  BY DEF Respond
<1>7. {CacheReadResponse(i, x) : i \in own} \subseteq CacheMsg
  BY <1>2, CacheMessages
<1> HIDE DEF own, replies
<1>8. net' \subseteq NetMsg
  BY <1>3, <1>4
<1>9. pendingLocalReads' \in [Node -> SUBSET ReadData]
  BY <1>5
<1>10. toCache' \in [Node -> SUBSET CacheMsg]
  BY <1>6, <1>7
<1> QED BY <1>8, <1>9, <1>10

(* The answer to a fetch, from a node or from the memory (src = NoNode).    *)
LEMMA ReadResponseTypeOK ==
  ASSUME TypeOK,
         NEW src \in Node \cup {NoNode}, NEW i \in MsgID, NEW x \in BOOLEAN,
         NEW rest \in SUBSET NetMsg,
         OnRemoteReadResponse(src, i, x, rest),
         pendingMemoryReadAccesses' \subseteq MsgID
  PROVE  TypeOK'
<1> USE DEF TypeOK
<1> DEFINE o == IF x /\ owner = src THEN NoNode ELSE owner
           S == IF x /\ owner # src THEN sharers \ {src} ELSE sharers
<1>1. o \in Node \cup {NoNode} /\ S \subseteq Node
  OBVIOUS
<1>2. /\ UNCHANGED <<pendingRemoteReads, pendingEviction>>
      /\ \/ AnswerSharedReads(o, S, rest)
         \/ AnswerExclusiveRead(o, S, i, x, rest)
         \/ InvalidateSharers(o, S, rest)
  BY DEF OnRemoteReadResponse
<1> HIDE DEF o, S
<1>3. CASE AnswerSharedReads(o, S, rest)
  <2> DEFINE readers == {p.src : p \in pendingDirectorySharedReads}
  <2>1. readers \subseteq Node
    BY DEF LookupData
  <2>2. owner' \in Node \cup {NoNode} /\ sharers' \subseteq Node
    BY <1>1, <1>3, <2>1 DEF AnswerSharedReads
  <2>3. (sharers' = {}) \in BOOLEAN /\ Respond(pendingDirectorySharedReads, sharers' = {}, rest)
    BY <1>3 DEF AnswerSharedReads
  <2>4. /\ net' \subseteq NetMsg
        /\ pendingLocalReads' \in [Node -> SUBSET ReadData]
        /\ toCache' \in [Node -> SUBSET CacheMsg]
    BY <2>3, RespondTypeOK
  <2> QED BY <1>2, <1>3, <2>2, <2>4 DEF AnswerSharedReads, counts
<1>4. CASE AnswerExclusiveRead(o, S, i, x, rest)
  <2>1. PICK p \in pendingDirectoryExclusiveReads :
           /\ Respond({[id |-> i, src |-> p.src]}, x, rest)
           /\ AddDirectoryShare(o, S, p.src)
           /\ pendingDirectoryExclusiveReads' = {}
           /\ UNCHANGED <<pendingDirectorySharedReads, counts, pendingMemoryWriteAccesses,
                          pendingRemoteInvalidates>>
    BY <1>4 DEF AnswerExclusiveRead
  <2>2. p.src \in Node /\ {[id |-> i, src |-> p.src]} \subseteq LookupData
    BY DEF LookupData
  <2>3. /\ net' \subseteq NetMsg
        /\ pendingLocalReads' \in [Node -> SUBSET ReadData]
        /\ toCache' \in [Node -> SUBSET CacheMsg]
    BY <2>1, <2>2, RespondTypeOK
  <2>4. owner' \in Node \cup {NoNode} /\ sharers' \subseteq Node
    BY <1>1, <2>1, <2>2 DEF AddDirectoryShare
  <2> QED BY <1>2, <2>1, <2>3, <2>4 DEF counts
<1>5. CASE InvalidateSharers(o, S, rest)
  <2>1. {Invalidate(n) : n \in S \ {Home}} \subseteq NetMsg
    BY <1>1, MessagesMade
  <2>2. net' \subseteq NetMsg
    BY <1>5, <2>1 DEF InvalidateSharers
  <2>3. Cardinality(S) \in Nat
    BY <1>1, FS_Subset, FS_CardinalityType
  <2>4. toCache' \in [Node -> SUBSET CacheMsg]
    BY <1>5, CacheMessages DEF InvalidateSharers
  <2> QED BY <1>1, <1>2, <1>5, <2>2, <2>3, <2>4 DEF InvalidateSharers, lookups
<1> QED BY <1>2, <1>3, <1>4, <1>5

(* The acknowledgement of an invalidation.                                  *)
LEMMA InvalidateResponseTypeOK ==
  ASSUME TypeOK,
         NEW src \in Node, NEW attached \in BOOLEAN,
         NEW rest \in SUBSET NetMsg, NEW cached \in [Node -> SUBSET CacheMsg],
         OnRemoteInvalidateResponse(src, attached, rest, cached),
         pendingRemoteInvalidates' \subseteq Node
  PROVE  TypeOK'
<1> USE DEF TypeOK
<1>1. PICK p \in pendingDirectoryExclusiveReads :
         LET o == IF owner = src THEN NoNode ELSE owner
             S == IF owner = src THEN sharers ELSE sharers \ {src}
             received == invalidateResponsesReceived + 1
             done == /\ AllReceived(received)
                     /\ \/ o \in {NoNode, p.src} /\ S = {}
                        \/ o = NoNode /\ S = {p.src}
         IN /\ WriteBack(attached)
            /\ IF done
               THEN /\ owner' = p.src
                    /\ sharers' = {}
                    /\ pendingDirectoryExclusiveReads' = {}
                    /\ invalidateResponsesExpected' = 0
                    /\ invalidateResponsesReceived' = 0
                    /\ net' = IF p.src = Home THEN rest
                              ELSE rest \cup {Reply(p.src, p.id, TRUE, TRUE)}
                    /\ toCache' = IF p.src = Home
                                  THEN [cached EXCEPT ![Home] =
                                          @ \cup {CacheReadResponse(p.id, TRUE)}]
                                  ELSE cached
               ELSE /\ owner' = o
                    /\ sharers' = S
                    /\ invalidateResponsesReceived' = received
                    /\ net' = rest
                    /\ toCache' = cached
                    /\ UNCHANGED <<pendingDirectoryExclusiveReads, invalidateResponsesExpected>>
            /\ UNCHANGED <<pendingDirectorySharedReads, pendingMemoryReadAccesses,
                           pendingLocalReads, pendingRemoteReads, pendingEviction>>
  BY DEF OnRemoteInvalidateResponse
<1>2. p.id \in MsgID /\ p.src \in Node
  BY DEF LookupData
<1>3. Reply(p.src, p.id, TRUE, TRUE) \in NetMsg /\ CacheReadResponse(p.id, TRUE) \in CacheMsg
  BY <1>2, MessagesMade, CacheMessages
<1>4. pendingMemoryWriteAccesses' \in Nat
  BY <1>1 DEF WriteBack
<1>5. net' \subseteq NetMsg
  BY <1>1, <1>3
<1>6. toCache' \in [Node -> SUBSET CacheMsg]
  <2>1. \/ toCache' = cached
        \/ toCache' = [cached EXCEPT ![Home] = @ \cup {CacheReadResponse(p.id, TRUE)}]
    BY <1>1
  <2>2. [cached EXCEPT ![Home] = @ \cup {CacheReadResponse(p.id, TRUE)}]
          \in [Node -> SUBSET CacheMsg]
    BY <1>3
  <2> QED BY <2>1, <2>2
<1>7. owner' \in Node \cup {NoNode} /\ sharers' \subseteq Node
  BY <1>1, <1>2
<1>8. /\ pendingDirectoryExclusiveReads' \subseteq LookupData
      /\ invalidateResponsesExpected' \in Nat
      /\ invalidateResponsesReceived' \in Nat
  <2>1. pendingDirectoryExclusiveReads' \in {{}, pendingDirectoryExclusiveReads}
    BY <1>1
  <2>2. invalidateResponsesExpected' \in {0, invalidateResponsesExpected}
    BY <1>1
  <2>3. invalidateResponsesReceived' \in {0, invalidateResponsesReceived + 1}
    BY <1>1
  <2> QED BY <2>1, <2>2, <2>3
<1> QED BY <1>1, <1>4, <1>5, <1>6, <1>7, <1>8

(* Every message a handler receives, of the network.                        *)
LEMMA RecvTypeOK ==
  ASSUME TypeOK, NEW m \in net, RecvMsg(m)
  PROVE  TypeOK'
<1> USE DEF TypeOK
<1>1. m \in NetMsg /\ net \ {m} \in SUBSET NetMsg
  OBVIOUS
<1>2. CASE RefuseLookup(m)
  <2>1. m.src \in Node /\ m.id \in MsgID
    BY <1>1, <1>2, MessageFields DEF RefuseLookup
  <2>2. Reply(m.src, m.id, FALSE, FALSE) \in NetMsg
    BY <2>1, MessagesMade
  <2>3. net' \subseteq NetMsg
    BY <1>1, <1>2, <2>2 DEF RefuseLookup
  <2> QED BY <1>2, <2>3 DEF RefuseLookup, home, local, entry, lookups, counts
<1>3. CASE AcceptExclusiveLookup(m)
  <2>1. [id |-> m.id, src |-> m.src] \in LookupData
    BY <1>1, <1>3, MessageFields DEF AcceptExclusiveLookup, LookupData
  <2>2. pendingDirectoryExclusiveReads' \in SUBSET LookupData
    BY <1>3, <2>1 DEF AcceptExclusiveLookup
  <2>3. PerformDirectoryFetch(pendingDirectoryExclusiveReads', TRUE, net \ {m})
    BY <1>3 DEF AcceptExclusiveLookup
  <2>4. /\ net' \subseteq NetMsg
        /\ pendingRemoteReads' \in [Node -> SUBSET ReadData]
        /\ pendingMemoryReadAccesses' \subseteq MsgID
        /\ toCache' \in [Node -> SUBSET CacheMsg]
    BY <1>1, <2>2, <2>3, FetchTypeOK
  <2> QED BY <1>3, <2>2, <2>4 DEF AcceptExclusiveLookup, entry
<1>4. CASE AcceptSharedLookup(m)
  <2>1. [id |-> m.id, src |-> m.src] \in LookupData
    BY <1>1, <1>4, MessageFields DEF AcceptSharedLookup, LookupData
  <2>2. pendingDirectorySharedReads' \in SUBSET LookupData
    BY <1>4, <2>1 DEF AcceptSharedLookup
  <2>3. /\ net' \subseteq NetMsg
        /\ pendingRemoteReads' \in [Node -> SUBSET ReadData]
        /\ pendingMemoryReadAccesses' \subseteq MsgID
        /\ toCache' \in [Node -> SUBSET CacheMsg]
    <3>1. CASE AlreadyFetching
      BY <1>1, <1>4, <3>1 DEF AcceptSharedLookup
    <3>2. CASE ~AlreadyFetching
      <4>1. PerformDirectoryFetch(pendingDirectorySharedReads', FALSE, net \ {m})
        BY <1>4, <3>2 DEF AcceptSharedLookup
      <4> QED BY <1>1, <2>2, <4>1, FetchTypeOK
    <3> QED BY <3>1, <3>2
  <2> QED BY <1>4, <2>2, <2>3 DEF AcceptSharedLookup, entry, counts
<1>5. CASE OnDirectoryBlockResponse(m)
  <2>1. m.dst \in Node /\ m.id \in MsgID /\ m.exclusive \in BOOLEAN
    BY <1>1, <1>5, MessageFields DEF OnDirectoryBlockResponse
  <2>2. PICK r \in pendingLocalReads[m.dst] :
          IF m.satisfied
          THEN /\ pendingLocalReads' = [pendingLocalReads EXCEPT ![m.dst] = @ \ {r}]
               /\ toCache' = [toCache EXCEPT ![m.dst] =
                                @ \cup {CacheReadResponse(m.id, m.exclusive)}]
               /\ net' = net \ {m}
          ELSE /\ net' = (net \ {m}) \cup {Lookup(m.dst, r.id, r.exclusive)}
               /\ UNCHANGED <<pendingLocalReads, toCache>>
    BY <1>5 DEF OnDirectoryBlockResponse
  <2>3. r.id \in MsgID /\ r.exclusive \in BOOLEAN
    BY <2>1 DEF ReadData
  <2>4. net' \subseteq NetMsg
    BY <1>1, <2>1, <2>2, <2>3, MessagesMade
  <2>5. pendingLocalReads' \in [Node -> SUBSET ReadData]
    BY <2>1, <2>2
  <2>6. toCache' \in [Node -> SUBSET CacheMsg]
    BY <2>1, <2>2, CacheMessages
  <2> QED BY <1>5, <2>4, <2>5, <2>6 DEF OnDirectoryBlockResponse, home, entry, lookups, counts
<1>6. CASE OnRemoteDirectoryNak(m)
  <2>1. /\ net' \subseteq NetMsg
        /\ pendingRemoteReads' \in [Node -> SUBSET ReadData]
        /\ pendingMemoryReadAccesses' \subseteq MsgID
        /\ toCache' \in [Node -> SUBSET CacheMsg]
    <3>1. CASE PerformDirectoryFetch(pendingDirectorySharedReads, FALSE, net \ {m})
      BY <1>1, <3>1, FetchTypeOK
    <3>2. CASE PerformDirectoryFetch(pendingDirectoryExclusiveReads, TRUE, net \ {m})
      BY <1>1, <3>2, FetchTypeOK
    <3>3. CASE /\ net' = net \ {m}
               /\ UNCHANGED <<pendingRemoteReads, pendingMemoryReadAccesses, toCache>>
      BY <1>1, <3>3
    <3> QED BY <1>6, <3>1, <3>2, <3>3 DEF OnRemoteDirectoryNak
  <2> QED BY <1>6, <2>1 DEF OnRemoteDirectoryNak, entry, lookups, counts
<1>7. CASE OnFetch(m)
  <2>1. m.dst \in Node /\ m.id \in MsgID /\ m.exclusive \in BOOLEAN
    BY <1>1, <1>7, MessageFields DEF OnFetch
  <2>2. pendingRemoteReads' \in [Node -> SUBSET ReadData]
    BY <1>7, <2>1 DEF OnFetch, OnRemoteReadCache, ReadData
  <2>3. toCache' \in [Node -> SUBSET CacheMsg]
    BY <1>7, <2>1, CacheMessages DEF OnFetch, OnRemoteReadCache
  <2> QED BY <1>1, <1>7, <2>2, <2>3 DEF OnFetch, home, entry, lookups, counts
<1>8. CASE OnFetchReply(m)
  <2>1. m.src \in Node /\ m.id \in MsgID /\ m.exclusive \in BOOLEAN
    BY <1>1, <1>8, MessageFields DEF OnFetchReply
  <2> QED BY <1>1, <1>8, <2>1, ReadResponseTypeOK DEF OnFetchReply
<1>9. CASE OnRemoteEviction(m)
  <2>1. m.src \in Node /\ m.blockAttached \in BOOLEAN
    BY <1>1, <1>9, MessageFields DEF OnRemoteEviction
  <2>2. EvictionResponse(m.src) \in NetMsg
    BY <2>1, MessagesMade
  <2> QED BY <1>1, <1>9, <2>2
          DEF OnRemoteEviction, EraseShare, WriteBack, lookups, counts, local
<1>10. CASE OnRemoteEvictionResponse(m)
  BY <1>1, <1>10 DEF OnRemoteEvictionResponse, home, entry, lookups, counts
<1>11. CASE OnRemoteInvalidate(m)
  <2>1. m.dst \in Node
    BY <1>1, <1>11, MessageFields DEF OnRemoteInvalidate
  <2>2. toCache' \in [Node -> SUBSET CacheMsg]
    BY <1>11, <2>1, CacheMessages DEF OnRemoteInvalidate
  <2> QED BY <1>1, <1>11, <2>1, <2>2 DEF OnRemoteInvalidate, home, entry, lookups, counts
<1>12. CASE OnInvalidateResponse(m)
  <2>1. m.src \in Node /\ m.blockAttached \in BOOLEAN
    BY <1>1, <1>12, MessageFields DEF OnInvalidateResponse
  <2> QED BY <1>1, <1>12, <2>1, InvalidateResponseTypeOK DEF OnInvalidateResponse
<1> QED BY <1>2, <1>3, <1>4, <1>5, <1>6, <1>7, <1>8, <1>9, <1>10, <1>11, <1>12
        DEF RecvMsg, OnDirectoryBlockRequest

(* Every step of a cache.                                                   *)
LEMMA CacheTypeOK ==
  ASSUME TypeOK, NEW n \in Node,
         \/ CacheReads(n) \/ CacheEvicts(n) \/ CacheAnswersRead(n)
         \/ CacheAnswersInvalidate(n) \/ CacheTakesResponse(n)
  PROVE  TypeOK'
<1> USE DEF TypeOK
<1>1. CASE CacheReads(n)
  <2>1. PICK i \in MsgID, x \in BOOLEAN : OnLocalRead(n, i, x)
    BY <1>1 DEF CacheReads
  <2>2. net' \subseteq NetMsg
    BY <2>1, MessagesMade DEF OnLocalRead
  <2>3. pendingLocalReads' \in [Node -> SUBSET ReadData]
    BY <2>1 DEF OnLocalRead, ReadData
  <2> QED BY <2>1, <2>2, <2>3 DEF OnLocalRead, home, entry, lookups, counts
<1>2. CASE CacheEvicts(n)
  <2>1. PICK attached \in BOOLEAN : OnLocalEviction(n, attached)
    BY <1>2 DEF CacheEvicts
  <2>2. net' \subseteq NetMsg
    BY <2>1, MessagesMade DEF OnLocalEviction
  <2>3. /\ owner' \in Node \cup {NoNode}
        /\ sharers' \subseteq Node
        /\ pendingMemoryWriteAccesses' \in Nat
        /\ pendingEviction' \subseteq Node
    BY <2>1 DEF OnLocalEviction, EraseShare, WriteBack, entry
  <2> QED BY <2>1, <2>2, <2>3 DEF OnLocalEviction, lookups, counts
<1>3. CASE CacheAnswersRead(n)
  <2>1. PICK m \in toCache[n], satisfied \in BOOLEAN :
          /\ m.type = "Read"
          /\ toCache' = [toCache EXCEPT ![n] = @ \ {m}]
          /\ OnLocalReadResponse(n, [id |-> m.id, exclusive |-> m.exclusive], satisfied)
    BY <1>3 DEF CacheAnswersRead
  <2>2. m.id \in MsgID /\ m.exclusive \in BOOLEAN
    BY <2>1, CacheMessages
  <2>3. net' \subseteq NetMsg
    BY <2>1, <2>2, MessagesMade DEF OnLocalReadResponse
  <2>4. pendingRemoteReads' \in [Node -> SUBSET ReadData]
    BY <2>1 DEF OnLocalReadResponse
  <2>5. toCache' \in [Node -> SUBSET CacheMsg]
    BY <2>1
  <2> QED BY <2>1, <2>3, <2>4, <2>5 DEF OnLocalReadResponse, home, entry, lookups, counts
<1>4. CASE CacheAnswersInvalidate(n)
  <2> DEFINE cached == [toCache EXCEPT ![n] = @ \ {CacheInvalidate}]
  <2>1. PICK attached \in BOOLEAN : OnLocalInvalidateResponse(n, attached, cached)
    BY <1>4 DEF CacheAnswersInvalidate
  <2>2. cached \in [Node -> SUBSET CacheMsg]
    OBVIOUS
  <2> HIDE DEF cached
  <2>3. pendingRemoteInvalidates' \subseteq Node
    BY <2>1 DEF OnLocalInvalidateResponse
  <2>4. CASE n = Home
    <3>1. OnRemoteInvalidateResponse(Home, attached, net, cached)
      BY <2>1, <2>4 DEF OnLocalInvalidateResponse
    <3> QED BY <2>2, <2>3, <3>1, InvalidateResponseTypeOK
  <2>5. CASE n # Home
    <3>1. net' \subseteq NetMsg
      BY <2>1, <2>5, MessagesMade DEF OnLocalInvalidateResponse
    <3> QED BY <2>1, <2>2, <2>3, <2>5, <3>1
            DEF OnLocalInvalidateResponse, home, entry, lookups, counts
  <2> QED BY <2>4, <2>5
<1>5. CASE CacheTakesResponse(n)
  <2>1. toCache' \in [Node -> SUBSET CacheMsg]
    BY <1>5 DEF CacheTakesResponse
  <2> QED BY <1>5, <2>1 DEF CacheTakesResponse, home, local, entry, lookups, counts
<1> QED BY <1>1, <1>2, <1>3, <1>4, <1>5

LEMMA StepTypeOK == TypeOK /\ [Next]_vars => TypeOK'
<1> SUFFICES ASSUME TypeOK, [Next]_vars PROVE TypeOK'
  OBVIOUS
<1>1. CASE \E m \in net : RecvMsg(m)
  BY <1>1, RecvTypeOK
<1>2. CASE \E i \in pendingMemoryReadAccesses : OnLocalMemoryReadResponse(i)
  <2>1. PICK i \in pendingMemoryReadAccesses : OnLocalMemoryReadResponse(i)
    BY <1>2
  <2>2. i \in MsgID /\ pendingMemoryReadAccesses' \subseteq MsgID
    BY <2>1 DEF OnLocalMemoryReadResponse, TypeOK
  <2>3. OnRemoteReadResponse(NoNode, i, TRUE, net)
    BY <2>1 DEF OnLocalMemoryReadResponse
  <2>4. net \in SUBSET NetMsg
    BY DEF TypeOK
  <2> QED BY <2>2, <2>3, <2>4, ReadResponseTypeOK
<1>3. CASE OnLocalMemoryWriteResponse
  BY <1>3 DEF TypeOK, OnLocalMemoryWriteResponse, entry, lookups, counts, local
<1>4. CASE \E n \in Node : \/ CacheReads(n) \/ CacheEvicts(n) \/ CacheAnswersRead(n)
                           \/ CacheAnswersInvalidate(n) \/ CacheTakesResponse(n)
  BY <1>4, CacheTypeOK
<1>5. CASE UNCHANGED vars
  BY <1>5 DEF TypeOK, vars, home, local, entry, lookups, counts
<1> QED BY <1>1, <1>2, <1>3, <1>4, <1>5 DEF Next

(* The tables of the directory and the messages keep their types, whatever  *)
(* handlers run in whatever order.                                          *)
THEOREM TypeCorrect == Spec => []TypeOK
BY InitTypeOK, StepTypeOK, PTL DEF Spec
-----------------------------------------------------------------------------
(* One kind of lookup at a time.  The invariant is inductive: a lookup is   *)
(* only accepted when the table of the other kind is empty, and every other *)
(* handler empties a table or leaves it alone.                              *)

LEMMA StepOneKindOfLookup == OneKindOfLookup /\ [Next]_vars => OneKindOfLookup'
<1> SUFFICES ASSUME OneKindOfLookup, [Next]_vars PROVE OneKindOfLookup'
  OBVIOUS
<1> USE DEF OneKindOfLookup
<1>1. ASSUME NEW m \in net, OnDirectoryBlockRequest(m) PROVE OneKindOfLookup'
  <2>1. CASE RefuseLookup(m)
    BY <2>1 DEF RefuseLookup, home, lookups
  <2>2. CASE AcceptExclusiveLookup(m)
    BY <2>2 DEF AcceptExclusiveLookup, Busy
  <2>3. CASE AcceptSharedLookup(m)
    BY <2>3 DEF AcceptSharedLookup, Busy
  <2> QED BY <1>1, <2>1, <2>2, <2>3 DEF OnDirectoryBlockRequest
<1>2. ASSUME NEW src, NEW i, NEW x, NEW rest, OnRemoteReadResponse(src, i, x, rest)
      PROVE  OneKindOfLookup'
  BY <1>2 DEF OnRemoteReadResponse, AnswerSharedReads, AnswerExclusiveRead,
              InvalidateSharers, lookups
<1>3. ASSUME NEW src, NEW attached, NEW rest, NEW cached,
             OnRemoteInvalidateResponse(src, attached, rest, cached)
      PROVE  OneKindOfLookup'
  <2>1. UNCHANGED pendingDirectorySharedReads
    BY <1>3 DEF OnRemoteInvalidateResponse
  <2>2. \/ pendingDirectoryExclusiveReads' = {}
        \/ UNCHANGED pendingDirectoryExclusiveReads
    BY <1>3 DEF OnRemoteInvalidateResponse
  <2> QED BY <2>1, <2>2
<1>4. ASSUME NEW m \in net, RecvMsg(m), ~OnDirectoryBlockRequest(m) PROVE OneKindOfLookup'
  <2>1. CASE OnFetchReply(m)
    BY <1>2, <2>1 DEF OnFetchReply
  <2>2. CASE OnInvalidateResponse(m)
    BY <1>3, <2>2 DEF OnInvalidateResponse
  <2>3. CASE OnDirectoryBlockResponse(m)
    BY <2>3 DEF OnDirectoryBlockResponse, home, lookups
  <2>4. CASE OnRemoteDirectoryNak(m)
    BY <2>4 DEF OnRemoteDirectoryNak, lookups
  <2>5. CASE OnFetch(m)
    BY <2>5 DEF OnFetch, home, lookups
  <2>6. CASE OnRemoteEviction(m) \/ OnRemoteEvictionResponse(m) \/ OnRemoteInvalidate(m)
    BY <2>6 DEF OnRemoteEviction, OnRemoteEvictionResponse, OnRemoteInvalidate, home, lookups
  <2> QED BY <1>4, <2>1, <2>2, <2>3, <2>4, <2>5, <2>6 DEF RecvMsg
<1>5. ASSUME NEW i \in pendingMemoryReadAccesses, OnLocalMemoryReadResponse(i)
      PROVE  OneKindOfLookup'
  BY <1>2, <1>5 DEF OnLocalMemoryReadResponse
<1>6. CASE OnLocalMemoryWriteResponse
  BY <1>6 DEF OnLocalMemoryWriteResponse, lookups
<1>7. ASSUME NEW n \in Node, CacheAnswersInvalidate(n) PROVE OneKindOfLookup'
  <2>1. PICK attached, cached : OnLocalInvalidateResponse(n, attached, cached)
    BY <1>7 DEF CacheAnswersInvalidate
  <2> QED BY <1>3, <2>1 DEF OnLocalInvalidateResponse, home, lookups
<1>8. ASSUME NEW n \in Node,
             CacheReads(n) \/ CacheEvicts(n) \/ CacheAnswersRead(n) \/ CacheTakesResponse(n)
      PROVE  OneKindOfLookup'
  BY <1>8 DEF CacheReads, CacheEvicts, CacheAnswersRead, CacheTakesResponse, OnLocalRead,
              OnLocalEviction, OnLocalReadResponse, home, lookups
<1>9. CASE UNCHANGED vars
  BY <1>9 DEF vars, home, lookups
<1> QED BY <1>1, <1>4, <1>5, <1>6, <1>7, <1>8, <1>9 DEF Next

(* OnRemoteReadResponse never finds lookups of both kinds, nor two          *)
(* exclusive ones (BIPDirectory.cpp:178-182, 653).                          *)
THEOREM LookupsAreOfOneKind == Spec => []OneKindOfLookup
<1>1. Init => OneKindOfLookup
  BY DEF Init, OneKindOfLookup
<1> QED BY <1>1, StepOneKindOfLookup, PTL DEF Spec
-----------------------------------------------------------------------------
(* The eviction handshake.  Only three handlers touch its messages; what    *)
(* the others do to net is none of its business.                            *)

EvictionTypes == {"Eviction", "EvictionResponse"}

SameEvictions == /\ UNCHANGED pendingEviction
                 /\ \A m : m.type \in EvictionTypes => (m \in net' <=> m \in net)

LEMMA SameEvictionsKeepHandshake == EvictionHandshake /\ SameEvictions => EvictionHandshake'
<1> SUFFICES ASSUME EvictionHandshake, SameEvictions PROVE EvictionHandshake'
  OBVIOUS
<1>1. \A n \in Node : EvictionOf(n) \cap net' = EvictionOf(n) \cap net
  <2>1. \A n \in Node : \A m \in EvictionOf(n) : m.type \in EvictionTypes
    BY DEF EvictionOf, Eviction, EvictionResponse, EvictionTypes
  <2> QED BY <2>1 DEF SameEvictions
<1> QED BY <1>1 DEF EvictionHandshake, SameEvictions

LEMMA FetchSameEvictions ==
  ASSUME NEW pending, NEW x, NEW k, k.type \notin EvictionTypes,
         PerformDirectoryFetch(pending, x, net \ {k})
  PROVE  \A m : m.type \in EvictionTypes => (m \in net' <=> m \in net)
BY DEF PerformDirectoryFetch, Fetch, EvictionTypes

LEMMA RespondSameEvictions ==
  ASSUME NEW P, NEW x, NEW rest, Respond(P, x, rest)
  PROVE  \A m : m.type \in EvictionTypes => (m \in net' <=> m \in rest)
BY DEF Respond, Reply, EvictionTypes

LEMMA ReadResponseSameEvictions ==
  ASSUME NEW src, NEW i, NEW x, NEW rest, OnRemoteReadResponse(src, i, x, rest)
  PROVE  \A m : m.type \in EvictionTypes => (m \in net' <=> m \in rest)
<1> DEFINE o == IF x /\ owner = src THEN NoNode ELSE owner
           S == IF x /\ owner # src THEN sharers \ {src} ELSE sharers
<1>1. \/ AnswerSharedReads(o, S, rest)
      \/ AnswerExclusiveRead(o, S, i, x, rest)
      \/ InvalidateSharers(o, S, rest)
  BY DEF OnRemoteReadResponse
<1> HIDE DEF o, S
<1>2. CASE AnswerSharedReads(o, S, rest)
  BY <1>2, RespondSameEvictions DEF AnswerSharedReads
<1>3. CASE AnswerExclusiveRead(o, S, i, x, rest)
  BY <1>3, RespondSameEvictions DEF AnswerExclusiveRead
<1>4. CASE InvalidateSharers(o, S, rest)
  BY <1>4 DEF InvalidateSharers, Invalidate, EvictionTypes
<1> QED BY <1>1, <1>2, <1>3, <1>4

LEMMA InvalidateResponseSameEvictions ==
  ASSUME NEW src, NEW attached, NEW rest, NEW cached,
         OnRemoteInvalidateResponse(src, attached, rest, cached)
  PROVE  \A m : m.type \in EvictionTypes => (m \in net' <=> m \in rest)
<1>1. PICK p : net' = rest \/ net' = rest \cup {Reply(p.src, p.id, TRUE, TRUE)}
  BY DEF OnRemoteInvalidateResponse
<1> QED BY <1>1 DEF Reply, EvictionTypes

LEMMA StepEvictionHandshake == TypeOK /\ EvictionHandshake /\ [Next]_vars => EvictionHandshake'
<1> SUFFICES ASSUME TypeOK, EvictionHandshake, [Next]_vars PROVE EvictionHandshake'
  OBVIOUS
<1>1. ASSUME NEW n \in Node, CacheEvicts(n) PROVE EvictionHandshake'
  <2>1. PICK attached \in BOOLEAN : OnLocalEviction(n, attached)
    BY <1>1 DEF CacheEvicts
  <2>2. CASE n \in pendingEviction \/ n = Home
    BY <2>1, <2>2, SameEvictionsKeepHandshake DEF OnLocalEviction, SameEvictions
  <2>3. CASE n \notin pendingEviction /\ n # Home
    <3>1. net' = net \cup {Eviction(n, attached)} /\ pendingEviction' = pendingEviction \cup {n}
      BY <2>1, <2>3 DEF OnLocalEviction
    <3>2. EvictionOf(n) \cap net' = {Eviction(n, attached)}
      BY <2>3, <3>1 DEF EvictionHandshake, EvictionOf
    <3>3. ASSUME NEW k \in Node, k # n
          PROVE  EvictionOf(k) \cap net' = EvictionOf(k) \cap net
      BY <3>1, <3>3 DEF EvictionOf, Eviction, EvictionResponse
    <3> QED BY <3>1, <3>2, <3>3 DEF EvictionHandshake
  <2> QED BY <2>2, <2>3
<1>2. ASSUME NEW m \in net, OnRemoteEviction(m) PROVE EvictionHandshake'
  <2>1. m \in NetMsg /\ m.type = "Eviction"
    BY <1>2 DEF OnRemoteEviction, TypeOK
  <2>2. m.src \in Node /\ m = Eviction(m.src, m.blockAttached) /\ m.blockAttached \in BOOLEAN
    BY <2>1 DEF NetMsg, Eviction
  <2>3. /\ net' = (net \ {m}) \cup {EvictionResponse(m.src)}
        /\ pendingEviction' = pendingEviction
    BY <1>2 DEF OnRemoteEviction, local
  <2>4. m \in EvictionOf(m.src) /\ EvictionOf(m.src) \cap net = {m} /\ m.src \in pendingEviction
    BY <2>2 DEF EvictionHandshake, EvictionOf
  <2>5. EvictionOf(m.src) \cap net' = {EvictionResponse(m.src)}
    BY <2>3, <2>4 DEF EvictionOf
  <2>6. ASSUME NEW k \in Node, k # m.src
        PROVE  EvictionOf(k) \cap net' = EvictionOf(k) \cap net
    BY <2>2, <2>3, <2>6 DEF EvictionOf, Eviction, EvictionResponse
  <2> QED BY <2>2, <2>3, <2>4, <2>5, <2>6 DEF EvictionHandshake
<1>3. ASSUME NEW m \in net, OnRemoteEvictionResponse(m) PROVE EvictionHandshake'
  <2>1. m \in NetMsg /\ m.type = "EvictionResponse"
    BY <1>3 DEF OnRemoteEvictionResponse, TypeOK
  <2>2. m.dst \in Node /\ m = EvictionResponse(m.dst)
    BY <2>1 DEF NetMsg, EvictionResponse
  <2>3. net' = net \ {m} /\ pendingEviction' = pendingEviction \ {m.dst}
    BY <1>3 DEF OnRemoteEvictionResponse
  <2>4. m \in EvictionOf(m.dst) /\ EvictionOf(m.dst) \cap net = {m}
    BY <2>2 DEF EvictionHandshake, EvictionOf
  <2>5. EvictionOf(m.dst) \cap net' = {}
    BY <2>3, <2>4
  <2>6. ASSUME NEW k \in Node, k # m.dst
        PROVE  EvictionOf(k) \cap net' = EvictionOf(k) \cap net
    BY <2>2, <2>3, <2>6 DEF EvictionOf, Eviction, EvictionResponse
  <2> QED BY <2>2, <2>3, <2>5, <2>6 DEF EvictionHandshake
<1>4. ASSUME NEW m \in net, OnDirectoryBlockRequest(m) PROVE EvictionHandshake'
  <2>1. m.type = "Lookup" /\ UNCHANGED pendingEviction
    BY <1>4 DEF OnDirectoryBlockRequest, RefuseLookup, AcceptExclusiveLookup,
                AcceptSharedLookup, local
  <2>2. CASE RefuseLookup(m)
    BY <2>1, <2>2, SameEvictionsKeepHandshake
       DEF RefuseLookup, SameEvictions, Reply, EvictionTypes
  <2>3. CASE AcceptExclusiveLookup(m)
    <3>1. PerformDirectoryFetch(pendingDirectoryExclusiveReads', TRUE, net \ {m})
      BY <2>3 DEF AcceptExclusiveLookup
    <3>2. m.type \notin EvictionTypes
      BY <2>1 DEF EvictionTypes
    <3>3. \A k : k.type \in EvictionTypes => (k \in net' <=> k \in net)
      BY <3>1, <3>2, FetchSameEvictions
    <3> QED BY <2>1, <3>3, SameEvictionsKeepHandshake DEF SameEvictions
  <2>4. CASE AcceptSharedLookup(m)
    <3>1. \/ PerformDirectoryFetch(pendingDirectorySharedReads', FALSE, net \ {m})
          \/ net' = net \ {m}
      BY <2>4 DEF AcceptSharedLookup
    <3>2. m.type \notin EvictionTypes
      BY <2>1 DEF EvictionTypes
    <3>3. \A k : k.type \in EvictionTypes => (k \in net' <=> k \in net)
      BY <3>1, <3>2, FetchSameEvictions
    <3> QED BY <2>1, <3>3, SameEvictionsKeepHandshake DEF SameEvictions
  <2> QED BY <1>4, <2>2, <2>3, <2>4 DEF OnDirectoryBlockRequest
<1>5. ASSUME NEW m \in net, OnRemoteDirectoryNak(m) PROVE EvictionHandshake'
  <2>1. m.type \notin EvictionTypes /\ UNCHANGED pendingEviction
    BY <1>5 DEF OnRemoteDirectoryNak, EvictionTypes
  <2>2. \/ PerformDirectoryFetch(pendingDirectorySharedReads, FALSE, net \ {m})
        \/ PerformDirectoryFetch(pendingDirectoryExclusiveReads, TRUE, net \ {m})
        \/ net' = net \ {m}
    BY <1>5 DEF OnRemoteDirectoryNak
  <2>3. \A k : k.type \in EvictionTypes => (k \in net' <=> k \in net)
    BY <2>1, <2>2, FetchSameEvictions
  <2> QED BY <2>1, <2>3, SameEvictionsKeepHandshake DEF SameEvictions
<1>6. ASSUME NEW m \in net,
             OnDirectoryBlockResponse(m) \/ OnFetch(m) \/ OnRemoteInvalidate(m)
      PROVE  EvictionHandshake'
  BY <1>6, SameEvictionsKeepHandshake
     DEF OnDirectoryBlockResponse, OnFetch, OnRemoteInvalidate, SameEvictions, EvictionTypes,
         Lookup
<1>7. ASSUME NEW m \in net, OnFetchReply(m) PROVE EvictionHandshake'
  <2>1. \A k : k.type \in EvictionTypes => (k \in net' <=> k \in net \ {m})
    BY <1>7, ReadResponseSameEvictions DEF OnFetchReply
  <2>2. m.type \notin EvictionTypes /\ UNCHANGED pendingEviction
    BY <1>7 DEF OnFetchReply, OnRemoteReadResponse, EvictionTypes
  <2> QED BY <2>1, <2>2, SameEvictionsKeepHandshake DEF SameEvictions
<1>8. ASSUME NEW m \in net, OnInvalidateResponse(m) PROVE EvictionHandshake'
  <2>1. \A k : k.type \in EvictionTypes => (k \in net' <=> k \in net \ {m})
    BY <1>8, InvalidateResponseSameEvictions DEF OnInvalidateResponse
  <2>2. m.type \notin EvictionTypes /\ UNCHANGED pendingEviction
    BY <1>8 DEF OnInvalidateResponse, OnRemoteInvalidateResponse, EvictionTypes
  <2> QED BY <2>1, <2>2, SameEvictionsKeepHandshake DEF SameEvictions
<1>9. ASSUME NEW i \in pendingMemoryReadAccesses, OnLocalMemoryReadResponse(i)
      PROVE  EvictionHandshake'
  <2>1. \A k : k.type \in EvictionTypes => (k \in net' <=> k \in net)
    BY <1>9, ReadResponseSameEvictions DEF OnLocalMemoryReadResponse
  <2>2. UNCHANGED pendingEviction
    BY <1>9 DEF OnLocalMemoryReadResponse, OnRemoteReadResponse
  <2> QED BY <2>1, <2>2, SameEvictionsKeepHandshake DEF SameEvictions
<1>10. CASE OnLocalMemoryWriteResponse
  BY <1>10, SameEvictionsKeepHandshake DEF OnLocalMemoryWriteResponse, SameEvictions, local
<1>11. ASSUME NEW n \in Node, CacheAnswersInvalidate(n) PROVE EvictionHandshake'
  <2> DEFINE cached == [toCache EXCEPT ![n] = @ \ {CacheInvalidate}]
  <2>1. PICK attached \in BOOLEAN : OnLocalInvalidateResponse(n, attached, cached)
    BY <1>11 DEF CacheAnswersInvalidate
  <2> HIDE DEF cached
  <2>2. CASE n = Home
    <3>1. \A k : k.type \in EvictionTypes => (k \in net' <=> k \in net)
      BY <2>1, <2>2, InvalidateResponseSameEvictions DEF OnLocalInvalidateResponse
    <3>2. UNCHANGED pendingEviction
      BY <2>1, <2>2 DEF OnLocalInvalidateResponse, OnRemoteInvalidateResponse
    <3> QED BY <3>1, <3>2, SameEvictionsKeepHandshake DEF SameEvictions
  <2>3. CASE n # Home
    BY <2>1, <2>3, SameEvictionsKeepHandshake
       DEF OnLocalInvalidateResponse, InvalidateResponse, SameEvictions, EvictionTypes
  <2> QED BY <2>2, <2>3
<1>12. ASSUME NEW n \in Node, CacheReads(n) \/ CacheAnswersRead(n) \/ CacheTakesResponse(n)
       PROVE  EvictionHandshake'
  <2>1. CASE CacheReads(n)
    BY <2>1, SameEvictionsKeepHandshake
       DEF CacheReads, OnLocalRead, Lookup, SameEvictions, EvictionTypes
  <2>2. CASE CacheAnswersRead(n)
    <3> DEFINE Read(m) == [id |-> m.id, exclusive |-> m.exclusive]
    <3>1. PICK m \in toCache[n], satisfied \in BOOLEAN :
            OnLocalReadResponse(n, Read(m), satisfied)
      BY <2>2 DEF CacheAnswersRead
    <3> DEFINE r == Read(m)
    <3> HIDE DEF Read
    <3>2. \/ net' = net \cup {FetchReply(n, r.id, r.exclusive)}
          \/ net' = net \cup {DirectoryNak(n)}
      BY <3>1 DEF OnLocalReadResponse
    <3> QED BY <3>1, <3>2, SameEvictionsKeepHandshake
            DEF OnLocalReadResponse, FetchReply, DirectoryNak, SameEvictions, EvictionTypes
  <2>3. CASE CacheTakesResponse(n)
    BY <2>3, SameEvictionsKeepHandshake DEF CacheTakesResponse, local, SameEvictions
  <2> QED BY <1>12, <2>1, <2>2, <2>3
<1>13. CASE UNCHANGED vars
  BY <1>13, SameEvictionsKeepHandshake DEF vars, local, SameEvictions
<1> QED BY <1>1, <1>2, <1>3, <1>4, <1>5, <1>6, <1>7, <1>8, <1>9, <1>10, <1>11, <1>12, <1>13
        DEF Next, RecvMsg

(* A node has an eviction pending exactly while one message of it is in     *)
(* flight, so OnRemoteEvictionResponse finds it (BIPDirectory.cpp:995).     *)
THEOREM EvictionsAreTracked == Spec => []EvictionHandshake
<1>1. Init => EvictionHandshake
  BY DEF Init, EvictionHandshake
<1> QED BY <1>1, InitTypeOK, StepTypeOK, StepEvictionHandshake, PTL DEF Spec
-----------------------------------------------------------------------------
(* What a fetch is made of, and what a round is made of.                    *)

FetchTypes == {"Fetch", "FetchReply", "DirectoryNak"}
RoundTypes == {"Invalidate", "InvalidateResponse"}

NoMsgOf(types, M) == \A m \in M : m.type \notin types
SameMsgsOf(types, M) == \A m : m.type \in types => (m \in net' <=> m \in M)

NoneAtCaches == \A n \in Node : pendingRemoteReads[n] = {}

NoFetch == NoMsgOf(FetchTypes, net) /\ NoneAtCaches /\ pendingMemoryReadAccesses = {}

OnlyMsg(m) ==
  /\ m \in net /\ m.type \in FetchTypes
  /\ NoMsgOf(FetchTypes, net \ {m}) /\ NoneAtCaches /\ pendingMemoryReadAccesses = {}

OnlyAtCache(n, r) ==
  /\ pendingRemoteReads[n] = {r} /\ \A k \in Node \ {n} : pendingRemoteReads[k] = {}
  /\ NoMsgOf(FetchTypes, net) /\ pendingMemoryReadAccesses = {}

OnlyAtMemory(i) ==
  pendingMemoryReadAccesses = {i} /\ NoMsgOf(FetchTypes, net) /\ NoneAtCaches

(* The fetch numbered i asks node n for the lookups that wait.              *)
IsFor(n, i, x) ==
  /\ owner \in {NoNode, n}
  /\ x <=> pendingDirectoryExclusiveReads # {}
  /\ \A p \in pendingDirectoryExclusiveReads : p.id = i

IsForMemory(i) ==
  /\ owner = NoNode /\ sharers = {}
  /\ \A p \in pendingDirectoryExclusiveReads : p.id = i

Fetching ==
  \/ \E m \in net : OnlyMsg(m) /\ m.type = "Fetch" /\ IsFor(m.dst, m.id, m.exclusive)
  \/ \E m \in net : OnlyMsg(m) /\ m.type = "FetchReply" /\ IsFor(m.src, m.id, m.exclusive)
  \/ \E m \in net : OnlyMsg(m) /\ m.type = "DirectoryNak"
  \/ \E n \in Node, r \in ReadData : OnlyAtCache(n, r) /\ IsFor(n, r.id, r.exclusive)
  \/ \E i \in MsgID : OnlyAtMemory(i) /\ IsForMemory(i)

Phase ==
  \/ Pending = {} /\ NoFetch /\ Invalidating = {}
  \/ Pending # {} /\ Fetching /\ Invalidating = {}
  \/ Pending # {} /\ NoFetch /\ Invalidating # {}

PhaseInv == TypeOK /\ OneKindOfLookup /\ Phase /\ InvalidationRound
-----------------------------------------------------------------------------
(* Phase says what OneFetch and FetchMatchesLookup say.                     *)

LEMMA NoFetchIsNone == NoFetch => Fetches = {}
BY DEF NoFetch, NoMsgOf, NoneAtCaches, FetchTypes, Fetches

LEMMA OneFetchOnly ==
  ASSUME Fetching
  PROVE  \E f : /\ Fetches = {f}
                /\ f.at = "memory" => owner = NoNode /\ sharers = {}
                /\ f.at \in {"sent", "cache", "answered"} =>
                     /\ owner \in {NoNode, f.from}
                     /\ f.exclusive <=> pendingDirectoryExclusiveReads # {}
                /\ f.at # "refused" => \A p \in pendingDirectoryExclusiveReads : p.id = f.id
<1> DEFINE Sent(m)     == [at |-> "sent", from |-> m.dst, id |-> m.id, exclusive |-> m.exclusive]
           Cached(n, r) == [at |-> "cache", from |-> n, id |-> r.id, exclusive |-> r.exclusive]
           Answered(m) == [at |-> "answered", from |-> m.src, id |-> m.id, exclusive |-> m.exclusive]
           Refused(m)  == [at |-> "refused", from |-> m.src]
           Memory(i)   == [at |-> "memory", id |-> i]
<1>0. \A f : f \in Fetches <=>
        \/ \E m \in net : m.type = "Fetch" /\ f = Sent(m)
        \/ \E n \in Node : \E r \in pendingRemoteReads[n] : f = Cached(n, r)
        \/ \E m \in net : m.type = "FetchReply" /\ f = Answered(m)
        \/ \E m \in net : m.type = "DirectoryNak" /\ f = Refused(m)
        \/ \E i \in pendingMemoryReadAccesses : f = Memory(i)
  <2> DEFINE S == {Sent(m) : m \in {k \in net : k.type = "Fetch"}}
             C == UNION {{Cached(n, r) : r \in pendingRemoteReads[n]} : n \in Node}
             A == {Answered(m) : m \in {k \in net : k.type = "FetchReply"}}
             R == {Refused(m) : m \in {k \in net : k.type = "DirectoryNak"}}
             M == {Memory(i) : i \in pendingMemoryReadAccesses}
  <2>1. Fetches = S \cup C \cup A \cup R \cup M
    BY Zenon DEF Fetches
  <2> HIDE DEF Sent, Cached, Answered, Refused, Memory
  <2>2. \A f : f \in C <=> \E n \in Node : \E r \in pendingRemoteReads[n] : f = Cached(n, r)
    OBVIOUS
  <2>3. \A f : f \in S <=> \E m \in net : m.type = "Fetch" /\ f = Sent(m)
    OBVIOUS
  <2>4. \A f : f \in A <=> \E m \in net : m.type = "FetchReply" /\ f = Answered(m)
    OBVIOUS
  <2>5. \A f : f \in R <=> \E m \in net : m.type = "DirectoryNak" /\ f = Refused(m)
    OBVIOUS
  <2>6. \A f : f \in M <=> \E i \in pendingMemoryReadAccesses : f = Memory(i)
    OBVIOUS
  <2> HIDE DEF S, C, A, R, M
  <2>7. \A f : f \in Fetches <=> f \in S \/ f \in C \/ f \in A \/ f \in R \/ f \in M
    BY <2>1
  <2> QED BY Zenon, <2>2, <2>3, <2>4, <2>5, <2>6, <2>7
<1> HIDE DEF Sent, Cached, Answered, Refused, Memory
<1>1. ASSUME NEW m \in net, OnlyMsg(m)
      PROVE  /\ m.type = "Fetch" => Fetches = {Sent(m)}
             /\ m.type = "FetchReply" => Fetches = {Answered(m)}
             /\ m.type = "DirectoryNak" => Fetches = {Refused(m)}
  BY <1>0, <1>1 DEF OnlyMsg, NoMsgOf, NoneAtCaches, FetchTypes
<1>4. ASSUME NEW n \in Node, NEW r \in ReadData, OnlyAtCache(n, r)
      PROVE  Fetches = {Cached(n, r)}
  BY <1>0, <1>4 DEF OnlyAtCache, NoMsgOf, FetchTypes
<1>5. ASSUME NEW i \in MsgID, OnlyAtMemory(i)
      PROVE  Fetches = {Memory(i)}
  BY <1>0, <1>5 DEF OnlyAtMemory, NoMsgOf, NoneAtCaches, FetchTypes
<1>6. CASE \E m \in net : OnlyMsg(m) /\ m.type = "Fetch" /\ IsFor(m.dst, m.id, m.exclusive)
  <2>1. PICK m \in net : OnlyMsg(m) /\ m.type = "Fetch" /\ IsFor(m.dst, m.id, m.exclusive)
    BY <1>6
  <2> WITNESS Sent(m)
  <2> QED BY <2>1, <1>1 DEF IsFor, Sent
<1>7. CASE \E m \in net : OnlyMsg(m) /\ m.type = "FetchReply" /\ IsFor(m.src, m.id, m.exclusive)
  <2>1. PICK m \in net : OnlyMsg(m) /\ m.type = "FetchReply" /\ IsFor(m.src, m.id, m.exclusive)
    BY <1>7
  <2> WITNESS Answered(m)
  <2> QED BY <2>1, <1>1 DEF IsFor, Answered
<1>8. CASE \E m \in net : OnlyMsg(m) /\ m.type = "DirectoryNak"
  <2>1. PICK m \in net : OnlyMsg(m) /\ m.type = "DirectoryNak"
    BY <1>8
  <2> WITNESS Refused(m)
  <2> QED BY <2>1, <1>1 DEF Refused
<1>9. CASE \E n \in Node, r \in ReadData : OnlyAtCache(n, r) /\ IsFor(n, r.id, r.exclusive)
  <2>1. PICK n \in Node, r \in ReadData : OnlyAtCache(n, r) /\ IsFor(n, r.id, r.exclusive)
    BY <1>9
  <2> WITNESS Cached(n, r)
  <2> QED BY <2>1, <1>4 DEF IsFor, Cached
<1>10. CASE \E i \in MsgID : OnlyAtMemory(i) /\ IsForMemory(i)
  <2>1. PICK i \in MsgID : OnlyAtMemory(i) /\ IsForMemory(i)
    BY <1>10
  <2> WITNESS Memory(i)
  <2> QED BY <2>1, <1>5 DEF IsForMemory, Memory
<1> QED BY <1>6, <1>7, <1>8, <1>9, <1>10 DEF Fetching

LEMMA PhaseSuffices == Phase => OneFetch /\ FetchMatchesLookup
<1> SUFFICES ASSUME Phase PROVE OneFetch /\ FetchMatchesLookup
  OBVIOUS
<1>1. CASE NoFetch
  <2>1. Fetches = {}
    BY <1>1, NoFetchIsNone
  <2>2. ~Fetching \/ Fetching
    OBVIOUS
  <2>3. Pending # {} /\ Fetching /\ Invalidating = {} => FALSE
    <3> SUFFICES ASSUME Fetching PROVE FALSE
      OBVIOUS
    <3> QED BY <2>1, OneFetchOnly
  <2> QED BY <1>1, <2>1, <2>3 DEF Phase, OneFetch, FetchMatchesLookup
<1>2. CASE Pending # {} /\ Fetching /\ Invalidating = {}
  <2>1. PICK f : /\ Fetches = {f}
                 /\ f.at = "memory" => owner = NoNode /\ sharers = {}
                 /\ f.at \in {"sent", "cache", "answered"} =>
                      /\ owner \in {NoNode, f.from}
                      /\ f.exclusive <=> pendingDirectoryExclusiveReads # {}
                 /\ f.at # "refused" => \A p \in pendingDirectoryExclusiveReads : p.id = f.id
    BY <1>2, OneFetchOnly
  <2> QED BY <1>2, <2>1 DEF OneFetch, FetchMatchesLookup
<1> QED BY <1>1, <1>2 DEF Phase

LEMMA InitPhaseInv == Init => PhaseInv
<1> SUFFICES ASSUME Init PROVE PhaseInv
  OBVIOUS
<1>1. Invalidating = {}
  BY DEF Init, Invalidating
<1>2. Phase
  BY <1>1 DEF Init, Phase, Pending, NoFetch, NoMsgOf, NoneAtCaches
<1>3. Cardinality(Invalidating) = 0
  BY <1>1, FS_EmptySet
<1>4. InvalidationRound
  BY <1>1, <1>3 DEF Init, InvalidationRound
<1>5. OneKindOfLookup
  BY DEF Init, OneKindOfLookup
<1> QED BY <1>2, <1>4, <1>5, InitTypeOK DEF PhaseInv
-----------------------------------------------------------------------------
(* Frames.                                                                  *)

LEMMA SameRound ==
  ASSUME SameMsgsOf(RoundTypes, net), UNCHANGED pendingRemoteInvalidates
  PROVE  /\ Invalidating' = Invalidating
         /\ \A n \in Node : InvalidationOf(n) \cap net' = InvalidationOf(n) \cap net
<1>1. \A n \in Node : \A m \in InvalidationOf(n) : m.type \in RoundTypes
  BY DEF InvalidationOf, Invalidate, InvalidateResponse, RoundTypes
<1>2. \A n \in Node : InvalidationOf(n) \cap net' = InvalidationOf(n) \cap net
  BY <1>1 DEF SameMsgsOf
<1>3. \A n \in Node : InvalidationOf(n)' = InvalidationOf(n)
  BY DEF InvalidationOf
<1> QED BY <1>2, <1>3 DEF Invalidating

(* A step that leaves the round and the lookups alone, and the entry but for *)
(* nodes that drop out of it.                                               *)
LEMMA SameRoundKeeps ==
  ASSUME InvalidationRound, TypeOK,
         SameMsgsOf(RoundTypes, net), UNCHANGED <<pendingRemoteInvalidates, counts>>,
         Invalidating # {} => /\ UNCHANGED pendingDirectoryExclusiveReads
                              /\ owner' \in {owner, NoNode} /\ sharers' \subseteq sharers
  PROVE  InvalidationRound' /\ Invalidating' = Invalidating
<1>1. /\ Invalidating' = Invalidating
      /\ \A n \in Node : InvalidationOf(n) \cap net' = InvalidationOf(n) \cap net
  BY SameRound
<1>2. /\ invalidateResponsesReceived' = invalidateResponsesReceived
      /\ invalidateResponsesExpected' = invalidateResponsesExpected
  BY DEF counts
<1>3. \A n \in Node : InvalidationOf(n)' = InvalidationOf(n)
  BY DEF InvalidationOf
<1>4. (invalidateResponsesReceived + Cardinality(Invalidating) = invalidateResponsesExpected)'
  BY <1>1, <1>2 DEF InvalidationRound
<1>5. Invalidating' # {} => /\ pendingDirectoryExclusiveReads' # {} /\ owner' = NoNode
                            /\ sharers' \subseteq Invalidating'
  BY <1>1 DEF InvalidationRound
<1>6. \A n \in Node : \A m \in InvalidationOf(n)' \cap net' :
        n \notin pendingRemoteInvalidates' /\ InvalidationOf(n)' \cap net' = {m}
  BY <1>1, <1>3 DEF InvalidationRound
<1> QED BY <1>1, <1>4, <1>5, <1>6 DEF InvalidationRound

LEMMA SameFetch ==
  ASSUME SameMsgsOf(FetchTypes, net), UNCHANGED <<pendingRemoteReads, pendingMemoryReadAccesses>>
  PROVE  /\ NoFetch => NoFetch'
         /\ \A m : OnlyMsg(m) => OnlyMsg(m)' /\ m \in net'
         /\ \A n, r : OnlyAtCache(n, r) => OnlyAtCache(n, r)'
         /\ \A i : OnlyAtMemory(i) => OnlyAtMemory(i)'
BY DEF SameMsgsOf, NoFetch, OnlyMsg, OnlyAtCache, OnlyAtMemory, NoMsgOf, NoneAtCaches

LEMMA SameFetching ==
  ASSUME Fetching,
         SameMsgsOf(FetchTypes, net), UNCHANGED <<pendingRemoteReads, pendingMemoryReadAccesses>>,
         (pendingDirectoryExclusiveReads' = {} <=> pendingDirectoryExclusiveReads = {}),
         pendingDirectoryExclusiveReads' \subseteq pendingDirectoryExclusiveReads,
         owner' \in {owner, NoNode}, sharers' \subseteq sharers
  PROVE  Fetching'
<1>1. \A n, i, x : IsFor(n, i, x) => IsFor(n, i, x)'
  BY DEF IsFor
<1>2. \A i : IsForMemory(i) => IsForMemory(i)'
  BY DEF IsForMemory
<1>3. CASE \E m \in net : OnlyMsg(m) /\ m.type = "Fetch" /\ IsFor(m.dst, m.id, m.exclusive)
  BY <1>1, <1>3, SameFetch DEF Fetching
<1>4. CASE \E m \in net : OnlyMsg(m) /\ m.type = "FetchReply" /\ IsFor(m.src, m.id, m.exclusive)
  BY <1>1, <1>4, SameFetch DEF Fetching
<1>5. CASE \E m \in net : OnlyMsg(m) /\ m.type = "DirectoryNak"
  BY <1>5, SameFetch DEF Fetching
<1>6. CASE \E n \in Node, r \in ReadData : OnlyAtCache(n, r) /\ IsFor(n, r.id, r.exclusive)
  BY <1>1, <1>6, SameFetch DEF Fetching
<1>7. CASE \E i \in MsgID : OnlyAtMemory(i) /\ IsForMemory(i)
  BY <1>2, <1>7, SameFetch DEF Fetching
<1> QED BY <1>3, <1>4, <1>5, <1>6, <1>7 DEF Fetching

(* A step that touches neither fetches nor rounds nor lookups.              *)
Quiet ==
  /\ SameMsgsOf(FetchTypes \cup RoundTypes, net)
  /\ UNCHANGED <<pendingRemoteReads, pendingMemoryReadAccesses, pendingRemoteInvalidates, lookups, counts>>
  /\ owner' \in {owner, NoNode} /\ sharers' \subseteq sharers

LEMMA QuietKeepsPhase ==
  ASSUME PhaseInv, Quiet
  PROVE  Phase' /\ InvalidationRound'
<1>1. SameMsgsOf(FetchTypes, net) /\ SameMsgsOf(RoundTypes, net)
  BY DEF Quiet, SameMsgsOf
<1>2. Pending' = Pending /\ UNCHANGED pendingDirectoryExclusiveReads
  BY DEF Quiet, lookups, Pending
<1>3. InvalidationRound' /\ Invalidating' = Invalidating
  BY <1>1, <1>2, SameRoundKeeps DEF Quiet, PhaseInv
<1>4. NoFetch => NoFetch'
  BY <1>1, SameFetch DEF Quiet
<1>5. Fetching => Fetching'
  BY <1>1, <1>2, SameFetching DEF Quiet
<1> QED BY <1>2, <1>3, <1>4, <1>5 DEF Phase, PhaseInv
-----------------------------------------------------------------------------
(* The one fetch.                                                           *)

(* A message of a fetch is all there is of fetches.                         *)
LEMMA OnlyOneMsg ==
  ASSUME Phase, NEW m \in net, m.type \in FetchTypes
  PROVE  /\ Pending # {} /\ Fetching /\ Invalidating = {} /\ OnlyMsg(m)
         /\ m.type = "Fetch" => IsFor(m.dst, m.id, m.exclusive)
         /\ m.type = "FetchReply" => IsFor(m.src, m.id, m.exclusive)
<1>1. ~NoFetch
  BY DEF NoFetch, NoMsgOf
<1>2. Pending # {} /\ Fetching /\ Invalidating = {}
  BY <1>1 DEF Phase
<1>3. ASSUME NEW k \in net, OnlyMsg(k) PROVE k = m
  BY <1>3 DEF OnlyMsg, NoMsgOf
<1>4. /\ \A n \in Node, r \in ReadData : ~OnlyAtCache(n, r)
      /\ \A i \in MsgID : ~OnlyAtMemory(i)
  BY DEF OnlyAtCache, OnlyAtMemory, NoMsgOf
<1>5. \/ \E k \in net : OnlyMsg(k) /\ k.type = "Fetch" /\ IsFor(k.dst, k.id, k.exclusive)
      \/ \E k \in net : OnlyMsg(k) /\ k.type = "FetchReply" /\ IsFor(k.src, k.id, k.exclusive)
      \/ \E k \in net : OnlyMsg(k) /\ k.type = "DirectoryNak"
  BY <1>2, <1>4 DEF Fetching
<1> QED BY <1>2, <1>3, <1>5

(* So is a fetch at a cache.                                                *)
LEMMA OnlyOneAtCache ==
  ASSUME Phase, NEW n \in Node, NEW r \in pendingRemoteReads[n]
  PROVE  /\ Pending # {} /\ Fetching /\ Invalidating = {}
         /\ r \in ReadData /\ OnlyAtCache(n, r) /\ IsFor(n, r.id, r.exclusive)
<1>1. ~NoFetch /\ ~NoneAtCaches
  BY DEF NoFetch, NoneAtCaches
<1>2. Pending # {} /\ Fetching /\ Invalidating = {}
  BY <1>1 DEF Phase
<1>3. /\ \A m \in net : ~OnlyMsg(m)
      /\ \A i \in MsgID : ~OnlyAtMemory(i)
  BY <1>1 DEF OnlyMsg, OnlyAtMemory
<1>4. PICK k \in Node, q \in ReadData : OnlyAtCache(k, q) /\ IsFor(k, q.id, q.exclusive)
  BY <1>2, <1>3 DEF Fetching
<1>5. k = n /\ q = r
  BY <1>4 DEF OnlyAtCache
<1> QED BY <1>2, <1>4, <1>5

(* And a read at the memory.                                                *)
LEMMA OnlyOneAtMemory ==
  ASSUME Phase, NEW i \in pendingMemoryReadAccesses
  PROVE  /\ Pending # {} /\ Fetching /\ Invalidating = {}
         /\ OnlyAtMemory(i) /\ IsForMemory(i)
<1>1. ~NoFetch
  BY DEF NoFetch
<1>2. Pending # {} /\ Fetching /\ Invalidating = {}
  BY <1>1 DEF Phase
<1>3. /\ \A m \in net : ~OnlyMsg(m)
      /\ \A n \in Node, r \in ReadData : ~OnlyAtCache(n, r)
  BY DEF OnlyMsg, OnlyAtCache
<1>4. PICK k \in MsgID : OnlyAtMemory(k) /\ IsForMemory(k)
  BY <1>2, <1>3 DEF Fetching
<1>5. k = i
  BY <1>4 DEF OnlyAtMemory
<1> QED BY <1>2, <1>4, <1>5

(* What the next state has to have for Fetching.                            *)
LEMMA NextIsFetching ==
  /\ \A m \in net' : OnlyMsg(m)' /\ m.type = "Fetch" /\ IsFor(m.dst, m.id, m.exclusive)' => Fetching'
  /\ \A m \in net' : OnlyMsg(m)' /\ m.type = "FetchReply" /\ IsFor(m.src, m.id, m.exclusive)' => Fetching'
  /\ \A m \in net' : OnlyMsg(m)' /\ m.type = "DirectoryNak" => Fetching'
  /\ \A n \in Node, r \in ReadData : OnlyAtCache(n, r)' /\ IsFor(n, r.id, r.exclusive)' => Fetching'
  /\ \A i \in MsgID : OnlyAtMemory(i)' /\ IsForMemory(i)' => Fetching'
BY DEF Fetching

(* PerformDirectoryFetch, called while there is no fetch, makes the one.    *)
LEMMA FetchBegins ==
  ASSUME TypeOK,
         NEW pending \in SUBSET LookupData, NEW x \in BOOLEAN, NEW rest \in SUBSET NetMsg,
         PerformDirectoryFetch(pending, x, rest),
         NoMsgOf(FetchTypes, rest), NoneAtCaches, pendingMemoryReadAccesses = {},
         UNCHANGED entry,
         x <=> pendingDirectoryExclusiveReads' # {},
         x => pending = pendingDirectoryExclusiveReads',
         \A p, q \in pendingDirectoryExclusiveReads' : p = q
  PROVE  Fetching'
<1> DEFINE FromNode(p, target) ==
             /\ net' = rest \cup {Fetch(target, p.id, x)}
             /\ UNCHANGED <<pendingRemoteReads, pendingMemoryReadAccesses, toCache>>
           FromHome(p) ==
             /\ OnRemoteReadCache(Home, p.id, x)
             /\ net' = rest
             /\ UNCHANGED pendingMemoryReadAccesses
           FromMemory(p) ==
             /\ pendingMemoryReadAccesses' = pendingMemoryReadAccesses \cup {p.id}
             /\ net' = rest
             /\ UNCHANGED <<pendingRemoteReads, toCache>>
<1>1. PICK p \in pending :
        \/ \E target \in FetchTargets \ {Home} : FromNode(p, target)
        \/ Home \in FetchTargets /\ FromHome(p)
        \/ FetchTargets = {} /\ FromMemory(p)
  BY DEF PerformDirectoryFetch
<1>2. p.id \in MsgID
  BY DEF LookupData
<1>3. /\ owner' = owner /\ sharers' = sharers
      /\ x <=> pendingDirectoryExclusiveReads' # {}
      /\ \A q \in pendingDirectoryExclusiveReads' : q.id = p.id
  BY DEF entry
<1>4. \A n \in FetchTargets : n \in Node /\ owner \in {NoNode, n}
  BY DEF FetchTargets, TypeOK
<1>5. \A n \in FetchTargets : IsFor(n, p.id, x)'
  BY <1>3, <1>4 DEF IsFor
<1>6. ASSUME NEW target \in FetchTargets \ {Home}, FromNode(p, target)
      PROVE  Fetching'
  <2>1. PICK m : m = Fetch(target, p.id, x)
    OBVIOUS
  <2>2. m.type = "Fetch" /\ m.dst = target /\ m.id = p.id /\ m.exclusive = x /\ m \in net'
    BY <1>6, <2>1 DEF Fetch
  <2>3. OnlyMsg(m)'
    BY <1>6, <2>1, <2>2 DEF OnlyMsg, NoMsgOf, NoneAtCaches, FetchTypes
  <2> QED BY <1>5, <2>2, <2>3, NextIsFetching
<1>7. CASE Home \in FetchTargets /\ FromHome(p)
  <2>1. PICK r : r = [id |-> p.id, exclusive |-> x]
    OBVIOUS
  <2>2. r \in ReadData /\ r.id = p.id /\ r.exclusive = x
    BY <1>2, <2>1 DEF ReadData
  <2>3. pendingRemoteReads' = [pendingRemoteReads EXCEPT ![Home] = @ \cup {r}]
    BY <1>7, <2>1 DEF OnRemoteReadCache
  <2>4. OnlyAtCache(Home, r)'
    BY <1>7, <2>3 DEF OnlyAtCache, NoneAtCaches, TypeOK
  <2> QED BY <1>5, <1>7, <2>2, <2>4, NextIsFetching
<1>8. CASE FetchTargets = {} /\ FromMemory(p)
  <2>1. owner = NoNode /\ sharers = {}
    BY <1>8 DEF FetchTargets, TypeOK
  <2>2. IsForMemory(p.id)'
    BY <1>3, <2>1 DEF IsForMemory
  <2>3. OnlyAtMemory(p.id)'
    BY <1>8 DEF OnlyAtMemory, NoneAtCaches
  <2> QED BY <1>2, <2>2, <2>3, NextIsFetching
<1> QED BY <1>1, <1>6, <1>7, <1>8

LEMMA FetchSameRounds ==
  ASSUME NEW pending, NEW x, NEW rest, PerformDirectoryFetch(pending, x, rest)
  PROVE  SameMsgsOf(RoundTypes, rest)
BY DEF PerformDirectoryFetch, Fetch, RoundTypes, SameMsgsOf
-----------------------------------------------------------------------------
(* The handlers of a fetch.                                                 *)

(* A step that leaves the round of invalidations, of which there is none,   *)
(* alone.                                                                   *)
LEMMA NoRoundKeepsPhase ==
  ASSUME PhaseInv, TypeOK', Invalidating = {},
         Invalidating' = {} => Phase',
         SameMsgsOf(RoundTypes, net), UNCHANGED pendingRemoteInvalidates,
         invalidateResponsesReceived' = invalidateResponsesExpected'
  PROVE  Phase' /\ InvalidationRound'
<1>1. /\ Invalidating' = {}
      /\ \A n \in Node : InvalidationOf(n) \cap net' = InvalidationOf(n) \cap net
      /\ \A n \in Node : InvalidationOf(n)' = InvalidationOf(n)
  BY SameRound DEF InvalidationOf
<1>2. \A n \in Node : InvalidationOf(n)' \cap net' = {}
  BY <1>1 DEF Invalidating
<1>3. (Cardinality(Invalidating))' = 0
  BY <1>1, FS_EmptySet
<1>4. (invalidateResponsesReceived + Cardinality(Invalidating) = invalidateResponsesExpected)'
  <2>1. invalidateResponsesReceived' \in Nat
    BY DEF TypeOK
  <2>2. \A k \in Nat : k + 0 = k
    OBVIOUS
  <2> QED BY <1>3, <2>1, <2>2
<1>5. Phase'
  BY <1>1
<1> QED BY <1>1, <1>2, <1>4, <1>5 DEF InvalidationRound

(* It may have begun, moved or refused the fetch.                           *)
LEMMA FetchingKeepsPhase ==
  ASSUME PhaseInv, TypeOK', Invalidating = {}, Fetching', Pending' # {},
         SameMsgsOf(RoundTypes, net), UNCHANGED pendingRemoteInvalidates,
         invalidateResponsesReceived' = invalidateResponsesExpected'
  PROVE  Phase' /\ InvalidationRound'
<1>1. Invalidating' = {} => Phase'
  BY DEF Phase
<1> QED BY <1>1, NoRoundKeepsPhase

LEMMA AcceptKeepsPhase ==
  ASSUME PhaseInv, TypeOK', NEW m \in net, AcceptExclusiveLookup(m) \/ AcceptSharedLookup(m)
  PROVE  Phase' /\ InvalidationRound'
<1>1. m \in NetMsg /\ net \ {m} \in SUBSET NetMsg /\ TypeOK
  BY DEF PhaseInv, TypeOK
<1>2. m.type = "Lookup" /\ m.type \notin FetchTypes \cup RoundTypes
  BY DEF AcceptExclusiveLookup, AcceptSharedLookup, FetchTypes, RoundTypes
<1>3. [id |-> m.id, src |-> m.src] \in LookupData
  BY <1>1, <1>2, MessageFields DEF LookupData
<1>4. Pending = {} => /\ NoFetch /\ Invalidating = {}
                      /\ NoMsgOf(FetchTypes, net \ {m}) /\ NoneAtCaches
                      /\ pendingMemoryReadAccesses = {}
  BY DEF PhaseInv, Phase, NoFetch, NoMsgOf
<1>5. SameMsgsOf(RoundTypes, net \ {m}) => SameMsgsOf(RoundTypes, net)
  BY <1>2 DEF SameMsgsOf
<1>6. invalidateResponsesReceived = invalidateResponsesExpected \/ Invalidating # {}
  <2>1. invalidateResponsesReceived \in Nat
    BY <1>1 DEF TypeOK
  <2>2. Invalidating = {} => Cardinality(Invalidating) = 0
    BY FS_EmptySet
  <2> QED BY <2>1, <2>2 DEF PhaseInv, InvalidationRound
<1>7. CASE AcceptExclusiveLookup(m)
  <2>1. Pending = {} /\ Pending' # {}
    BY <1>7 DEF AcceptExclusiveLookup, Busy, Pending
  <2>2. /\ pendingDirectoryExclusiveReads' = {[id |-> m.id, src |-> m.src]}
        /\ invalidateResponsesReceived' = invalidateResponsesExpected'
        /\ UNCHANGED entry /\ UNCHANGED pendingRemoteInvalidates
        /\ PerformDirectoryFetch(pendingDirectoryExclusiveReads', TRUE, net \ {m})
    BY <1>7 DEF AcceptExclusiveLookup
  <2>3. Fetching'
    BY <1>1, <1>3, <1>4, <2>1, <2>2, FetchBegins
  <2>4. SameMsgsOf(RoundTypes, net)
    BY <1>5, <2>2, FetchSameRounds
  <2> QED BY <1>4, <2>1, <2>2, <2>3, <2>4, FetchingKeepsPhase
<1>8. CASE AcceptSharedLookup(m)
  <2>1. /\ pendingDirectorySharedReads' = pendingDirectorySharedReads \cup {[id |-> m.id, src |-> m.src]}
        /\ pendingDirectoryExclusiveReads = {} /\ pendingDirectoryExclusiveReads' = {}
        /\ UNCHANGED <<entry, counts, pendingRemoteInvalidates>>
    BY <1>8 DEF AcceptSharedLookup, Busy
  <2>2. Pending' # {}
    BY <2>1 DEF Pending
  <2>3. Invalidating = {}
    BY <2>1 DEF PhaseInv, InvalidationRound
  <2>4. invalidateResponsesReceived' = invalidateResponsesExpected'
    BY <1>6, <2>1, <2>3 DEF counts
  <2>5. CASE AlreadyFetching
    <3>1. net' = net \ {m} /\ UNCHANGED <<pendingRemoteReads, pendingMemoryReadAccesses>>
      BY <1>8, <2>5 DEF AcceptSharedLookup
    <3>2. SameMsgsOf(FetchTypes, net) /\ SameMsgsOf(RoundTypes, net)
      BY <1>2, <3>1 DEF SameMsgsOf
    <3>3. Fetching
      BY <2>3, <2>5 DEF AlreadyFetching, Pending, PhaseInv, Phase
    <3>4. owner' = owner /\ sharers' = sharers
      BY <2>1 DEF entry
    <3>5. Fetching'
      BY <2>1, <3>1, <3>2, <3>3, <3>4, SameFetching
    <3> QED BY <2>1, <2>2, <2>3, <2>4, <3>2, <3>5, FetchingKeepsPhase
  <2>6. CASE ~AlreadyFetching
    <3>1. PerformDirectoryFetch(pendingDirectorySharedReads', FALSE, net \ {m})
      BY <1>8, <2>6 DEF AcceptSharedLookup
    <3>2. Pending = {}
      BY <2>1, <2>6 DEF AlreadyFetching, Pending
    <3>3. pendingDirectorySharedReads' \in SUBSET LookupData
      BY DEF TypeOK
    <3>4. Fetching'
      BY <1>1, <1>4, <2>1, <3>1, <3>2, <3>3, FetchBegins
    <3>5. SameMsgsOf(RoundTypes, net)
      BY <1>5, <3>1, FetchSameRounds
    <3> QED BY <2>1, <2>2, <2>3, <2>4, <3>4, <3>5, FetchingKeepsPhase
  <2> QED BY <2>5, <2>6
<1> QED BY <1>7, <1>8
(* What the counts of the round are when there is none.                     *)
LEMMA CountsAgree ==
  ASSUME PhaseInv, Invalidating = {}
  PROVE  invalidateResponsesReceived = invalidateResponsesExpected
<1>1. invalidateResponsesReceived \in Nat
  BY DEF PhaseInv, TypeOK
<1>2. Cardinality(Invalidating) = 0
  BY FS_EmptySet
<1> QED BY <1>1, <1>2 DEF PhaseInv, InvalidationRound

LEMMA NakKeepsPhase ==
  ASSUME PhaseInv, TypeOK', NEW m \in net, OnRemoteDirectoryNak(m)
  PROVE  Phase' /\ InvalidationRound'
<1>1. m \in NetMsg /\ net \ {m} \in SUBSET NetMsg /\ TypeOK
  BY DEF PhaseInv, TypeOK
<1>2. m.type = "DirectoryNak" /\ m.type \in FetchTypes /\ m.type \notin RoundTypes
  BY DEF OnRemoteDirectoryNak, FetchTypes, RoundTypes
<1>3. Pending # {} /\ Invalidating = {} /\ OnlyMsg(m)
  BY <1>2, OnlyOneMsg DEF PhaseInv
<1>4. /\ NoMsgOf(FetchTypes, net \ {m}) /\ NoneAtCaches /\ pendingMemoryReadAccesses = {}
  BY <1>3 DEF OnlyMsg
<1>5. UNCHANGED <<entry, lookups, counts, pendingRemoteInvalidates>>
  BY DEF OnRemoteDirectoryNak
<1>6. /\ pendingDirectoryExclusiveReads' = pendingDirectoryExclusiveReads
      /\ Pending' = Pending
      /\ invalidateResponsesReceived' = invalidateResponsesExpected'
  BY <1>3, <1>5, CountsAgree DEF lookups, counts, Pending
<1>7. SameMsgsOf(RoundTypes, net \ {m}) => SameMsgsOf(RoundTypes, net)
  BY <1>2 DEF SameMsgsOf
<1>8. OneKindOfLookup
  BY DEF PhaseInv
<1>9. CASE /\ pendingDirectorySharedReads # {}
           /\ PerformDirectoryFetch(pendingDirectorySharedReads, FALSE, net \ {m})
  <2>1. pendingDirectorySharedReads \in SUBSET LookupData /\ pendingDirectoryExclusiveReads' = {}
    BY <1>1, <1>6, <1>8, <1>9 DEF TypeOK, OneKindOfLookup
  <2>2. Fetching'
    BY <1>1, <1>4, <1>5, <1>9, <2>1, FetchBegins
  <2> QED BY <1>3, <1>5, <1>6, <1>7, <1>9, <2>2, FetchSameRounds, FetchingKeepsPhase
<1>10. CASE /\ pendingDirectoryExclusiveReads # {}
            /\ PerformDirectoryFetch(pendingDirectoryExclusiveReads, TRUE, net \ {m})
  <2>1. /\ pendingDirectoryExclusiveReads \in SUBSET LookupData
        /\ \A p, q \in pendingDirectoryExclusiveReads' : p = q
    BY <1>1, <1>6, <1>8 DEF TypeOK, OneKindOfLookup
  <2>2. Fetching'
    BY <1>1, <1>4, <1>5, <1>6, <1>10, <2>1, FetchBegins
  <2> QED BY <1>3, <1>5, <1>6, <1>7, <1>10, <2>2, FetchSameRounds, FetchingKeepsPhase
<1> QED BY <1>3, <1>9, <1>10 DEF OnRemoteDirectoryNak, Pending

LEMMA FetchKeepsPhase ==
  ASSUME PhaseInv, TypeOK', NEW m \in net, OnFetch(m)
  PROVE  Phase' /\ InvalidationRound'
<1>1. m \in NetMsg /\ TypeOK
  BY DEF PhaseInv, TypeOK
<1>2. m.type = "Fetch" /\ m.type \in FetchTypes /\ m.type \notin RoundTypes
  BY DEF OnFetch, FetchTypes, RoundTypes
<1>3. /\ Pending # {} /\ Invalidating = {} /\ OnlyMsg(m)
      /\ IsFor(m.dst, m.id, m.exclusive)
  BY <1>2, OnlyOneMsg DEF PhaseInv
<1>4. m.dst \in Node /\ m.id \in MsgID /\ m.exclusive \in BOOLEAN
  BY <1>1, <1>2, MessageFields
<1>5. PICK r : r = [id |-> m.id, exclusive |-> m.exclusive]
  OBVIOUS
<1>6. r \in ReadData /\ r.id = m.id /\ r.exclusive = m.exclusive
  BY <1>4, <1>5 DEF ReadData
<1>7. /\ pendingRemoteReads' = [pendingRemoteReads EXCEPT ![m.dst] = @ \cup {r}]
      /\ net' = net \ {m}
      /\ UNCHANGED <<entry, lookups, counts, pendingMemoryReadAccesses, pendingRemoteInvalidates>>
  BY <1>5 DEF OnFetch, OnRemoteReadCache, home
<1>8. OnlyAtCache(m.dst, r)'
  BY <1>1, <1>3, <1>4, <1>7 DEF OnlyMsg, OnlyAtCache, NoneAtCaches, TypeOK
<1>9. /\ pendingDirectoryExclusiveReads' = pendingDirectoryExclusiveReads /\ owner' = owner
      /\ Pending' = Pending
      /\ invalidateResponsesReceived' = invalidateResponsesExpected'
  BY <1>3, <1>7, CountsAgree DEF entry, lookups, counts, Pending
<1>10. IsFor(m.dst, r.id, r.exclusive)'
  BY <1>3, <1>6, <1>9 DEF IsFor
<1>11. Fetching'
  BY <1>4, <1>6, <1>8, <1>10, NextIsFetching
<1>12. SameMsgsOf(RoundTypes, net)
  BY <1>2, <1>7 DEF SameMsgsOf
<1> QED BY <1>3, <1>7, <1>9, <1>11, <1>12, FetchingKeepsPhase

LEMMA LocalReadResponseKeepsPhase ==
  ASSUME PhaseInv, TypeOK', NEW n \in Node, NEW r, NEW satisfied \in BOOLEAN,
         OnLocalReadResponse(n, r, satisfied)
  PROVE  Phase' /\ InvalidationRound'
<1>1. r \in pendingRemoteReads[n] /\ TypeOK
  BY DEF OnLocalReadResponse, PhaseInv
<1>2. /\ Pending # {} /\ Invalidating = {}
      /\ r \in ReadData /\ OnlyAtCache(n, r) /\ IsFor(n, r.id, r.exclusive)
  BY <1>1, OnlyOneAtCache DEF PhaseInv
<1>3. PICK m : m = IF satisfied THEN FetchReply(n, r.id, r.exclusive) ELSE DirectoryNak(n)
  OBVIOUS
<1>4. /\ m.type \in {"FetchReply", "DirectoryNak"} /\ m.type \in FetchTypes /\ m.type \notin RoundTypes
      /\ m.type = "FetchReply" => m.src = n /\ m.id = r.id /\ m.exclusive = r.exclusive
  BY <1>3 DEF FetchReply, DirectoryNak, FetchTypes, RoundTypes
<1>5. /\ pendingRemoteReads' = [pendingRemoteReads EXCEPT ![n] = @ \ {r}]
      /\ net' = net \cup {m}
      /\ UNCHANGED <<entry, lookups, counts, pendingMemoryReadAccesses, pendingRemoteInvalidates>>
  BY <1>3 DEF OnLocalReadResponse, home
<1>6. NoneAtCaches'
  BY <1>1, <1>2, <1>5 DEF OnlyAtCache, NoneAtCaches, TypeOK
<1>7. OnlyMsg(m)' /\ m \in net'
  BY <1>2, <1>4, <1>5, <1>6 DEF OnlyAtCache, OnlyMsg, NoMsgOf
<1>8. /\ pendingDirectoryExclusiveReads' = pendingDirectoryExclusiveReads /\ owner' = owner
      /\ Pending' = Pending
      /\ invalidateResponsesReceived' = invalidateResponsesExpected'
  BY <1>2, <1>5, CountsAgree DEF entry, lookups, counts, Pending
<1>9. m.type = "FetchReply" => IsFor(m.src, m.id, m.exclusive)'
  BY <1>2, <1>4, <1>8 DEF IsFor
<1>10. Fetching'
  BY <1>4, <1>7, <1>9, NextIsFetching
<1>11. SameMsgsOf(RoundTypes, net)
  BY <1>4, <1>5 DEF SameMsgsOf
<1> QED BY <1>2, <1>5, <1>8, <1>10, <1>11, FetchingKeepsPhase
-----------------------------------------------------------------------------
(* The answer to the fetch, from a node or from the memory.                 *)

(* A message of a round is of the invalidation of some node.                *)
LEMMA RoundMessage ==
  ASSUME NEW m \in NetMsg, m.type \in RoundTypes
  PROVE  /\ m.type = "Invalidate" => m.dst \in Node /\ m = Invalidate(m.dst)
         /\ m.type = "InvalidateResponse" =>
              m.src \in Node /\ m = InvalidateResponse(m.src, m.blockAttached)
         /\ \E n \in Node : m \in InvalidationOf(n)
<1>1. CASE m.type = "Invalidate"
  <2>1. m.dst \in Node /\ m = Invalidate(m.dst)
    BY <1>1 DEF NetMsg, Invalidate
  <2> QED BY <1>1, <2>1 DEF InvalidationOf
<1>2. CASE m.type = "InvalidateResponse"
  <2>1. m.src \in Node /\ m.blockAttached \in BOOLEAN /\ m = InvalidateResponse(m.src, m.blockAttached)
    BY <1>2 DEF NetMsg, InvalidateResponse
  <2> QED BY <1>2, <2>1 DEF InvalidationOf
<1> QED BY <1>1, <1>2 DEF RoundTypes

LEMMA RespondSameMsgs ==
  ASSUME NEW P, NEW x, NEW rest, Respond(P, x, rest)
  PROVE  SameMsgsOf(FetchTypes \cup RoundTypes, rest)
BY DEF Respond, Reply, FetchTypes, RoundTypes, SameMsgsOf

(* A step that answers the lookups.                                         *)
LEMMA AnswersKeepPhase ==
  ASSUME PhaseInv, TypeOK', Invalidating = {}, Pending' = {},
         NEW rest, NoMsgOf(FetchTypes, rest), NoneAtCaches', pendingMemoryReadAccesses' = {},
         SameMsgsOf(FetchTypes \cup RoundTypes, rest),
         \A k : k.type \in RoundTypes => (k \in rest <=> k \in net),
         UNCHANGED <<counts, pendingRemoteInvalidates>>
  PROVE  Phase' /\ InvalidationRound'
<1>1. NoFetch'
  BY DEF SameMsgsOf, NoFetch, NoMsgOf
<1>2. SameMsgsOf(RoundTypes, net)
  BY DEF SameMsgsOf
<1>3. invalidateResponsesReceived' = invalidateResponsesExpected'
  BY CountsAgree DEF counts
<1>4. Invalidating' = {} => Phase'
  BY <1>1 DEF Phase
<1> QED BY <1>2, <1>3, <1>4, NoRoundKeepsPhase

(* The sharers are invalidated: a round begins.                             *)
LEMMA RoundBegins ==
  ASSUME PhaseInv, TypeOK', Invalidating = {},
         NEW S \in SUBSET Node, NEW rest \in SUBSET NetMsg, InvalidateSharers(NoNode, S, rest),
         NoMsgOf(FetchTypes, rest), NoneAtCaches', pendingMemoryReadAccesses' = {},
         \A k : k.type \in RoundTypes => (k \in rest <=> k \in net)
  PROVE  Phase' /\ InvalidationRound'
<1>1. /\ pendingDirectoryExclusiveReads' # {} /\ Pending' # {}
      /\ owner' = NoNode /\ sharers' = S /\ S # {}
      /\ invalidateResponsesReceived' = 0 /\ invalidateResponsesExpected' = Cardinality(S)
      /\ net' = rest \cup {Invalidate(n) : n \in S \ {Home}}
      /\ pendingRemoteInvalidates' = pendingRemoteInvalidates \cup (S \cap {Home})
  BY DEF InvalidateSharers, lookups, Pending
<1>2. pendingRemoteInvalidates = {}
  BY DEF Invalidating, PhaseInv, TypeOK
<1>3. NoMsgOf(RoundTypes, rest)
  <2> SUFFICES ASSUME NEW k \in rest, k.type \in RoundTypes PROVE FALSE
    BY DEF NoMsgOf
  <2>1. k \in net
    OBVIOUS
  <2>2. PICK n \in Node : k \in InvalidationOf(n)
    BY RoundMessage
  <2> QED BY <2>1, <2>2 DEF Invalidating
<1>4. ASSUME NEW n \in Node
      PROVE  InvalidationOf(n) \cap net' = IF n \in S \ {Home} THEN {Invalidate(n)} ELSE {}
  <2>1. \A k \in InvalidationOf(n) : k.type \in RoundTypes /\ k \notin rest
    BY <1>3 DEF InvalidationOf, Invalidate, InvalidateResponse, RoundTypes, NoMsgOf
  <2>2. \A j : Invalidate(j) \in InvalidationOf(n) <=> j = n
    BY DEF InvalidationOf, Invalidate, InvalidateResponse
  <2>3. Invalidate(n) \in net' <=> n \in S \ {Home}
    BY <1>1, <2>1, <2>2 DEF Invalidate
  <2> QED BY <1>1, <2>1, <2>2, <2>3
<1>5. \A n \in Node : n \in pendingRemoteInvalidates' <=> n = Home /\ n \in S
  BY <1>1, <1>2
<1>6. \A n \in Node : InvalidationOf(n)' = InvalidationOf(n)
  BY DEF InvalidationOf
<1>7. Invalidating' = S
  BY <1>4, <1>5, <1>6 DEF Invalidating
<1>8. NoFetch'
  <2>1. NoMsgOf(FetchTypes, net')
    BY <1>1 DEF NoMsgOf, Invalidate, FetchTypes
  <2> QED BY <2>1 DEF NoFetch, NoMsgOf
<1>9. Phase'
  BY <1>1, <1>7, <1>8 DEF Phase
<1>10. (invalidateResponsesReceived + Cardinality(Invalidating) = invalidateResponsesExpected)'
  <2>1. Cardinality(S) \in Nat
    BY FS_Subset, FS_CardinalityType
  <2>2. 0 + Cardinality(S) = Cardinality(S)
    BY <2>1
  <2> QED BY <1>1, <1>7, <2>2
<1>11. \A n \in Node : \A m \in InvalidationOf(n)' \cap net' :
         n \notin pendingRemoteInvalidates' /\ InvalidationOf(n)' \cap net' = {m}
  BY <1>4, <1>5, <1>6
<1> QED BY <1>1, <1>7, <1>9, <1>10, <1>11 DEF InvalidationRound

LEMMA ReadResponseKeepsPhase ==
  ASSUME PhaseInv, TypeOK', Invalidating = {},
         NEW src \in Node \cup {NoNode}, NEW i, NEW x \in BOOLEAN, NEW rest \in SUBSET NetMsg,
         OnRemoteReadResponse(src, i, x, rest),
         NoMsgOf(FetchTypes, rest), NoneAtCaches, pendingMemoryReadAccesses' = {},
         \A k : k.type \in RoundTypes => (k \in rest <=> k \in net),
         pendingDirectoryExclusiveReads # {} => x /\ owner \in {NoNode, src}
  PROVE  Phase' /\ InvalidationRound'
<1> DEFINE o == IF x /\ owner = src THEN NoNode ELSE owner
           S == IF x /\ owner # src THEN sharers \ {src} ELSE sharers
<1>1. /\ pendingDirectoryExclusiveReads # {} => o = NoNode
      /\ S \in SUBSET Node
  BY DEF PhaseInv, TypeOK
<1>2. \/ AnswerSharedReads(o, S, rest)
      \/ AnswerExclusiveRead(o, S, i, x, rest)
      \/ InvalidateSharers(o, S, rest)
  BY DEF OnRemoteReadResponse
<1> HIDE DEF o, S
<1>3. NoneAtCaches' /\ OneKindOfLookup
  BY DEF OnRemoteReadResponse, NoneAtCaches, PhaseInv
<1>4. CASE AnswerSharedReads(o, S, rest)
  <2>1. Pending' = {} /\ UNCHANGED <<counts, pendingRemoteInvalidates>>
    BY <1>3, <1>4 DEF AnswerSharedReads, Pending, OneKindOfLookup
  <2>2. SameMsgsOf(FetchTypes \cup RoundTypes, rest)
    BY <1>4, RespondSameMsgs DEF AnswerSharedReads
  <2> QED BY <1>3, <2>1, <2>2, AnswersKeepPhase
<1>5. CASE AnswerExclusiveRead(o, S, i, x, rest)
  <2>1. Pending' = {} /\ UNCHANGED <<counts, pendingRemoteInvalidates>>
    BY <1>5 DEF AnswerExclusiveRead, Pending
  <2>2. SameMsgsOf(FetchTypes \cup RoundTypes, rest)
    BY <1>5, RespondSameMsgs DEF AnswerExclusiveRead
  <2> QED BY <1>3, <2>1, <2>2, AnswersKeepPhase
<1>6. CASE InvalidateSharers(o, S, rest)
  <2>1. o = NoNode
    BY <1>1, <1>6 DEF InvalidateSharers
  <2> QED BY <1>1, <1>3, <1>6, <2>1, RoundBegins
<1> QED BY <1>2, <1>4, <1>5, <1>6

LEMMA FetchReplyKeepsPhase ==
  ASSUME PhaseInv, TypeOK', NEW m \in net, OnFetchReply(m)
  PROVE  Phase' /\ InvalidationRound'
<1>1. m \in NetMsg /\ net \ {m} \in SUBSET NetMsg /\ TypeOK
  BY DEF PhaseInv, TypeOK
<1>2. m.type = "FetchReply" /\ m.type \in FetchTypes /\ m.type \notin RoundTypes
  BY DEF OnFetchReply, FetchTypes, RoundTypes
<1>3. Invalidating = {} /\ OnlyMsg(m) /\ IsFor(m.src, m.id, m.exclusive)
  BY <1>2, OnlyOneMsg DEF PhaseInv
<1>4. m.src \in Node /\ m.exclusive \in BOOLEAN
  BY <1>1, <1>2, MessageFields
<1>5. NoMsgOf(FetchTypes, net \ {m}) /\ NoneAtCaches /\ pendingMemoryReadAccesses' = {}
  BY <1>3 DEF OnlyMsg, OnFetchReply
<1>6. OnRemoteReadResponse(m.src, m.id, m.exclusive, net \ {m})
  BY DEF OnFetchReply
<1>7. \A k : k.type \in RoundTypes => (k \in net \ {m} <=> k \in net)
  BY <1>2
<1>8. pendingDirectoryExclusiveReads # {} => m.exclusive /\ owner \in {NoNode, m.src}
  BY <1>3 DEF IsFor
<1> QED BY <1>1, <1>3, <1>4, <1>5, <1>6, <1>7, <1>8, ReadResponseKeepsPhase

LEMMA MemoryReadResponseKeepsPhase ==
  ASSUME PhaseInv, TypeOK', NEW i \in pendingMemoryReadAccesses, OnLocalMemoryReadResponse(i)
  PROVE  Phase' /\ InvalidationRound'
<1>1. net \in SUBSET NetMsg
  BY DEF PhaseInv, TypeOK
<1>2. Invalidating = {} /\ OnlyAtMemory(i) /\ IsForMemory(i)
  BY OnlyOneAtMemory DEF PhaseInv
<1>3. NoMsgOf(FetchTypes, net) /\ NoneAtCaches /\ pendingMemoryReadAccesses' = {}
  BY <1>2 DEF OnlyAtMemory, OnLocalMemoryReadResponse
<1>4. OnRemoteReadResponse(NoNode, i, TRUE, net)
  BY DEF OnLocalMemoryReadResponse
<1>5. owner = NoNode
  BY <1>2 DEF IsForMemory
<1> QED BY <1>1, <1>2, <1>3, <1>4, <1>5, ReadResponseKeepsPhase
-----------------------------------------------------------------------------
(* The handlers of a round of invalidations.                                *)

LEMMA SameFetchTokens ==
  ASSUME SameMsgsOf(FetchTypes, net), UNCHANGED <<pendingRemoteReads, pendingMemoryReadAccesses>>
  PROVE  NoFetch => NoFetch'
BY SameFetch

(* The invalidation of node k moves on: to its cache, or back to the home.  *)
LEMMA InvalidationMoves ==
  ASSUME PhaseInv, NEW k \in Node, k \in Invalidating,
         \A n \in Node \ {k} : /\ InvalidationOf(n) \cap net' = InvalidationOf(n) \cap net
                               /\ n \in pendingRemoteInvalidates' <=> n \in pendingRemoteInvalidates,
         \/ k \in pendingRemoteInvalidates' /\ InvalidationOf(k) \cap net' = {}
         \/ k \notin pendingRemoteInvalidates' /\ \E m : InvalidationOf(k) \cap net' = {m},
         SameMsgsOf(FetchTypes, net),
         UNCHANGED <<pendingRemoteReads, pendingMemoryReadAccesses, entry, lookups, counts>>
  PROVE  Phase' /\ InvalidationRound'
<1>1. \A n \in Node : InvalidationOf(n)' = InvalidationOf(n)
  BY DEF InvalidationOf
<1>2. Invalidating' = Invalidating
  <2>1. \A n \in Node \ {k} : n \in Invalidating' <=> n \in Invalidating
    BY <1>1 DEF Invalidating
  <2>2. k \in Invalidating'
    BY <1>1 DEF Invalidating
  <2>3. Invalidating \subseteq Node /\ Invalidating' \subseteq Node
    BY DEF Invalidating
  <2> QED BY <2>1, <2>2, <2>3
<1>3. Pending' = Pending /\ pendingDirectoryExclusiveReads' = pendingDirectoryExclusiveReads
  BY DEF lookups, Pending
<1>4. NoFetch /\ Pending # {} /\ Invalidating # {}
  BY DEF PhaseInv, Phase
<1>5. Phase'
  BY <1>2, <1>3, <1>4, SameFetchTokens DEF Phase
<1>6. /\ invalidateResponsesReceived' = invalidateResponsesReceived
      /\ invalidateResponsesExpected' = invalidateResponsesExpected
      /\ owner' = owner /\ sharers' = sharers
  BY DEF counts, entry
<1>7. (invalidateResponsesReceived + Cardinality(Invalidating) = invalidateResponsesExpected)'
  BY <1>2, <1>6 DEF PhaseInv, InvalidationRound
<1>8. Invalidating' # {} => /\ pendingDirectoryExclusiveReads' # {} /\ owner' = NoNode
                            /\ sharers' \subseteq Invalidating'
  BY <1>2, <1>3, <1>6 DEF PhaseInv, InvalidationRound
<1>9. \A n \in Node : \A m \in InvalidationOf(n)' \cap net' :
        n \notin pendingRemoteInvalidates' /\ InvalidationOf(n)' \cap net' = {m}
  <2>1. ASSUME NEW n \in Node \ {k}, NEW m \in InvalidationOf(n) \cap net'
        PROVE  n \notin pendingRemoteInvalidates' /\ InvalidationOf(n) \cap net' = {m}
    BY <2>1 DEF PhaseInv, InvalidationRound
  <2>2. ASSUME NEW m \in InvalidationOf(k) \cap net'
        PROVE  k \notin pendingRemoteInvalidates' /\ InvalidationOf(k) \cap net' = {m}
    BY <2>2
  <2> QED BY <1>1, <2>1, <2>2
<1> QED BY <1>5, <1>7, <1>8, <1>9 DEF InvalidationRound

LEMMA InvalidateKeepsPhase ==
  ASSUME PhaseInv, NEW m \in net, OnRemoteInvalidate(m)
  PROVE  Phase' /\ InvalidationRound'
<1>1. m \in NetMsg /\ m.type = "Invalidate" /\ m.type \in RoundTypes /\ m.type \notin FetchTypes
  BY DEF OnRemoteInvalidate, PhaseInv, TypeOK, RoundTypes, FetchTypes
<1>2. m.dst \in Node /\ m = Invalidate(m.dst)
  BY <1>1, RoundMessage
<1>3. /\ pendingRemoteInvalidates' = pendingRemoteInvalidates \cup {m.dst}
      /\ net' = net \ {m}
      /\ UNCHANGED <<pendingRemoteReads, pendingMemoryReadAccesses, entry, lookups, counts>>
  BY DEF OnRemoteInvalidate, home
<1>4. m \in InvalidationOf(m.dst) /\ \A n \in Node \ {m.dst} : m \notin InvalidationOf(n)
  BY <1>2 DEF InvalidationOf, Invalidate, InvalidateResponse
<1>5. InvalidationOf(m.dst) \cap net = {m} /\ m.dst \in Invalidating
  BY <1>2, <1>4 DEF PhaseInv, InvalidationRound, Invalidating
<1>6. InvalidationOf(m.dst) \cap net' = {}
  BY <1>3, <1>5
<1>7. \A n \in Node \ {m.dst} :
        /\ InvalidationOf(n) \cap net' = InvalidationOf(n) \cap net
        /\ n \in pendingRemoteInvalidates' <=> n \in pendingRemoteInvalidates
  BY <1>3, <1>4
<1>8. SameMsgsOf(FetchTypes, net)
  BY <1>1, <1>3 DEF SameMsgsOf
<1>9. m.dst \in pendingRemoteInvalidates'
  BY <1>3
<1> QED BY <1>2, <1>3, <1>5, <1>6, <1>7, <1>8, <1>9, InvalidationMoves

(* The acknowledgement of node src is counted.                              *)
LEMMA AcknowledgementKeepsPhase ==
  ASSUME PhaseInv, TypeOK',
         NEW src \in Node, NEW attached, NEW rest, NEW cached,
         OnRemoteInvalidateResponse(src, attached, rest, cached),
         src \in Invalidating, src \notin pendingRemoteInvalidates',
         InvalidationOf(src) \cap rest = {},
         \A n \in Node \ {src} : /\ InvalidationOf(n) \cap rest = InvalidationOf(n) \cap net
                                 /\ n \in pendingRemoteInvalidates' <=> n \in pendingRemoteInvalidates,
         \A k : k.type \in FetchTypes => (k \in rest <=> k \in net)
  PROVE  Phase' /\ InvalidationRound'
<1>1. /\ NoFetch /\ Pending # {} /\ pendingDirectoryExclusiveReads # {}
      /\ pendingDirectorySharedReads = {}
      /\ owner = NoNode /\ sharers \subseteq Invalidating
  BY DEF PhaseInv, Phase, OneKindOfLookup, InvalidationRound
<1>2. owner # src
  BY <1>1
<1> DEFINE received == invalidateResponsesReceived + 1
<1>3. PICK p \in pendingDirectoryExclusiveReads :
        LET done == /\ AllReceived(received)
                    /\ \/ NoNode \in {NoNode, p.src} /\ sharers \ {src} = {}
                       \/ sharers \ {src} = {p.src}
        IN IF done
           THEN /\ owner' = p.src /\ sharers' = {}
                /\ pendingDirectoryExclusiveReads' = {}
                /\ invalidateResponsesExpected' = 0 /\ invalidateResponsesReceived' = 0
                /\ net' = IF p.src = Home THEN rest ELSE rest \cup {Reply(p.src, p.id, TRUE, TRUE)}
           ELSE /\ owner' = NoNode /\ sharers' = sharers \ {src}
                /\ invalidateResponsesReceived' = received
                /\ net' = rest
                /\ UNCHANGED <<pendingDirectoryExclusiveReads, invalidateResponsesExpected>>
  BY <1>1, <1>2 DEF OnRemoteInvalidateResponse
<1>4. UNCHANGED <<pendingDirectorySharedReads, pendingMemoryReadAccesses, pendingRemoteReads>>
  BY DEF OnRemoteInvalidateResponse
<1>5. SameMsgsOf(FetchTypes \cup RoundTypes, rest)
  <2>1. \A i, j, s, x : Reply(i, j, s, x).type \notin FetchTypes \cup RoundTypes
    BY DEF Reply, FetchTypes, RoundTypes
  <2>2. net' = rest \/ \E k : k.type \notin FetchTypes \cup RoundTypes /\ net' = rest \cup {k}
    BY <1>3, <2>1
  <2> QED BY <2>2 DEF SameMsgsOf
<1>6. NoFetch'
  BY <1>1, <1>4, <1>5 DEF SameMsgsOf, NoFetch, NoMsgOf, NoneAtCaches
<1>7. \A n \in Node : InvalidationOf(n)' = InvalidationOf(n)
  BY DEF InvalidationOf
<1>8. \A n \in Node : InvalidationOf(n) \cap net' = InvalidationOf(n) \cap rest
  <2>1. \A n \in Node : \A k \in InvalidationOf(n) : k.type \in RoundTypes
    BY DEF InvalidationOf, Invalidate, InvalidateResponse, RoundTypes
  <2> QED BY <1>5, <2>1 DEF SameMsgsOf
<1>9. Invalidating' = Invalidating \ {src}
  <2>1. \A n \in Node \ {src} : n \in Invalidating' <=> n \in Invalidating
    BY <1>7, <1>8 DEF Invalidating
  <2>2. src \notin Invalidating'
    BY <1>7, <1>8 DEF Invalidating
  <2>3. Invalidating \subseteq Node /\ Invalidating' \subseteq Node
    BY DEF Invalidating
  <2> QED BY <2>1, <2>2, <2>3
<1>10. /\ Cardinality(Invalidating) \in Nat /\ Cardinality(Invalidating \ {src}) \in Nat
       /\ Cardinality(Invalidating) = Cardinality(Invalidating \ {src}) + 1
       /\ Cardinality(Invalidating \ {src}) = 0 <=> Invalidating \ {src} = {}
  <2>1. IsFiniteSet(Invalidating) /\ IsFiniteSet(Invalidating \ {src})
    BY FS_Subset DEF Invalidating
  <2>2. /\ Cardinality(Invalidating) \in Nat /\ Cardinality(Invalidating \ {src}) \in Nat
        /\ Cardinality(Invalidating \ {src}) = 0 <=> Invalidating \ {src} = {}
    BY <2>1, FS_CardinalityType, FS_EmptySet
  <2>3. Cardinality(Invalidating \ {src}) = Cardinality(Invalidating) - 1
    BY <2>1, FS_RemoveElement
  <2> QED BY <2>2, <2>3
<1>11. /\ invalidateResponsesReceived \in Nat
       /\ invalidateResponsesReceived + Cardinality(Invalidating) = invalidateResponsesExpected
  BY DEF PhaseInv, TypeOK, InvalidationRound
<1>12. received + Cardinality(Invalidating \ {src}) = invalidateResponsesExpected
  BY <1>10, <1>11
<1>13. AllReceived(received) <=> Invalidating \ {src} = {}
  BY <1>10, <1>11, <1>12 DEF AllReceived
<1>14. \A n \in Node : \A m \in InvalidationOf(n)' \cap net' :
         n \notin pendingRemoteInvalidates' /\ InvalidationOf(n)' \cap net' = {m}
  BY <1>7, <1>8 DEF PhaseInv, InvalidationRound
<1> HIDE DEF received
<1>15. CASE Invalidating \ {src} = {}
  <2>1. sharers \ {src} = {}
    BY <1>1, <1>15
  <2>2. /\ pendingDirectoryExclusiveReads' = {}
        /\ invalidateResponsesExpected' = 0 /\ invalidateResponsesReceived' = 0
    BY <1>3, <1>13, <1>15, <2>1
  <2>3. Pending' = {}
    BY <1>1, <1>4, <2>2 DEF Pending
  <2>4. Phase'
    BY <1>6, <1>9, <1>15, <2>3 DEF Phase
  <2>5. (Cardinality(Invalidating))' = 0
    BY <1>9, <1>15, FS_EmptySet
  <2>6. (invalidateResponsesReceived + Cardinality(Invalidating) = invalidateResponsesExpected)'
    <3>1. 0 + 0 = 0
      OBVIOUS
    <3> QED BY <2>2, <2>5, <3>1
  <2> QED BY <1>9, <1>14, <1>15, <2>4, <2>6 DEF InvalidationRound
<1>16. CASE Invalidating \ {src} # {}
  <2>1. /\ owner' = NoNode /\ sharers' = sharers \ {src}
        /\ invalidateResponsesReceived' = received
        /\ UNCHANGED <<pendingDirectoryExclusiveReads, invalidateResponsesExpected>>
    BY <1>3, <1>13, <1>16
  <2>2. Pending' # {} /\ pendingDirectoryExclusiveReads' # {}
    BY <1>1, <2>1 DEF Pending
  <2>3. Phase'
    BY <1>6, <1>9, <1>16, <2>2 DEF Phase
  <2>4. (Cardinality(Invalidating))' = Cardinality(Invalidating \ {src})
    BY <1>9
  <2>5. (invalidateResponsesReceived + Cardinality(Invalidating) = invalidateResponsesExpected)'
    BY <1>12, <2>1, <2>4
  <2>6. sharers' \subseteq Invalidating'
    BY <1>1, <1>9, <2>1
  <2> QED BY <1>14, <2>1, <2>2, <2>3, <2>5, <2>6 DEF InvalidationRound
<1> QED BY <1>15, <1>16

LEMMA InvalidateResponseKeepsPhase ==
  ASSUME PhaseInv, TypeOK', NEW m \in net, OnInvalidateResponse(m)
  PROVE  Phase' /\ InvalidationRound'
<1>1. m \in NetMsg /\ m.type = "InvalidateResponse" /\ m.type \in RoundTypes /\ m.type \notin FetchTypes
  BY DEF OnInvalidateResponse, PhaseInv, TypeOK, RoundTypes, FetchTypes
<1>2. m.src \in Node /\ m = InvalidateResponse(m.src, m.blockAttached) /\ m.blockAttached \in BOOLEAN
  BY <1>1, RoundMessage, MessageFields
<1>3. m \in InvalidationOf(m.src) /\ \A n \in Node \ {m.src} : m \notin InvalidationOf(n)
  BY <1>2 DEF InvalidationOf, Invalidate, InvalidateResponse
<1>4. /\ InvalidationOf(m.src) \cap net = {m} /\ m.src \notin pendingRemoteInvalidates
      /\ m.src \in Invalidating
  BY <1>2, <1>3 DEF PhaseInv, InvalidationRound, Invalidating
<1>5. UNCHANGED pendingRemoteInvalidates
      /\ OnRemoteInvalidateResponse(m.src, m.blockAttached, net \ {m}, toCache)
  BY DEF OnInvalidateResponse
<1>6. InvalidationOf(m.src) \cap (net \ {m}) = {}
  BY <1>4
<1>7. \A n \in Node \ {m.src} :
        /\ InvalidationOf(n) \cap (net \ {m}) = InvalidationOf(n) \cap net
        /\ n \in pendingRemoteInvalidates' <=> n \in pendingRemoteInvalidates
  BY <1>3, <1>5
<1>8. \A k : k.type \in FetchTypes => (k \in net \ {m} <=> k \in net)
  BY <1>1
<1> QED BY <1>2, <1>4, <1>5, <1>6, <1>7, <1>8, AcknowledgementKeepsPhase

LEMMA LocalInvalidateResponseKeepsPhase ==
  ASSUME PhaseInv, TypeOK', NEW n \in Node, NEW attached \in BOOLEAN, NEW cached,
         OnLocalInvalidateResponse(n, attached, cached)
  PROVE  Phase' /\ InvalidationRound'
<1>1. /\ n \in pendingRemoteInvalidates /\ n \in Invalidating
      /\ pendingRemoteInvalidates' = pendingRemoteInvalidates \ {n}
  BY DEF OnLocalInvalidateResponse, Invalidating
<1>2. InvalidationOf(n) \cap net = {}
  BY <1>1 DEF PhaseInv, InvalidationRound
<1>3. CASE n = Home
  <2>1. OnRemoteInvalidateResponse(Home, attached, net, cached)
    BY <1>3 DEF OnLocalInvalidateResponse
  <2> QED BY <1>1, <1>2, <1>3, <2>1, AcknowledgementKeepsPhase
<1>4. CASE n # Home
  <2>1. PICK m : m = InvalidateResponse(n, attached)
    OBVIOUS
  <2>2. /\ net' = net \cup {m}
        /\ UNCHANGED <<pendingRemoteReads, pendingMemoryReadAccesses, entry, lookups, counts>>
    BY <1>4, <2>1 DEF OnLocalInvalidateResponse, home
  <2>3. /\ m \in InvalidationOf(n) /\ \A k \in Node \ {n} : m \notin InvalidationOf(k)
        /\ m.type \notin FetchTypes
    BY <2>1 DEF InvalidationOf, Invalidate, InvalidateResponse, FetchTypes
  <2>4. InvalidationOf(n) \cap net' = {m} /\ n \notin pendingRemoteInvalidates'
    BY <1>1, <1>2, <2>2, <2>3
  <2>5. \A k \in Node \ {n} :
          /\ InvalidationOf(k) \cap net' = InvalidationOf(k) \cap net
          /\ k \in pendingRemoteInvalidates' <=> k \in pendingRemoteInvalidates
    BY <1>1, <2>2, <2>3
  <2>6. SameMsgsOf(FetchTypes, net)
    BY <2>2, <2>3 DEF SameMsgsOf
  <2> QED BY <1>1, <2>2, <2>4, <2>5, <2>6, InvalidationMoves
<1> QED BY <1>3, <1>4
-----------------------------------------------------------------------------
(* All steps.                                                               *)

LEMMA RecvKeepsPhase ==
  ASSUME PhaseInv, TypeOK', NEW m \in net, RecvMsg(m)
  PROVE  Phase' /\ InvalidationRound'
<1> USE DEF FetchTypes, RoundTypes
<1>1. CASE RefuseLookup(m)
  <2>1. SameMsgsOf(FetchTypes \cup RoundTypes, net)
    BY <1>1 DEF RefuseLookup, Reply, SameMsgsOf
  <2> QED BY <1>1, <2>1, QuietKeepsPhase DEF RefuseLookup, Quiet, home, local, entry
<1>2. CASE OnDirectoryBlockResponse(m)
  <2>1. PICK r : net' = net \ {m} \/ net' = (net \ {m}) \cup {Lookup(m.dst, r.id, r.exclusive)}
    BY <1>2 DEF OnDirectoryBlockResponse
  <2>2. m.type = "Reply"
    BY <1>2 DEF OnDirectoryBlockResponse
  <2>3. SameMsgsOf(FetchTypes \cup RoundTypes, net)
    BY <2>1, <2>2 DEF SameMsgsOf, Lookup
  <2>4. UNCHANGED <<home, pendingRemoteReads, pendingRemoteInvalidates>>
    BY <1>2 DEF OnDirectoryBlockResponse
  <2> QED BY <2>3, <2>4, QuietKeepsPhase DEF Quiet, home, entry
<1>3. CASE OnRemoteEviction(m)
  <2>1. SameMsgsOf(FetchTypes \cup RoundTypes, net)
    BY <1>3 DEF OnRemoteEviction, EvictionResponse, SameMsgsOf
  <2>2. owner' \in {owner, NoNode} /\ sharers' \subseteq sharers
    BY <1>3 DEF OnRemoteEviction, EraseShare
  <2> QED BY <1>3, <2>1, <2>2, QuietKeepsPhase DEF OnRemoteEviction, Quiet, local
<1>4. CASE OnRemoteEvictionResponse(m)
  <2>1. SameMsgsOf(FetchTypes \cup RoundTypes, net)
    BY <1>4 DEF OnRemoteEvictionResponse, SameMsgsOf
  <2> QED BY <1>4, <2>1, QuietKeepsPhase DEF OnRemoteEvictionResponse, Quiet, home, entry
<1> QED BY <1>1, <1>2, <1>3, <1>4, AcceptKeepsPhase, NakKeepsPhase, FetchKeepsPhase,
           FetchReplyKeepsPhase, InvalidateKeepsPhase, InvalidateResponseKeepsPhase
        DEF RecvMsg, OnDirectoryBlockRequest

LEMMA CacheKeepsPhase ==
  ASSUME PhaseInv, TypeOK', NEW n \in Node,
         \/ CacheReads(n) \/ CacheEvicts(n) \/ CacheAnswersRead(n)
         \/ CacheAnswersInvalidate(n) \/ CacheTakesResponse(n)
  PROVE  Phase' /\ InvalidationRound'
<1> USE DEF FetchTypes, RoundTypes
<1>1. CASE CacheReads(n)
  <2>1. PICK i \in MsgID, x \in BOOLEAN : OnLocalRead(n, i, x)
    BY <1>1 DEF CacheReads
  <2>2. SameMsgsOf(FetchTypes \cup RoundTypes, net)
    BY <2>1 DEF OnLocalRead, Lookup, SameMsgsOf
  <2> QED BY <2>1, <2>2, QuietKeepsPhase DEF OnLocalRead, Quiet, home, entry
<1>2. CASE CacheEvicts(n)
  <2>1. PICK attached \in BOOLEAN : OnLocalEviction(n, attached)
    BY <1>2 DEF CacheEvicts
  <2>2. SameMsgsOf(FetchTypes \cup RoundTypes, net)
    BY <2>1 DEF OnLocalEviction, Eviction, SameMsgsOf
  <2>3. owner' \in {owner, NoNode} /\ sharers' \subseteq sharers
    BY <2>1 DEF OnLocalEviction, EraseShare, entry
  <2> QED BY <2>1, <2>2, <2>3, QuietKeepsPhase DEF OnLocalEviction, Quiet
<1>3. CASE CacheAnswersRead(n)
  <2> DEFINE Read(m) == [id |-> m.id, exclusive |-> m.exclusive]
  <2>1. PICK m \in toCache[n], satisfied \in BOOLEAN : OnLocalReadResponse(n, Read(m), satisfied)
    BY <1>3 DEF CacheAnswersRead
  <2> HIDE DEF Read
  <2> QED BY <2>1, LocalReadResponseKeepsPhase
<1>4. CASE CacheAnswersInvalidate(n)
  <2> DEFINE cached == [toCache EXCEPT ![n] = @ \ {CacheInvalidate}]
  <2>1. PICK attached \in BOOLEAN : OnLocalInvalidateResponse(n, attached, cached)
    BY <1>4 DEF CacheAnswersInvalidate
  <2> QED BY <2>1, LocalInvalidateResponseKeepsPhase
<1>5. CASE CacheTakesResponse(n)
  <2>1. SameMsgsOf(FetchTypes \cup RoundTypes, net)
    BY <1>5 DEF CacheTakesResponse, SameMsgsOf
  <2> QED BY <1>5, <2>1, QuietKeepsPhase DEF CacheTakesResponse, Quiet, home, local, entry
<1> QED BY <1>1, <1>2, <1>3, <1>4, <1>5

LEMMA StepPhaseInv == PhaseInv /\ [Next]_vars => PhaseInv'
<1> SUFFICES ASSUME PhaseInv, [Next]_vars PROVE PhaseInv'
  OBVIOUS
<1>1. TypeOK' /\ OneKindOfLookup'
  BY StepTypeOK, StepOneKindOfLookup DEF PhaseInv
<1>2. CASE \E m \in net : RecvMsg(m)
  BY <1>1, <1>2, RecvKeepsPhase DEF PhaseInv
<1>3. CASE \E i \in pendingMemoryReadAccesses : OnLocalMemoryReadResponse(i)
  BY <1>1, <1>3, MemoryReadResponseKeepsPhase DEF PhaseInv
<1>4. CASE OnLocalMemoryWriteResponse
  <2>1. SameMsgsOf(FetchTypes \cup RoundTypes, net)
    BY <1>4 DEF OnLocalMemoryWriteResponse, SameMsgsOf
  <2>2. Phase' /\ InvalidationRound'
    BY <1>4, <2>1, QuietKeepsPhase DEF OnLocalMemoryWriteResponse, Quiet, entry, local
  <2> QED BY <1>1, <2>2 DEF PhaseInv
<1>5. CASE \E n \in Node : \/ CacheReads(n) \/ CacheEvicts(n) \/ CacheAnswersRead(n)
                           \/ CacheAnswersInvalidate(n) \/ CacheTakesResponse(n)
  BY <1>1, <1>5, CacheKeepsPhase DEF PhaseInv
<1>6. CASE UNCHANGED vars
  <2>1. SameMsgsOf(FetchTypes \cup RoundTypes, net)
    BY <1>6 DEF vars, SameMsgsOf
  <2>2. Phase' /\ InvalidationRound'
    BY <1>6, <2>1, QuietKeepsPhase DEF vars, home, local, entry, Quiet
  <2> QED BY <1>1, <2>2 DEF PhaseInv
<1> QED BY <1>2, <1>3, <1>4, <1>5, <1>6 DEF Next

LEMMA PhaseInvariant == Spec => []PhaseInv
BY InitPhaseInv, StepPhaseInv, PTL DEF Spec

(* While lookups wait exactly one fetch or one round of invalidations works *)
(* for them (BIPDirectory.cpp:652, 1042).                                   *)
THEOREM OneFetchAtATime == Spec => []OneFetch
<1>1. PhaseInv => OneFetch
  BY PhaseSuffices DEF PhaseInv
<1> QED BY <1>1, PhaseInvariant, PTL

(* The fetch is for the lookups that wait, and no other node than the one   *)
(* that was asked becomes the owner meanwhile (BIPDirectory.cpp:722, 726).  *)
THEOREM FetchIsForLookup == Spec => []FetchMatchesLookup
<1>1. PhaseInv => FetchMatchesLookup
  BY PhaseSuffices DEF PhaseInv
<1> QED BY <1>1, PhaseInvariant, PTL

(* The acknowledgements of a round are counted right, and the last of them  *)
(* leaves no sharer (BIPDirectory.cpp:1041-1128).                           *)
THEOREM RoundsAreCounted == Spec => []InvalidationRound
<1>1. PhaseInv => InvalidationRound
  BY DEF PhaseInv
<1> QED BY <1>1, PhaseInvariant, PTL
-----------------------------------------------------------------------------
(* What Home grants exclusively.                                            *)

(* Home answers its own lookups without a message.                          *)
NoReplyToHome == \A m \in net : m.type = "Reply" => m.dst # Home

NewReplies ==
  \A m \in net' \ net : m.type = "Reply" =>
    /\ m.dst # Home
    /\ m.exclusive => owner' = m.dst /\ sharers' = {}

NewAnswers ==
  \A m \in toCache'[Home] \ toCache[Home] :
    m.type = "ReadResponse" /\ m.exclusive => owner' = Home /\ sharers' = {}

(* A step that sends no reply, and no response to the cache of Home.        *)
LEMMA NothingGranted ==
  ASSUME \A m \in net' \ net : m.type # "Reply" \/ (m.dst # Home /\ ~m.exclusive),
         \A m \in toCache'[Home] \ toCache[Home] : m.type # "ReadResponse"
  PROVE  NewReplies /\ NewAnswers
BY DEF NewReplies, NewAnswers

(* The responses to P, exclusive only if the entry is left to all of P.     *)
LEMMA RespondGrants ==
  ASSUME TypeOK, NEW P, NEW x, NEW rest \in SUBSET net, Respond(P, x, rest),
         x => \A p \in P : owner' = p.src /\ sharers' = {}
  PROVE  NewReplies /\ NewAnswers
<1> DEFINE own == {p.id : p \in {q \in P : q.src = Home}}
<1>1. /\ \A m \in net' : \/ m \in rest
                         \/ \E p \in P : p.src # Home /\ m = Reply(p.src, p.id, TRUE, x)
      /\ toCache' = [toCache EXCEPT ![Home] = @ \cup {CacheReadResponse(i, x) : i \in own}]
  BY Zenon DEF Respond
<1>2. \A m \in toCache'[Home] \ toCache[Home] : \E i \in own : m = CacheReadResponse(i, x)
  BY <1>1 DEF TypeOK
<1>3. own # {} => \E p \in P : p.src = Home
  OBVIOUS
<1> HIDE DEF own
<1>4. NewReplies
  <2> SUFFICES ASSUME NEW m \in net' \ net, m.type = "Reply"
               PROVE  m.dst # Home /\ (m.exclusive => owner' = m.dst /\ sharers' = {})
    BY DEF NewReplies
  <2>1. PICK p \in P : p.src # Home /\ m = Reply(p.src, p.id, TRUE, x)
    BY <1>1
  <2>2. m.dst = p.src /\ m.exclusive = x
    BY <2>1 DEF Reply
  <2> QED BY <2>1, <2>2
<1>5. NewAnswers
  <2> SUFFICES ASSUME NEW m \in toCache'[Home] \ toCache[Home], m.exclusive
               PROVE  owner' = Home /\ sharers' = {}
    BY DEF NewAnswers
  <2>1. PICK i \in own : m = CacheReadResponse(i, x)
    BY <1>2
  <2>2. m.exclusive = x /\ own # {}
    BY <2>1 DEF CacheReadResponse
  <2> QED BY <1>3, <2>2
<1> QED BY <1>4, <1>5

LEMMA SharedReadsGrant ==
  ASSUME TypeOK, NEW o \in Node \cup {NoNode}, NEW S, NEW rest \in SUBSET net,
         AnswerSharedReads(o, S, rest)
  PROVE  NewReplies /\ NewAnswers
<1> DEFINE readers == {p.src : p \in pendingDirectorySharedReads}
<1>1. /\ owner' \in IF o = NoNode THEN readers ELSE {o}
      /\ sharers' = S \cup (readers \ {owner'})
      /\ Respond(pendingDirectorySharedReads, sharers' = {}, rest)
  BY DEF AnswerSharedReads
<1>2. ASSUME sharers' = {}, NEW p \in pendingDirectorySharedReads PROVE owner' = p.src
  <2>1. p.src \in readers
    OBVIOUS
  <2> QED BY <1>1, <1>2, <2>1
<1> HIDE DEF readers
<1> QED BY <1>1, <1>2, RespondGrants

LEMMA ReadResponseGrants ==
  ASSUME TypeOK, NEW src, NEW i, NEW x \in BOOLEAN, NEW rest \in SUBSET net,
         OnRemoteReadResponse(src, i, x, rest),
         owner \in {NoNode, src}
  PROVE  NewReplies /\ NewAnswers
<1> DEFINE o == IF x /\ owner = src THEN NoNode ELSE owner
           S == IF x /\ owner # src THEN sharers \ {src} ELSE sharers
<1>1. \/ AnswerSharedReads(o, S, rest)
      \/ AnswerExclusiveRead(o, S, i, x, rest)
      \/ InvalidateSharers(o, S, rest)
  BY DEF OnRemoteReadResponse
<1>2. o \in Node \cup {NoNode} /\ (x => o = NoNode)
  BY DEF TypeOK
<1> HIDE DEF o, S
<1>3. CASE AnswerSharedReads(o, S, rest)
  BY <1>2, <1>3, SharedReadsGrant
<1>4. CASE AnswerExclusiveRead(o, S, i, x, rest)
  <2>1. PICK p \in pendingDirectoryExclusiveReads :
          /\ S = {}
          /\ Respond({[id |-> i, src |-> p.src]}, x, rest)
          /\ AddDirectoryShare(o, S, p.src)
    BY <1>4 DEF AnswerExclusiveRead
  <2>2. x => owner' = p.src /\ sharers' = {}
    BY <1>2, <2>1 DEF AddDirectoryShare
  <2> QED BY <2>1, <2>2, RespondGrants
<1>5. CASE InvalidateSharers(o, S, rest)
  <2>1. /\ net' = rest \cup {Invalidate(n) : n \in S \ {Home}}
        /\ toCache' = IF Home \in S THEN [toCache EXCEPT ![Home] = @ \cup {CacheInvalidate}] ELSE toCache
    BY <1>5 DEF InvalidateSharers
  <2>2. \A m \in net' \ net : m.type # "Reply"
    BY <2>1 DEF Invalidate
  <2>3. \A m \in toCache'[Home] \ toCache[Home] : m.type # "ReadResponse"
    BY <2>1 DEF CacheInvalidate, TypeOK
  <2> QED BY <2>2, <2>3, NothingGranted
<1> QED BY <1>1, <1>3, <1>4, <1>5

LEMMA AcknowledgementGrants ==
  ASSUME TypeOK, NEW src, NEW attached, NEW rest \in SUBSET net, NEW cached,
         OnRemoteInvalidateResponse(src, attached, rest, cached),
         cached \in [Node -> SUBSET CacheMsg], cached[Home] \subseteq toCache[Home]
  PROVE  NewReplies /\ NewAnswers
<1>1. PICK p \in pendingDirectoryExclusiveReads :
        \/ /\ owner' = p.src
           /\ sharers' = {}
           /\ net' = IF p.src = Home THEN rest ELSE rest \cup {Reply(p.src, p.id, TRUE, TRUE)}
           /\ toCache' = IF p.src = Home
                         THEN [cached EXCEPT ![Home] = @ \cup {CacheReadResponse(p.id, TRUE)}]
                         ELSE cached
        \/ net' = rest /\ toCache' = cached
  BY DEF OnRemoteInvalidateResponse
<1>2. CASE net' = rest /\ toCache' = cached
  BY <1>2, NothingGranted
<1>3. CASE /\ p.src = Home /\ owner' = p.src /\ sharers' = {} /\ net' = rest
  BY <1>3 DEF NewReplies, NewAnswers
<1>4. CASE /\ p.src # Home /\ owner' = p.src /\ sharers' = {} /\ toCache' = cached
           /\ net' = rest \cup {Reply(p.src, p.id, TRUE, TRUE)}
  <2>1. NewReplies
    BY <1>4 DEF NewReplies, Reply
  <2> QED BY <1>4, <2>1 DEF NewAnswers
<1> QED BY <1>1, <1>2, <1>3, <1>4

LEMMA FetchGrantsNothing ==
  ASSUME TypeOK, NEW pending, NEW x, NEW rest \in SUBSET net, PerformDirectoryFetch(pending, x, rest)
  PROVE  NewReplies /\ NewAnswers
<1>1. \A m \in net' \ net : m.type # "Reply"
  BY DEF PerformDirectoryFetch, Fetch
<1>2. \A m \in toCache'[Home] \ toCache[Home] : m.type # "ReadResponse"
  BY DEF PerformDirectoryFetch, OnRemoteReadCache, CacheRead, TypeOK
<1> QED BY <1>1, <1>2, NothingGranted

LEMMA RecvGrants ==
  ASSUME PhaseInv, NoReplyToHome, NEW m \in net, RecvMsg(m)
  PROVE  NewReplies /\ NewAnswers
<1>1. m \in NetMsg /\ TypeOK /\ net \ {m} \in SUBSET net
  BY DEF PhaseInv, TypeOK
<1>2. CASE RefuseLookup(m)
  <2>1. \A k \in net' \ net : k.dst # Home /\ ~k.exclusive
    BY <1>2 DEF RefuseLookup, Reply
  <2> QED BY <1>2, <2>1, NothingGranted DEF RefuseLookup
<1>3. CASE AcceptExclusiveLookup(m)
  BY <1>1, <1>3, FetchGrantsNothing DEF AcceptExclusiveLookup
<1>4. CASE AcceptSharedLookup(m)
  <2>1. CASE net' = net \ {m} /\ UNCHANGED toCache
    BY <2>1, NothingGranted
  <2> QED BY <1>1, <1>4, <2>1, FetchGrantsNothing DEF AcceptSharedLookup
<1>5. CASE OnDirectoryBlockResponse(m)
  <2>1. m.type = "Reply" /\ m.dst # Home
    BY <1>5 DEF OnDirectoryBlockResponse, NoReplyToHome
  <2>2. \A k \in net' \ net : k.type # "Reply"
    BY <1>5 DEF OnDirectoryBlockResponse, Lookup
  <2>3. toCache'[Home] = toCache[Home]
    BY <1>1, <1>5, <2>1 DEF OnDirectoryBlockResponse, TypeOK
  <2> QED BY <2>2, <2>3, NothingGranted
<1>6. CASE OnRemoteDirectoryNak(m)
  <2>1. CASE net' = net \ {m} /\ UNCHANGED toCache
    BY <2>1, NothingGranted
  <2> QED BY <1>1, <1>6, <2>1, FetchGrantsNothing DEF OnRemoteDirectoryNak
<1>7. CASE OnFetch(m)
  <2>1. \A k \in toCache'[Home] \ toCache[Home] : k.type # "ReadResponse"
    BY <1>1, <1>7 DEF OnFetch, OnRemoteReadCache, CacheRead, TypeOK
  <2> QED BY <1>7, <2>1, NothingGranted DEF OnFetch
<1>8. CASE OnFetchReply(m)
  <2>1. m.type = "FetchReply" /\ m.type \in FetchTypes
    BY <1>8 DEF OnFetchReply, FetchTypes
  <2>2. owner \in {NoNode, m.src}
    BY <2>1, OnlyOneMsg DEF PhaseInv, IsFor
  <2>3. m.exclusive \in BOOLEAN
    BY <1>1, <2>1, MessageFields
  <2> QED BY <1>1, <1>8, <2>2, <2>3, ReadResponseGrants DEF OnFetchReply
<1>9. CASE OnRemoteEviction(m) \/ OnRemoteEvictionResponse(m)
  <2>1. \A k \in net' \ net : k.type # "Reply"
    BY <1>9 DEF OnRemoteEviction, OnRemoteEvictionResponse, EvictionResponse
  <2> QED BY <1>9, <2>1, NothingGranted DEF OnRemoteEviction, OnRemoteEvictionResponse
<1>10. CASE OnRemoteInvalidate(m)
  <2>1. \A k \in toCache'[Home] \ toCache[Home] : k.type # "ReadResponse"
    BY <1>1, <1>10 DEF OnRemoteInvalidate, CacheInvalidate, TypeOK
  <2> QED BY <1>10, <2>1, NothingGranted DEF OnRemoteInvalidate
<1>11. CASE OnInvalidateResponse(m)
  BY <1>1, <1>11, AcknowledgementGrants DEF OnInvalidateResponse, TypeOK
<1> QED BY <1>2, <1>3, <1>4, <1>5, <1>6, <1>7, <1>8, <1>9, <1>10, <1>11
        DEF RecvMsg, OnDirectoryBlockRequest

LEMMA CacheGrants ==
  ASSUME TypeOK, NEW n \in Node,
         \/ CacheReads(n) \/ CacheEvicts(n) \/ CacheAnswersRead(n)
         \/ CacheAnswersInvalidate(n) \/ CacheTakesResponse(n)
  PROVE  NewReplies /\ NewAnswers
<1>1. CASE CacheReads(n)
  <2>1. PICK i \in MsgID, x \in BOOLEAN : OnLocalRead(n, i, x)
    BY <1>1 DEF CacheReads
  <2> QED BY <2>1, NothingGranted DEF OnLocalRead, Lookup
<1>2. CASE CacheEvicts(n)
  <2>1. PICK attached \in BOOLEAN : OnLocalEviction(n, attached)
    BY <1>2 DEF CacheEvicts
  <2>2. \A k \in net' \ net : k.type # "Reply"
    BY <2>1 DEF OnLocalEviction, Eviction
  <2> QED BY <2>1, <2>2, NothingGranted DEF OnLocalEviction
<1>3. CASE CacheAnswersRead(n)
  <2> DEFINE Read(m) == [id |-> m.id, exclusive |-> m.exclusive]
  <2>1. PICK m \in toCache[n], satisfied \in BOOLEAN :
          /\ toCache' = [toCache EXCEPT ![n] = @ \ {m}]
          /\ OnLocalReadResponse(n, Read(m), satisfied)
    BY <1>3 DEF CacheAnswersRead
  <2> HIDE DEF Read
  <2>2. \A k \in net' \ net : k.type # "Reply"
    BY <2>1 DEF OnLocalReadResponse, FetchReply, DirectoryNak
  <2>3. toCache'[Home] \subseteq toCache[Home]
    BY <2>1 DEF TypeOK
  <2> QED BY <2>2, <2>3, NothingGranted
<1>4. CASE CacheAnswersInvalidate(n)
  <2> DEFINE cached == [toCache EXCEPT ![n] = @ \ {CacheInvalidate}]
  <2>1. PICK attached \in BOOLEAN : OnLocalInvalidateResponse(n, attached, cached)
    BY <1>4 DEF CacheAnswersInvalidate
  <2>2. cached \in [Node -> SUBSET CacheMsg] /\ cached[Home] \subseteq toCache[Home]
    BY DEF TypeOK
  <2> HIDE DEF cached
  <2>3. CASE OnRemoteInvalidateResponse(Home, attached, net, cached)
    BY <2>2, <2>3, AcknowledgementGrants
  <2>4. CASE net' = net \cup {InvalidateResponse(n, attached)} /\ toCache' = cached
    BY <2>2, <2>4, NothingGranted DEF InvalidateResponse
  <2> QED BY <2>1, <2>3, <2>4 DEF OnLocalInvalidateResponse
<1>5. CASE CacheTakesResponse(n)
  <2>1. toCache'[Home] \subseteq toCache[Home] /\ net' = net
    BY <1>5 DEF CacheTakesResponse, TypeOK
  <2> QED BY <2>1, NothingGranted
<1> QED BY <1>1, <1>2, <1>3, <1>4, <1>5

LEMMA StepGrants == PhaseInv /\ NoReplyToHome /\ [Next]_vars => NewReplies /\ NewAnswers
<1> SUFFICES ASSUME PhaseInv, NoReplyToHome, [Next]_vars PROVE NewReplies /\ NewAnswers
  OBVIOUS
<1>1. TypeOK
  BY DEF PhaseInv
<1>2. CASE \E m \in net : RecvMsg(m)
  BY <1>2, RecvGrants
<1>3. CASE \E i \in pendingMemoryReadAccesses : OnLocalMemoryReadResponse(i)
  <2>1. PICK i \in pendingMemoryReadAccesses : OnLocalMemoryReadResponse(i)
    BY <1>3
  <2>2. owner \in {NoNode, NoNode}
    BY OnlyOneAtMemory DEF PhaseInv, IsForMemory
  <2> QED BY <1>1, <2>1, <2>2, ReadResponseGrants DEF OnLocalMemoryReadResponse
<1>4. CASE OnLocalMemoryWriteResponse
  BY <1>4, NothingGranted DEF OnLocalMemoryWriteResponse
<1>5. CASE \E n \in Node : \/ CacheReads(n) \/ CacheEvicts(n) \/ CacheAnswersRead(n)
                           \/ CacheAnswersInvalidate(n) \/ CacheTakesResponse(n)
  BY <1>1, <1>5, CacheGrants
<1>6. CASE UNCHANGED vars
  BY <1>6, NothingGranted DEF vars
<1> QED BY <1>2, <1>3, <1>4, <1>5, <1>6 DEF Next

(* Whatever is granted exclusively is granted in the step that leaves the   *)
(* grantee the owner and nobody a sharer (BIPDirectory.cpp:667-719, 727-751,*)
(* 1041-1128).                                                              *)
THEOREM GrantsAreExclusive == Spec => GrantIsExclusive
<1>1. Init => NoReplyToHome
  BY DEF Init, NoReplyToHome
<1>2. PhaseInv /\ NoReplyToHome /\ [Next]_vars => NoReplyToHome'
  BY StepGrants DEF NewReplies, NoReplyToHome
<1>3. PhaseInv /\ NoReplyToHome /\ [Next]_vars =>
        [ /\ \A m \in net' \ net :
               m.type = "Reply" /\ m.exclusive => owner' = m.dst /\ sharers' = {}
          /\ \A m \in toCache'[Home] \ toCache[Home] :
               m.type = "ReadResponse" /\ m.exclusive => owner' = Home /\ sharers' = {} ]_vars
  BY StepGrants DEF NewReplies, NewAnswers
<1> QED BY <1>1, <1>2, <1>3, PhaseInvariant, PTL DEF Spec, GrantIsExclusive
-----------------------------------------------------------------------------
(* No read of a cache is lost or answered twice by the directories.         *)

(* What there is of read i of node n.                                       *)

ReadTypes == {"Lookup", "Reply"}

Data(n, i) == [id |-> i, src |-> n]
ReadOf(i, x) == [id |-> i, exclusive |-> x]

LookupOf(m, n, i) == m.type = "Lookup" /\ m.src = n /\ m.id = i
ReplyOf(m, n, i) == m.type = "Reply" /\ m.dst = n /\ m.id = i

NoRead(n, i) == \A r \in pendingLocalReads[n] : r.id # i
OneRead(n, i, x) ==
  /\ ReadOf(i, x) \in pendingLocalReads[n]
  /\ \A r \in pendingLocalReads[n] : r.id = i => r = ReadOf(i, x)

NoLookup(n, i) == \A m \in net : ~LookupOf(m, n, i)
OneLookup(n, i, x) ==
  /\ Lookup(n, i, x) \in net
  /\ \A m \in net : LookupOf(m, n, i) => m = Lookup(n, i, x)

NotPending(n, i) ==
  Data(n, i) \notin pendingDirectorySharedReads /\ Data(n, i) \notin pendingDirectoryExclusiveReads
IsPending(n, i, x) ==
  /\ x => /\ Data(n, i) \in pendingDirectoryExclusiveReads
          /\ Data(n, i) \notin pendingDirectorySharedReads
  /\ ~x => /\ Data(n, i) \in pendingDirectorySharedReads
           /\ Data(n, i) \notin pendingDirectoryExclusiveReads

NoReply(n, i) == \A m \in net : ~ReplyOf(m, n, i)
OneReply(n, i, x) ==
  \E k \in net : /\ ReplyOf(k, n, i) /\ (x /\ k.satisfied => k.exclusive)
                 /\ \A m \in net : ReplyOf(m, n, i) => m = k

Idle(n, i) == NoRead(n, i) /\ NoLookup(n, i) /\ NotPending(n, i) /\ NoReply(n, i)
Looking(n, i, x) == OneRead(n, i, x) /\ OneLookup(n, i, x) /\ NotPending(n, i) /\ NoReply(n, i)
Waiting(n, i, x) == OneRead(n, i, x) /\ NoLookup(n, i) /\ IsPending(n, i, x) /\ NoReply(n, i)
Replied(n, i, x) == OneRead(n, i, x) /\ NoLookup(n, i) /\ NotPending(n, i) /\ OneReply(n, i, x)
Kept(n, i) == /\ n = Home /\ OneRead(n, i, TRUE) /\ NoLookup(n, i)
              /\ NotPending(n, i) /\ NoReply(n, i)

Tracked(n, i) ==
  \/ Idle(n, i)
  \/ Kept(n, i)
  \/ \E x \in BOOLEAN : Looking(n, i, x) \/ Waiting(n, i, x) \/ Replied(n, i, x)

AllTracked == \A n \in Node, i \in MsgID : Tracked(n, i)
-----------------------------------------------------------------------------
(* The invariant says what RequestTracked says.                             *)

LEMMA MessageIsMade ==
  ASSUME NEW m \in NetMsg
  PROVE  m.type = "Lookup" => m = Lookup(m.src, m.id, m.exclusive)
BY DEF NetMsg, Lookup

(* Each thing of a read puts the read in a stage.                           *)
LEMMA StageOfRead ==
  ASSUME TypeOK, AllTracked, NEW n \in Node, NEW r \in pendingLocalReads[n]
  PROVE  /\ r \in ReadData /\ r = ReadOf(r.id, r.exclusive)
         /\ \/ r.exclusive /\ Kept(n, r.id)
            \/ Looking(n, r.id, r.exclusive)
            \/ Waiting(n, r.id, r.exclusive)
            \/ Replied(n, r.id, r.exclusive)
<1>1. r \in ReadData /\ r.id \in MsgID /\ r.exclusive \in BOOLEAN
  BY DEF TypeOK, ReadData
<1>2. r = ReadOf(r.id, r.exclusive)
  BY <1>1 DEF ReadData, ReadOf
<1>3. ~Idle(n, r.id)
  BY DEF Idle, NoRead
<1>4. \A x : OneRead(n, r.id, x) => x = r.exclusive
  BY DEF OneRead, ReadOf
<1>5. Tracked(n, r.id)
  BY <1>1 DEF AllTracked
<1>6. CASE Kept(n, r.id)
  BY <1>1, <1>2, <1>4, <1>6 DEF Kept
<1>7. CASE \E x \in BOOLEAN : Looking(n, r.id, x) \/ Waiting(n, r.id, x) \/ Replied(n, r.id, x)
  BY <1>1, <1>2, <1>4, <1>7 DEF Looking, Waiting, Replied
<1> QED BY <1>3, <1>5, <1>6, <1>7 DEF Tracked

LEMMA StageOfLookup ==
  ASSUME TypeOK, AllTracked, NEW m \in net, m.type = "Lookup"
  PROVE  /\ m.src \in Node /\ m.id \in MsgID /\ m.exclusive \in BOOLEAN
         /\ m = Lookup(m.src, m.id, m.exclusive)
         /\ Looking(m.src, m.id, m.exclusive)
<1>1. /\ m.src \in Node /\ m.id \in MsgID /\ m.exclusive \in BOOLEAN
      /\ m = Lookup(m.src, m.id, m.exclusive)
  BY MessageFields, MessageIsMade DEF TypeOK
<1>2. ~NoLookup(m.src, m.id)
  BY DEF NoLookup, LookupOf
<1>3. PICK x \in BOOLEAN : Looking(m.src, m.id, x)
  BY <1>1, <1>2 DEF AllTracked, Tracked, Idle, Kept, Waiting, Replied
<1>4. x = m.exclusive
  BY <1>3 DEF Looking, OneLookup, LookupOf, Lookup
<1> QED BY <1>1, <1>3, <1>4

LEMMA StageOfReply ==
  ASSUME TypeOK, AllTracked, NEW m \in net, m.type = "Reply"
  PROVE  /\ m.dst \in Node /\ m.id \in MsgID /\ m.satisfied \in BOOLEAN /\ m.exclusive \in BOOLEAN
         /\ \E x \in BOOLEAN : /\ Replied(m.dst, m.id, x)
                               /\ x /\ m.satisfied => m.exclusive
                               /\ \A k \in net : ReplyOf(k, m.dst, m.id) => k = m
<1>1. m.dst \in Node /\ m.id \in MsgID /\ m.satisfied \in BOOLEAN /\ m.exclusive \in BOOLEAN
  BY MessageFields DEF TypeOK
<1>2. ~NoReply(m.dst, m.id) /\ ReplyOf(m, m.dst, m.id)
  BY DEF NoReply, ReplyOf
<1>3. PICK x \in BOOLEAN : Replied(m.dst, m.id, x)
  BY <1>1, <1>2 DEF AllTracked, Tracked, Idle, Kept, Looking, Waiting
<1>4. PICK k \in net : /\ ReplyOf(k, m.dst, m.id) /\ (x /\ k.satisfied => k.exclusive)
                       /\ \A j \in net : ReplyOf(j, m.dst, m.id) => j = k
  BY <1>3 DEF Replied, OneReply
<1>5. k = m
  BY <1>2, <1>4
<1> QED BY <1>1, <1>3, <1>4, <1>5

LEMMA StageOfPending ==
  ASSUME TypeOK, AllTracked
  PROVE  /\ \A p \in pendingDirectorySharedReads :
              p.src \in Node /\ p.id \in MsgID /\ p = Data(p.src, p.id) /\ Waiting(p.src, p.id, FALSE)
         /\ \A p \in pendingDirectoryExclusiveReads :
              p.src \in Node /\ p.id \in MsgID /\ p = Data(p.src, p.id) /\ Waiting(p.src, p.id, TRUE)
<1>1. \A p \in Pending : p.src \in Node /\ p.id \in MsgID /\ p = Data(p.src, p.id)
  BY DEF TypeOK, LookupData, Pending, Data
<1>2. ASSUME NEW p \in Pending PROVE \E x \in BOOLEAN : Waiting(p.src, p.id, x)
  <2>1. ~NotPending(p.src, p.id)
    BY <1>1 DEF NotPending, Pending
  <2> QED BY <1>1, <2>1 DEF AllTracked, Tracked, Idle, Kept, Looking, Replied
<1>3. ASSUME NEW p \in pendingDirectorySharedReads PROVE Waiting(p.src, p.id, FALSE)
  <2>1. PICK x \in BOOLEAN : Waiting(p.src, p.id, x)
    BY <1>2 DEF Pending
  <2>2. ~x
    BY <1>1, <2>1 DEF Waiting, IsPending, Pending
  <2>3. x = FALSE
    BY <2>2
  <2> QED BY <2>1, <2>3
<1>4. ASSUME NEW p \in pendingDirectoryExclusiveReads PROVE Waiting(p.src, p.id, TRUE)
  <2>1. PICK x \in BOOLEAN : Waiting(p.src, p.id, x)
    BY <1>2 DEF Pending
  <2>2. x
    BY <1>1, <2>1 DEF Waiting, IsPending, Pending
  <2>3. x = TRUE
    BY <2>2
  <2> QED BY <2>1, <2>3
<1> QED BY <1>1, <1>3, <1>4 DEF Pending

LEMMA TrackedSuffices == TypeOK /\ AllTracked => RequestTracked
<1> SUFFICES ASSUME TypeOK, AllTracked PROVE RequestTracked
  OBVIOUS
<1>1. ASSUME NEW n \in Node, NEW r \in pendingLocalReads[n]
      PROVE  \/ \E w \in Whereabouts(n, r) : Whereabouts(n, r) = {w}
             \/ n = Home /\ r.exclusive /\ Whereabouts(n, r) = {}
  <2> DEFINE x == r.exclusive
             Table == IF x THEN pendingDirectoryExclusiveReads ELSE pendingDirectorySharedReads
  <2>1. \A w : w \in Whereabouts(n, r) <=>
          \/ w \in net /\ w = Lookup(n, r.id, x)
          \/ w \in net /\ ReplyOf(w, n, r.id)
          \/ w = Data(n, r.id) /\ w \in Table
    BY DEF Whereabouts, ReplyOf, Data
  <2>2. x \in BOOLEAN
    BY StageOfRead DEF ReadData
  <2>3. LookupOf(Lookup(n, r.id, x), n, r.id)
    BY DEF LookupOf, Lookup
  <2>4. CASE x /\ Kept(n, r.id)
    BY <2>1, <2>3, <2>4 DEF Kept, NoLookup, NoReply, NotPending
  <2>5. CASE Looking(n, r.id, x)
    <3>1. \A w : w \in Whereabouts(n, r) <=> w = Lookup(n, r.id, x)
      BY <2>1, <2>5 DEF Looking, OneLookup, NoReply, NotPending
    <3> QED BY <3>1
  <2>6. CASE Waiting(n, r.id, x)
    <3>1. \A w : w \in Whereabouts(n, r) <=> w = Data(n, r.id)
      BY <2>1, <2>2, <2>3, <2>6 DEF Waiting, IsPending, NoLookup, NoReply
    <3> QED BY <3>1
  <2>7. CASE Replied(n, r.id, x)
    <3>1. PICK k \in net : /\ ReplyOf(k, n, r.id)
                           /\ \A m \in net : ReplyOf(m, n, r.id) => m = k
      BY <2>7 DEF Replied, OneReply
    <3>2. \A w : w \in Whereabouts(n, r) <=> w = k
      BY <2>1, <2>2, <2>3, <2>7, <3>1 DEF Replied, NoLookup, NotPending
    <3> QED BY <3>2
  <2> QED BY <2>4, <2>5, <2>6, <2>7, StageOfRead
<1>2. ASSUME NEW m \in net, m.type = "Lookup"
      PROVE  [id |-> m.id, exclusive |-> m.exclusive] \in pendingLocalReads[m.src]
  BY <1>2, StageOfLookup DEF Looking, OneRead, ReadOf
<1>3. ASSUME NEW p \in Pending
      PROVE  \E r \in pendingLocalReads[p.src] : r.id = p.id
  <2>1. \E x \in BOOLEAN : OneRead(p.src, p.id, x)
    BY StageOfPending DEF Pending, Waiting
  <2> QED BY <2>1 DEF OneRead, ReadOf
<1>4. ASSUME NEW m \in net, m.type = "Reply"
      PROVE  \E r \in pendingLocalReads[m.dst] :
               r.id = m.id /\ (r.exclusive /\ m.satisfied => m.exclusive)
  <2>1. PICK x \in BOOLEAN : OneRead(m.dst, m.id, x) /\ (x /\ m.satisfied => m.exclusive)
    BY <1>4, StageOfReply DEF Replied
  <2>2. ReadOf(m.id, x) \in pendingLocalReads[m.dst]
    BY <2>1 DEF OneRead
  <2> WITNESS ReadOf(m.id, x) \in pendingLocalReads[m.dst]
  <2> QED BY <2>1 DEF ReadOf
<1> QED BY <1>1, <1>2, <1>3, <1>4 DEF RequestTracked
-----------------------------------------------------------------------------
(* Frames.                                                                  *)

LEMMA InitAllTracked == Init => AllTracked
BY DEF Init, AllTracked, Tracked, Idle, NoRead, NoLookup, NotPending, NoReply

(* Nothing of read i of node n changes.                                     *)
SameKey(n, i) ==
  /\ \A m : LookupOf(m, n, i) => (m \in net' <=> m \in net)
  /\ \A m : ReplyOf(m, n, i) => (m \in net' <=> m \in net)
  /\ Data(n, i) \in pendingDirectorySharedReads' <=> Data(n, i) \in pendingDirectorySharedReads
  /\ Data(n, i) \in pendingDirectoryExclusiveReads' <=> Data(n, i) \in pendingDirectoryExclusiveReads
  /\ \A r : r.id = i => (r \in pendingLocalReads'[n] <=> r \in pendingLocalReads[n])

LEMMA SameKeyTracked ==
  ASSUME NEW n, NEW i, Tracked(n, i), SameKey(n, i)
  PROVE  Tracked(n, i)'
<1>1. /\ NoRead(n, i) => NoRead(n, i)'
      /\ \A x : OneRead(n, i, x) => OneRead(n, i, x)'
  BY DEF SameKey, NoRead, OneRead, ReadOf
<1>2. /\ NoLookup(n, i) => NoLookup(n, i)'
      /\ \A x : OneLookup(n, i, x) => OneLookup(n, i, x)'
  BY DEF SameKey, NoLookup, OneLookup, LookupOf, Lookup
<1>3. /\ NotPending(n, i) => NotPending(n, i)'
      /\ \A x : IsPending(n, i, x) => IsPending(n, i, x)'
  BY DEF SameKey, NotPending, IsPending
<1>4. /\ NoReply(n, i) => NoReply(n, i)'
      /\ \A x : OneReply(n, i, x) => OneReply(n, i, x)'
  BY DEF SameKey, NoReply, OneReply
<1>5. CASE Idle(n, i)
  BY <1>1, <1>2, <1>3, <1>4, <1>5 DEF Idle, Tracked
<1>6. CASE Kept(n, i)
  BY <1>1, <1>2, <1>3, <1>4, <1>6 DEF Kept, Tracked
<1>7. ASSUME NEW x \in BOOLEAN, Looking(n, i, x) PROVE Tracked(n, i)'
  BY <1>1, <1>2, <1>3, <1>4, <1>7 DEF Looking, Tracked
<1>8. ASSUME NEW x \in BOOLEAN, Waiting(n, i, x) PROVE Tracked(n, i)'
  BY <1>1, <1>2, <1>3, <1>4, <1>8 DEF Waiting, Tracked
<1>9. ASSUME NEW x \in BOOLEAN, Replied(n, i, x) PROVE Tracked(n, i)'
  BY <1>1, <1>2, <1>3, <1>4, <1>9 DEF Replied, Tracked
<1> QED BY <1>5, <1>6, <1>7, <1>8, <1>9 DEF Tracked

(* A step that touches no read.                                             *)
LEMMA QuietKeepsTracked ==
  ASSUME AllTracked, SameMsgsOf(ReadTypes, net), UNCHANGED <<lookups, pendingLocalReads>>
  PROVE  AllTracked'
<1>1. \A n \in Node, i \in MsgID : SameKey(n, i)
  BY DEF SameMsgsOf, ReadTypes, SameKey, LookupOf, ReplyOf, lookups
<1> QED BY <1>1, SameKeyTracked DEF AllTracked

LEMMA FetchSameReads ==
  ASSUME NEW pending, NEW x, NEW rest, PerformDirectoryFetch(pending, x, rest)
  PROVE  SameMsgsOf(ReadTypes, rest)
BY DEF PerformDirectoryFetch, Fetch, ReadTypes, SameMsgsOf
-----------------------------------------------------------------------------
(* From the cache to Home.                                                  *)

(* A read begins: its number is fresh, so there is nothing of it.           *)
LEMMA ReadBegins ==
  ASSUME TypeOK, AllTracked, NEW n \in Node, CacheReads(n)
  PROVE  AllTracked'
<1>1. PICK i \in MsgID, x \in BOOLEAN : Fresh(i) /\ OnLocalRead(n, i, x)
  BY DEF CacheReads
<1>2. /\ pendingLocalReads' = [pendingLocalReads EXCEPT ![n] = @ \cup {ReadOf(i, x)}]
      /\ net' = net \cup {Lookup(n, i, x)}
      /\ UNCHANGED lookups
  BY <1>1 DEF OnLocalRead, ReadOf, home
<1>3. Idle(n, i)
  <2>1. NoRead(n, i)
    BY <1>1 DEF Fresh, NoRead
  <2>2. \A y : ~OneRead(n, i, y)
    BY <2>1 DEF NoRead, OneRead, ReadOf
  <2> QED BY <2>2 DEF AllTracked, Tracked, Kept, Looking, Waiting, Replied
<1>4. /\ Lookup(n, i, x).type = "Lookup" /\ Lookup(n, i, x).src = n /\ Lookup(n, i, x).id = i
      /\ ReadOf(i, x).id = i
  BY DEF Lookup, ReadOf
<1>5. Looking(n, i, x)'
  <2>1. OneRead(n, i, x)'
    BY <1>2, <1>3 DEF Idle, NoRead, OneRead, TypeOK
  <2>2. OneLookup(n, i, x)'
    BY <1>2, <1>3 DEF Idle, NoLookup, OneLookup
  <2>3. NotPending(n, i)'
    BY <1>2, <1>3 DEF Idle, NotPending, lookups
  <2>4. NoReply(n, i)'
    BY <1>2, <1>3, <1>4 DEF Idle, NoReply, ReplyOf
  <2> QED BY <2>1, <2>2, <2>3, <2>4 DEF Looking
<1>6. ASSUME NEW k \in Node, NEW j \in MsgID, k # n \/ j # i PROVE SameKey(k, j)
  <2>1. \A m : LookupOf(m, k, j) \/ ReplyOf(m, k, j) => (m \in net' <=> m \in net)
    BY <1>2, <1>4, <1>6 DEF LookupOf, ReplyOf
  <2>2. \A r : r.id = j => (r \in pendingLocalReads'[k] <=> r \in pendingLocalReads[k])
    BY <1>2, <1>4, <1>6 DEF TypeOK
  <2> QED BY <1>2, <2>1, <2>2 DEF SameKey, lookups
<1>7. Tracked(n, i)'
  BY <1>5 DEF Tracked
<1> QED BY <1>6, <1>7, SameKeyTracked DEF AllTracked

(* Home refuses a lookup, or puts it in a table.                            *)
LEMMA RequestMovesOn ==
  ASSUME TypeOK, AllTracked, NEW m \in net, OnDirectoryBlockRequest(m)
  PROVE  AllTracked'
<1>1. m.type = "Lookup"
  BY DEF OnDirectoryBlockRequest, RefuseLookup, AcceptExclusiveLookup, AcceptSharedLookup
<1>2. /\ m.src \in Node /\ m.id \in MsgID /\ m.exclusive \in BOOLEAN
      /\ m = Lookup(m.src, m.id, m.exclusive)
      /\ Looking(m.src, m.id, m.exclusive)
  BY <1>1, StageOfLookup
<1>3. PICK n \in Node, i \in MsgID, x \in BOOLEAN :
        n = m.src /\ i = m.id /\ x = m.exclusive /\ m = Lookup(n, i, x) /\ Looking(n, i, x)
  BY <1>2
<1>4. UNCHANGED pendingLocalReads
  BY DEF OnDirectoryBlockRequest, RefuseLookup, AcceptExclusiveLookup, AcceptSharedLookup, local
<1>5. OneRead(n, i, x)'
  BY <1>3, <1>4 DEF Looking, OneRead
<1>6. CASE RefuseLookup(m)
  <2>1. CASE m.src = Home
    BY <1>6, <2>1, QuietKeepsTracked DEF RefuseLookup, SameMsgsOf, home, local
  <2>2. CASE m.src # Home
    <3>1. /\ net' = (net \ {m}) \cup {Reply(n, i, FALSE, FALSE)}
          /\ UNCHANGED <<lookups, pendingLocalReads>>
      BY <1>3, <1>6, <2>2 DEF RefuseLookup, home, local
    <3>2. PICK k : k = Reply(n, i, FALSE, FALSE)
      OBVIOUS
    <3>3. k.type = "Reply" /\ k.dst = n /\ k.id = i /\ k.satisfied = FALSE /\ k \in net'
      BY <3>1, <3>2 DEF Reply
    <3>4. NoLookup(n, i)'
      BY <1>3, <3>1, <3>2, <3>3 DEF Looking, OneLookup, NoLookup, LookupOf
    <3>5. NotPending(n, i)'
      BY <1>3, <3>1 DEF Looking, NotPending, lookups
    <3>6. OneReply(n, i, x)'
      BY ZenonT(60), <1>3, <3>1, <3>2, <3>3 DEF Looking, NoReply, OneReply, ReplyOf
    <3>7. Tracked(n, i)'
      BY <1>5, <3>4, <3>5, <3>6 DEF Replied, Tracked
    <3>8. ASSUME NEW j \in Node, NEW h \in MsgID, j # n \/ h # i PROVE SameKey(j, h)
      BY <1>1, <1>3, <3>1, <3>2, <3>3, <3>8 DEF SameKey, LookupOf, ReplyOf, lookups
    <3> QED BY <3>7, <3>8, SameKeyTracked DEF AllTracked
  <2> QED BY <2>1, <2>2
<1>7. CASE AcceptExclusiveLookup(m) \/ AcceptSharedLookup(m)
  <2>1. /\ SameMsgsOf(ReadTypes, net \ {m})
        /\ x => /\ pendingDirectoryExclusiveReads = {} /\ pendingDirectorySharedReads = {}
                /\ pendingDirectoryExclusiveReads' = {Data(n, i)}
                /\ pendingDirectorySharedReads' = {}
        /\ ~x => /\ pendingDirectoryExclusiveReads' = pendingDirectoryExclusiveReads
                 /\ pendingDirectorySharedReads' = pendingDirectorySharedReads \cup {Data(n, i)}
    <3>1. CASE AcceptExclusiveLookup(m)
      BY <1>3, <3>1, FetchSameReads DEF AcceptExclusiveLookup, Busy, Data
    <3>2. CASE AcceptSharedLookup(m)
      <4>1. SameMsgsOf(ReadTypes, net \ {m})
        BY <3>2, FetchSameReads DEF AcceptSharedLookup, SameMsgsOf
      <4> QED BY <1>3, <3>2, <4>1 DEF AcceptSharedLookup, Data
    <3> QED BY <1>7, <3>1, <3>2
  <2>2. NoLookup(n, i)'
    BY <1>3, <2>1 DEF Looking, OneLookup, NoLookup, LookupOf, SameMsgsOf, ReadTypes
  <2>3. NoReply(n, i)'
    BY <1>3, <2>1 DEF Looking, NoReply, ReplyOf, SameMsgsOf, ReadTypes
  <2>4. IsPending(n, i, x)'
    BY <1>3, <2>1 DEF Looking, NotPending, IsPending
  <2>5. Tracked(n, i)'
    BY <1>5, <2>2, <2>3, <2>4 DEF Waiting, Tracked
  <2>6. ASSUME NEW j \in Node, NEW h \in MsgID, j # n \/ h # i PROVE SameKey(j, h)
    <3>1. Data(j, h) # Data(n, i)
      BY <2>6 DEF Data
    <3>2. /\ Data(j, h) \in pendingDirectorySharedReads' <=> Data(j, h) \in pendingDirectorySharedReads
          /\ Data(j, h) \in pendingDirectoryExclusiveReads' <=> Data(j, h) \in pendingDirectoryExclusiveReads
      BY <2>1, <3>1
    <3>3. \A k : LookupOf(k, j, h) \/ ReplyOf(k, j, h) => (k \in net' <=> k \in net)
      BY <1>1, <1>3, <2>1, <2>6 DEF LookupOf, ReplyOf, SameMsgsOf, ReadTypes
    <3> QED BY <1>4, <3>2, <3>3 DEF SameKey
  <2> QED BY <2>5, <2>6, SameKeyTracked DEF AllTracked
<1> QED BY <1>6, <1>7 DEF OnDirectoryBlockRequest
-----------------------------------------------------------------------------
(* From Home back to the cache.                                             *)

(* No message and no table entry of node n's own for read i changes.        *)
SameMsgsAndReads(n, i) ==
  /\ \A m : LookupOf(m, n, i) \/ ReplyOf(m, n, i) => (m \in net' <=> m \in net)
  /\ \A r : r.id = i => (r \in pendingLocalReads'[n] <=> r \in pendingLocalReads[n])

(* Respond sends what it answers on its way, or ends it at Home, and        *)
(* touches nothing else.                                                    *)
LEMMA RespondMoves ==
  ASSUME TypeOK, NEW P \in SUBSET LookupData, NEW x \in BOOLEAN, NEW rest, Respond(P, x, rest),
         \A m : m.type \in ReadTypes => (m \in rest <=> m \in net),
         NEW n \in Node, NEW i \in MsgID
  PROVE  /\ Data(n, i) \in P /\ NoLookup(n, i) => NoLookup(n, i)'
         /\ Data(n, i) \in P /\ NoReply(n, i) /\ n = Home => NoRead(n, i)' /\ NoReply(n, i)'
         /\ Data(n, i) \in P /\ NoReply(n, i) /\ n # Home =>
              /\ \A y : (y => x) => OneReply(n, i, y)'
              /\ \A y : OneRead(n, i, y) => OneRead(n, i, y)'
         /\ Data(n, i) \notin P => SameMsgsAndReads(n, i)
<1> DEFINE own == {p.id : p \in {q \in P : q.src = Home}}
<1>1. /\ \A m : m \in net' <=> \/ m \in rest
                               \/ \E p \in P : p.src # Home /\ m = Reply(p.src, p.id, TRUE, x)
      /\ pendingLocalReads' = [pendingLocalReads EXCEPT ![Home] = {r \in @ : r.id \notin own}]
  BY Zenon DEF Respond
<1>2. \A p \in P : p = Data(p.src, p.id) /\ p.src \in Node
  BY DEF LookupData, Data
<1>3. i \in own <=> Data(Home, i) \in P
  <2>1. Data(Home, i) \in P => i \in own
    <3> SUFFICES ASSUME Data(Home, i) \in P PROVE i \in own
      OBVIOUS
    <3>1. PICK q \in P : q = Data(Home, i)
      OBVIOUS
    <3>2. q.src = Home /\ q.id = i
      BY <3>1 DEF Data
    <3> QED BY <3>2
  <2>2. i \in own => Data(Home, i) \in P
    <3> SUFFICES ASSUME i \in own PROVE Data(Home, i) \in P
      OBVIOUS
    <3>1. PICK q \in P : q.src = Home /\ q.id = i
      OBVIOUS
    <3> QED BY <1>2, <3>1
  <2> QED BY <2>1, <2>2
<1> HIDE DEF own
<1>0. \A m : LookupOf(m, n, i) \/ ReplyOf(m, n, i) => (m \in rest <=> m \in net)
  BY DEF LookupOf, ReplyOf, ReadTypes
<1>4. /\ \A m, p : m = Reply(p.src, p.id, TRUE, x) => ~LookupOf(m, n, i)
      /\ \A m, p : m = Reply(p.src, p.id, TRUE, x) /\ ReplyOf(m, n, i) => p.src = n /\ p.id = i
  BY DEF Reply, LookupOf, ReplyOf
<1>5. \A m : LookupOf(m, n, i) => (m \in net' <=> m \in net)
  BY <1>0, <1>1, <1>4
<1>6. ASSUME Data(n, i) \in P, NoReply(n, i), n = Home PROVE NoRead(n, i)' /\ NoReply(n, i)'
  <2>1. NoRead(n, i)'
    BY <1>1, <1>3, <1>6 DEF NoRead, TypeOK
  <2>2. NoReply(n, i)'
    <3> SUFFICES ASSUME NEW m \in net', ReplyOf(m, n, i) PROVE FALSE
      BY DEF NoReply
    <3>1. m \notin rest
      BY <1>0, <1>6 DEF NoReply
    <3>2. PICK p \in P : p.src # Home /\ m = Reply(p.src, p.id, TRUE, x)
      BY <1>1, <3>1
    <3> QED BY <1>4, <1>6, <3>2
  <2> QED BY <2>1, <2>2
<1>7. ASSUME Data(n, i) \in P, NoReply(n, i), n # Home
      PROVE  /\ \A y : (y => x) => OneReply(n, i, y)'
             /\ \A y : OneRead(n, i, y) => OneRead(n, i, y)'
  <2>1. PICK p \in P : p = Data(n, i)
    BY <1>7
  <2>2. PICK k : k = Reply(n, i, TRUE, x)
    OBVIOUS
  <2>3. /\ p.src = n /\ p.id = i
        /\ k.type = "Reply" /\ k.dst = n /\ k.id = i /\ k.exclusive = x
    BY <2>1, <2>2 DEF Data, Reply
  <2>4. k \in net' /\ ReplyOf(k, n, i)
    BY <1>1, <1>7, <2>1, <2>2, <2>3 DEF ReplyOf
  <2>5. ASSUME NEW m \in net', ReplyOf(m, n, i) PROVE m = k
    <3>1. m \notin rest
      BY <1>0, <1>7, <2>5 DEF NoReply
    <3>2. PICK q \in P : m = Reply(q.src, q.id, TRUE, x)
      BY <1>1, <3>1
    <3>3. q.src = n /\ q.id = i
      BY <1>4, <2>5, <3>2
    <3> QED BY <2>2, <3>2, <3>3
  <2>6. \A y : (y => x) => OneReply(n, i, y)'
    BY <2>3, <2>4, <2>5 DEF OneReply
  <2>7. pendingLocalReads'[n] = pendingLocalReads[n]
    BY <1>1, <1>7 DEF TypeOK
  <2> QED BY <2>6, <2>7 DEF OneRead
<1>8. ASSUME Data(n, i) \notin P
      PROVE  /\ \A m : ReplyOf(m, n, i) => (m \in net' <=> m \in net)
             /\ \A r : r.id = i => (r \in pendingLocalReads'[n] <=> r \in pendingLocalReads[n])
  <2>1. ASSUME NEW m, ReplyOf(m, n, i) PROVE m \in net' <=> m \in net
    <3>1. ASSUME NEW p \in P, m = Reply(p.src, p.id, TRUE, x) PROVE FALSE
      <4>1. p.src = n /\ p.id = i
        BY <1>4, <2>1, <3>1
      <4> QED BY <1>2, <1>8, <4>1
    <3> QED BY <1>0, <1>1, <2>1, <3>1
  <2>2. \A r : r.id = i => (r \in pendingLocalReads'[n] <=> r \in pendingLocalReads[n])
    BY <1>1, <1>3, <1>8 DEF TypeOK
  <2> QED BY <2>1, <2>2
<1>9. Data(n, i) \in P /\ NoLookup(n, i) => NoLookup(n, i)'
  BY <1>5 DEF NoLookup
<1>10. Data(n, i) \notin P => SameMsgsAndReads(n, i)
  BY <1>5, <1>8 DEF SameMsgsAndReads
<1> QED BY <1>6, <1>7, <1>9, <1>10

(* Home answers all lookups of a table.                                     *)
LEMMA AnswersKeepTracked ==
  ASSUME TypeOK, AllTracked, OneKindOfLookup, NEW x \in BOOLEAN, NEW y \in BOOLEAN, NEW rest,
         y => x,
         NEW P, P = IF y THEN pendingDirectoryExclusiveReads ELSE pendingDirectorySharedReads,
         P # {}, Respond(P, x, rest),
         \A m : m.type \in ReadTypes => (m \in rest <=> m \in net),
         pendingDirectorySharedReads' = {}, pendingDirectoryExclusiveReads' = {}
  PROVE  AllTracked'
<1>1. P \in SUBSET LookupData
  BY DEF TypeOK
<1>2. P = pendingDirectorySharedReads \cup pendingDirectoryExclusiveReads
  BY DEF OneKindOfLookup
<1>3. \A n, i : NotPending(n, i)'
  BY DEF NotPending
<1>4. ASSUME NEW n \in Node, NEW i \in MsgID, Data(n, i) \in P PROVE Tracked(n, i)'
  <2>1. Waiting(n, i, y)
    <3>1. Data(n, i).src = n /\ Data(n, i).id = i
      BY DEF Data
    <3>2. CASE y = TRUE
      BY <1>4, <3>1, <3>2, StageOfPending
    <3>3. CASE y = FALSE
      BY <1>4, <3>1, <3>3, StageOfPending
    <3> QED BY <3>2, <3>3
  <2>2. NoLookup(n, i) /\ NoReply(n, i) /\ OneRead(n, i, y)
    BY <2>1 DEF Waiting
  <2>3. CASE n = Home
    <3>1. NoRead(n, i)' /\ NoReply(n, i)' /\ NoLookup(n, i)'
      BY <1>1, <1>4, <2>2, <2>3, RespondMoves
    <3> QED BY <1>3, <3>1 DEF Idle, Tracked
  <2>4. CASE n # Home
    <3>1. OneReply(n, i, y)' /\ OneRead(n, i, y)' /\ NoLookup(n, i)'
      BY <1>1, <1>4, <2>2, <2>4, RespondMoves
    <3> QED BY <1>3, <3>1 DEF Replied, Tracked
  <2> QED BY <2>3, <2>4
<1>5. ASSUME NEW n \in Node, NEW i \in MsgID, Data(n, i) \notin P PROVE Tracked(n, i)'
  <2>1. SameMsgsAndReads(n, i)
    BY <1>1, <1>5, RespondMoves
  <2>2. /\ Data(n, i) \notin pendingDirectorySharedReads /\ Data(n, i) \notin pendingDirectoryExclusiveReads
        /\ Data(n, i) \notin pendingDirectorySharedReads' /\ Data(n, i) \notin pendingDirectoryExclusiveReads'
    BY <1>2, <1>5
  <2>3. SameKey(n, i)
    BY <2>1, <2>2 DEF SameKey, SameMsgsAndReads
  <2> QED BY <2>3, SameKeyTracked DEF AllTracked
<1> QED BY <1>4, <1>5 DEF AllTracked

LEMMA ReadResponseKeepsTracked ==
  ASSUME TypeOK, AllTracked, OneKindOfLookup,
         NEW src, NEW i, NEW x \in BOOLEAN, NEW rest, OnRemoteReadResponse(src, i, x, rest),
         \A m : m.type \in ReadTypes => (m \in rest <=> m \in net),
         pendingDirectoryExclusiveReads # {} => x,
         \A p \in pendingDirectoryExclusiveReads : p.id = i
  PROVE  AllTracked'
<1>1. PICK o, S : \/ AnswerSharedReads(o, S, rest)
                  \/ AnswerExclusiveRead(o, S, i, x, rest)
                  \/ InvalidateSharers(o, S, rest)
  BY DEF OnRemoteReadResponse
<1>2. CASE AnswerSharedReads(o, S, rest)
  <2>1. PICK y \in BOOLEAN : y = (sharers' = {})
    OBVIOUS
  <2>2. /\ pendingDirectorySharedReads # {}
        /\ Respond(pendingDirectorySharedReads, y, rest)
        /\ pendingDirectorySharedReads' = {} /\ pendingDirectoryExclusiveReads' = {}
    BY <1>2, <2>1 DEF AnswerSharedReads, OneKindOfLookup
  <2> QED BY <2>2, AnswersKeepTracked
<1>3. CASE AnswerExclusiveRead(o, S, i, x, rest)
  <2>1. PICK p \in pendingDirectoryExclusiveReads :
          /\ pendingDirectorySharedReads = {}
          /\ Respond({[id |-> i, src |-> p.src]}, x, rest)
          /\ pendingDirectoryExclusiveReads' = {}
          /\ pendingDirectorySharedReads' = pendingDirectorySharedReads
    BY <1>3 DEF AnswerExclusiveRead
  <2>2. pendingDirectoryExclusiveReads = {[id |-> i, src |-> p.src]}
    <3>1. p = [id |-> i, src |-> p.src]
      BY StageOfPending DEF Data
    <3> QED BY <3>1 DEF OneKindOfLookup
  <2>3. pendingDirectoryExclusiveReads # {} /\ x
    BY <2>1
  <2> QED BY <2>1, <2>2, <2>3, AnswersKeepTracked
<1>4. CASE InvalidateSharers(o, S, rest)
  <2>1. /\ net' = rest \cup {Invalidate(n) : n \in S \ {Home}}
        /\ UNCHANGED <<lookups, pendingLocalReads>>
    BY <1>4 DEF InvalidateSharers
  <2>2. SameMsgsOf(ReadTypes, net)
    BY <2>1 DEF SameMsgsOf, ReadTypes, Invalidate
  <2> QED BY <2>1, <2>2, QuietKeepsTracked
<1> QED BY <1>1, <1>2, <1>3, <1>4

(* The last acknowledgement of a round answers the exclusive lookup; one of *)
(* the home's own is kept.                                                  *)
LEMMA AcknowledgementKeepsTracked ==
  ASSUME TypeOK, AllTracked, OneKindOfLookup,
         NEW src, NEW attached, NEW rest, NEW cached,
         OnRemoteInvalidateResponse(src, attached, rest, cached),
         \A m : m.type \in ReadTypes => (m \in rest <=> m \in net)
  PROVE  AllTracked'
<1>1. PICK p \in pendingDirectoryExclusiveReads :
        \/ /\ pendingDirectoryExclusiveReads' = {}
           /\ net' = IF p.src = Home THEN rest ELSE rest \cup {Reply(p.src, p.id, TRUE, TRUE)}
        \/ net' = rest /\ UNCHANGED pendingDirectoryExclusiveReads
  BY DEF OnRemoteInvalidateResponse
<1>2. UNCHANGED <<pendingDirectorySharedReads, pendingLocalReads>>
  BY DEF OnRemoteInvalidateResponse
<1>3. CASE net' = rest /\ UNCHANGED pendingDirectoryExclusiveReads
  BY <1>2, <1>3, QuietKeepsTracked DEF SameMsgsOf, lookups
<1>4. CASE /\ pendingDirectoryExclusiveReads' = {}
           /\ net' = IF p.src = Home THEN rest ELSE rest \cup {Reply(p.src, p.id, TRUE, TRUE)}
  <2>1. PICK n \in Node, i \in MsgID : n = p.src /\ i = p.id /\ p = Data(n, i) /\ Waiting(n, i, TRUE)
    BY StageOfPending
  <2>2. pendingDirectoryExclusiveReads = {Data(n, i)} /\ pendingDirectorySharedReads = {}
    BY <2>1 DEF OneKindOfLookup
  <2>3. OneRead(n, i, TRUE)' /\ NotPending(n, i)'
    BY <1>2, <1>4, <2>1, <2>2 DEF Waiting, OneRead, NotPending
  <2>4. PICK k : k = Reply(n, i, TRUE, TRUE)
    OBVIOUS
  <2>5. k.type = "Reply" /\ k.dst = n /\ k.id = i /\ k.exclusive = TRUE
    BY <2>4 DEF Reply
  <2>6. net' = IF n = Home THEN rest ELSE rest \cup {k}
    BY <1>4, <2>1, <2>4
  <2>7. NoLookup(n, i)'
    BY <2>1, <2>5, <2>6 DEF Waiting, NoLookup, LookupOf, ReadTypes
  <2>8. CASE n = Home
    <3>1. NoReply(n, i)'
      BY <2>1, <2>6, <2>8 DEF Waiting, NoReply, ReplyOf, ReadTypes
    <3> QED
      <4>1. Tracked(n, i)'
        BY <2>3, <2>7, <2>8, <3>1 DEF Kept, Tracked
      <4>2. ASSUME NEW j \in Node, NEW h \in MsgID, j # n \/ h # i PROVE SameKey(j, h)
        <5>1. Data(j, h) # Data(n, i)
          BY <4>2 DEF Data
        <5>2. \A m : LookupOf(m, j, h) \/ ReplyOf(m, j, h) => (m \in net' <=> m \in net)
          BY <2>6, <2>8 DEF LookupOf, ReplyOf, ReadTypes
        <5> QED BY <1>2, <1>4, <2>2, <5>1, <5>2 DEF SameKey
      <4> QED BY <4>1, <4>2, SameKeyTracked DEF AllTracked
  <2>9. CASE n # Home
    <3>1. OneReply(n, i, TRUE)'
      <4>1. k \in net' /\ ReplyOf(k, n, i) /\ k.exclusive
        BY <2>5, <2>6, <2>9 DEF ReplyOf
      <4>2. \A m \in net' : ReplyOf(m, n, i) => m = k
        BY <2>1, <2>6, <2>9 DEF Waiting, NoReply, ReplyOf, ReadTypes
      <4> QED BY <4>1, <4>2 DEF OneReply
    <3>2. Tracked(n, i)'
      BY <2>3, <2>7, <3>1 DEF Replied, Tracked
    <3>3. ASSUME NEW j \in Node, NEW h \in MsgID, j # n \/ h # i PROVE SameKey(j, h)
      <4>1. Data(j, h) # Data(n, i)
        BY <3>3 DEF Data
      <4>2. \A m : LookupOf(m, j, h) \/ ReplyOf(m, j, h) => (m \in net' <=> m \in net)
        BY <2>5, <2>6, <2>9, <3>3 DEF LookupOf, ReplyOf, ReadTypes
      <4> QED BY <1>2, <1>4, <2>2, <4>1, <4>2 DEF SameKey
    <3> QED BY <3>2, <3>3, SameKeyTracked DEF AllTracked
  <2> QED BY <2>8, <2>9
<1> QED BY <1>1, <1>3, <1>4

(* A reply ends the read, or makes its lookup again under the same number.  *)
LEMMA ReplyKeepsTracked ==
  ASSUME TypeOK, AllTracked, NEW m \in net, OnDirectoryBlockResponse(m)
  PROVE  AllTracked'
<1>1. m.type = "Reply" /\ UNCHANGED lookups
  BY DEF OnDirectoryBlockResponse, home
<1>2. PICK n \in Node, i \in MsgID, x \in BOOLEAN :
        /\ n = m.dst /\ i = m.id
        /\ Replied(n, i, x)
        /\ \A k \in net : ReplyOf(k, n, i) => k = m
  BY <1>1, StageOfReply
<1>3. PICK r \in pendingLocalReads[n] :
        /\ r.id = i
        /\ IF m.satisfied
           THEN /\ pendingLocalReads' = [pendingLocalReads EXCEPT ![n] = @ \ {r}]
                /\ net' = net \ {m}
           ELSE /\ net' = (net \ {m}) \cup {Lookup(n, r.id, r.exclusive)}
                /\ UNCHANGED pendingLocalReads
  BY <1>2 DEF OnDirectoryBlockResponse
<1>4. r = ReadOf(i, x) /\ r.exclusive = x
  BY <1>2, <1>3 DEF Replied, OneRead, ReadOf
<1>5. NotPending(n, i)'
  BY <1>1, <1>2 DEF Replied, NotPending, lookups
<1>6. ReplyOf(m, n, i) /\ \A k, j, h : LookupOf(k, j, h) => k # m
  BY <1>1, <1>2 DEF ReplyOf, LookupOf
<1>7. CASE m.satisfied
  <2>1. pendingLocalReads' = [pendingLocalReads EXCEPT ![n] = @ \ {r}] /\ net' = net \ {m}
    BY <1>3, <1>7
  <2>2. NoRead(n, i)'
    BY <1>2, <1>4, <2>1 DEF Replied, OneRead, NoRead, TypeOK
  <2>3. NoLookup(n, i)' /\ NoReply(n, i)'
    BY <1>2, <2>1 DEF Replied, NoLookup, NoReply
  <2>4. Tracked(n, i)'
    BY <1>5, <2>2, <2>3 DEF Idle, Tracked
  <2>5. ASSUME NEW j \in Node, NEW h \in MsgID, j # n \/ h # i PROVE SameKey(j, h)
    <3>1. \A k : LookupOf(k, j, h) \/ ReplyOf(k, j, h) => (k \in net' <=> k \in net)
      BY <1>2, <1>6, <2>1, <2>5 DEF ReplyOf
    <3>2. \A q : q.id = h => (q \in pendingLocalReads'[j] <=> q \in pendingLocalReads[j])
      BY <1>3, <2>1, <2>5 DEF TypeOK
    <3> QED BY <1>1, <3>1, <3>2 DEF SameKey, lookups
  <2> QED BY <2>4, <2>5, SameKeyTracked DEF AllTracked
<1>8. CASE ~m.satisfied
  <2>1. net' = (net \ {m}) \cup {Lookup(n, i, x)} /\ UNCHANGED pendingLocalReads
    BY <1>3, <1>4, <1>8
  <2>2. PICK l : l = Lookup(n, i, x)
    OBVIOUS
  <2>3. l.type = "Lookup" /\ l.src = n /\ l.id = i
    BY <2>2 DEF Lookup
  <2>4. OneRead(n, i, x)'
    BY <1>2, <2>1 DEF Replied, OneRead
  <2>5. OneLookup(n, i, x)'
    BY <1>2, <2>1 DEF Replied, NoLookup, OneLookup
  <2>6. NoReply(n, i)'
    BY <1>2, <2>1, <2>2, <2>3 DEF NoReply, ReplyOf
  <2>7. Tracked(n, i)'
    BY <1>5, <2>4, <2>5, <2>6 DEF Looking, Tracked
  <2>8. ASSUME NEW j \in Node, NEW h \in MsgID, j # n \/ h # i PROVE SameKey(j, h)
    <3>1. \A k : LookupOf(k, j, h) \/ ReplyOf(k, j, h) => (k \in net' <=> k \in net)
      BY <1>2, <1>6, <2>1, <2>2, <2>3, <2>8 DEF LookupOf, ReplyOf
    <3> QED BY <1>1, <2>1, <3>1 DEF SameKey, lookups
  <2> QED BY <2>7, <2>8, SameKeyTracked DEF AllTracked
<1> QED BY <1>7, <1>8
-----------------------------------------------------------------------------
(* All steps.                                                               *)

LEMMA RecvKeepsTracked ==
  ASSUME PhaseInv, AllTracked, NEW m \in net, RecvMsg(m)
  PROVE  AllTracked'
<1>1. m \in NetMsg /\ TypeOK /\ OneKindOfLookup
  BY DEF PhaseInv, TypeOK
<1>2. m.type \notin ReadTypes => \A k : k.type \in ReadTypes => (k \in net \ {m} <=> k \in net)
  OBVIOUS
<1>3. CASE OnRemoteDirectoryNak(m)
  <2>1. SameMsgsOf(ReadTypes, net \ {m})
    BY <1>3, FetchSameReads DEF OnRemoteDirectoryNak, SameMsgsOf
  <2>2. SameMsgsOf(ReadTypes, net)
    BY <1>3, <2>1 DEF OnRemoteDirectoryNak, SameMsgsOf, ReadTypes
  <2> QED BY <1>3, <2>2, QuietKeepsTracked DEF OnRemoteDirectoryNak
<1>4. CASE OnFetchReply(m)
  <2>1. /\ m.type = "FetchReply" /\ m.type \in FetchTypes /\ m.type \notin ReadTypes
        /\ OnRemoteReadResponse(m.src, m.id, m.exclusive, net \ {m})
    BY <1>4 DEF OnFetchReply, FetchTypes, ReadTypes
  <2>2. IsFor(m.src, m.id, m.exclusive)
    BY <2>1, OnlyOneMsg DEF PhaseInv
  <2>3. /\ m.exclusive \in BOOLEAN
        /\ pendingDirectoryExclusiveReads # {} => m.exclusive
        /\ \A p \in pendingDirectoryExclusiveReads : p.id = m.id
    BY <1>1, <2>1, <2>2, MessageFields DEF IsFor
  <2> QED BY <1>1, <1>2, <2>1, <2>3, ReadResponseKeepsTracked
<1>5. CASE OnInvalidateResponse(m)
  <2>1. m.type \notin ReadTypes
    BY <1>5 DEF OnInvalidateResponse, ReadTypes
  <2> QED BY <1>1, <1>2, <1>5, <2>1, AcknowledgementKeepsTracked DEF OnInvalidateResponse
<1>6. CASE OnFetch(m) \/ OnRemoteEviction(m) \/ OnRemoteEvictionResponse(m) \/ OnRemoteInvalidate(m)
  <2>1. SameMsgsOf(ReadTypes, net)
    BY <1>6 DEF OnFetch, OnRemoteEviction, OnRemoteEvictionResponse, OnRemoteInvalidate,
                EvictionResponse, SameMsgsOf, ReadTypes
  <2>2. UNCHANGED <<lookups, pendingLocalReads>>
    BY <1>6 DEF OnFetch, OnRemoteEviction, OnRemoteEvictionResponse, OnRemoteInvalidate, home, local
  <2> QED BY <2>1, <2>2, QuietKeepsTracked
<1> QED BY <1>1, <1>3, <1>4, <1>5, <1>6, RequestMovesOn, ReplyKeepsTracked DEF RecvMsg

LEMMA CacheKeepsTracked ==
  ASSUME PhaseInv, AllTracked, NEW n \in Node,
         \/ CacheReads(n) \/ CacheEvicts(n) \/ CacheAnswersRead(n)
         \/ CacheAnswersInvalidate(n) \/ CacheTakesResponse(n)
  PROVE  AllTracked'
<1>1. TypeOK /\ OneKindOfLookup
  BY DEF PhaseInv
<1>2. CASE CacheEvicts(n)
  <2>1. PICK attached \in BOOLEAN : OnLocalEviction(n, attached)
    BY <1>2 DEF CacheEvicts
  <2>2. SameMsgsOf(ReadTypes, net)
    BY <2>1 DEF OnLocalEviction, Eviction, SameMsgsOf, ReadTypes
  <2> QED BY <2>1, <2>2, QuietKeepsTracked DEF OnLocalEviction
<1>3. CASE CacheAnswersRead(n)
  <2> DEFINE Read(m) == [id |-> m.id, exclusive |-> m.exclusive]
  <2>1. PICK m \in toCache[n], satisfied \in BOOLEAN : OnLocalReadResponse(n, Read(m), satisfied)
    BY <1>3 DEF CacheAnswersRead
  <2> HIDE DEF Read
  <2>2. SameMsgsOf(ReadTypes, net)
    BY <2>1 DEF OnLocalReadResponse, FetchReply, DirectoryNak, SameMsgsOf, ReadTypes
  <2> QED BY <2>1, <2>2, QuietKeepsTracked DEF OnLocalReadResponse, home
<1>4. CASE CacheAnswersInvalidate(n)
  <2> DEFINE cached == [toCache EXCEPT ![n] = @ \ {CacheInvalidate}]
  <2>1. PICK attached \in BOOLEAN : OnLocalInvalidateResponse(n, attached, cached)
    BY <1>4 DEF CacheAnswersInvalidate
  <2>2. CASE OnRemoteInvalidateResponse(Home, attached, net, cached)
    BY <1>1, <2>2, AcknowledgementKeepsTracked
  <2>3. CASE /\ net' = net \cup {InvalidateResponse(n, attached)}
             /\ UNCHANGED <<home, pendingLocalReads>>
    <3>1. SameMsgsOf(ReadTypes, net)
      BY <2>3 DEF InvalidateResponse, SameMsgsOf, ReadTypes
    <3> QED BY <2>3, <3>1, QuietKeepsTracked DEF home
  <2> QED BY <2>1, <2>2, <2>3 DEF OnLocalInvalidateResponse
<1>5. CASE CacheTakesResponse(n)
  BY <1>5, QuietKeepsTracked DEF CacheTakesResponse, SameMsgsOf, home, local
<1> QED BY <1>1, <1>2, <1>3, <1>4, <1>5, ReadBegins

LEMMA StepAllTracked == PhaseInv /\ AllTracked /\ [Next]_vars => AllTracked'
<1> SUFFICES ASSUME PhaseInv, AllTracked, [Next]_vars PROVE AllTracked'
  OBVIOUS
<1>1. TypeOK /\ OneKindOfLookup
  BY DEF PhaseInv
<1>2. CASE \E m \in net : RecvMsg(m)
  BY <1>2, RecvKeepsTracked
<1>3. CASE \E i \in pendingMemoryReadAccesses : OnLocalMemoryReadResponse(i)
  <2>1. PICK i \in pendingMemoryReadAccesses : OnLocalMemoryReadResponse(i)
    BY <1>3
  <2>2. \A p \in pendingDirectoryExclusiveReads : p.id = i
    BY OnlyOneAtMemory DEF PhaseInv, IsForMemory
  <2> QED BY <1>1, <2>1, <2>2, ReadResponseKeepsTracked DEF OnLocalMemoryReadResponse
<1>4. CASE OnLocalMemoryWriteResponse
  BY <1>4, QuietKeepsTracked DEF OnLocalMemoryWriteResponse, SameMsgsOf, local
<1>5. CASE \E n \in Node : \/ CacheReads(n) \/ CacheEvicts(n) \/ CacheAnswersRead(n)
                           \/ CacheAnswersInvalidate(n) \/ CacheTakesResponse(n)
  BY <1>5, CacheKeepsTracked
<1>6. CASE UNCHANGED vars
  BY <1>6, QuietKeepsTracked DEF vars, SameMsgsOf, home, local
<1> QED BY <1>2, <1>3, <1>4, <1>5, <1>6 DEF Next

(* Every read of a cache is in one place, under refusals, retries and       *)
(* reordering: it is neither lost nor answered twice, and only an exclusive *)
(* one of the home's own may stay in the table although it is answered      *)
(* (BIPDirectory.cpp:1113, 1165, 1219).                                     *)
THEOREM RequestsAreTracked == Spec => []RequestTracked
<1>1. PhaseInv /\ AllTracked => RequestTracked
  BY TrackedSuffices DEF PhaseInv
<1> QED BY <1>1, InitAllTracked, StepAllTracked, PhaseInvariant, PTL DEF Spec
=============================================================================
