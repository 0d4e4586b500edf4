------------------------ MODULE BIPCoherence_proofs ------------------------
(***************************************************************************)
(* The caches and directories of BIPCoherence together: the theorems of    *)
(* its invariants, and that the caches keep the contract of BIPDirectory,  *)
(* for any nodes, message numbers, tags, frames, times and bounds.         *)
(*                                                                         *)
(* C is an instance of CacheFamily; what every handler of a cache keeps is *)
(* proved in CacheFamily_proofs, of whose instance P the handlers are the  *)
(* same.  The first part says so, handler by handler.  D is the directory  *)
(* as the contract sees it, with the lemmas of BIPDirectory_proofs: a step *)
(* of a directory is the same step of D.  The lemmas about what each       *)
(* handler does to the other side come next, then the inductive invariant, *)
(* CoherenceInv, and its steps.                                            *)
(***************************************************************************)
EXTENDS BIPCoherence, BIPDirectory_proofs

USE NodeAssumption, MaxMemoryWritesAssumption

P == INSTANCE CacheFamily_proofs WITH class <- C!BIPMOESI, ID <- MsgID

(* No property is needed of the folds of the two instances but their value. *)
Anything(x, k, a) == TRUE

LEMMA SamePerformC == \A c, m : C!Perform(c, m) = P!Perform(c, m)
BY DEF C!Perform, P!Perform, C!PerformRead, P!PerformRead, C!PerformWrite, P!PerformWrite,
       C!Miss, P!Miss, C!ToLocal, P!ToLocal, C!ToRemote, P!ToRemote, C!Read, P!Read,
       C!ReadResponse, P!ReadResponse, C!WriteResponse, P!WriteResponse

LEMMA SamePerformedC == \A c, q : C!FoldLeft(C!Perform, c, q) = P!Performed(c, q)
BY DEF C!Perform, P!Perform, C!PerformRead, P!PerformRead, C!PerformWrite, P!PerformWrite,
       C!Miss, P!Miss, C!ToLocal, P!ToLocal, C!ToRemote, P!ToRemote, C!Read, P!Read,
       C!ReadResponse, P!ReadResponse, C!WriteResponse, P!WriteResponse, C!FoldLeft, P!FoldLeft,
       C!MapThenFoldSet, P!MapThenFoldSet, C!Max, P!Max,
       P!Performed

LEMMA SameTakeFrameC == \A c, v, t : C!TakeFrame(c, v, t) = P!TakeFrame(c, v, t)
BY DEF C!TakeFrame, P!TakeFrame, C!ToLocal, P!ToLocal, C!ToRemote, P!ToRemote, C!Eviction,
       P!Eviction, C!Invalidate, P!Invalidate

LEMMA SamePrepareC == \A c, t : C!PrepareFreshBlock(c, t) = P!PrepareFreshBlock(c, t)
BY DEF C!PrepareFreshBlock, P!PrepareFreshBlock

LEMMA SameEvictC == \A c : C!Evict(c) = P!Evict(c) /\ C!HasFreeFrame(c) = P!HasFreeFrame(c)
BY DEF C!Evict, P!Evict, C!HasFreeFrame, P!HasFreeFrame, C!Victims, P!Victims, C!Held, P!Held,
       C!Cardinality, P!Cardinality

LEMMA SameLocalRequestC == \A c, m : C!OnLocalRequest(c, m) = P!OnLocalRequest(c, m)
BY ZenonT(60), SamePerformC, SameTakeFrameC, SamePrepareC, SameEvictC
   DEF C!OnLocalRequest, P!OnLocalRequest

AgainC(T, m) == UNION {C!OnLocalRequest(e, m) : e \in T}

AllAgainC(T, q) == C!FoldLeft(AgainC, T, q)

FC == INSTANCE FoldLemmas WITH Op <- P!MadeAgain, Other <- AgainC, Good <- Anything

LEMMA SameAgainC ==
  ASSUME NEW S, NEW T, NEW q \in Seq(S)
  PROVE  AllAgainC(T, q) = P!AllMadeAgain(T, q)
<1>1. \A e, m : P!MadeAgain(e, m) = AgainC(e, m)
  BY SameLocalRequestC DEF P!MadeAgain, AgainC
<1>2. \A e, s : AllAgainC(e, s) = FC!OtherFolded(e, s)
  BY DEF AllAgainC, FC!OtherFolded, C!FoldLeft, FC!FoldLeft, C!MapThenFoldSet,
         FC!MapThenFoldSet, C!Max, FC!Max
<1>3. \A e, s : P!AllMadeAgain(e, s) = FC!Folded(e, s)
  BY DEF P!AllMadeAgain, FC!Folded, P!FoldLeft, FC!FoldLeft, P!MapThenFoldSet,
         FC!MapThenFoldSet, P!Max, FC!Max
<1> DEFINE n == Len(q)
<1>4. n \in Nat /\ DOMAIN q = 1..n
  OBVIOUS
<1> HIDE DEF n
<1>5. FC!OtherFolded(T, q) = FC!Folded(T, q)
  BY <1>1, <1>4, FC!FoldsAgree
<1> QED
  BY <1>2, <1>3, <1>5

LEMMA UnlockBlockIsC ==
  ASSUME NEW c, NEW t
  PROVE  C!UnlockBlock(c, t) =
           LET d == C!FoldLeft(C!Perform, P!Unlocked(c, t), c.waitingOnBlockUnlock[t])
           IN IF d.blocks[t].locked THEN {d}
              ELSE AllAgainC({[d EXCEPT !.waitingOnSetUnlock = <<>>]}, d.waitingOnSetUnlock)
BY DEF C!UnlockBlock, P!Unlocked, AllAgainC, AgainC, C!FoldLeft, C!MapThenFoldSet

LEMMA SameUnlockBlockC ==
  ASSUME P!CacheAssumptions, NEW R, P!Asking \subseteq R, NEW W, NEW c, P!CacheInv(c, R, W),
         NEW t \in Tag, c.blocks[t] \in P!UsedBlock, c.blocks[t].state # "Invalid"
  PROVE  C!UnlockBlock(c, t) = P!UnlockBlock(c, t)
<1> DEFINE d == P!Performed(P!Unlocked(c, t), c.waitingOnBlockUnlock[t])
           f == [d EXCEPT !.waitingOnSetUnlock = <<>>]
           q == d.waitingOnSetUnlock
<1>1. q \in Seq(P!Request)
  BY P!FrameWaitersStay
<1>2. P!UnlockBlock(c, t) = IF d.blocks[t].locked THEN {d} ELSE P!AllMadeAgain({f}, q)
  BY P!UnlockBlockIs
<1>3. C!UnlockBlock(c, t) = IF d.blocks[t].locked THEN {d} ELSE AllAgainC({f}, q)
  BY UnlockBlockIsC, SamePerformedC
<1> HIDE DEF d, f, q
<1>4. AllAgainC({f}, q) = P!AllMadeAgain({f}, q)
  BY <1>1, SameAgainC
<1> QED
  BY <1>2, <1>3, <1>4

LEMMA RemoteReadResponseIsC ==
  ASSUME NEW c, NEW m, NEW attached
  PROVE  C!OnRemoteReadResponse(c, m, attached) =
           IF P!IsAwaited(c, m) THEN C!UnlockBlock(P!Filled(c, m), m.tag)
           ELSE {IF C!BIPMOESI.EvictsSurplus
                 THEN P!ToRemote(c, P!Eviction(m.tag, attached), evictionTime) ELSE c}
<1>1. CASE P!IsAwaited(c, m)
  BY <1>1 DEF C!OnRemoteReadResponse, P!IsAwaited, P!Filled, P!WithBlock
<1>2. CASE ~P!IsAwaited(c, m)
  BY <1>2 DEF C!OnRemoteReadResponse, P!IsAwaited, C!ToRemote, P!ToRemote, C!Eviction, P!Eviction
<1> QED
  BY <1>1, <1>2

LEMMA SameRemoteReadResponseC ==
  ASSUME P!CacheAssumptions, NEW R, P!Asking \subseteq R, NEW W, NEW c, P!CacheInv(c, R, W),
         NEW m, m.tag \in Tag, NEW attached
  PROVE  C!OnRemoteReadResponse(c, m, attached) = P!OnRemoteReadResponse(c, m, attached)
<1>1. CASE P!IsAwaited(c, m)
  <2> DEFINE e == P!Filled(c, m)
             t == m.tag
  <2>1. P!CacheInv(e, R, W) /\ e.blocks[t] \in P!UsedBlock /\ e.blocks[t].state # "Invalid"
    BY <1>1, P!FilledKeeps
  <2>2. /\ C!OnRemoteReadResponse(c, m, attached) = C!UnlockBlock(e, t)
        /\ P!OnRemoteReadResponse(c, m, attached) = P!UnlockBlock(e, t)
    BY <1>1, RemoteReadResponseIsC, P!RemoteReadResponseIs
  <2>3. t \in Tag
    OBVIOUS
  <2> HIDE DEF e, t
  <2> QED
    BY <2>1, <2>2, <2>3, SameUnlockBlockC
<1>2. CASE ~P!IsAwaited(c, m)
  BY <1>2, RemoteReadResponseIsC, P!RemoteReadResponseIs
<1> QED
  BY <1>1, <1>2

LEMMA SameRemoteReadC == \A c, m : C!OnRemoteRead(c, m) = P!OnRemoteRead(c, m)
BY DEF C!OnRemoteRead, P!OnRemoteRead, C!PerformRemoteRead, P!PerformRemoteRead, C!DropBlock,
       P!DropBlock, C!ToLocal, P!ToLocal, C!ToRemote, P!ToRemote, C!Read, P!Read, C!ReadResponse,
       P!ReadResponse

LEMMA SameRespondInvalidateC == \A c, t : C!RespondInvalidate(c, t) = P!RespondInvalidate(c, t)
BY DEF C!RespondInvalidate, P!RespondInvalidate, C!DropBlock, P!DropBlock, C!ToRemote,
       P!ToRemote, C!Read, P!Read, C!InvalidateResponse, P!InvalidateResponse

LEMMA SameRemoteInvalidateC == \A c, m : C!OnRemoteInvalidate(c, m) = P!OnRemoteInvalidate(c, m)
BY SameRespondInvalidateC
   DEF C!OnRemoteInvalidate, P!OnRemoteInvalidate, C!ToLocal, P!ToLocal, C!Invalidate, P!Invalidate

LEMMA SameFromRemoteC ==
  ASSUME P!CacheAssumptions, NEW R, P!Asking \subseteq R, NEW W, NEW c, P!CacheInv(c, R, W),
         NEW m, m.tag \in Tag, NEW attached
  PROVE  C!FromRemote(c, m, attached) = P!FromRemote(c, m, attached)
<1>1. C!OnRemoteReadResponse(c, m, attached) = P!OnRemoteReadResponse(c, m, attached)
  BY SameRemoteReadResponseC
<1> QED
  BY <1>1, SameRemoteReadC, SameRemoteInvalidateC
     DEF C!FromRemote, P!FromRemote, C!ToRemote, P!ToRemote, C!EvictionResponse, P!EvictionResponse

LEMMA SameNewCacheC == \A top : C!NewCache(top) = P!NewCache(top)
BY DEF C!NewCache, P!NewCache

LEMMA SamePropertiesC ==
  \A c :
        /\ C!CacheTypeOK(c) <=> P!CacheTypeOK(c)
        /\ C!LockedIffWaiting(c) <=> P!LockedIffWaiting(c)
        /\ C!FrameWaitersWillWake(c) <=> P!FrameWaitersWillWake(c)
BY DEF C!CacheTypeOK, P!CacheTypeOK, C!LockedIffWaiting, P!LockedIffWaiting,
       C!FrameWaitersWillWake, P!FrameWaitersWillWake, C!Held, P!Held, C!Block, P!Block, C!State,
       P!State, C!Cardinality, P!Cardinality
-----------------------------------------------------------------------------
(* What the directory module takes to be at the caches.                     *)

D == INSTANCE BIPDirectory_proofs WITH toCache <- Asked

(* The lemmas of D need what is assumed of the constants, as D has it.       *)
LEMMA DirectoryAssumed == D!NodeAssumption /\ D!MaxMemoryWritesAssumption
BY NodeAssumption, MaxMemoryWritesAssumption DEF D!IsFiniteSet, IsFiniteSet

(* The messages of s and of the cache's outbox to the directory             *)
SentMsg == [msg : {m \in P!Sending : m.tag = Addr}, delay : P!Delay]

Holds(s, ty) == \E k \in DOMAIN s : s[k].msg.type = ty
HoldsAnswer(s, i) == \E k \in DOMAIN s : s[k].msg.type = "ReadResponse" /\ s[k].msg.id = i
AtMostOne(s, ty) == \A j, k \in DOMAIN s : s[j].msg.type = ty /\ s[k].msg.type = ty => j = k

(* Asked at one node, of what is on the way to the cache, the fetches that  *)
(* it has not answered and what is on the way from it.                      *)
AskedOf(T, R, s) ==
  T \cup {CacheRead(r.id, r.exclusive) : r \in {q \in R : HoldsAnswer(s, q.id)}}
    \cup {j \in {CacheInvalidate} : Holds(s, "InvalidateResponse")}

LEMMA AskedIs ==
  /\ Asked = [n \in Node |-> AskedOf(toCache[n], pendingRemoteReads[n], fromCache[n])]
  /\ Asked' = [n \in Node |-> AskedOf(toCache'[n], pendingRemoteReads'[n], fromCache'[n])]
<1> DEFINE A(T, R, s) == T
             \cup {CacheRead(r.id, r.exclusive) : r \in {q \in R : \E k \in DOMAIN s :
                     s[k].msg.type = "ReadResponse" /\ s[k].msg.id = q.id}}
             \cup {CacheInvalidate : k \in {j \in DOMAIN s : s[j].msg.type = "InvalidateResponse"}}
<1>1. \A T, R, s : A(T, R, s) = AskedOf(T, R, s)
  BY Zenon DEF AskedOf, HoldsAnswer, Holds
<1>2. Asked = [n \in Node |-> A(toCache[n], pendingRemoteReads[n], fromCache[n])]
  BY DEF Asked
<1>3. Asked' = [n \in Node |-> A(toCache'[n], pendingRemoteReads'[n], fromCache'[n])]
  BY DEF Asked
<1> HIDE DEF A
<1> QED
  BY <1>1, <1>2, <1>3

LEMMA InAskedOf ==
  \A T, R, s, m : m \in AskedOf(T, R, s) <=>
    \/ m \in T
    \/ \E r \in R : m = CacheRead(r.id, r.exclusive) /\ HoldsAnswer(s, r.id)
    \/ (m = CacheInvalidate /\ Holds(s, "InvalidateResponse"))
BY DEF AskedOf

LEMMA CacheKinds ==
  /\ \A i, x : CacheRead(i, x).type = "Read" /\ CacheRead(i, x) # CacheInvalidate
  /\ \A i, x : CacheReadResponse(i, x).type = "ReadResponse" /\ CacheReadResponse(i, x) # CacheInvalidate
  /\ CacheInvalidate.type = "Invalidate"
BY DEF CacheRead, CacheReadResponse, CacheInvalidate

(* The same answers are on the way.                                         *)
SameAnswers(s, r) ==
  /\ \A i : HoldsAnswer(r, i) <=> HoldsAnswer(s, i)
  /\ Holds(r, "InvalidateResponse") <=> Holds(s, "InvalidateResponse")

(* Only a cache's answers matter.                                           *)
LEMMA AskedStays ==
  ASSUME NEW T, NEW R, NEW s, NEW r, SameAnswers(s, r)
  PROVE  AskedOf(T, R, r) = AskedOf(T, R, s)
<1>1. \A m : m \in AskedOf(T, R, r) <=> m \in AskedOf(T, R, s)
  BY InAskedOf DEF SameAnswers
<1> QED
  BY <1>1

(* A cache answers: what it was asked is still being asked.                 *)
ReadAnswered(q, s, r) ==
  /\ ~Holds(s, "ReadResponse")
  /\ \A i : HoldsAnswer(r, i) <=> i = q.id
  /\ Holds(r, "InvalidateResponse") <=> Holds(s, "InvalidateResponse")

LEMMA AskedWhenReadIsAnswered ==
  ASSUME NEW T, NEW q, NEW s, NEW r, ReadAnswered(q, s, r), CacheRead(q.id, q.exclusive) \in T
  PROVE  AskedOf(T \ {CacheRead(q.id, q.exclusive)}, {q}, r) = AskedOf(T, {q}, s)
<1> DEFINE a == CacheRead(q.id, q.exclusive)
<1>1. \A i : ~HoldsAnswer(s, i)
  BY DEF ReadAnswered, Holds, HoldsAnswer
<1>2. \A m : m \in AskedOf(T \ {a}, {q}, r) <=>
        m \in T \ {a} \/ m = a \/ (m = CacheInvalidate /\ Holds(s, "InvalidateResponse"))
  <2> HIDE DEF a
  <2>1. \A m : m \in AskedOf(T \ {a}, {q}, r) <=>
          \/ m \in T \ {a}
          \/ \E y \in {q} : m = CacheRead(y.id, y.exclusive) /\ HoldsAnswer(r, y.id)
          \/ (m = CacheInvalidate /\ Holds(r, "InvalidateResponse"))
    BY InAskedOf
  <2> QED
    BY <2>1 DEF ReadAnswered, a
<1>3. \A m : m \in AskedOf(T, {q}, s) <=> m \in T \/ (m = CacheInvalidate /\ Holds(s, "InvalidateResponse"))
  BY <1>1, InAskedOf
<1>4. a \in T
  OBVIOUS
<1> HIDE DEF a
<1>5. \A m : m \in AskedOf(T \ {a}, {q}, r) <=> m \in AskedOf(T, {q}, s)
  BY <1>2, <1>3, <1>4
<1>6. AskedOf(T \ {a}, {q}, r) = AskedOf(T, {q}, s)
  BY <1>5
<1> QED
  BY <1>6 DEF a

InvalidateAnswered(s, r) ==
  (\A i : HoldsAnswer(r, i) <=> HoldsAnswer(s, i)) /\ Holds(r, "InvalidateResponse")

LEMMA AskedWhenInvalidateIsAnswered ==
  ASSUME NEW T, NEW R, NEW s, NEW r, InvalidateAnswered(s, r), CacheInvalidate \in T
  PROVE  AskedOf(T \ {CacheInvalidate}, R, r) = AskedOf(T, R, s)
<1>1. \A m : m \in AskedOf(T \ {CacheInvalidate}, R, r) <=> m \in AskedOf(T, R, s)
  BY InAskedOf DEF InvalidateAnswered
<1> QED
  BY <1>1

(* An answer arrives.                                                       *)
ReadAnswerArrives(T, q, s, r) ==
  /\ CacheRead(q.id, q.exclusive) \notin T
  /\ HoldsAnswer(s, q.id)
  /\ Holds(r, "InvalidateResponse") <=> Holds(s, "InvalidateResponse")

LEMMA AskedWhenReadAnswerArrives ==
  ASSUME NEW T, NEW q, NEW s, NEW r, ReadAnswerArrives(T, q, s, r)
  PROVE  AskedOf(T, {}, r) = AskedOf(T, {q}, s) \ {CacheRead(q.id, q.exclusive)}
         /\ CacheRead(q.id, q.exclusive) \in AskedOf(T, {q}, s)
<1>1. \A m : m \in AskedOf(T, {}, r) <=> m \in T \/ (m = CacheInvalidate /\ Holds(s, "InvalidateResponse"))
  BY InAskedOf DEF ReadAnswerArrives
<1>2. \A m : m \in AskedOf(T, {q}, s) <=>
        \/ m \in T
        \/ m = CacheRead(q.id, q.exclusive)
        \/ (m = CacheInvalidate /\ Holds(s, "InvalidateResponse"))
  <2>1. HoldsAnswer(s, q.id)
    BY DEF ReadAnswerArrives
  <2>2. \A m : m \in AskedOf(T, {q}, s) <=>
          \/ m \in T
          \/ \E y \in {q} : m = CacheRead(y.id, y.exclusive) /\ HoldsAnswer(s, y.id)
          \/ (m = CacheInvalidate /\ Holds(s, "InvalidateResponse"))
    BY InAskedOf
  <2> QED
    BY <2>1, <2>2
<1> DEFINE a == CacheRead(q.id, q.exclusive)
<1>3. a \notin T /\ a # CacheInvalidate
  BY CacheKinds DEF ReadAnswerArrives
<1> HIDE DEF a
<1>4. \A m : m \in AskedOf(T, {q}, s) <=>
        m \in T \/ m = a \/ (m = CacheInvalidate /\ Holds(s, "InvalidateResponse"))
  BY <1>2 DEF a
<1>5. \A m : m \in AskedOf(T, {}, r) <=> m \in AskedOf(T, {q}, s) /\ m # a
  BY <1>1, <1>3, <1>4
<1>6. a \in AskedOf(T, {q}, s) /\ AskedOf(T, {}, r) = AskedOf(T, {q}, s) \ {a}
  BY <1>4, <1>5
<1> QED
  BY <1>6 DEF a

InvalidateAnswerArrives(T, s, r) ==
  /\ CacheInvalidate \notin T
  /\ \A i : HoldsAnswer(r, i) <=> HoldsAnswer(s, i)
  /\ ~Holds(r, "InvalidateResponse") /\ Holds(s, "InvalidateResponse")

LEMMA AskedWhenInvalidateAnswerArrives ==
  ASSUME NEW T, NEW R, NEW s, NEW r, InvalidateAnswerArrives(T, s, r)
  PROVE  AskedOf(T, R, r) = AskedOf(T, R, s) \ {CacheInvalidate} /\ CacheInvalidate \in AskedOf(T, R, s)
<1>1. \A m : m \in AskedOf(T, R, r) <=>
        m \in T \/ (\E y \in R : m = CacheRead(y.id, y.exclusive) /\ HoldsAnswer(s, y.id))
  BY InAskedOf DEF InvalidateAnswerArrives
<1>2. \A m : m \in AskedOf(T, R, s) <=>
        \/ m \in T
        \/ \E y \in R : m = CacheRead(y.id, y.exclusive) /\ HoldsAnswer(s, y.id)
        \/ m = CacheInvalidate
  BY InAskedOf DEF InvalidateAnswerArrives
<1>3. CacheInvalidate \notin T /\ \A i, x : CacheRead(i, x) # CacheInvalidate
  BY CacheKinds DEF InvalidateAnswerArrives
<1>4. \A m : m \in AskedOf(T, R, r) <=> m \in AskedOf(T, R, s) /\ m # CacheInvalidate
  BY <1>1, <1>2, <1>3
<1> QED
  BY <1>2, <1>4

(* The directory asks.                                                      *)
LEMMA AskedGrows ==
  ASSUME NEW T, NEW X, NEW R, NEW Q, NEW s, Q = R \/ ~Holds(s, "ReadResponse")
  PROVE  AskedOf(T \cup X, Q, s) = AskedOf(T, R, s) \cup X /\ AskedOf(T, Q, s) = AskedOf(T, R, s)
<1>1. CASE Q = R
  <2>1. \A m : m \in AskedOf(T \cup X, R, s) <=> m \in AskedOf(T, R, s) \/ m \in X
    BY InAskedOf
  <2> QED
    BY <1>1, <2>1
<1>2. CASE ~Holds(s, "ReadResponse")
  <2>1. \A i : ~HoldsAnswer(s, i)
    BY <1>2 DEF Holds, HoldsAnswer
  <2>2. \A m : m \in AskedOf(T \cup X, Q, s) <=> m \in AskedOf(T, R, s) \/ m \in X
    BY <2>1, InAskedOf
  <2>3. \A m : m \in AskedOf(T, Q, s) <=> m \in AskedOf(T, R, s)
    BY <2>1, InAskedOf
  <2> QED
    BY <2>2, <2>3
<1> QED
  BY <1>1, <1>2

(* What is sent to a cache of the code is sent to the cache of the contract.*)
Follows ==
  /\ toCache' = toCache => Asked' = Asked
  /\ \A h \in Node : \A X : toCache' = [toCache EXCEPT ![h] = @ \cup X] =>
                              Asked' = [Asked EXCEPT ![h] = @ \cup X]

LEMMA DirectoryFollows ==
  ASSUME toCache \in [Node -> SUBSET CacheMsg], fromCache' = fromCache,
         \/ pendingRemoteReads' = pendingRemoteReads
         \/ \A n \in Node : ~Holds(fromCache[n], "ReadResponse")
  PROVE  Follows
<1>1. \A n \in Node : \A T, X :
        /\ AskedOf(T \cup X, pendingRemoteReads'[n], fromCache[n]) = AskedOf(T, pendingRemoteReads[n], fromCache[n]) \cup X
        /\ AskedOf(T, pendingRemoteReads'[n], fromCache[n]) = AskedOf(T, pendingRemoteReads[n], fromCache[n])
  <2> TAKE n \in Node
  <2> TAKE T, X
  <2> DEFINE Q == pendingRemoteReads'[n]
             R == pendingRemoteReads[n]
             s == fromCache[n]
  <2>1. Q = R \/ ~Holds(s, "ReadResponse")
    OBVIOUS
  <2> HIDE DEF Q, R, s
  <2>2. AskedOf(T \cup X, Q, s) = AskedOf(T, R, s) \cup X /\ AskedOf(T, Q, s) = AskedOf(T, R, s)
    BY <2>1, AskedGrows
  <2> QED
    BY <2>2 DEF Q, R, s
<1>2. /\ Asked = [n \in Node |-> AskedOf(toCache[n], pendingRemoteReads[n], fromCache[n])]
      /\ Asked' = [n \in Node |-> AskedOf(toCache'[n], pendingRemoteReads'[n], fromCache[n])]
  BY AskedIs
<1>3. ASSUME toCache' = toCache PROVE Asked' = Asked
  BY <1>1, <1>2, <1>3
<1>4. ASSUME NEW h \in Node, NEW X, toCache' = [toCache EXCEPT ![h] = @ \cup X]
      PROVE  Asked' = [Asked EXCEPT ![h] = @ \cup X]
  <2>1. toCache'[h] = toCache[h] \cup X /\ \A n \in Node \ {h} : toCache'[n] = toCache[n]
    BY <1>4
  <2>2. /\ AskedOf(toCache'[h], pendingRemoteReads'[h], fromCache[h])
             = AskedOf(toCache[h], pendingRemoteReads[h], fromCache[h]) \cup X
        /\ \A n \in Node \ {h} : AskedOf(toCache'[n], pendingRemoteReads'[n], fromCache[n])
                                   = AskedOf(toCache[n], pendingRemoteReads[n], fromCache[n])
    BY ZenonT(60), <1>1, <2>1
  <2> QED
    BY <1>2, <2>2
<1> QED
  BY <1>3, <1>4 DEF Follows
-----------------------------------------------------------------------------
(* A handler of the directory is the same handler of the directory of the   *)
(* contract.                                                                *)
LEMMA SameTables ==
  /\ D!NetMsg = NetMsg /\ D!CacheMsg = CacheMsg /\ D!ReadData = ReadData /\ D!LookupData = LookupData
  /\ D!FetchTargets = FetchTargets /\ D!CacheInvalidate = CacheInvalidate
  /\ \A x : D!Busy(x) = Busy(x)
  /\ \A i, x : D!CacheRead(i, x) = CacheRead(i, x) /\ D!CacheReadResponse(i, x) = CacheReadResponse(i, x)
BY DEF D!NetMsg, NetMsg, D!CacheMsg, CacheMsg, D!ReadData, ReadData, D!LookupData, LookupData,
       D!FetchTargets, FetchTargets, D!CacheInvalidate, CacheInvalidate, D!Busy, Busy,
       D!CacheRead, CacheRead, D!CacheReadResponse, CacheReadResponse

LEMMA SameMessages ==
  /\ \A n, i, x : D!Lookup(n, i, x) = Lookup(n, i, x) /\ D!Fetch(n, i, x) = Fetch(n, i, x)
  /\ \A n, i, x : D!FetchReply(n, i, x) = FetchReply(n, i, x)
  /\ \A n : D!DirectoryNak(n) = DirectoryNak(n) /\ D!EvictionResponse(n) = EvictionResponse(n)
  /\ \A n, i, s, x : D!Reply(n, i, s, x) = Reply(n, i, s, x)
  /\ \A n, b : D!Eviction(n, b) = Eviction(n, b) /\ D!InvalidateResponse(n, b) = InvalidateResponse(n, b)
  /\ \A n : D!Invalidate(n) = Invalidate(n)
BY DEF D!Lookup, Lookup, D!Fetch, Fetch, D!FetchReply, FetchReply, D!DirectoryNak, DirectoryNak,
       D!EvictionResponse, EvictionResponse, D!Reply, Reply, D!Eviction, Eviction,
       D!InvalidateResponse, InvalidateResponse, D!Invalidate, Invalidate

LEMMA FetchSimulates ==
  ASSUME Follows, NEW pending, NEW x, NEW rest, PerformDirectoryFetch(pending, x, rest)
  PROVE  D!PerformDirectoryFetch(pending, x, rest)
<1>1. PICK p \in pending :
        \/ \E target \in FetchTargets \ {Home} :
             /\ net' = rest \cup {Fetch(target, p.id, x)}
             /\ UNCHANGED <<pendingRemoteReads, pendingMemoryReadAccesses, toCache>>
        \/ /\ Home \in FetchTargets
           /\ OnRemoteReadCache(Home, p.id, x)
           /\ net' = rest
           /\ UNCHANGED pendingMemoryReadAccesses
        \/ /\ FetchTargets = {}
           /\ pendingMemoryReadAccesses' = pendingMemoryReadAccesses \cup {p.id}
           /\ net' = rest
           /\ UNCHANGED <<pendingRemoteReads, toCache>>
  BY DEF PerformDirectoryFetch
<1>2. toCache' = toCache => Asked' = Asked
  BY DEF Follows
<1>3. OnRemoteReadCache(Home, p.id, x) => D!OnRemoteReadCache(Home, p.id, x)
  BY SameTables DEF OnRemoteReadCache, D!OnRemoteReadCache, Follows
<1>4. /\ D!FetchTargets = FetchTargets
      /\ \A n, i : D!Fetch(n, i, x) = Fetch(n, i, x)
  BY SameTables, SameMessages
<1> QED
  BY <1>1, <1>2, <1>3, <1>4 DEF D!PerformDirectoryFetch

LEMMA RespondSimulates ==
  ASSUME Follows, NEW P0, NEW x, NEW rest, Respond(P0, x, rest)
  PROVE  D!Respond(P0, x, rest)
<1> DEFINE own == {p.id : p \in {q \in P0 : q.src = Home}}
           X == {CacheReadResponse(i, x) : i \in own}
<1>1. /\ net' = rest \cup {Reply(p.src, p.id, TRUE, x) : p \in {q \in P0 : q.src # Home}}
      /\ pendingLocalReads' = [pendingLocalReads EXCEPT ![Home] = {r \in @ : r.id \notin own}]
      /\ toCache' = [toCache EXCEPT ![Home] = @ \cup X]
  BY DEF Respond
<1>2. Asked' = [Asked EXCEPT ![Home] = @ \cup X]
  <2> HIDE DEF X
  <2> QED
    BY <1>1 DEF Follows
<1> QED
  BY Zenon, <1>1, <1>2 DEF D!Respond, D!Reply, Reply, D!CacheReadResponse, CacheReadResponse

LEMMA ReadResponseSimulates ==
  ASSUME Follows, NEW src, NEW i, NEW x, NEW rest, OnRemoteReadResponse(src, i, x, rest)
  PROVE  D!OnRemoteReadResponse(src, i, x, rest)
<1> DEFINE o == IF x /\ owner = src THEN NoNode ELSE owner
           S == IF x /\ owner # src THEN sharers \ {src} ELSE sharers
<1>1. \/ AnswerSharedReads(o, S, rest)
      \/ AnswerExclusiveRead(o, S, i, x, rest)
      \/ InvalidateSharers(o, S, rest)
  BY DEF OnRemoteReadResponse
<1>2. UNCHANGED <<pendingRemoteReads, pendingEviction>>
  BY DEF OnRemoteReadResponse
<1>3. D!OnRemoteReadResponse(src, i, x, rest)
        <=> /\ \/ D!AnswerSharedReads(o, S, rest)
               \/ D!AnswerExclusiveRead(o, S, i, x, rest)
               \/ D!InvalidateSharers(o, S, rest)
            /\ UNCHANGED <<pendingRemoteReads, pendingEviction>>
  BY DEF D!OnRemoteReadResponse
<1> HIDE DEF o, S
<1>4. AnswerSharedReads(o, S, rest) => D!AnswerSharedReads(o, S, rest)
  BY RespondSimulates DEF AnswerSharedReads, D!AnswerSharedReads, counts, D!counts
<1>5. AnswerExclusiveRead(o, S, i, x, rest) => D!AnswerExclusiveRead(o, S, i, x, rest)
  BY RespondSimulates
     DEF AnswerExclusiveRead, D!AnswerExclusiveRead, counts, D!counts, AddDirectoryShare, D!AddDirectoryShare
<1>6. InvalidateSharers(o, S, rest) => D!InvalidateSharers(o, S, rest)
  BY SameTables, SameMessages
     DEF InvalidateSharers, D!InvalidateSharers, lookups, D!lookups, Follows, Cardinality, D!Cardinality
<1> QED
  BY <1>1, <1>2, <1>3, <1>4, <1>5, <1>6

LEMMA AcknowledgementSimulates ==
  ASSUME Follows, NEW src, NEW attached, NEW rest,
         OnRemoteInvalidateResponse(src, attached, rest, toCache)
  PROVE  D!OnRemoteInvalidateResponse(src, attached, rest, Asked)
BY SameTables, SameMessages
   DEF OnRemoteInvalidateResponse, D!OnRemoteInvalidateResponse, Follows, WriteBack, D!WriteBack,
       AllReceived, D!AllReceived

LEMMA RecvSimulates ==
  ASSUME Follows, NEW m \in NetMsg, RecvMsg(m)
  PROVE  D!RecvMsg(m)
<1> USE DEF vars, home, local, entry, lookups, counts, D!vars, D!home, D!local, D!entry, D!lookups, D!counts
<1>0. toCache' = toCache => Asked' = Asked
  BY DEF Follows
<1>10. m.type \in {"Reply", "Fetch", "Invalidate"} => m.dst \in Node
  BY DEF NetMsg
<1>1. CASE OnDirectoryBlockRequest(m)
  <2>1. CASE RefuseLookup(m)
    <3>1. D!RefuseLookup(m)
      BY <1>0, <2>1, SameTables, SameMessages DEF RefuseLookup, D!RefuseLookup
    <3> QED
      BY <3>1 DEF D!OnDirectoryBlockRequest, D!RecvMsg
  <2>2. CASE AcceptExclusiveLookup(m)
    <3>1. D!PerformDirectoryFetch(pendingDirectoryExclusiveReads', TRUE, net \ {m})
      BY <2>2, FetchSimulates DEF AcceptExclusiveLookup
    <3>2. D!AcceptExclusiveLookup(m)
      BY <2>2, <3>1, SameTables DEF AcceptExclusiveLookup, D!AcceptExclusiveLookup
    <3> QED
      BY <3>2 DEF D!OnDirectoryBlockRequest, D!RecvMsg
  <2>3. CASE AcceptSharedLookup(m)
    <3>1. ~AlreadyFetching => D!PerformDirectoryFetch(pendingDirectorySharedReads', FALSE, net \ {m})
      BY <2>3, FetchSimulates DEF AcceptSharedLookup
    <3>2. D!AcceptSharedLookup(m)
      BY <1>0, <2>3, <3>1, SameTables DEF AcceptSharedLookup, D!AcceptSharedLookup, AlreadyFetching, D!AlreadyFetching
    <3> QED
      BY <3>2 DEF D!OnDirectoryBlockRequest, D!RecvMsg
  <2> QED
    BY <1>1, <2>1, <2>2, <2>3 DEF OnDirectoryBlockRequest
<1>2. CASE OnDirectoryBlockResponse(m)
  <2>1. D!OnDirectoryBlockResponse(m)
    <3>1. m.type = "Reply" /\ UNCHANGED <<home, pendingRemoteReads, pendingRemoteInvalidates, pendingEviction>>
      BY <1>2 DEF OnDirectoryBlockResponse
    <3>2. PICK r \in pendingLocalReads[m.dst] :
            /\ r.id = m.id
            /\ IF m.satisfied
               THEN /\ pendingLocalReads' = [pendingLocalReads EXCEPT ![m.dst] = @ \ {r}]
                    /\ toCache' = [toCache EXCEPT ![m.dst] = @ \cup {CacheReadResponse(m.id, m.exclusive)}]
                    /\ net' = net \ {m}
               ELSE /\ net' = (net \ {m}) \cup {Lookup(m.dst, r.id, r.exclusive)}
                    /\ UNCHANGED <<pendingLocalReads, toCache>>
      BY <1>2 DEF OnDirectoryBlockResponse
    <3> QED
      BY <1>0, <1>10, <3>1, <3>2, SameTables, SameMessages DEF D!OnDirectoryBlockResponse, Follows
  <2> QED
    BY <2>1 DEF D!RecvMsg
<1>3. CASE OnRemoteDirectoryNak(m)
  <2>1. D!OnRemoteDirectoryNak(m)
    <3>1. PerformDirectoryFetch(pendingDirectorySharedReads, FALSE, net \ {m}) =>
            D!PerformDirectoryFetch(pendingDirectorySharedReads, FALSE, net \ {m})
      BY FetchSimulates
    <3>2. PerformDirectoryFetch(pendingDirectoryExclusiveReads, TRUE, net \ {m}) =>
            D!PerformDirectoryFetch(pendingDirectoryExclusiveReads, TRUE, net \ {m})
      BY FetchSimulates
    <3> QED
      BY <1>0, <1>3, <3>1, <3>2 DEF OnRemoteDirectoryNak, D!OnRemoteDirectoryNak
  <2> QED
    BY <2>1 DEF D!RecvMsg
<1>4. CASE OnFetch(m)
  <2>1. D!OnFetch(m)
    BY <1>4, <1>10, SameTables DEF OnFetch, D!OnFetch, OnRemoteReadCache, D!OnRemoteReadCache, Follows
  <2> QED
    BY <2>1 DEF D!RecvMsg
<1>5. CASE OnFetchReply(m)
  <2>1. D!OnFetchReply(m)
    BY <1>5, ReadResponseSimulates DEF OnFetchReply, D!OnFetchReply
  <2> QED
    BY <2>1 DEF D!RecvMsg
<1>6. CASE OnRemoteEviction(m)
  <2>1. D!OnRemoteEviction(m)
    BY <1>0, <1>6, SameMessages DEF OnRemoteEviction, D!OnRemoteEviction, EraseShare, D!EraseShare, WriteBack, D!WriteBack
  <2> QED
    BY <2>1 DEF D!RecvMsg
<1>7. CASE OnRemoteEvictionResponse(m)
  <2>1. D!OnRemoteEvictionResponse(m)
    BY <1>0, <1>7 DEF OnRemoteEvictionResponse, D!OnRemoteEvictionResponse
  <2> QED
    BY <2>1 DEF D!RecvMsg
<1>8. CASE OnRemoteInvalidate(m)
  <2>1. D!OnRemoteInvalidate(m)
    BY <1>8, <1>10, SameTables DEF OnRemoteInvalidate, D!OnRemoteInvalidate, Follows
  <2> QED
    BY <2>1 DEF D!RecvMsg
<1>9. CASE OnInvalidateResponse(m)
  <2>1. D!OnInvalidateResponse(m)
    BY <1>9, AcknowledgementSimulates DEF OnInvalidateResponse, D!OnInvalidateResponse
  <2> QED
    BY <2>1 DEF D!RecvMsg
<1> QED
  BY <1>1, <1>2, <1>3, <1>4, <1>5, <1>6, <1>7, <1>8, <1>9 DEF RecvMsg
-----------------------------------------------------------------------------
(* What is on the way to a directory.                                       *)
Sent(s, out) == FoldLeft(AppendAboutAddr, s, out)

Once(out, k, ty) ==
  \A i, j \in 1..k : out[i].msg.type = ty /\ out[j].msg.type = ty => i = j

(* Of the first k messages of x.out those about Addr are added to x.before. *)
SentOf(x, k, a) ==
  /\ a \in Seq(SentMsg)
  /\ \A i \in DOMAIN x.before : i \in DOMAIN a /\ a[i] = x.before[i]
  /\ \A i \in DOMAIN a \ DOMAIN x.before : \E j \in 1..k : a[i] = x.out[j]
  /\ \A j \in 1..k : x.out[j].msg.tag = Addr => \E i \in DOMAIN a \ DOMAIN x.before : a[i] = x.out[j]
  /\ \A ty : Once(x.out, k, ty) => \A i, j \in DOMAIN a \ DOMAIN x.before :
                                     a[i].msg.type = ty /\ a[j].msg.type = ty => i = j

Fa == INSTANCE FoldLemmas WITH Op <- AppendAboutAddr, Other <- AppendAboutAddr, Good <- SentOf

LEMMA OneMoreIsSent ==
  ASSUME NEW x, NEW k, k \in Nat \ {0}, NEW a, SentOf(x, k-1, a), x.before \in Seq(SentMsg),
         x.out[k] \in [msg : P!Sending, delay : P!Delay]
  PROVE  SentOf(x, k, AppendAboutAddr(a, x.out[k]))
<1> DEFINE e == x.out[k]
<1>1. \A j \in 1..k : j = k \/ j \in 1..(k-1)
  OBVIOUS
<1>2. k \in 1..k /\ \A j \in 1..(k-1) : j \in 1..k /\ j # k
  OBVIOUS
<1>3. \A ty : Once(x.out, k, ty) => Once(x.out, k-1, ty)
  BY <1>2 DEF Once
<1>4. /\ a \in Seq(SentMsg)
      /\ \A i \in DOMAIN x.before : i \in DOMAIN a /\ a[i] = x.before[i]
      /\ \A i \in DOMAIN a \ DOMAIN x.before : \E j \in 1..(k-1) : a[i] = x.out[j]
      /\ \A j \in 1..(k-1) : x.out[j].msg.tag = Addr => \E i \in DOMAIN a \ DOMAIN x.before : a[i] = x.out[j]
      /\ \A ty : Once(x.out, k-1, ty) => \A i, j \in DOMAIN a \ DOMAIN x.before :
                                           a[i].msg.type = ty /\ a[j].msg.type = ty => i = j
  BY DEF SentOf
<1>5. CASE e.msg.tag # Addr
  <2>1. AppendAboutAddr(a, e) = a
    BY <1>5 DEF AppendAboutAddr
  <2>2. \A j \in 1..k : x.out[j].msg.tag = Addr => j \in 1..(k-1)
    BY <1>1, <1>5
  <2> HIDE DEF e
  <2>3. SentOf(x, k, a)
    BY <1>2, <1>3, <1>4, <2>2 DEF SentOf
  <2> QED
    BY <2>1, <2>3 DEF e
<1>6. CASE e.msg.tag = Addr
  <2> DEFINE b == Append(a, e)
             d == DOMAIN x.before
             n == Len(a)+1
  <2>1. e \in SentMsg
    BY <1>6 DEF SentMsg
  <2>2. AppendAboutAddr(a, e) = b
    BY <1>6 DEF AppendAboutAddr
  <2>3. e = x.out[k]
    OBVIOUS
  <2> HIDE DEF e
  <2>4. /\ b \in Seq(SentMsg) /\ Len(a) \in Nat /\ DOMAIN a = 1..Len(a) /\ DOMAIN b = 1..n
        /\ b[n] = e /\ n \in 1..n
        /\ \A i \in 1..Len(a) : b[i] = a[i] /\ i \in 1..n /\ i # n
        /\ \A i \in 1..n : i = n \/ i \in 1..Len(a)
    <3>1. b \in Seq(SentMsg) /\ Len(a) \in Nat /\ Len(b) = n /\ b[n] = e
          /\ \A i \in 1..Len(a) : b[i] = a[i]
      BY <1>4, <2>1, P!AppendTyped
    <3>2. DOMAIN a = 1..Len(a) /\ DOMAIN b = 1..n
      BY <1>4, <3>1, P!Elements
    <3> HIDE DEF b
    <3> QED
      BY <3>1, <3>2
  <2> HIDE DEF b, n
  <2>5. d \subseteq DOMAIN a
    BY <1>4
  <2>6. n \notin d /\ n \in DOMAIN b
    BY <2>4, <2>5
  <2> HIDE DEF d
  <2>7. \A i \in DOMAIN b \ d : i # n => i \in DOMAIN a \ d /\ b[i] = a[i]
    BY <2>4
  <2>8. \A i \in DOMAIN a : i \in DOMAIN b /\ b[i] = a[i]
    BY <2>4
  <2>9. \A i \in d : i \in DOMAIN b /\ b[i] = x.before[i]
    BY <1>4, <2>5, <2>8 DEF d
  <2>10. \A i \in DOMAIN b \ d : \E j \in 1..k : b[i] = x.out[j]
    BY <1>2, <1>4, <2>3, <2>4, <2>7 DEF d
  <2>11. \A j \in 1..k : x.out[j].msg.tag = Addr => \E i \in DOMAIN b \ d : b[i] = x.out[j]
    <3> SUFFICES ASSUME NEW j \in 1..k, x.out[j].msg.tag = Addr
                 PROVE  \E i \in DOMAIN b \ d : b[i] = x.out[j]
      OBVIOUS
    <3>1. CASE j = k
      BY <2>3, <2>4, <2>6, <3>1
    <3>2. CASE j \in 1..(k-1)
      BY <1>4, <2>8, <3>2 DEF d
    <3> QED
      BY <1>1, <3>1, <3>2
  <2>12. \A ty : Once(x.out, k, ty) => \A i, j \in DOMAIN b \ d :
                                         b[i].msg.type = ty /\ b[j].msg.type = ty => i = j
    <3> SUFFICES ASSUME NEW ty, Once(x.out, k, ty), NEW i \in DOMAIN b \ d, NEW j \in DOMAIN b \ d,
                        b[i].msg.type = ty, b[j].msg.type = ty
                 PROVE  i = j
      OBVIOUS
    <3>1. Once(x.out, k-1, ty)
      BY <1>3
    <3>2. ASSUME NEW h \in DOMAIN a \ d, a[h].msg.type = ty PROVE e.msg.type # ty
      <4>1. PICK l \in 1..(k-1) : a[h] = x.out[l]
        BY <1>4 DEF d
      <4> QED
        BY <1>2, <2>3, <3>2, <4>1 DEF Once
    <3>3. CASE i = n /\ j = n
      BY <3>3
    <3>4. CASE i = n /\ j # n
      BY <2>4, <2>7, <3>2, <3>4
    <3>5. CASE i # n /\ j = n
      BY <2>4, <2>7, <3>2, <3>5
    <3>6. CASE i # n /\ j # n
      BY <1>4, <2>7, <3>1, <3>6 DEF d
    <3> QED
      BY <3>3, <3>4, <3>5, <3>6
  <2>13. SentOf(x, k, b)
    BY <2>4, <2>9, <2>10, <2>11, <2>12 DEF SentOf, d
  <2> QED
    BY <2>2, <2>13 DEF e
<1> QED
  BY <1>5, <1>6

LEMMA SentIs ==
  ASSUME NEW s \in Seq(SentMsg), NEW out \in P!Outbox(P!Sending), NEW r, r = Sent(s, out)
  PROVE  SentOf([before |-> s, out |-> out], Len(out), r)
<1> DEFINE n == Len(out)
           x == [before |-> s, out |-> out]
<1>1. /\ n \in Nat /\ DOMAIN out = 1..n
      /\ \A k \in 1..n : out[k] \in [msg : P!Sending, delay : P!Delay]
  <2> DEFINE E == [msg : P!Sending, delay : P!Delay]
  <2>1. out \in Seq(E)
    BY DEF P!Outbox
  <2> HIDE DEF E
  <2>2. n \in Nat /\ DOMAIN out = 1..n /\ \A k \in 1..n : out[k] \in E
    BY <2>1, P!Elements
  <2> QED
    BY <2>2 DEF E
<1> HIDE DEF n
<1>2. r = Fa!Folded(s, out)
  BY DEF Sent, Fa!Folded, Fa!FoldLeft, FoldLeft, Fa!MapThenFoldSet, MapThenFoldSet, Fa!Max, Max
<1>3. x.before = s /\ x.out = out
  OBVIOUS
<1> HIDE DEF x
<1>4. SentOf(x, 0, s)
  <2>1. 1..0 = {}
    OBVIOUS
  <2> QED
    BY <1>3, <2>1 DEF SentOf
<1>5. \A a : \A k \in 1..n : SentOf(x, k-1, a) => SentOf(x, k, AppendAboutAddr(a, out[k]))
  <2> SUFFICES ASSUME NEW a, NEW k \in 1..n, SentOf(x, k-1, a)
               PROVE  SentOf(x, k, AppendAboutAddr(a, out[k]))
    OBVIOUS
  <2>1. k \in Nat \ {0} /\ x.out[k] \in [msg : P!Sending, delay : P!Delay] /\ x.before \in Seq(SentMsg)
    BY <1>1, <1>3
  <2>2. SentOf(x, k, AppendAboutAddr(a, x.out[k]))
    BY <2>1, OneMoreIsSent
  <2> QED
    BY <1>3, <2>2
<1>6. SentOf(x, n, r)
  BY <1>1, <1>2, <1>4, <1>5, Fa!FoldKeeps
<1> QED
  BY <1>6 DEF x, n

Answers == {"ReadResponse", "InvalidateResponse"}
Quietly(out) == \A ty \in Answers : ~Holds(out, ty)

LEMMA SentHolds ==
  ASSUME NEW s \in Seq(SentMsg), NEW out \in P!Outbox(P!Sending), NEW r, r = Sent(s, out)
  PROVE  /\ r \in Seq(SentMsg)
         /\ \A ty : Holds(s, ty) => Holds(r, ty)
         /\ \A ty : Holds(r, ty) => Holds(s, ty) \/ Holds(out, ty)
         /\ \A i : HoldsAnswer(s, i) => HoldsAnswer(r, i)
         /\ \A i : HoldsAnswer(r, i) => HoldsAnswer(s, i) \/ HoldsAnswer(out, i)
         /\ \A k \in DOMAIN out : out[k].msg.tag = Addr => \E j \in DOMAIN r : r[j] = out[k]
         /\ \A ty : AtMostOne(s, ty) /\ AtMostOne(out, ty) /\ ~(Holds(s, ty) /\ Holds(out, ty))
                      => AtMostOne(r, ty)
<1> DEFINE d == DOMAIN s
<1>1. DOMAIN out = 1..Len(out)
  BY P!Elements DEF P!Outbox
<1>2. /\ r \in Seq(SentMsg)
      /\ \A i \in d : i \in DOMAIN r /\ r[i] = s[i]
      /\ \A i \in DOMAIN r \ d : \E j \in DOMAIN out : r[i] = out[j]
      /\ \A j \in DOMAIN out : out[j].msg.tag = Addr => \E i \in DOMAIN r \ d : r[i] = out[j]
      /\ \A ty : AtMostOne(out, ty) => \A i, j \in DOMAIN r \ d :
                                         r[i].msg.type = ty /\ r[j].msg.type = ty => i = j
  <2>1. SentOf([before |-> s, out |-> out], Len(out), r)
    BY SentIs
  <2>2. \A ty : AtMostOne(out, ty) <=> Once(out, Len(out), ty)
    BY <1>1 DEF AtMostOne, Once
  <2> QED
    BY SMTT(60), <1>1, <2>1, <2>2 DEF SentOf
<1>3. \A ty : Holds(s, ty) => Holds(r, ty)
  BY <1>2 DEF Holds
<1>4. \A ty : Holds(r, ty) => Holds(s, ty) \/ Holds(out, ty)
  BY <1>2 DEF Holds
<1>5. \A i : HoldsAnswer(s, i) => HoldsAnswer(r, i)
  BY <1>2 DEF HoldsAnswer
<1>6. \A i : HoldsAnswer(r, i) => HoldsAnswer(s, i) \/ HoldsAnswer(out, i)
  BY <1>2 DEF HoldsAnswer
<1>7. ASSUME NEW ty, AtMostOne(s, ty), AtMostOne(out, ty), ~(Holds(s, ty) /\ Holds(out, ty))
      PROVE  AtMostOne(r, ty)
  <2> SUFFICES ASSUME NEW i \in DOMAIN r, NEW j \in DOMAIN r, r[i].msg.type = ty, r[j].msg.type = ty
               PROVE  i = j
    BY DEF AtMostOne
  <2>1. CASE i \in d /\ j \in d
    BY <1>2, <1>7, <2>1 DEF AtMostOne
  <2>2. CASE i \notin d /\ j \notin d
    BY <1>2, <1>7, <2>2
  <2>3. ASSUME NEW h \in d, NEW l \in DOMAIN r \ d, r[h].msg.type = ty, r[l].msg.type = ty PROVE FALSE
    <3>1. Holds(s, ty)
      BY <1>2, <2>3 DEF Holds
    <3>2. Holds(out, ty)
      BY <1>2, <2>3 DEF Holds
    <3> QED
      BY <1>7, <3>1, <3>2
  <2> QED
    BY <2>1, <2>2, <2>3
<1> QED
  BY <1>2, <1>3, <1>4, <1>5, <1>6, <1>7

(* What the handlers send.                                                  *)
LEMMA AnswerIsHeld == \A s, i : HoldsAnswer(s, i) => Holds(s, "ReadResponse")
BY DEF HoldsAnswer, Holds

LEMMA AskingIsQuiet ==
  ASSUME NEW out \in P!Outbox(P!Asking)
  PROVE  Quietly(out) /\ out \in P!Outbox(P!Sending)
<1> DEFINE E == [msg : P!Asking, delay : P!Delay]
           F == [msg : P!Sending, delay : P!Delay]
<1>1. \A e \in E : e.msg.type \notin Answers
  BY DEF P!Asking, P!Read, P!Eviction, Answers
<1>2. out \in Seq(E)
  BY DEF P!Outbox
<1>3. E \subseteq F
  BY DEF P!Sending
<1> HIDE DEF E, F
<1>4. out \in Seq(F)
  BY <1>2, <1>3, P!LargerSeq
<1>5. \A k \in DOMAIN out : out[k] \in E
  BY <1>2, P!Elements
<1> QED
  BY <1>1, <1>4, <1>5 DEF Quietly, Holds, P!Outbox, F

(* out answers the read of number i and nothing else.                       *)
AnswersRead(out, i) ==
  /\ AtMostOne(out, "ReadResponse") /\ ~Holds(out, "InvalidateResponse")
  /\ \A j : HoldsAnswer(out, j) <=> j = i
  /\ \E k \in DOMAIN out : out[k].msg.tag = Addr /\ out[k].msg.type = "ReadResponse" /\ out[k].msg.id = i

LEMMA RespondsIs ==
  ASSUME NEW c, NEW d, NEW m, m.tag = Addr, c.toRemote = <<>>, P!Responds(c, d, m)
  PROVE  AnswersRead(d.toRemote, m.id)
<1>1. PICK s \in BOOLEAN, x \in BOOLEAN :
        d.toRemote = Append(c.toRemote, [msg |-> P!ReadResponse(m, s, x), delay |-> hitTime])
  BY DEF P!Responds
<1> DEFINE e == [msg |-> P!ReadResponse(m, s, x), delay |-> hitTime]
           out == d.toRemote
<1>2. e.msg.type = "ReadResponse" /\ e.msg.tag = Addr /\ e.msg.id = m.id
  BY DEF P!ReadResponse
<1>3. out = Append(<<>>, e)
  BY <1>1
<1> HIDE DEF e
<1>4. DOMAIN out = 1..1 /\ out[1] = e
  BY <1>3
<1> HIDE DEF out
<1>5. \A k \in DOMAIN out : k = 1
  BY <1>4
<1>6. 1 \in DOMAIN out
  BY <1>4
<1>7. AnswersRead(out, m.id)
  BY <1>2, <1>4, <1>5, <1>6 DEF AnswersRead, AtMostOne, Holds, HoldsAnswer
<1> QED
  BY <1>7 DEF out

AcknowledgesOnly(out) ==
  /\ AtMostOne(out, "InvalidateResponse") /\ ~Holds(out, "ReadResponse")
  /\ \E k \in DOMAIN out : out[k].msg.tag = Addr /\ out[k].msg.type = "InvalidateResponse"

LEMMA AnswersInvalidateIs ==
  ASSUME NEW c, NEW d, c.toRemote = <<>>, P!AnswersInvalidate(c, d, Addr)
  PROVE  AcknowledgesOnly(d.toRemote)
<1>1. PICK b \in BOOLEAN :
        \/ d.toRemote = P!Acknowledged(c, b, Addr)
        \/ d.toRemote = Append(P!Acknowledged(c, b, Addr),
                               [msg |-> P!Read(Addr, FALSE, NoID), delay |-> invalidateTime])
  BY DEF P!AnswersInvalidate
<1> DEFINE e == [msg |-> P!InvalidateResponse(Addr, b), delay |-> invalidateTime]
           f == [msg |-> P!Read(Addr, FALSE, NoID), delay |-> invalidateTime]
           out == d.toRemote
<1>2. e.msg.type = "InvalidateResponse" /\ e.msg.tag = Addr /\ f.msg.type = "Read"
  BY DEF P!InvalidateResponse, P!Read
<1>3. P!Acknowledged(c, b, Addr) = Append(<<>>, e)
  BY DEF P!Acknowledged
<1>4. out = Append(<<>>, e) \/ out = Append(Append(<<>>, e), f)
  BY <1>1, <1>3
<1> HIDE DEF e, f
<1>5. (DOMAIN out = 1..1 /\ out[1] = e) \/ (DOMAIN out = 1..2 /\ out[1] = e /\ out[2] = f)
  BY <1>4
<1> HIDE DEF out
<1>6. 1 \in DOMAIN out /\ out[1] = e /\ \A k \in DOMAIN out : k = 1 \/ out[k] = f
  BY <1>5
<1>7. AcknowledgesOnly(out)
  BY <1>2, <1>6 DEF AcknowledgesOnly, AtMostOne, Holds
<1> QED
  BY <1>7 DEF out
-----------------------------------------------------------------------------
(* Each read and each invalidate that node n is asked for is either on its  *)
(* way to the cache or, as an answer, on its way back, and in one place.  T *)
(* is on the way to the cache and s on the way from it; R are the reads the *)
(* directory waits for, V the nodes it waits for an acknowledgement of.     *)
Tokens(n, T, R, V, s) ==
  /\ \A m \in T : m.type = "Read" =>
       [id |-> m.id, exclusive |-> m.exclusive] \in R /\ ~Holds(s, "ReadResponse")
  /\ \A i : HoldsAnswer(s, i) => \E q \in R : q.id = i
  /\ AtMostOne(s, "ReadResponse")
  /\ CacheInvalidate \in T => n \in V /\ ~Holds(s, "InvalidateResponse")
  /\ Holds(s, "InvalidateResponse") => n \in V
  /\ AtMostOne(s, "InvalidateResponse")

LEMMA TokensOfFewer ==
  ASSUME NEW n, NEW T, NEW U, U \subseteq T, NEW R, NEW V, NEW s, Tokens(n, T, R, V, s)
  PROVE  Tokens(n, U, R, V, s)
BY DEF Tokens

(* The cache sends no answer.                                               *)
LEMMA QuietKeeps ==
  ASSUME NEW n, NEW T, NEW R, NEW V, NEW s \in Seq(SentMsg), Tokens(n, T, R, V, s),
         NEW out \in P!Outbox(P!Sending), Quietly(out), NEW r, r = Sent(s, out)
  PROVE  Tokens(n, T, R, V, r) /\ SameAnswers(s, r)
<1>1. /\ \A ty : Holds(s, ty) => Holds(r, ty)
      /\ \A ty : Holds(r, ty) => Holds(s, ty) \/ Holds(out, ty)
      /\ \A i : HoldsAnswer(s, i) => HoldsAnswer(r, i)
      /\ \A i : HoldsAnswer(r, i) => HoldsAnswer(s, i) \/ HoldsAnswer(out, i)
      /\ \A ty : AtMostOne(s, ty) /\ AtMostOne(out, ty) /\ ~(Holds(s, ty) /\ Holds(out, ty))
                   => AtMostOne(r, ty)
  BY SentHolds
<1>2. ~Holds(out, "ReadResponse") /\ ~Holds(out, "InvalidateResponse")
  BY DEF Quietly, Answers
<1>3. \A i : ~HoldsAnswer(out, i)
  BY <1>2, AnswerIsHeld
<1>4. AtMostOne(out, "ReadResponse") /\ AtMostOne(out, "InvalidateResponse")
  BY <1>2 DEF Holds, AtMostOne
<1>5. SameAnswers(s, r)
  BY <1>1, <1>2, <1>3 DEF SameAnswers
<1>6. Holds(r, "ReadResponse") => Holds(s, "ReadResponse")
  BY <1>1, <1>2
<1>7. AtMostOne(r, "ReadResponse") /\ AtMostOne(r, "InvalidateResponse")
  BY <1>1, <1>2, <1>4 DEF Tokens
<1> QED
  BY <1>5, <1>6, <1>7 DEF Tokens, SameAnswers

(* The cache answers the read m.                                            *)
LEMMA ReadAnsweredKeeps ==
  ASSUME NEW n, NEW T \in SUBSET CacheMsg, NEW m \in T, m.type = "Read", NEW q, NEW Q, Q = {q},
         NEW V, NEW s \in Seq(SentMsg), Tokens(n, T, Q, V, s),
         NEW out \in P!Outbox(P!Sending), AnswersRead(out, m.id), NEW r, r = Sent(s, out)
  PROVE  /\ Tokens(n, T \ {m}, Q, V, r)
         /\ m = CacheRead(q.id, q.exclusive) /\ ReadAnswered(q, s, r)
<1>1. /\ \A ty : Holds(s, ty) => Holds(r, ty)
      /\ \A ty : Holds(r, ty) => Holds(s, ty) \/ Holds(out, ty)
      /\ \A i : HoldsAnswer(s, i) => HoldsAnswer(r, i)
      /\ \A i : HoldsAnswer(r, i) => HoldsAnswer(s, i) \/ HoldsAnswer(out, i)
      /\ \A k \in DOMAIN out : out[k].msg.tag = Addr => \E j \in DOMAIN r : r[j] = out[k]
      /\ \A ty : AtMostOne(s, ty) /\ AtMostOne(out, ty) /\ ~(Holds(s, ty) /\ Holds(out, ty))
                   => AtMostOne(r, ty)
  BY SentHolds
<1>2. \A k \in T : k.type = "Read" => k = CacheRead(q.id, q.exclusive)
  <2> SUFFICES ASSUME NEW k \in T, k.type = "Read" PROVE k = CacheRead(q.id, q.exclusive)
    OBVIOUS
  <2>1. [id |-> k.id, exclusive |-> k.exclusive] = q
    BY DEF Tokens
  <2>2. k = CacheRead(k.id, k.exclusive)
    BY DEF CacheMsg, CacheRead, CacheInvalidate
  <2> QED
    BY <2>1, <2>2
<1>3. m.id = q.id /\ m = CacheRead(q.id, q.exclusive)
  <2>1. m = CacheRead(q.id, q.exclusive)
    BY <1>2
  <2> QED
    BY <2>1 DEF CacheRead
<1>4. ~Holds(s, "ReadResponse") /\ ~Holds(out, "InvalidateResponse")
  BY DEF Tokens, AnswersRead
<1>5. \A i : HoldsAnswer(r, i) <=> i = q.id
  <2>1. \A i : HoldsAnswer(r, i) => i = q.id
    BY <1>1, <1>3, <1>4, AnswerIsHeld DEF AnswersRead
  <2>2. PICK k \in DOMAIN out : out[k].msg.tag = Addr /\ out[k].msg.type = "ReadResponse" /\ out[k].msg.id = m.id
    BY DEF AnswersRead
  <2>3. PICK j \in DOMAIN r : r[j] = out[k]
    BY <1>1, <2>2
  <2>4. HoldsAnswer(r, q.id)
    BY <1>3, <2>2, <2>3 DEF HoldsAnswer
  <2> QED
    BY <2>1, <2>4
<1>6. Holds(r, "InvalidateResponse") <=> Holds(s, "InvalidateResponse")
  BY <1>1, <1>4
<1>7. AtMostOne(r, "ReadResponse") /\ AtMostOne(r, "InvalidateResponse")
  <2>1. AtMostOne(out, "ReadResponse") /\ AtMostOne(out, "InvalidateResponse")
    BY <1>4 DEF AnswersRead, AtMostOne, Holds
  <2> QED
    BY <1>1, <1>4, <2>1 DEF Tokens
<1>8. \A k \in T \ {m} : k.type # "Read"
  BY <1>2, <1>3
<1>9. Tokens(n, T \ {m}, Q, V, r)
  BY <1>5, <1>6, <1>7, <1>8 DEF Tokens
<1>10. ReadAnswered(q, s, r)
  BY <1>4, <1>5, <1>6 DEF ReadAnswered
<1> QED
  BY <1>3, <1>9, <1>10

(* The cache answers an invalidate.                                         *)
LEMMA InvalidateAnsweredKeeps ==
  ASSUME NEW n, NEW T, CacheInvalidate \in T, NEW R, NEW V,
         NEW s \in Seq(SentMsg), Tokens(n, T, R, V, s),
         NEW out \in P!Outbox(P!Sending), AcknowledgesOnly(out), NEW r, r = Sent(s, out)
  PROVE  Tokens(n, T \ {CacheInvalidate}, R, V, r) /\ InvalidateAnswered(s, r)
<1>1. /\ \A ty : Holds(s, ty) => Holds(r, ty)
      /\ \A ty : Holds(r, ty) => Holds(s, ty) \/ Holds(out, ty)
      /\ \A i : HoldsAnswer(s, i) => HoldsAnswer(r, i)
      /\ \A i : HoldsAnswer(r, i) => HoldsAnswer(s, i) \/ HoldsAnswer(out, i)
      /\ \A k \in DOMAIN out : out[k].msg.tag = Addr => \E j \in DOMAIN r : r[j] = out[k]
      /\ \A ty : AtMostOne(s, ty) /\ AtMostOne(out, ty) /\ ~(Holds(s, ty) /\ Holds(out, ty))
                   => AtMostOne(r, ty)
  BY SentHolds
<1>2. ~Holds(s, "InvalidateResponse") /\ n \in V /\ ~Holds(out, "ReadResponse")
  BY DEF Tokens, AcknowledgesOnly
<1>3. \A i : HoldsAnswer(r, i) <=> HoldsAnswer(s, i)
  BY <1>1, <1>2, AnswerIsHeld
<1>4. Holds(r, "InvalidateResponse")
  <2>1. PICK k \in DOMAIN out : out[k].msg.tag = Addr /\ out[k].msg.type = "InvalidateResponse"
    BY DEF AcknowledgesOnly
  <2>2. PICK j \in DOMAIN r : r[j] = out[k]
    BY <1>1, <2>1
  <2> QED
    BY <2>1, <2>2 DEF Holds
<1>5. Holds(r, "ReadResponse") => Holds(s, "ReadResponse")
  BY <1>1, <1>2
<1>6. AtMostOne(r, "ReadResponse") /\ AtMostOne(r, "InvalidateResponse")
  <2>1. AtMostOne(out, "ReadResponse") /\ AtMostOne(out, "InvalidateResponse")
    BY <1>2 DEF AcknowledgesOnly, AtMostOne, Holds
  <2> QED
    BY <1>1, <1>2, <2>1 DEF Tokens
<1>7. Tokens(n, T \ {CacheInvalidate}, R, V, r)
  BY <1>2, <1>3, <1>5, <1>6 DEF Tokens
<1> QED
  BY <1>3, <1>4, <1>7 DEF InvalidateAnswered

(* A message arrives at the directory.                                      *)
LEMMA ArrivalHolds ==
  ASSUME NEW s \in Seq(SentMsg), NEW k \in DOMAIN s, NEW r, r = P!Without(s, k)
  PROVE  /\ r \in Seq(SentMsg)
         /\ \A ty : Holds(r, ty) => Holds(s, ty)
         /\ \A ty : Holds(s, ty) /\ ty # s[k].msg.type => Holds(r, ty)
         /\ \A i : HoldsAnswer(r, i) => HoldsAnswer(s, i)
         /\ \A i : HoldsAnswer(s, i) /\ s[k].msg.type # "ReadResponse" => HoldsAnswer(r, i)
         /\ \A ty : AtMostOne(s, ty) => AtMostOne(r, ty)
         /\ AtMostOne(s, s[k].msg.type) => ~Holds(r, s[k].msg.type)
<1>1. /\ r \in Seq(SentMsg)
      /\ \A j \in DOMAIN s : j # k => \E i \in DOMAIN r : r[i] = s[j]
      /\ \A i \in DOMAIN r : P!Before(k, i) \in DOMAIN s /\ P!Before(k, i) # k /\ r[i] = s[P!Before(k, i)]
      /\ \A i, j \in DOMAIN r : P!Before(k, i) = P!Before(k, j) => i = j
  BY P!Removed
<1> DEFINE a == s[k].msg.type
<1>2. \A ty : Holds(r, ty) => Holds(s, ty)
  BY <1>1 DEF Holds
<1>3. \A ty : Holds(s, ty) /\ ty # a => Holds(r, ty)
  BY <1>1 DEF Holds
<1>4. \A i : HoldsAnswer(r, i) => HoldsAnswer(s, i)
  BY <1>1 DEF HoldsAnswer
<1>5. \A i : HoldsAnswer(s, i) /\ a # "ReadResponse" => HoldsAnswer(r, i)
  BY <1>1 DEF HoldsAnswer
<1>6. \A ty : AtMostOne(s, ty) => AtMostOne(r, ty)
  BY SMTT(60), <1>1 DEF AtMostOne
<1>7. AtMostOne(s, a) => ~Holds(r, a)
  BY <1>1 DEF AtMostOne, Holds
<1> QED
  BY <1>1, <1>2, <1>3, <1>4, <1>5, <1>6, <1>7

LEMMA RequestArrivesKeeps ==
  ASSUME NEW n, NEW T, NEW R, NEW V, NEW s \in Seq(SentMsg), Tokens(n, T, R, V, s),
         NEW k \in DOMAIN s, s[k].msg.type \notin Answers, NEW r, r = P!Without(s, k)
  PROVE  Tokens(n, T, R, V, r) /\ SameAnswers(s, r)
<1>1. /\ \A ty : Holds(r, ty) => Holds(s, ty)
      /\ \A ty : Holds(s, ty) /\ ty # s[k].msg.type => Holds(r, ty)
      /\ \A i : HoldsAnswer(r, i) => HoldsAnswer(s, i)
      /\ \A i : HoldsAnswer(s, i) /\ s[k].msg.type # "ReadResponse" => HoldsAnswer(r, i)
      /\ \A ty : AtMostOne(s, ty) => AtMostOne(r, ty)
  BY ArrivalHolds
<1>2. s[k].msg.type # "ReadResponse" /\ s[k].msg.type # "InvalidateResponse"
  BY DEF Answers
<1>3. SameAnswers(s, r)
  BY <1>1, <1>2 DEF SameAnswers
<1> QED
  BY <1>1, <1>3 DEF Tokens, SameAnswers

LEMMA ReadAnswerArrivesKeeps ==
  ASSUME NEW n, NEW T, NEW q, NEW V, NEW s \in Seq(SentMsg), Tokens(n, T, {q}, V, s),
         NEW k \in DOMAIN s, s[k].msg.type = "ReadResponse", NEW r, r = P!Without(s, k)
  PROVE  Tokens(n, T, {}, V, r) /\ ReadAnswerArrives(T, q, s, r) /\ s[k].msg.id = q.id
<1>1. /\ \A ty : Holds(r, ty) => Holds(s, ty)
      /\ \A ty : Holds(s, ty) /\ ty # s[k].msg.type => Holds(r, ty)
      /\ \A ty : AtMostOne(s, ty) => AtMostOne(r, ty)
      /\ AtMostOne(s, s[k].msg.type) => ~Holds(r, s[k].msg.type)
  BY ArrivalHolds
<1>2. HoldsAnswer(s, s[k].msg.id) /\ Holds(s, "ReadResponse")
  BY DEF HoldsAnswer, Holds
<1>3. s[k].msg.id = q.id
  BY <1>2 DEF Tokens
<1>4. ~Holds(r, "ReadResponse")
  BY <1>1 DEF Tokens
<1>5. \A i : ~HoldsAnswer(r, i)
  BY <1>4, AnswerIsHeld
<1>6. \A m \in T : m.type # "Read"
  BY <1>2 DEF Tokens
<1>7. CacheRead(q.id, q.exclusive) \notin T
  BY <1>6, CacheKinds
<1>8. Holds(r, "InvalidateResponse") <=> Holds(s, "InvalidateResponse")
  BY <1>1
<1>9. Tokens(n, T, {}, V, r)
  BY <1>1, <1>5, <1>6, <1>8 DEF Tokens
<1> QED
  BY <1>2, <1>3, <1>7, <1>8, <1>9 DEF ReadAnswerArrives

LEMMA InvalidateAnswerArrivesKeeps ==
  ASSUME NEW n, NEW T, NEW R, NEW V, NEW s \in Seq(SentMsg), Tokens(n, T, R, V, s),
         NEW k \in DOMAIN s, s[k].msg.type = "InvalidateResponse", NEW r, r = P!Without(s, k)
  PROVE  Tokens(n, T, R, V \ {n}, r) /\ InvalidateAnswerArrives(T, s, r) /\ n \in V
<1>1. /\ \A ty : Holds(r, ty) => Holds(s, ty)
      /\ \A i : HoldsAnswer(r, i) => HoldsAnswer(s, i)
      /\ \A i : HoldsAnswer(s, i) /\ s[k].msg.type # "ReadResponse" => HoldsAnswer(r, i)
      /\ \A ty : AtMostOne(s, ty) => AtMostOne(r, ty)
      /\ AtMostOne(s, s[k].msg.type) => ~Holds(r, s[k].msg.type)
  BY ArrivalHolds
<1>2. Holds(s, "InvalidateResponse")
  BY DEF Holds
<1>3. n \in V /\ CacheInvalidate \notin T
  BY <1>2 DEF Tokens
<1>4. ~Holds(r, "InvalidateResponse")
  BY <1>1 DEF Tokens
<1>5. \A i : HoldsAnswer(r, i) <=> HoldsAnswer(s, i)
  BY <1>1
<1>6. Tokens(n, T, R, V \ {n}, r)
  BY <1>1, <1>3, <1>4, <1>5 DEF Tokens
<1> QED
  BY <1>2, <1>3, <1>4, <1>5, <1>6 DEF InvalidateAnswerArrives

(* The directory asks: a read when no read of the node is pending, an       *)
(* invalidate when the node has none to answer.                             *)
Asks(n, T, U, R, Q, V, W) ==
  /\ R \subseteq Q /\ V \subseteq W
  /\ \A m \in U \ T : m.type = "Read" => R = {} /\ [id |-> m.id, exclusive |-> m.exclusive] \in Q
  /\ CacheInvalidate \in U \ T => n \in W \ V

LEMMA AskingKeeps ==
  ASSUME NEW n, NEW T, NEW U, NEW R, NEW Q, NEW V, NEW W, NEW s, Tokens(n, T, R, V, s),
         Asks(n, T, U, R, Q, V, W)
  PROVE  Tokens(n, U, Q, W, s)
<1>1. R = {} => ~Holds(s, "ReadResponse")
  BY DEF Tokens, Holds, HoldsAnswer
<1>2. \A m \in U : m.type = "Read" =>
        [id |-> m.id, exclusive |-> m.exclusive] \in Q /\ ~Holds(s, "ReadResponse")
  BY <1>1 DEF Tokens, Asks
<1>3. CacheInvalidate \in U => n \in W /\ ~Holds(s, "InvalidateResponse")
  BY DEF Tokens, Asks
<1> QED
  BY <1>2, <1>3 DEF Tokens, Asks
-----------------------------------------------------------------------------
(* What the directory asks the caches.                                      *)
NodeAsks(n) ==
  Asks(n, toCache[n], toCache'[n], pendingRemoteReads[n], pendingRemoteReads'[n],
       pendingRemoteInvalidates, pendingRemoteInvalidates')

NothingAtCaches == \A n \in Node : pendingRemoteReads[n] = {}

LEMMA PhaseParts ==
  ASSUME D!PhaseInv
  PROVE  /\ D!Phase /\ D!InvalidationRound
         /\ \A n \in Node : pendingRemoteReads[n] \in SUBSET ReadData
         /\ pendingRemoteReads \in [Node -> SUBSET ReadData]
         /\ net \subseteq NetMsg /\ pendingRemoteInvalidates \subseteq Node
         /\ \A p, q \in pendingDirectoryExclusiveReads : p = q
         /\ pendingDirectorySharedReads = {} \/ pendingDirectoryExclusiveReads = {}
BY SameTables DEF D!PhaseInv, D!TypeOK, D!OneKindOfLookup

LEMMA NobodyPending ==
  ASSUME D!PhaseInv, Pending = {}
  PROVE  NothingAtCaches
<1>1. D!Pending = Pending
  BY DEF D!Pending, Pending
<1> QED
  BY <1>1, PhaseParts DEF D!Phase, D!NoFetch, D!NoneAtCaches, NothingAtCaches

LEMMA FetchMessage ==
  ASSUME D!PhaseInv, NEW m \in net, m.type \in {"Fetch", "FetchReply", "DirectoryNak"}
  PROVE  NothingAtCaches /\ pendingRemoteInvalidates = {}
<1>1. D!OnlyMsg(m) /\ D!Invalidating = {}
  BY PhaseParts, DirectoryAssumed, D!OnlyOneMsg DEF D!FetchTypes
<1> QED
  BY <1>1, PhaseParts DEF D!OnlyMsg, D!NoneAtCaches, D!Invalidating, NothingAtCaches

LEMMA MemoryRead ==
  ASSUME D!PhaseInv, NEW i \in pendingMemoryReadAccesses
  PROVE  pendingRemoteInvalidates = {}
<1>1. D!Invalidating = {}
  BY PhaseParts, DirectoryAssumed, D!OnlyOneAtMemory
<1> QED
  BY <1>1, PhaseParts DEF D!Invalidating

LEMMA OneReadAtMost ==
  ASSUME D!PhaseInv, NEW n \in Node, NEW q \in pendingRemoteReads[n]
  PROVE  pendingRemoteReads[n] = {q}
<1>1. D!OnlyAtCache(n, q)
  BY PhaseParts, DirectoryAssumed, D!OnlyOneAtCache
<1> QED
  BY <1>1 DEF D!OnlyAtCache

LEMMA InvalidateMessage ==
  ASSUME D!PhaseInv, NEW m \in net, m.type = "Invalidate"
  PROVE  m.dst \in Node /\ m.dst \notin pendingRemoteInvalidates
<1>1. m \in NetMsg
  BY PhaseParts
<1>2. m.dst \in Node /\ m = D!Invalidate(m.dst)
  BY <1>1 DEF NetMsg, D!Invalidate
<1>3. m \in D!InvalidationOf(m.dst) \cap net
  BY <1>2 DEF D!InvalidationOf
<1>4. \A n \in Node : \A k \in D!InvalidationOf(n) \cap net : n \notin pendingRemoteInvalidates
  BY PhaseParts DEF D!InvalidationRound
<1> HIDE DEF D!InvalidationOf
<1> QED
  BY <1>2, <1>3, <1>4

(* Nothing is asked of a cache.                                             *)
LEMMA QuietAsks ==
  ASSUME NEW n \in Node, toCache'[n] = toCache[n], pendingRemoteReads' = pendingRemoteReads,
         pendingRemoteInvalidates' = pendingRemoteInvalidates
  PROVE  NodeAsks(n)
BY DEF NodeAsks, Asks

(* Only responses go to the cache.                                          *)
LEMMA ResponsesAsk ==
  ASSUME toCache \in [Node -> SUBSET CacheMsg], NEW h \in Node, NEW X,
         \A m \in X : m.type = "ReadResponse",
         toCache' = [toCache EXCEPT ![h] = @ \cup X], pendingRemoteReads' = pendingRemoteReads,
         pendingRemoteInvalidates' = pendingRemoteInvalidates, NEW n \in Node
  PROVE  NodeAsks(n)
<1>1. \A m \in toCache'[n] \ toCache[n] : m.type = "ReadResponse"
  OBVIOUS
<1>2. CacheInvalidate \notin toCache'[n] \ toCache[n]
  BY <1>1, CacheKinds
<1> QED
  BY <1>1, <1>2 DEF NodeAsks, Asks

LEMMA ReadAsks ==
  ASSUME D!PhaseInv, toCache \in [Node -> SUBSET CacheMsg], NothingAtCaches,
         NEW h \in Node, NEW i, NEW x, OnRemoteReadCache(h, i, x),
         pendingRemoteInvalidates' = pendingRemoteInvalidates, NEW n \in Node
  PROVE  NodeAsks(n)
<1> DEFINE q == [id |-> i, exclusive |-> x]
           a == CacheRead(i, x)
<1>1. toCache' = [toCache EXCEPT ![h] = @ \cup {a}]
      /\ pendingRemoteReads' = [pendingRemoteReads EXCEPT ![h] = @ \cup {q}]
  BY DEF OnRemoteReadCache
<1>2. [id |-> a.id, exclusive |-> a.exclusive] = q /\ a # CacheInvalidate
  BY CacheKinds DEF CacheRead
<1>3. pendingRemoteReads \in [Node -> SUBSET ReadData]
  BY PhaseParts
<1> HIDE DEF q, a
<1>4. CASE n = h
  <2>1. toCache'[n] \ toCache[n] \subseteq {a} /\ pendingRemoteReads[n] = {} /\ pendingRemoteReads'[n] = {q}
    BY <1>1, <1>3, <1>4 DEF NothingAtCaches
  <2>2. \A m \in toCache'[n] \ toCache[n] : [id |-> m.id, exclusive |-> m.exclusive] = q
    BY <1>2, <2>1
  <2>3. CacheInvalidate \notin toCache'[n] \ toCache[n]
    BY <1>2, <2>1
  <2> QED
    BY <2>1, <2>2, <2>3 DEF NodeAsks, Asks
<1>5. CASE n # h
  <2>1. toCache'[n] = toCache[n] /\ pendingRemoteReads'[n] = pendingRemoteReads[n]
    BY <1>1, <1>3, <1>5
  <2> QED
    BY <2>1 DEF NodeAsks, Asks
<1> QED
  BY <1>4, <1>5

LEMMA FetchAsks ==
  ASSUME D!PhaseInv, toCache \in [Node -> SUBSET CacheMsg], NothingAtCaches,
         NEW pending, NEW x, NEW rest, PerformDirectoryFetch(pending, x, rest),
         pendingRemoteInvalidates' = pendingRemoteInvalidates, NEW n \in Node
  PROVE  NodeAsks(n)
<1>1. PICK p \in pending : \/ UNCHANGED <<pendingRemoteReads, toCache>>
                           \/ OnRemoteReadCache(Home, p.id, x)
  BY DEF PerformDirectoryFetch
<1> QED
  BY <1>1, QuietAsks, ReadAsks

LEMMA RespondAsks ==
  ASSUME toCache \in [Node -> SUBSET CacheMsg], NEW P0, NEW x, NEW rest, Respond(P0, x, rest),
         pendingRemoteReads' = pendingRemoteReads,
         pendingRemoteInvalidates' = pendingRemoteInvalidates, NEW n \in Node
  PROVE  NodeAsks(n)
<1> DEFINE own == {p.id : p \in {q \in P0 : q.src = Home}}
           X == {CacheReadResponse(i, x) : i \in own}
<1>1. toCache' = [toCache EXCEPT ![Home] = @ \cup X]
  BY DEF Respond
<1>2. \A m \in X : m.type = "ReadResponse"
  BY CacheKinds
<1> HIDE DEF X
<1> QED
  BY <1>1, <1>2, ResponsesAsk

LEMMA ReadResponseAsks ==
  ASSUME toCache \in [Node -> SUBSET CacheMsg], pendingRemoteInvalidates = {},
         NEW src, NEW i, NEW x, NEW rest, OnRemoteReadResponse(src, i, x, rest), NEW n \in Node
  PROVE  NodeAsks(n)
<1>1. PICK o, S : \/ AnswerSharedReads(o, S, rest)
                  \/ AnswerExclusiveRead(o, S, i, x, rest)
                  \/ InvalidateSharers(o, S, rest)
  BY DEF OnRemoteReadResponse
<1>2. pendingRemoteReads' = pendingRemoteReads
  BY DEF OnRemoteReadResponse
<1>3. CASE AnswerSharedReads(o, S, rest)
  <2>1. Respond(pendingDirectorySharedReads, sharers' = {}, rest)
        /\ pendingRemoteInvalidates' = pendingRemoteInvalidates
    BY <1>3 DEF AnswerSharedReads
  <2> DEFINE y == sharers' = {}
  <2>2. Respond(pendingDirectorySharedReads, y, rest)
    BY <2>1
  <2> HIDE DEF y
  <2> QED
    BY <1>2, <2>1, <2>2, RespondAsks
<1>4. CASE AnswerExclusiveRead(o, S, i, x, rest)
  <2>1. PICK p \in pendingDirectoryExclusiveReads : Respond({[id |-> i, src |-> p.src]}, x, rest)
    BY <1>4 DEF AnswerExclusiveRead
  <2>2. pendingRemoteInvalidates' = pendingRemoteInvalidates
    BY <1>4 DEF AnswerExclusiveRead
  <2> QED
    BY <1>2, <2>1, <2>2, RespondAsks
<1>5. CASE InvalidateSharers(o, S, rest)
  <2>1. /\ pendingRemoteInvalidates' = pendingRemoteInvalidates \cup (S \cap {Home})
        /\ toCache' = IF Home \in S THEN [toCache EXCEPT ![Home] = @ \cup {CacheInvalidate}] ELSE toCache
    BY <1>5 DEF InvalidateSharers
  <2>2. CASE Home \in S /\ n = Home
    <3>1. toCache'[n] \ toCache[n] \subseteq {CacheInvalidate} /\ n \in pendingRemoteInvalidates'
      BY <2>1, <2>2
    <3> QED
      BY <1>2, <3>1, CacheKinds DEF NodeAsks, Asks
  <2>3. CASE ~(Home \in S /\ n = Home)
    <3>1. toCache'[n] = toCache[n]
      BY <2>1, <2>3
    <3> QED
      BY <1>2, <3>1 DEF NodeAsks, Asks
  <2> QED
    BY <2>2, <2>3
<1> QED
  BY <1>1, <1>3, <1>4, <1>5

(* An acknowledgement may complete the answer to an exclusive lookup.       *)
LEMMA AcknowledgementGives ==
  ASSUME NEW src, NEW attached, NEW rest, OnRemoteInvalidateResponse(src, attached, rest, toCache)
  PROVE  \E X : /\ \A m \in X : m.type = "ReadResponse"
                /\ toCache' = [toCache EXCEPT ![Home] = @ \cup X] \/ toCache' = toCache
<1>1. PICK p \in pendingDirectoryExclusiveReads :
        \/ toCache' = [toCache EXCEPT ![Home] = @ \cup {CacheReadResponse(p.id, TRUE)}]
        \/ toCache' = toCache
  BY Zenon DEF OnRemoteInvalidateResponse
<1> DEFINE X == {CacheReadResponse(p.id, TRUE)}
<1>2. \A m \in X : m.type = "ReadResponse"
  BY CacheKinds
<1>3. \/ toCache' = [toCache EXCEPT ![Home] = @ \cup X]
      \/ toCache' = toCache
  BY <1>1
<1> HIDE DEF X
<1> WITNESS X
<1> QED
  BY <1>2, <1>3

LEMMA RecvAsks ==
  ASSUME D!PhaseInv, toCache \in [Node -> SUBSET CacheMsg], NEW m \in net, RecvMsg(m),
         NEW n \in Node
  PROVE  NodeAsks(n) /\ (pendingRemoteReads' = pendingRemoteReads \/ NothingAtCaches)
<1> USE DEF home, local
<1>1. CASE OnDirectoryBlockRequest(m)
  <2>1. CASE RefuseLookup(m)
    BY <2>1, QuietAsks DEF RefuseLookup
  <2>2. CASE AcceptExclusiveLookup(m)
    <3>1. NothingAtCaches
      BY <2>2, NobodyPending DEF AcceptExclusiveLookup, Busy, Pending
    <3> QED
      BY <2>2, <3>1, FetchAsks DEF AcceptExclusiveLookup
  <2>3. CASE AcceptSharedLookup(m)
    <3>1. pendingRemoteInvalidates' = pendingRemoteInvalidates
      BY <2>3 DEF AcceptSharedLookup
    <3>2. CASE AlreadyFetching
      BY <2>3, <3>1, <3>2, QuietAsks DEF AcceptSharedLookup
    <3>3. CASE ~AlreadyFetching
      <4>1. NothingAtCaches
        BY <2>3, <3>3, NobodyPending DEF AcceptSharedLookup, AlreadyFetching, Busy, Pending
      <4> QED
        BY <2>3, <3>1, <3>3, <4>1, FetchAsks DEF AcceptSharedLookup
    <3> QED
      BY <3>2, <3>3
  <2> QED
    BY <1>1, <2>1, <2>2, <2>3 DEF OnDirectoryBlockRequest
<1>2. CASE OnDirectoryBlockResponse(m)
  <2>1. m.dst \in Node
    BY <1>2, PhaseParts DEF OnDirectoryBlockResponse, NetMsg
  <2>2. pendingRemoteReads' = pendingRemoteReads /\ pendingRemoteInvalidates' = pendingRemoteInvalidates
    BY <1>2 DEF OnDirectoryBlockResponse
  <2>3. \/ toCache' = [toCache EXCEPT ![m.dst] = @ \cup {CacheReadResponse(m.id, m.exclusive)}]
        \/ toCache' = toCache
    BY <1>2 DEF OnDirectoryBlockResponse
  <2>4. \A k \in {CacheReadResponse(m.id, m.exclusive)} : k.type = "ReadResponse"
    BY CacheKinds
  <2> QED
    BY <2>1, <2>2, <2>3, <2>4, QuietAsks, ResponsesAsk
<1>3. CASE OnRemoteDirectoryNak(m)
  <2>1. NothingAtCaches
    BY <1>3, FetchMessage DEF OnRemoteDirectoryNak
  <2> QED
    BY <1>3, <2>1, FetchAsks, QuietAsks DEF OnRemoteDirectoryNak
<1>4. CASE OnFetch(m)
  <2>1. NothingAtCaches /\ m.dst \in Node
    BY <1>4, FetchMessage, PhaseParts DEF OnFetch, NetMsg
  <2> QED
    BY <1>4, <2>1, ReadAsks DEF OnFetch
<1>5. CASE OnFetchReply(m)
  <2>1. NothingAtCaches /\ pendingRemoteInvalidates = {}
    BY <1>5, FetchMessage DEF OnFetchReply
  <2> QED
    BY <1>5, <2>1, ReadResponseAsks DEF OnFetchReply
<1>6. CASE OnRemoteEviction(m)
  BY <1>6, QuietAsks DEF OnRemoteEviction
<1>7. CASE OnRemoteEvictionResponse(m)
  BY <1>7, QuietAsks DEF OnRemoteEvictionResponse
<1>8. CASE OnRemoteInvalidate(m)
  <2>1. m.dst \in Node /\ m.dst \notin pendingRemoteInvalidates
    BY <1>8, InvalidateMessage DEF OnRemoteInvalidate
  <2>2. /\ pendingRemoteInvalidates' = pendingRemoteInvalidates \cup {m.dst}
        /\ toCache' = [toCache EXCEPT ![m.dst] = @ \cup {CacheInvalidate}]
        /\ pendingRemoteReads' = pendingRemoteReads
    BY <1>8 DEF OnRemoteInvalidate
  <2>3. /\ toCache'[n] \ toCache[n] \subseteq {CacheInvalidate}
        /\ CacheInvalidate \in toCache'[n] \ toCache[n] => n = m.dst
    BY <2>1, <2>2
  <2> QED
    BY <2>1, <2>2, <2>3, CacheKinds DEF NodeAsks, Asks
<1>9. CASE OnInvalidateResponse(m)
  <2>1. pendingRemoteReads' = pendingRemoteReads /\ pendingRemoteInvalidates' = pendingRemoteInvalidates
    BY <1>9 DEF OnInvalidateResponse, OnRemoteInvalidateResponse
  <2>2. PICK X : /\ \A k \in X : k.type = "ReadResponse"
                 /\ toCache' = [toCache EXCEPT ![Home] = @ \cup X] \/ toCache' = toCache
    BY <1>9, AcknowledgementGives DEF OnInvalidateResponse
  <2> QED
    BY <2>1, <2>2, QuietAsks, ResponsesAsk
<1> QED
  BY <1>1, <1>2, <1>3, <1>4, <1>5, <1>6, <1>7, <1>8, <1>9 DEF RecvMsg
-----------------------------------------------------------------------------
(* The invariant.                                                           *)

(* A read for Addr is on its way to the home, there, or on its way back.    *)
OnItsWay(n) ==
  \/ \E m \in net : (m.type = "Lookup" /\ m.src = n) \/ (m.type = "Reply" /\ m.dst = n)
  \/ \E p \in Pending : p.src = n
  \/ \E m \in toCache[n] : m.type = "ReadResponse"

(* The blocks that cache n has asked for: of Addr it is known where the     *)
(* read is, and the other blocks are answered whenever they are waited for. *)
AskedAt(n) == {t \in Tag : t = Addr => Holds(fromCache[n], "Read") \/ OnItsWay(n)}

CacheOK(n) ==
  /\ P!CacheInv(cache[n], P!Asking, AskedAt(n))
  /\ cache[n].topCache /\ cache[n].toRemote = <<>>

TokensOK(n) ==
  Tokens(n, toCache[n], pendingRemoteReads[n], pendingRemoteInvalidates, fromCache[n])

CoherenceInv ==
  /\ TypeOK /\ D!PhaseInv
  /\ cache \in [Node -> P!CacheObject(P!Asking)]
  /\ fromCache \in [Node -> Seq(SentMsg)]
  /\ \A n \in Node : CacheOK(n) /\ TokensOK(n)

LEMMA CachesAssumed == P!CacheAssumptions
<1>1. /\ C!BIPMOESI.AfterRead = C!AfterRead /\ C!BIPMOESI.AfterMerge = C!AfterMerge
      /\ C!BIPMOESI.ExclusiveFill = "Exclusive"
  BY DEF C!BIPMOESI, C!ExclusiveFill
<1>2. DOMAIN C!AfterRead = {"Modified", "Owned", "Exclusive", "Shared"}
  BY DEF C!AfterRead
<1>3. \A s \in DOMAIN C!AfterRead : C!AfterRead[s] \in DOMAIN C!AfterRead
  BY DEF C!AfterRead
<1>4. \A s \in DOMAIN C!AfterRead : C!AfterMerge[s] \in DOMAIN C!AfterRead
  BY DEF C!AfterRead, C!AfterMerge
<1>5. C!AfterMerge["Invalid"] = "Invalid"
  BY DEF C!AfterMerge
<1>6. P!ClassOK
  BY <1>1, <1>2, <1>3, <1>4, <1>5 DEF P!ClassOK, P!Valid, P!State
<1>7. NoBlock \notin P!Block /\ NoBlock \notin Tag /\ Associativity \in Nat
  BY CacheAssumption DEF P!Block, P!State, C!Block, C!State
<1> QED
  BY <1>6, <1>7 DEF P!CacheAssumptions

LEMMA SendingHasAsking == P!Asking \subseteq P!Sending /\ P!Sending \subseteq P!Sending
BY DEF P!Sending

(* The more is asked for, the less is left to ask.                          *)
LEMMA MoreAsked ==
  ASSUME NEW R, NEW W, NEW V, W \subseteq V, NEW c, P!CacheInv(c, R, W)
  PROVE  P!CacheInv(c, R, V)
BY DEF P!CacheInv, P!BlocksInv, P!AskedFor

(* A cache with an empty outbox may send what it likes.                     *)
LEMMA MaySendAll ==
  ASSUME NEW W, NEW c, P!CacheInv(c, P!Asking, W), c.toRemote = <<>>
  PROVE  P!CacheInv(c, P!Sending, W)
<1>1. c \in P!CacheObject(P!Asking) /\ P!AskedFor(c, W)
  BY DEF P!CacheInv, P!BlocksInv
<1>2. c \in P!CacheObject(P!Sending)
  <2>1. c.toRemote \in P!Outbox(P!Sending)
    BY DEF P!Outbox
  <2> QED
    BY <1>1, <2>1 DEF P!CacheObject
<1>3. P!SameTables(c, c)
  BY DEF P!SameTables
<1> QED
  BY <1>1, <1>2, <1>3, P!TablesDecide

(* What a handler has left is sent.                                         *)
LEMMA LeaveKeeps ==
  ASSUME cache \in [Node -> P!CacheObject(P!Asking)], fromCache \in [Node -> Seq(SentMsg)],
         NEW n \in Node, NEW c, NEW W, P!CacheInv(c, P!Sending, W), c.topCache, Leave(n, c),
         NEW V, W \subseteq V,
         Tag \ {Addr} \subseteq V, Holds(fromCache'[n], "Read") => Addr \in V
  PROVE  /\ P!CacheInv(cache'[n], P!Asking, V) /\ cache'[n].topCache /\ cache'[n].toRemote = <<>>
         /\ cache' \in [Node -> P!CacheObject(P!Asking)] /\ fromCache' \in [Node -> Seq(SentMsg)]
         /\ c.toRemote \in P!Outbox(P!Sending) /\ fromCache'[n] = Sent(fromCache[n], c.toRemote)
         /\ \A k \in Node \ {n} : cache'[k] = cache[k] /\ fromCache'[k] = fromCache[k]
<1> DEFINE d == P!WithoutMessages(c)
           r == Sent(fromCache[n], c.toRemote)
<1>1. cache' = [cache EXCEPT ![n] = d] /\ fromCache' = [fromCache EXCEPT ![n] = r]
  BY DEF Leave, P!WithoutMessages, Sent
<1>2. c.toRemote \in P!Outbox(P!Sending)
  BY DEF P!CacheInv, P!BlocksInv, P!CacheObject
<1>3. /\ r \in Seq(SentMsg)
      /\ \A k \in DOMAIN c.toRemote : c.toRemote[k].msg.tag = Addr => \E j \in DOMAIN r : r[j] = c.toRemote[k]
  <2> HIDE DEF r
  <2>1. fromCache[n] \in Seq(SentMsg) /\ r = Sent(fromCache[n], c.toRemote)
    BY DEF r
  <2> QED
    BY <1>2, <2>1, SentHolds
<1> HIDE DEF d, r
<1>4. cache'[n] = d /\ fromCache'[n] = r /\ \A k \in Node \ {n} : cache'[k] = cache[k] /\ fromCache'[k] = fromCache[k]
  BY <1>1
<1>5. P!Covers(V, W, c)
  <2>1. ASSUME NEW k \in DOMAIN c.toRemote, c.toRemote[k].msg.type = "Read"
        PROVE  c.toRemote[k].msg.tag \in V
    <3>1. c.toRemote[k].msg \in P!Sending
      <4> DEFINE M == [msg : P!Sending, delay : P!Delay]
      <4>1. c.toRemote \in Seq(M)
        BY <1>2 DEF P!Outbox
      <4>2. \A e \in M : e.msg \in P!Sending
        OBVIOUS
      <4> HIDE DEF M
      <4> QED
        BY <4>1, <4>2, P!Elements
    <3>2. c.toRemote[k].msg.tag \in Tag
      BY <3>1, P!TagsOfMessages
    <3>3. CASE c.toRemote[k].msg.tag = Addr
      <4>1. Holds(fromCache'[n], "Read")
        BY <1>3, <1>4, <2>1, <3>3 DEF Holds
      <4> QED
        BY <3>3, <4>1
    <3> QED
      BY <3>2, <3>3
  <2> QED
    BY <2>1 DEF P!Covers
<1>6. P!CacheInv(d, P!Asking, V) /\ d.toRemote = <<>> /\ P!SameTables(c, d)
  <2>1. d = P!WithoutMessages(c)
    BY DEF d
  <2> QED
    BY <1>5, <2>1, P!OutboxesEmptied
<1>7. d \in P!CacheObject(P!Asking) /\ d.topCache
  BY <1>6 DEF P!CacheInv, P!BlocksInv, P!SameTables
<1>8. cache' \in [Node -> P!CacheObject(P!Asking)]
  BY <1>1, <1>7
<1>9. fromCache' \in [Node -> Seq(SentMsg)]
  BY <1>1, <1>3
<1> QED
  BY <1>2, <1>4, <1>6, <1>7, <1>8, <1>9 DEF r
-----------------------------------------------------------------------------
(* A read stays on its way.                                                 *)

LEMMA StaysOnItsWay ==
  ASSUME NEW n \in Node, OnItsWay(n),
         \A m \in net : (m.type = "Lookup" /\ m.src = n) \/ (m.type = "Reply" /\ m.dst = n)
                          => m \in net' \/ OnItsWay(n)',
         \A p \in Pending : p.src = n => p \in Pending' \/ OnItsWay(n)',
         \A m \in toCache[n] : m.type = "ReadResponse" => m \in toCache'[n]
  PROVE  OnItsWay(n)'
BY DEF OnItsWay

(* The lookups that are answered are answered at the cache or in a reply.   *)
LEMMA RespondOnItsWay ==
  ASSUME toCache \in [Node -> SUBSET CacheMsg], NEW P0, NEW x, NEW rest, Respond(P0, x, rest),
         NEW p \in P0, NEW n \in Node, p.src = n
  PROVE  OnItsWay(n)'
<1>1. CASE n = Home
  <2>1. CacheReadResponse(p.id, x) \in toCache'[Home]
    BY <1>1 DEF Respond
  <2>2. \E m \in toCache'[n] : m.type = "ReadResponse"
    BY <1>1, <2>1, CacheKinds
  <2> QED
    BY <2>2 DEF OnItsWay
<1>2. CASE n # Home
  <2>1. Reply(n, p.id, TRUE, x) \in net'
    BY <1>2 DEF Respond
  <2>2. \E m \in net' : m.type = "Reply" /\ m.dst = n
    BY <2>1 DEF Reply
  <2> QED
    BY <2>2 DEF OnItsWay
<1> QED
  BY <1>1, <1>2

LEMMA RespondKeepsWay ==
  ASSUME toCache \in [Node -> SUBSET CacheMsg], NEW P0, NEW x, NEW rest, Respond(P0, x, rest),
         NEW n \in Node, OnItsWay(n),
         \A m \in net : m.type \in {"Lookup", "Reply"} => m \in rest,
         \A p \in Pending : p.src = n => p \in Pending' \/ \E q \in P0 : q.src = n
  PROVE  OnItsWay(n)'
<1>1. rest \subseteq net' /\ toCache[n] \subseteq toCache'[n]
  BY DEF Respond
<1>2. \A p \in Pending : p.src = n => p \in Pending' \/ OnItsWay(n)'
  BY RespondOnItsWay
<1> QED
  BY <1>1, <1>2, StaysOnItsWay

LEMMA ReadResponseKeepsWay ==
  ASSUME D!PhaseInv, toCache \in [Node -> SUBSET CacheMsg],
         NEW src, NEW i, NEW x, NEW rest, OnRemoteReadResponse(src, i, x, rest),
         \A m \in net : m.type \in {"Lookup", "Reply"} => m \in rest,
         NEW n \in Node, OnItsWay(n)
  PROVE  OnItsWay(n)'
<1> DEFINE o == IF x /\ owner = src THEN NoNode ELSE owner
           S == IF x /\ owner # src THEN sharers \ {src} ELSE sharers
<1>1. \/ AnswerSharedReads(o, S, rest) \/ AnswerExclusiveRead(o, S, i, x, rest)
      \/ InvalidateSharers(o, S, rest)
  BY DEF OnRemoteReadResponse
<1> HIDE DEF o, S
<1>2. CASE AnswerSharedReads(o, S, rest)
  <2>1. Respond(pendingDirectorySharedReads, sharers' = {}, rest)
        /\ pendingDirectoryExclusiveReads' = pendingDirectoryExclusiveReads
    BY <1>2 DEF AnswerSharedReads
  <2> DEFINE y == sharers' = {}
  <2>2. Respond(pendingDirectorySharedReads, y, rest)
    BY <2>1
  <2> HIDE DEF y
  <2> QED
    BY <2>1, <2>2, RespondKeepsWay DEF Pending
<1>3. CASE AnswerExclusiveRead(o, S, i, x, rest)
  <2>1. PICK p \in pendingDirectoryExclusiveReads :
          /\ pendingDirectorySharedReads = {} /\ Respond({[id |-> i, src |-> p.src]}, x, rest)
    BY <1>3 DEF AnswerExclusiveRead
  <2>2. Pending = {p}
    BY <2>1, PhaseParts DEF Pending
  <2> DEFINE P0 == {[id |-> i, src |-> p.src]}
  <2>3. Respond(P0, x, rest) /\ \A q \in Pending : \E k \in P0 : k.src = q.src
    BY <2>1, <2>2
  <2> HIDE DEF P0
  <2> QED
    BY <2>3, RespondKeepsWay
<1>4. CASE InvalidateSharers(o, S, rest)
  <2>1. rest \subseteq net' /\ toCache[n] \subseteq toCache'[n] /\ Pending' = Pending
    BY <1>4 DEF InvalidateSharers, lookups, Pending
  <2> QED
    BY <2>1, StaysOnItsWay
<1> QED
  BY <1>1, <1>2, <1>3, <1>4

LEMMA AcknowledgementKeepsWay ==
  ASSUME D!PhaseInv, toCache \in [Node -> SUBSET CacheMsg],
         NEW src, NEW attached, NEW rest, OnRemoteInvalidateResponse(src, attached, rest, toCache),
         \A m \in net : m.type \in {"Lookup", "Reply"} => m \in rest,
         NEW n \in Node, OnItsWay(n)
  PROVE  OnItsWay(n)'
<1>1. PICK p \in pendingDirectoryExclusiveReads :
        /\ pendingDirectorySharedReads' = pendingDirectorySharedReads
        /\ \/ /\ net' = IF p.src = Home THEN rest ELSE rest \cup {Reply(p.src, p.id, TRUE, TRUE)}
              /\ toCache' = IF p.src = Home
                            THEN [toCache EXCEPT ![Home] = @ \cup {CacheReadResponse(p.id, TRUE)}]
                            ELSE toCache
           \/ /\ net' = rest /\ toCache' = toCache
              /\ pendingDirectoryExclusiveReads' = pendingDirectoryExclusiveReads
  BY Zenon DEF OnRemoteInvalidateResponse
<1>2. rest \subseteq net' /\ toCache[n] \subseteq toCache'[n]
  BY <1>1
<1>3. ASSUME NEW q \in Pending, q.src = n PROVE q \in Pending' \/ OnItsWay(n)'
  <2>1. Pending = {p} /\ q = p
    BY PhaseParts DEF Pending
  <2>2. CASE Pending' = Pending
    BY <2>2
  <2>3. CASE /\ net' = IF p.src = Home THEN rest ELSE rest \cup {Reply(p.src, p.id, TRUE, TRUE)}
             /\ toCache' = IF p.src = Home
                            THEN [toCache EXCEPT ![Home] = @ \cup {CacheReadResponse(p.id, TRUE)}]
                            ELSE toCache
    <3>1. CASE n = Home
      <4>1. CacheReadResponse(p.id, TRUE) \in toCache'[n]
        BY <1>3, <2>1, <2>3, <3>1
      <4>2. \E m \in toCache'[n] : m.type = "ReadResponse"
        BY <4>1, CacheKinds
      <4> QED
        BY <4>2 DEF OnItsWay
    <3>2. CASE n # Home
      <4>1. Reply(n, p.id, TRUE, TRUE) \in net'
        BY <1>3, <2>1, <2>3, <3>2
      <4>2. \E m \in net' : m.type = "Reply" /\ m.dst = n
        BY <4>1 DEF Reply
      <4> QED
        BY <4>2 DEF OnItsWay
    <3> QED
      BY <3>1, <3>2
  <2> QED
    BY <1>1, <2>2, <2>3 DEF Pending
<1> QED
  BY <1>2, <1>3, StaysOnItsWay

(* A lookup that is taken in is pending, and the fetch leaves the rest.     *)
LEMMA FetchLeaves ==
  ASSUME toCache \in [Node -> SUBSET CacheMsg], NEW pending, NEW x, NEW rest,
         PerformDirectoryFetch(pending, x, rest), NEW n \in Node
  PROVE  rest \subseteq net' /\ toCache[n] \subseteq toCache'[n]
<1>1. PICK p \in pending :
        \/ \E target \in FetchTargets \ {Home} :
             net' = rest \cup {Fetch(target, p.id, x)} /\ toCache' = toCache
        \/ OnRemoteReadCache(Home, p.id, x) /\ net' = rest
        \/ net' = rest /\ toCache' = toCache
  BY Zenon DEF PerformDirectoryFetch
<1> QED
  BY <1>1 DEF OnRemoteReadCache

LEMMA LookupKeepsWay ==
  ASSUME D!PhaseInv, toCache \in [Node -> SUBSET CacheMsg], NEW m \in net, m \in NetMsg,
         OnDirectoryBlockRequest(m), NEW n \in Node, OnItsWay(n)
  PROVE  OnItsWay(n)'
<1>1. m.src \in Node /\ m.id \in MsgID /\ m.exclusive \in BOOLEAN /\ m.type = "Lookup"
  BY DEF OnDirectoryBlockRequest, RefuseLookup, AcceptExclusiveLookup, AcceptSharedLookup, NetMsg
<1>2. CASE RefuseLookup(m)
  <2>1. Pending' = Pending /\ toCache' = toCache
    BY <1>2 DEF RefuseLookup, home, lookups, Pending
  <2>2. CASE m.src = Home
    BY <1>2, <2>1, <2>2, StaysOnItsWay DEF RefuseLookup
  <2>3. CASE m.src # Home
    <3>1. net \ {m} \subseteq net' /\ Reply(m.src, m.id, FALSE, FALSE) \in net'
      BY <1>2, <2>3 DEF RefuseLookup
    <3>2. m.src = n => \E k \in net' : k.type = "Reply" /\ k.dst = n
      BY <3>1 DEF Reply
    <3>3. m.src = n => OnItsWay(n)'
      BY <3>2 DEF OnItsWay
    <3> QED
      BY <1>1, <2>1, <3>1, <3>3, StaysOnItsWay
  <2> QED
    BY <2>2, <2>3
<1>3. ASSUME net \ {m} \subseteq net', toCache[n] \subseteq toCache'[n], Pending \subseteq Pending',
             [id |-> m.id, src |-> m.src] \in Pending'
      PROVE  OnItsWay(n)'
  <2>1. m.src = n => OnItsWay(n)'
    BY <1>3 DEF OnItsWay
  <2> QED
    BY <1>1, <1>3, <2>1, StaysOnItsWay
<1>4. CASE AcceptExclusiveLookup(m)
  <2>1. /\ Pending = {} /\ pendingDirectoryExclusiveReads' = {[id |-> m.id, src |-> m.src]}
        /\ PerformDirectoryFetch(pendingDirectoryExclusiveReads', TRUE, net \ {m})
    BY <1>4 DEF AcceptExclusiveLookup, Busy, Pending
  <2> DEFINE x == TRUE
             pending == pendingDirectoryExclusiveReads'
             rest == net \ {m}
  <2>2. PerformDirectoryFetch(pending, x, rest)
    BY <2>1
  <2> HIDE DEF x, pending, rest
  <2>3. rest \subseteq net' /\ toCache[n] \subseteq toCache'[n]
    BY <2>2, FetchLeaves
  <2> QED
    BY <1>3, <2>1, <2>3 DEF rest, Pending
<1>5. CASE AcceptSharedLookup(m)
  <2>1. /\ pendingDirectorySharedReads' = pendingDirectorySharedReads \cup {[id |-> m.id, src |-> m.src]}
        /\ pendingDirectoryExclusiveReads' = pendingDirectoryExclusiveReads
        /\ \/ net' = net \ {m} /\ toCache' = toCache
           \/ PerformDirectoryFetch(pendingDirectorySharedReads', FALSE, net \ {m})
    BY <1>5 DEF AcceptSharedLookup
  <2> DEFINE x == FALSE
             pending == pendingDirectorySharedReads'
             rest == net \ {m}
  <2>2. (net' = rest /\ toCache' = toCache) \/ PerformDirectoryFetch(pending, x, rest)
    BY <2>1
  <2> HIDE DEF x, pending, rest
  <2>3. rest \subseteq net' /\ toCache[n] \subseteq toCache'[n]
    BY <2>2, FetchLeaves
  <2> QED
    BY <1>3, <2>1, <2>3 DEF rest, Pending
<1> QED
  BY <1>2, <1>4, <1>5 DEF OnDirectoryBlockRequest

LEMMA ReplyKeepsWay ==
  ASSUME toCache \in [Node -> SUBSET CacheMsg], NEW m \in net, m \in NetMsg,
         OnDirectoryBlockResponse(m), NEW n \in Node, OnItsWay(n)
  PROVE  OnItsWay(n)'
<1>1. m.type = "Reply" /\ m.dst \in Node
  BY DEF OnDirectoryBlockResponse, NetMsg
<1>2. PICK r \in pendingLocalReads[m.dst] :
        IF m.satisfied
        THEN /\ toCache' = [toCache EXCEPT ![m.dst] = @ \cup {CacheReadResponse(m.id, m.exclusive)}]
             /\ net' = net \ {m}
        ELSE net' = (net \ {m}) \cup {Lookup(m.dst, r.id, r.exclusive)} /\ toCache' = toCache
  BY Zenon DEF OnDirectoryBlockResponse
<1>3. net \ {m} \subseteq net' /\ toCache[n] \subseteq toCache'[n] /\ Pending' = Pending
  BY <1>2 DEF OnDirectoryBlockResponse, home, lookups, Pending
<1>4. m.dst = n => OnItsWay(n)'
  <2>1. CASE m.satisfied
    <3>1. CacheReadResponse(m.id, m.exclusive) \in toCache'[m.dst]
      BY <1>1, <1>2, <2>1
    <3>2. m.dst = n => \E k \in toCache'[n] : k.type = "ReadResponse"
      BY <3>1, CacheKinds
    <3> QED
      BY <3>2 DEF OnItsWay
  <2>2. CASE ~m.satisfied
    <3> DEFINE l == Lookup(m.dst, r.id, r.exclusive)
    <3>1. l \in net' /\ l.type = "Lookup" /\ l.src = m.dst
      BY <1>2, <2>2 DEF Lookup
    <3> HIDE DEF l
    <3> QED
      BY <3>1 DEF OnItsWay
  <2> QED
    BY <2>1, <2>2
<1> QED
  BY <1>1, <1>3, <1>4, StaysOnItsWay

LEMMA NakKeepsWay ==
  ASSUME toCache \in [Node -> SUBSET CacheMsg], NEW m \in net,
         OnRemoteDirectoryNak(m), NEW n \in Node, OnItsWay(n)
  PROVE  OnItsWay(n)'
<1> DEFINE x == FALSE
           y == TRUE
           rest == net \ {m}
<1>1. /\ m.type = "DirectoryNak" /\ Pending' = Pending
      /\ \/ PerformDirectoryFetch(pendingDirectorySharedReads, x, rest)
         \/ PerformDirectoryFetch(pendingDirectoryExclusiveReads, y, rest)
         \/ net' = rest /\ toCache' = toCache
  BY DEF OnRemoteDirectoryNak, lookups, Pending
<1>2. rest = net \ {m}
  OBVIOUS
<1> HIDE DEF x, y, rest
<1>3. rest \subseteq net' /\ toCache[n] \subseteq toCache'[n]
  BY <1>1, FetchLeaves
<1> QED
  BY <1>1, <1>2, <1>3, StaysOnItsWay

LEMMA RecvKeepsWay ==
  ASSUME D!PhaseInv, toCache \in [Node -> SUBSET CacheMsg], NEW m \in net, RecvMsg(m),
         NEW n \in Node, OnItsWay(n)
  PROVE  OnItsWay(n)'
<1>1. m \in NetMsg
  BY PhaseParts
<1> DEFINE rest == net \ {m}
<1>2. m.type \notin {"Lookup", "Reply"} => \A k \in net : k.type \in {"Lookup", "Reply"} => k \in rest
  OBVIOUS
<1>3. CASE OnDirectoryBlockRequest(m)
  BY <1>1, <1>3, LookupKeepsWay
<1>4. CASE OnDirectoryBlockResponse(m)
  BY <1>1, <1>4, ReplyKeepsWay
<1>5. CASE OnRemoteDirectoryNak(m)
  BY <1>5, NakKeepsWay
<1>6. CASE OnFetch(m)
  <2>1. m.type = "Fetch" /\ net' = rest /\ Pending' = Pending /\ toCache[n] \subseteq toCache'[n]
    BY <1>6 DEF OnFetch, OnRemoteReadCache, home, lookups, Pending
  <2> QED
    BY <1>2, <2>1, StaysOnItsWay
<1>7. CASE OnFetchReply(m)
  <2> DEFINE src == m.src
             i == m.id
             x == m.exclusive
  <2>1. m.type = "FetchReply" /\ OnRemoteReadResponse(src, i, x, rest)
    BY <1>7 DEF OnFetchReply
  <2>2. \A k \in net : k.type \in {"Lookup", "Reply"} => k \in rest
    BY <1>2, <2>1
  <2> HIDE DEF src, i, x, rest
  <2> QED
    BY <2>1, <2>2, ReadResponseKeepsWay
<1>8. CASE OnRemoteEviction(m)
  <2>1. m.type = "Eviction" /\ rest \subseteq net' /\ Pending' = Pending /\ toCache' = toCache
    BY <1>8 DEF OnRemoteEviction, lookups, Pending
  <2> QED
    BY <1>2, <2>1, StaysOnItsWay
<1>9. CASE OnRemoteEvictionResponse(m)
  <2>1. m.type = "EvictionResponse" /\ net' = rest /\ Pending' = Pending /\ toCache' = toCache
    BY <1>9 DEF OnRemoteEvictionResponse, home, lookups, Pending
  <2> QED
    BY <1>2, <2>1, StaysOnItsWay
<1>10. CASE OnRemoteInvalidate(m)
  <2>1. m.type = "Invalidate" /\ net' = rest /\ Pending' = Pending /\ toCache[n] \subseteq toCache'[n]
    BY <1>10 DEF OnRemoteInvalidate, home, lookups, Pending
  <2> QED
    BY <1>2, <2>1, StaysOnItsWay
<1>11. CASE OnInvalidateResponse(m)
  <2> DEFINE src == m.src
             attached == m.blockAttached
  <2>1. m.type = "InvalidateResponse" /\ OnRemoteInvalidateResponse(src, attached, rest, toCache)
    BY <1>11 DEF OnInvalidateResponse
  <2>2. \A k \in net : k.type \in {"Lookup", "Reply"} => k \in rest
    BY <1>2, <2>1
  <2> HIDE DEF src, attached, rest
  <2> QED
    BY <2>1, <2>2, AcknowledgementKeepsWay
<1> QED
  BY <1>3, <1>4, <1>5, <1>6, <1>7, <1>8, <1>9, <1>10, <1>11 DEF RecvMsg
-----------------------------------------------------------------------------
(* Steps of the directories.                                                *)

LEMMA InvParts ==
  ASSUME CoherenceInv
  PROVE  /\ TypeOK /\ D!PhaseInv /\ toCache \in [Node -> SUBSET CacheMsg] /\ net \subseteq NetMsg
         /\ cache \in [Node -> P!CacheObject(P!Asking)] /\ fromCache \in [Node -> Seq(SentMsg)]
         /\ \A n \in Node : CacheOK(n) /\ TokensOK(n)
BY DEF CoherenceInv, TypeOK

LEMMA NothingAnswered ==
  ASSUME CoherenceInv, NothingAtCaches
  PROVE  \A n \in Node : ~Holds(fromCache[n], "ReadResponse")
<1> SUFFICES ASSUME NEW n \in Node, Holds(fromCache[n], "ReadResponse") PROVE FALSE
  OBVIOUS
<1>1. PICK k \in DOMAIN fromCache[n] : fromCache[n][k].msg.type = "ReadResponse"
  BY DEF Holds
<1>2. HoldsAnswer(fromCache[n], fromCache[n][k].msg.id)
  BY <1>1 DEF HoldsAnswer
<1>3. \A i : HoldsAnswer(fromCache[n], i) => \E q \in pendingRemoteReads[n] : q.id = i
  BY InvParts DEF TokensOK, Tokens
<1> QED
  BY <1>2, <1>3 DEF NothingAtCaches

(* A step that asks the caches by the rules, and leaves them alone.         *)
LEMMA AskingStepKeeps ==
  ASSUME CoherenceInv, TypeOK', D!Next, cache' = cache, fromCache' = fromCache,
         \A n \in Node : NodeAsks(n), \A n \in Node : OnItsWay(n) => OnItsWay(n)'
  PROVE  CoherenceInv'
<1>1. D!PhaseInv'
  BY InvParts, DirectoryAssumed, D!StepPhaseInv
<1>2. ASSUME NEW n \in Node PROVE CacheOK(n)'
  <2> DEFINE W == AskedAt(n)
             V == AskedAt(n)'
  <2>1. W \subseteq V
    BY DEF AskedAt
  <2>2. P!CacheInv(cache[n], P!Asking, W) /\ cache[n].topCache /\ cache[n].toRemote = <<>>
    BY InvParts DEF CacheOK
  <2>3. P!CacheInv(cache[n], P!Asking, V)
    <3> HIDE DEF W, V
    <3> QED
      BY <2>1, <2>2, MoreAsked
  <2> QED
    BY <2>2, <2>3 DEF CacheOK
<1>3. ASSUME NEW n \in Node PROVE TokensOK(n)'
  <2> DEFINE s == fromCache[n]
  <2>1. /\ Tokens(n, toCache[n], pendingRemoteReads[n], pendingRemoteInvalidates, s)
        /\ Asks(n, toCache[n], toCache'[n], pendingRemoteReads[n], pendingRemoteReads'[n],
                pendingRemoteInvalidates, pendingRemoteInvalidates')
        /\ s = fromCache'[n]
    BY InvParts DEF TokensOK, NodeAsks
  <2> HIDE DEF s
  <2>2. Tokens(n, toCache'[n], pendingRemoteReads'[n], pendingRemoteInvalidates', s)
    BY <2>1, AskingKeeps
  <2> QED
    BY <2>1, <2>2 DEF TokensOK
<1> QED
  BY <1>1, <1>2, <1>3, InvParts DEF CoherenceInv

LEMMA RecvStep ==
  ASSUME CoherenceInv, NEW m \in net, RecvMsg(m), cache' = cache, fromCache' = fromCache
  PROVE  CoherenceInv' /\ D!Next
<1>1. TypeOK'
  BY InvParts, RecvTypeOK
<1>2. \A n \in Node : NodeAsks(n) /\ (pendingRemoteReads' = pendingRemoteReads \/ NothingAtCaches)
  BY InvParts, RecvAsks
<1>3. Follows
  <2>1. CASE pendingRemoteReads' = pendingRemoteReads
    BY <2>1, InvParts, DirectoryFollows
  <2>2. CASE pendingRemoteReads' # pendingRemoteReads
    BY <1>2, <2>2, InvParts, NothingAnswered, DirectoryFollows
  <2> QED
    BY <2>1, <2>2
<1>4. D!RecvMsg(m)
  BY <1>3, InvParts, RecvSimulates
<1>5. D!Next
  BY <1>4 DEF D!Next
<1>6. \A n \in Node : OnItsWay(n) => OnItsWay(n)'
  BY InvParts, RecvKeepsWay
<1> QED
  BY <1>1, <1>2, <1>5, <1>6, AskingStepKeeps

LEMMA MemoryReadStep ==
  ASSUME CoherenceInv, NEW i \in pendingMemoryReadAccesses, OnLocalMemoryReadResponse(i),
         cache' = cache, fromCache' = fromCache
  PROVE  CoherenceInv' /\ D!Next
<1> DEFINE x == TRUE
           rest == net
<1>1. OnRemoteReadResponse(NoNode, i, x, rest)
      /\ pendingMemoryReadAccesses' = pendingMemoryReadAccesses \ {i}
  BY DEF OnLocalMemoryReadResponse
<1>2. rest = net /\ x \in BOOLEAN
  OBVIOUS
<1>3. Follows
  <2>1. pendingRemoteReads' = pendingRemoteReads
    BY <1>1 DEF OnRemoteReadResponse
  <2> QED
    BY <2>1, InvParts, DirectoryFollows
<1>4. D!OnLocalMemoryReadResponse(i)
  <2> HIDE DEF x, rest
  <2>1. D!OnRemoteReadResponse(NoNode, i, x, rest)
    BY <1>1, <1>3, ReadResponseSimulates
  <2> QED
    BY <1>1, <2>1 DEF D!OnLocalMemoryReadResponse, x, rest
<1>5. D!Next
  BY <1>4 DEF D!Next
<1> HIDE DEF x, rest
<1>6. pendingRemoteInvalidates = {}
  BY InvParts, MemoryRead
<1>7. \A n \in Node : NodeAsks(n)
  BY <1>1, <1>6, InvParts, ReadResponseAsks
<1>8. \A n \in Node : OnItsWay(n) => OnItsWay(n)'
  BY <1>1, <1>2, InvParts, ReadResponseKeepsWay
<1>9. TypeOK'
  BY InvParts, StepTypeOK DEF Next
<1> QED
  BY <1>5, <1>7, <1>8, <1>9, AskingStepKeeps

LEMMA MemoryWriteStep ==
  ASSUME CoherenceInv, OnLocalMemoryWriteResponse, cache' = cache, fromCache' = fromCache
  PROVE  CoherenceInv' /\ D!Next
<1>1. /\ toCache' = toCache /\ pendingRemoteReads' = pendingRemoteReads
      /\ pendingRemoteInvalidates' = pendingRemoteInvalidates /\ net' = net /\ Pending' = Pending
  BY DEF OnLocalMemoryWriteResponse, local, lookups, Pending
<1>2. Asked' = Asked
  BY <1>1, InvParts, DirectoryFollows DEF Follows
<1>3. D!OnLocalMemoryWriteResponse
  BY <1>2 DEF OnLocalMemoryWriteResponse, D!OnLocalMemoryWriteResponse, entry, D!entry, lookups,
              D!lookups, counts, D!counts, local, D!local
<1>4. D!Next
  BY <1>3 DEF D!Next
<1>5. \A n \in Node : NodeAsks(n)
  BY <1>1, QuietAsks
<1>6. \A n \in Node : OnItsWay(n) => OnItsWay(n)'
  BY <1>1 DEF OnItsWay
<1>7. TypeOK'
  BY InvParts, StepTypeOK DEF Next
<1> QED
  BY <1>4, <1>5, <1>6, <1>7, AskingStepKeeps
-----------------------------------------------------------------------------
(* Steps of the caches.                                                     *)

(* Only node n of the caches changes, and the contract sees nothing of it   *)
(* or that the cache takes a response.                                      *)
CacheStep(n) ==
  /\ UNCHANGED <<home, local, net>>
  /\ \A k \in Node \ {n} : /\ cache'[k] = cache[k] /\ fromCache'[k] = fromCache[k]
                           /\ toCache'[k] = toCache[k]
  /\ toCache'[n] \subseteq toCache[n]
  /\ DOMAIN toCache' = Node /\ toCache' = [k \in Node |-> toCache'[k]]

LEMMA CacheStepTyped ==
  ASSUME TypeOK, NEW n \in Node, CacheStep(n)
  PROVE  TypeOK'
<1>1. \A k \in Node : toCache'[k] \subseteq toCache[k]
  BY DEF CacheStep
<1>2. toCache' \in [Node -> SUBSET CacheMsg]
  BY <1>1 DEF CacheStep, TypeOK
<1> QED
  BY <1>2 DEF CacheStep, TypeOK, home, local, entry, lookups, counts

LEMMA AskedElsewhere ==
  ASSUME NEW n \in Node, CacheStep(n)
  PROVE  \A k \in Node \ {n} : Asked'[k] = Asked[k]
<1>1. pendingRemoteReads' = pendingRemoteReads
  BY DEF CacheStep, local
<1> QED
  BY <1>1, AskedIs DEF CacheStep

(* The contract takes no step when n is asked the same.                     *)
LEMMA ContractStutters ==
  ASSUME NEW n \in Node, CacheStep(n),
         AskedOf(toCache'[n], pendingRemoteReads[n], fromCache'[n])
           = AskedOf(toCache[n], pendingRemoteReads[n], fromCache[n])
  PROVE  UNCHANGED D!vars
<1>1. pendingRemoteReads' = pendingRemoteReads
  BY DEF CacheStep, local
<1>2. Asked'[n] = Asked[n]
  BY <1>1, AskedIs
<1>3. Asked' = Asked
  BY <1>2, AskedElsewhere, AskedIs
<1> QED
  BY <1>3 DEF CacheStep, D!vars, D!home, D!local, home, local, entry, lookups, counts, D!entry,
              D!lookups, D!counts

LEMMA CacheStepKeeps ==
  ASSUME CoherenceInv, NEW n \in Node, CacheStep(n), [D!Next]_(D!vars),
         cache' \in [Node -> P!CacheObject(P!Asking)], fromCache' \in [Node -> Seq(SentMsg)],
         CacheOK(n)', TokensOK(n)'
  PROVE  CoherenceInv'
<1>1. D!PhaseInv'
  BY InvParts, DirectoryAssumed, D!StepPhaseInv
<1>2. TypeOK'
  BY InvParts, CacheStepTyped
<1>3. ASSUME NEW k \in Node \ {n} PROVE CacheOK(k)' /\ TokensOK(k)'
  <2>1. /\ cache'[k] = cache[k] /\ fromCache'[k] = fromCache[k] /\ toCache'[k] = toCache[k]
        /\ net' = net /\ Pending' = Pending
        /\ pendingRemoteReads' = pendingRemoteReads
        /\ pendingRemoteInvalidates' = pendingRemoteInvalidates
    BY DEF CacheStep, local, home, lookups, Pending
  <2>2. AskedAt(k)' = AskedAt(k)
    BY <2>1 DEF AskedAt, OnItsWay
  <2> QED
    BY <2>1, <2>2, InvParts DEF CacheOK, TokensOK
<1>4. \A k \in Node : CacheOK(k)' /\ TokensOK(k)'
  BY <1>3
<1> QED
  BY <1>1, <1>2, <1>4 DEF CoherenceInv

(* The cache of n has been given a message or a request, asks for nothing   *)
(* or has asked, and what waits for Addr afterwards was asked for.          *)
LEMMA AskedForStill ==
  ASSUME NEW n \in Node, CacheStep(n), NEW W,
         W = AskedAt(n) \/ W = AskedAt(n) \ {Addr},
         \/ W = AskedAt(n) \ {Addr}
         \/ \A m \in toCache[n] : m.type = "ReadResponse" => m \in toCache'[n],
         NEW out, fromCache'[n] = Sent(fromCache[n], out), out \in P!Outbox(P!Sending),
         fromCache[n] \in Seq(SentMsg)
  PROVE  /\ W \subseteq AskedAt(n)' /\ Tag \ {Addr} \subseteq AskedAt(n)'
         /\ Holds(fromCache'[n], "Read") => Addr \in AskedAt(n)'
<1>1. Holds(fromCache[n], "Read") => Holds(fromCache'[n], "Read")
  <2> DEFINE s == fromCache[n]
             r == fromCache'[n]
  <2>1. s \in Seq(SentMsg) /\ r = Sent(s, out)
    OBVIOUS
  <2> HIDE DEF s, r
  <2>2. Holds(s, "Read") => Holds(r, "Read")
    BY <2>1, SentHolds
  <2> QED
    BY <2>2 DEF s, r
<1>2. net' = net /\ Pending' = Pending
  BY DEF CacheStep, home, lookups, Pending
<1>3. CASE \A m \in toCache[n] : m.type = "ReadResponse" => m \in toCache'[n]
  <2>1. OnItsWay(n) => OnItsWay(n)'
    BY <1>2, <1>3 DEF OnItsWay
  <2> QED
    BY <1>1, <2>1, AddrAssumption DEF AskedAt
<1>4. CASE W = AskedAt(n) \ {Addr}
  BY <1>4, AddrAssumption DEF AskedAt
<1> QED
  BY <1>3, <1>4

(* A handler that answers nothing: of a request, or of a response.          *)
LEMMA QuietStepKeeps ==
  ASSUME CoherenceInv, NEW n \in Node, CacheStep(n), NEW c, Leave(n, c), NEW W,
         P!CacheInv(c, P!Asking, W), c.topCache,
         W = AskedAt(n) \/ W = AskedAt(n) \ {Addr},
         \/ W = AskedAt(n) \ {Addr}
         \/ \A m \in toCache[n] : m.type = "ReadResponse" => m \in toCache'[n]
  PROVE  /\ CacheOK(n)' /\ TokensOK(n)'
         /\ cache' \in [Node -> P!CacheObject(P!Asking)] /\ fromCache' \in [Node -> Seq(SentMsg)]
         /\ SameAnswers(fromCache[n], fromCache'[n])
<1>1. Quietly(c.toRemote) /\ c.toRemote \in P!Outbox(P!Sending)
  <2>1. c.toRemote \in P!Outbox(P!Asking)
    BY DEF P!CacheInv, P!BlocksInv, P!CacheObject
  <2> DEFINE out == c.toRemote
  <2> HIDE DEF out
  <2>2. Quietly(out) /\ out \in P!Outbox(P!Sending)
    BY <2>1, AskingIsQuiet DEF out
  <2> QED
    BY <2>2 DEF out
<1>2. P!CacheInv(c, P!Sending, W)
  <2>1. c \in P!CacheObject(P!Sending)
    BY <1>1 DEF P!CacheInv, P!BlocksInv, P!CacheObject
  <2>2. P!SameTables(c, c) /\ P!AskedFor(c, W)
    BY DEF P!SameTables, P!CacheInv, P!BlocksInv
  <2> QED
    BY <2>1, <2>2, P!TablesDecide
<1>3. fromCache'[n] = Sent(fromCache[n], c.toRemote)
  BY InvParts DEF Leave, Sent
<1>4. /\ W \subseteq AskedAt(n)' /\ Tag \ {Addr} \subseteq AskedAt(n)'
      /\ Holds(fromCache'[n], "Read") => Addr \in AskedAt(n)'
  <2> DEFINE out == c.toRemote
  <2>1. fromCache'[n] = Sent(fromCache[n], out) /\ out \in P!Outbox(P!Sending) /\ fromCache[n] \in Seq(SentMsg)
    BY <1>1, <1>3, InvParts
  <2> HIDE DEF out
  <2> QED
    BY <2>1, AskedForStill
<1> DEFINE V == AskedAt(n)'
<1>5. W \subseteq V /\ Tag \ {Addr} \subseteq V /\ (Holds(fromCache'[n], "Read") => Addr \in V)
  BY <1>4
<1> HIDE DEF V
<1>6. /\ P!CacheInv(cache'[n], P!Asking, V) /\ cache'[n].topCache /\ cache'[n].toRemote = <<>>
      /\ cache' \in [Node -> P!CacheObject(P!Asking)] /\ fromCache' \in [Node -> Seq(SentMsg)]
  BY <1>2, <1>5, InvParts, LeaveKeeps
<1>7. Tokens(n, toCache[n], pendingRemoteReads[n], pendingRemoteInvalidates, fromCache'[n])
      /\ SameAnswers(fromCache[n], fromCache'[n])
  <2> DEFINE out == c.toRemote
             s == fromCache[n]
             r == fromCache'[n]
  <2>1. /\ s \in Seq(SentMsg) /\ r = Sent(s, out) /\ out \in P!Outbox(P!Sending) /\ Quietly(out)
        /\ Tokens(n, toCache[n], pendingRemoteReads[n], pendingRemoteInvalidates, s)
    BY <1>1, <1>3, InvParts DEF TokensOK
  <2> HIDE DEF out, s, r
  <2>2. Tokens(n, toCache[n], pendingRemoteReads[n], pendingRemoteInvalidates, r) /\ SameAnswers(s, r)
    BY <2>1, QuietKeeps
  <2> QED
    BY <2>2 DEF s, r
<1>8. TokensOK(n)'
  <2>1. /\ toCache'[n] \subseteq toCache[n] /\ pendingRemoteReads' = pendingRemoteReads
        /\ pendingRemoteInvalidates' = pendingRemoteInvalidates
    BY DEF CacheStep, local
  <2>2. Tokens(n, toCache'[n], pendingRemoteReads[n], pendingRemoteInvalidates, fromCache'[n])
    BY <1>7, <2>1, TokensOfFewer
  <2> QED
    BY <2>1, <2>2 DEF TokensOK
<1> QED
  BY <1>6, <1>7, <1>8 DEF CacheOK, V

(* A processor makes a request.                                             *)
LEMMA RequestsAre == Requests \subseteq P!Request
<1>1. \A t \in Tag : C!Read(t, FALSE, NoID) \in P!Request
  BY DEF C!Read, P!Request, P!ReadMsg, P!IDs
<1>2. C!Write(Addr, NoID) \in P!Request
  BY AddrAssumption DEF C!Write, P!Request, P!IDs
<1> QED
  BY <1>1, <1>2 DEF Requests

LEMMA StaysIsCacheStep ==
  ASSUME TypeOK, UNCHANGED vars, NEW n \in Node, NEW c, Leave(n, c)
  PROVE  CacheStep(n) /\ toCache' = toCache /\ pendingRemoteReads' = pendingRemoteReads
<1>1. \A k \in Node \ {n} : cache'[k] = cache[k] /\ fromCache'[k] = fromCache[k]
  BY DEF Leave
<1> QED
  BY <1>1 DEF CacheStep, vars, TypeOK, local

LEMMA StutterWithSameAnswers ==
  ASSUME NEW n \in Node, CacheStep(n), toCache' = toCache,
         SameAnswers(fromCache[n], fromCache'[n])
  PROVE  UNCHANGED D!vars
<1> DEFINE T == toCache[n]
           R == pendingRemoteReads[n]
           s == fromCache[n]
           r == fromCache'[n]
<1>1. SameAnswers(s, r) /\ T = toCache'[n]
  OBVIOUS
<1>2. AskedOf(T, R, r) = AskedOf(T, R, s)
  <2> HIDE DEF T, R, s, r
  <2> QED
    BY <1>1, AskedStays
<1> QED
  BY <1>1, <1>2, ContractStutters

LEMMA ProcessorStep ==
  ASSUME CoherenceInv, NEW n \in Node, ProcessorRequests(n)
  PROVE  CoherenceInv' /\ UNCHANGED D!vars
<1>1. PICK m \in Requests : \E c \in C!OnLocalRequest(cache[n], m) : Leave(n, c)
  BY DEF ProcessorRequests
<1>2. PICK c \in P!OnLocalRequest(cache[n], m) : Leave(n, c)
  BY <1>1, SameLocalRequestC
<1>3. CacheStep(n) /\ toCache' = toCache
  <2>1. UNCHANGED vars
    BY DEF ProcessorRequests
  <2> QED
    BY <1>2, <2>1, InvParts, StaysIsCacheStep
<1> DEFINE W == AskedAt(n)
           d == cache[n]
           R == P!Asking
<1>4. P!CacheInv(d, R, W) /\ d.topCache
  BY InvParts DEF CacheOK
<1>5. P!CacheInv(c, R, W) /\ c.topCache = d.topCache
  <2>1. m \in P!Request /\ c \in P!OnLocalRequest(d, m)
    BY <1>1, <1>2, RequestsAre
  <2>2. P!Asking \subseteq R
    OBVIOUS
  <2> HIDE DEF W, d, R
  <2> QED
    BY ZenonT(60), <1>4, <2>1, <2>2, CachesAssumed, P!LocalRequestKeeps
<1>6. W = AskedAt(n) /\ \A k \in toCache[n] : k \in toCache'[n]
  BY <1>3
<1> HIDE DEF W
<1>7. /\ CacheOK(n)' /\ TokensOK(n)'
      /\ cache' \in [Node -> P!CacheObject(P!Asking)] /\ fromCache' \in [Node -> Seq(SentMsg)]
      /\ SameAnswers(fromCache[n], fromCache'[n])
  BY <1>2, <1>3, <1>4, <1>5, <1>6, QuietStepKeeps
<1>8. UNCHANGED D!vars
  BY <1>3, <1>7, StutterWithSameAnswers
<1> QED
  BY <1>3, <1>7, <1>8, CacheStepKeeps

(* The block of another address arrives.                                    *)
LEMMA OtherBlockStep ==
  ASSUME CoherenceInv, NEW n \in Node, OtherBlockArrives(n)
  PROVE  CoherenceInv' /\ UNCHANGED D!vars
<1> DEFINE W == AskedAt(n)
           d == cache[n]
           R == P!Asking
           x == TRUE
<1>1. PICK t \in Tag \ {Addr} :
        \E c \in C!OnRemoteReadResponse(d, C!ReadResponse(C!Read(t, FALSE, NoID), TRUE, FALSE), x) : Leave(n, c)
  BY DEF OtherBlockArrives
<1>2. P!CacheInv(d, R, W) /\ d.topCache
  BY InvParts DEF CacheOK
<1> DEFINE m == C!ReadResponse(C!Read(t, FALSE, NoID), TRUE, FALSE)
<1>3. m.tag = t
  BY DEF C!ReadResponse, C!Read
<1>4. P!Asking \subseteq R /\ x \in BOOLEAN
  OBVIOUS
<1>5. PICK c \in C!OnRemoteReadResponse(d, m, x) : Leave(n, c)
  BY <1>1
<1>6. CacheStep(n) /\ toCache' = toCache
  <2>1. UNCHANGED vars
    BY DEF OtherBlockArrives
  <2> QED
    BY <1>5, <2>1, InvParts, StaysIsCacheStep
<1>7. P!CacheInv(c, R, W \ {t}) /\ c.topCache = d.topCache
  <2>1. m.tag \in Tag
    BY <1>3
  <2> HIDE DEF W, d, R, x, m
  <2>2. c \in P!OnRemoteReadResponse(d, m, x)
    BY <1>2, <1>4, <1>5, <2>1, CachesAssumed, SameRemoteReadResponseC
  <2>3. P!CacheInv(d, R, W)
    BY <1>2
  <2>4. P!CacheInv(c, R, W \ {m.tag}) /\ c.topCache = d.topCache
    BY <1>4, <2>1, <2>2, <2>3, CachesAssumed, P!RemoteReadResponseKeeps
  <2> QED
    BY <1>3, <2>4
<1>8. P!CacheInv(c, R, W)
  <2>1. W \ {t} \subseteq W
    OBVIOUS
  <2> DEFINE V == W \ {t}
  <2>2. P!CacheInv(c, R, V) /\ V \subseteq W
    BY <1>7, <2>1
  <2> HIDE DEF V, W, R
  <2> QED
    BY <2>2, MoreAsked
<1>9. W = AskedAt(n) /\ \A k \in toCache[n] : k \in toCache'[n]
  BY <1>6
<1> HIDE DEF W
<1>10. /\ CacheOK(n)' /\ TokensOK(n)'
       /\ cache' \in [Node -> P!CacheObject(P!Asking)] /\ fromCache' \in [Node -> Seq(SentMsg)]
       /\ SameAnswers(fromCache[n], fromCache'[n])
  BY <1>2, <1>5, <1>6, <1>7, <1>8, <1>9, QuietStepKeeps
<1>11. UNCHANGED D!vars
  BY <1>6, <1>10, StutterWithSameAnswers
<1> QED
  BY <1>6, <1>10, <1>11, CacheStepKeeps

(* A cache receives a message of the directory.                             *)
LEMMA SentToCache ==
  ASSUME NEW m \in CacheMsg
  PROVE  /\ m.type = "Read" => /\ AsSent(m) \in P!ReadMsg /\ AsSent(m).tag = Addr
                               /\ AsSent(m).id = m.id /\ AsSent(m).type = "Read"
         /\ m.type = "ReadResponse" => AsSent(m).tag = Addr /\ AsSent(m).type = "ReadResponse"
         /\ m.type = "Invalidate" => /\ AsSent(m).tag = Addr /\ AsSent(m).type = "Invalidate"
                                     /\ m = CacheInvalidate
         /\ m.type \in {"Read", "ReadResponse", "Invalidate"}
<1>1. CASE m.type = "Read"
  <2>1. m.id \in MsgID /\ m.exclusive \in BOOLEAN
    BY <1>1 DEF CacheMsg, CacheInvalidate
  <2>2. AsSent(m) = C!Read(Addr, m.exclusive, m.id)
    BY <1>1 DEF AsSent
  <2> QED
    BY <1>1, <2>1, <2>2, AddrAssumption DEF C!Read, P!ReadMsg, P!IDs
<1>2. CASE m.type = "ReadResponse"
  <2>1. AsSent(m) = C!ReadResponse(C!Read(Addr, FALSE, m.id), TRUE, m.exclusive)
    BY <1>2 DEF AsSent
  <2> QED
    BY <1>2, <2>1 DEF C!Read, C!ReadResponse
<1>3. CASE m.type = "Invalidate"
  <2>1. AsSent(m) = C!Invalidate(Addr)
    BY <1>3 DEF AsSent
  <2>2. m = CacheInvalidate
    BY <1>3 DEF CacheMsg, CacheInvalidate
  <2> QED
    BY <1>3, <2>1, <2>2 DEF C!Invalidate
<1>4. m.type \in {"Read", "ReadResponse", "Invalidate"}
  BY DEF CacheMsg, CacheInvalidate
<1> QED
  BY <1>1, <1>2, <1>3, <1>4

(* What CacheReceives does, as the handler of P does it.                    *)
Receives(n, m, c) ==
  /\ toCache' = [toCache EXCEPT ![n] = @ \ {m}]
  /\ c \in P!FromRemote(cache[n], AsSent(m), TRUE)
  /\ Leave(n, c)

LEMMA ReceivesIs ==
  ASSUME CoherenceInv, NEW n \in Node, CacheReceives(n)
  PROVE  \E m \in toCache[n] : /\ m \in CacheMsg /\ \E c : Receives(n, m, c)
                               /\ CacheStep(n)
<1>1. PICK m \in toCache[n] :
        /\ toCache' = [toCache EXCEPT ![n] = @ \ {m}]
        /\ \E c \in C!FromRemote(cache[n], AsSent(m), TRUE) : Leave(n, c)
        /\ UNCHANGED <<home, local, net, requests>>
  BY DEF CacheReceives
<1>2. m \in CacheMsg
  BY InvParts
<1> DEFINE d == cache[n]
           R == P!Asking
           W == AskedAt(n)
           k == AsSent(m)
           x == TRUE
<1>3. P!CacheInv(d, R, W) /\ P!Asking \subseteq R /\ k.tag \in Tag
  BY <1>2, InvParts, SentToCache, AddrAssumption DEF CacheOK
<1>4. C!FromRemote(d, k, x) = P!FromRemote(d, k, x)
  <2> HIDE DEF d, R, W, k, x
  <2> QED
    BY <1>3, CachesAssumed, SameFromRemoteC
<1>5. PICK c : c \in C!FromRemote(d, k, x) /\ Leave(n, c)
  BY <1>1
<1>6. Receives(n, m, c)
  BY <1>1, <1>4, <1>5 DEF Receives
<1>7. CacheStep(n)
  <2>1. \A j \in Node \ {n} : cache'[j] = cache[j] /\ fromCache'[j] = fromCache[j]
    BY <1>5 DEF Leave
  <2>2. toCache' = [j \in Node |-> toCache'[j]] /\ DOMAIN toCache' = Node
    BY <1>1, InvParts
  <2>3. \A j \in Node \ {n} : toCache'[j] = toCache[j]
    BY <1>1, InvParts
  <2>4. toCache'[n] \subseteq toCache[n]
    BY <1>1, InvParts
  <2> QED
    BY <1>1, <2>1, <2>2, <2>3, <2>4 DEF CacheStep
<1> QED
  BY <1>2, <1>6, <1>7

LEMMA ResponseStep ==
  ASSUME CoherenceInv, NEW n \in Node, CacheStep(n), NEW m \in toCache[n], m \in CacheMsg,
         m.type = "ReadResponse", NEW c, Receives(n, m, c)
  PROVE  CoherenceInv' /\ D!Next
<1> DEFINE d == cache[n]
           R == P!Asking
           A == AskedAt(n)
           W == A \ {Addr}
           k == AsSent(m)
           x == TRUE
<1>1. P!CacheInv(d, R, A) /\ d.topCache /\ P!Asking \subseteq R /\ k.tag = Addr /\ k.type = "ReadResponse"
  BY InvParts, SentToCache DEF CacheOK
<1>2. c \in P!OnRemoteReadResponse(d, k, x) /\ Leave(n, c) /\ x \in BOOLEAN
  BY <1>1 DEF Receives, P!FromRemote
<1>3. P!CacheInv(c, R, W) /\ c.topCache = d.topCache
  <2>1. k.tag \in Tag /\ W = A \ {k.tag}
    BY <1>1, AddrAssumption
  <2> HIDE DEF d, R, A, k, x, W
  <2>2. P!CacheInv(d, R, A) /\ P!Asking \subseteq R
    BY <1>1
  <2>3. c \in P!OnRemoteReadResponse(d, k, x) /\ x \in BOOLEAN
    BY <1>2
  <2>4. P!CacheInv(c, R, A \ {k.tag}) /\ c.topCache = d.topCache
    BY <2>1, <2>2, <2>3, CachesAssumed, P!RemoteReadResponseKeeps
  <2> QED
    BY <2>1, <2>4
<1>4. W = AskedAt(n) \ {Addr}
  OBVIOUS
<1> HIDE DEF W, A
<1>5. /\ CacheOK(n)' /\ TokensOK(n)'
      /\ cache' \in [Node -> P!CacheObject(P!Asking)] /\ fromCache' \in [Node -> Seq(SentMsg)]
      /\ SameAnswers(fromCache[n], fromCache'[n])
  BY <1>1, <1>2, <1>3, <1>4, QuietStepKeeps
<1>6. D!CacheTakesResponse(n)
  <2> DEFINE T == toCache[n]
             U == toCache'[n]
             Q == pendingRemoteReads[n]
             s == fromCache[n]
             r == fromCache'[n]
  <2>1. SameAnswers(s, r) /\ U = T \ {m} /\ m \in T
    BY <1>5, InvParts DEF Receives
  <2>2. AskedOf(U, Q, r) = AskedOf(T, Q, s) \ {m} /\ m \in AskedOf(T, Q, s)
    <3> HIDE DEF T, U, Q, s, r
    <3>1. AskedOf(U, Q, r) = AskedOf(U, Q, s)
      BY <2>1, AskedStays
    <3>2. \A j : j \in AskedOf(U, Q, s) <=> j \in AskedOf(T, Q, s) /\ j # m
      <4>1. \A i, y : CacheRead(i, y) # m /\ CacheInvalidate # m
        BY CacheKinds
      <4> QED
        BY <2>1, <4>1, InAskedOf
    <3>3. m \in AskedOf(T, Q, s)
      BY <2>1, InAskedOf
    <3> QED
      BY <3>1, <3>2, <3>3
  <2>3. Asked'[n] = Asked[n] \ {m} /\ m \in Asked[n]
    BY <2>2, AskedIs DEF CacheStep, local
  <2>4. Asked' = [Asked EXCEPT ![n] = @ \ {m}]
    BY <2>3, AskedElsewhere, AskedIs
  <2> QED
    BY <2>3, <2>4 DEF D!CacheTakesResponse, CacheStep, D!home, D!local, home, local, entry, lookups,
                      counts, D!entry, D!lookups, D!counts
<1>7. D!Next
  BY <1>6 DEF D!Next
<1> QED
  BY <1>5, <1>7, CacheStepKeeps

(* A handler that answers: the contract sees nothing until the answer       *)
(* arrives.                                                                 *)
LEMMA AnsweringLeaves ==
  ASSUME CoherenceInv, NEW n \in Node, CacheStep(n), NEW c, Leave(n, c), NEW W, W = AskedAt(n),
         P!CacheInv(c, P!Sending, W), c.topCache,
         \A m \in toCache[n] : m.type = "ReadResponse" => m \in toCache'[n]
  PROVE  /\ CacheOK(n)' /\ c.toRemote \in P!Outbox(P!Sending)
         /\ fromCache'[n] = Sent(fromCache[n], c.toRemote)
         /\ cache' \in [Node -> P!CacheObject(P!Asking)] /\ fromCache' \in [Node -> Seq(SentMsg)]
<1>1. fromCache'[n] = Sent(fromCache[n], c.toRemote)
  BY InvParts DEF Leave, Sent
<1>2. c.toRemote \in P!Outbox(P!Sending)
  BY DEF P!CacheInv, P!BlocksInv, P!CacheObject
<1>3. /\ W \subseteq AskedAt(n)' /\ Tag \ {Addr} \subseteq AskedAt(n)'
      /\ Holds(fromCache'[n], "Read") => Addr \in AskedAt(n)'
  <2> DEFINE out == c.toRemote
  <2>1. fromCache'[n] = Sent(fromCache[n], out) /\ out \in P!Outbox(P!Sending) /\ fromCache[n] \in Seq(SentMsg)
    BY <1>1, <1>2, InvParts
  <2> HIDE DEF out
  <2> QED
    BY <2>1, AskedForStill
<1> DEFINE V == AskedAt(n)'
<1>4. W \subseteq V /\ Tag \ {Addr} \subseteq V /\ (Holds(fromCache'[n], "Read") => Addr \in V)
  BY <1>3
<1> HIDE DEF V
<1>5. /\ P!CacheInv(cache'[n], P!Asking, V) /\ cache'[n].topCache /\ cache'[n].toRemote = <<>>
      /\ cache' \in [Node -> P!CacheObject(P!Asking)] /\ fromCache' \in [Node -> Seq(SentMsg)]
  BY <1>4, InvParts, LeaveKeeps
<1> QED
  BY <1>1, <1>2, <1>5 DEF CacheOK, V

LEMMA ReadStep ==
  ASSUME CoherenceInv, NEW n \in Node, CacheStep(n), NEW m \in toCache[n], m \in CacheMsg,
         m.type = "Read", NEW c, Receives(n, m, c)
  PROVE  CoherenceInv' /\ UNCHANGED D!vars
<1> DEFINE d == cache[n]
           R == P!Sending
           W == AskedAt(n)
           k == AsSent(m)
<1>1. /\ P!CacheInv(d, R, W) /\ d.topCache /\ d.toRemote = <<>> /\ P!Sending \subseteq R
      /\ k \in P!ReadMsg /\ k.tag = Addr /\ k.id = m.id /\ k.type = "Read"
  <2>1. P!CacheInv(d, P!Asking, W) /\ d.topCache /\ d.toRemote = <<>>
    BY InvParts DEF CacheOK
  <2>2. P!CacheInv(d, P!Sending, W)
    <3> HIDE DEF d, W
    <3> QED
      BY <2>1, MaySendAll
  <2> QED
    BY <2>1, <2>2, SentToCache
<1>2. c \in P!OnRemoteRead(d, k) /\ Leave(n, c) /\ W = AskedAt(n)
      /\ toCache'[n] = toCache[n] \ {m}
  BY <1>1, InvParts DEF Receives, P!FromRemote
<1> HIDE DEF W, k
<1>3. P!CacheInv(c, R, W) /\ c.topCache = d.topCache /\ P!Responds(d, c, k)
  <2> HIDE DEF d, R
  <2> QED
    BY <1>1, <1>2, CachesAssumed, P!RemoteReadKeeps
<1>4. \A j \in toCache[n] : j.type = "ReadResponse" => j \in toCache'[n]
  BY <1>2
<1>5. /\ CacheOK(n)' /\ c.toRemote \in P!Outbox(P!Sending)
      /\ fromCache'[n] = Sent(fromCache[n], c.toRemote)
      /\ cache' \in [Node -> P!CacheObject(P!Asking)] /\ fromCache' \in [Node -> Seq(SentMsg)]
  BY <1>1, <1>2, <1>3, <1>4, AnsweringLeaves
<1>6. AnswersRead(c.toRemote, m.id)
  <2> HIDE DEF d
  <2>1. AnswersRead(c.toRemote, k.id)
    BY <1>1, <1>3, RespondsIs
  <2> QED
    BY <1>1, <2>1
<1>7. PICK q \in pendingRemoteReads[n] : pendingRemoteReads[n] = {q}
  <2>1. [id |-> m.id, exclusive |-> m.exclusive] \in pendingRemoteReads[n]
    BY InvParts DEF TokensOK, Tokens
  <2> QED
    BY <2>1, InvParts, OneReadAtMost
<1> DEFINE T == toCache[n]
           V == pendingRemoteInvalidates
           s == fromCache[n]
           r == fromCache'[n]
           out == c.toRemote
<1>8. /\ T \in SUBSET CacheMsg /\ m \in T /\ s \in Seq(SentMsg) /\ Tokens(n, T, {q}, V, s)
      /\ out \in P!Outbox(P!Sending) /\ AnswersRead(out, m.id) /\ r = Sent(s, out)
      /\ toCache'[n] = T \ {m}
      /\ pendingRemoteReads' = pendingRemoteReads /\ pendingRemoteInvalidates' = V
  BY ZenonT(60), <1>2, <1>5, <1>6, <1>7, InvParts DEF TokensOK, CacheStep, local
<1>9. Tokens(n, T \ {m}, {q}, V, r) /\ AskedOf(T \ {m}, {q}, r) = AskedOf(T, {q}, s)
  <2> HIDE DEF T, V, s, r, out
  <2>1. Tokens(n, T \ {m}, {q}, V, r) /\ m = CacheRead(q.id, q.exclusive) /\ ReadAnswered(q, s, r)
    <3> DEFINE Q == {q}
    <3>1. Q = {q} /\ Tokens(n, T, Q, V, s)
      BY <1>8
    <3> HIDE DEF Q
    <3>2. Tokens(n, T \ {m}, Q, V, r) /\ m = CacheRead(q.id, q.exclusive) /\ ReadAnswered(q, s, r)
      BY SMTT(60), <1>8, <3>1, ReadAnsweredKeeps
    <3> QED
      BY <3>1, <3>2
  <2>2. AskedOf(T \ {CacheRead(q.id, q.exclusive)}, {q}, r) = AskedOf(T, {q}, s)
    BY <1>8, <2>1, AskedWhenReadIsAnswered
  <2> QED
    BY <2>1, <2>2
<1>10. TokensOK(n)'
  BY <1>7, <1>8, <1>9 DEF TokensOK
<1>11. UNCHANGED D!vars
  BY <1>7, <1>8, <1>9, ContractStutters
<1> QED
  BY <1>5, <1>10, <1>11, CacheStepKeeps

LEMMA InvalidateStep ==
  ASSUME CoherenceInv, NEW n \in Node, CacheStep(n), NEW m \in toCache[n], m \in CacheMsg,
         m.type = "Invalidate", NEW c, Receives(n, m, c)
  PROVE  CoherenceInv' /\ UNCHANGED D!vars
<1> DEFINE d == cache[n]
           R == P!Sending
           W == AskedAt(n)
           k == AsSent(m)
<1>1. /\ P!CacheInv(d, R, W) /\ d.topCache /\ d.toRemote = <<>> /\ P!Sending \subseteq R
      /\ k.tag = Addr /\ k.type = "Invalidate" /\ m = CacheInvalidate
  <2>1. P!CacheInv(d, P!Asking, W) /\ d.topCache /\ d.toRemote = <<>>
    BY InvParts DEF CacheOK
  <2>2. P!CacheInv(d, P!Sending, W)
    <3> HIDE DEF d, W
    <3> QED
      BY <2>1, MaySendAll
  <2> QED
    BY <2>1, <2>2, SentToCache
<1>2. c \in P!OnRemoteInvalidate(d, k) /\ Leave(n, c) /\ W = AskedAt(n)
      /\ toCache'[n] = toCache[n] \ {CacheInvalidate}
  BY <1>1, InvParts DEF Receives, P!FromRemote
<1>3. k.tag \in Tag
  BY <1>1, AddrAssumption
<1> HIDE DEF W, k
<1>4. P!CacheInv(c, R, W) /\ c.topCache = d.topCache /\ P!AnswersInvalidate(d, c, Addr)
  <2> HIDE DEF d, R
  <2>1. P!CacheInv(c, R, W) /\ c.topCache = d.topCache /\ P!AnswersInvalidate(d, c, k.tag)
    BY <1>1, <1>2, <1>3, CachesAssumed, P!RemoteInvalidateKeeps
  <2> QED
    BY <1>1, <2>1
<1>5. \A j \in toCache[n] : j.type = "ReadResponse" => j \in toCache'[n]
  BY <1>2, CacheKinds
<1>6. /\ CacheOK(n)' /\ c.toRemote \in P!Outbox(P!Sending)
      /\ fromCache'[n] = Sent(fromCache[n], c.toRemote)
      /\ cache' \in [Node -> P!CacheObject(P!Asking)] /\ fromCache' \in [Node -> Seq(SentMsg)]
  BY <1>1, <1>2, <1>4, <1>5, AnsweringLeaves
<1>7. AcknowledgesOnly(c.toRemote)
  <2> HIDE DEF d
  <2> QED
    BY <1>1, <1>4, AnswersInvalidateIs
<1> DEFINE T == toCache[n]
           Q == pendingRemoteReads[n]
           V == pendingRemoteInvalidates
           s == fromCache[n]
           r == fromCache'[n]
           out == c.toRemote
<1>8. /\ CacheInvalidate \in T /\ s \in Seq(SentMsg) /\ Tokens(n, T, Q, V, s)
      /\ out \in P!Outbox(P!Sending) /\ AcknowledgesOnly(out) /\ r = Sent(s, out)
      /\ toCache'[n] = T \ {CacheInvalidate}
      /\ pendingRemoteReads' = pendingRemoteReads /\ pendingRemoteInvalidates' = V
  BY <1>1, <1>2, <1>6, <1>7, InvParts DEF TokensOK, CacheStep, local
<1>9. Tokens(n, T \ {CacheInvalidate}, Q, V, r)
      /\ AskedOf(T \ {CacheInvalidate}, Q, r) = AskedOf(T, Q, s)
  <2> HIDE DEF T, Q, V, s, r, out
  <2>1. Tokens(n, T \ {CacheInvalidate}, Q, V, r) /\ InvalidateAnswered(s, r)
    BY <1>8, InvalidateAnsweredKeeps
  <2> QED
    BY <1>8, <2>1, AskedWhenInvalidateIsAnswered
<1>10. TokensOK(n)'
  BY <1>8, <1>9 DEF TokensOK
<1>11. UNCHANGED D!vars
  BY <1>8, <1>9, ContractStutters
<1> QED
  BY <1>6, <1>10, <1>11, CacheStepKeeps

LEMMA ReceiveStep ==
  ASSUME CoherenceInv, NEW n \in Node, CacheReceives(n)
  PROVE  CoherenceInv' /\ [D!Next]_(D!vars)
<1>1. CacheStep(n)
  BY ReceivesIs
<1>2. PICK m \in toCache[n] : m \in CacheMsg /\ \E c : Receives(n, m, c)
  BY ReceivesIs
<1>3. PICK c : Receives(n, m, c)
  BY <1>2
<1>4. m.type \in {"Read", "ReadResponse", "Invalidate"}
  BY <1>2, SentToCache
<1> QED
  BY <1>1, <1>2, <1>3, <1>4, ReadStep, ResponseStep, InvalidateStep
-----------------------------------------------------------------------------
(* A message of a cache arrives at its directory.                           *)

LEMMA SentFields ==
  ASSUME NEW s \in Seq(SentMsg), NEW k \in DOMAIN s
  PROVE  /\ s[k].msg.type = "Read" => s[k].msg.exclusive \in BOOLEAN
         /\ s[k].msg.type \in {"Eviction", "InvalidateResponse"} => s[k].msg.blockAttached \in BOOLEAN
<1>1. \A e \in SentMsg : e.msg \in P!Sending
  BY DEF SentMsg
<1>2. s[k].msg \in P!Sending
  BY <1>1, P!Elements
<1> DEFINE m == s[k].msg
<1>3. \A j \in P!Sending :
        /\ j.type = "Read" => j.exclusive \in BOOLEAN
        /\ j.type \in {"Eviction", "InvalidateResponse"} => j.blockAttached \in BOOLEAN
  BY DEF P!Sending, P!Asking, P!Answering, P!Response, P!Read, P!Eviction, P!InvalidateResponse
<1> QED
  BY <1>2, <1>3

(* Message k of node n is taken out of its channel.                         *)
Arrives(n, k) ==
  /\ k \in DOMAIN fromCache[n]
  /\ fromCache' = [fromCache EXCEPT ![n] = P!Without(fromCache[n], k)]
  /\ cache' = cache

(* What does not depend on the kind of the message.                         *)
LEMMA ArrivalKeeps ==
  ASSUME CoherenceInv, NEW n \in Node, NEW k, Arrives(n, k), TypeOK', [D!Next]_(D!vars),
         \A h \in Node : TokensOK(h)',
         \A h \in Node : OnItsWay(h) => OnItsWay(h)',
         fromCache[n][k].msg.type = "Read" => OnItsWay(n)'
  PROVE  CoherenceInv'
<1>1. D!PhaseInv'
  BY InvParts, DirectoryAssumed, D!StepPhaseInv
<1> DEFINE r == P!Without(fromCache[n], k)
           s == fromCache[n]
<1>2. r \in Seq(SentMsg) /\ \A ty : Holds(s, ty) /\ ty # s[k].msg.type => Holds(r, ty)
  <2>1. s \in Seq(SentMsg) /\ k \in DOMAIN s /\ r = P!Without(s, k)
    BY InvParts DEF Arrives
  <2> HIDE DEF r, s
  <2> QED
    BY <2>1, ArrivalHolds
<1>3. fromCache' = [fromCache EXCEPT ![n] = r] /\ s = fromCache[n]
  BY DEF Arrives
<1> HIDE DEF r, s
<1>4. fromCache' \in [Node -> Seq(SentMsg)] /\ fromCache'[n] = r
      /\ \A h \in Node \ {n} : fromCache'[h] = fromCache[h]
  BY <1>2, <1>3, InvParts
<1>5. ASSUME NEW h \in Node PROVE CacheOK(h)'
  <2> DEFINE W == AskedAt(h)
             V == AskedAt(h)'
  <2>1. Holds(fromCache[h], "Read") \/ OnItsWay(h) => Holds(fromCache'[h], "Read") \/ OnItsWay(h)'
    <3>1. CASE h # n
      BY <1>4, <3>1
    <3>2. CASE h = n
      BY <1>2, <1>3, <1>4, <3>2
    <3> QED
      BY <3>1, <3>2
  <2>2. W \subseteq V
    BY <2>1 DEF AskedAt
  <2>3. P!CacheInv(cache[h], P!Asking, W) /\ cache[h].topCache /\ cache[h].toRemote = <<>>
    BY InvParts DEF CacheOK
  <2>4. P!CacheInv(cache[h], P!Asking, V)
    <3> HIDE DEF W, V
    <3> QED
      BY <2>2, <2>3, MoreAsked
  <2> QED
    BY <2>3, <2>4 DEF CacheOK, Arrives
<1> QED
  BY <1>1, <1>4, <1>5, InvParts DEF CoherenceInv, Arrives

(* Asked changes at node n only.                                            *)
LEMMA AskedAtOne ==
  ASSUME CoherenceInv, NEW n \in Node, NEW k, Arrives(n, k),
         \A h \in Node \ {n} : toCache'[h] = toCache[h] /\ pendingRemoteReads'[h] = pendingRemoteReads[h]
  PROVE  /\ \A h \in Node \ {n} : Asked'[h] = Asked[h]
         /\ Asked'[n] = AskedOf(toCache'[n], pendingRemoteReads'[n], fromCache'[n])
         /\ Asked[n] = AskedOf(toCache[n], pendingRemoteReads[n], fromCache[n])
<1>1. \A h \in Node \ {n} : fromCache'[h] = fromCache[h]
  BY DEF Arrives
<1> QED
  BY <1>1, AskedIs

(* Neither an answer: a read or an eviction.                                *)
LEMMA RequestArrives ==
  ASSUME CoherenceInv, NEW n \in Node, NEW k, Arrives(n, k), fromCache[n][k].msg.type \notin Answers,
         UNCHANGED <<pendingRemoteReads, pendingRemoteInvalidates, toCache>>
  PROVE  Asked' = Asked /\ \A h \in Node : TokensOK(h)'
<1> DEFINE T == toCache[n]
           R == pendingRemoteReads[n]
           V == pendingRemoteInvalidates
           s == fromCache[n]
           r == P!Without(s, k)
<1>1. /\ s \in Seq(SentMsg) /\ Tokens(n, T, R, V, s) /\ k \in DOMAIN s
      /\ s[k].msg.type \notin Answers /\ r = P!Without(s, k)
  BY InvParts DEF Arrives, TokensOK
<1>2. fromCache'[n] = r /\ \A h \in Node \ {n} : fromCache'[h] = fromCache[h]
  BY InvParts DEF Arrives
<1>3. Tokens(n, T, R, V, r) /\ AskedOf(T, R, r) = AskedOf(T, R, s)
  <2> HIDE DEF T, R, V, s, r
  <2>1. Tokens(n, T, R, V, r) /\ SameAnswers(s, r)
    BY <1>1, RequestArrivesKeeps
  <2> QED
    BY <2>1, AskedStays
<1> HIDE DEF r
<1>4. TokensOK(n)'
  BY <1>2, <1>3 DEF TokensOK
<1>5. \A h \in Node \ {n} : TokensOK(h)'
  BY <1>2, InvParts DEF TokensOK
<1>6. Asked'[n] = Asked[n] /\ \A h \in Node \ {n} : Asked'[h] = Asked[h]
  BY <1>2, <1>3, AskedAtOne
<1> QED
  BY <1>4, <1>5, <1>6, AskedIs

LEMMA ReadArrives ==
  ASSUME CoherenceInv, NEW n \in Node, NEW k, Arrives(n, k), fromCache[n][k].msg.type = "Read",
         NEW i \in MsgID, Directory!Fresh(i), OnLocalRead(n, i, fromCache[n][k].msg.exclusive)
  PROVE  CoherenceInv' /\ D!Next
<1> DEFINE x == fromCache[n][k].msg.exclusive
<1>1. x \in BOOLEAN
  BY InvParts, SentFields DEF Arrives
<1>2. OnLocalRead(n, i, x)
  OBVIOUS
<1> HIDE DEF x
<1>3. /\ UNCHANGED <<pendingRemoteReads, pendingRemoteInvalidates, toCache>> /\ Pending' = Pending
      /\ Lookup(n, i, x) \in net' /\ net \subseteq net'
  BY <1>2 DEF OnLocalRead, home, lookups, Pending
<1>4. Asked' = Asked /\ \A h \in Node : TokensOK(h)'
  BY <1>3, RequestArrives DEF Answers
<1>5. D!Fresh(i)
  BY DEF Directory!Fresh, D!Fresh, Directory!CacheInvalidate, D!CacheInvalidate
<1>6. D!OnLocalRead(n, i, x)
  BY <1>2, <1>4 DEF OnLocalRead, D!OnLocalRead, Lookup, D!Lookup, home, D!home, entry, D!entry,
                    lookups, D!lookups, counts, D!counts
<1>7. D!Next
  BY <1>1, <1>5, <1>6 DEF D!Next, D!CacheReads
<1>8. OnItsWay(n)' /\ \A h \in Node : OnItsWay(h) => OnItsWay(h)'
  <2>1. \E m \in net' : m.type = "Lookup" /\ m.src = n
    BY <1>3 DEF Lookup
  <2> QED
    BY <1>3, <2>1 DEF OnItsWay
<1>9. TypeOK'
  <2>1. net' \subseteq NetMsg
    BY <1>1, <1>2, InvParts, MessagesMade DEF OnLocalRead
  <2>2. pendingLocalReads' \in [Node -> SUBSET ReadData]
    BY <1>1, <1>2, InvParts DEF OnLocalRead, ReadData, TypeOK
  <2> QED
    BY <1>2, <2>1, <2>2, InvParts DEF OnLocalRead, TypeOK, home, entry, lookups, counts
<1> QED
  BY <1>4, <1>7, <1>8, <1>9, ArrivalKeeps

LEMMA SameMayWriteBack == MayWriteBack = D!MayWriteBack
BY DEF MayWriteBack, D!MayWriteBack, Cardinality, D!Cardinality, IsFiniteSet, D!IsFiniteSet

LEMMA EvictionArrives ==
  ASSUME CoherenceInv, NEW n \in Node, NEW k, Arrives(n, k), fromCache[n][k].msg.type = "Eviction",
         fromCache[n][k].msg.blockAttached => MayWriteBack,
         OnLocalEviction(n, fromCache[n][k].msg.blockAttached)
  PROVE  CoherenceInv' /\ D!Next
<1> DEFINE b == fromCache[n][k].msg.blockAttached
<1>1. b \in BOOLEAN
  BY InvParts, SentFields DEF Arrives
<1>2. OnLocalEviction(n, b) /\ (b => D!MayWriteBack) /\ (b => MayWriteBack)
  BY SameMayWriteBack
<1> HIDE DEF b
<1>3. /\ UNCHANGED <<pendingRemoteReads, pendingRemoteInvalidates, toCache>> /\ Pending' = Pending
      /\ net \subseteq net'
  BY <1>2 DEF OnLocalEviction, lookups, Pending
<1>4. Asked' = Asked /\ \A h \in Node : TokensOK(h)'
  BY <1>3, RequestArrives DEF Answers
<1>5. D!OnLocalEviction(n, b)
  BY <1>2, <1>4 DEF OnLocalEviction, D!OnLocalEviction, Eviction, D!Eviction, entry, D!entry, WriteBack,
                    D!WriteBack, EraseShare, D!EraseShare, lookups, D!lookups, counts, D!counts
<1>6. D!Next
  BY <1>1, <1>2, <1>5 DEF D!Next, D!CacheEvicts
<1>7. \A h \in Node : OnItsWay(h) => OnItsWay(h)'
  BY <1>3 DEF OnItsWay
<1>8. TypeOK'
  <2>1. CacheEvicts(n)
    BY <1>1, <1>2 DEF CacheEvicts
  <2> QED
    BY <2>1, InvParts, CacheTypeOK
<1> QED
  BY <1>4, <1>6, <1>7, <1>8, ArrivalKeeps

(* The answer to a fetch.                                                   *)
LEMMA ReadAnswerArrivesStep ==
  ASSUME CoherenceInv, NEW n \in Node, NEW k, Arrives(n, k), fromCache[n][k].msg.type = "ReadResponse",
         NEW q \in pendingRemoteReads[n], NEW b \in BOOLEAN, OnLocalReadResponse(n, q, b), toCache' = toCache
  PROVE  CoherenceInv' /\ D!Next
<1>1. /\ pendingRemoteReads' = [pendingRemoteReads EXCEPT ![n] = @ \ {q}]
      /\ net' = net \cup {IF b THEN FetchReply(n, q.id, q.exclusive) ELSE DirectoryNak(n)}
      /\ UNCHANGED <<home, pendingLocalReads, pendingRemoteInvalidates, pendingEviction>>
  BY DEF OnLocalReadResponse
<1>2. pendingRemoteReads[n] = {q} /\ q \in ReadData /\ q = [id |-> q.id, exclusive |-> q.exclusive]
  <2>1. q \in ReadData
    BY InvParts, PhaseParts
  <2> QED
    BY <2>1, InvParts, OneReadAtMost DEF ReadData
<1>3. pendingRemoteReads'[n] = {} /\ \A h \in Node \ {n} : pendingRemoteReads'[h] = pendingRemoteReads[h]
  BY <1>1, <1>2, InvParts DEF TypeOK
<1> DEFINE T == toCache[n]
           V == pendingRemoteInvalidates
           s == fromCache[n]
           r == P!Without(s, k)
<1>4. /\ s \in Seq(SentMsg) /\ Tokens(n, T, {q}, V, s) /\ k \in DOMAIN s
      /\ s[k].msg.type = "ReadResponse" /\ r = P!Without(s, k)
  BY <1>2, InvParts DEF Arrives, TokensOK
<1>5. fromCache'[n] = r /\ \A h \in Node \ {n} : fromCache'[h] = fromCache[h]
  BY InvParts DEF Arrives
<1>6. /\ Tokens(n, T, {}, V, r)
      /\ AskedOf(T, {}, r) = AskedOf(T, {q}, s) \ {CacheRead(q.id, q.exclusive)}
      /\ CacheRead(q.id, q.exclusive) \in AskedOf(T, {q}, s)
  <2> HIDE DEF T, V, s, r
  <2>1. Tokens(n, T, {}, V, r) /\ ReadAnswerArrives(T, q, s, r)
    BY <1>4, ReadAnswerArrivesKeeps
  <2> QED
    BY <2>1, AskedWhenReadAnswerArrives
<1> HIDE DEF r
<1>7. \A h \in Node : TokensOK(h)'
  BY <1>1, <1>3, <1>5, <1>6, InvParts DEF TokensOK
<1> DEFINE m == CacheRead(q.id, q.exclusive)
<1>8. Asked'[n] = Asked[n] \ {m} /\ m \in Asked[n] /\ \A h \in Node \ {n} : Asked'[h] = Asked[h]
  BY <1>2, <1>3, <1>5, <1>6, AskedAtOne
<1>9. Asked' = [Asked EXCEPT ![n] = @ \ {m}]
  BY <1>8, AskedIs
<1>10. D!OnLocalReadResponse(n, q, b)
  BY <1>1 DEF D!OnLocalReadResponse, FetchReply, D!FetchReply, DirectoryNak, D!DirectoryNak, home,
              D!home, entry, D!entry, lookups, D!lookups, counts, D!counts
<1>11. D!CacheAnswersRead(n)
  <2>1. m.type = "Read" /\ m.id = q.id /\ m.exclusive = q.exclusive
    BY DEF CacheRead
  <2>2. [id |-> m.id, exclusive |-> m.exclusive] = q
    BY <1>2, <2>1
  <2>3. D!OnLocalReadResponse(n, [id |-> m.id, exclusive |-> m.exclusive], b)
    BY <1>10, <2>2
  <2> HIDE DEF m
  <2> QED
    BY <1>8, <1>9, <2>1, <2>3 DEF D!CacheAnswersRead
<1>12. D!Next
  BY <1>11 DEF D!Next
<1>13. \A h \in Node : OnItsWay(h) => OnItsWay(h)'
  BY <1>1 DEF OnItsWay, home, lookups, Pending
<1>14. TypeOK'
  <2>1. FetchReply(n, q.id, q.exclusive) \in NetMsg /\ DirectoryNak(n) \in NetMsg
    BY <1>2, MessagesMade DEF ReadData
  <2>2. net' \subseteq NetMsg
    BY <1>1, <2>1, InvParts
  <2>3. pendingRemoteReads' \in [Node -> SUBSET ReadData]
    BY <1>1, InvParts DEF TypeOK
  <2> QED
    BY <1>1, <2>2, <2>3, InvParts DEF TypeOK, home, entry, lookups, counts
<1> QED
  BY <1>7, <1>12, <1>13, <1>14, ArrivalKeeps

(* An acknowledgement.  What the directory of the contract does with it.    *)
LEMMA LocalAcknowledgementSimulates ==
  ASSUME NEW attached, NEW rest, NEW A,
         toCache' = toCache => Asked' = A,
         \A X : toCache' = [toCache EXCEPT ![Home] = @ \cup X] => Asked' = [A EXCEPT ![Home] = @ \cup X],
         OnRemoteInvalidateResponse(Home, attached, rest, toCache)
  PROVE  D!OnRemoteInvalidateResponse(Home, attached, rest, A)
BY SameTables, SameMessages
   DEF OnRemoteInvalidateResponse, D!OnRemoteInvalidateResponse, WriteBack, D!WriteBack, AllReceived,
       D!AllReceived

LEMMA TokensOfOthers ==
  ASSUME NEW n, NEW h, h # n, NEW T, NEW R, NEW V, NEW s, Tokens(h, T, R, V, s)
  PROVE  Tokens(h, T, R, V \ {n}, s)
BY DEF Tokens

LEMMA AcknowledgementArrives ==
  ASSUME CoherenceInv, NEW n \in Node, NEW k, Arrives(n, k),
         fromCache[n][k].msg.type = "InvalidateResponse",
         fromCache[n][k].msg.blockAttached => MayWriteBack,
         OnLocalInvalidateResponse(n, fromCache[n][k].msg.blockAttached, toCache)
  PROVE  CoherenceInv' /\ D!Next
<1> DEFINE b == fromCache[n][k].msg.blockAttached
<1>1. b \in BOOLEAN
  BY InvParts, SentFields DEF Arrives
<1>2. OnLocalInvalidateResponse(n, b, toCache) /\ (b => D!MayWriteBack)
  BY SameMayWriteBack
<1> HIDE DEF b
<1>3. /\ n \in pendingRemoteInvalidates
      /\ pendingRemoteInvalidates' = pendingRemoteInvalidates \ {n}
      /\ n = Home => OnRemoteInvalidateResponse(Home, b, net, toCache)
      /\ n # Home => /\ net' = net \cup {InvalidateResponse(n, b)} /\ toCache' = toCache
                     /\ UNCHANGED <<home, pendingLocalReads, pendingRemoteReads, pendingEviction>>
  BY <1>2 DEF OnLocalInvalidateResponse
<1>4. pendingRemoteReads' = pendingRemoteReads
  BY <1>3 DEF OnRemoteInvalidateResponse
<1>5. PICK X : /\ \A m \in X : m.type = "ReadResponse"
               /\ \/ toCache' = [toCache EXCEPT ![Home] = @ \cup X] /\ n = Home
                  \/ toCache' = toCache
  <2>1. CASE n = Home
    <3> DEFINE rest == net
    <3>1. OnRemoteInvalidateResponse(Home, b, rest, toCache)
      BY <1>3, <2>1
    <3> HIDE DEF rest
    <3> QED
      BY <2>1, <3>1, AcknowledgementGives
  <2>2. CASE n # Home
    <3> DEFINE X == {}
    <3>1. (\A m \in X : m.type = "ReadResponse") /\ toCache' = toCache
      BY <1>3, <2>2
    <3> HIDE DEF X
    <3> QED
      BY Zenon, <3>1
  <2> QED
    BY <2>1, <2>2
<1> DEFINE T == toCache[n]
           U == toCache'[n]
           R == pendingRemoteReads[n]
           V == pendingRemoteInvalidates
           W == pendingRemoteInvalidates \ {n}
           s == fromCache[n]
           r == P!Without(s, k)
<1>6. /\ s \in Seq(SentMsg) /\ Tokens(n, T, R, V, s) /\ k \in DOMAIN s
      /\ s[k].msg.type = "InvalidateResponse" /\ r = P!Without(s, k) /\ W = V \ {n}
  BY InvParts DEF Arrives, TokensOK
<1>7. fromCache'[n] = r /\ \A h \in Node \ {n} : fromCache'[h] = fromCache[h]
  BY InvParts DEF Arrives
<1>8. T \subseteq U /\ U \subseteq T \cup X /\ \A h \in Node \ {n} : toCache'[h] = toCache[h]
  BY <1>5, InvParts
<1>9. /\ Tokens(n, T, R, W, r) /\ AskedOf(T, R, r) = AskedOf(T, R, s) \ {CacheInvalidate}
      /\ CacheInvalidate \in AskedOf(T, R, s)
  <2> HIDE DEF T, R, V, s, r, W
  <2>1. Tokens(n, T, R, V \ {n}, r) /\ InvalidateAnswerArrives(T, s, r)
    BY <1>6, InvalidateAnswerArrivesKeeps
  <2> QED
    BY <1>6, <2>1, AskedWhenInvalidateAnswerArrives
<1>10. Tokens(n, U, R, W, r)
  <2>1. Asks(n, T, U, R, R, W, W)
    BY <1>5, <1>8, CacheKinds DEF Asks
  <2> HIDE DEF T, U, R, W, r
  <2> QED
    BY <1>9, <2>1, AskingKeeps
<1> HIDE DEF r
<1>11. TokensOK(n)'
  BY <1>3, <1>4, <1>7, <1>10 DEF TokensOK
<1>12. ASSUME NEW h \in Node \ {n} PROVE TokensOK(h)'
  <2> DEFINE Th == toCache[h]
             Rh == pendingRemoteReads[h]
             sh == fromCache[h]
  <2>1. Tokens(h, Th, Rh, V, sh) /\ h # n
    BY InvParts DEF TokensOK
  <2>2. Tokens(h, Th, Rh, V \ {n}, sh)
    <3> HIDE DEF Th, Rh, V, sh
    <3> QED
      BY <2>1, TokensOfOthers
  <2> QED
    BY <1>3, <1>4, <1>7, <1>8, <2>2 DEF TokensOK
<1> DEFINE A == [Asked EXCEPT ![n] = @ \ {CacheInvalidate}]
<1>13. /\ \A h \in Node \ {n} : Asked'[h] = Asked[h]
       /\ Asked'[n] = AskedOf(U, R, r) /\ Asked[n] = AskedOf(T, R, s)
  BY <1>4, <1>7, <1>8, AskedAtOne
<1>14. toCache' = toCache => Asked' = A
  BY <1>9, <1>13, AskedIs
<1>15. ASSUME NEW Y, toCache' = [toCache EXCEPT ![Home] = @ \cup Y], n = Home
       PROVE  Asked' = [A EXCEPT ![Home] = @ \cup Y]
  <2>1. U = T \cup Y
    BY <1>15, InvParts
  <2>2. AskedOf(T \cup Y, R, r) = AskedOf(T, R, r) \cup Y
    <3> HIDE DEF T, R
    <3> QED
      BY AskedGrows
  <2>3. Asked'[n] = (Asked[n] \ {CacheInvalidate}) \cup Y
    <3> HIDE DEF U, T, R, s
    <3> QED
      BY <1>9, <1>13, <2>1, <2>2
  <2> QED
    BY <1>13, <1>15, <2>3, AskedIs
<1>16. D!OnLocalInvalidateResponse(n, b, A)
  <2> HIDE DEF A
  <2>1. CASE n = Home
    <3> DEFINE rest == net
    <3>1. OnRemoteInvalidateResponse(Home, b, rest, toCache)
      BY <1>3, <2>1
    <3>2. D!OnRemoteInvalidateResponse(Home, b, rest, A)
      <4> HIDE DEF rest
      <4> QED
        BY <1>14, <1>15, <2>1, <3>1, LocalAcknowledgementSimulates
    <3> QED
      BY <1>3, <2>1, <3>2 DEF D!OnLocalInvalidateResponse
  <2>2. CASE n # Home
    BY <1>3, <1>14, <2>2 DEF D!OnLocalInvalidateResponse, InvalidateResponse, D!InvalidateResponse,
       home, D!home, entry, D!entry, lookups, D!lookups, counts, D!counts
  <2> QED
    BY <2>1, <2>2
<1>17. D!Next
  <2>1. D!CacheInvalidate \in Asked[n] /\ A = [Asked EXCEPT ![n] = @ \ {D!CacheInvalidate}]
    BY <1>9, <1>13, SameTables
  <2> QED
    BY <1>1, <1>2, <1>16, <2>1 DEF D!Next, D!CacheAnswersInvalidate
<1>18. ASSUME NEW h \in Node, OnItsWay(h) PROVE OnItsWay(h)'
  <2>1. CASE n = Home
    <3> DEFINE rest == net
    <3>1. OnRemoteInvalidateResponse(Home, b, rest, toCache)
          /\ \A m \in net : m.type \in {"Lookup", "Reply"} => m \in rest
      BY <1>3, <2>1
    <3> HIDE DEF rest
    <3> QED
      BY <1>18, <3>1, InvParts, AcknowledgementKeepsWay
  <2>2. CASE n # Home
    BY <1>3, <1>18, <2>2 DEF OnItsWay, home, lookups, Pending
  <2> QED
    BY <2>1, <2>2
<1>19. TypeOK'
  <2>1. CASE n = Home
    <3> DEFINE rest == net
               cached == toCache
    <3>1. /\ OnRemoteInvalidateResponse(Home, b, rest, cached) /\ rest \in SUBSET NetMsg
          /\ cached \in [Node -> SUBSET CacheMsg] /\ pendingRemoteInvalidates' \subseteq Node
          /\ Home \in Node
      BY <1>3, <2>1, InvParts DEF TypeOK
    <3> HIDE DEF rest, cached
    <3> QED
      BY <1>1, <3>1, InvParts, InvalidateResponseTypeOK
  <2>2. CASE n # Home
    <3>1. net' \subseteq NetMsg
      BY <1>1, <1>3, <2>2, InvParts, MessagesMade
    <3> QED
      BY <1>3, <2>2, <3>1, InvParts DEF TypeOK, home, entry, lookups, counts
  <2> QED
    BY <2>1, <2>2
<1> QED
  BY <1>6, <1>11, <1>12, <1>17, <1>18, <1>19, ArrivalKeeps

LEMMA ArrivalStep ==
  ASSUME CoherenceInv, NEW n \in Node, DirectoryReceives(n)
  PROVE  CoherenceInv' /\ D!Next
<1>1. PICK k \in DOMAIN fromCache[n] :
        LET m == fromCache[n][k].msg
        IN /\ fromCache' = [fromCache EXCEPT ![n] = SubSeq(@, 1, k - 1) \o SubSeq(@, k + 1, Len(@))]
           /\ \/ /\ m.type = "Read"
                 /\ \E i \in MsgID : Directory!Fresh(i) /\ OnLocalRead(n, i, m.exclusive)
              \/ /\ m.type = "ReadResponse"
                 /\ \E q \in pendingRemoteReads[n] : q.id = m.id /\ OnLocalReadResponse(n, q, m.satisfied)
                 /\ UNCHANGED toCache
              \/ /\ m.type = "Eviction"
                 /\ m.blockAttached => MayWriteBack
                 /\ OnLocalEviction(n, m.blockAttached)
              \/ /\ m.type = "InvalidateResponse"
                 /\ m.blockAttached => MayWriteBack
                 /\ OnLocalInvalidateResponse(n, m.blockAttached, toCache)
           /\ UNCHANGED <<cache, requests>>
  BY Zenon DEF DirectoryReceives
<1>2. Arrives(n, k)
  BY <1>1, InvParts DEF Arrives, P!Without
<1> DEFINE m == fromCache[n][k].msg
<1>3. CASE m.type = "Read"
  <2>1. PICK i \in MsgID : Directory!Fresh(i) /\ OnLocalRead(n, i, m.exclusive)
    BY <1>1, <1>3
  <2> QED
    BY <1>2, <1>3, <2>1, ReadArrives
<1>4. CASE m.type = "ReadResponse"
  <2>1. PICK q \in pendingRemoteReads[n] : OnLocalReadResponse(n, q, m.satisfied) /\ toCache' = toCache
    BY <1>1, <1>4
  <2>2. m.satisfied \in BOOLEAN
    <3> DEFINE s == fromCache[n]
    <3>1. s \in Seq(SentMsg) /\ k \in DOMAIN s
      BY InvParts
    <3>2. \A e \in SentMsg : e.msg \in P!Sending
      BY DEF SentMsg
    <3> HIDE DEF s
    <3>3. s[k].msg \in P!Sending
      BY <3>1, <3>2, P!Elements
    <3>4. \A j \in P!Sending : j.type = "ReadResponse" => j.satisfied \in BOOLEAN
      BY DEF P!Sending, P!Asking, P!Answering, P!Response, P!Read, P!Eviction, P!InvalidateResponse
    <3> QED
      BY <1>4, <3>3, <3>4 DEF s
  <2> QED
    BY <1>2, <1>4, <2>1, <2>2, ReadAnswerArrivesStep
<1>5. CASE m.type = "Eviction"
  <2>1. (m.blockAttached => MayWriteBack) /\ OnLocalEviction(n, m.blockAttached)
    BY <1>1, <1>5
  <2> QED
    BY <1>2, <1>5, <2>1, EvictionArrives
<1>6. CASE m.type = "InvalidateResponse"
  <2>1. (m.blockAttached => MayWriteBack) /\ OnLocalInvalidateResponse(n, m.blockAttached, toCache)
    BY <1>1, <1>6
  <2> QED
    BY <1>2, <1>6, <2>1, AcknowledgementArrives
<1> QED
  BY <1>1, <1>3, <1>4, <1>5, <1>6
-----------------------------------------------------------------------------
(* The invariant holds, and every step is one of the contract.              *)

LEMMA NothingIsAsked == CoherenceInit => D!Init
<1> SUFFICES ASSUME CoherenceInit PROVE D!Init
  OBVIOUS
<1>1. /\ toCache = [n \in Node |-> {}] /\ fromCache = [n \in Node |-> <<>>]
      /\ pendingRemoteReads = [n \in Node |-> {}]
  BY DEF CoherenceInit, Init
<1>2. \A s : s = <<>> => AskedOf({}, {}, s) = {}
  BY DEF AskedOf, Holds
<1>3. Asked = [n \in Node |-> {}]
  BY <1>1, <1>2, AskedIs
<1> QED
  BY <1>3 DEF CoherenceInit, Init, D!Init

LEMMA InitCoherenceInv == CoherenceInit => CoherenceInv
<1> SUFFICES ASSUME CoherenceInit PROVE CoherenceInv
  OBVIOUS
<1>1. TypeOK /\ D!PhaseInv
  BY NothingIsAsked, InitTypeOK, DirectoryAssumed, D!InitPhaseInv DEF CoherenceInit
<1>2. fromCache \in [Node -> Seq(SentMsg)] /\ \A n \in Node : fromCache[n] = <<>>
  BY DEF CoherenceInit
<1>3. ASSUME NEW n \in Node PROVE CacheOK(n) /\ cache[n] \in P!CacheObject(P!Asking)
  <2> DEFINE top == TRUE
             W == AskedAt(n)
             R == P!Asking
             c == cache[n]
  <2>1. c = P!NewCache(top) /\ top \in BOOLEAN
    BY SameNewCacheC DEF CoherenceInit
  <2>2. P!CacheInv(c, R, W) /\ c.topCache = top /\ c.toRemote = <<>>
    <3> HIDE DEF top, W, R, c
    <3> QED
      BY <2>1, CachesAssumed, P!NewCacheInv
  <2>3. c \in P!CacheObject(R)
    BY <2>2 DEF P!CacheInv, P!BlocksInv
  <2> QED
    BY <2>2, <2>3 DEF CacheOK
<1>4. cache \in [Node -> P!CacheObject(P!Asking)]
  BY <1>3 DEF CoherenceInit
<1>5. \A n \in Node : TokensOK(n)
  BY <1>2 DEF TokensOK, Tokens, CoherenceInit, Init, Holds, HoldsAnswer, AtMostOne
<1> QED
  BY <1>1, <1>2, <1>3, <1>4, <1>5 DEF CoherenceInv

LEMMA StepCoherenceInv ==
  CoherenceInv /\ [CoherenceNext]_coherenceVars => CoherenceInv' /\ [D!Next]_(D!vars)
<1> SUFFICES ASSUME CoherenceInv, [CoherenceNext]_coherenceVars
             PROVE  CoherenceInv' /\ [D!Next]_(D!vars)
  OBVIOUS
<1>1. CASE \E n \in Node : ProcessorRequests(n)
  BY <1>1, ProcessorStep
<1>2. CASE \E n \in Node : CacheReceives(n)
  BY <1>2, ReceiveStep
<1>3. CASE \E n \in Node : OtherBlockArrives(n)
  BY <1>3, OtherBlockStep
<1>4. CASE \E n \in Node : DirectoryReceives(n)
  BY <1>4, ArrivalStep
<1>5. CASE (\E m \in net : RecvMsg(m)) /\ UNCHANGED <<cache, fromCache, requests>>
  BY <1>5, RecvStep
<1>6. CASE (\E i \in pendingMemoryReadAccesses : OnLocalMemoryReadResponse(i))
             /\ UNCHANGED <<cache, fromCache, requests>>
  BY <1>6, MemoryReadStep
<1>7. CASE OnLocalMemoryWriteResponse /\ UNCHANGED <<cache, fromCache, requests>>
  BY <1>7, MemoryWriteStep
<1>8. CASE UNCHANGED coherenceVars
  <2>1. /\ UNCHANGED vars /\ cache' = cache /\ fromCache' = fromCache
    BY <1>8 DEF coherenceVars
  <2>2. Asked' = Asked
    BY <2>1, AskedIs DEF vars, local
  <2>3. UNCHANGED D!vars
    BY <2>1, <2>2 DEF vars, D!vars, D!home, D!local, home, local, entry, lookups, counts, D!entry,
                      D!lookups, D!counts
  <2>4. D!PhaseInv'
    BY <2>3, InvParts, DirectoryAssumed, D!StepPhaseInv
  <2>5. TypeOK'
    BY <2>1, InvParts, StepTypeOK
  <2>6. ASSUME NEW n \in Node PROVE CacheOK(n)' /\ TokensOK(n)'
    <3>1. AskedAt(n)' = AskedAt(n)
      BY <2>1 DEF AskedAt, OnItsWay, vars, home, lookups, Pending
    <3> QED
      BY <2>1, <3>1, InvParts DEF CacheOK, TokensOK, vars, local
  <2> QED
    BY <2>1, <2>3, <2>4, <2>5, <2>6, InvParts DEF CoherenceInv
<1> QED
  BY <1>1, <1>2, <1>3, <1>4, <1>5, <1>6, <1>7, <1>8 DEF CoherenceNext

LEMMA CoherenceInvariant == CoherenceSpec => []CoherenceInv
BY InitCoherenceInv, StepCoherenceInv, PTL DEF CoherenceSpec

(* The tables of every directory and of every cache keep their types; a     *)
(* cache never has more blocks than frames, an evicted block is not locked. *)
THEOREM CoherenceIsTyped == CoherenceSpec => []CoherenceTypeOK
<1>1. CoherenceInv => CoherenceTypeOK
  <2> SUFFICES ASSUME CoherenceInv, NEW n \in Node PROVE TypeOK /\ C!CacheTypeOK(cache[n])
    BY InvParts DEF CoherenceTypeOK
  <2> DEFINE R == P!Asking
             W == AskedAt(n)
             c == cache[n]
  <2>1. P!CacheInv(c, R, W)
    BY InvParts DEF CacheOK
  <2> HIDE DEF R, W
  <2> QED
    BY <2>1, InvParts, CachesAssumed, P!CacheInvImplies, SamePropertiesC
<1> QED
  BY <1>1, CoherenceInvariant, PTL

(* In every cache a block is locked exactly while requests wait for it,     *)
(* whatever fetches, invalidations and surplus responses come in between    *)
(* (BIPMOESICache.cpp:185, 256, 685).                                       *)
THEOREM LocksAreWaitedFor == CoherenceSpec => []LockedIffWaiting
<1>1. CoherenceInv => LockedIffWaiting
  <2> SUFFICES ASSUME CoherenceInv, NEW n \in Node PROVE C!LockedIffWaiting(cache[n])
    BY DEF LockedIffWaiting
  <2> DEFINE R == P!Asking
             W == AskedAt(n)
             c == cache[n]
  <2>1. P!CacheInv(c, R, W)
    BY InvParts DEF CacheOK
  <2> HIDE DEF R, W
  <2> QED
    BY <2>1, CachesAssumed, P!CacheInvImplies, SamePropertiesC
<1> QED
  BY <1>1, CoherenceInvariant, PTL

(* With LRU, requests wait for a frame only while an UnlockBlock is due     *)
(* that makes them again (BIPMOESICache.cpp:236-247).                       *)
THEOREM FramesAreWaitedFor ==
  ASSUME evictionPolicy = "LRU" PROVE CoherenceSpec => []FrameWaitersWillWake
<1>1. CoherenceInv => FrameWaitersWillWake
  <2> SUFFICES ASSUME CoherenceInv, NEW n \in Node PROVE C!FrameWaitersWillWake(cache[n])
    BY DEF FrameWaitersWillWake
  <2> DEFINE R == P!Asking
             W == AskedAt(n)
             c == cache[n]
  <2>1. P!CacheInv(c, R, W)
    BY InvParts DEF CacheOK
  <2> HIDE DEF R, W
  <2> QED
    BY <2>1, CachesAssumed, P!CacheInvImplies, SamePropertiesC
<1> QED
  BY <1>1, CoherenceInvariant, PTL

(* While requests wait for the block, the read that was made for it is on   *)
(* its way to the directory, at the home or on its way back: evictions,     *)
(* refusals, invalidations and surplus responses do not use its answer up.  *)
THEOREM WaitersHaveReads == CoherenceSpec => []WaitersAreServed
<1>1. CoherenceInv => WaitersAreServed
  <2> SUFFICES ASSUME CoherenceInv, NEW n \in Node, cache[n].waitingOnBlockUnlock[Addr] # <<>>
               PROVE  Holds(fromCache[n], "Read") \/ OnItsWay(n)
    BY DEF WaitersAreServed, Holds, OnItsWay
  <2>1. P!AskedFor(cache[n], AskedAt(n)) /\ cache[n].toRemote = <<>>
    BY InvParts DEF CacheOK, P!CacheInv, P!BlocksInv
  <2>2. Addr \in AskedAt(n)
    BY <2>1, AddrAssumption DEF P!AskedFor
  <2> QED
    BY <2>2 DEF AskedAt
<1> QED
  BY <1>1, CoherenceInvariant, PTL
-----------------------------------------------------------------------------
(* The refinement.  D and Directory are the directory module with the same   *)
(* caches, D with the lemmas about it: their actions are the same.            *)

LEMMA SameOnLocalRead ==
  \A n, i, x : D!OnLocalRead(n, i, x) <=> Directory!OnLocalRead(n, i, x)
BY DEF D!OnLocalRead, Directory!OnLocalRead, D!Lookup, Directory!Lookup, D!home,
       Directory!home, D!entry, Directory!entry, D!lookups, Directory!lookups, D!counts,
       Directory!counts

LEMMA SameWriteBack == \A b : D!WriteBack(b) <=> Directory!WriteBack(b)
BY DEF D!WriteBack, Directory!WriteBack

LEMMA SameEraseShare == \A n : D!EraseShare(n) <=> Directory!EraseShare(n)
BY DEF D!EraseShare, Directory!EraseShare

LEMMA SameOnLocalEviction ==
  \A n, b : D!OnLocalEviction(n, b) <=> Directory!OnLocalEviction(n, b)
BY SameWriteBack, SameEraseShare
   DEF D!OnLocalEviction, Directory!OnLocalEviction, D!Eviction, Directory!Eviction,
       D!entry, Directory!entry, D!lookups, Directory!lookups, D!counts, Directory!counts

LEMMA SameOnRemoteReadCache ==
  \A n, i, x : D!OnRemoteReadCache(n, i, x) <=> Directory!OnRemoteReadCache(n, i, x)
BY DEF D!OnRemoteReadCache, Directory!OnRemoteReadCache, D!CacheRead, Directory!CacheRead

LEMMA SamePerformDirectoryFetch ==
  \A Q, x, rest : D!PerformDirectoryFetch(Q, x, rest) <=> Directory!PerformDirectoryFetch(Q, x, rest)
BY SameOnRemoteReadCache
   DEF D!PerformDirectoryFetch, Directory!PerformDirectoryFetch, D!Fetch,
       Directory!Fetch, D!FetchTargets, Directory!FetchTargets

LEMMA SameRefuseLookup == \A m : D!RefuseLookup(m) <=> Directory!RefuseLookup(m)
BY DEF D!RefuseLookup, Directory!RefuseLookup, D!Reply, Directory!Reply, D!home,
       Directory!home, D!local, Directory!local, D!entry, Directory!entry, D!lookups,
       Directory!lookups, D!counts, Directory!counts, D!Busy, Directory!Busy

LEMMA SameAcceptExclusiveLookup ==
  \A m : D!AcceptExclusiveLookup(m) <=> Directory!AcceptExclusiveLookup(m)
BY SamePerformDirectoryFetch
   DEF D!AcceptExclusiveLookup, Directory!AcceptExclusiveLookup, D!entry,
       Directory!entry, D!Busy, Directory!Busy

LEMMA SameAcceptSharedLookup ==
  \A m : D!AcceptSharedLookup(m) <=> Directory!AcceptSharedLookup(m)
BY SamePerformDirectoryFetch
   DEF D!AcceptSharedLookup, Directory!AcceptSharedLookup, D!entry, Directory!entry,
       D!counts, Directory!counts, D!AlreadyFetching, Directory!AlreadyFetching, D!Busy,
       Directory!Busy

LEMMA SameOnRemoteDirectoryNak ==
  \A m : D!OnRemoteDirectoryNak(m) <=> Directory!OnRemoteDirectoryNak(m)
BY SamePerformDirectoryFetch
   DEF D!OnRemoteDirectoryNak, Directory!OnRemoteDirectoryNak, D!entry, Directory!entry,
       D!lookups, Directory!lookups, D!counts, Directory!counts

LEMMA SameOnFetch == \A m : D!OnFetch(m) <=> Directory!OnFetch(m)
BY SameOnRemoteReadCache
   DEF D!OnFetch, Directory!OnFetch, D!home, Directory!home, D!entry, Directory!entry,
       D!lookups, Directory!lookups, D!counts, Directory!counts

LEMMA SameOnLocalReadResponse ==
  \A n, r, s : D!OnLocalReadResponse(n, r, s) <=> Directory!OnLocalReadResponse(n, r, s)
BY DEF D!OnLocalReadResponse, Directory!OnLocalReadResponse, D!FetchReply,
       Directory!FetchReply, D!DirectoryNak, Directory!DirectoryNak, D!home,
       Directory!home, D!entry, Directory!entry, D!lookups, Directory!lookups, D!counts,
       Directory!counts

LEMMA SameRespond ==
  \A Q, x, rest : D!Respond(Q, x, rest) <=> Directory!Respond(Q, x, rest)
BY DEF D!Respond, Directory!Respond, D!Reply, Directory!Reply, D!CacheReadResponse,
       Directory!CacheReadResponse

LEMMA SameAnswerSharedReads ==
  \A o, S, rest : D!AnswerSharedReads(o, S, rest) <=> Directory!AnswerSharedReads(o, S, rest)
BY SameRespond
   DEF D!AnswerSharedReads, Directory!AnswerSharedReads, D!counts, Directory!counts

LEMMA SameAddDirectoryShare ==
  \A o, S, n : D!AddDirectoryShare(o, S, n) <=> Directory!AddDirectoryShare(o, S, n)
BY DEF D!AddDirectoryShare, Directory!AddDirectoryShare

LEMMA SameAnswerExclusiveRead ==
  \A o, S, i, x, rest : D!AnswerExclusiveRead(o, S, i, x, rest) <=> Directory!AnswerExclusiveRead(o, S, i, x, rest)
BY ZenonT(60), SameRespond, SameAddDirectoryShare
   DEF D!AnswerExclusiveRead, Directory!AnswerExclusiveRead, D!counts, Directory!counts

LEMMA SameInvalidateSharers ==
  \A o, S, rest : D!InvalidateSharers(o, S, rest) <=> Directory!InvalidateSharers(o, S, rest)
BY DEF D!InvalidateSharers, Directory!InvalidateSharers, D!Cardinality,
       Directory!Cardinality, D!Invalidate, Directory!Invalidate, D!CacheInvalidate,
       Directory!CacheInvalidate, D!lookups, Directory!lookups

LEMMA SameOnRemoteReadResponse ==
  \A s, i, x, rest : D!OnRemoteReadResponse(s, i, x, rest) <=> Directory!OnRemoteReadResponse(s, i, x, rest)
BY SameAnswerSharedReads, SameAnswerExclusiveRead, SameInvalidateSharers
   DEF D!OnRemoteReadResponse, Directory!OnRemoteReadResponse

LEMMA SameOnFetchReply == \A m : D!OnFetchReply(m) <=> Directory!OnFetchReply(m)
BY SameOnRemoteReadResponse
   DEF D!OnFetchReply, Directory!OnFetchReply

LEMMA SameOnLocalMemoryReadResponse ==
  \A i : D!OnLocalMemoryReadResponse(i) <=> Directory!OnLocalMemoryReadResponse(i)
BY SameOnRemoteReadResponse
   DEF D!OnLocalMemoryReadResponse, Directory!OnLocalMemoryReadResponse

LEMMA SameOnLocalMemoryWriteResponse ==
  D!OnLocalMemoryWriteResponse <=> Directory!OnLocalMemoryWriteResponse
BY DEF D!OnLocalMemoryWriteResponse, Directory!OnLocalMemoryWriteResponse, D!local,
       Directory!local, D!entry, Directory!entry, D!lookups, Directory!lookups, D!counts,
       Directory!counts

LEMMA SameOnDirectoryBlockResponse ==
  \A m : D!OnDirectoryBlockResponse(m) <=> Directory!OnDirectoryBlockResponse(m)
BY DEF D!OnDirectoryBlockResponse, Directory!OnDirectoryBlockResponse, D!Lookup,
       Directory!Lookup, D!CacheReadResponse, Directory!CacheReadResponse, D!home,
       Directory!home, D!entry, Directory!entry, D!lookups, Directory!lookups, D!counts,
       Directory!counts

LEMMA SameOnRemoteEviction ==
  \A m : D!OnRemoteEviction(m) <=> Directory!OnRemoteEviction(m)
BY SameEraseShare, SameWriteBack
   DEF D!OnRemoteEviction, Directory!OnRemoteEviction, D!EvictionResponse,
       Directory!EvictionResponse, D!local, Directory!local, D!lookups,
       Directory!lookups, D!counts, Directory!counts

LEMMA SameOnRemoteEvictionResponse ==
  \A m : D!OnRemoteEvictionResponse(m) <=> Directory!OnRemoteEvictionResponse(m)
BY DEF D!OnRemoteEvictionResponse, Directory!OnRemoteEvictionResponse, D!home,
       Directory!home, D!entry, Directory!entry, D!lookups, Directory!lookups, D!counts,
       Directory!counts

LEMMA SameOnRemoteInvalidate ==
  \A m : D!OnRemoteInvalidate(m) <=> Directory!OnRemoteInvalidate(m)
BY DEF D!OnRemoteInvalidate, Directory!OnRemoteInvalidate, D!CacheInvalidate,
       Directory!CacheInvalidate, D!home, Directory!home, D!entry, Directory!entry,
       D!lookups, Directory!lookups, D!counts, Directory!counts

LEMMA SameOnRemoteInvalidateResponse ==
  \A s, b, rest, cached : D!OnRemoteInvalidateResponse(s, b, rest, cached) <=> Directory!OnRemoteInvalidateResponse(s, b, rest, cached)
BY SameWriteBack
   DEF D!OnRemoteInvalidateResponse, Directory!OnRemoteInvalidateResponse, D!Reply,
       Directory!Reply, D!CacheReadResponse, Directory!CacheReadResponse, D!AllReceived,
       Directory!AllReceived

LEMMA SameOnInvalidateResponse ==
  \A m : D!OnInvalidateResponse(m) <=> Directory!OnInvalidateResponse(m)
BY SameOnRemoteInvalidateResponse
   DEF D!OnInvalidateResponse, Directory!OnInvalidateResponse

LEMMA SameOnLocalInvalidateResponse ==
  \A n, b, cached : D!OnLocalInvalidateResponse(n, b, cached) <=> Directory!OnLocalInvalidateResponse(n, b, cached)
BY SameOnRemoteInvalidateResponse
   DEF D!OnLocalInvalidateResponse, Directory!OnLocalInvalidateResponse,
       D!InvalidateResponse, Directory!InvalidateResponse, D!home, Directory!home,
       D!entry, Directory!entry, D!lookups, Directory!lookups, D!counts, Directory!counts

LEMMA SameFresh == \A i : D!Fresh(i) <=> Directory!Fresh(i)
BY DEF D!Fresh, Directory!Fresh, D!CacheInvalidate, Directory!CacheInvalidate

LEMMA SameCacheReads == \A n : D!CacheReads(n) <=> Directory!CacheReads(n)
BY SameFresh, SameOnLocalRead
   DEF D!CacheReads, Directory!CacheReads

LEMMA ContractMayWriteBack == D!MayWriteBack <=> Directory!MayWriteBack
BY DEF D!MayWriteBack, Directory!MayWriteBack, D!Cardinality, Directory!Cardinality

LEMMA SameCacheEvicts == \A n : D!CacheEvicts(n) <=> Directory!CacheEvicts(n)
BY ContractMayWriteBack, SameOnLocalEviction
   DEF D!CacheEvicts, Directory!CacheEvicts

LEMMA SameCacheAnswersRead ==
  \A n : D!CacheAnswersRead(n) <=> Directory!CacheAnswersRead(n)
BY SameOnLocalReadResponse
   DEF D!CacheAnswersRead, Directory!CacheAnswersRead

LEMMA SameCacheAnswersInvalidate ==
  \A n : D!CacheAnswersInvalidate(n) <=> Directory!CacheAnswersInvalidate(n)
BY ContractMayWriteBack, SameOnLocalInvalidateResponse
   DEF D!CacheAnswersInvalidate, Directory!CacheAnswersInvalidate, D!CacheInvalidate,
       Directory!CacheInvalidate

LEMMA SameCacheTakesResponse ==
  \A n : D!CacheTakesResponse(n) <=> Directory!CacheTakesResponse(n)
BY DEF D!CacheTakesResponse, Directory!CacheTakesResponse, D!home, Directory!home,
       D!local, Directory!local, D!entry, Directory!entry, D!lookups, Directory!lookups,
       D!counts, Directory!counts

LEMMA SameOnDirectoryBlockRequest ==
  \A m : D!OnDirectoryBlockRequest(m) <=> Directory!OnDirectoryBlockRequest(m)
BY SameRefuseLookup, SameAcceptExclusiveLookup, SameAcceptSharedLookup
   DEF D!OnDirectoryBlockRequest, Directory!OnDirectoryBlockRequest

LEMMA SameRecvMsg == \A m : D!RecvMsg(m) <=> Directory!RecvMsg(m)
BY SameOnDirectoryBlockRequest, SameOnDirectoryBlockResponse, SameOnRemoteDirectoryNak,
   SameOnFetch, SameOnFetchReply, SameOnRemoteEviction, SameOnRemoteEvictionResponse,
   SameOnRemoteInvalidate, SameOnInvalidateResponse
   DEF D!RecvMsg, Directory!RecvMsg

LEMMA SameNext == D!Next <=> Directory!Next
BY SameRecvMsg, SameOnLocalMemoryReadResponse, SameOnLocalMemoryWriteResponse, SameCacheReads,
   SameCacheEvicts, SameCacheAnswersRead, SameCacheAnswersInvalidate, SameCacheTakesResponse
   DEF D!Next, Directory!Next

LEMMA SameInit == D!Init <=> Directory!Init
BY DEF D!Init, Directory!Init

(* The caches keep the contract that BIPDirectory takes them to keep: with   *)
(* a request being at the cache until its answer has arrived at the          *)
(* directory, every step of a cache, of a directory or of the memory is a    *)
(* step of BIPDirectory or changes nothing there, so a cache answers each    *)
(* Read and each Invalidate once, whatever else it is doing                  *)
(* (BIPMOESICache.cpp:532-652).                                             *)
THEOREM CachesAnswerOnce == CoherenceSpec => CachesKeepContract
<1>1. CoherenceInit => Directory!Init
  BY NothingIsAsked, SameInit
<1>2. CoherenceInv /\ [CoherenceNext]_coherenceVars => [Directory!Next]_(Directory!vars)
  <2>1. D!vars' = D!vars => Directory!vars' = Directory!vars
    BY DEF D!vars, D!home, D!local, D!entry, D!lookups, D!counts, Directory!vars,
           Directory!home, Directory!local, Directory!entry, Directory!lookups, Directory!counts
  <2> QED
    BY <2>1, StepCoherenceInv, SameNext
<1>3. CoherenceSpec => []CoherenceInv
  BY CoherenceInvariant
<1> QED
  BY <1>1, <1>2, <1>3, PTL DEF CoherenceSpec, CachesKeepContract, Directory!Spec
=============================================================================
