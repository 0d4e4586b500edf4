------------------------- MODULE CacheStack_proofs -------------------------
(***************************************************************************)
(* The two levels of CacheStack: the theorems of its invariants for any    *)
(* tags, frames, times, classes of caches and any number of requests.      *)
(*                                                                         *)
(* L1 and L2 are instances of CacheFamily; what every handler of a cache   *)
(* keeps is proved in CacheFamily_proofs, of whose instances P1 and P2 the *)
(* handlers are the same.  The first half says so, handler by handler.     *)
(***************************************************************************)
EXTENDS CacheStack, TLAPS

P1 == INSTANCE CacheFamily_proofs
        WITH Associativity <- Associativity1, hitTime <- hitTime1, missTime <- missTime1, ID <- {}
P2 == INSTANCE CacheFamily_proofs
        WITH Associativity <- Associativity2, hitTime <- hitTime2, missTime <- missTime2, ID <- {}

(* No property is needed of the folds of the two instances but their value. *)
Anything(x, k, a) == TRUE

LEMMA SamePerform1 == \A c, m : L1!Perform(c, m) = P1!Perform(c, m)
BY DEF L1!Perform, P1!Perform, L1!PerformRead, P1!PerformRead, L1!PerformWrite, P1!PerformWrite,
       L1!Miss, P1!Miss, L1!ToLocal, P1!ToLocal, L1!ToRemote, P1!ToRemote, L1!Read, P1!Read,
       L1!ReadResponse, P1!ReadResponse, L1!WriteResponse, P1!WriteResponse

LEMMA SamePerformed1 == \A c, q : L1!FoldLeft(L1!Perform, c, q) = P1!Performed(c, q)
BY DEF L1!Perform, P1!Perform, L1!PerformRead, P1!PerformRead, L1!PerformWrite, P1!PerformWrite,
       L1!Miss, P1!Miss, L1!ToLocal, P1!ToLocal, L1!ToRemote, P1!ToRemote, L1!Read, P1!Read,
       L1!ReadResponse, P1!ReadResponse, L1!WriteResponse, P1!WriteResponse, L1!FoldLeft,
       P1!FoldLeft, L1!MapThenFoldSet, P1!MapThenFoldSet, L1!Max, P1!Max,
       P1!Performed

LEMMA SameTakeFrame1 == \A c, v, t : L1!TakeFrame(c, v, t) = P1!TakeFrame(c, v, t)
BY DEF L1!TakeFrame, P1!TakeFrame, L1!ToLocal, P1!ToLocal, L1!ToRemote, P1!ToRemote, L1!Eviction,
       P1!Eviction, L1!Invalidate, P1!Invalidate

LEMMA SamePrepare1 == \A c, t : L1!PrepareFreshBlock(c, t) = P1!PrepareFreshBlock(c, t)
BY DEF L1!PrepareFreshBlock, P1!PrepareFreshBlock

LEMMA SameEvict1 == \A c : L1!Evict(c) = P1!Evict(c) /\ L1!HasFreeFrame(c) = P1!HasFreeFrame(c)
BY DEF L1!Evict, P1!Evict, L1!HasFreeFrame, P1!HasFreeFrame, L1!Victims, P1!Victims, L1!Held,
       P1!Held, L1!Cardinality, P1!Cardinality

LEMMA SameLocalRequest1 == \A c, m : L1!OnLocalRequest(c, m) = P1!OnLocalRequest(c, m)
BY ZenonT(60), SamePerform1, SameTakeFrame1, SamePrepare1, SameEvict1
   DEF L1!OnLocalRequest, P1!OnLocalRequest

Again1(T, m) == UNION {L1!OnLocalRequest(e, m) : e \in T}

AllAgain1(T, q) == L1!FoldLeft(Again1, T, q)

F1 == INSTANCE FoldLemmas WITH Op <- P1!MadeAgain, Other <- Again1, Good <- Anything

LEMMA SameAgain1 ==
  ASSUME NEW S, NEW T, NEW q \in Seq(S)
  PROVE  AllAgain1(T, q) = P1!AllMadeAgain(T, q)
<1>1. \A e, m : P1!MadeAgain(e, m) = Again1(e, m)
  BY SameLocalRequest1 DEF P1!MadeAgain, Again1
<1>2. \A e, s : AllAgain1(e, s) = F1!OtherFolded(e, s)
  BY DEF AllAgain1, F1!OtherFolded, L1!FoldLeft, F1!FoldLeft, L1!MapThenFoldSet,
         F1!MapThenFoldSet, L1!Max, F1!Max
<1>3. \A e, s : P1!AllMadeAgain(e, s) = F1!Folded(e, s)
  BY DEF P1!AllMadeAgain, F1!Folded, P1!FoldLeft, F1!FoldLeft, P1!MapThenFoldSet,
         F1!MapThenFoldSet, P1!Max, F1!Max
<1> DEFINE n == Len(q)
<1>4. n \in Nat /\ DOMAIN q = 1..n
  OBVIOUS
<1> HIDE DEF n
<1>5. F1!OtherFolded(T, q) = F1!Folded(T, q)
  BY <1>1, <1>4, F1!FoldsAgree
<1> QED
  BY <1>2, <1>3, <1>5

LEMMA UnlockBlockIs1 ==
  ASSUME NEW c, NEW t
  PROVE  L1!UnlockBlock(c, t) =
           LET d == L1!FoldLeft(L1!Perform, P1!Unlocked(c, t), c.waitingOnBlockUnlock[t])
           IN IF d.blocks[t].locked THEN {d}
              ELSE AllAgain1({[d EXCEPT !.waitingOnSetUnlock = <<>>]}, d.waitingOnSetUnlock)
BY DEF L1!UnlockBlock, P1!Unlocked, AllAgain1, Again1, L1!FoldLeft, L1!MapThenFoldSet

LEMMA SameUnlockBlock1 ==
  ASSUME P1!CacheAssumptions, NEW R, P1!Asking \subseteq R, NEW W, NEW c, P1!CacheInv(c, R, W),
         NEW t \in Tag, c.blocks[t] \in P1!UsedBlock, c.blocks[t].state # "Invalid"
  PROVE  L1!UnlockBlock(c, t) = P1!UnlockBlock(c, t)
<1> DEFINE d == P1!Performed(P1!Unlocked(c, t), c.waitingOnBlockUnlock[t])
           f == [d EXCEPT !.waitingOnSetUnlock = <<>>]
           q == d.waitingOnSetUnlock
<1>1. q \in Seq(P1!Request)
  BY P1!FrameWaitersStay
<1>2. P1!UnlockBlock(c, t) = IF d.blocks[t].locked THEN {d} ELSE P1!AllMadeAgain({f}, q)
  BY P1!UnlockBlockIs
<1>3. L1!UnlockBlock(c, t) = IF d.blocks[t].locked THEN {d} ELSE AllAgain1({f}, q)
  BY UnlockBlockIs1, SamePerformed1
<1> HIDE DEF d, f, q
<1>4. AllAgain1({f}, q) = P1!AllMadeAgain({f}, q)
  BY <1>1, SameAgain1
<1> QED
  BY <1>2, <1>3, <1>4

LEMMA RemoteReadResponseIs1 ==
  ASSUME NEW c, NEW m, NEW attached
  PROVE  L1!OnRemoteReadResponse(c, m, attached) =
           IF P1!IsAwaited(c, m) THEN L1!UnlockBlock(P1!Filled(c, m), m.tag)
           ELSE {IF class.EvictsSurplus
                 THEN P1!ToRemote(c, P1!Eviction(m.tag, attached), evictionTime) ELSE c}
<1>1. CASE P1!IsAwaited(c, m)
  BY <1>1 DEF L1!OnRemoteReadResponse, P1!IsAwaited, P1!Filled, P1!WithBlock
<1>2. CASE ~P1!IsAwaited(c, m)
  BY <1>2 DEF L1!OnRemoteReadResponse, P1!IsAwaited, L1!ToRemote, P1!ToRemote, L1!Eviction, P1!Eviction
<1> QED
  BY <1>1, <1>2

LEMMA SameRemoteReadResponse1 ==
  ASSUME P1!CacheAssumptions, NEW R, P1!Asking \subseteq R, NEW W, NEW c, P1!CacheInv(c, R, W),
         NEW m, m.tag \in Tag, NEW attached
  PROVE  L1!OnRemoteReadResponse(c, m, attached) = P1!OnRemoteReadResponse(c, m, attached)
<1>1. CASE P1!IsAwaited(c, m)
  <2> DEFINE e == P1!Filled(c, m)
             t == m.tag
  <2>1. P1!CacheInv(e, R, W) /\ e.blocks[t] \in P1!UsedBlock /\ e.blocks[t].state # "Invalid"
    BY <1>1, P1!FilledKeeps
  <2>2. /\ L1!OnRemoteReadResponse(c, m, attached) = L1!UnlockBlock(e, t)
        /\ P1!OnRemoteReadResponse(c, m, attached) = P1!UnlockBlock(e, t)
    BY <1>1, RemoteReadResponseIs1, P1!RemoteReadResponseIs
  <2>3. t \in Tag
    OBVIOUS
  <2> HIDE DEF e, t
  <2> QED
    BY <2>1, <2>2, <2>3, SameUnlockBlock1
<1>2. CASE ~P1!IsAwaited(c, m)
  BY <1>2, RemoteReadResponseIs1, P1!RemoteReadResponseIs
<1> QED
  BY <1>1, <1>2

LEMMA SameRemoteRead1 == \A c, m : L1!OnRemoteRead(c, m) = P1!OnRemoteRead(c, m)
BY DEF L1!OnRemoteRead, P1!OnRemoteRead, L1!PerformRemoteRead, P1!PerformRemoteRead,
       L1!DropBlock, P1!DropBlock, L1!ToLocal, P1!ToLocal, L1!ToRemote, P1!ToRemote, L1!Read,
       P1!Read, L1!ReadResponse, P1!ReadResponse

LEMMA SameRespondInvalidate1 == \A c, t : L1!RespondInvalidate(c, t) = P1!RespondInvalidate(c, t)
BY DEF L1!RespondInvalidate, P1!RespondInvalidate, L1!DropBlock, P1!DropBlock, L1!ToRemote,
       P1!ToRemote, L1!Read, P1!Read, L1!InvalidateResponse, P1!InvalidateResponse

LEMMA SameRemoteInvalidate1 == \A c, m : L1!OnRemoteInvalidate(c, m) = P1!OnRemoteInvalidate(c, m)
BY SameRespondInvalidate1
   DEF L1!OnRemoteInvalidate, P1!OnRemoteInvalidate, L1!ToLocal, P1!ToLocal, L1!Invalidate, P1!Invalidate

LEMMA SameFromRemote1 ==
  ASSUME P1!CacheAssumptions, NEW R, P1!Asking \subseteq R, NEW W, NEW c, P1!CacheInv(c, R, W),
         NEW m, m.tag \in Tag, NEW attached
  PROVE  L1!FromRemote(c, m, attached) = P1!FromRemote(c, m, attached)
<1>1. L1!OnRemoteReadResponse(c, m, attached) = P1!OnRemoteReadResponse(c, m, attached)
  BY SameRemoteReadResponse1
<1> QED
  BY <1>1, SameRemoteRead1, SameRemoteInvalidate1
     DEF L1!FromRemote, P1!FromRemote, L1!ToRemote, P1!ToRemote, L1!EvictionResponse, P1!EvictionResponse

LEMMA SameNewCache1 == \A top : L1!NewCache(top) = P1!NewCache(top)
BY DEF L1!NewCache, P1!NewCache

LEMMA SameProperties1 ==
  \A c :
        /\ L1!CacheTypeOK(c) <=> P1!CacheTypeOK(c)
        /\ L1!LockedIffWaiting(c) <=> P1!LockedIffWaiting(c)
        /\ L1!FrameWaitersWillWake(c) <=> P1!FrameWaitersWillWake(c)
BY SMTT(60) DEF L1!CacheTypeOK, P1!CacheTypeOK, L1!LockedIffWaiting, P1!LockedIffWaiting,
       L1!FrameWaitersWillWake, P1!FrameWaitersWillWake, L1!Held, P1!Held, L1!Block, P1!Block,
       L1!State, P1!State, L1!Cardinality, P1!Cardinality

LEMMA SamePerform2 == \A c, m : L2!Perform(c, m) = P2!Perform(c, m)
BY DEF L2!Perform, P2!Perform, L2!PerformRead, P2!PerformRead, L2!PerformWrite, P2!PerformWrite,
       L2!Miss, P2!Miss, L2!ToLocal, P2!ToLocal, L2!ToRemote, P2!ToRemote, L2!Read, P2!Read,
       L2!ReadResponse, P2!ReadResponse, L2!WriteResponse, P2!WriteResponse

LEMMA SamePerformed2 == \A c, q : L2!FoldLeft(L2!Perform, c, q) = P2!Performed(c, q)
BY DEF L2!Perform, P2!Perform, L2!PerformRead, P2!PerformRead, L2!PerformWrite, P2!PerformWrite,
       L2!Miss, P2!Miss, L2!ToLocal, P2!ToLocal, L2!ToRemote, P2!ToRemote, L2!Read, P2!Read,
       L2!ReadResponse, P2!ReadResponse, L2!WriteResponse, P2!WriteResponse, L2!FoldLeft,
       P2!FoldLeft, L2!MapThenFoldSet, P2!MapThenFoldSet, L2!Max, P2!Max,
       P2!Performed

LEMMA SameTakeFrame2 == \A c, v, t : L2!TakeFrame(c, v, t) = P2!TakeFrame(c, v, t)
BY DEF L2!TakeFrame, P2!TakeFrame, L2!ToLocal, P2!ToLocal, L2!ToRemote, P2!ToRemote, L2!Eviction,
       P2!Eviction, L2!Invalidate, P2!Invalidate

LEMMA SamePrepare2 == \A c, t : L2!PrepareFreshBlock(c, t) = P2!PrepareFreshBlock(c, t)
BY DEF L2!PrepareFreshBlock, P2!PrepareFreshBlock

LEMMA SameEvict2 == \A c : L2!Evict(c) = P2!Evict(c) /\ L2!HasFreeFrame(c) = P2!HasFreeFrame(c)
BY DEF L2!Evict, P2!Evict, L2!HasFreeFrame, P2!HasFreeFrame, L2!Victims, P2!Victims, L2!Held,
       P2!Held, L2!Cardinality, P2!Cardinality

LEMMA SameLocalRequest2 == \A c, m : L2!OnLocalRequest(c, m) = P2!OnLocalRequest(c, m)
BY SamePerform2, SameTakeFrame2, SamePrepare2, SameEvict2
   DEF L2!OnLocalRequest, P2!OnLocalRequest

Again2(T, m) == UNION {L2!OnLocalRequest(e, m) : e \in T}

AllAgain2(T, q) == L2!FoldLeft(Again2, T, q)

F2 == INSTANCE FoldLemmas WITH Op <- P2!MadeAgain, Other <- Again2, Good <- Anything

LEMMA SameAgain2 ==
  ASSUME NEW S, NEW T, NEW q \in Seq(S)
  PROVE  AllAgain2(T, q) = P2!AllMadeAgain(T, q)
<1>1. \A e, m : P2!MadeAgain(e, m) = Again2(e, m)
  BY SameLocalRequest2 DEF P2!MadeAgain, Again2
<1>2. \A e, s : AllAgain2(e, s) = F2!OtherFolded(e, s)
  BY DEF AllAgain2, F2!OtherFolded, L2!FoldLeft, F2!FoldLeft, L2!MapThenFoldSet,
         F2!MapThenFoldSet, L2!Max, F2!Max
<1>3. \A e, s : P2!AllMadeAgain(e, s) = F2!Folded(e, s)
  BY DEF P2!AllMadeAgain, F2!Folded, P2!FoldLeft, F2!FoldLeft, P2!MapThenFoldSet,
         F2!MapThenFoldSet, P2!Max, F2!Max
<1> DEFINE n == Len(q)
<1>4. n \in Nat /\ DOMAIN q = 1..n
  OBVIOUS
<1> HIDE DEF n
<1>5. F2!OtherFolded(T, q) = F2!Folded(T, q)
  BY <1>1, <1>4, F2!FoldsAgree
<1> QED
  BY <1>2, <1>3, <1>5

LEMMA UnlockBlockIs2 ==
  ASSUME NEW c, NEW t
  PROVE  L2!UnlockBlock(c, t) =
           LET d == L2!FoldLeft(L2!Perform, P2!Unlocked(c, t), c.waitingOnBlockUnlock[t])
           IN IF d.blocks[t].locked THEN {d}
              ELSE AllAgain2({[d EXCEPT !.waitingOnSetUnlock = <<>>]}, d.waitingOnSetUnlock)
BY DEF L2!UnlockBlock, P2!Unlocked, AllAgain2, Again2, L2!FoldLeft, L2!MapThenFoldSet

LEMMA SameUnlockBlock2 ==
  ASSUME P2!CacheAssumptions, NEW R, P2!Asking \subseteq R, NEW W, NEW c, P2!CacheInv(c, R, W),
         NEW t \in Tag, c.blocks[t] \in P2!UsedBlock, c.blocks[t].state # "Invalid"
  PROVE  L2!UnlockBlock(c, t) = P2!UnlockBlock(c, t)
<1> DEFINE d == P2!Performed(P2!Unlocked(c, t), c.waitingOnBlockUnlock[t])
           f == [d EXCEPT !.waitingOnSetUnlock = <<>>]
           q == d.waitingOnSetUnlock
<1>1. q \in Seq(P2!Request)
  BY P2!FrameWaitersStay
<1>2. P2!UnlockBlock(c, t) = IF d.blocks[t].locked THEN {d} ELSE P2!AllMadeAgain({f}, q)
  BY P2!UnlockBlockIs
<1>3. L2!UnlockBlock(c, t) = IF d.blocks[t].locked THEN {d} ELSE AllAgain2({f}, q)
  BY UnlockBlockIs2, SamePerformed2
<1> HIDE DEF d, f, q
<1>4. AllAgain2({f}, q) = P2!AllMadeAgain({f}, q)
  BY <1>1, SameAgain2
<1> QED
  BY <1>2, <1>3, <1>4

LEMMA RemoteReadResponseIs2 ==
  ASSUME NEW c, NEW m, NEW attached
  PROVE  L2!OnRemoteReadResponse(c, m, attached) =
           IF P2!IsAwaited(c, m) THEN L2!UnlockBlock(P2!Filled(c, m), m.tag)
           ELSE {IF class.EvictsSurplus
                 THEN P2!ToRemote(c, P2!Eviction(m.tag, attached), evictionTime) ELSE c}
<1>1. CASE P2!IsAwaited(c, m)
  BY <1>1 DEF L2!OnRemoteReadResponse, P2!IsAwaited, P2!Filled, P2!WithBlock
<1>2. CASE ~P2!IsAwaited(c, m)
  BY <1>2 DEF L2!OnRemoteReadResponse, P2!IsAwaited, L2!ToRemote, P2!ToRemote, L2!Eviction, P2!Eviction
<1> QED
  BY <1>1, <1>2

LEMMA SameRemoteReadResponse2 ==
  ASSUME P2!CacheAssumptions, NEW R, P2!Asking \subseteq R, NEW W, NEW c, P2!CacheInv(c, R, W),
         NEW m, m.tag \in Tag, NEW attached
  PROVE  L2!OnRemoteReadResponse(c, m, attached) = P2!OnRemoteReadResponse(c, m, attached)
<1>1. CASE P2!IsAwaited(c, m)
  <2> DEFINE e == P2!Filled(c, m)
             t == m.tag
  <2>1. P2!CacheInv(e, R, W) /\ e.blocks[t] \in P2!UsedBlock /\ e.blocks[t].state # "Invalid"
    BY <1>1, P2!FilledKeeps
  <2>2. /\ L2!OnRemoteReadResponse(c, m, attached) = L2!UnlockBlock(e, t)
        /\ P2!OnRemoteReadResponse(c, m, attached) = P2!UnlockBlock(e, t)
    BY <1>1, RemoteReadResponseIs2, P2!RemoteReadResponseIs
  <2>3. t \in Tag
    OBVIOUS
  <2> HIDE DEF e, t
  <2> QED
    BY <2>1, <2>2, <2>3, SameUnlockBlock2
<1>2. CASE ~P2!IsAwaited(c, m)
  BY <1>2, RemoteReadResponseIs2, P2!RemoteReadResponseIs
<1> QED
  BY <1>1, <1>2

LEMMA SameRemoteRead2 == \A c, m : L2!OnRemoteRead(c, m) = P2!OnRemoteRead(c, m)
BY DEF L2!OnRemoteRead, P2!OnRemoteRead, L2!PerformRemoteRead, P2!PerformRemoteRead,
       L2!DropBlock, P2!DropBlock, L2!ToLocal, P2!ToLocal, L2!ToRemote, P2!ToRemote, L2!Read,
       P2!Read, L2!ReadResponse, P2!ReadResponse

LEMMA SameRespondInvalidate2 == \A c, t : L2!RespondInvalidate(c, t) = P2!RespondInvalidate(c, t)
BY DEF L2!RespondInvalidate, P2!RespondInvalidate, L2!DropBlock, P2!DropBlock, L2!ToRemote,
       P2!ToRemote, L2!Read, P2!Read, L2!InvalidateResponse, P2!InvalidateResponse

LEMMA SameRemoteInvalidate2 == \A c, m : L2!OnRemoteInvalidate(c, m) = P2!OnRemoteInvalidate(c, m)
BY SameRespondInvalidate2
   DEF L2!OnRemoteInvalidate, P2!OnRemoteInvalidate, L2!ToLocal, P2!ToLocal, L2!Invalidate, P2!Invalidate

LEMMA SameFromRemote2 ==
  ASSUME P2!CacheAssumptions, NEW R, P2!Asking \subseteq R, NEW W, NEW c, P2!CacheInv(c, R, W),
         NEW m, m.tag \in Tag, NEW attached
  PROVE  L2!FromRemote(c, m, attached) = P2!FromRemote(c, m, attached)
<1>1. L2!OnRemoteReadResponse(c, m, attached) = P2!OnRemoteReadResponse(c, m, attached)
  BY SameRemoteReadResponse2
<1> QED
  BY <1>1, SameRemoteRead2, SameRemoteInvalidate2
     DEF L2!FromRemote, P2!FromRemote, L2!ToRemote, P2!ToRemote, L2!EvictionResponse, P2!EvictionResponse

LEMMA SameNewCache2 == \A top : L2!NewCache(top) = P2!NewCache(top)
BY DEF L2!NewCache, P2!NewCache

LEMMA SameProperties2 ==
  \A c :
        /\ L2!CacheTypeOK(c) <=> P2!CacheTypeOK(c)
        /\ L2!LockedIffWaiting(c) <=> P2!LockedIffWaiting(c)
        /\ L2!FrameWaitersWillWake(c) <=> P2!FrameWaitersWillWake(c)
BY DEF L2!CacheTypeOK, P2!CacheTypeOK, L2!LockedIffWaiting, P2!LockedIffWaiting,
       L2!FrameWaitersWillWake, P2!FrameWaitersWillWake, L2!Held, P2!Held, L2!Block, P2!Block,
       L2!State, P2!State, L2!Cardinality, P2!Cardinality

LEMMA SameLocalReadResponse2 == \A c, m : L2!OnLocalReadResponse(c, m) = P2!OnLocalReadResponse(c, m)
BY DEF L2!OnLocalReadResponse, P2!OnLocalReadResponse, L2!PerformRemoteRead,
       P2!PerformRemoteRead, L2!DropBlock, P2!DropBlock, L2!ToRemote, P2!ToRemote,
       L2!ReadResponse, P2!ReadResponse, L2!FoldLeft, P2!FoldLeft, L2!MapThenFoldSet,
       P2!MapThenFoldSet, L2!Max, P2!Max

LEMMA SameLocalInvalidateResponse2 ==
  \A c, m : L2!OnLocalInvalidateResponse(c, m) = P2!OnLocalInvalidateResponse(c, m)
<1> SUFFICES ASSUME NEW c, NEW m
             PROVE  L2!OnLocalInvalidateResponse(c, m) = P2!OnLocalInvalidateResponse(c, m)
  OBVIOUS
<1> DEFINE t == m.tag
           e == P2!Merged(c, m)
           LeftBy(f) == IF t \in c.canceledBlockEviction
                        THEN {[c EXCEPT !.canceledBlockEviction = @ \ {t}]}
                        ELSE IF f.pendingEviction[t] = NoBlock THEN {f}
                        ELSE {P2!ToRemote([f EXCEPT !.pendingEviction[t] = NoBlock],
                              P2!Eviction(t, f.pendingEviction[t].state \in class.Dirty), evictionTime)}
           r == L2!RespondInvalidate(e, t)
           s == P2!RespondInvalidate(e, t)
<1>1. L2!OnLocalInvalidateResponse(c, m) = LeftBy(IF t \in c.pendingInvalidate THEN r ELSE e)
  BY DEF L2!OnLocalInvalidateResponse, P2!Merged, L2!MergeDirty, P2!MergeDirty, L2!ToRemote,
         P2!ToRemote, L2!Eviction, P2!Eviction
<1>2. P2!OnLocalInvalidateResponse(c, m) = LeftBy(IF t \in c.pendingInvalidate THEN s ELSE e)
  BY DEF P2!OnLocalInvalidateResponse, P2!Merged
<1>3. r = s
  BY SameRespondInvalidate2
<1> HIDE DEF LeftBy, r, s, e, t
<1> QED
  BY <1>1, <1>2, <1>3

LEMMA SameFromLocal2 == \A c, m : L2!FromLocal(c, m) = P2!FromLocal(c, m)
BY SameLocalRequest2, SameLocalReadResponse2, SameLocalInvalidateResponse2
   DEF L2!FromLocal, P2!FromLocal, L2!OnLocalEviction, P2!OnLocalEviction, L2!MergeDirty, P2!MergeDirty
-----------------------------------------------------------------------------
(* What is on its way between the levels and to the directory.              *)
Event   == [to : {"L1"}, msg : P2!UpMsg, delay : Nat] \cup [to : {"L2"}, msg : P1!Sending, delay : Nat]
ReadOut == [msg : P2!ReadMsg, delay : P2!Delay]

TagsOf(s) == {s[k].msg.tag : k \in DOMAIN s}

(* The inductive invariant: every level keeps the invariant of a cache, and *)
(* what waits in L2 has a read at the directory.                            *)
StackInv ==
  /\ class \in Classes
  /\ P1!CacheInv(l1, P1!Sending, Tag)
  /\ P2!CacheInv(l2, P2!Sending, TagsOf(reads))
  /\ l2.toRemote = <<>>
  /\ queue \in Seq(Event)
  /\ reads \in Seq(ReadOut)

LEMMA ClassIsOK ==
  ASSUME class \in Classes
  PROVE  P1!CacheAssumptions /\ P2!CacheAssumptions
BY ClassesAssumption, NoBlockAssumption, FramesAssumption
   DEF P1!CacheAssumptions, P2!CacheAssumptions, P1!ClassOK, P2!ClassOK, P1!Valid, P2!Valid,
       P1!State, P2!State, L1!State, P1!Block, P2!Block, L1!Block

LEMMA DelaysAreNumbers == P1!Delay \subseteq Nat /\ P2!Delay \subseteq Nat
BY TimesAssumption DEF P1!Delay, P2!Delay

(* The two levels speak the same language.                                  *)
LEMMA SameMessages ==
  P1!Sending = P2!Sending /\ P1!ReadMsg = P2!ReadMsg /\ P1!Request = P2!Request
BY DEF P1!Sending, P2!Sending, P1!Asking, P2!Asking, P1!Answering, P2!Answering, P1!ReadMsg,
       P2!ReadMsg, P1!Request, P2!Request, P1!Response, P2!Response, P1!IDs, P2!IDs, P1!Read,
       P2!Read, P1!Eviction, P2!Eviction, P1!InvalidateResponse, P2!InvalidateResponse
-----------------------------------------------------------------------------
(* The sequences of the model.                                              *)
LEMMA AddressedTyped ==
  ASSUME NEW M, NEW s \in Seq([msg : M, delay : Nat]), NEW to
  PROVE  /\ Addressed(s, to) \in Seq([to : {to}, msg : M, delay : Nat])
         /\ DOMAIN Addressed(s, to) = DOMAIN s
         /\ \A k \in DOMAIN s : Addressed(s, to)[k].to = to /\ Addressed(s, to)[k].msg = s[k].msg
<1> DEFINE r == Addressed(s, to)
           T == [to : {to}, msg : M, delay : Nat]
<1>1. Len(s) \in Nat /\ DOMAIN s = 1..Len(s) /\ \A k \in DOMAIN s : s[k] \in [msg : M, delay : Nat]
  BY P2!Elements
<1>2. r = [k \in 1..Len(s) |-> [to |-> to, msg |-> s[k].msg, delay |-> s[k].delay]]
  BY <1>1 DEF Addressed
<1>3. \A k \in 1..Len(s) : r[k] = [to |-> to, msg |-> s[k].msg, delay |-> s[k].delay]
  BY <1>2
<1>4. \A k \in 1..Len(s) : r[k] \in T
  <2> TAKE k \in 1..Len(s)
  <2>1. s[k].msg \in M /\ s[k].delay \in Nat
    BY <1>1
  <2> DEFINE e == [to |-> to, msg |-> s[k].msg, delay |-> s[k].delay]
  <2>2. e \in T
    BY <2>1
  <2>3. r[k] = e
    BY <1>3
  <2> QED
    BY <2>2, <2>3
<1>5. DOMAIN r = 1..Len(s)
  BY <1>2
<1> HIDE DEF r, T
<1>6. r \in [1..Len(s) -> T]
  BY <1>2, <1>4, <1>5
<1>7. r \in Seq(T)
  BY <1>1, <1>6
<1> QED
  BY <1>1, <1>3, <1>5, <1>7 DEF r, T

(* AppendRead, from the messages of L2, keeps the reads that were there and *)
(* adds those among the messages.                                           *)
ReadsKept(x, k, a) ==
  /\ a \in Seq(ReadOut)
  /\ \A i \in DOMAIN x.before : i \in DOMAIN a /\ a[i] = x.before[i]
  /\ \A j \in 1..k : x.out[j].msg.type = "Read" => \E i \in DOMAIN a : a[i] = x.out[j]

Fr == INSTANCE FoldLemmas WITH Op <- AppendRead, Other <- AppendRead, Good <- ReadsKept

ReadsAfter(s, out) == FoldLeft(AppendRead, s, out)

LEMMA ReadsAreAdded ==
  ASSUME NEW s \in Seq(ReadOut), NEW out \in P2!Outbox(P2!Sending),
         NEW r, r = ReadsAfter(s, out)
  PROVE  /\ r \in Seq(ReadOut)
         /\ TagsOf(s) \subseteq TagsOf(r)
         /\ \A k \in DOMAIN out : out[k].msg.type = "Read" => out[k].msg.tag \in TagsOf(r)
<1> DEFINE n == Len(out)
           x == [before |-> s, out |-> out]
<1>1. /\ n \in Nat /\ DOMAIN out = 1..n
      /\ \A k \in 1..n : out[k].msg \in P2!Sending /\ out[k] \in [msg : P2!Sending, delay : P2!Delay]
  <2> DEFINE E == [msg : P2!Sending, delay : P2!Delay]
  <2>1. \A e \in E : e.msg \in P2!Sending
    OBVIOUS
  <2>2. out \in Seq(E)
    BY DEF P2!Outbox
  <2> HIDE DEF E
  <2>3. n \in Nat /\ DOMAIN out = 1..n /\ \A k \in 1..n : out[k] \in E
    BY <2>2, P2!Elements
  <2> HIDE DEF n
  <2>4. \A k \in 1..n : out[k].msg \in P2!Sending
    BY <2>1, <2>3
  <2> QED
    BY <2>3, <2>4 DEF E
<1> HIDE DEF n
<1>2. r = Fr!Folded(s, out)
  BY DEF ReadsAfter, Fr!Folded, Fr!FoldLeft, FoldLeft, Fr!MapThenFoldSet, MapThenFoldSet, Fr!Max, Max
<1>3. ReadsKept(x, 0, s)
  BY DEF ReadsKept
<1>4. \A a : \A k \in 1..n : ReadsKept(x, k-1, a) => ReadsKept(x, k, AppendRead(a, out[k]))
  <2> SUFFICES ASSUME NEW a, NEW k \in 1..n, ReadsKept(x, k-1, a)
               PROVE  ReadsKept(x, k, AppendRead(a, out[k]))
    OBVIOUS
  <2>1. \A j \in 1..k : j = k \/ j \in 1..(k-1)
    BY <1>1
  <2>2. /\ a \in Seq(ReadOut)
        /\ \A i \in DOMAIN s : i \in DOMAIN a /\ a[i] = s[i]
        /\ \A j \in 1..(k-1) : out[j].msg.type = "Read" => \E i \in DOMAIN a : a[i] = out[j]
    BY DEF ReadsKept
  <2>3. CASE out[k].msg.type # "Read"
    BY <2>1, <2>2, <2>3 DEF AppendRead, ReadsKept
  <2>4. CASE out[k].msg.type = "Read"
    <3> DEFINE e == out[k]
               b == Append(a, e)
    <3>1. e \in ReadOut
      <4>1. e.msg \in P2!ReadMsg
        BY <1>1, <2>4, P2!ReadsAreReads
      <4> QED
        BY <1>1, <4>1 DEF ReadOut
    <3>2. AppendRead(a, out[k]) = b
      BY <2>4 DEF AppendRead
    <3>3. out[k] = e
      OBVIOUS
    <3> HIDE DEF e
    <3>4. /\ b \in Seq(ReadOut) /\ Len(a) \in Nat /\ DOMAIN a = 1..Len(a)
          /\ DOMAIN b = 1..(Len(a)+1) /\ b[Len(a)+1] = e
          /\ \A i \in 1..Len(a) : b[i] = a[i]
      BY <2>2, <3>1
    <3> HIDE DEF b
    <3>5. \A i \in DOMAIN a : i \in DOMAIN b /\ b[i] = a[i]
      BY <3>4
    <3>6. Len(a)+1 \in DOMAIN b
      BY <3>4
    <3>7. \A i \in DOMAIN s : i \in DOMAIN b /\ b[i] = s[i]
      BY <2>2, <3>5
    <3>8. \A j \in 1..k : out[j].msg.type = "Read" => \E i \in DOMAIN b : b[i] = out[j]
      BY <2>1, <2>2, <3>3, <3>4, <3>5, <3>6
    <3> QED
      BY <3>2, <3>4, <3>7, <3>8 DEF ReadsKept
  <2> QED
    BY <2>3, <2>4
<1> HIDE DEF x
<1>5. ReadsKept(x, n, r)
  BY <1>1, <1>2, <1>3, <1>4, Fr!FoldKeeps
<1> QED
  BY <1>1, <1>5 DEF ReadsKept, TagsOf, x

(* What an invariant of a cache says does not depend on anything that       *)
(* changes but the cache.                                                   *)
LEMMA NextL1 ==
  ASSUME class' = class, NEW c, P1!CacheInv(c, P1!Sending, Tag), l1' = c
  PROVE  P1!CacheInv(l1, P1!Sending, Tag)'
BY DEF P1!CacheInv, P1!BlocksInv, P1!CacheObject, P1!Sorted, P1!LockedIffWaiting,
       P1!InvalidIsLocked, P1!EvictedIsUsable, P1!TopWaitsForNobody, P1!HasItsFrames, P1!Held,
       P1!AskedFor, P1!FrameWaitersWillWake, P1!Frame, P1!UsedBlock, P1!Valid

LEMMA NextL2 ==
  ASSUME class' = class, NEW c, P2!CacheInv(c, P2!Sending, TagsOf(reads')), l2' = c
  PROVE  P2!CacheInv(l2, P2!Sending, TagsOf(reads))'
BY DEF P2!CacheInv, P2!BlocksInv, P2!CacheObject, P2!Sorted, P2!LockedIffWaiting,
       P2!InvalidIsLocked, P2!EvictedIsUsable, P2!TopWaitsForNobody, P2!HasItsFrames, P2!Held,
       P2!AskedFor, P2!FrameWaitersWillWake, P2!Frame, P2!UsedBlock, P2!Valid, TagsOf

(* L2 is left as c, and what it sends goes where it is addressed.           *)
LEMMA LeaveL2Keeps ==
  ASSUME NEW c, NEW q \in Seq(Event), NEW s \in Seq(ReadOut), NEW g, NEW f, NEW W,
         class' = class, LeaveL2(c, q, s, g, f),
         P2!CacheInv(c, P2!Sending, W), W \subseteq TagsOf(s)
  PROVE  /\ P2!CacheInv(l2, P2!Sending, TagsOf(reads))'
         /\ l2'.toRemote = <<>> /\ queue' \in Seq(Event) /\ reads' \in Seq(ReadOut)
<1>1. c.toLocal \in P2!Outbox(P2!UpMsg) /\ c.toRemote \in P2!Outbox(P2!Sending)
  BY DEF P2!CacheInv, P2!BlocksInv, P2!CacheObject
<1>2. /\ l2' = Emptied(c) /\ queue' = q \o Addressed(c.toLocal, "L1")
      /\ reads' = ReadsAfter(s, c.toRemote)
  BY DEF LeaveL2, ReadsAfter
<1>3. /\ reads' \in Seq(ReadOut) /\ TagsOf(s) \subseteq TagsOf(reads')
      /\ \A k \in DOMAIN c.toRemote :
           c.toRemote[k].msg.type = "Read" => c.toRemote[k].msg.tag \in TagsOf(reads')
  BY <1>1, <1>2, ReadsAreAdded
<1>4. P2!CacheInv(l2', P2!Sending, TagsOf(reads')) /\ l2'.toRemote = <<>>
  <2> DEFINE V == TagsOf(reads')
  <2>1. l2' = P2!WithoutMessages(c)
    BY <1>2 DEF Emptied, P2!WithoutMessages
  <2>2. P2!Covers(V, W, c)
    BY <1>3 DEF P2!Covers
  <2> HIDE DEF V
  <2>3. P2!CacheInv(l2', P2!Sending, V) /\ l2'.toRemote = <<>>
    BY <2>1, <2>2, P2!OutboxesEmptied
  <2> QED
    BY <2>3 DEF V
<1>5. P2!CacheInv(l2, P2!Sending, TagsOf(reads))'
  BY <1>4, NextL2
<1>6. queue' \in Seq(Event)
  <2> DEFINE T == [to : {"L1"}, msg : P2!UpMsg, delay : Nat]
             r == Addressed(c.toLocal, "L1")
  <2>1. c.toLocal \in Seq([msg : P2!UpMsg, delay : Nat])
    <3> DEFINE A == [msg : P2!UpMsg, delay : P2!Delay]
               B == [msg : P2!UpMsg, delay : Nat]
    <3>1. A \subseteq B
      BY DelaysAreNumbers
    <3>2. c.toLocal \in Seq(A)
      BY <1>1 DEF P2!Outbox
    <3> HIDE DEF A, B
    <3>3. c.toLocal \in Seq(B)
      BY <3>1, <3>2, P2!LargerSeq
    <3> QED
      BY <3>3 DEF B
  <2>3. r \in Seq(T)
    BY <2>1, AddressedTyped
  <2>4. T \subseteq Event
    BY DEF Event
  <2>5. queue' = q \o r
    BY <1>2
  <2> HIDE DEF T, r
  <2>6. r \in Seq(Event)
    BY <2>3, <2>4, P2!LargerSeq
  <2> QED
    BY <2>5, <2>6, P2!JoinedAt
<1> QED
  BY <1>3, <1>4, <1>5, <1>6

LEMMA LeaveL1Keeps ==
  ASSUME NEW c, NEW q \in Seq(Event), class' = class, LeaveL1(c, q),
         P1!CacheInv(c, P1!Sending, Tag)
  PROVE  P1!CacheInv(l1, P1!Sending, Tag)' /\ queue' \in Seq(Event)
<1>1. c.toRemote \in P1!Outbox(P1!Sending)
  BY DEF P1!CacheInv, P1!BlocksInv, P1!CacheObject
<1>2. l1' = Emptied(c) /\ queue' = q \o Addressed(c.toRemote, "L2")
  BY DEF LeaveL1
<1>3. P1!CacheInv(l1', P1!Sending, Tag)
  <2>1. l1' = P1!WithoutMessages(c)
    BY <1>2 DEF Emptied, P1!WithoutMessages
  <2>2. \A k \in DOMAIN c.toRemote : c.toRemote[k].msg.tag \in Tag
    <3> DEFINE E == [msg : P1!Sending, delay : P1!Delay]
    <3>1. \A e \in E : e.msg \in P1!Sending
      OBVIOUS
    <3>2. c.toRemote \in Seq(E)
      BY <1>1 DEF P1!Outbox
    <3> HIDE DEF E
    <3> QED
      BY <3>1, <3>2, P2!Elements, P1!TagsOfMessages
  <2>3. P1!Covers(Tag, Tag, c)
    BY <2>2 DEF P1!Covers
  <2> QED
    BY <2>1, <2>3, P1!OutboxesEmptied
<1>4. P1!CacheInv(l1, P1!Sending, Tag)'
  BY <1>3, NextL1
<1>5. queue' \in Seq(Event)
  <2> DEFINE T == [to : {"L2"}, msg : P1!Sending, delay : Nat]
             r == Addressed(c.toRemote, "L2")
  <2>1. c.toRemote \in Seq([msg : P1!Sending, delay : Nat])
    <3> DEFINE A == [msg : P1!Sending, delay : P1!Delay]
               B == [msg : P1!Sending, delay : Nat]
    <3>1. A \subseteq B
      BY DelaysAreNumbers
    <3>2. c.toRemote \in Seq(A)
      BY <1>1 DEF P1!Outbox
    <3> HIDE DEF A, B
    <3>3. c.toRemote \in Seq(B)
      BY <3>1, <3>2, P2!LargerSeq
    <3> QED
      BY <3>3 DEF B
  <2>3. r \in Seq(T)
    BY <2>1, AddressedTyped
  <2>4. T \subseteq Event
    BY DEF Event
  <2>5. queue' = q \o r
    BY <1>2
  <2> HIDE DEF T, r
  <2>6. r \in Seq(Event)
    BY <2>3, <2>4, P2!LargerSeq
  <2> QED
    BY <2>5, <2>6, P2!JoinedAt
<1> QED
  BY <1>4, <1>5
-----------------------------------------------------------------------------
LEMMA MessagesOfL1 ==
  \A t \in Tag : /\ L1!Read(t, FALSE, NoID) \in P1!Request
                 /\ L1!Write(t, NoID) \in P1!Request
BY DEF L1!Read, L1!Write, P1!Request, P1!ReadMsg, P1!IDs

LEMMA MessagesOfDirectory ==
  \A t \in Tag : /\ \A x \in BOOLEAN : L2!Read(t, x, NoID) \in P2!UpMsg
                 /\ L2!Invalidate(t) \in P2!UpMsg
BY DEF L2!Read, L2!Invalidate, P2!UpMsg, P2!ReadMsg, P2!IDs, P2!Invalidate

LEMMA SameUpMsg == P1!UpMsg = P2!UpMsg
BY DEF P1!UpMsg, P2!UpMsg, P1!Response, P2!Response, P1!Written, P2!Written, P1!ReadMsg,
       P2!ReadMsg, P1!IDs, P2!IDs, P1!Invalidate, P2!Invalidate

LEMMA InitKeeps == Init => StackInv
<1> SUFFICES ASSUME Init PROVE StackInv
  OBVIOUS
<1>1. P1!CacheAssumptions /\ P2!CacheAssumptions
  BY ClassIsOK DEF Init
<1>2. l1 = P1!NewCache(TRUE) /\ l2 = P2!NewCache(FALSE) /\ queue = <<>> /\ reads = <<>>
  BY SameNewCache1, SameNewCache2 DEF Init
<1>3. P1!CacheInv(l1, P1!Sending, Tag)
  <2> DEFINE top == TRUE
  <2>1. l1 = P1!NewCache(top) /\ top \in BOOLEAN
    BY <1>2
  <2> HIDE DEF top
  <2> QED
    BY <1>1, <2>1, P1!NewCacheInv
<1>4. P2!CacheInv(l2, P2!Sending, TagsOf(reads)) /\ l2.toRemote = <<>>
  <2> DEFINE top == FALSE
             W == TagsOf(reads)
  <2>1. l2 = P2!NewCache(top) /\ top \in BOOLEAN
    BY <1>2
  <2> HIDE DEF top, W
  <2>2. P2!CacheInv(l2, P2!Sending, W) /\ l2.toRemote = <<>>
    BY <1>1, <2>1, P2!NewCacheInv
  <2> QED
    BY <2>2 DEF W
<1>5. queue \in Seq(Event) /\ reads \in Seq(ReadOut)
  BY <1>2
<1>6. class \in Classes
  BY DEF Init
<1> QED
  BY <1>3, <1>4, <1>5, <1>6 DEF StackInv

LEMMA ProcessorKeeps ==
  ASSUME StackInv, ProcessorRequests
  PROVE  StackInv'
<1>1. /\ P1!CacheAssumptions /\ P1!CacheInv(l1, P1!Sending, Tag)
      /\ class \in Classes /\ queue \in Seq(Event) /\ reads \in Seq(ReadOut) /\ l2.toRemote = <<>>
      /\ P2!CacheInv(l2, P2!Sending, TagsOf(reads))
  BY ClassIsOK DEF StackInv
<1>2. PICK m \in P1!Request : \E c \in L1!OnLocalRequest(l1, m) : LeaveL1(c, queue)
  BY MessagesOfL1 DEF ProcessorRequests
<1>3. PICK c \in P1!OnLocalRequest(l1, m) : LeaveL1(c, queue)
  BY <1>2, SameLocalRequest1
<1>4. class' = class /\ l2' = l2 /\ reads' = reads
  BY DEF ProcessorRequests
<1>5. P1!Asking \subseteq P1!Sending
  BY DEF P1!Sending
<1>6. P1!CacheInv(c, P1!Sending, Tag)
  BY <1>1, <1>2, <1>3, <1>5, P1!LocalRequestKeeps
<1>7. P1!CacheInv(l1, P1!Sending, Tag)' /\ queue' \in Seq(Event)
  BY <1>1, <1>3, <1>4, <1>6, LeaveL1Keeps
<1>8. P2!CacheInv(l2, P2!Sending, TagsOf(reads))'
  BY <1>1, <1>4, NextL2
<1> QED
  BY <1>1, <1>4, <1>7, <1>8 DEF StackInv

LEMMA DeliverKeeps ==
  ASSUME StackInv, NEW to \in {"L1", "L2"}, Deliver(to)
  PROVE  StackInv'
<1>1. /\ P1!CacheAssumptions /\ P1!CacheInv(l1, P1!Sending, Tag)
      /\ P2!CacheAssumptions /\ P2!CacheInv(l2, P2!Sending, TagsOf(reads))
      /\ class \in Classes /\ queue \in Seq(Event) /\ reads \in Seq(ReadOut) /\ l2.toRemote = <<>>
  BY ClassIsOK DEF StackInv
<1>2. P1!Asking \subseteq P1!Sending /\ P2!Asking \subseteq P2!Sending
  BY DEF P1!Sending, P2!Sending
<1>3. PICK k \in DOMAIN queue :
        /\ queue[k].to = to
        /\ \/ /\ to = "L1"
              /\ \E attached \in BOOLEAN : \E c \in L1!FromRemote(l1, queue[k].msg, attached) :
                   LeaveL1(c, RemoveAt(queue, k))
              /\ UNCHANGED <<l2, reads, granted, fetches>>
           \/ /\ to = "L2"
              /\ \E c \in L2!FromLocal(l2, queue[k].msg) :
                   LeaveL2(c, RemoveAt(queue, k), reads, granted, fetches)
              /\ UNCHANGED l1
        /\ class' = class
  BY Zenon DEF Deliver
<1> DEFINE m == queue[k].msg
           q == RemoveAt(queue, k)
<1>4. q \in Seq(Event) /\ queue[k] \in Event
  <2>1. q = P2!Without(queue, k)
    BY DEF RemoveAt, P2!Without
  <2> HIDE DEF q
  <2> QED
    BY <1>1, <2>1, P2!Removed, P2!Elements
<1>5. CASE to = "L1"
  <2>1. PICK attached \in BOOLEAN : \E c \in L1!FromRemote(l1, m, attached) : LeaveL1(c, q)
    BY <1>3, <1>5
  <2>2. m \in P1!UpMsg /\ class' = class /\ l2' = l2 /\ reads' = reads
    BY <1>3, <1>4, <1>5, SameUpMsg DEF Event
  <2> HIDE DEF m, q
  <2>3. m.tag \in Tag
    BY <2>2, P1!TagsOfMessages
  <2>4. L1!FromRemote(l1, m, attached) = P1!FromRemote(l1, m, attached)
    BY <1>1, <1>2, <2>3, SameFromRemote1
  <2>5. PICK c \in P1!FromRemote(l1, m, attached) : LeaveL1(c, q)
    BY <2>1, <2>4
  <2>6. P1!CacheInv(c, P1!Sending, Tag)
    BY <1>1, <2>2, <2>5, P1!UpMsgKeeps
  <2>7. P1!CacheInv(l1, P1!Sending, Tag)' /\ queue' \in Seq(Event)
    BY <1>4, <2>2, <2>5, <2>6, LeaveL1Keeps
  <2>8. P2!CacheInv(l2, P2!Sending, TagsOf(reads))'
    BY <1>1, <2>2, NextL2
  <2> QED
    BY <1>1, <2>2, <2>7, <2>8 DEF StackInv
<1>6. CASE to = "L2"
  <2>1. PICK c \in L2!FromLocal(l2, m) : LeaveL2(c, q, reads, granted, fetches)
    BY <1>3, <1>6
  <2>2. m \in P2!Sending /\ class' = class /\ l1' = l1
    BY <1>3, <1>4, <1>6, SameMessages DEF Event
  <2> HIDE DEF m, q
  <2>3. c \in P2!FromLocal(l2, m)
    BY <2>1, SameFromLocal2
  <2> DEFINE W == TagsOf(reads)
  <2>4. P2!CacheInv(l2, P2!Sending, W) /\ W \subseteq TagsOf(reads)
    BY <1>1
  <2> HIDE DEF W
  <2>5. P2!CacheInv(c, P2!Sending, W)
    BY <1>1, <2>2, <2>3, <2>4, P2!FromLocalKeeps
  <2>6. /\ P2!CacheInv(l2, P2!Sending, TagsOf(reads))'
        /\ l2'.toRemote = <<>> /\ queue' \in Seq(Event) /\ reads' \in Seq(ReadOut)
    BY <1>1, <1>4, <2>1, <2>2, <2>4, <2>5, LeaveL2Keeps
  <2>7. P1!CacheInv(l1, P1!Sending, Tag)'
    BY <1>1, <2>2, NextL1
  <2> QED
    BY <1>1, <2>2, <2>6, <2>7 DEF StackInv
<1> QED
  BY <1>5, <1>6

LEMMA TickKeeps ==
  ASSUME StackInv, Tick
  PROVE  StackInv'
<1>1. /\ class \in Classes /\ queue \in Seq(Event) /\ P1!CacheInv(l1, P1!Sending, Tag)
      /\ P2!CacheInv(l2, P2!Sending, TagsOf(reads)) /\ reads \in Seq(ReadOut) /\ l2.toRemote = <<>>
  BY DEF StackInv
<1>2. /\ \A k \in DOMAIN queue : queue[k].delay > 0
      /\ queue' = [k \in DOMAIN queue |-> [queue[k] EXCEPT !.delay = @ - 1]]
      /\ class' = class /\ l1' = l1 /\ l2' = l2 /\ reads' = reads
  BY DEF Tick
<1>3. queue' \in Seq(Event)
  <2>1. Len(queue) \in Nat /\ DOMAIN queue = 1..Len(queue) /\ \A k \in DOMAIN queue : queue[k] \in Event
    BY <1>1, P2!Elements
  <2>2. \A e \in Event : e.delay > 0 => [e EXCEPT !.delay = @ - 1] \in Event
    BY DEF Event
  <2>3. \A k \in 1..Len(queue) : [queue[k] EXCEPT !.delay = @ - 1] \in Event
    BY <1>2, <2>1, <2>2
  <2>4. queue' \in [1..Len(queue) -> Event]
    BY <1>2, <2>1, <2>3
  <2> QED
    BY <2>1, <2>4
<1>4. P1!CacheInv(l1, P1!Sending, Tag)' /\ P2!CacheInv(l2, P2!Sending, TagsOf(reads))'
  BY <1>1, <1>2, NextL1, NextL2
<1> QED
  BY <1>1, <1>2, <1>3, <1>4 DEF StackInv

LEMMA AnswerKeeps ==
  ASSUME StackInv, DirectoryAnswers
  PROVE  StackInv'
<1>1. /\ P2!CacheAssumptions /\ P1!CacheInv(l1, P1!Sending, Tag)
      /\ class \in Classes /\ queue \in Seq(Event) /\ reads \in Seq(ReadOut)
      /\ P2!CacheInv(l2, P2!Sending, TagsOf(reads))
  BY ClassIsOK DEF StackInv
<1>2. PICK k \in DOMAIN reads :
        \E x \in BOOLEAN :
          \E c \in L2!FromRemote(l2, L2!ReadResponse(reads[k].msg, TRUE, x), TRUE) :
            \E g : LeaveL2(c, queue, RemoveAt(reads, k), g, fetches)
  BY Zenon DEF DirectoryAnswers
<1>3. PICK x \in BOOLEAN :
          \E c \in L2!FromRemote(l2, L2!ReadResponse(reads[k].msg, TRUE, x), TRUE) :
            \E g : LeaveL2(c, queue, RemoveAt(reads, k), g, fetches)
  BY <1>2
<1> DEFINE r == reads[k].msg
           m == L2!ReadResponse(r, TRUE, x)
           s == RemoveAt(reads, k)
           W == TagsOf(reads)
           a == TRUE
<1>4. PICK c \in L2!FromRemote(l2, m, a) : \E g : LeaveL2(c, queue, s, g, fetches)
  BY <1>3
<1>5. PICK g : LeaveL2(c, queue, s, g, fetches)
  BY <1>4
<1>6. r \in P2!ReadMsg /\ r.tag \in Tag
  <2>1. reads[k] \in ReadOut
    BY <1>1, P2!Elements
  <2> QED
    BY <2>1 DEF ReadOut, P2!ReadMsg
<1>7. m.tag = r.tag /\ m.type = "ReadResponse" /\ m.exclusive \in BOOLEAN
  BY DEF L2!ReadResponse
<1>8. class' = class /\ l1' = l1
  BY DEF DirectoryAnswers
<1>9. s \in Seq(ReadOut) /\ W \ {m.tag} \subseteq TagsOf(s)
  <2>1. /\ s \in Seq(ReadOut)
        /\ \A j \in DOMAIN reads : j # k => \E i \in DOMAIN s : s[i] = reads[j]
    <3>1. s = P2!Without(reads, k)
      BY DEF RemoveAt, P2!Without
    <3> HIDE DEF s
    <3> QED
      BY <1>1, <3>1, P2!Removed
  <2> HIDE DEF s, m
  <2> QED
    BY <1>7, <2>1 DEF TagsOf
<1>10. P2!Asking \subseteq P2!Sending /\ a \in BOOLEAN /\ P2!CacheInv(l2, P2!Sending, W)
  BY <1>1 DEF P2!Sending
<1> HIDE DEF r, m, s, W, a
<1>11. L2!FromRemote(l2, m, a) = P2!FromRemote(l2, m, a)
  BY <1>1, <1>6, <1>7, <1>10, SameFromRemote2
<1>12. c \in P2!OnRemoteReadResponse(l2, m, a)
  BY <1>4, <1>7, <1>11 DEF P2!FromRemote
<1>13. P2!CacheInv(c, P2!Sending, W \ {m.tag})
  BY <1>1, <1>6, <1>7, <1>10, <1>12, P2!RemoteReadResponseKeeps
<1>14. /\ P2!CacheInv(l2, P2!Sending, TagsOf(reads))'
       /\ l2'.toRemote = <<>> /\ queue' \in Seq(Event) /\ reads' \in Seq(ReadOut)
  BY <1>1, <1>5, <1>8, <1>9, <1>13, LeaveL2Keeps
<1>15. P1!CacheInv(l1, P1!Sending, Tag)'
  BY <1>1, <1>8, NextL1
<1> QED
  BY <1>1, <1>8, <1>14, <1>15 DEF StackInv

LEMMA RequestKeeps ==
  ASSUME StackInv, DirectoryRequests
  PROVE  StackInv'
<1>1. /\ P2!CacheAssumptions /\ P1!CacheInv(l1, P1!Sending, Tag)
      /\ class \in Classes /\ queue \in Seq(Event) /\ reads \in Seq(ReadOut)
      /\ P2!CacheInv(l2, P2!Sending, TagsOf(reads))
  BY ClassIsOK DEF StackInv
<1> DEFINE W == TagsOf(reads)
           a == TRUE
<1>2. PICK m \in P2!UpMsg :
        \E c \in L2!FromRemote(l2, m, a) : LeaveL2(c, queue, reads, granted, fetches \cup {m})
  BY MessagesOfDirectory DEF DirectoryRequests
<1>3. PICK c \in L2!FromRemote(l2, m, a) : LeaveL2(c, queue, reads, granted, fetches \cup {m})
  BY <1>2
<1>4. class' = class /\ l1' = l1
  BY DEF DirectoryRequests
<1>5. P2!Asking \subseteq P2!Sending /\ a \in BOOLEAN /\ P2!CacheInv(l2, P2!Sending, W)
      /\ W \subseteq TagsOf(reads)
  BY <1>1 DEF P2!Sending
<1> HIDE DEF W, a
<1>6. m.tag \in Tag
  BY P2!TagsOfMessages
<1>7. L2!FromRemote(l2, m, a) = P2!FromRemote(l2, m, a)
  BY <1>1, <1>5, <1>6, SameFromRemote2
<1>8. P2!CacheInv(c, P2!Sending, W)
  BY <1>1, <1>3, <1>5, <1>7, P2!UpMsgKeeps
<1>9. /\ P2!CacheInv(l2, P2!Sending, TagsOf(reads))'
      /\ l2'.toRemote = <<>> /\ queue' \in Seq(Event) /\ reads' \in Seq(ReadOut)
  BY <1>1, <1>3, <1>4, <1>5, <1>8, LeaveL2Keeps
<1>10. P1!CacheInv(l1, P1!Sending, Tag)'
  BY <1>1, <1>4, NextL1
<1> QED
  BY <1>1, <1>4, <1>9, <1>10 DEF StackInv
-----------------------------------------------------------------------------
LEMMA StackInvIsInductive == StackInv /\ [Next]_vars => StackInv'
<1> SUFFICES ASSUME StackInv, [Next]_vars PROVE StackInv'
  OBVIOUS
<1>1. CASE ProcessorRequests
  BY <1>1, ProcessorKeeps
<1>2. CASE \E to \in {"L1", "L2"} : Deliver(to)
  BY <1>2, DeliverKeeps
<1>3. CASE Tick
  BY <1>3, TickKeeps
<1>4. CASE DirectoryAnswers
  BY <1>4, AnswerKeeps
<1>5. CASE DirectoryRequests
  BY <1>5, RequestKeeps
<1>6. CASE UNCHANGED vars
  <2>1. /\ class' = class /\ l1' = l1 /\ l2' = l2 /\ queue' = queue /\ reads' = reads
        /\ P1!CacheInv(l1, P1!Sending, Tag) /\ P2!CacheInv(l2, P2!Sending, TagsOf(reads))
    BY <1>6 DEF vars, StackInv
  <2>2. P1!CacheInv(l1, P1!Sending, Tag)' /\ P2!CacheInv(l2, P2!Sending, TagsOf(reads))'
    BY <2>1, NextL1, NextL2
  <2> QED
    BY <2>1, <2>2 DEF StackInv
<1> QED
  BY <1>1, <1>2, <1>3, <1>4, <1>5, <1>6 DEF Next

LEMMA StackInvAlways == Spec => []StackInv
BY InitKeeps, StackInvIsInductive, PTL DEF Spec

LEMMA StackInvImplies ==
  StackInv => /\ TypeOK /\ LockedIffWaiting
              /\ evictionPolicy = "LRU" => FrameWaitersWillWake
<1> SUFFICES ASSUME StackInv
             PROVE  /\ TypeOK /\ LockedIffWaiting
                    /\ evictionPolicy = "LRU" => FrameWaitersWillWake
  OBVIOUS
<1>1. /\ P1!CacheAssumptions /\ P1!CacheInv(l1, P1!Sending, Tag)
      /\ P2!CacheAssumptions /\ P2!CacheInv(l2, P2!Sending, TagsOf(reads))
  BY ClassIsOK DEF StackInv
<1>2. /\ P1!CacheTypeOK(l1) /\ P1!LockedIffWaiting(l1)
      /\ evictionPolicy = "LRU" => P1!FrameWaitersWillWake(l1)
  BY <1>1, P1!CacheInvImplies
<1>3. /\ P2!CacheTypeOK(l2) /\ P2!LockedIffWaiting(l2)
      /\ evictionPolicy = "LRU" => P2!FrameWaitersWillWake(l2)
  BY <1>1, P2!CacheInvImplies
<1> QED
  BY <1>2, <1>3, SameProperties1, SameProperties2 DEF TypeOK, LockedIffWaiting, FrameWaitersWillWake

(* The tables of both levels stay of their types, and neither has more      *)
(* blocks than frames, whatever the two and the directory do.               *)
THEOREM TablesAreTyped == Spec => []TypeOK
BY StackInvAlways, StackInvImplies, PTL

(* In either level a block is locked exactly while requests wait for it,    *)
(* so no response finds a waiting request's block unlocked (222-231, 438).  *)
THEOREM LocksAreWaitedFor == Spec => []LockedIffWaiting
BY StackInvAlways, StackInvImplies, PTL

(* Under LRU, which takes any block that can be evicted, a request waits    *)
(* for a frame only while every frame has a request that UnlockBlock will   *)
(* serve (236-247).  Random may find no block though there is one (32-46).  *)
THEOREM FramesAreWaitedFor ==
  ASSUME evictionPolicy = "LRU"
  PROVE  Spec => []FrameWaitersWillWake
<1>1. StackInv => FrameWaitersWillWake
  BY StackInvImplies
<1> QED
  BY <1>1, StackInvAlways, PTL
-----------------------------------------------------------------------------
(* Service: what one level has asked of another is on its way, waits there  *)
(* or is answered.                                                          *)
InQueue(q, to, type, t) ==
  \E k \in DOMAIN q : q[k].to = to /\ q[k].msg.type = type /\ q[k].msg.tag = t

(* A read of L1 for t is on its way, waits in L2 or is answered ...         *)
ServedBy(q, c, t) ==
  InQueue(q, "L2", "Read", t) \/ P2!Attends(c, t) \/ InQueue(q, "L1", "ReadResponse", t)

(* ... and one of L2 is on its way to L1 or answered.                       *)
FetchedBy(q, t) == InQueue(q, "L1", "Read", t) \/ InQueue(q, "L2", "ReadResponse", t)

ServiceOf(c1, c2, q, F) ==
  /\ c1.topCache
  /\ \A t \in Tag : c1.waitingOnBlockUnlock[t] # <<>> => ServedBy(q, c2, t)
  /\ P2!ReadsOnly(c2) /\ c2.toLocal = <<>>
  /\ \A t \in Tag : c2.waitingOnRemoteReads[t] # <<>> => FetchedBy(q, t)
  /\ \A f \in F : f.tag \in Tag /\ (f.type = "Read" => c2.waitingOnRemoteReads[f.tag] # <<>>)

ServiceInv == ServiceOf(l1, l2, queue, fetches)

LEMMA NextService ==
  ASSUME ServiceOf(l1', l2', queue', fetches')
  PROVE  ServiceInv'
BY DEF ServiceInv, ServiceOf, ServedBy, FetchedBy, InQueue, P2!ReadsOnly, P2!Attends,
       P2!WaitsForFrame, P2!Said

(* What stays in the queue, and what is added to it.                        *)
LEMMA StaysInQueue ==
  ASSUME NEW s \in Seq(Event), NEW k \in DOMAIN s, NEW q, q = RemoveAt(s, k),
         NEW to, NEW type, NEW t, InQueue(s, to, type, t),
         ~(s[k].to = to /\ s[k].msg.type = type /\ s[k].msg.tag = t)
  PROVE  InQueue(q, to, type, t)
<1>1. q = P2!Without(s, k)
  BY DEF RemoveAt, P2!Without
<1>2. \A j \in DOMAIN s : j # k => \E i \in DOMAIN q : q[i] = s[j]
  BY <1>1, P2!Removed
<1>3. PICK j \in DOMAIN s : s[j].to = to /\ s[j].msg.type = type /\ s[j].msg.tag = t
  BY DEF InQueue
<1> QED
  BY <1>2, <1>3 DEF InQueue

LEMMA AddedToQueue ==
  ASSUME NEW q \in Seq(Event), NEW M, NEW out \in Seq([msg : M, delay : Nat]), NEW to,
         [to : {to}, msg : M, delay : Nat] \subseteq Event,
         NEW r, r = q \o Addressed(out, to)
  PROVE  /\ \A e, type, t : InQueue(q, e, type, t) => InQueue(r, e, type, t)
         /\ \A k \in DOMAIN out : InQueue(r, to, out[k].msg.type, out[k].msg.tag)
<1> DEFINE a == Addressed(out, to)
           T == [to : {to}, msg : M, delay : Nat]
<1>1. /\ a \in Seq(T) /\ DOMAIN a = DOMAIN out
      /\ \A k \in DOMAIN out : a[k].to = to /\ a[k].msg = out[k].msg
  <2>1. out \in Seq([msg : M, delay : Nat])
    OBVIOUS
  <2>2. a \in Seq(T)
    BY <2>1, AddressedTyped
  <2>3. DOMAIN a = DOMAIN out
    BY <2>1, AddressedTyped
  <2>4. \A k \in DOMAIN out : a[k].to = to /\ a[k].msg = out[k].msg
    BY DEF Addressed
  <2> QED
    BY <2>2, <2>3, <2>4
<1>2. r = q \o a /\ T \subseteq Event
  OBVIOUS
<1> HIDE DEF a, T
<1>3. a \in Seq(Event)
  BY <1>1, <1>2, P2!LargerSeq
<1>4. /\ r \in Seq(Event) /\ DOMAIN r = 1..(Len(q) + Len(a))
      /\ \A i \in 1..Len(q) : r[i] = q[i]
      /\ \A i \in 1..Len(a) : r[Len(q) + i] = a[i]
  BY <1>2, <1>3, P2!JoinedAt
<1>5. Len(q) \in Nat /\ DOMAIN q = 1..Len(q) /\ Len(a) \in Nat /\ DOMAIN a = 1..Len(a)
  BY <1>3, P2!Elements
<1>6. \A i \in DOMAIN q : i \in DOMAIN r /\ r[i] = q[i]
  BY <1>4, <1>5
<1>7. \A i \in DOMAIN a : Len(q) + i \in DOMAIN r /\ r[Len(q) + i] = a[i]
  BY <1>4, <1>5
<1>8. ASSUME NEW k \in DOMAIN out
      PROVE  InQueue(r, to, out[k].msg.type, out[k].msg.tag)
  <2> DEFINE i == Len(q) + k
  <2>1. i \in DOMAIN r /\ r[i].to = to /\ r[i].msg = out[k].msg
    BY <1>1, <1>7
  <2> HIDE DEF i
  <2> QED
    BY <2>1 DEF InQueue
<1> QED
  BY <1>6, <1>8 DEF InQueue

LEMMA OutboxOf1 ==
  ASSUME NEW c \in P1!CacheObject(P1!Sending)
  PROVE  /\ c.toRemote \in Seq([msg : P1!Sending, delay : Nat])
         /\ [to : {"L2"}, msg : P1!Sending, delay : Nat] \subseteq Event
<1> DEFINE A == [msg : P1!Sending, delay : P1!Delay]
           B == [msg : P1!Sending, delay : Nat]
<1>1. A \subseteq B
  BY DelaysAreNumbers
<1>2. c.toRemote \in Seq(A)
  BY DEF P1!CacheObject, P1!Outbox
<1> HIDE DEF A, B
<1>3. c.toRemote \in Seq(B)
  BY <1>1, <1>2, P2!LargerSeq
<1> QED
  BY <1>3 DEF B, Event

LEMMA OutboxOf2 ==
  ASSUME NEW c \in P2!CacheObject(P2!Sending)
  PROVE  /\ c.toLocal \in Seq([msg : P2!UpMsg, delay : Nat])
         /\ [to : {"L1"}, msg : P2!UpMsg, delay : Nat] \subseteq Event
<1> DEFINE A == [msg : P2!UpMsg, delay : P2!Delay]
           B == [msg : P2!UpMsg, delay : Nat]
<1>1. A \subseteq B
  BY DelaysAreNumbers
<1>2. c.toLocal \in Seq(A)
  BY DEF P2!CacheObject, P2!Outbox
<1> HIDE DEF A, B
<1>3. c.toLocal \in Seq(B)
  BY <1>1, <1>2, P2!LargerSeq
<1> QED
  BY <1>3 DEF B, Event

(* L1 is left as c, all whose reads are W's or in its outbox.               *)
LEMMA LeaveL1Serves ==
  ASSUME ServiceInv, NEW c, NEW q \in Seq(Event), LeaveL1(c, q), l2' = l2, fetches' = fetches,
         NEW W, P1!CacheInv(c, P1!Sending, W), c.topCache,
         \A t \in W : ServedBy(q, l2, t),
         \A t \in Tag : l2.waitingOnRemoteReads[t] # <<>> =>
           FetchedBy(q, t) \/ P1!Sent(c, "ReadResponse", t)
  PROVE  ServiceInv'
<1>1. c \in P1!CacheObject(P1!Sending) /\ P1!AskedFor(c, W)
  BY DEF P1!CacheInv, P1!BlocksInv
<1>2. l1' = Emptied(c) /\ queue' = q \o Addressed(c.toRemote, "L2")
  BY DEF LeaveL1
<1>3. l1'.topCache = c.topCache /\ l1'.waitingOnBlockUnlock = c.waitingOnBlockUnlock
  BY <1>1, <1>2 DEF Emptied, P1!CacheObject
<1>4. /\ \A e, type, t : InQueue(q, e, type, t) => InQueue(queue', e, type, t)
      /\ \A k \in DOMAIN c.toRemote : InQueue(queue', "L2", c.toRemote[k].msg.type, c.toRemote[k].msg.tag)
  <2> DEFINE M == P1!Sending
             out == c.toRemote
             to == "L2"
             after == queue'
  <2>1. /\ out \in Seq([msg : M, delay : Nat])
        /\ [to : {to}, msg : M, delay : Nat] \subseteq Event
        /\ after = q \o Addressed(out, to)
    BY <1>1, <1>2, OutboxOf1
  <2> HIDE DEF M, out, to, after
  <2>2. /\ \A e, type, t : InQueue(q, e, type, t) => InQueue(after, e, type, t)
        /\ \A k \in DOMAIN out : InQueue(after, to, out[k].msg.type, out[k].msg.tag)
    BY <2>1, AddedToQueue
  <2> QED
    BY <2>2 DEF out, to, after
<1>5. \A t \in Tag : l1'.waitingOnBlockUnlock[t] # <<>> => ServedBy(queue', l2', t)
  <2> SUFFICES ASSUME NEW t \in Tag, c.waitingOnBlockUnlock[t] # <<>>
               PROVE  ServedBy(queue', l2, t)
    BY <1>3
  <2>1. CASE t \in W
    BY <1>4, <2>1 DEF ServedBy
  <2>2. CASE t \notin W
    <3>1. PICK k \in DOMAIN c.toRemote : c.toRemote[k].msg.type = "Read" /\ c.toRemote[k].msg.tag = t
      BY <1>1, <2>2 DEF P1!AskedFor
    <3> QED
      BY <1>4, <3>1 DEF ServedBy
  <2> QED
    BY <2>1, <2>2
<1>6. \A t \in Tag : l2'.waitingOnRemoteReads[t] # <<>> => FetchedBy(queue', t)
  <2> SUFFICES ASSUME NEW t \in Tag, FetchedBy(q, t) \/ P1!Sent(c, "ReadResponse", t)
               PROVE  FetchedBy(queue', t)
    OBVIOUS
  <2>1. CASE FetchedBy(q, t)
    BY <1>4, <2>1 DEF FetchedBy
  <2>2. CASE P1!Sent(c, "ReadResponse", t)
    BY <1>4, <2>2 DEF FetchedBy, P1!Sent
  <2> QED
    BY <2>1, <2>2
<1>7. ServiceOf(l1', l2', queue', fetches')
  BY <1>3, <1>5, <1>6 DEF ServiceInv, ServiceOf
<1> QED
  BY <1>7, NextService

(* L2 is left as c, which attends to the tags of G, and where r are the     *)
(* reads of the directory that wait for L1.                                 *)
LEMMA LeaveL2Serves ==
  ASSUME ServiceInv, l1' = l1,
         NEW c, NEW q \in Seq(Event), NEW s, NEW g, NEW F, LeaveL2(c, q, s, g, F),
         NEW W, P2!CacheInv(c, P2!Sending, W), NEW G, NEW r, P2!ServeInv(c, G, r),
         \A t \in Tag : l1.waitingOnBlockUnlock[t] # <<>> =>
           InQueue(q, "L2", "Read", t) \/ t \in G \/ InQueue(q, "L1", "ReadResponse", t),
         \A t \in Tag : r[t] # <<>> => FetchedBy(q, t) \/ P2!Said(c, "Read", t),
         \A f \in F : /\ f.tag \in Tag
                      /\ f.type = "Read" => r[f.tag] # <<>> \/ P2!Sent(c, "ReadResponse", f.tag)
  PROVE  ServiceInv'
<1>1. c \in P2!CacheObject(P2!Sending)
  BY DEF P2!CacheInv, P2!BlocksInv
<1>2. l2' = Emptied(c) /\ queue' = q \o Addressed(c.toLocal, "L1")
  BY DEF LeaveL2
<1>3. /\ l2'.waitingOnBlockUnlock = c.waitingOnBlockUnlock
      /\ l2'.waitingOnSetUnlock = c.waitingOnSetUnlock
      /\ l2'.waitingOnRemoteReads = r
      /\ l2'.toLocal = <<>>
  BY <1>1, <1>2 DEF Emptied, P2!CacheObject, P2!ServeInv
<1>4. /\ \A e, type, t : InQueue(q, e, type, t) => InQueue(queue', e, type, t)
      /\ \A k \in DOMAIN c.toLocal : InQueue(queue', "L1", c.toLocal[k].msg.type, c.toLocal[k].msg.tag)
  <2> DEFINE M == P2!UpMsg
             out == c.toLocal
             to == "L1"
             after == queue'
  <2>1. /\ out \in Seq([msg : M, delay : Nat])
        /\ [to : {to}, msg : M, delay : Nat] \subseteq Event
        /\ after = q \o Addressed(out, to)
    BY <1>1, <1>2, OutboxOf2
  <2> HIDE DEF M, out, to, after
  <2>2. /\ \A e, type, t : InQueue(q, e, type, t) => InQueue(after, e, type, t)
        /\ \A k \in DOMAIN out : InQueue(after, to, out[k].msg.type, out[k].msg.tag)
    BY <2>1, AddedToQueue
  <2> QED
    BY <2>2 DEF out, to, after
<1>5. \A type, t : P2!Said(c, type, t) => InQueue(queue', "L1", type, t)
  BY <1>4 DEF P2!Said
<1>6. \A t \in Tag : l1'.waitingOnBlockUnlock[t] # <<>> => ServedBy(queue', l2', t)
  <2> SUFFICES ASSUME NEW t \in Tag, l1.waitingOnBlockUnlock[t] # <<>>
               PROVE  ServedBy(queue', l2', t)
    OBVIOUS
  <2>1. CASE t \in G
    <3>1. P2!Attends(c, t)
      BY <2>1 DEF P2!ServeInv
    <3>2. P2!Attends(l2', t) \/ P2!Said(c, "ReadResponse", t)
      BY <1>3, <3>1 DEF P2!Attends, P2!WaitsForFrame
    <3> QED
      BY <1>5, <3>2 DEF ServedBy
  <2>2. CASE t \notin G
    BY <1>4, <2>2 DEF ServedBy
  <2> QED
    BY <2>1, <2>2
<1>7. \A t \in Tag : l2'.waitingOnRemoteReads[t] # <<>> => FetchedBy(queue', t)
  BY <1>3, <1>4, <1>5 DEF FetchedBy
<1>8. P2!ReadsOnly(l2')
  BY <1>3 DEF P2!ServeInv, P2!ReadsOnly
<1>9. \A f \in fetches' : f.tag \in Tag /\ (f.type = "Read" => l2'.waitingOnRemoteReads[f.tag] # <<>>)
  <2> SUFFICES ASSUME NEW f \in fetches' PROVE f.tag \in Tag /\ (f.type = "Read" => r[f.tag] # <<>>)
    BY <1>3
  <2>1. /\ f \in F
        /\ f.type = "Read" => ~P2!Sent(c, "ReadResponse", f.tag)
    BY DEF LeaveL2, P2!Sent
  <2> QED
    BY <2>1
<1>10. ServiceOf(l1', l2', queue', fetches')
  BY <1>3, <1>6, <1>7, <1>8, <1>9 DEF ServiceInv, ServiceOf
<1> QED
  BY <1>10, NextService
-----------------------------------------------------------------------------
(* The tags whose reads L2 has, or has answered.                            *)
Served(q, c) == {t \in Tag : ServedBy(q, c, t)}

LEMMA AskedForServed ==
  ASSUME StackInv, ServiceInv
  PROVE  P1!CacheInv(l1, P1!Sending, Served(queue, l2))
BY DEF StackInv, ServiceInv, ServiceOf, Served, P1!CacheInv, P1!BlocksInv, P1!AskedFor

(* What L2 attends to.                                                      *)
Attended == {t \in Tag : P2!Attends(l2, t)}

LEMMA AttendedAreServed ==
  ASSUME ServiceInv
  PROVE  P2!ServeInv(l2, Attended, l2.waitingOnRemoteReads)
BY DEF ServiceInv, ServiceOf, Attended, P2!ServeInv

LEMMA InitServes == Init => ServiceInv
<1> SUFFICES ASSUME Init PROVE ServiceInv
  OBVIOUS
<1>1. l1 = P1!NewCache(TRUE) /\ l2 = P2!NewCache(FALSE) /\ fetches = {}
  BY SameNewCache1, SameNewCache2 DEF Init
<1>2. /\ l1.topCache
      /\ \A t \in Tag : l1.waitingOnBlockUnlock[t] = <<>>
  BY <1>1 DEF P1!NewCache
<1>3. /\ \A t \in Tag : l2.waitingOnBlockUnlock[t] = <<>> /\ l2.waitingOnRemoteReads[t] = <<>>
      /\ l2.waitingOnSetUnlock = <<>> /\ l2.toLocal = <<>>
  BY <1>1 DEF P2!NewCache
<1>4. <<>> \in Seq(P2!ReadMsg)
  OBVIOUS
<1> QED
  BY <1>1, <1>2, <1>3, <1>4 DEF ServiceInv, ServiceOf, P2!ReadsOnly

LEMMA UntouchedServes ==
  ASSUME ServiceInv, l1' = l1, l2' = l2, fetches' = fetches,
         \A to, type, t : InQueue(queue, to, type, t) => InQueue(queue', to, type, t)
  PROVE  ServiceInv'
<1>1. ServiceOf(l1', l2', queue', fetches')
  BY DEF ServiceInv, ServiceOf, ServedBy, FetchedBy
<1> QED
  BY <1>1, NextService

LEMMA TickServes ==
  ASSUME StackInv, ServiceInv, Tick
  PROVE  ServiceInv'
<1>1. /\ queue' = [k \in DOMAIN queue |-> [queue[k] EXCEPT !.delay = @ - 1]]
      /\ l1' = l1 /\ l2' = l2 /\ fetches' = fetches
  BY DEF Tick
<1>2. DOMAIN queue' = DOMAIN queue /\ \A k \in DOMAIN queue : queue'[k] = [queue[k] EXCEPT !.delay = @ - 1]
  BY <1>1
<1>3. \A k \in DOMAIN queue : queue'[k].to = queue[k].to /\ queue'[k].msg = queue[k].msg
  <2> TAKE k \in DOMAIN queue
  <2> DEFINE e == queue[k]
             n == e.delay - 1
  <2>1. e \in Event
    BY P2!Elements DEF StackInv
  <2>2. queue'[k] = [e EXCEPT !.delay = n]
    BY <1>2
  <2> HIDE DEF n
  <2>3. [e EXCEPT !.delay = n].to = e.to /\ [e EXCEPT !.delay = n].msg = e.msg
    BY <2>1 DEF Event
  <2> QED
    BY <2>2, <2>3
<1>4. \A to, type, t : InQueue(queue, to, type, t) => InQueue(queue', to, type, t)
  BY <1>2, <1>3 DEF InQueue
<1> QED
  BY <1>1, <1>4, UntouchedServes

LEMMA ProcessorServes ==
  ASSUME StackInv, ServiceInv, ProcessorRequests
  PROVE  ServiceInv'
<1> DEFINE W == Served(queue, l2)
<1>1. /\ P1!CacheAssumptions /\ P1!CacheInv(l1, P1!Sending, W) /\ queue \in Seq(Event)
      /\ P1!Asking \subseteq P1!Sending /\ l1.topCache
  BY ClassIsOK, AskedForServed DEF StackInv, P1!Sending, ServiceInv, ServiceOf
<1>2. PICK m \in P1!Request : \E c \in L1!OnLocalRequest(l1, m) : LeaveL1(c, queue)
  BY MessagesOfL1 DEF ProcessorRequests
<1>3. PICK c \in P1!OnLocalRequest(l1, m) : LeaveL1(c, queue)
  BY <1>2, SameLocalRequest1
<1>4. l2' = l2 /\ fetches' = fetches
  BY DEF ProcessorRequests
<1>5. /\ \A t \in W : ServedBy(queue, l2, t)
      /\ \A t \in Tag : l2.waitingOnRemoteReads[t] # <<>> => FetchedBy(queue, t)
  BY DEF Served, ServiceInv, ServiceOf
<1> HIDE DEF W
<1>6. P1!CacheInv(c, P1!Sending, W) /\ c.topCache
  BY <1>1, <1>2, <1>3, P1!LocalRequestKeeps
<1> QED
  BY <1>1, <1>3, <1>4, <1>5, <1>6, LeaveL1Serves

(* Taking m out of the queue takes at most one read or answer away.         *)
LEMMA DeliveredLeaves ==
  ASSUME queue \in Seq(Event), NEW k \in DOMAIN queue, NEW m, m = queue[k].msg,
         NEW q, q = RemoveAt(queue, k)
  PROVE  /\ q \in Seq(Event)
         /\ \A to, type, t : /\ InQueue(queue, to, type, t)
                             /\ ~(queue[k].to = to /\ m.type = type /\ m.tag = t)
                             => InQueue(q, to, type, t)
<1>1. q = P2!Without(queue, k)
  BY DEF RemoveAt, P2!Without
<1>2. q \in Seq(Event)
  BY <1>1, P2!Removed
<1> QED
  BY <1>2, StaysInQueue

LEMMA DeliverToL1Serves ==
  ASSUME StackInv, ServiceInv, Deliver("L1")
  PROVE  ServiceInv'
<1> DEFINE W == Served(queue, l2)
<1>1. /\ P1!CacheAssumptions /\ P1!CacheInv(l1, P1!Sending, W) /\ queue \in Seq(Event)
      /\ P1!Asking \subseteq P1!Sending /\ l1.topCache
  BY ClassIsOK, AskedForServed DEF StackInv, P1!Sending, ServiceInv, ServiceOf
<1>2. PICK k \in DOMAIN queue :
        /\ queue[k].to = "L1"
        /\ \E attached \in BOOLEAN : \E c \in L1!FromRemote(l1, queue[k].msg, attached) :
             LeaveL1(c, RemoveAt(queue, k))
        /\ UNCHANGED <<l2, fetches>>
  BY Zenon DEF Deliver
<1> DEFINE m == queue[k].msg
           q == RemoveAt(queue, k)
<1>3. PICK attached \in BOOLEAN : \E c \in L1!FromRemote(l1, m, attached) : LeaveL1(c, q)
  BY <1>2
<1>4. m \in P1!UpMsg /\ l2' = l2 /\ fetches' = fetches
  <2>1. queue[k] \in Event
    BY <1>1, P2!Elements
  <2> QED
    BY <1>2, <2>1, SameUpMsg DEF Event
<1>5. /\ q \in Seq(Event)
      /\ \A to, type, t : /\ InQueue(queue, to, type, t)
                          /\ ~(to = "L1" /\ m.type = type /\ m.tag = t)
                          => InQueue(q, to, type, t)
  BY <1>1, <1>2, DeliveredLeaves
<1>6. /\ \A t \in W : t \in Tag /\ ServedBy(queue, l2, t)
      /\ \A t \in Tag : l2.waitingOnRemoteReads[t] # <<>> => FetchedBy(queue, t)
  BY DEF Served, ServiceInv, ServiceOf
<1> HIDE DEF W, m, q
<1>7. \A t \in W : (m.type = "ReadResponse" /\ m.tag = t) \/ ServedBy(q, l2, t)
  BY <1>5, <1>6 DEF ServedBy
<1>8. \A t \in Tag : l2.waitingOnRemoteReads[t] # <<>> =>
        (m.type = "Read" /\ m.tag = t) \/ FetchedBy(q, t)
  BY <1>5, <1>6 DEF FetchedBy
<1>9. m.tag \in Tag
  BY <1>4, P1!TagsOfMessages
<1>10. L1!FromRemote(l1, m, attached) = P1!FromRemote(l1, m, attached)
  BY <1>1, <1>9, SameFromRemote1
<1>11. PICK c \in P1!FromRemote(l1, m, attached) : LeaveL1(c, q)
  BY <1>3, <1>10
<1>12. P1!CacheInv(c, P1!Sending, W) /\ c.topCache
  BY <1>1, <1>4, <1>11, P1!UpMsgKeeps
<1>13. CASE m.type = "ReadResponse"
  <2> DEFINE V == W \ {m.tag}
  <2>1. c \in P1!OnRemoteReadResponse(l1, m, attached)
    BY <1>11, <1>13 DEF P1!FromRemote
  <2>2. P1!CacheInv(c, P1!Sending, V)
    BY <1>1, <1>9, <2>1, P1!RemoteReadResponseKeeps
  <2>3. \A t \in V : ServedBy(q, l2, t)
    BY <1>7
  <2>4. \A t \in Tag : l2.waitingOnRemoteReads[t] # <<>> => FetchedBy(q, t)
    BY <1>8, <1>13
  <2> HIDE DEF V
  <2> QED
    BY <1>4, <1>5, <1>11, <1>12, <2>2, <2>3, <2>4, LeaveL1Serves
<1>14. CASE m.type # "ReadResponse"
  <2>1. m.type = "Read" => P1!Sent(c, "ReadResponse", m.tag)
    <3> SUFFICES ASSUME m.type = "Read" PROVE P1!Sent(c, "ReadResponse", m.tag)
      OBVIOUS
    <3>1. m \in P1!ReadMsg /\ c \in P1!OnRemoteRead(l1, m)
      BY <1>4, <1>11, P1!ReadsAreReads DEF P1!FromRemote
    <3>2. P1!Responds(l1, c, m)
      BY <1>1, <3>1, P1!RemoteReadKeeps
    <3>3. l1 \in P1!CacheObject(P1!Sending) /\ c \in P1!CacheObject(P1!Sending)
      BY <1>1, <1>12 DEF P1!CacheInv, P1!BlocksInv
    <3> QED
      BY <3>2, <3>3, P1!RespondsIsSent
  <2>2. \A t \in W : ServedBy(q, l2, t)
    BY <1>7, <1>14
  <2>3. \A t \in Tag : l2.waitingOnRemoteReads[t] # <<>> =>
          FetchedBy(q, t) \/ P1!Sent(c, "ReadResponse", t)
    BY <1>8, <2>1
  <2> QED
    BY <1>4, <1>5, <1>11, <1>12, <2>2, <2>3, LeaveL1Serves
<1> QED
  BY <1>13, <1>14

LEMMA DeliverToL2Serves ==
  ASSUME StackInv, ServiceInv, Deliver("L2")
  PROVE  ServiceInv'
<1> DEFINE W == TagsOf(reads)
           G == Attended
           r == l2.waitingOnRemoteReads
<1>1. /\ P2!CacheAssumptions /\ P2!CacheInv(l2, P2!Sending, W) /\ queue \in Seq(Event)
      /\ P2!ServeInv(l2, G, r)
  BY ClassIsOK, AttendedAreServed DEF StackInv
<1>2. PICK k \in DOMAIN queue :
        /\ queue[k].to = "L2"
        /\ \E c \in L2!FromLocal(l2, queue[k].msg) :
             LeaveL2(c, RemoveAt(queue, k), reads, granted, fetches)
        /\ l1' = l1
  BY Zenon DEF Deliver
<1> DEFINE m == queue[k].msg
           q == RemoveAt(queue, k)
<1>3. PICK c \in P2!FromLocal(l2, m) : LeaveL2(c, q, reads, granted, fetches)
  BY <1>2, SameFromLocal2
<1>4. m \in P2!Sending /\ l1' = l1
  <2>1. queue[k] \in Event
    BY <1>1, P2!Elements
  <2> QED
    BY <1>2, <2>1, SameMessages DEF Event
<1>5. /\ q \in Seq(Event)
      /\ \A to, type, t : /\ InQueue(queue, to, type, t)
                          /\ ~(to = "L2" /\ m.type = type /\ m.tag = t)
                          => InQueue(q, to, type, t)
  BY <1>1, <1>2, DeliveredLeaves
<1>6. /\ \A t \in Tag : l1.waitingOnBlockUnlock[t] # <<>> =>
           InQueue(queue, "L2", "Read", t) \/ t \in G \/ InQueue(queue, "L1", "ReadResponse", t)
      /\ \A t \in Tag : r[t] # <<>> => FetchedBy(queue, t)
      /\ \A f \in fetches : f.tag \in Tag /\ (f.type = "Read" => r[f.tag] # <<>>)
  BY DEF ServiceInv, ServiceOf, ServedBy, Attended
<1>7. m.tag \in Tag
  BY <1>4, P2!TagsOfMessages
<1> HIDE DEF W, G, r, m, q
<1>8. P2!CacheInv(c, P2!Sending, W)
  BY <1>1, <1>3, <1>4, P2!FromLocalKeeps
<1> DEFINE H == IF m.type = "Read" THEN G \cup {m.tag} ELSE G
<1>9. PICK s : /\ P2!ServeInv(c, H, s)
               /\ m.type # "ReadResponse" => s = r
               /\ m.type = "ReadResponse" =>
                    /\ P2!WaitsNoMore(r, s, m.tag)
                    /\ r[m.tag] # <<>> => P2!Sent(c, "ReadResponse", m.tag)
  <2>1. P2!Sending \subseteq P2!Sending
    OBVIOUS
  <2> QED
    BY <1>1, <1>3, <1>4, <2>1, P2!FromLocalServes
<1>10. \A t \in Tag : l1.waitingOnBlockUnlock[t] # <<>> =>
         InQueue(q, "L2", "Read", t) \/ t \in H \/ InQueue(q, "L1", "ReadResponse", t)
  BY <1>5, <1>6
<1> HIDE DEF H
<1>11. \A t \in Tag : m.type # "ReadResponse" \/ m.tag # t => s[t] = r[t]
  BY <1>9 DEF P2!WaitsNoMore
<1>12. m.type = "ReadResponse" => s[m.tag] = <<>>
  BY <1>9 DEF P2!WaitsNoMore
<1>13. \A t \in Tag : s[t] # <<>> => FetchedBy(q, t) \/ P2!Said(c, "Read", t)
  BY <1>5, <1>6, <1>11, <1>12 DEF FetchedBy
<1>14. \A f \in fetches : /\ f.tag \in Tag
                          /\ f.type = "Read" => s[f.tag] # <<>> \/ P2!Sent(c, "ReadResponse", f.tag)
  BY <1>6, <1>9, <1>11
<1> QED
  BY <1>3, <1>4, <1>5, <1>8, <1>9, <1>10, <1>13, <1>14, LeaveL2Serves

(* What holds of L2 and the queue when the directory acts.                  *)
LEMMA ServedAsItIs ==
  ASSUME ServiceInv, NEW G, G = Attended, NEW r, r = l2.waitingOnRemoteReads
  PROVE  /\ P2!ServeInv(l2, G, r)
         /\ \A t \in Tag : l1.waitingOnBlockUnlock[t] # <<>> =>
              InQueue(queue, "L2", "Read", t) \/ t \in G \/ InQueue(queue, "L1", "ReadResponse", t)
         /\ \A t \in Tag : r[t] # <<>> => FetchedBy(queue, t)
         /\ \A f \in fetches : f.tag \in Tag /\ (f.type = "Read" => r[f.tag] # <<>>)
BY AttendedAreServed DEF ServiceInv, ServiceOf, ServedBy, Attended

LEMMA AnswerServes ==
  ASSUME StackInv, ServiceInv, DirectoryAnswers
  PROVE  ServiceInv'
<1>1. /\ P2!CacheAssumptions /\ queue \in Seq(Event) /\ reads \in Seq(ReadOut)
      /\ P2!CacheInv(l2, P2!Sending, TagsOf(reads))
  BY ClassIsOK DEF StackInv
<1>2. PICK k \in DOMAIN reads :
        \E x \in BOOLEAN :
          \E c \in L2!FromRemote(l2, L2!ReadResponse(reads[k].msg, TRUE, x), TRUE) :
            \E g : LeaveL2(c, queue, RemoveAt(reads, k), g, fetches)
  BY Zenon DEF DirectoryAnswers
<1>3. PICK x \in BOOLEAN :
          \E c \in L2!FromRemote(l2, L2!ReadResponse(reads[k].msg, TRUE, x), TRUE) :
            \E g : LeaveL2(c, queue, RemoveAt(reads, k), g, fetches)
  BY <1>2
<1> DEFINE m == L2!ReadResponse(reads[k].msg, TRUE, x)
           s == RemoveAt(reads, k)
           W == TagsOf(reads)
           V == W \ {m.tag}
           a == TRUE
           G == Attended
           r == l2.waitingOnRemoteReads
<1>4. PICK c \in L2!FromRemote(l2, m, a) : \E g : LeaveL2(c, queue, s, g, fetches)
  BY <1>3
<1>5. PICK g : LeaveL2(c, queue, s, g, fetches)
  BY <1>4
<1>6. m.tag \in Tag /\ m.type = "ReadResponse"
  <2>1. reads[k] \in ReadOut
    BY <1>1, P2!Elements
  <2>2. reads[k].msg.tag \in Tag
    BY <2>1 DEF ReadOut, P2!ReadMsg
  <2> QED
    BY <2>2 DEF L2!ReadResponse
<1>7. l1' = l1
  BY DEF DirectoryAnswers
<1>8. P2!Asking \subseteq P2!Sending /\ a \in BOOLEAN /\ P2!CacheInv(l2, P2!Sending, W)
  BY <1>1 DEF P2!Sending
<1>9. G = Attended /\ r = l2.waitingOnRemoteReads /\ V = W \ {m.tag}
  OBVIOUS
<1> HIDE DEF m, s, W, V, a, G, r
<1>10. c \in P2!OnRemoteReadResponse(l2, m, a)
  <2>1. L2!FromRemote(l2, m, a) = P2!FromRemote(l2, m, a)
    BY <1>1, <1>6, <1>8, SameFromRemote2
  <2> QED
    BY <1>4, <1>6, <2>1 DEF P2!FromRemote
<1>11. P2!CacheInv(c, P2!Sending, V)
  BY <1>1, <1>6, <1>8, <1>9, <1>10, P2!RemoteReadResponseKeeps
<1>12. /\ P2!ServeInv(l2, G, r)
       /\ \A t \in Tag : l1.waitingOnBlockUnlock[t] # <<>> =>
            InQueue(queue, "L2", "Read", t) \/ t \in G \/ InQueue(queue, "L1", "ReadResponse", t)
       /\ \A t \in Tag : r[t] # <<>> => FetchedBy(queue, t)
       /\ \A f \in fetches : f.tag \in Tag /\ (f.type = "Read" => r[f.tag] # <<>>)
  BY <1>9, ServedAsItIs
<1>13. P2!ServeInv(c, G, r)
  BY <1>1, <1>6, <1>8, <1>10, <1>12, P2!RemoteReadResponseServes
<1>14. /\ \A t \in Tag : r[t] # <<>> => FetchedBy(queue, t) \/ P2!Said(c, "Read", t)
       /\ \A f \in fetches : /\ f.tag \in Tag
                             /\ f.type = "Read" => r[f.tag] # <<>> \/ P2!Sent(c, "ReadResponse", f.tag)
  BY <1>12
<1> QED
  BY <1>1, <1>5, <1>7, <1>11, <1>12, <1>13, <1>14, LeaveL2Serves

LEMMA RequestServes ==
  ASSUME StackInv, ServiceInv, DirectoryRequests
  PROVE  ServiceInv'
<1>1. /\ P2!CacheAssumptions /\ queue \in Seq(Event)
      /\ P2!CacheInv(l2, P2!Sending, TagsOf(reads))
  BY ClassIsOK DEF StackInv
<1> DEFINE W == TagsOf(reads)
           a == TRUE
           G == Attended
           r == l2.waitingOnRemoteReads
<1>2. PICK m \in P2!UpMsg :
        \E c \in L2!FromRemote(l2, m, a) : LeaveL2(c, queue, reads, granted, fetches \cup {m})
  BY MessagesOfDirectory DEF DirectoryRequests
<1> DEFINE F == fetches \cup {m}
<1>3. PICK c \in L2!FromRemote(l2, m, a) : LeaveL2(c, queue, reads, granted, F)
  BY <1>2
<1>4. l1' = l1
  BY DEF DirectoryRequests
<1>5. P2!Asking \subseteq P2!Sending /\ a \in BOOLEAN /\ P2!CacheInv(l2, P2!Sending, W)
      /\ P2!Sending \subseteq P2!Sending
  BY <1>1 DEF P2!Sending
<1>6. G = Attended /\ r = l2.waitingOnRemoteReads
  OBVIOUS
<1> HIDE DEF W, a, G, r
<1>7. m.tag \in Tag
  BY P2!TagsOfMessages
<1>8. c \in P2!FromRemote(l2, m, a)
  BY <1>1, <1>3, <1>5, <1>7, SameFromRemote2
<1>9. P2!CacheInv(c, P2!Sending, W)
  BY <1>1, <1>5, <1>8, P2!UpMsgKeeps
<1>10. /\ P2!ServeInv(l2, G, r)
       /\ \A t \in Tag : l1.waitingOnBlockUnlock[t] # <<>> =>
            InQueue(queue, "L2", "Read", t) \/ t \in G \/ InQueue(queue, "L1", "ReadResponse", t)
       /\ \A t \in Tag : r[t] # <<>> => FetchedBy(queue, t)
       /\ \A f \in fetches : f.tag \in Tag /\ (f.type = "Read" => r[f.tag] # <<>>)
  BY <1>6, ServedAsItIs
<1> DEFINE LeftWith(s) ==
             /\ P2!ServeInv(c, G, s)
             /\ \A t \in Tag : s[t] = r[t] \/ (t = m.tag /\ P2!Said(c, "Read", t) /\ s[t] # <<>>)
             /\ m.type = "Read" => s[m.tag] # <<>> \/ P2!Sent(c, "ReadResponse", m.tag)
<1>11. PICK s : LeftWith(s)
  <2>1. \/ P2!ServeInv(c, G, r) /\ (m.type = "Read" => P2!Sent(c, "ReadResponse", m.tag))
        \/ \E s : /\ P2!ServeInv(c, G, s) /\ m.type = "Read"
                  /\ P2!WaitsToo(r, s, m.tag) /\ P2!Said(c, "Read", m.tag)
    BY <1>1, <1>5, <1>8, <1>10, P2!FromRemoteServes
  <2>2. CASE P2!ServeInv(c, G, r) /\ (m.type = "Read" => P2!Sent(c, "ReadResponse", m.tag))
    <3>1. LeftWith(r)
      BY <2>2
    <3> QED
      BY <3>1
  <2>3. CASE \E s : /\ P2!ServeInv(c, G, s) /\ m.type = "Read"
                    /\ P2!WaitsToo(r, s, m.tag) /\ P2!Said(c, "Read", m.tag)
    <3>1. PICK s : /\ P2!ServeInv(c, G, s)
                   /\ P2!WaitsToo(r, s, m.tag) /\ P2!Said(c, "Read", m.tag)
      BY <2>3
    <3>2. s[m.tag] # <<>> /\ \A t \in Tag : s[t] = r[t] \/ t = m.tag
      BY <3>1 DEF P2!WaitsToo
    <3>3. LeftWith(s)
      BY <3>1, <3>2
    <3> QED
      BY <3>3
  <2> HIDE DEF LeftWith
  <2> QED
    BY <2>1, <2>2, <2>3
<1>12. \A t \in Tag : s[t] # <<>> => FetchedBy(queue, t) \/ P2!Said(c, "Read", t)
  BY <1>10, <1>11
<1>13. \A f \in F : /\ f.tag \in Tag
                    /\ f.type = "Read" => s[f.tag] # <<>> \/ P2!Sent(c, "ReadResponse", f.tag)
  BY <1>7, <1>10, <1>11
<1> HIDE DEF F
<1> QED
  BY <1>1, <1>3, <1>4, <1>9, <1>10, <1>11, <1>12, <1>13, LeaveL2Serves

LEMMA ServiceIsInductive == StackInv /\ ServiceInv /\ [Next]_vars => ServiceInv'
<1> SUFFICES ASSUME StackInv, ServiceInv, [Next]_vars PROVE ServiceInv'
  OBVIOUS
<1>1. CASE ProcessorRequests
  BY <1>1, ProcessorServes
<1>2. CASE \E to \in {"L1", "L2"} : Deliver(to)
  BY <1>2, DeliverToL1Serves, DeliverToL2Serves
<1>3. CASE Tick
  BY <1>3, TickServes
<1>4. CASE DirectoryAnswers
  BY <1>4, AnswerServes
<1>5. CASE DirectoryRequests
  BY <1>5, RequestServes
<1>6. CASE UNCHANGED vars
  BY <1>6, UntouchedServes DEF vars
<1> QED
  BY <1>1, <1>2, <1>3, <1>4, <1>5, <1>6 DEF Next

LEMMA ServiceInvImplies ==
  ASSUME StackInv, ServiceInv
  PROVE  WaitersAreServed /\ FetchesAreServed
<1>1. \A to, type, t : InQueue(queue, to, type, t) <=> Scheduled(to, type, t)
  BY DEF InQueue, Scheduled
<1>2. P2!Sorted(l2) /\ l2 \in P2!CacheObject(P2!Sending) /\ P2!AskedFor(l2, TagsOf(reads))
  BY DEF StackInv, P2!CacheInv, P2!BlocksInv
<1>3. \A t \in Tag : l2.waitingOnBlockUnlock[t] # <<>> => Waits(l2.waitingOnBlockUnlock[t], t)
  <2> TAKE t \in Tag
  <2> DEFINE w == l2.waitingOnBlockUnlock[t]
  <2>1. /\ w \in Seq(P2!Request)
        /\ \A k \in DOMAIN w : w[k].tag = t
    BY <1>2 DEF P2!Sorted, P2!CacheObject
  <2> HIDE DEF w
  <2>2. w # <<>> => 1 \in DOMAIN w
    BY <2>1
  <2> QED
    BY <2>1, <2>2 DEF Waits, w
<1>4. \A t : P2!WaitsForFrame(l2, t) <=> Waits(l2.waitingOnSetUnlock, t)
  BY DEF P2!WaitsForFrame, Waits
<1>5. \A t \in Tag : ~P2!Said(l2, "ReadResponse", t)
  BY DEF ServiceInv, ServiceOf, P2!Said
<1>6. \A t \in Tag : l1.waitingOnBlockUnlock[t] # <<>> =>
        \/ Scheduled("L2", "Read", t)
        \/ Waits(l2.waitingOnBlockUnlock[t], t) \/ Waits(l2.waitingOnSetUnlock, t)
        \/ Scheduled("L1", "ReadResponse", t)
  BY <1>1, <1>3, <1>4, <1>5 DEF ServiceInv, ServiceOf, ServedBy, P2!Attends
<1>7. \A t \in Tag : l2.waitingOnBlockUnlock[t] # <<>> => \E k \in DOMAIN reads : reads[k].msg.tag = t
  BY <1>2 DEF P2!AskedFor, StackInv, TagsOf
<1>8. FetchesAreServed
  BY <1>1 DEF ServiceInv, ServiceOf, FetchedBy, FetchesAreServed
<1> QED
  BY <1>6, <1>7, <1>8 DEF WaitersAreServed

(* While requests wait for a block in L1, its read is on its way to L2,     *)
(* waits there for the block or for a frame, or its answer is on its way    *)
(* back; while requests wait in L2 the directory has a read of it: whatever *)
(* is evicted and invalidated meanwhile, no Miss is forgotten (OnLocalRead, *)
(* UnlockBlock and RespondInvalidate, 212-329, 389).                        *)
THEOREM WaitersServed == Spec => []WaitersAreServed
BY InitKeeps, StackInvIsInductive, InitServes, ServiceIsInductive, ServiceInvImplies, PTL DEF Spec

(* A read of the directory that L2 passed on to L1 has a message on its way *)
(* there or back until L2 answers it: OnRemoteRead and OnLocalReadResponse  *)
(* lose none, though L1 drops the block meanwhile.                          *)
THEOREM FetchesServed == Spec => []FetchesAreServed
BY InitKeeps, StackInvIsInductive, InitServes, ServiceIsInductive, ServiceInvImplies, PTL DEF Spec
-----------------------------------------------------------------------------
(* Ownership: what L2 has for its own was granted exclusively.              *)
Granted(g) == {t \in Tag : g[t] = "exclusive"}

KeepsToGrants == class.AfterMerge["Shared"] # "Modified" /\ ~class.EvictsSurplus

OwnershipInv ==
  /\ DOMAIN granted = Tag
  /\ KeepsToGrants => P2!OwnInv(l2, Granted(granted))

LEMMA ClassKeepsOwnership ==
  ASSUME class \in Classes, KeepsToGrants
  PROVE  P2!OwnershipOK
BY OwnershipAssumption DEF KeepsToGrants, P2!OwnershipOK, P2!Valid, P2!Writable

(* Take leaves the grants x that no message gives up.                       *)
StillGranted(x, k, g) == DOMAIN g = Tag /\ \A t \in x : g[t] = "exclusive"

Fg == INSTANCE FoldLemmas WITH Op <- Take, Other <- Take, Good <- StillGranted

GrantsAfter(g, out) == FoldLeft(Take, g, out)

LEMMA WhatRemains ==
  ASSUME NEW m, ~P2!GivesUp(m)
  PROVE  Remains("exclusive", m) = "exclusive"
BY DEF Remains, P2!GivesUp

LEMMA TakeLeaves ==
  ASSUME NEW g, NEW e, NEW x, x \subseteq Tag, StillGranted(x, 0, g),
         \A t \in x : e.msg.tag = t => ~P2!GivesUp(e.msg)
  PROVE  StillGranted(x, 0, Take(g, e))
<1> DEFINE m == e.msg
           h == Take(g, e)
<1>1. h = [t \in Tag |-> IF t = m.tag THEN Remains(g[t], m) ELSE g[t]]
  BY DEF Take, StillGranted
<1>2. ~P2!GivesUp(m) => Remains("exclusive", m) = "exclusive"
  BY WhatRemains
<1> HIDE DEF h, m
<1>3. \A t \in x : h[t] = "exclusive"
  BY <1>1, <1>2 DEF StillGranted, m
<1>4. DOMAIN h = Tag
  BY <1>1
<1> QED
  BY <1>3, <1>4 DEF StillGranted, h

LEMMA GrantsAreLeft ==
  ASSUME NEW g, DOMAIN g = Tag, NEW S, NEW out \in Seq(S), NEW r, r = GrantsAfter(g, out)
  PROVE  /\ DOMAIN r = Tag
         /\ \A t \in Tag : /\ g[t] = "exclusive"
                           /\ \A k \in DOMAIN out : out[k].msg.tag = t => ~P2!GivesUp(out[k].msg)
                           => r[t] = "exclusive"
<1> DEFINE n == Len(out)
           x == {t \in Tag : /\ g[t] = "exclusive"
                             /\ \A k \in DOMAIN out : out[k].msg.tag = t => ~P2!GivesUp(out[k].msg)}
<1>1. n \in Nat /\ DOMAIN out = 1..n
  OBVIOUS
<1>2. r = Fg!Folded(g, out)
  BY DEF GrantsAfter, Fg!Folded, Fg!FoldLeft, FoldLeft, Fg!MapThenFoldSet, MapThenFoldSet, Fg!Max, Max
<1>3. StillGranted(x, 0, g)
  BY DEF StillGranted
<1>4. \A a : \A k \in 1..n : StillGranted(x, k-1, a) => StillGranted(x, k, Take(a, out[k]))
  <2> SUFFICES ASSUME NEW a, NEW k \in 1..n, StillGranted(x, k-1, a)
               PROVE  StillGranted(x, k, Take(a, out[k]))
    OBVIOUS
  <2>1. x \subseteq Tag /\ \A t \in x : out[k].msg.tag = t => ~P2!GivesUp(out[k].msg)
    BY <1>1
  <2> DEFINE e == out[k]
  <2>2. x \subseteq Tag /\ \A t \in x : e.msg.tag = t => ~P2!GivesUp(e.msg)
    BY <2>1
  <2> HIDE DEF x, e
  <2>3. StillGranted(x, 0, a)
    BY DEF StillGranted
  <2>4. StillGranted(x, 0, Take(a, e))
    BY <2>2, <2>3, TakeLeaves
  <2> QED
    BY <2>4 DEF StillGranted, e
<1> HIDE DEF x, n
<1>5. StillGranted(x, n, r)
  BY <1>1, <1>2, <1>3, <1>4, Fg!FoldKeeps
<1> QED
  BY <1>5 DEF StillGranted, x

LEMMA NextOwnership ==
  ASSUME class' = class, DOMAIN granted' = Tag,
         KeepsToGrants => P2!OwnInv(l2', Granted(granted'))
  PROVE  OwnershipInv'
BY DEF OwnershipInv, KeepsToGrants, Granted, P2!OwnInv, P2!EvictedIsGone, P2!Owns, P2!IsOwned,
       P2!Writable, P2!GivenUp, P2!GivesUp

(* L2 is left as c with the grants g, and what it sends takes of them.      *)
LEMMA LeaveL2Owns ==
  ASSUME NEW c, NEW q, NEW s, NEW g, DOMAIN g = Tag, NEW f, NEW W,
         class' = class, LeaveL2(c, q, s, g, f), P2!CacheInv(c, P2!Sending, W),
         KeepsToGrants => P2!OwnInv(c, Granted(g))
  PROVE  OwnershipInv'
<1> DEFINE S == [msg : P2!Sending, delay : P2!Delay]
<1>1. c \in P2!CacheObject(P2!Sending)
  BY DEF P2!CacheInv, P2!BlocksInv
<1>2. c.toRemote \in Seq(S)
  BY <1>1 DEF P2!CacheObject, P2!Outbox
<1> HIDE DEF S
<1>3. l2' = P2!WithoutMessages(c) /\ granted' = GrantsAfter(g, c.toRemote)
  BY DEF LeaveL2, Emptied, P2!WithoutMessages, GrantsAfter
<1>4. /\ DOMAIN granted' = Tag
      /\ \A t \in Tag : /\ g[t] = "exclusive"
                        /\ \A k \in DOMAIN c.toRemote : c.toRemote[k].msg.tag = t => ~P2!GivesUp(c.toRemote[k].msg)
                        => granted'[t] = "exclusive"
  BY <1>2, <1>3, GrantsAreLeft
<1>5. ASSUME KeepsToGrants
      PROVE  P2!OwnInv(l2', Granted(granted'))
  <2> DEFINE G == Granted(g)
             H == Granted(granted')
  <2>1. \A t \in Tag : t \in G /\ ~P2!GivenUp(c, t) => t \in H
    BY <1>4 DEF Granted, P2!GivenUp
  <2>2. P2!OwnInv(c, G)
    BY <1>5
  <2> HIDE DEF G, H
  <2>3. P2!OwnInv(l2', H)
    BY <1>1, <1>3, <2>1, <2>2, P2!EmptiedOwns
  <2> QED
    BY <2>3 DEF H
<1> QED
  BY <1>4, <1>5, NextOwnership
-----------------------------------------------------------------------------
LEMMA InitOwns == Init => OwnershipInv
<1> SUFFICES ASSUME Init PROVE OwnershipInv
  OBVIOUS
<1> DEFINE G == Granted(granted)
           top == FALSE
<1>1. l2 = P2!NewCache(top) /\ DOMAIN granted = Tag
  BY SameNewCache2 DEF Init
<1> HIDE DEF G, top
<1>2. P2!OwnInv(l2, G)
  BY <1>1, P2!NewCacheOwns
<1> QED
  BY <1>1, <1>2 DEF OwnershipInv, G

LEMMA UntouchedOwns ==
  ASSUME OwnershipInv, class' = class, l2' = l2, granted' = granted
  PROVE  OwnershipInv'
<1>1. DOMAIN granted' = Tag /\ (KeepsToGrants => P2!OwnInv(l2', Granted(granted')))
  BY DEF OwnershipInv, Granted
<1> QED
  BY <1>1, NextOwnership

LEMMA DeliverOwns ==
  ASSUME StackInv, OwnershipInv, NEW to \in {"L1", "L2"}, Deliver(to)
  PROVE  OwnershipInv'
<1>1. /\ P2!CacheAssumptions /\ P2!CacheInv(l2, P2!Sending, TagsOf(reads))
      /\ class \in Classes /\ queue \in Seq(Event)
  BY ClassIsOK DEF StackInv
<1>2. PICK k \in DOMAIN queue :
        /\ queue[k].to = to
        /\ \/ to = "L1" /\ UNCHANGED <<l2, reads, granted, fetches>>
           \/ /\ to = "L2"
              /\ \E c \in L2!FromLocal(l2, queue[k].msg) :
                   LeaveL2(c, RemoveAt(queue, k), reads, granted, fetches)
        /\ class' = class
  BY Zenon DEF Deliver
<1>3. CASE to = "L1"
  BY <1>2, <1>3, UntouchedOwns
<1>4. CASE to = "L2"
  <2> DEFINE m == queue[k].msg
             q == RemoveAt(queue, k)
             W == TagsOf(reads)
             G == Granted(granted)
  <2>1. PICK c \in L2!FromLocal(l2, m) : LeaveL2(c, q, reads, granted, fetches)
    BY <1>2, <1>4
  <2>2. queue[k] \in Event
    BY <1>1, P2!Elements
  <2>3. m \in P2!Request \cup P2!Sending
    BY <1>2, <1>4, <2>2, SameMessages DEF Event
  <2> HIDE DEF m, q
  <2>4. c \in P2!FromLocal(l2, m) /\ P2!CacheInv(l2, P2!Sending, W)
    BY <1>1, <2>1, SameFromLocal2
  <2> HIDE DEF W
  <2>5. P2!CacheInv(c, P2!Sending, W)
    BY <1>1, <2>3, <2>4, P2!FromLocalKeeps
  <2>6. ASSUME KeepsToGrants
        PROVE  P2!OwnInv(c, Granted(granted))
    <3>1. P2!OwnInv(l2, G) /\ P2!OwnershipOK
      BY <1>1, <2>6, ClassKeepsOwnership DEF OwnershipInv
    <3> HIDE DEF G
    <3>2. P2!OwnInv(c, G)
      BY <1>1, <2>3, <2>4, <3>1, P2!FromLocalOwns
    <3> QED
      BY <3>2 DEF G
  <2>7. DOMAIN granted = Tag /\ class' = class
    BY <1>2 DEF OwnershipInv
  <2> QED
    BY <2>1, <2>5, <2>6, <2>7, LeaveL2Owns
<1> QED
  BY <1>3, <1>4

LEMMA AnswerOwns ==
  ASSUME StackInv, OwnershipInv, DirectoryAnswers
  PROVE  OwnershipInv'
<1>1. /\ P2!CacheAssumptions /\ P2!CacheInv(l2, P2!Sending, TagsOf(reads))
      /\ class \in Classes /\ reads \in Seq(ReadOut) /\ l2.toRemote = <<>>
      /\ DOMAIN granted = Tag
  BY ClassIsOK DEF StackInv, OwnershipInv
<1> DEFINE Grants(t, x) == [granted EXCEPT ![t] = IF x \/ @ = "exclusive" THEN "exclusive" ELSE "shared"]
<1>2. PICK k \in DOMAIN reads :
        \E x \in BOOLEAN :
          \E c \in L2!FromRemote(l2, L2!ReadResponse(reads[k].msg, TRUE, x), TRUE) :
            LeaveL2(c, queue, RemoveAt(reads, k), Grants(reads[k].msg.tag, x), fetches)
  BY Zenon DEF DirectoryAnswers
<1>3. PICK x \in BOOLEAN :
          \E c \in L2!FromRemote(l2, L2!ReadResponse(reads[k].msg, TRUE, x), TRUE) :
            LeaveL2(c, queue, RemoveAt(reads, k), Grants(reads[k].msg.tag, x), fetches)
  BY <1>2
<1> DEFINE r == reads[k].msg
           m == L2!ReadResponse(r, TRUE, x)
           s == RemoveAt(reads, k)
           g == Grants(r.tag, x)
           W == TagsOf(reads)
           a == TRUE
           G == Granted(g)
<1>4. PICK c \in L2!FromRemote(l2, m, a) : LeaveL2(c, queue, s, g, fetches)
  BY <1>3
<1>5. r.tag \in Tag
  <2>1. reads[k] \in ReadOut
    BY <1>1, P2!Elements
  <2> QED
    BY <2>1 DEF ReadOut, P2!ReadMsg
<1>6. m.tag = r.tag /\ m.type = "ReadResponse" /\ m.exclusive = x
  BY DEF L2!ReadResponse
<1>7. class' = class
  BY DEF DirectoryAnswers
<1>8. /\ DOMAIN g = Tag /\ Granted(granted) \subseteq G
      /\ x => r.tag \in G
  BY <1>1, <1>5 DEF Granted
<1>9. P2!Asking \subseteq P2!Sending /\ a \in BOOLEAN /\ P2!CacheInv(l2, P2!Sending, W)
  BY <1>1 DEF P2!Sending
<1> HIDE DEF r, m, s, W, a, g, G
<1>10. L2!FromRemote(l2, m, a) = P2!FromRemote(l2, m, a)
  BY <1>1, <1>5, <1>6, <1>9, SameFromRemote2
<1>11. c \in P2!OnRemoteReadResponse(l2, m, a)
  BY <1>4, <1>6, <1>10 DEF P2!FromRemote
<1>12. P2!CacheInv(c, P2!Sending, W \ {m.tag})
  BY <1>1, <1>5, <1>6, <1>9, <1>11, P2!RemoteReadResponseKeeps
<1>13. ASSUME KeepsToGrants
       PROVE  P2!OwnInv(c, Granted(g))
  <2>1. P2!OwnInv(l2, G) /\ P2!OwnershipOK
    BY <1>1, <1>8, <1>13, ClassKeepsOwnership DEF OwnershipInv, P2!OwnInv
  <2>2. ~P2!GivenUp(l2, m.tag)
    BY <1>1 DEF P2!GivenUp
  <2>3. m.tag \in Tag /\ (m.exclusive => m.tag \in G)
    BY <1>5, <1>6, <1>8
  <2>4. P2!OwnInv(c, G)
    BY <1>1, <1>9, <1>11, <2>1, <2>2, <2>3, P2!RemoteReadResponseOwns
  <2> QED
    BY <2>4 DEF G
<1> QED
  BY <1>4, <1>7, <1>8, <1>12, <1>13, LeaveL2Owns

LEMMA RequestOwns ==
  ASSUME StackInv, OwnershipInv, DirectoryRequests
  PROVE  OwnershipInv'
<1>1. /\ P2!CacheAssumptions /\ P2!CacheInv(l2, P2!Sending, TagsOf(reads))
      /\ class \in Classes /\ DOMAIN granted = Tag
  BY ClassIsOK DEF StackInv, OwnershipInv
<1> DEFINE W == TagsOf(reads)
           a == TRUE
           G == Granted(granted)
<1>2. PICK m \in P2!UpMsg :
        /\ m.type # "ReadResponse"
        /\ \E c \in L2!FromRemote(l2, m, a) : LeaveL2(c, queue, reads, granted, fetches \cup {m})
  <2>1. PICK t \in Tag : \E m \in {L2!Read(t, FALSE, NoID), L2!Read(t, TRUE, NoID), L2!Invalidate(t)} :
          \E c \in L2!FromRemote(l2, m, a) : LeaveL2(c, queue, reads, granted, fetches \cup {m})
    BY DEF DirectoryRequests
  <2>2. PICK m \in {L2!Read(t, FALSE, NoID), L2!Read(t, TRUE, NoID), L2!Invalidate(t)} :
          \E c \in L2!FromRemote(l2, m, a) : LeaveL2(c, queue, reads, granted, fetches \cup {m})
    BY <2>1
  <2>3. m \in P2!UpMsg
    BY MessagesOfDirectory
  <2>4. m.type # "ReadResponse"
    BY DEF L2!Read, L2!Invalidate
  <2> QED
    BY <2>2, <2>3, <2>4
<1>3. PICK c \in L2!FromRemote(l2, m, a) : LeaveL2(c, queue, reads, granted, fetches \cup {m})
  BY <1>2
<1>4. class' = class
  BY DEF DirectoryRequests
<1>5. P2!Asking \subseteq P2!Sending /\ a \in BOOLEAN /\ P2!CacheInv(l2, P2!Sending, W)
  BY <1>1 DEF P2!Sending
<1> HIDE DEF W, a
<1>6. m.tag \in Tag
  BY P2!TagsOfMessages
<1>7. L2!FromRemote(l2, m, a) = P2!FromRemote(l2, m, a)
  BY <1>1, <1>5, <1>6, SameFromRemote2
<1>8. P2!CacheInv(c, P2!Sending, W)
  BY <1>1, <1>3, <1>5, <1>7, P2!UpMsgKeeps
<1>9. ASSUME KeepsToGrants
      PROVE  P2!OwnInv(c, Granted(granted))
  <2>1. P2!OwnInv(l2, G) /\ P2!OwnershipOK
    BY <1>1, <1>9, ClassKeepsOwnership DEF OwnershipInv
  <2> HIDE DEF G
  <2>2. P2!OwnInv(c, G)
    BY <1>1, <1>2, <1>3, <1>5, <1>7, <2>1, P2!FromRemoteOwns
  <2> QED
    BY <2>2 DEF G
<1> QED
  BY <1>1, <1>3, <1>4, <1>8, <1>9, LeaveL2Owns

LEMMA OwnershipIsInductive == StackInv /\ OwnershipInv /\ [Next]_vars => OwnershipInv'
<1> SUFFICES ASSUME StackInv, OwnershipInv, [Next]_vars PROVE OwnershipInv'
  OBVIOUS
<1>1. CASE ProcessorRequests
  BY <1>1, UntouchedOwns DEF ProcessorRequests
<1>2. CASE \E to \in {"L1", "L2"} : Deliver(to)
  BY <1>2, DeliverOwns
<1>3. CASE Tick
  BY <1>3, UntouchedOwns DEF Tick
<1>4. CASE DirectoryAnswers
  BY <1>4, AnswerOwns
<1>5. CASE DirectoryRequests
  BY <1>5, RequestOwns
<1>6. CASE UNCHANGED vars
  BY <1>6, UntouchedOwns DEF vars
<1> QED
  BY <1>1, <1>2, <1>3, <1>4, <1>5, <1>6 DEF Next

(* L2 of MESICache or MOESICache has a block Modified or Exclusive only     *)
(* while it was granted exclusively and nothing it sent since gave the      *)
(* grant up: for any tags, frames, times and interleaving of the two levels *)
(* and the directory (641-646).                                             *)
THEOREM OwnedWasGranted == Spec => []OwnsOnlyWhatWasGranted
<1>1. StackInv /\ OwnershipInv => OwnsOnlyWhatWasGranted
  BY DEF OwnershipInv, OwnsOnlyWhatWasGranted, KeepsToGrants, P2!OwnInv, P2!Owns, P2!IsOwned,
         P2!Writable, L2!Usable, Granted
<1> QED
  BY InitKeeps, StackInvIsInductive, InitOwns, OwnershipIsInductive, <1>1, PTL DEF Spec
=============================================================================
