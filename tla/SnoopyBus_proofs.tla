-------------------------- MODULE SnoopyBus_proofs --------------------------
(***************************************************************************)
(* The bus of SnoopyBus with the caches above it and the device below: the *)
(* theorems of its invariants, for any number of caches above one, any     *)
(* tags, frames, times, class of the caches and number of requests.        *)
(*                                                                         *)
(* C is an instance of CacheFamily; what every handler of a cache keeps is *)
(* proved in CacheFamily_proofs, of whose instance P the handlers are the  *)
(* same.  The first part says so, handler by handler.                      *)
(***************************************************************************)
EXTENDS SnoopyBus, FiniteSetTheorems, TLAPS

P == INSTANCE CacheFamily_proofs WITH ID <- {}

(* No property is needed of the folds of the two instances but their value. *)
Anything(x, k, a) == TRUE

LEMMA SamePerform == \A c, m : C!Perform(c, m) = P!Perform(c, m)
BY DEF C!Perform, P!Perform, C!PerformRead, P!PerformRead, C!PerformWrite, P!PerformWrite,
       C!Miss, P!Miss, C!ToLocal, P!ToLocal, C!ToRemote, P!ToRemote, C!Read, P!Read,
       C!ReadResponse, P!ReadResponse, C!WriteResponse, P!WriteResponse

LEMMA SamePerformed == \A c, q : C!FoldLeft(C!Perform, c, q) = P!Performed(c, q)
BY DEF C!Perform, P!Perform, C!PerformRead, P!PerformRead, C!PerformWrite, P!PerformWrite,
       C!Miss, P!Miss, C!ToLocal, P!ToLocal, C!ToRemote, P!ToRemote, C!Read, P!Read,
       C!ReadResponse, P!ReadResponse, C!WriteResponse, P!WriteResponse, C!FoldLeft,
       P!FoldLeft, C!MapThenFoldSet, P!MapThenFoldSet, C!Max, P!Max,
       P!Performed

LEMMA SameTakeFrame == \A c, v, t : C!TakeFrame(c, v, t) = P!TakeFrame(c, v, t)
BY DEF C!TakeFrame, P!TakeFrame, C!ToLocal, P!ToLocal, C!ToRemote, P!ToRemote, C!Eviction,
       P!Eviction, C!Invalidate, P!Invalidate

LEMMA SamePrepare == \A c, t : C!PrepareFreshBlock(c, t) = P!PrepareFreshBlock(c, t)
BY DEF C!PrepareFreshBlock, P!PrepareFreshBlock

LEMMA SameEvict == \A c : C!Evict(c) = P!Evict(c) /\ C!HasFreeFrame(c) = P!HasFreeFrame(c)
BY DEF C!Evict, P!Evict, C!HasFreeFrame, P!HasFreeFrame, C!Victims, P!Victims, C!Held,
       P!Held, C!Cardinality, P!Cardinality

LEMMA SameLocalRequest == \A c, m : C!OnLocalRequest(c, m) = P!OnLocalRequest(c, m)
BY ZenonT(60), SamePerform, SameTakeFrame, SamePrepare, SameEvict
   DEF C!OnLocalRequest, P!OnLocalRequest

Again(T, m) == UNION {C!OnLocalRequest(e, m) : e \in T}

AllAgain(T, q) == C!FoldLeft(Again, T, q)

F == INSTANCE FoldLemmas WITH Op <- P!MadeAgain, Other <- Again, Good <- Anything

LEMMA SameAgain ==
  ASSUME NEW S, NEW T, NEW q \in Seq(S)
  PROVE  AllAgain(T, q) = P!AllMadeAgain(T, q)
<1>1. \A e, m : P!MadeAgain(e, m) = Again(e, m)
  BY SameLocalRequest DEF P!MadeAgain, Again
<1>2. \A e, s : AllAgain(e, s) = F!OtherFolded(e, s)
  BY DEF AllAgain, F!OtherFolded, C!FoldLeft, F!FoldLeft, C!MapThenFoldSet,
         F!MapThenFoldSet, C!Max, F!Max
<1>3. \A e, s : P!AllMadeAgain(e, s) = F!Folded(e, s)
  BY DEF P!AllMadeAgain, F!Folded, P!FoldLeft, F!FoldLeft, P!MapThenFoldSet,
         F!MapThenFoldSet, P!Max, F!Max
<1> DEFINE n == Len(q)
<1>4. n \in Nat /\ DOMAIN q = 1..n
  OBVIOUS
<1> HIDE DEF n
<1>5. F!OtherFolded(T, q) = F!Folded(T, q)
  BY <1>1, <1>4, F!FoldsAgree
<1> QED
  BY <1>2, <1>3, <1>5

LEMMA UnlockBlockIs ==
  ASSUME NEW c, NEW t
  PROVE  C!UnlockBlock(c, t) =
           LET d == C!FoldLeft(C!Perform, P!Unlocked(c, t), c.waitingOnBlockUnlock[t])
           IN IF d.blocks[t].locked THEN {d}
              ELSE AllAgain({[d EXCEPT !.waitingOnSetUnlock = <<>>]}, d.waitingOnSetUnlock)
BY DEF C!UnlockBlock, P!Unlocked, AllAgain, Again, C!FoldLeft, C!MapThenFoldSet

LEMMA SameUnlockBlock ==
  ASSUME P!CacheAssumptions, NEW R, P!Asking \subseteq R, NEW W, NEW c, P!CacheInv(c, R, W),
         NEW t \in Tag, c.blocks[t] \in P!UsedBlock, c.blocks[t].state # "Invalid"
  PROVE  C!UnlockBlock(c, t) = P!UnlockBlock(c, t)
<1> DEFINE d == P!Performed(P!Unlocked(c, t), c.waitingOnBlockUnlock[t])
           f == [d EXCEPT !.waitingOnSetUnlock = <<>>]
           q == d.waitingOnSetUnlock
<1>1. q \in Seq(P!Request)
  BY P!FrameWaitersStay
<1>2. P!UnlockBlock(c, t) = IF d.blocks[t].locked THEN {d} ELSE P!AllMadeAgain({f}, q)
  BY P!UnlockBlockIs
<1>3. C!UnlockBlock(c, t) = IF d.blocks[t].locked THEN {d} ELSE AllAgain({f}, q)
  BY UnlockBlockIs, SamePerformed
<1> HIDE DEF d, f, q
<1>4. AllAgain({f}, q) = P!AllMadeAgain({f}, q)
  BY <1>1, SameAgain
<1> QED
  BY <1>2, <1>3, <1>4

LEMMA RemoteReadResponseIs ==
  ASSUME NEW c, NEW m, NEW attached
  PROVE  C!OnRemoteReadResponse(c, m, attached) =
           IF P!IsAwaited(c, m) THEN C!UnlockBlock(P!Filled(c, m), m.tag)
           ELSE {IF class.EvictsSurplus
                 THEN P!ToRemote(c, P!Eviction(m.tag, attached), evictionTime) ELSE c}
<1>1. CASE P!IsAwaited(c, m)
  BY <1>1 DEF C!OnRemoteReadResponse, P!IsAwaited, P!Filled, P!WithBlock
<1>2. CASE ~P!IsAwaited(c, m)
  BY <1>2 DEF C!OnRemoteReadResponse, P!IsAwaited, C!ToRemote, P!ToRemote, C!Eviction, P!Eviction
<1> QED
  BY <1>1, <1>2

LEMMA SameRemoteReadResponse ==
  ASSUME P!CacheAssumptions, NEW R, P!Asking \subseteq R, NEW W, NEW c, P!CacheInv(c, R, W),
         NEW m, m.tag \in Tag, NEW attached
  PROVE  C!OnRemoteReadResponse(c, m, attached) = P!OnRemoteReadResponse(c, m, attached)
<1>1. CASE P!IsAwaited(c, m)
  <2> DEFINE e == P!Filled(c, m)
             t == m.tag
  <2>1. P!CacheInv(e, R, W) /\ e.blocks[t] \in P!UsedBlock /\ e.blocks[t].state # "Invalid"
    BY <1>1, P!FilledKeeps
  <2>2. /\ C!OnRemoteReadResponse(c, m, attached) = C!UnlockBlock(e, t)
        /\ P!OnRemoteReadResponse(c, m, attached) = P!UnlockBlock(e, t)
    BY <1>1, RemoteReadResponseIs, P!RemoteReadResponseIs
  <2>3. t \in Tag
    OBVIOUS
  <2> HIDE DEF e, t
  <2> QED
    BY <2>1, <2>2, <2>3, SameUnlockBlock
<1>2. CASE ~P!IsAwaited(c, m)
  BY <1>2, RemoteReadResponseIs, P!RemoteReadResponseIs
<1> QED
  BY <1>1, <1>2

LEMMA SameRemoteRead == \A c, m : C!OnRemoteRead(c, m) = P!OnRemoteRead(c, m)
BY DEF C!OnRemoteRead, P!OnRemoteRead, C!PerformRemoteRead, P!PerformRemoteRead,
       C!DropBlock, P!DropBlock, C!ToLocal, P!ToLocal, C!ToRemote, P!ToRemote, C!Read,
       P!Read, C!ReadResponse, P!ReadResponse

LEMMA SameRespondInvalidate == \A c, t : C!RespondInvalidate(c, t) = P!RespondInvalidate(c, t)
BY DEF C!RespondInvalidate, P!RespondInvalidate, C!DropBlock, P!DropBlock, C!ToRemote,
       P!ToRemote, C!Read, P!Read, C!InvalidateResponse, P!InvalidateResponse

LEMMA SameRemoteInvalidate == \A c, m : C!OnRemoteInvalidate(c, m) = P!OnRemoteInvalidate(c, m)
BY SameRespondInvalidate
   DEF C!OnRemoteInvalidate, P!OnRemoteInvalidate, C!ToLocal, P!ToLocal, C!Invalidate, P!Invalidate

LEMMA SameFromRemote ==
  ASSUME P!CacheAssumptions, NEW R, P!Asking \subseteq R, NEW W, NEW c, P!CacheInv(c, R, W),
         NEW m, m.tag \in Tag, NEW attached
  PROVE  C!FromRemote(c, m, attached) = P!FromRemote(c, m, attached)
<1>1. C!OnRemoteReadResponse(c, m, attached) = P!OnRemoteReadResponse(c, m, attached)
  BY SameRemoteReadResponse
<1> QED
  BY <1>1, SameRemoteRead, SameRemoteInvalidate
     DEF C!FromRemote, P!FromRemote, C!ToRemote, P!ToRemote, C!EvictionResponse, P!EvictionResponse

LEMMA SameNewCache == \A top : C!NewCache(top) = P!NewCache(top)
BY DEF C!NewCache, P!NewCache

LEMMA SameProperties ==
  \A c :
        /\ C!CacheTypeOK(c) <=> P!CacheTypeOK(c)
        /\ C!LockedIffWaiting(c) <=> P!LockedIffWaiting(c)
        /\ C!FrameWaitersWillWake(c) <=> P!FrameWaitersWillWake(c)
BY SMTT(60) DEF C!CacheTypeOK, P!CacheTypeOK, C!LockedIffWaiting, P!LockedIffWaiting,
       C!FrameWaitersWillWake, P!FrameWaitersWillWake, C!Held, P!Held, C!Block, P!Block,
       C!State, P!State, C!Cardinality, P!Cardinality
-----------------------------------------------------------------------------
(* How many elements of a sequence are of a set.                            *)
Places(q, S) == {k \in DOMAIN q : q[k] \in S}
Count(q, S) == Cardinality(Places(q, S))

LEMMA CountIsNat ==
  ASSUME NEW T, NEW q \in Seq(T), NEW S
  PROVE  IsFiniteSet(Places(q, S)) /\ Count(q, S) \in Nat
<1>1. DOMAIN q = 1..Len(q) /\ Len(q) \in Nat
  OBVIOUS
<1>2. Places(q, S) \subseteq 1..Len(q)
  BY <1>1 DEF Places
<1>3. IsFiniteSet(1..Len(q))
  BY <1>1, FS_Interval
<1> QED
  BY <1>2, <1>3, FS_Subset, FS_CardinalityType DEF Count

LEMMA CountZero ==
  ASSUME NEW T, NEW q \in Seq(T), NEW S
  PROVE  Count(q, S) = 0 <=> \A k \in DOMAIN q : q[k] \notin S
<1>1. IsFiniteSet(Places(q, S))
  BY CountIsNat
<1>2. Count(q, S) = 0 <=> Places(q, S) = {}
  BY <1>1, FS_EmptySet DEF Count
<1> QED
  BY <1>2 DEF Places

LEMMA CountAll ==
  ASSUME NEW T, NEW q \in Seq(T), NEW S, \A k \in DOMAIN q : q[k] \in S
  PROVE  Count(q, S) = Len(q)
<1>1. DOMAIN q = 1..Len(q) /\ Len(q) \in Nat
  OBVIOUS
<1>2. Places(q, S) = 1..Len(q)
  BY <1>1 DEF Places
<1>3. Cardinality(1..Len(q)) = Len(q)
  BY <1>1, FS_Interval
<1> QED
  BY <1>2, <1>3 DEF Count

LEMMA CountJoined ==
  ASSUME NEW T, NEW a \in Seq(T), NEW b \in Seq(T), NEW S
  PROVE  Count(a \o b, S) = Count(a, S) + Count(b, S)
<1> DEFINE r == a \o b
           n == Len(a)
           A == Places(a, S)
           B == Places(b, S)
           Moved == {n + i : i \in B}
<1>1. /\ n \in Nat /\ Len(b) \in Nat
      /\ r \in Seq(T) /\ DOMAIN r = 1..(n + Len(b))
      /\ DOMAIN a = 1..n /\ DOMAIN b = 1..Len(b)
      /\ \A i \in 1..n : r[i] = a[i]
      /\ \A i \in 1..Len(b) : r[n + i] = b[i]
  BY P!JoinedAt
<1>2. IsFiniteSet(A) /\ IsFiniteSet(B) /\ A \subseteq 1..n /\ B \subseteq 1..Len(b)
  BY <1>1, CountIsNat DEF Places
<1>3. Places(r, S) = A \cup Moved
  <2>1. ASSUME NEW k \in Places(r, S) PROVE k \in A \cup Moved
    <3>1. k \in 1..(n + Len(b)) /\ r[k] \in S
      BY <1>1, <2>1 DEF Places
    <3>2. CASE k <= n
      BY <1>1, <3>1, <3>2 DEF Places
    <3>3. CASE k > n
      <4>1. k - n \in 1..Len(b) /\ k = n + (k - n)
        BY <1>1, <3>1, <3>3
      <4>2. k - n \in B
        BY <1>1, <3>1, <4>1 DEF Places
      <4> QED
        BY <4>1, <4>2
    <3> QED
      BY <1>1, <3>1, <3>2, <3>3
  <2>2. A \subseteq Places(r, S)
    BY <1>1 DEF Places
  <2>3. ASSUME NEW i \in B PROVE n + i \in Places(r, S)
    <3>1. i \in 1..Len(b) /\ b[i] \in S
      BY <1>1, <2>3 DEF Places
    <3>2. n + i \in 1..(n + Len(b)) /\ r[n + i] = b[i]
      BY <1>1, <3>1
    <3> QED
      BY <1>1, <3>1, <3>2 DEF Places
  <2> QED
    BY <2>1, <2>2, <2>3
<1>4. IsFiniteSet(Moved) /\ Cardinality(Moved) = Cardinality(B)
  <2> DEFINE f == [i \in B |-> n + i]
  <2>1. f \in Bijection(B, Moved)
    <3>1. \A i, j \in B : f[i] = f[j] => i = j
      BY <1>1, <1>2
    <3> QED
      BY <3>1 DEF Bijection, Injection, Surjection, IsInjective
  <2> QED
    BY <1>2, <2>1, FS_Bijection DEF ExistsBijection
<1>5. A \cap Moved = {}
  BY <1>1, <1>2
<1>6. Cardinality(A \cap Moved) = 0
  BY <1>5, FS_EmptySet
<1>7. Cardinality(A \cup Moved) = Cardinality(A) + Cardinality(Moved) - Cardinality(A \cap Moved)
  BY <1>2, <1>4, FS_Union
<1>8. Cardinality(A) \in Nat /\ Cardinality(B) \in Nat
  BY <1>2, FS_CardinalityType
<1> QED
  BY <1>1, <1>3, <1>4, <1>6, <1>7, <1>8 DEF Count

LEMMA CountRemoved ==
  ASSUME NEW T, NEW q \in Seq(T), NEW k \in DOMAIN q, NEW r, r = RemoveAt(q, k), NEW S
  PROVE  r \in Seq(T) /\ Count(q, S) = Count(r, S) + IF q[k] \in S THEN 1 ELSE 0
<1> DEFINE A == Places(r, S)
           B == Places(q, S)
           f == [i \in A |-> P!Before(k, i)]
<1>1. /\ r \in Seq(T)
      /\ \A j \in DOMAIN q : j # k => \E i \in DOMAIN r : P!Before(k, i) = j
      /\ \A i \in DOMAIN r : P!Before(k, i) \in DOMAIN q /\ P!Before(k, i) # k /\ r[i] = q[P!Before(k, i)]
      /\ \A i, j \in DOMAIN r : P!Before(k, i) = P!Before(k, j) => i = j
  <2>1. r = P!Without(q, k)
    BY DEF RemoveAt, P!Without
  <2>2. /\ r \in Seq(T)
        /\ \A i \in DOMAIN r : P!Before(k, i) \in DOMAIN q /\ P!Before(k, i) # k /\ r[i] = q[P!Before(k, i)]
        /\ \A i, j \in DOMAIN r : P!Before(k, i) = P!Before(k, j) => i = j
    BY <2>1, P!Removed
  <2>3. DOMAIN q = 1..Len(q) /\ DOMAIN r = 1..(Len(q) - 1) /\ Len(q) \in Nat /\ k \in 1..Len(q)
    <3>1. DOMAIN q = 1..Len(q) /\ Len(q) \in Nat /\ k \in 1..Len(q)
      OBVIOUS
    <3>2. SubSeq(q, 1, k-1) \in Seq(T) /\ Len(SubSeq(q, 1, k-1)) = k-1
      BY <3>1
    <3>3. SubSeq(q, k+1, Len(q)) \in Seq(T) /\ Len(SubSeq(q, k+1, Len(q))) = Len(q) - k
      BY <3>1
    <3>4. DOMAIN r = 1..((k-1) + (Len(q) - k))
      BY <2>1, <3>2, <3>3, P!JoinedAt DEF P!Without
    <3> QED
      BY <3>1, <3>4
  <2>4. ASSUME NEW j \in DOMAIN q, j # k PROVE \E i \in DOMAIN r : P!Before(k, i) = j
    <3>1. CASE j < k
      <4>1. j \in DOMAIN r /\ P!Before(k, j) = j
        BY <2>3, <2>4, <3>1 DEF P!Before
      <4> QED
        BY <4>1
    <3>2. CASE j > k
      <4>1. j-1 \in DOMAIN r /\ P!Before(k, j-1) = j
        BY <2>3, <2>4, <3>2 DEF P!Before
      <4> QED
        BY <4>1
    <3> QED
      BY <2>3, <2>4, <3>1, <3>2
  <2> QED
    BY <2>2, <2>4
<1>2. IsFiniteSet(A) /\ IsFiniteSet(B) /\ Cardinality(A) \in Nat /\ Cardinality(B) \in Nat
  BY <1>1, CountIsNat, FS_CardinalityType
<1>3. f \in Bijection(A, B \ {k})
  <2>1. \A i \in A : f[i] \in B \ {k}
    BY <1>1 DEF Places
  <2>2. \A i, j \in A : f[i] = f[j] => i = j
    BY <1>1 DEF Places
  <2>3. \A j \in B \ {k} : \E i \in A : f[i] = j
    BY <1>1 DEF Places
  <2> QED
    BY <2>1, <2>2, <2>3 DEF Bijection, Injection, Surjection, IsInjective
<1>4. Cardinality(A) = Cardinality(B \ {k})
  BY <1>2, <1>3, FS_Bijection DEF ExistsBijection
<1>5. Cardinality(B \ {k}) = IF k \in B THEN Cardinality(B) - 1 ELSE Cardinality(B)
  BY <1>2, FS_RemoveElement
<1>6. k \in B <=> q[k] \in S
  BY DEF Places
<1> QED
  BY <1>1, <1>2, <1>4, <1>5, <1>6 DEF Count

(* Elements may change as long as they stay in the set.                     *)
LEMMA CountSame ==
  ASSUME NEW q, NEW r, NEW S, DOMAIN r = DOMAIN q,
         \A k \in DOMAIN q : r[k] \in S <=> q[k] \in S
  PROVE  Count(r, S) = Count(q, S)
<1>1. Places(r, S) = Places(q, S)
  BY DEF Places
<1> QED
  BY <1>1 DEF Count

(* The elements of a finite set in some order.                              *)
LEMMA SetToSeqIs ==
  ASSUME NEW X, IsFiniteSet(X), NEW q, q = SetToSeq(X)
  PROVE  q \in Seq(X) /\ Len(q) = Cardinality(X) /\ DOMAIN q = 1..Cardinality(X)
<1> DEFINE n == Cardinality(X)
           Good(f) == f \in [1..n -> X] /\ IsInjective(f)
<1>1. n \in Nat /\ ExistsBijection(1..n, X)
  BY FS_CardinalityType
<1>2. \E f : f \in [1..n -> X] /\ \A i, j \in 1..n : f[i] = f[j] => i = j
  BY <1>1, Zenon DEF ExistsBijection, Bijection, Injection, IsInjective
<1> QED
  BY <1>1, <1>2 DEF SetToSeq, IsInjective
LEMMA CountEmpty == \A S : Count(<<>>, S) = 0
<1> DEFINE e == <<>>
<1>1. e \in Seq({}) /\ DOMAIN e = {}
  OBVIOUS
<1> HIDE DEF e
<1>2. \A S : Count(e, S) = 0
  BY <1>1, CountZero
<1> QED
  BY <1>2 DEF e

LEMMA CountAppend ==
  ASSUME NEW T, NEW s \in Seq(T), NEW e \in T, NEW S
  PROVE  Count(Append(s, e), S) = Count(s, S) + IF e \in S THEN 1 ELSE 0
<1> DEFINE o == <<e>>
<1>1. o \in Seq(T) /\ DOMAIN o = 1..1 /\ Len(o) = 1 /\ o[1] = e
  OBVIOUS
<1>2. Append(s, e) = s \o o
  OBVIOUS
<1> HIDE DEF o
<1>3. Count(s \o o, S) = Count(s, S) + Count(o, S)
  BY <1>1, CountJoined
<1>4. Count(s, S) \in Nat
  BY CountIsNat
<1>5. CASE e \in S
  <2>1. \A k \in DOMAIN o : o[k] \in S
    BY <1>1, <1>5
  <2>2. Count(o, S) = 1
    BY <1>1, <2>1, CountAll
  <2> QED
    BY <1>2, <1>3, <1>5, <2>2
<1>6. CASE e \notin S
  <2>1. \A k \in DOMAIN o : o[k] \notin S
    BY <1>1, <1>6
  <2>2. Count(o, S) = 0
    BY <1>1, <2>1, CountZero
  <2> QED
    BY <1>2, <1>3, <1>4, <1>6, <2>2
<1> QED
  BY <1>5, <1>6

(* The elements of r are those of a and of s.                               *)
Joins(r, a, s) ==
  /\ \A i \in DOMAIN r : (\E j \in DOMAIN a : r[i] = a[j]) \/ (\E j \in DOMAIN s : r[i] = s[j])
  /\ \A j \in DOMAIN a : \E i \in DOMAIN r : r[i] = a[j]
  /\ \A j \in DOMAIN s : \E i \in DOMAIN r : r[i] = s[j]

LEMMA JoinedElements ==
  ASSUME NEW T, NEW a \in Seq(T), NEW s \in Seq(T)
  PROVE  a \o s \in Seq(T) /\ Joins(a \o s, a, s)
<1> DEFINE r == a \o s
<1>1. /\ r \in Seq(T) /\ DOMAIN r = 1..(Len(a) + Len(s))
      /\ DOMAIN a = 1..Len(a) /\ DOMAIN s = 1..Len(s) /\ Len(a) \in Nat /\ Len(s) \in Nat
      /\ \A i \in 1..Len(a) : r[i] = a[i]
      /\ \A i \in 1..Len(s) : r[Len(a) + i] = s[i]
  BY P!JoinedAt
<1> HIDE DEF r
<1>2. ASSUME NEW i \in DOMAIN r
      PROVE  (\E j \in DOMAIN a : r[i] = a[j]) \/ (\E j \in DOMAIN s : r[i] = s[j])
  <2>1. CASE i <= Len(a)
    BY <1>1, <2>1
  <2>2. CASE i > Len(a)
    <3>1. i - Len(a) \in 1..Len(s) /\ i = Len(a) + (i - Len(a))
      BY <1>1, <1>2, <2>2
    <3> QED
      BY <1>1, <3>1
  <2> QED
    BY <1>1, <2>1, <2>2
<1>3. \A j \in DOMAIN a : \E i \in DOMAIN r : r[i] = a[j]
  BY <1>1
<1>4. \A j \in DOMAIN s : \E i \in DOMAIN r : r[i] = s[j]
  <2> TAKE j \in DOMAIN s
  <2>1. Len(a) + j \in 1..(Len(a) + Len(s))
    BY <1>1
  <2> QED
    BY <1>1, <2>1
<1>5. Joins(r, a, s)
  BY <1>2, <1>3, <1>4 DEF Joins
<1> QED
  BY <1>1, <1>5 DEF r

(* The element at k goes and those of s come.                               *)
Exchanges(r, q, k, s) ==
  /\ \A S : Count(r, S) + (IF q[k] \in S THEN 1 ELSE 0) = Count(q, S) + Count(s, S)
  /\ \A i \in DOMAIN r : \/ \E j \in DOMAIN q : r[i] = q[j]
                         \/ \E j \in DOMAIN s : r[i] = s[j]
  /\ \A j \in DOMAIN q : j # k => \E i \in DOMAIN r : r[i] = q[j]
  /\ \A j \in DOMAIN s : \E i \in DOMAIN r : r[i] = s[j]

LEMMA CountExchanged ==
  ASSUME NEW T, NEW q \in Seq(T), NEW k \in DOMAIN q, NEW s \in Seq(T)
  PROVE  RemoveAt(q, k) \o s \in Seq(T) /\ Exchanges(RemoveAt(q, k) \o s, q, k, s)
<1> DEFINE a == RemoveAt(q, k)
           r == a \o s
<1>1. /\ a \in Seq(T)
      /\ \A j \in DOMAIN q : j # k => \E i \in DOMAIN a : a[i] = q[j]
      /\ \A i \in DOMAIN a : \E j \in DOMAIN q : a[i] = q[j]
  <2>1. a = P!Without(q, k)
    BY DEF RemoveAt, P!Without
  <2> HIDE DEF a
  <2> QED
    BY <2>1, P!Removed
<1>2. \A S : Count(q, S) = Count(a, S) + IF q[k] \in S THEN 1 ELSE 0
  BY CountRemoved
<1>3. r = a \o s
  OBVIOUS
<1> HIDE DEF a, r
<1>4. ASSUME NEW S PROVE Count(r, S) + (IF q[k] \in S THEN 1 ELSE 0) = Count(q, S) + Count(s, S)
  <2>1. Count(r, S) = Count(a, S) + Count(s, S)
    BY <1>1, <1>3, CountJoined
  <2>2. Count(a, S) \in Nat /\ Count(s, S) \in Nat
    BY <1>1, CountIsNat
  <2> QED
    BY <1>2, <2>1, <2>2
<1>8. r \in Seq(T) /\ Joins(r, a, s)
  BY <1>1, <1>3, JoinedElements
<1>5. /\ r \in Seq(T)
      /\ \A i \in DOMAIN r : (\E j \in DOMAIN a : r[i] = a[j]) \/ (\E j \in DOMAIN s : r[i] = s[j])
      /\ \A j \in DOMAIN a : \E i \in DOMAIN r : r[i] = a[j]
      /\ \A j \in DOMAIN s : \E i \in DOMAIN r : r[i] = s[j]
  BY <1>8 DEF Joins
<1>6. \A i \in DOMAIN r : (\E j \in DOMAIN q : r[i] = q[j]) \/ (\E j \in DOMAIN s : r[i] = s[j])
  <2> SUFFICES ASSUME NEW i \in DOMAIN r, NEW h \in DOMAIN a, r[i] = a[h]
               PROVE  \E j \in DOMAIN q : r[i] = q[j]
    BY <1>5
  <2> QED
    BY <1>1
<1>7. \A j \in DOMAIN q : j # k => \E i \in DOMAIN r : r[i] = q[j]
  <2> SUFFICES ASSUME NEW j \in DOMAIN q, j # k
               PROVE  \E i \in DOMAIN r : r[i] = q[j]
    OBVIOUS
  <2>1. PICK i \in DOMAIN a : a[i] = q[j]
    BY <1>1
  <2>2. PICK h \in DOMAIN r : r[h] = a[i]
    BY <1>5
  <2> QED
    BY <2>1, <2>2
<1>9. Exchanges(r, q, k, s)
  BY <1>4, <1>5, <1>6, <1>7 DEF Exchanges
<1> QED
  BY <1>5, <1>9 DEF r, a
-----------------------------------------------------------------------------
(* The messages, and the events that carry them: requests from above or     *)
(* below, and responses, go to the bus, which passes them on.               *)
Invalidates == {P!Invalidate(t) : t \in Tag}
Asked(c)    == IF c = Remote THEN Invalidates ELSE P!Asking
Answers     == P!Answering \cup {P!EvictionResponse(t) : t \in Tag}
Sends       == P!Asking \cup Answers
Message     == Sends \cup Invalidates
Attempt     == [type |-> "AttemptTransfer"]

Event ==
  [to : {"Bus"}, from : Local, msg : Sends, delay : Nat]
    \cup [to : {"Bus"}, from : {Remote}, msg : Invalidates \cup Answers, delay : Nat]
    \cup [to : Connection, from : {"Bus"}, msg : Message, delay : Nat]
    \cup [to : {"Bus"}, from : {"Bus"}, msg : {Attempt}, delay : Nat]

(* What counts as still to come, of a transfer of t: with a cache, or with  *)
(* the device below.                                                        *)
IsOpen(e, t) ==
  /\ e.msg.type # "AttemptTransfer" /\ e.msg.tag = t
  /\ \/ e.from = "Bus" /\ IsRequest(e.msg)
     \/ e.from # "Bus" /\ ~IsRequest(e.msg)

Near(t)  == {e \in Event : IsOpen(e, t) /\ Remote \notin {e.to, e.from}}
Below(t) == {e \in Event : IsOpen(e, t) /\ Remote \in {e.to, e.from}}

Transfer == [pendingResponses : 1..Cardinality(Local), solicitingMsg : P!Asking \cup Invalidates,
             solicitingConnection : Connection, satisfied : BOOLEAN]

BusRecord == [waitingMsgs : [Connection -> Seq(P!Asking \cup Invalidates)],
              pendingTransfers : [Tag -> Transfer \cup {NoTransfer}],
              transferInProgress : BOOLEAN,
              out : Seq(Event)]

(* A message waits where it came from, and a transfer is of the message of   *)
(* its connection.                                                          *)
BusOK(b) ==
  /\ b \in BusRecord
  /\ \A c \in Connection : \A k \in DOMAIN b.waitingMsgs[c] : b.waitingMsgs[c][k] \in Asked(c)
  /\ \A t \in Tag : LET x == b.pendingTransfers[t] IN
       x # NoTransfer => x.solicitingMsg \in Asked(x.solicitingConnection) /\ x.solicitingMsg.tag = t

(* The count of each transfer is what is still to come, the device below    *)
(* included while it has not been asked.                                    *)
CountedAt(x, near, below) ==
  IF x = NoTransfer THEN near = 0 /\ below = 0
  ELSE IF x.solicitingConnection = Remote THEN x.pendingResponses = near /\ below = 0
  ELSE x.pendingResponses = near + 1 /\ below = IF near = 0 THEN 1 ELSE 0

AllCounted(b, q) ==
  \A t \in Tag : CountedAt(b.pendingTransfers[t], Count(q, Near(t)), Count(q, Below(t)))

(* What is on its way for a transfer is its message or an answer to it.     *)
AnswerTo(m) == CASE m.type = "Read"     -> "ReadResponse"
                 [] m.type = "Eviction" -> "EvictionResponse"
                 [] OTHER               -> "InvalidateResponse"

Belongs(m, x) == /\ x # NoTransfer
                 /\ IF IsRequest(m) THEN m = x.solicitingMsg ELSE m.type = AnswerTo(x.solicitingMsg)

AllBelong(b, q) ==
  \A k \in DOMAIN q : \A t \in Tag : IsOpen(q[k], t) => Belongs(q[k].msg, b.pendingTransfers[t])

(* While a message could go, or the bus is taken, somebody will look: an    *)
(* attempt is scheduled, or a transfer is left whose answer will bring one. *)
Scheduled(q) == \E k \in DOMAIN q : q[k].msg = Attempt
Unsatisfied(b) == \E t \in Tag : b.pendingTransfers[t] # NoTransfer /\ ~b.pendingTransfers[t].satisfied

WillAttempt(b, q) ==
  b.transferInProgress \/ (\E c \in Connection : Ready(b, c) # {}) => Scheduled(q) \/ Unsatisfied(b)

(* Cache n has asked for t: its read or the answer is on its way, waits, or *)
(* is the message of a transfer that has not been answered.                 *)
IsReadFor(e, n, t) ==
  /\ e.msg.type # "AttemptTransfer" /\ e.msg.tag = t
  /\ \/ e.from = n /\ e.msg.type = "Read"
     \/ e.to = n /\ e.msg.type = "ReadResponse"

ReadWaits(b, n, t) ==
  \E k \in DOMAIN b.waitingMsgs[n] : b.waitingMsgs[n][k].type = "Read" /\ b.waitingMsgs[n][k].tag = t

ReadRuns(x, n) ==
  x # NoTransfer /\ ~x.satisfied /\ x.solicitingConnection = n /\ x.solicitingMsg.type = "Read"

ReadTags(b, q, n) ==
  {t \in Tag : \/ \E k \in DOMAIN q : IsReadFor(q[k], n, t)
               \/ ReadWaits(b, n, t)
               \/ ReadRuns(b.pendingTransfers[t], n)}

BusInv(b, q) ==
  BusOK(b) /\ q \in Seq(Event) /\ AllCounted(b, q) /\ AllBelong(b, q)

CacheOK(c, W) == /\ P!CacheInv(c, Sends, W)
                 /\ c.topCache = TRUE /\ c.toLocal = <<>> /\ c.toRemote = <<>>

(* The inductive invariant.                                                 *)
SnoopyInv ==
  /\ BusInv(bus, queue) /\ WillAttempt(bus, queue) /\ bus.out = <<>>
  /\ cache = [n \in Local |-> cache[n]]
  /\ \A n \in Local : CacheOK(cache[n], ReadTags(bus, queue, n))
-----------------------------------------------------------------------------
LEMMA ConstantsAreOK == P!CacheAssumptions
BY ClassAssumption, NoBlockAssumption, FramesAssumption
   DEF P!CacheAssumptions, P!ClassOK, P!Valid, P!State, C!State, P!Block, C!Block

LEMMA DelaysAreNumbers == P!Delay \subseteq Nat
BY TimesAssumption DEF P!Delay

LEMMA MessageTypes ==
  /\ \A m \in P!Asking : m.tag \in Tag /\ m.type \in {"Read", "Eviction"}
  /\ \A m \in Invalidates : m.tag \in Tag /\ m.type = "Invalidate"
  /\ \A m \in Answers : m.tag \in Tag /\ m.type \in {"ReadResponse", "EvictionResponse", "InvalidateResponse"}
  /\ Attempt.type = "AttemptTransfer"
<1>1. \A m \in P!Asking : m.tag \in Tag /\ m.type \in {"Read", "Eviction"}
  BY DEF P!Asking, P!Read, P!Eviction
<1>2. \A m \in Invalidates : m.tag \in Tag /\ m.type = "Invalidate"
  BY DEF Invalidates, P!Invalidate
<1>3. \A m \in Answers : m.tag \in Tag /\ m.type \in {"ReadResponse", "EvictionResponse", "InvalidateResponse"}
  BY DEF Answers, P!Answering, P!Response, P!EvictionResponse, P!InvalidateResponse
<1>4. Attempt.type = "AttemptTransfer"
  BY DEF Attempt
<1> QED
  BY <1>1, <1>2, <1>3, <1>4

LEMMA KindsOfMessages ==
  /\ \A m \in P!Asking \cup Invalidates : IsRequest(m) /\ m.type # "AttemptTransfer" /\ m.tag \in Tag
  /\ \A m \in Answers : ~IsRequest(m) /\ m.type # "AttemptTransfer" /\ m.tag \in Tag
  /\ \A m \in Message : m # Attempt
  /\ \A c \in Connection : \A m \in Asked(c) :
       (m.type = "Invalidate" <=> c = Remote) /\ m \in P!Asking \cup Invalidates
BY MessageTypes DEF IsRequest, Message, Sends, Asked

LEMMA KindsOfEvents ==
  ASSUME NEW e \in Event
  PROVE  /\ e.delay \in Nat
         /\ e.to = "Bus" => \/ e.from \in Local /\ e.msg \in Sends
                            \/ e.from = Remote /\ e.msg \in Invalidates \cup Answers
                            \/ e.from = "Bus" /\ e.msg = Attempt
         /\ e.to # "Bus" => e.to \in Connection /\ e.from = "Bus" /\ e.msg \in Message
BY ConnectionAssumption DEF Event, Connection

LEMMA CachesAnswer ==
  P!Asking \subseteq P!Sending /\ P!Sending \subseteq Sends /\ P!Asking \subseteq Sends
BY DEF P!Sending, Sends, Answers

(* A cache that sends nothing is as good with any outbox.                   *)
LEMMA EmptyBoxes ==
  ASSUME NEW R, NEW S, NEW V, NEW W, V \subseteq W, NEW c, P!CacheInv(c, R, V),
         c.toLocal = <<>>, c.toRemote = <<>>
  PROVE  P!CacheInv(c, S, W)
<1>1. c \in P!CacheObject(R)
  BY DEF P!CacheInv, P!BlocksInv
<1>2. c = P!WithoutMessages(c)
  BY <1>1 DEF P!CacheObject, P!WithoutMessages
<1>3. P!Covers(W, V, c)
  BY DEF P!Covers
<1> QED
  BY <1>2, <1>3, P!OutboxesEmptied
-----------------------------------------------------------------------------
(* The bus.                                                                 *)
LEMMA NoTransferIsNone == NoTransfer \notin Transfer
<1>1. P!Asking \cup Invalidates =
        {C!Read(t, x, NoID) : t \in Tag, x \in BOOLEAN}
          \cup {C!Eviction(t, b) : t \in Tag, b \in BOOLEAN} \cup {C!Invalidate(t) : t \in Tag}
  BY DEF P!Asking, Invalidates, P!Read, P!Eviction, P!Invalidate, C!Read, C!Eviction, C!Invalidate
<1>2. 1..Cardinality(Local) \subseteq Nat
  BY ConnectionAssumption, FS_CardinalityType
<1> HIDE DEF Connection
<1> QED
  BY <1>1, <1>2, NoTransferAssumption DEF Transfer

LEMMA ConnectionsCounted ==
  /\ Cardinality(Local) \in Nat /\ Cardinality(Local) > 1
  /\ Cardinality(Connection) - 1 = Cardinality(Local)
  /\ \A c \in Connection :
       /\ IsFiniteSet(Local \ {c})
       /\ Cardinality(Local \ {c}) = IF c = Remote THEN Cardinality(Local) ELSE Cardinality(Local) - 1
<1>1. Cardinality(Local) \in Nat
  BY ConnectionAssumption, FS_CardinalityType
<1>2. Cardinality(Connection) = Cardinality(Local) + 1
  BY ConnectionAssumption, FS_AddElement DEF Connection
<1>3. ASSUME NEW c \in Connection
      PROVE  /\ IsFiniteSet(Local \ {c})
             /\ Cardinality(Local \ {c}) = IF c = Remote THEN Cardinality(Local) ELSE Cardinality(Local) - 1
  BY ConnectionAssumption, FS_RemoveElement DEF Connection
<1> QED
  BY <1>1, <1>2, <1>3, ConnectionAssumption

(* The other caches are asked.                                              *)
AskedBy(c, m) ==
  LET asked == SetToSeq(Local \ {c})
  IN [k \in DOMAIN asked |-> [to |-> asked[k], from |-> "Bus", msg |-> m, delay |-> 0]]

AreNear(s, t, n) ==
  \A u \in Tag : Count(s, Below(u)) = 0 /\ Count(s, Near(u)) = IF u = t THEN n ELSE 0

LEMMA AskedByTyped ==
  ASSUME NEW c \in Connection, NEW m \in Asked(c), NEW s, s = AskedBy(c, m)
  PROVE  /\ s \in Seq(Event)
         /\ \A k \in DOMAIN s : s[k].msg = m /\ s[k].from = "Bus" /\ s[k].to \in Local
         /\ AreNear(s, m.tag, Cardinality(Local \ {c}))
<1> DEFINE n == Cardinality(Local \ {c})
           a == SetToSeq(Local \ {c})
<1>1. /\ n \in Nat /\ a \in Seq(Local \ {c}) /\ DOMAIN a = 1..n /\ Len(a) = n
  BY ConnectionsCounted, SetToSeqIs, FS_CardinalityType
<1>2. s = [k \in 1..n |-> [to |-> a[k], from |-> "Bus", msg |-> m, delay |-> 0]]
  BY <1>1 DEF AskedBy
<1> HIDE DEF a, n
<1>3. m \in Message /\ IsRequest(m) /\ m.type # "AttemptTransfer"
  BY KindsOfMessages DEF Message, Sends
<1>4. \A k \in 1..n : a[k] \in Local
  BY <1>1
<1>5. \A k \in 1..n : /\ s[k] \in Event
                      /\ s[k].msg = m /\ s[k].from = "Bus" /\ s[k].to \in Local
  BY <1>2, <1>3, <1>4 DEF Event, Connection
<1>6. s \in Seq(Event) /\ DOMAIN s = 1..n /\ Len(s) = n
  <2>1. s \in [1..n -> Event]
    BY <1>2, <1>5
  <2> QED
    BY <1>1, <2>1
<1>7. ASSUME NEW t \in Tag
      PROVE  /\ Count(s, Below(t)) = 0
             /\ Count(s, Near(t)) = IF t = m.tag THEN n ELSE 0
  <2>1. \A k \in DOMAIN s : s[k] \notin Below(t)
    BY <1>5, <1>6, ConnectionAssumption DEF Below, Connection
  <2>2. CASE t = m.tag
    <3>1. \A k \in DOMAIN s : s[k] \in Near(t)
      BY <1>3, <1>5, <1>6, <2>2, ConnectionAssumption DEF Near, IsOpen, Connection
    <3> QED
      BY <1>6, <2>1, <2>2, <3>1, CountAll, CountZero
  <2>3. CASE t # m.tag
    <3>1. \A k \in DOMAIN s : s[k] \notin Near(t)
      BY <1>5, <1>6, <2>3 DEF Near, IsOpen
    <3> QED
      BY <1>6, <2>1, <2>3, <3>1, CountZero
  <2> QED
    BY <2>2, <2>3
<1>8. AreNear(s, m.tag, n)
  BY <1>7 DEF AreNear
<1> QED
  BY <1>5, <1>6, <1>8 DEF n

(* The message at place k goes: the transfer of c for it.                   *)
Started(m, c) == [pendingResponses |-> Cardinality(Connection) - 1, solicitingMsg |-> m,
                  solicitingConnection |-> c, satisfied |-> FALSE]

LEMMA StartedTyped ==
  ASSUME NEW c \in Connection, NEW m \in Asked(c), NEW x, x = Started(m, c)
  PROVE  /\ x \in Transfer /\ x # NoTransfer
         /\ x.pendingResponses = Cardinality(Local) /\ x.solicitingMsg = m
         /\ x.solicitingConnection = c /\ x.satisfied = FALSE
<1>1. Cardinality(Connection) - 1 \in 1..Cardinality(Local)
  BY ConnectionsCounted
<1>2. m \in P!Asking \cup Invalidates
  BY KindsOfMessages
<1>3. x \in Transfer
  BY <1>1, <1>2 DEF Started, Transfer
<1> QED
  BY <1>3, ConnectionsCounted, NoTransferIsNone DEF Started

(* What AttemptTransfer does: nothing, when no message can go, or one that   *)
(* can is broadcast.                                                        *)
Going(d, c, k, b) ==
  LET m == d.waitingMsgs[c][k]
  IN /\ b.pendingTransfers = [d.pendingTransfers EXCEPT ![m.tag] = Started(m, c)]
     /\ b.waitingMsgs = [d.waitingMsgs EXCEPT ![c] = RemoveAt(@, k)]
     /\ b.out = AskedBy(c, m)

LEMMA AttemptIs ==
  ASSUME NEW d, BusOK(d), d.out = <<>>, NEW b \in AttemptTransfer(d)
  PROVE  \/ /\ \A c \in Connection : Ready(d, c) = {}
            /\ b = [d EXCEPT !.transferInProgress = FALSE]
         \/ /\ b \in BusRecord
            /\ \E c \in Connection : \E k \in Ready(d, c) : Going(d, c, k, b)
<1> DEFINE pending == {c \in Connection : Ready(d, c) # {}}
           First(c) == CHOOSE k \in Ready(d, c) : \A j \in Ready(d, c) : k <= j
           Busy(c) == [d EXCEPT !.transferInProgress = TRUE, !.waitingMsgs[c] = RemoveAt(@, First(c))]
           Goes(c) == BroadcastMsg(Busy(c), d.waitingMsgs[c][First(c)], c)
<1>1. CASE pending = {}
  BY <1>1 DEF AttemptTransfer
<1>2. CASE pending # {}
  <2>1. PICK c \in pending : b = Goes(c)
    <3>1. AttemptTransfer(d) = {Goes(c) : c \in IF Remote \in pending THEN {Remote} ELSE pending}
      BY <1>2 DEF AttemptTransfer
    <3> HIDE DEF pending, Goes
    <3> QED
      BY <3>1
  <2> DEFINE k == First(c)
             q == d.waitingMsgs[c]
             m == q[k]
  <2>2. c \in Connection /\ Ready(d, c) # {}
    OBVIOUS
  <2>3. q \in Seq(P!Asking \cup Invalidates) /\ \A j \in DOMAIN q : q[j] \in Asked(c)
    BY <2>2 DEF BusOK, BusRecord
  <2>4. Ready(d, c) \subseteq Nat /\ Ready(d, c) \subseteq DOMAIN q
    BY <2>3 DEF Ready
  <2>5. k \in Ready(d, c)
    <3>1. \E j \in Ready(d, c) : \A i \in Ready(d, c) : j <= i
      BY <2>2, <2>4, F!LeastNat
    <3> QED
      BY <3>1
  <2>6. b = BroadcastMsg(Busy(c), m, c)
    BY <2>1
  <2> HIDE DEF k
  <2>7. m \in Asked(c) /\ m.tag \in Tag
    BY <2>2, <2>3, <2>4, <2>5, KindsOfMessages
  <2> DEFINE w == [d.waitingMsgs EXCEPT ![c] = RemoveAt(q, k)]
             f == [d EXCEPT !.transferInProgress = TRUE, !.waitingMsgs = w]
  <2>8. d \in BusRecord
    BY DEF BusOK
  <2>9. w \in [Connection -> Seq(P!Asking \cup Invalidates)]
    <3>1. RemoveAt(q, k) \in Seq(P!Asking \cup Invalidates)
      BY <2>3, <2>4, <2>5, CountRemoved
    <3> HIDE DEF q
    <3> QED
      BY <2>8, <3>1 DEF BusRecord
  <2>10. Busy(c) = f
    BY <2>8 DEF k, BusRecord
  <2> HIDE DEF w
  <2>11. f \in BusRecord /\ f.out = <<>> /\ f.waitingMsgs = w /\ f.pendingTransfers = d.pendingTransfers
    BY <2>8, <2>9 DEF BusRecord
  <2>12. b = BroadcastMsg(f, m, c)
    BY <2>6, <2>10
  <2> HIDE DEF f, m, q
  <2>13. AskedBy(c, m) \in Seq(Event) /\ Started(m, c) \in Transfer
    BY <2>2, <2>7, AskedByTyped, StartedTyped
  <2>14. b = [f EXCEPT !.out = f.out \o AskedBy(c, m),
                       !.pendingTransfers = [f.pendingTransfers EXCEPT ![m.tag] = Started(m, c)]]
    BY <2>11, <2>12 DEF BroadcastMsg, AskedBy, Started, BusRecord
  <2>15. f.out \o AskedBy(c, m) = AskedBy(c, m)
    BY <2>11, <2>13
  <2>16. /\ b \in BusRecord /\ b.out = AskedBy(c, m) /\ b.waitingMsgs = w
         /\ b.pendingTransfers = [d.pendingTransfers EXCEPT ![m.tag] = Started(m, c)]
    <3>1. [f.pendingTransfers EXCEPT ![m.tag] = Started(m, c)] \in [Tag -> Transfer \cup {NoTransfer}]
      BY <2>7, <2>11, <2>13 DEF BusRecord
    <3> QED
      BY <2>11, <2>13, <2>14, <2>15, <3>1 DEF BusRecord
  <2>17. Going(d, c, k, b)
    BY <2>16 DEF Going, m, q, w
  <2> QED
    BY <2>2, <2>5, <2>16, <2>17
<1> QED
  BY <1>1, <1>2

(* A message that goes leaves everything counted: nothing was to come for   *)
(* its address.                                                             *)
LEMMA GoingKeeps ==
  ASSUME NEW d, NEW q, BusInv(d, q), d.out = <<>>, NEW c \in Connection, NEW k \in Ready(d, c),
         NEW b \in BusRecord, Going(d, c, k, b), NEW r, r = q \o b.out
  PROVE  /\ BusInv(b, r) /\ Unsatisfied(b)
         /\ \A n \in Local : ReadTags(d, q, n) \subseteq ReadTags(b, r, n)
<1> DEFINE w == d.waitingMsgs[c]
           m == w[k]
           t == m.tag
           x == Started(m, c)
           s == AskedBy(c, m)
           n0 == Cardinality(Local \ {c})
<1>1. /\ d \in BusRecord /\ q \in Seq(Event)
      /\ w \in Seq(P!Asking \cup Invalidates) /\ k \in DOMAIN w
      /\ \A j \in DOMAIN w : w[j] \in Asked(c)
  BY DEF BusInv, BusOK, BusRecord, Ready
<1>2. d.pendingTransfers[t] = NoTransfer
  BY DEF Ready
<1>3. /\ b.pendingTransfers = [d.pendingTransfers EXCEPT ![t] = x]
      /\ b.waitingMsgs = [d.waitingMsgs EXCEPT ![c] = RemoveAt(w, k)]
      /\ b.out = s
  BY DEF Going
<1>4. m \in Asked(c) /\ t \in Tag
  BY <1>1, KindsOfMessages
<1> HIDE DEF m, w
<1>5. /\ x \in Transfer /\ x # NoTransfer
      /\ x.pendingResponses = Cardinality(Local) /\ x.solicitingMsg = m
      /\ x.solicitingConnection = c /\ x.satisfied = FALSE
  BY <1>4, StartedTyped
<1>6. /\ s \in Seq(Event)
      /\ \A j \in DOMAIN s : s[j].msg = m /\ s[j].from = "Bus" /\ s[j].to \in Local
      /\ \A u \in Tag : /\ Count(s, Below(u)) = 0
                        /\ Count(s, Near(u)) = IF u = t THEN n0 ELSE 0
  <2>1. s \in Seq(Event) /\ \A j \in DOMAIN s : s[j].msg = m /\ s[j].from = "Bus" /\ s[j].to \in Local
    BY <1>4, AskedByTyped
  <2>2. AreNear(s, t, n0)
    BY <1>4, AskedByTyped
  <2> QED
    BY <2>1, <2>2 DEF AreNear
<1>7. RemoveAt(w, k) \in Seq(P!Asking \cup Invalidates)
      /\ (\A i \in DOMAIN RemoveAt(w, k) : RemoveAt(w, k)[i] \in Asked(c))
      /\ (\A j \in DOMAIN w : j # k => \E i \in DOMAIN RemoveAt(w, k) : RemoveAt(w, k)[i] = w[j])
  <2> DEFINE v == RemoveAt(w, k)
  <2>1. v = P!Without(w, k)
    BY DEF RemoveAt, P!Without
  <2> HIDE DEF v, w
  <2>2. /\ v \in Seq(P!Asking \cup Invalidates)
        /\ \A j \in DOMAIN w : j # k => \E i \in DOMAIN v : v[i] = w[j]
        /\ \A i \in DOMAIN v : P!Before(k, i) \in DOMAIN w /\ v[i] = w[P!Before(k, i)]
    BY <1>1, <2>1, P!Removed
  <2> QED
    BY <1>1, <2>2 DEF v
<1> HIDE DEF t, x, s
<1>8. /\ b.pendingTransfers[t] = x
      /\ \A u \in Tag : u # t => b.pendingTransfers[u] = d.pendingTransfers[u]
  BY <1>1, <1>3, <1>4 DEF BusRecord
<1>9. /\ b.waitingMsgs[c] = RemoveAt(w, k)
      /\ \A n \in Connection : n # c => b.waitingMsgs[n] = d.waitingMsgs[n]
  BY <1>1, <1>3 DEF BusRecord
<1>10. BusOK(b)
  <2>1. \A n \in Connection : \A j \in DOMAIN b.waitingMsgs[n] : b.waitingMsgs[n][j] \in Asked(n)
    BY <1>7, <1>9 DEF BusInv, BusOK
  <2>2. \A u \in Tag : LET y == b.pendingTransfers[u] IN
          y # NoTransfer => y.solicitingMsg \in Asked(y.solicitingConnection) /\ y.solicitingMsg.tag = u
    <3> TAKE u \in Tag
    <3>1. CASE u = t
      BY <1>4, <1>5, <1>8, <3>1 DEF t
    <3>2. CASE u # t
      BY <1>8, <3>2 DEF BusInv, BusOK
    <3> QED
      BY <3>1, <3>2
  <2> QED
    BY <2>1, <2>2 DEF BusOK
<1>11. /\ r \in Seq(Event)
       /\ \A i \in DOMAIN r : (\E j \in DOMAIN q : r[i] = q[j]) \/ (\E j \in DOMAIN s : r[i] = s[j])
       /\ \A j \in DOMAIN q : \E i \in DOMAIN r : r[i] = q[j]
  <2>1. r \in Seq(Event) /\ Joins(r, q, s)
    BY <1>1, <1>3, <1>6, JoinedElements
  <2> QED
    BY <2>1 DEF Joins
<1>12. \A S : Count(r, S) = Count(q, S) + Count(s, S)
  BY <1>1, <1>3, <1>6, CountJoined
<1>17. n0 \in Nat /\ n0 = IF c = Remote THEN Cardinality(Local) ELSE Cardinality(Local) - 1
  <2>1. n0 = IF c = Remote THEN Cardinality(Local) ELSE Cardinality(Local) - 1
    BY Zenon, ConnectionsCounted
  <2> HIDE DEF n0
  <2> QED
    BY <2>1, ConnectionsCounted
<1> HIDE DEF n0
<1>13. AllCounted(b, r)
  <2> SUFFICES ASSUME NEW u \in Tag
               PROVE  CountedAt(b.pendingTransfers[u], Count(r, Near(u)), Count(r, Below(u)))
    BY DEF AllCounted
  <2>1. /\ Count(q, Near(u)) \in Nat /\ Count(q, Below(u)) \in Nat
        /\ CountedAt(d.pendingTransfers[u], Count(q, Near(u)), Count(q, Below(u)))
    BY <1>1, CountIsNat DEF BusInv, AllCounted
  <2>2. /\ Count(r, Near(u)) = Count(q, Near(u)) + IF u = t THEN n0 ELSE 0
        /\ Count(r, Below(u)) = Count(q, Below(u))
    <3>1. Count(r, Near(u)) = Count(q, Near(u)) + Count(s, Near(u))
      BY <1>12
    <3>2. Count(r, Below(u)) = Count(q, Below(u)) + Count(s, Below(u))
      BY <1>12
    <3> QED
      BY <1>6, <2>1, <3>1, <3>2
  <2>3. CASE u = t
    <3>1. Count(r, Near(u)) = n0 /\ Count(r, Below(u)) = 0
      BY <1>2, <1>17, <2>1, <2>2, <2>3 DEF CountedAt
    <3> QED
      BY <1>5, <1>8, <1>17, <2>3, <3>1, ConnectionsCounted DEF CountedAt
  <2>4. CASE u # t
    BY <1>8, <2>1, <2>2, <2>4
  <2> QED
    BY <2>3, <2>4
<1>14. AllBelong(b, r)
  <2> SUFFICES ASSUME NEW i \in DOMAIN r, NEW u \in Tag, IsOpen(r[i], u)
               PROVE  Belongs(r[i].msg, b.pendingTransfers[u])
    BY DEF AllBelong
  <2>1. CASE \E j \in DOMAIN q : r[i] = q[j]
    <3>1. Belongs(r[i].msg, d.pendingTransfers[u])
      BY <2>1 DEF BusInv, AllBelong
    <3>2. u # t
      BY <1>2, <3>1 DEF Belongs, t
    <3> QED
      BY <1>8, <3>1, <3>2
  <2>2. CASE \E j \in DOMAIN s : r[i] = s[j]
    <3>1. r[i].msg = m /\ u = t
      BY <1>6, <2>2 DEF IsOpen, t
    <3>2. IsRequest(m)
      BY <1>4, KindsOfMessages
    <3> QED
      BY <1>5, <1>8, <3>1, <3>2 DEF Belongs
  <2> QED
    BY <1>11, <2>1, <2>2
<1>15. Unsatisfied(b)
  BY <1>4, <1>5, <1>8 DEF Unsatisfied
<1>16. ASSUME NEW n \in Local, NEW u \in ReadTags(d, q, n)
       PROVE  u \in ReadTags(b, r, n)
  <2>1. u \in Tag /\ n \in Connection
    BY DEF ReadTags, Connection
  <2>2. CASE \E j \in DOMAIN q : IsReadFor(q[j], n, u)
    <3>1. PICK j \in DOMAIN q : IsReadFor(q[j], n, u)
      BY <2>2
    <3>2. PICK i \in DOMAIN r : r[i] = q[j]
      BY <1>11
    <3> QED
      BY <2>1, <3>1, <3>2 DEF ReadTags
  <2>3. CASE ReadWaits(d, n, u)
    <3>1. PICK j \in DOMAIN d.waitingMsgs[n] :
            d.waitingMsgs[n][j].type = "Read" /\ d.waitingMsgs[n][j].tag = u
      BY <2>3 DEF ReadWaits
    <3>2. CASE n # c
      BY <1>9, <2>1, <3>1, <3>2 DEF ReadTags, ReadWaits
    <3>3. CASE n = c /\ j # k
      <4>1. PICK i \in DOMAIN RemoveAt(w, k) : RemoveAt(w, k)[i] = w[j]
        BY <1>7, <3>1, <3>3 DEF w
      <4> QED
        BY <1>9, <2>1, <3>1, <3>3, <4>1 DEF ReadTags, ReadWaits, w
    <3>4. CASE n = c /\ j = k
      <4>1. u = t /\ m.type = "Read"
        BY <3>1, <3>4 DEF t, m, w
      <4>2. ReadRuns(b.pendingTransfers[u], n)
        BY <1>5, <1>8, <3>4, <4>1 DEF ReadRuns
      <4> QED
        BY <2>1, <4>2 DEF ReadTags
    <3> QED
      BY <3>2, <3>3, <3>4
  <2>4. CASE ReadRuns(d.pendingTransfers[u], n)
    <3>1. u # t
      BY <1>2, <2>4 DEF ReadRuns, t
    <3> QED
      BY <1>8, <2>1, <2>4, <3>1 DEF ReadTags
  <2> QED
    BY <2>2, <2>3, <2>4 DEF ReadTags
<1> QED
  BY <1>10, <1>11, <1>13, <1>14, <1>15, <1>16 DEF BusInv

(* The outbox of the bus is nobody's concern.                               *)
LEMMA OutboxOfBus ==
  ASSUME NEW b \in BusRecord, NEW e, e = [b EXCEPT !.out = <<>>], NEW q
  PROVE  /\ e.out = <<>> /\ e.pendingTransfers = b.pendingTransfers /\ e.waitingMsgs = b.waitingMsgs
         /\ e.transferInProgress = b.transferInProgress
         /\ BusInv(b, q) => BusInv(e, q)
         /\ WillAttempt(b, q) => WillAttempt(e, q)
         /\ \A n : ReadTags(e, q, n) = ReadTags(b, q, n)
<1> DEFINE z == <<>>
<1>1. z \in Seq(Event) /\ e = [b EXCEPT !.out = z]
  OBVIOUS
<1> HIDE DEF z
<1>2. /\ e \in BusRecord /\ e.pendingTransfers = b.pendingTransfers /\ e.waitingMsgs = b.waitingMsgs
      /\ e.transferInProgress = b.transferInProgress /\ e.out = z
  BY <1>1 DEF BusRecord
<1>3. BusInv(b, q) => BusInv(e, q)
  BY <1>2 DEF BusInv, BusOK, AllCounted, AllBelong
<1>4. WillAttempt(b, q) => WillAttempt(e, q)
  BY <1>2 DEF WillAttempt, Ready, Unsatisfied
<1>5. \A n : ReadTags(e, q, n) = ReadTags(b, q, n)
  BY <1>2 DEF ReadTags, ReadWaits
<1> QED
  BY <1>2, <1>3, <1>4, <1>5 DEF z

(* The bus, with the events of q scheduled, has become p, whose messages are *)
(* scheduled after those of a: no read is lost.                              *)
HandledTo(b, q, p, a) ==
  LET e == [p EXCEPT !.out = <<>>]
      r == a \o p.out
  IN /\ BusInv(e, r) /\ WillAttempt(e, r) /\ e.out = <<>>
     /\ \A n \in Local : ReadTags(b, q, n) \subseteq ReadTags(e, r, n)

LEMMA AttemptKeeps ==
  ASSUME NEW d, NEW q, BusInv(d, q), d.out = <<>>, NEW b \in AttemptTransfer(d)
  PROVE  HandledTo(d, q, b, q)
<1> SUFFICES ASSUME NEW e, e = [b EXCEPT !.out = <<>>], NEW r, r = q \o b.out
             PROVE  /\ BusInv(e, r) /\ WillAttempt(e, r) /\ e.out = <<>>
                    /\ \A n \in Local : ReadTags(d, q, n) \subseteq ReadTags(e, r, n)
    BY DEF HandledTo
<1>0. BusOK(d) /\ d \in BusRecord /\ q \in Seq(Event)
  BY DEF BusInv, BusOK
<1>1. CASE /\ \A c \in Connection : Ready(d, c) = {}
           /\ b = [d EXCEPT !.transferInProgress = FALSE]
  <2>1. /\ b \in BusRecord /\ b.pendingTransfers = d.pendingTransfers
        /\ b.waitingMsgs = d.waitingMsgs /\ b.transferInProgress = FALSE /\ b.out = <<>>
    BY <1>0, <1>1 DEF BusRecord
  <2>2. r = q
    BY <1>0, <2>1
  <2>3. BusInv(b, r)
    BY <2>1, <2>2 DEF BusInv, BusOK, AllCounted, AllBelong
  <2>4. WillAttempt(b, r)
    BY <1>1, <2>1 DEF WillAttempt, Ready
  <2>5. \A n \in Local : ReadTags(d, q, n) \subseteq ReadTags(b, r, n)
    BY <2>1, <2>2 DEF ReadTags, ReadWaits
  <2> QED
    BY <2>1, <2>3, <2>4, <2>5, OutboxOfBus
<1>2. CASE b \in BusRecord /\ \E c \in Connection : \E k \in Ready(d, c) : Going(d, c, k, b)
  <2>3. PICK c \in Connection : \E k \in Ready(d, c) : Going(d, c, k, b)
    BY <1>2
  <2>4. PICK k \in Ready(d, c) : Going(d, c, k, b)
    BY <2>3
  <2>1. /\ BusInv(b, r) /\ Unsatisfied(b)
        /\ \A n \in Local : ReadTags(d, q, n) \subseteq ReadTags(b, r, n)
    BY <1>2, <2>4, GoingKeeps
  <2>2. WillAttempt(b, r)
    BY <2>1 DEF WillAttempt
  <2> QED
    BY <1>2, <2>1, <2>2, OutboxOfBus
<1> QED
  BY <1>0, <1>1, <1>2, AttemptIs

(* A response is counted, and brings the next step of its transfer.  i = 1  *)
(* when it comes from a cache, asks = 1 when the device below is asked.     *)
LEMMA CountsAgree ==
  ASSUME NEW p \in Nat, p >= 1, NEW near \in Nat, NEW below \in Nat, NEW remote \in BOOLEAN,
         remote => p = near /\ below = 0,
         ~remote => p = near + 1 /\ below = IF near = 0 THEN 1 ELSE 0,
         NEW i \in {0, 1}, i = 1 => near # 0, i = 0 => below # 0,
         NEW asks \in {0, 1}, NEW sat \in BOOLEAN, asks = 1 <=> ~sat /\ ~remote /\ p = 2,
         NEW near2 \in Nat, near2 + i = near, NEW below2 \in Nat, below2 + (1 - i) = below + asks
  PROVE  IF p = 1 \/ (sat /\ p = 2 /\ ~remote) THEN near2 = 0 /\ below2 = 0
         ELSE /\ p > 1
              /\ remote => p - 1 = near2 /\ below2 = 0
              /\ ~remote => p - 1 = near2 + 1 /\ below2 = IF near2 = 0 THEN 1 ELSE 0
<1>1. CASE i = 0
  <2>1. ~remote /\ near = 0 /\ p = 1 /\ below = 1 /\ asks = 0
    BY <1>1
  <2> QED
    BY <1>1, <2>1
<1>2. CASE i = 1 /\ remote
  <2>1. asks = 0 /\ near2 = p - 1 /\ below2 = 0
    BY <1>2
  <2> QED
    BY <1>2, <2>1
<1>3. CASE i = 1 /\ ~remote
  <2>1. below = 0 /\ near2 = p - 2 /\ p >= 2 /\ below2 = asks
    BY <1>3
  <2> QED
    BY <1>3, <2>1
<1> QED
  BY <1>1, <1>2, <1>3

(* What the bus makes of a response.                                        *)
Passed(c, m)   == [to |-> c, from |-> "Bus", msg |-> m, delay |-> CalculateTime(m)]
Tried(m)       == [to |-> "Bus", from |-> "Bus", msg |-> Attempt, delay |-> CalculateTime(m)]
AskBelow(x)    == [to |-> Remote, from |-> "Bus", msg |-> x.solicitingMsg, delay |-> 0]

Left(x)        == x.pendingResponses - 1
SatNow(x, m)   == x.satisfied \/ Satisfies(m)
DoneNow(x, m)  == IF SatNow(x, m) THEN Left(x) = 0 \/ (Left(x) = 1 /\ x.solicitingConnection # Remote)
                                  ELSE Left(x) = 0
AnswersNow(x, m) == ~x.satisfied /\ (SatNow(x, m) \/ Left(x) = 0)
AsksBelow(x, m)  == ~SatNow(x, m) /\ x.solicitingConnection # Remote /\ Left(x) = 1

AfterOne(x, m) == IF DoneNow(x, m) THEN NoTransfer
                  ELSE [x EXCEPT !.pendingResponses = Left(x), !.satisfied = SatNow(x, m)]

SentFor(x, m) ==
  IF AnswersNow(x, m) THEN Append(<<Passed(x.solicitingConnection, m)>>, Tried(m))
  ELSE IF DoneNow(x, m) THEN <<Tried(m)>>
  ELSE IF AsksBelow(x, m) THEN <<AskBelow(x)>>
  ELSE <<>>

LEMMA ResponseIs ==
  ASSUME NEW b \in BusRecord, b.out = <<>>, NEW m, m.tag \in Tag,
         NEW x \in Transfer, x = b.pendingTransfers[m.tag], NEW p, p = ProcessResponse(b, m)
  PROVE  /\ p.pendingTransfers = [b.pendingTransfers EXCEPT ![m.tag] = AfterOne(x, m)]
         /\ p.waitingMsgs = b.waitingMsgs /\ p.transferInProgress = b.transferInProgress
         /\ p.out = SentFor(x, m)
         /\ p = [waitingMsgs |-> p.waitingMsgs, pendingTransfers |-> p.pendingTransfers,
                 transferInProgress |-> p.transferInProgress, out |-> p.out]
<1> DEFINE left == Left(x)
           satisfied == SatNow(x, m)
           done == DoneNow(x, m)
           counted == Counted(b, m.tag, satisfied, done)
           S == x.solicitingConnection
           sent == IF AnswersNow(x, m) THEN Send(counted, S, m, CalculateTime(m))
                   ELSE IF ~satisfied /\ S # Remote THEN AskRemote(counted, m, left) ELSE counted
           T == [b.pendingTransfers EXCEPT ![m.tag] = AfterOne(x, m)]
<1>1. done = IF satisfied THEN Done(b, m.tag, left) ELSE left = 0
  BY DEF Done, DoneNow
<1>2. p = IF AnswersNow(x, m) \/ done THEN Reattempt(sent, CalculateTime(m)) ELSE sent
  BY <1>1 DEF ProcessResponse, Left, SatNow, AnswersNow
<1>3. counted = [b EXCEPT !.pendingTransfers = T]
  BY DEF Counted, AfterOne, Left
<1>4. /\ counted = [waitingMsgs |-> b.waitingMsgs, pendingTransfers |-> T,
                    transferInProgress |-> b.transferInProgress, out |-> <<>>]
  BY <1>3 DEF BusRecord
<1>5. ~AnswersNow(x, m) /\ ~done /\ ~satisfied /\ S # Remote /\ left = 1 =>
        counted.pendingTransfers[m.tag].solicitingMsg = x.solicitingMsg
  <2> SUFFICES ASSUME ~done PROVE counted.pendingTransfers[m.tag].solicitingMsg = x.solicitingMsg
    OBVIOUS
  <2>1. counted.pendingTransfers[m.tag] = AfterOne(x, m)
    BY <1>4 DEF BusRecord
  <2> QED
    BY <2>1 DEF AfterOne, Transfer
<1> HIDE DEF counted, T
<1>6. CASE AnswersNow(x, m)
  <2>1. p = Reattempt(Send(counted, S, m, CalculateTime(m)), CalculateTime(m))
    BY <1>2, <1>6
  <2>2. p = [counted EXCEPT !.out = Append(<<Passed(S, m)>>, Tried(m))]
    <3> DEFINE e == Passed(S, m)
               f == Tried(m)
    <3>1. Send(counted, S, m, CalculateTime(m)) = [counted EXCEPT !.out = Append(@, e)]
      BY DEF Send, Passed
    <3>2. p = [[counted EXCEPT !.out = Append(@, e)] EXCEPT !.out = Append(@, f)]
      BY <2>1, <3>1 DEF Reattempt, Send, Tried, Attempt
    <3> HIDE DEF e, f
    <3> DEFINE v == <<e>>
               w == Append(v, f)
    <3>3. p = [counted EXCEPT !.out = w]
      <4>1. [counted EXCEPT !.out = Append(@, e)] = [counted EXCEPT !.out = v]
        BY <1>4
      <4> HIDE DEF v
      <4>2. [[counted EXCEPT !.out = v] EXCEPT !.out = Append(@, f)] = [counted EXCEPT !.out = w]
        BY <1>4
      <4> QED
        BY <3>2, <4>1, <4>2
    <3> QED
      BY <3>3 DEF e, f
  <2> QED
    BY <1>4, <1>6, <2>2 DEF SentFor, T
<1>7. CASE ~AnswersNow(x, m) /\ done
  <2>1. ~(~satisfied /\ S # Remote) \/ left = 0
    BY <1>7 DEF DoneNow
  <2>2. sent = counted
    BY <1>7, <2>1 DEF AskRemote
  <2>3. p = [counted EXCEPT !.out = <<Tried(m)>>]
    <3> DEFINE f == Tried(m)
    <3>1. p = Reattempt(counted, CalculateTime(m))
      BY <1>2, <1>7, <2>2
    <3>2. p = [counted EXCEPT !.out = Append(@, f)]
      BY <3>1 DEF Reattempt, Send, Tried, Attempt
    <3> HIDE DEF f
    <3>3. p = [counted EXCEPT !.out = <<f>>]
      BY <1>4, <3>2
    <3> QED
      BY <3>3 DEF f
  <2> QED
    BY <1>4, <1>7, <2>3 DEF SentFor, T
<1>8. CASE ~AnswersNow(x, m) /\ ~done /\ AsksBelow(x, m)
  <2>1. p = Send(counted, Remote, counted.pendingTransfers[m.tag].solicitingMsg, 0)
    BY <1>2, <1>8 DEF AsksBelow, AskRemote
  <2>2. p = [counted EXCEPT !.out = <<AskBelow(x)>>]
    BY <1>4, <1>5, <1>8, <2>1 DEF Send, AskBelow, AsksBelow
  <2> QED
    BY <1>4, <1>8, <2>2 DEF SentFor, T
<1>9. CASE ~AnswersNow(x, m) /\ ~done /\ ~AsksBelow(x, m)
  <2>1. p = counted
    BY <1>2, <1>9 DEF AsksBelow, AskRemote
  <2> QED
    BY <1>4, <1>9, <2>1 DEF SentFor, T
<1> QED
  BY <1>6, <1>7, <1>8, <1>9

LEMMA AfterOneTyped ==
  ASSUME NEW x \in Transfer, NEW m
  PROVE  /\ AfterOne(x, m) \in Transfer \cup {NoTransfer}
         /\ DoneNow(x, m) => AfterOne(x, m) = NoTransfer
         /\ ~DoneNow(x, m) => /\ AfterOne(x, m) # NoTransfer
                              /\ AfterOne(x, m).solicitingMsg = x.solicitingMsg
                              /\ AfterOne(x, m).solicitingConnection = x.solicitingConnection
                              /\ AfterOne(x, m).pendingResponses = x.pendingResponses - 1
                              /\ AfterOne(x, m).satisfied = SatNow(x, m)
<1>1. CASE DoneNow(x, m)
  BY <1>1 DEF AfterOne
<1>2. CASE ~DoneNow(x, m)
  <2>1. x.pendingResponses \in 1..Cardinality(Local) /\ Cardinality(Local) \in Nat
    BY ConnectionsCounted DEF Transfer
  <2>2. Left(x) \in 1..Cardinality(Local)
    BY <1>2, <2>1 DEF DoneNow, Left
  <2>3. SatNow(x, m) \in BOOLEAN
    BY DEF SatNow
  <2>4. AfterOne(x, m) = [x EXCEPT !.pendingResponses = Left(x), !.satisfied = SatNow(x, m)]
    BY <1>2 DEF AfterOne
  <2> DEFINE l == Left(x)
             s == SatNow(x, m)
  <2>5. l = x.pendingResponses - 1
    BY DEF Left
  <2> HIDE DEF l, s
  <2>6. /\ AfterOne(x, m) \in Transfer
        /\ AfterOne(x, m).solicitingMsg = x.solicitingMsg
        /\ AfterOne(x, m).solicitingConnection = x.solicitingConnection
        /\ AfterOne(x, m).pendingResponses = l
    BY <2>2, <2>3, <2>4 DEF Transfer, l, s
  <2>7. AfterOne(x, m).satisfied = s
    BY Zenon, <2>4 DEF Transfer, l, s
  <2> QED
    BY <1>2, <2>5, <2>6, <2>7, NoTransferIsNone DEF s
<1> QED
  BY <1>1, <1>2

(* The events of a response: only the message of the transfer, to the device *)
(* below, is something more to come.                                         *)
Sent(s, x, m) ==
  /\ \A j \in DOMAIN s : \A u \in Tag :
       IsOpen(s[j], u) => AsksBelow(x, m) /\ u = x.solicitingMsg.tag /\ s[j].msg = x.solicitingMsg
  /\ AnswersNow(x, m) \/ DoneNow(x, m) => Scheduled(s)
  /\ AnswersNow(x, m) => \E j \in DOMAIN s : s[j] = Passed(x.solicitingConnection, m)

Asks(s, t, n) ==
  \A u \in Tag : Count(s, Near(u)) = 0 /\ Count(s, Below(u)) = IF u = t THEN n ELSE 0

LEMMA SentForTyped ==
  ASSUME NEW x \in Transfer, x.solicitingMsg \in Asked(x.solicitingConnection),
         NEW m \in Answers
  PROVE  /\ SentFor(x, m) \in Seq(Event)
         /\ Sent(SentFor(x, m), x, m)
         /\ Asks(SentFor(x, m), x.solicitingMsg.tag, IF AsksBelow(x, m) THEN 1 ELSE 0)
<1> DEFINE S == x.solicitingConnection
           a == x.solicitingMsg
           f == Passed(S, m)
           g == Tried(m)
           h == AskBelow(x)
           s == SentFor(x, m)
<1>1. CalculateTime(m) \in Nat
  BY TimesAssumption DEF CalculateTime
<1>2. S \in Connection /\ a \in P!Asking \cup Invalidates
  BY DEF Transfer
<1>3. /\ ~IsRequest(m) /\ m.type # "AttemptTransfer" /\ m.tag \in Tag /\ m \in Message
      /\ IsRequest(a) /\ a.type # "AttemptTransfer" /\ a.tag \in Tag /\ a \in Message
  BY <1>2, KindsOfMessages DEF Message, Sends
<1>4. f \in Event /\ f.msg = m /\ f.from = "Bus" /\ f.to = S
  BY <1>1, <1>2, <1>3 DEF Passed, Event
<1>5. g \in Event /\ g.msg = Attempt
  BY <1>1 DEF Tried, Event
<1>6. h \in Event /\ h.msg = a /\ h.from = "Bus" /\ h.to = Remote
  BY <1>3 DEF AskBelow, Event, Connection
<1>7. \A u \in Tag : ~IsOpen(f, u) /\ ~IsOpen(g, u) /\ (IsOpen(h, u) <=> u = a.tag)
  BY <1>3, <1>4, <1>5, <1>6, MessageTypes DEF IsOpen
<1>8. AsksBelow(x, m) => ~AnswersNow(x, m) /\ ~DoneNow(x, m)
  BY DEF AsksBelow, AnswersNow, DoneNow
<1> HIDE DEF f, g, h, a, S
<1>9. ASSUME NEW u \in Tag
      PROVE  /\ f \notin Near(u) /\ f \notin Below(u) /\ g \notin Near(u) /\ g \notin Below(u)
             /\ h \notin Near(u) /\ (h \in Below(u) <=> u = a.tag)
  BY <1>6, <1>7 DEF Near, Below
<1>10. CASE AnswersNow(x, m)
  <2> DEFINE v == <<f>>
  <2>1. s = Append(v, g)
    BY <1>10 DEF SentFor, f, g, S
  <2>2. v \in Seq(Event) /\ v = Append(<<>>, f) /\ DOMAIN v = {1} /\ v[1] = f /\ Len(v) = 1
    BY <1>4
  <2>3. /\ s \in Seq(Event) /\ DOMAIN s = 1..2 /\ s[1] = f /\ s[2] = g
    BY <1>5, <2>1, <2>2
  <2>4. Asks(s, a.tag, 0)
    <3> SUFFICES ASSUME NEW u \in Tag PROVE Count(s, Near(u)) = 0 /\ Count(s, Below(u)) = 0
      BY DEF Asks
    <3>1. \A k \in DOMAIN s : s[k] \notin Near(u) /\ s[k] \notin Below(u)
      BY <1>9, <2>3
    <3> HIDE DEF s
    <3> QED
      BY <2>3, <3>1, CountZero
  <2>5. Sent(s, x, m)
    BY <1>5, <1>7, <2>3 DEF Sent, Scheduled, f, S
  <2> QED
    BY <1>8, <1>10, <2>3, <2>4, <2>5 DEF a
<1>11. CASE ~AnswersNow(x, m) /\ DoneNow(x, m)
  <2>1. s = <<g>>
    BY <1>11 DEF SentFor, g
  <2>3. /\ s \in Seq(Event) /\ DOMAIN s = {1} /\ s[1] = g
    BY <1>5, <2>1
  <2>4. Asks(s, a.tag, 0)
    <3> SUFFICES ASSUME NEW u \in Tag PROVE Count(s, Near(u)) = 0 /\ Count(s, Below(u)) = 0
      BY DEF Asks
    <3>1. \A k \in DOMAIN s : s[k] \notin Near(u) /\ s[k] \notin Below(u)
      BY <1>9, <2>3
    <3> HIDE DEF s
    <3> QED
      BY <2>3, <3>1, CountZero
  <2>5. Sent(s, x, m)
    BY <1>5, <1>7, <1>11, <2>3 DEF Sent, Scheduled
  <2> QED
    BY <1>8, <1>11, <2>3, <2>4, <2>5 DEF a
<1>12. CASE AsksBelow(x, m)
  <2>1. s = <<h>>
    BY <1>8, <1>12 DEF SentFor, h
  <2>3. /\ s \in Seq(Event) /\ DOMAIN s = 1..1 /\ s[1] = h /\ Len(s) = 1
    BY <1>6, <2>1
  <2>4. Asks(s, a.tag, 1)
    <3> SUFFICES ASSUME NEW u \in Tag
                 PROVE  Count(s, Near(u)) = 0 /\ Count(s, Below(u)) = IF u = a.tag THEN 1 ELSE 0
      BY DEF Asks
    <3>1. \A k \in DOMAIN s : s[k] \notin Near(u) /\ (s[k] \in Below(u) <=> u = a.tag)
      BY <1>9, <2>3
    <3> HIDE DEF s
    <3>2. CASE u = a.tag
      BY <2>3, <3>1, <3>2, CountZero, CountAll
    <3>3. CASE u # a.tag
      BY <2>3, <3>1, <3>3, CountZero
    <3> QED
      BY <3>2, <3>3
  <2>5. Sent(s, x, m)
    BY <1>6, <1>7, <1>8, <1>12, <2>3 DEF Sent, a
  <2> QED
    BY <1>12, <2>3, <2>4, <2>5 DEF a
<1>13. CASE ~AnswersNow(x, m) /\ ~DoneNow(x, m) /\ ~AsksBelow(x, m)
  <2>1. s = <<>>
    BY <1>13 DEF SentFor
  <2>2. Asks(s, a.tag, 0)
    BY <2>1, CountEmpty DEF Asks
  <2>3. Sent(s, x, m)
    BY <1>13, <2>1 DEF Sent
  <2> QED
    BY <1>13, <2>1, <2>2, <2>3 DEF a
<1> QED
  BY <1>10, <1>11, <1>12, <1>13

LEMMA ResponseKeeps ==
  ASSUME NEW b, NEW q, BusInv(b, q), WillAttempt(b, q), b.out = <<>>,
         NEW k \in DOMAIN q, q[k].to = "Bus", NEW m, m = q[k].msg, m \in Answers,
         NEW p, p = ProcessResponse(b, m)
  PROVE  HandledTo(b, q, p, RemoveAt(q, k))
<1> SUFFICES ASSUME NEW e, e = [p EXCEPT !.out = <<>>], NEW r, r = RemoveAt(q, k) \o p.out
             PROVE  /\ BusInv(e, r) /\ WillAttempt(e, r) /\ e.out = <<>>
                    /\ \A n \in Local : ReadTags(b, q, n) \subseteq ReadTags(e, r, n)
    BY DEF HandledTo
<1> DEFINE t == m.tag
           x == b.pendingTransfers[t]
           f == q[k]
           s == SentFor(x, m)
           y == AfterOne(x, m)
           i == IF f.from = Remote THEN 0 ELSE 1
           asks == IF AsksBelow(x, m) THEN 1 ELSE 0
<1>1. /\ b \in BusRecord /\ q \in Seq(Event) /\ f \in Event
  BY DEF BusInv, BusOK
<1>2. /\ t \in Tag /\ ~IsRequest(m) /\ m.type # "AttemptTransfer" /\ m \in Message
  BY KindsOfMessages DEF Message, Sends
<1>3. f.from \in Local \cup {Remote} /\ f.from # "Bus"
  BY <1>1, <1>2, KindsOfEvents, KindsOfMessages, ConnectionAssumption DEF Connection
<1>4. /\ IsOpen(f, t) /\ \A u \in Tag : IsOpen(f, u) => u = t
      /\ f \in Near(t) <=> f.from # Remote
      /\ f \in Below(t) <=> f.from = Remote
  BY <1>1, <1>2, <1>3, ConnectionAssumption DEF IsOpen, Near, Below, Connection
<1>5. Belongs(m, x) /\ x # NoTransfer
  BY <1>2, <1>4 DEF BusInv, AllBelong, Belongs
<1>6. /\ x \in Transfer /\ x.solicitingMsg \in Asked(x.solicitingConnection)
      /\ x.solicitingMsg.tag = t /\ m.type = AnswerTo(x.solicitingMsg)
  BY <1>1, <1>2, <1>5 DEF BusInv, BusOK, BusRecord, Belongs
<1>7. s \in Seq(Event) /\ Sent(s, x, m) /\ Asks(s, t, asks)
  BY <1>6, SentForTyped
<1>8. /\ y \in Transfer \cup {NoTransfer}
      /\ DoneNow(x, m) => y = NoTransfer
      /\ ~DoneNow(x, m) => /\ y # NoTransfer
                           /\ y.solicitingMsg = x.solicitingMsg
                           /\ y.solicitingConnection = x.solicitingConnection
                           /\ y.pendingResponses = x.pendingResponses - 1
                           /\ y.satisfied = SatNow(x, m)
  BY <1>6, AfterOneTyped
<1> HIDE DEF x, f, t, s, y
<1>9. /\ p.pendingTransfers = [b.pendingTransfers EXCEPT ![t] = y]
      /\ p.waitingMsgs = b.waitingMsgs /\ p.transferInProgress = b.transferInProgress
      /\ p.out = s
      /\ p = [waitingMsgs |-> p.waitingMsgs, pendingTransfers |-> p.pendingTransfers,
              transferInProgress |-> p.transferInProgress, out |-> p.out]
  <2>1. m.tag \in Tag /\ x = b.pendingTransfers[m.tag]
    BY <1>2 DEF t, x
  <2> QED
    BY <1>1, <1>6, <2>1, ResponseIs DEF t, s, y
<1>10. p \in BusRecord
  <2>1. p.pendingTransfers \in [Tag -> Transfer \cup {NoTransfer}]
    BY <1>1, <1>8, <1>9 DEF BusRecord
  <2> QED
    BY <1>1, <1>7, <1>9, <2>1 DEF BusRecord
<1>11. /\ p.pendingTransfers[t] = y
       /\ \A u \in Tag : u # t => p.pendingTransfers[u] = b.pendingTransfers[u]
  BY <1>1, <1>2, <1>9 DEF BusRecord
<1>12. BusOK(p)
  <2>1. \A u \in Tag : LET z == p.pendingTransfers[u] IN
          z # NoTransfer => z.solicitingMsg \in Asked(z.solicitingConnection) /\ z.solicitingMsg.tag = u
    <3> TAKE u \in Tag
    <3>1. CASE u = t
      BY <1>6, <1>8, <1>11, <3>1
    <3>2. CASE u # t
      BY <1>11, <3>2 DEF BusInv, BusOK
    <3> QED
      BY <3>1, <3>2
  <2> QED
    BY <1>9, <1>10, <2>1 DEF BusInv, BusOK
<1>13. /\ r \in Seq(Event)
       /\ \A S : Count(r, S) + (IF f \in S THEN 1 ELSE 0) = Count(q, S) + Count(s, S)
       /\ \A j \in DOMAIN r : \/ \E l \in DOMAIN q : r[j] = q[l]
                              \/ \E l \in DOMAIN s : r[j] = s[l]
       /\ \A j \in DOMAIN q : j # k => \E l \in DOMAIN r : r[l] = q[j]
       /\ \A j \in DOMAIN s : \E l \in DOMAIN r : r[l] = s[j]
  <2>1. r = RemoveAt(q, k) \o s
    BY <1>9
  <2>2. r \in Seq(Event) /\ Exchanges(r, q, k, s)
    BY <1>1, <1>7, <2>1, CountExchanged
  <2> QED
    BY <2>2 DEF Exchanges, f
<1> HIDE DEF i, asks
<1>14. AllCounted(p, r)
  <2> SUFFICES ASSUME NEW u \in Tag
               PROVE  CountedAt(p.pendingTransfers[u], Count(r, Near(u)), Count(r, Below(u)))
    BY DEF AllCounted
  <2> DEFINE near == Count(q, Near(u))
             below == Count(q, Below(u))
             near2 == Count(r, Near(u))
             below2 == Count(r, Below(u))
  <2>1. /\ near \in Nat /\ below \in Nat /\ near2 \in Nat /\ below2 \in Nat
        /\ CountedAt(b.pendingTransfers[u], near, below)
    BY <1>1, <1>13, CountIsNat DEF BusInv, AllCounted
  <2>2. /\ near2 + (IF f \in Near(u) THEN 1 ELSE 0) = near + Count(s, Near(u))
        /\ below2 + (IF f \in Below(u) THEN 1 ELSE 0) = below + Count(s, Below(u))
    BY <1>13
  <2>3. /\ Count(s, Near(u)) = 0
        /\ Count(s, Below(u)) = IF u = t THEN asks ELSE 0
    BY <1>7 DEF Asks
  <2>6. (f \in Near(u) => near # 0) /\ (f \in Below(u) => below # 0)
    BY <1>1, CountZero DEF f
  <2> HIDE DEF near, below, near2, below2
  <2>4. CASE u # t
    <3>1. f \notin Near(u) /\ f \notin Below(u)
      BY <1>4, <2>4 DEF Near, Below
    <3>2. near2 = near /\ below2 = below
      BY <2>1, <2>2, <2>3, <2>4, <3>1
    <3> QED
      BY <1>11, <2>1, <2>4, <3>2 DEF near2, below2
  <2>5. CASE u = t
    <3> DEFINE rr == x.pendingResponses
               remote == x.solicitingConnection = Remote
               sat == SatNow(x, m)
    <3>1. rr \in Nat /\ rr >= 1
      BY <1>6, ConnectionsCounted DEF Transfer
    <3>2. /\ remote => rr = near /\ below = 0
          /\ ~remote => rr = near + 1 /\ below = IF near = 0 THEN 1 ELSE 0
      BY <1>5, <2>1, <2>5 DEF CountedAt, x
    <3>3. /\ i \in {0, 1} /\ (i = 1 => near # 0) /\ (i = 0 => below # 0)
          /\ near2 + i = near /\ below2 + (1 - i) = below + asks
      BY <1>4, <2>1, <2>2, <2>3, <2>5, <2>6 DEF i
    <3>4. asks \in {0, 1} /\ (asks = 1 <=> ~sat /\ ~remote /\ rr = 2)
      BY <3>1 DEF asks, AsksBelow, Left
    <3>5. sat \in BOOLEAN /\ remote \in BOOLEAN
      BY DEF SatNow
    <3>6. DoneNow(x, m) <=> rr = 1 \/ (sat /\ rr = 2 /\ ~remote)
      BY <3>1 DEF DoneNow, Left
    <3> HIDE DEF rr, remote, sat
    <3>7. IF rr = 1 \/ (sat /\ rr = 2 /\ ~remote) THEN near2 = 0 /\ below2 = 0
          ELSE /\ rr > 1
               /\ remote => rr - 1 = near2 /\ below2 = 0
               /\ ~remote => rr - 1 = near2 + 1 /\ below2 = IF near2 = 0 THEN 1 ELSE 0
      BY <2>1, <3>1, <3>2, <3>3, <3>4, <3>5, CountsAgree
    <3>8. CountedAt(y, near2, below2)
      <4>1. CASE DoneNow(x, m)
        BY <1>8, <3>6, <3>7, <4>1 DEF CountedAt
      <4>2. CASE ~DoneNow(x, m)
        BY <1>8, <3>6, <3>7, <4>2 DEF CountedAt, rr, remote
      <4> QED
        BY <4>1, <4>2
    <3> QED
      BY <1>11, <2>5, <3>8 DEF near2, below2
  <2> QED
    BY <2>4, <2>5
<1>15. AllBelong(p, r)
  <2> SUFFICES ASSUME NEW j \in DOMAIN r, NEW u \in Tag, IsOpen(r[j], u)
               PROVE  Belongs(r[j].msg, p.pendingTransfers[u])
    BY DEF AllBelong
  <2>0. p.pendingTransfers[u] # NoTransfer
    <3>1. r[j] \in Near(u) \/ r[j] \in Below(u)
      BY <1>13 DEF Near, Below
    <3>2. Count(r, Near(u)) # 0 \/ Count(r, Below(u)) # 0
      BY <1>13, <3>1, CountZero
    <3> QED
      BY <1>14, <3>2 DEF AllCounted, CountedAt
  <2>1. CASE \E l \in DOMAIN q : r[j] = q[l]
    <3>1. Belongs(r[j].msg, b.pendingTransfers[u])
      BY <2>1 DEF BusInv, AllBelong
    <3>2. CASE u # t
      BY <1>11, <3>1, <3>2
    <3>3. CASE u = t
      BY <1>8, <1>11, <2>0, <3>1, <3>3 DEF Belongs, x
    <3> QED
      BY <3>2, <3>3
  <2>2. CASE \E l \in DOMAIN s : r[j] = s[l]
    <3>1. u = t /\ r[j].msg = x.solicitingMsg
      BY <1>6, <1>7, <2>2 DEF Sent
    <3>2. IsRequest(x.solicitingMsg)
      BY <1>6, KindsOfMessages DEF Transfer
    <3> QED
      BY <1>8, <1>11, <2>0, <3>1, <3>2 DEF Belongs
  <2> QED
    BY <1>13, <2>1, <2>2
<1>16. WillAttempt(p, r)
  <2> SUFFICES ASSUME p.transferInProgress \/ \E c \in Connection : Ready(p, c) # {}
               PROVE  Scheduled(r) \/ Unsatisfied(p)
    BY DEF WillAttempt
  <2>1. CASE AnswersNow(x, m) \/ DoneNow(x, m)
    <3>1. Scheduled(s)
      BY <1>7, <2>1 DEF Sent
    <3>2. PICK j \in DOMAIN s : s[j].msg = Attempt
      BY <3>1 DEF Scheduled
    <3>3. PICK l \in DOMAIN r : r[l] = s[j]
      BY <1>13
    <3> QED
      BY <3>2, <3>3 DEF Scheduled
  <2>2. CASE ~AnswersNow(x, m) /\ ~DoneNow(x, m)
    <3>1. ASSUME NEW c \in Connection PROVE Ready(p, c) \subseteq Ready(b, c)
      <4> SUFFICES ASSUME NEW j \in Ready(p, c) PROVE j \in Ready(b, c)
        OBVIOUS
      <4>1. /\ j \in DOMAIN b.waitingMsgs[c] /\ b.waitingMsgs[c][j].tag \in Tag
            /\ p.pendingTransfers[b.waitingMsgs[c][j].tag] = NoTransfer
        <5>1. j \in DOMAIN b.waitingMsgs[c] /\ p.pendingTransfers[b.waitingMsgs[c][j].tag] = NoTransfer
          BY <1>9 DEF Ready
        <5>2. b.waitingMsgs[c][j] \in Asked(c)
          BY <5>1 DEF BusInv, BusOK
        <5> QED
          BY <5>1, <5>2, KindsOfMessages
      <4>2. b.waitingMsgs[c][j].tag # t
        BY <1>8, <1>11, <2>2, <4>1
      <4> QED
        BY <1>11, <4>1, <4>2 DEF Ready
    <3>2. b.transferInProgress \/ \E c \in Connection : Ready(b, c) # {}
      BY <1>9, <3>1
    <3>3. CASE Scheduled(q)
      <4>1. PICK j \in DOMAIN q : q[j].msg = Attempt
        BY <3>3 DEF Scheduled
      <4>2. j # k
        BY <1>2, <4>1, KindsOfMessages
      <4> QED
        BY <1>13, <4>1, <4>2 DEF Scheduled
    <3>4. CASE Unsatisfied(b)
      <4>1. PICK u \in Tag : b.pendingTransfers[u] # NoTransfer /\ ~b.pendingTransfers[u].satisfied
        BY <3>4 DEF Unsatisfied
      <4>2. CASE u # t
        BY <1>11, <4>1, <4>2 DEF Unsatisfied
      <4>3. CASE u = t
        <5>1. ~y.satisfied /\ y # NoTransfer
          BY <1>8, <2>2, <4>1, <4>3 DEF AnswersNow, x
        <5> QED
          BY <1>2, <1>11, <5>1 DEF Unsatisfied
      <4> QED
        BY <4>2, <4>3
    <3> QED
      BY <3>2, <3>3, <3>4 DEF WillAttempt
  <2> QED
    BY <2>1, <2>2
<1>17. ASSUME NEW n \in Local, NEW u \in ReadTags(b, q, n)
       PROVE  u \in ReadTags(p, r, n)
  <2>1. u \in Tag /\ n \in Connection /\ n # "Bus"
    BY ConnectionAssumption DEF ReadTags, Connection
  <2>2. CASE \E j \in DOMAIN q : IsReadFor(q[j], n, u)
    <3>1. PICK j \in DOMAIN q : IsReadFor(q[j], n, u)
      BY <2>2
    <3>2. j # k
      <4>1. m.type # "Read"
        BY <1>2 DEF IsRequest
      <4> QED
        BY <2>1, <3>1, <4>1 DEF IsReadFor
    <3>3. PICK l \in DOMAIN r : r[l] = q[j]
      BY <1>13, <3>2
    <3> QED
      BY <2>1, <3>1, <3>3 DEF ReadTags
  <2>3. CASE ReadWaits(b, n, u)
    BY <1>9, <2>1, <2>3 DEF ReadTags, ReadWaits
  <2>4. CASE ReadRuns(b.pendingTransfers[u], n)
    <3>1. CASE u # t
      BY <1>11, <2>1, <2>4, <3>1 DEF ReadTags
    <3>2. CASE u = t /\ AnswersNow(x, m)
      <4>1. PICK j \in DOMAIN s : s[j] = Passed(x.solicitingConnection, m)
        BY <1>7, <3>2 DEF Sent
      <4>2. PICK l \in DOMAIN r : r[l] = s[j]
        BY <1>13
      <4>3. m.type = "ReadResponse" /\ x.solicitingConnection = n
        BY <1>6, <2>4, <3>2 DEF ReadRuns, AnswerTo, x
      <4>4. IsReadFor(r[l], n, u)
        BY <3>2, <4>1, <4>2, <4>3 DEF Passed, IsReadFor, t
      <4> QED
        BY <2>1, <4>4 DEF ReadTags
    <3>3. CASE u = t /\ ~AnswersNow(x, m)
      <4>1. ~x.satisfied /\ x.solicitingConnection = n /\ x.solicitingMsg.type = "Read"
        BY <2>4, <3>3 DEF ReadRuns, x
      <4>2. ~DoneNow(x, m) /\ ~SatNow(x, m)
        BY <3>3, <4>1 DEF AnswersNow, DoneNow
      <4>3. ReadRuns(y, n)
        BY <1>8, <4>1, <4>2 DEF ReadRuns
      <4> QED
        BY <1>11, <2>1, <3>3, <4>3 DEF ReadTags
    <3> QED
      BY <3>1, <3>2, <3>3
  <2> QED
    BY <2>2, <2>3, <2>4 DEF ReadTags
<1>18. BusInv(p, r)
  BY <1>12, <1>13, <1>14, <1>15 DEF BusInv
<1> QED
  BY <1>10, <1>16, <1>17, <1>18, OutboxOfBus

(* An event of which nothing more is to come may go.                        *)
Leaves(a, q, k) ==
  /\ \A i \in DOMAIN a : \E j \in DOMAIN q : a[i] = q[j]
  /\ \A j \in DOMAIN q : j # k => \E i \in DOMAIN a : a[i] = q[j]

LEMMA RemovedKeeps ==
  ASSUME NEW b, NEW q, BusInv(b, q), NEW k \in DOMAIN q, \A t \in Tag : ~IsOpen(q[k], t)
  PROVE  BusInv(b, RemoveAt(q, k)) /\ Leaves(RemoveAt(q, k), q, k)
<1> DEFINE a == RemoveAt(q, k)
<1>1. q \in Seq(Event)
  BY DEF BusInv
<1>2. a \in Seq(Event) /\ Leaves(a, q, k)
  <2>1. a = P!Without(q, k)
    BY DEF RemoveAt, P!Without
  <2> HIDE DEF a
  <2>2. /\ a \in Seq(Event)
        /\ \A j \in DOMAIN q : j # k => \E i \in DOMAIN a : a[i] = q[j]
        /\ \A i \in DOMAIN a : \E j \in DOMAIN q : a[i] = q[j]
    BY <1>1, <2>1, P!Removed
  <2> QED
    BY <2>2 DEF Leaves
<1>3. \A S : Count(q, S) = Count(a, S) + IF q[k] \in S THEN 1 ELSE 0
  BY <1>1, CountRemoved
<1> HIDE DEF a
<1>4. AllCounted(b, a)
  <2> SUFFICES ASSUME NEW u \in Tag
               PROVE  CountedAt(b.pendingTransfers[u], Count(a, Near(u)), Count(a, Below(u)))
    BY DEF AllCounted
  <2>1. CountedAt(b.pendingTransfers[u], Count(q, Near(u)), Count(q, Below(u)))
    BY DEF BusInv, AllCounted
  <2>2. Count(a, Near(u)) \in Nat /\ Count(a, Below(u)) \in Nat
    BY <1>2, CountIsNat
  <2>3. q[k] \notin Near(u) /\ q[k] \notin Below(u)
    BY DEF Near, Below
  <2>4. Count(q, Near(u)) = Count(a, Near(u)) /\ Count(q, Below(u)) = Count(a, Below(u))
    <3>1. Count(q, Near(u)) = Count(a, Near(u)) + IF q[k] \in Near(u) THEN 1 ELSE 0
      BY <1>3
    <3>2. Count(q, Below(u)) = Count(a, Below(u)) + IF q[k] \in Below(u) THEN 1 ELSE 0
      BY <1>3
    <3> QED
      BY <2>2, <2>3, <3>1, <3>2
  <2> QED
    BY <2>1, <2>4
<1>5. AllBelong(b, a)
  BY <1>2 DEF BusInv, AllBelong, Leaves
<1> QED
  BY <1>2, <1>4, <1>5 DEF BusInv, a

(* What the cache waits for is still there when the event goes, unless it is *)
(* what the cache waits for.                                                *)
LEMMA RemovedReads ==
  ASSUME NEW b, NEW q, NEW a, NEW k, Leaves(a, q, k), NEW n \in Local,
         NEW u \in ReadTags(b, q, n), ~IsReadFor(q[k], n, u)
  PROVE  u \in ReadTags(b, a, n)
<1>1. CASE \E j \in DOMAIN q : IsReadFor(q[j], n, u)
  <2>1. PICK j \in DOMAIN q : IsReadFor(q[j], n, u)
    BY <1>1
  <2>2. PICK i \in DOMAIN a : a[i] = q[j]
    BY <2>1 DEF Leaves
  <2> QED
    BY <2>1, <2>2 DEF ReadTags
<1>2. CASE ReadWaits(b, n, u) \/ ReadRuns(b.pendingTransfers[u], n)
  BY <1>2 DEF ReadTags
<1> QED
  BY <1>1, <1>2 DEF ReadTags

(* A request waits where it came from.                                      *)
Waits(d, b, c, m) ==
  /\ d.pendingTransfers = b.pendingTransfers /\ d.transferInProgress = b.transferInProgress
  /\ d.out = b.out
  /\ d.waitingMsgs = [b.waitingMsgs EXCEPT ![c] = Append(b.waitingMsgs[c], m)]

LEMMA WaitsKeeps ==
  ASSUME NEW b, NEW q, BusInv(b, q), NEW c \in Connection, NEW m \in Asked(c),
         NEW d, d = [b EXCEPT !.waitingMsgs[c] = Append(@, m)]
  PROVE  /\ BusInv(d, q) /\ Waits(d, b, c, m)
         /\ \A n \in Local : ReadTags(b, q, n) \subseteq ReadTags(d, q, n)
         /\ \A n \in Local : n = c /\ m.type = "Read" => m.tag \in ReadTags(d, q, n)
<1> DEFINE w == b.waitingMsgs[c]
           v == Append(w, m)
<1>1. b \in BusRecord /\ w \in Seq(P!Asking \cup Invalidates)
  BY DEF BusInv, BusOK, BusRecord
<1>2. m \in P!Asking \cup Invalidates /\ m.tag \in Tag
  BY KindsOfMessages
<1>3. /\ v \in Seq(P!Asking \cup Invalidates)
      /\ DOMAIN w = 1..Len(w) /\ DOMAIN v = 1..(Len(w) + 1) /\ Len(w) \in Nat
      /\ \A j \in 1..Len(w) : v[j] = w[j]
      /\ v[Len(w) + 1] = m
  BY <1>1, <1>2
<1>4. d = [b EXCEPT !.waitingMsgs = [b.waitingMsgs EXCEPT ![c] = v]]
  OBVIOUS
<1> HIDE DEF v
<1>5. d \in BusRecord /\ Waits(d, b, c, m)
  BY <1>1, <1>3, <1>4 DEF BusRecord, Waits, v
<1>6. /\ d.waitingMsgs[c] = v
      /\ \A n \in Connection : n # c => d.waitingMsgs[n] = b.waitingMsgs[n]
      /\ d.pendingTransfers = b.pendingTransfers
  BY <1>1, <1>3, <1>5 DEF BusRecord, Waits, v
<1>7. BusInv(d, q)
  <2>1. \A n \in Connection : \A j \in DOMAIN d.waitingMsgs[n] : d.waitingMsgs[n][j] \in Asked(n)
    <3> SUFFICES ASSUME NEW n \in Connection, NEW j \in DOMAIN d.waitingMsgs[n]
                 PROVE  d.waitingMsgs[n][j] \in Asked(n)
      OBVIOUS
    <3>1. CASE n # c
      BY <1>6, <3>1 DEF BusInv, BusOK
    <3>2. CASE n = c
      BY <1>3, <1>6, <3>2 DEF BusInv, BusOK
    <3> QED
      BY <3>1, <3>2
  <2> QED
    BY <1>5, <1>6, <2>1 DEF BusInv, BusOK, AllCounted, AllBelong
<1>8. ASSUME NEW n \in Local, NEW u \in ReadTags(b, q, n)
      PROVE  u \in ReadTags(d, q, n)
  <2>1. u \in Tag /\ n \in Connection
    BY DEF ReadTags, Connection
  <2>2. CASE (\E k \in DOMAIN q : IsReadFor(q[k], n, u)) \/ ReadRuns(b.pendingTransfers[u], n)
    BY <1>6, <2>1, <2>2 DEF ReadTags
  <2>3. CASE ReadWaits(b, n, u)
    <3>1. CASE n # c
      BY <1>6, <2>1, <2>3, <3>1 DEF ReadTags, ReadWaits
    <3>2. CASE n = c
      <4>1. PICK j \in DOMAIN w : w[j].type = "Read" /\ w[j].tag = u
        BY <2>3, <3>2 DEF ReadWaits
      <4>2. j \in DOMAIN v /\ v[j] = w[j]
        BY <1>3, <4>1
      <4>3. ReadWaits(d, n, u)
        BY <1>6, <3>2, <4>1, <4>2 DEF ReadWaits
      <4> QED
        BY <2>1, <4>3 DEF ReadTags
    <3> QED
      BY <3>1, <3>2
  <2> QED
    BY <2>2, <2>3 DEF ReadTags
<1>9. ASSUME NEW n \in Local, n = c, m.type = "Read"
      PROVE  m.tag \in ReadTags(d, q, n)
  <2>1. Len(w) + 1 \in DOMAIN v
    BY <1>3
  <2>2. ReadWaits(d, n, m.tag)
    BY <1>3, <1>6, <1>9, <2>1 DEF ReadWaits
  <2> QED
    BY <1>2, <2>2 DEF ReadTags
<1> QED
  BY <1>5, <1>7, <1>8, <1>9

LEMMA BusKeeps ==
  ASSUME NEW b, NEW q, BusInv(b, q), WillAttempt(b, q), b.out = <<>>,
         NEW k \in DOMAIN q, q[k].to = "Bus",
         NEW p \in IF q[k].msg.type = "AttemptTransfer" THEN AttemptTransfer(b)
                   ELSE RecvMsg(b, q[k].from, q[k].msg)
  PROVE  HandledTo(b, q, p, RemoveAt(q, k))
<1> DEFINE a == RemoveAt(q, k)
           m == q[k].msg
           c == q[k].from
<1>2. /\ q[k] \in Event
      /\ \/ c \in Local /\ m \in Sends
         \/ c = Remote /\ m \in Invalidates \cup Answers
         \/ c = "Bus" /\ m = Attempt
  <2>1. q[k] \in Event
    BY DEF BusInv
  <2> QED
    BY <2>1, KindsOfEvents
<1>3. \A n \in Local : n # "Bus"
  BY ConnectionAssumption DEF Connection
<1>4. CASE m \in Answers
  <2>1. ~IsRequest(m) /\ m.type # "AttemptTransfer"
    BY <1>4, KindsOfMessages
  <2>2. p = ProcessResponse(b, m)
    BY <2>1 DEF RecvMsg
  <2> QED
    BY <1>4, <2>2, ResponseKeeps
<1>5. CASE m = Attempt
  <2>1. m.type = "AttemptTransfer"
    BY <1>5, MessageTypes
  <2>2. BusInv(b, a) /\ Leaves(a, q, k)
    <3>1. \A t \in Tag : ~IsOpen(q[k], t)
      BY <2>1 DEF IsOpen
    <3> QED
      BY <3>1, RemovedKeeps
  <2>3. \A n \in Local : ReadTags(b, q, n) \subseteq ReadTags(b, a, n)
    <3>1. \A n \in Local, u \in Tag : ~IsReadFor(q[k], n, u)
      BY <2>1 DEF IsReadFor
    <3> HIDE DEF a
    <3>2. \A n \in Local : ReadTags(b, q, n) \subseteq Tag
      BY DEF ReadTags
    <3> QED
      BY <2>2, <3>1, <3>2, RemovedReads
  <2>4. p \in AttemptTransfer(b)
    BY <2>1
  <2> HIDE DEF a
  <2>5. HandledTo(b, a, p, a)
    BY <2>2, <2>4, AttemptKeeps
  <2>6. HandledTo(b, q, p, a)
    BY <2>3, <2>5 DEF HandledTo
  <2> QED
    BY <2>6 DEF a
<1>6. CASE c \in Connection /\ m \in Asked(c)
  <2>1. IsRequest(m) /\ m.type # "AttemptTransfer" /\ c # "Bus" /\ m.tag \in Tag
    BY <1>6, KindsOfMessages, ConnectionAssumption
  <2> DEFINE d == [b EXCEPT !.waitingMsgs[c] = Append(@, m)]
  <2>2. BusInv(b, a) /\ Leaves(a, q, k)
    <3>1. \A t \in Tag : ~IsOpen(q[k], t)
      BY <2>1 DEF IsOpen
    <3> QED
      BY <3>1, RemovedKeeps
  <2>3. p \in IF b.transferInProgress THEN {d} ELSE AttemptTransfer(d)
    BY <2>1 DEF RecvMsg
  <2> HIDE DEF a
  <2>9. BusInv(b, a)
    BY <2>2
  <2>4. /\ BusInv(d, a) /\ Waits(d, b, c, m)
        /\ \A n \in Local : ReadTags(b, a, n) \subseteq ReadTags(d, a, n)
        /\ \A n \in Local : n = c /\ m.type = "Read" => m.tag \in ReadTags(d, a, n)
    <3> HIDE DEF m, c
    <3> QED
      BY <1>6, <2>9, WaitsKeeps
  <2> HIDE DEF d
  <2>5. ASSUME NEW n \in Local, NEW u \in ReadTags(b, q, n)
        PROVE  u \in ReadTags(d, a, n)
    <3>1. CASE ~IsReadFor(q[k], n, u)
      BY <2>2, <2>4, <3>1, RemovedReads
    <3>2. CASE IsReadFor(q[k], n, u)
      <4>1. n = c /\ m.type = "Read" /\ m.tag = u
        BY <1>3, <3>2 DEF IsReadFor
      <4> QED
        BY <2>4, <4>1
    <3> QED
      BY <3>1, <3>2
  <2>6. d.out = <<>>
    BY <2>4 DEF Waits
  <2>7. CASE b.transferInProgress
    <3> DEFINE e == [p EXCEPT !.out = <<>>]
               r == a \o p.out
    <3>1. p = d /\ r = a
      <4>1. p = d
        BY <2>3, <2>7
      <4>2. a \in Seq(Event)
        BY <2>2 DEF BusInv
      <4> QED
        BY <2>6, <4>1, <4>2
    <3>2. d \in BusRecord
      BY <2>4 DEF BusInv, BusOK
    <3>3. WillAttempt(d, a)
      <4>1. CASE Scheduled(q)
        <5>1. PICK j \in DOMAIN q : q[j].msg = Attempt
          BY <4>1 DEF Scheduled
        <5>2. j # k
          BY <2>1, <5>1, MessageTypes
        <5>3. PICK i \in DOMAIN a : a[i] = q[j]
          BY <2>2, <5>1, <5>2 DEF Leaves
        <5>4. Scheduled(a)
          BY <5>1, <5>3 DEF Scheduled
        <5> QED
          BY <5>4 DEF WillAttempt
      <4>2. CASE Unsatisfied(b)
        BY <2>4, <4>2 DEF WillAttempt, Unsatisfied, Waits
      <4> QED
        BY <2>7, <4>1, <4>2 DEF WillAttempt
    <3>4. e = [d EXCEPT !.out = <<>>]
      BY <3>1
    <3> HIDE DEF e, r
    <3>5. /\ BusInv(e, a) /\ WillAttempt(e, a) /\ e.out = <<>>
          /\ \A n \in Local : ReadTags(e, a, n) = ReadTags(d, a, n)
      BY <2>4, <3>2, <3>3, <3>4, OutboxOfBus
    <3>6. \A n \in Local : ReadTags(b, q, n) \subseteq ReadTags(e, a, n)
      BY <2>5, <3>5
    <3> QED
      BY <3>1, <3>5, <3>6 DEF HandledTo, e, r, a
  <2>8. CASE ~b.transferInProgress
    <3>1. p \in AttemptTransfer(d)
      BY <2>3, <2>8
    <3>2. HandledTo(d, a, p, a)
      BY <2>4, <2>6, <3>1, AttemptKeeps
    <3>3. HandledTo(b, q, p, a)
      BY <2>5, <3>2 DEF HandledTo
    <3> QED
      BY <3>3 DEF a
  <2> QED
    BY <2>7, <2>8
<1> QED
  BY <1>2, <1>4, <1>5, <1>6, ConnectionAssumption DEF Asked, Sends, Connection
-----------------------------------------------------------------------------
(* The caches.  What cache n sends is scheduled for the bus.                *)
Posted(n, s) ==
  [k \in DOMAIN s |-> [to |-> "Bus", from |-> n, msg |-> s[k].msg, delay |-> s[k].delay]]

LEMMA PostedTyped ==
  ASSUME NEW n \in Local, NEW R, R \subseteq Sends, NEW s \in P!Outbox(R)
  PROVE  /\ Posted(n, s) \in Seq(Event) /\ DOMAIN Posted(n, s) = DOMAIN s
         /\ \A k \in DOMAIN s : /\ Posted(n, s)[k].to = "Bus" /\ Posted(n, s)[k].from = n
                                /\ Posted(n, s)[k].msg = s[k].msg /\ s[k].msg \in R
<1> DEFINE r == Posted(n, s)
           E == [msg : R, delay : P!Delay]
<1>1. \A e \in E : e.msg \in R /\ e.delay \in Nat
  BY DelaysAreNumbers
<1>2. s \in Seq(E)
  BY DEF P!Outbox
<1> HIDE DEF E
<1>3. /\ Len(s) \in Nat /\ DOMAIN s = 1..Len(s)
      /\ \A k \in 1..Len(s) : s[k].msg \in R /\ s[k].delay \in Nat
  BY <1>1, <1>2, P!Elements
<1>4. r = [k \in 1..Len(s) |-> [to |-> "Bus", from |-> n, msg |-> s[k].msg, delay |-> s[k].delay]]
  BY <1>3 DEF Posted
<1>5. \A k \in 1..Len(s) : /\ r[k] \in Event
                           /\ r[k].to = "Bus" /\ r[k].from = n /\ r[k].msg = s[k].msg
  BY <1>3, <1>4 DEF Event
<1>6. DOMAIN r = 1..Len(s)
  BY <1>4
<1>7. r \in [1..Len(s) -> Event]
  BY <1>4, <1>5
<1> HIDE DEF r
<1>8. r \in Seq(Event)
  BY <1>3, <1>7
<1> QED
  BY <1>3, <1>5, <1>6, <1>8 DEF r

LEMMA CountOne ==
  ASSUME NEW q, NEW S, NEW k \in DOMAIN q, q[k] \in S, \A j \in DOMAIN q : j # k => q[j] \notin S
  PROVE  Count(q, S) = 1
<1>1. Places(q, S) = {k}
  BY DEF Places
<1> QED
  BY <1>1, FS_Singleton DEF Count

(* What a cache sends that asks for nothing more: requests of its own.      *)
OnlyAsks(s) == s \in P!Outbox(P!Asking)

(* It answers m once, and may ask besides.                                  *)
AnswersOnce(s, m) ==
  /\ s \in P!Outbox(Sends)
  /\ \E j \in DOMAIN s :
       /\ s[j].msg \in Answers /\ s[j].msg.type = AnswerTo(m) /\ s[j].msg.tag = m.tag
       /\ \A i \in DOMAIN s : i # j => s[i].msg \in P!Asking

LEMMA AnswersOf ==
  ASSUME NEW m \in P!Asking \cup Invalidates
  PROVE  /\ m.tag \in Tag
         /\ m.type = "Read" => m \in P!ReadMsg
         /\ m.type = "Read" => \A s, x \in BOOLEAN :
              /\ P!ReadResponse(m, s, x) \in Answers
              /\ P!ReadResponse(m, s, x).type = AnswerTo(m) /\ P!ReadResponse(m, s, x).tag = m.tag
         /\ m.type = "Eviction" =>
              /\ P!EvictionResponse(m.tag) \in Answers
              /\ P!EvictionResponse(m.tag).type = AnswerTo(m) /\ P!EvictionResponse(m.tag).tag = m.tag
         /\ m.type = "Invalidate" => \A b \in BOOLEAN :
              /\ P!InvalidateResponse(m.tag, b) \in Answers
              /\ P!InvalidateResponse(m.tag, b).type = AnswerTo(m)
              /\ P!InvalidateResponse(m.tag, b).tag = m.tag
         /\ m.type \in {"Read", "Eviction", "Invalidate"}
<1>1. m.tag \in Tag /\ m.type \in {"Read", "Eviction", "Invalidate"}
  BY MessageTypes
<1>2. m.type = "Read" => m \in P!ReadMsg
  BY DEF P!Asking, Invalidates, P!Read, P!Eviction, P!Invalidate, P!ReadMsg, P!IDs
<1>3. m.type = "Read" => \A s, x \in BOOLEAN :
              /\ P!ReadResponse(m, s, x) \in Answers
              /\ P!ReadResponse(m, s, x).type = AnswerTo(m) /\ P!ReadResponse(m, s, x).tag = m.tag
  BY <1>1, <1>2 DEF P!ReadResponse, P!ReadMsg, P!Response, Answers, P!Answering, AnswerTo
<1>4. m.type = "Eviction" =>
              /\ P!EvictionResponse(m.tag) \in Answers
              /\ P!EvictionResponse(m.tag).type = AnswerTo(m) /\ P!EvictionResponse(m.tag).tag = m.tag
  BY <1>1 DEF P!EvictionResponse, Answers, AnswerTo
<1>5. m.type = "Invalidate" => \A b \in BOOLEAN :
              /\ P!InvalidateResponse(m.tag, b) \in Answers
              /\ P!InvalidateResponse(m.tag, b).type = AnswerTo(m)
              /\ P!InvalidateResponse(m.tag, b).tag = m.tag
  BY <1>1 DEF P!InvalidateResponse, Answers, P!Answering, AnswerTo
<1> QED
  BY <1>1, <1>2, <1>3, <1>4, <1>5

(* One message in an outbox, and two.                                       *)
LEMMA OneSent ==
  ASSUME NEW m, NEW a \in Answers, a.type = AnswerTo(m), a.tag = m.tag,
         NEW d \in P!Delay
  PROVE  AnswersOnce(Append(<<>>, [msg |-> a, delay |-> d]), m)
<1> DEFINE e == [msg |-> a, delay |-> d]
           E == [msg : Sends, delay : P!Delay]
           s == Append(<<>>, e)
<1>1. e \in E /\ e.msg = a
  BY DEF Sends
<1> HIDE DEF e, E
<1>2. s \in Seq(E) /\ DOMAIN s = {1} /\ s[1] = e
  BY <1>1
<1> HIDE DEF s
<1>3. AnswersOnce(s, m)
  BY <1>1, <1>2 DEF AnswersOnce, P!Outbox, E
<1> QED
  BY <1>3 DEF s, e

LEMMA TwoSent ==
  ASSUME NEW m, NEW a \in Answers, a.type = AnswerTo(m), a.tag = m.tag,
         NEW b \in P!Asking, NEW d \in P!Delay
  PROVE  AnswersOnce(Append(Append(<<>>, [msg |-> a, delay |-> d]), [msg |-> b, delay |-> d]), m)
<1> DEFINE e == [msg |-> a, delay |-> d]
           f == [msg |-> b, delay |-> d]
           E == [msg : Sends, delay : P!Delay]
           v == Append(<<>>, e)
           s == Append(v, f)
<1>1. e \in E /\ f \in E /\ e.msg = a /\ f.msg = b
  BY DEF Sends
<1> HIDE DEF e, f, E
<1>2. v \in Seq(E) /\ Len(v) = 1 /\ v[1] = e
  BY <1>1
<1> HIDE DEF v
<1>3. s \in Seq(E) /\ DOMAIN s = {1, 2} /\ s[1] = e /\ s[2] = f
  <2>1. v \in Seq(E) /\ f \in E
    BY <1>1, <1>2
  <2>2. /\ s \in Seq(E) /\ Len(s) = Len(v) + 1
        /\ \A k \in 1..Len(v) : s[k] = v[k]
        /\ s[Len(v) + 1] = f
    BY <2>1, P!AppendTyped
  <2> HIDE DEF s
  <2>3. Len(s) = 2 /\ s[1] = v[1] /\ s[2] = f
    BY <1>2, <2>2
  <2> QED
    BY <1>2, <2>2, <2>3
<1> HIDE DEF s
<1>4. AnswersOnce(s, m)
  BY <1>1, <1>3 DEF AnswersOnce, P!Outbox, E
<1> QED
  BY <1>4 DEF s, v, e, f

(* A cache answers what it is asked.                                        *)
LEMMA CacheAnswers ==
  ASSUME NEW W, NEW c, CacheOK(c, W), NEW m \in P!Asking \cup Invalidates,
         NEW d \in C!FromRemote(c, m, TRUE)
  PROVE  P!CacheInv(d, Sends, W) /\ d.topCache = TRUE /\ AnswersOnce(d.toRemote, m)
<1>1. /\ P!CacheAssumptions /\ P!CacheInv(c, Sends, W)
      /\ c.topCache = TRUE /\ c.toRemote = <<>>
      /\ P!Asking \subseteq Sends /\ P!Sending \subseteq Sends
  BY ConstantsAreOK, CachesAnswer DEF CacheOK
<1>2. m.tag \in Tag /\ m.type \in {"Read", "Eviction", "Invalidate"}
  BY AnswersOf
<1> DEFINE a == TRUE
<1>3. C!FromRemote(c, m, a) = P!FromRemote(c, m, a)
  BY <1>1, <1>2, SameFromRemote
<1>4. d \in P!FromRemote(c, m, a)
  BY <1>3
<1> HIDE DEF a
<1>5. {hitTime, invalidateTime} \subseteq P!Delay
  BY DEF P!Delay
<1>6. CASE m.type = "Read"
  <2>1. d \in P!OnRemoteRead(c, m) /\ m \in P!ReadMsg
    BY <1>4, <1>6, AnswersOf DEF P!FromRemote
  <2>2. P!CacheInv(d, Sends, W) /\ d.topCache = TRUE /\ P!Responds(c, d, m)
    BY <1>1, <2>1, P!RemoteReadKeeps
  <2>3. PICK s, x \in BOOLEAN :
          d.toRemote = Append(<<>>, [msg |-> P!ReadResponse(m, s, x), delay |-> hitTime])
    BY <1>1, <2>2 DEF P!Responds
  <2> DEFINE r == P!ReadResponse(m, s, x)
  <2>4. r \in Answers /\ r.type = AnswerTo(m) /\ r.tag = m.tag
    BY <1>6, AnswersOf
  <2> HIDE DEF r
  <2>5. AnswersOnce(Append(<<>>, [msg |-> r, delay |-> hitTime]), m)
    BY <1>5, <2>4, OneSent
  <2> QED
    BY <2>2, <2>3, <2>5 DEF r
<1>7. CASE m.type = "Eviction"
  <2> DEFINE r == P!EvictionResponse(m.tag)
  <2>1. d = P!ToRemote(c, r, hitTime)
    BY <1>4, <1>7 DEF P!FromRemote
  <2>2. r \in Answers /\ r.type = AnswerTo(m) /\ r.tag = m.tag
    BY <1>7, AnswersOf
  <2> HIDE DEF r
  <2>3. /\ P!CacheInv(d, Sends, W) /\ P!SameTables(c, d)
        /\ d.toRemote = Append(c.toRemote, [msg |-> r, delay |-> hitTime])
    BY <1>1, <1>5, <2>1, <2>2, P!SendRemoteKeeps DEF Sends
  <2>4. AnswersOnce(Append(<<>>, [msg |-> r, delay |-> hitTime]), m)
    BY <1>5, <2>2, OneSent
  <2> QED
    BY <1>1, <2>3, <2>4 DEF P!SameTables
<1>8. CASE m.type = "Invalidate"
  <2>1. d \in P!OnRemoteInvalidate(c, m)
    BY <1>4, <1>8 DEF P!FromRemote
  <2>2. P!CacheInv(d, Sends, W) /\ d.topCache = TRUE /\ P!AnswersInvalidate(c, d, m.tag)
    BY <1>1, <1>2, <2>1, P!RemoteInvalidateKeeps
  <2>3. PICK b \in BOOLEAN :
          \/ d.toRemote = P!Acknowledged(c, b, m.tag)
          \/ d.toRemote = Append(P!Acknowledged(c, b, m.tag),
                                 [msg |-> P!Read(m.tag, FALSE, NoID), delay |-> invalidateTime])
    BY <2>2 DEF P!AnswersInvalidate
  <2> DEFINE r == P!InvalidateResponse(m.tag, b)
             x == FALSE
             f == P!Read(m.tag, x, NoID)
  <2>4. P!Acknowledged(c, b, m.tag) = Append(<<>>, [msg |-> r, delay |-> invalidateTime])
    BY <1>1 DEF P!Acknowledged
  <2>5. r \in Answers /\ r.type = AnswerTo(m) /\ r.tag = m.tag
    BY <1>8, AnswersOf
  <2>6. f \in P!Asking
    <3>1. x \in BOOLEAN
      OBVIOUS
    <3> HIDE DEF x
    <3> QED
      BY <1>2, <3>1 DEF P!Asking
  <2> HIDE DEF r, f
  <2>7. AnswersOnce(Append(<<>>, [msg |-> r, delay |-> invalidateTime]), m)
    BY <1>5, <2>5, OneSent
  <2>8. AnswersOnce(Append(Append(<<>>, [msg |-> r, delay |-> invalidateTime]),
                           [msg |-> f, delay |-> invalidateTime]), m)
    BY <1>5, <2>5, <2>6, TwoSent
  <2> QED
    BY <2>2, <2>3, <2>4, <2>7, <2>8 DEF f
<1> QED
  BY <1>2, <1>6, <1>7, <1>8

(* What a cache makes of an answer; that of its read it has waited for.     *)
StillAwaited(W, m) == IF m.type = "ReadResponse" THEN W \ {m.tag} ELSE W

LEMMA CacheTakes ==
  ASSUME NEW W, NEW c, CacheOK(c, W), NEW m \in Answers, NEW d \in C!FromRemote(c, m, TRUE)
  PROVE  /\ P!CacheInv(d, P!Asking, StillAwaited(W, m)) /\ d.topCache = TRUE
         /\ d.toRemote \in P!Outbox(P!Asking)
<1>1. P!CacheInv(c, P!Asking, W) /\ c.topCache = TRUE /\ P!CacheAssumptions
  <2>1. P!CacheInv(c, Sends, W) /\ c.toLocal = <<>> /\ c.toRemote = <<>>
    BY DEF CacheOK
  <2> QED
    BY <2>1, EmptyBoxes, ConstantsAreOK DEF CacheOK
<1>2. m.tag \in Tag /\ m.type \in {"ReadResponse", "EvictionResponse", "InvalidateResponse"}
  BY MessageTypes
<1> DEFINE a == TRUE
           R == P!Asking
<1>3. C!FromRemote(c, m, a) = P!FromRemote(c, m, a)
  <2>1. R \subseteq R /\ P!CacheInv(c, R, W) /\ P!Asking \subseteq R
    BY <1>1
  <2> HIDE DEF R
  <2> QED
    BY <1>1, <1>2, <2>1, SameFromRemote
<1>4. d \in P!FromRemote(c, m, a) /\ a \in BOOLEAN
  BY <1>3
<1> HIDE DEF a
<1>5. P!CacheInv(d, P!Asking, StillAwaited(W, m)) /\ d.topCache = TRUE
  <2>1. CASE m.type = "ReadResponse"
    <3>1. d \in P!OnRemoteReadResponse(c, m, a)
      BY <1>4, <2>1 DEF P!FromRemote
    <3>2. R \subseteq R /\ P!CacheInv(c, R, W) /\ P!Asking \subseteq R
      BY <1>1
    <3> HIDE DEF R
    <3>3. P!CacheInv(d, R, W \ {m.tag}) /\ d.topCache = c.topCache
      BY <1>1, <1>2, <1>4, <3>1, <3>2, P!RemoteReadResponseKeeps
    <3> QED
      BY <1>1, <2>1, <3>3 DEF StillAwaited, R
  <2>2. CASE m.type # "ReadResponse"
    <3>1. d = c
      BY <1>2, <1>4, <2>2 DEF P!FromRemote
    <3> QED
      BY <1>1, <2>2, <3>1 DEF StillAwaited
  <2> QED
    BY <2>1, <2>2
<1>6. d.toRemote \in P!Outbox(P!Asking)
  BY <1>5 DEF P!CacheInv, P!BlocksInv, P!CacheObject
<1> QED
  BY <1>5, <1>6

(* A request of the processor.                                              *)
LEMMA CacheAsks ==
  ASSUME NEW W, NEW c, CacheOK(c, W), NEW t \in Tag,
         NEW m \in {C!Read(t, FALSE, NoID), C!Write(t, NoID)}, NEW d \in C!OnLocalRequest(c, m)
  PROVE  P!CacheInv(d, P!Asking, W) /\ d.topCache = TRUE /\ d.toRemote \in P!Outbox(P!Asking)
<1>1. P!CacheInv(c, P!Asking, W) /\ c.topCache = TRUE /\ P!CacheAssumptions
  <2>1. P!CacheInv(c, Sends, W) /\ c.toLocal = <<>> /\ c.toRemote = <<>>
    BY DEF CacheOK
  <2> QED
    BY <2>1, EmptyBoxes, ConstantsAreOK DEF CacheOK
<1>2. m \in P!Request
  <2> DEFINE x == FALSE
  <2>1. x \in BOOLEAN /\ NoID \in P!IDs
    BY DEF P!IDs
  <2> HIDE DEF x
  <2>2. C!Read(t, x, NoID) \in P!Request /\ C!Write(t, NoID) \in P!Request
    BY <2>1 DEF C!Read, C!Write, P!Request, P!ReadMsg
  <2> QED
    BY <2>2 DEF x
<1>3. d \in P!OnLocalRequest(c, m)
  BY SameLocalRequest
<1> DEFINE R == P!Asking
<1>4. P!CacheInv(c, R, W) /\ P!Asking \subseteq R
  BY <1>1
<1> HIDE DEF R
<1>5. P!CacheInv(d, R, W) /\ d.topCache = TRUE
  BY <1>1, <1>2, <1>3, <1>4, P!LocalRequestKeeps
<1>6. d.toRemote \in P!Outbox(P!Asking)
  BY <1>5 DEF P!CacheInv, P!BlocksInv, P!CacheObject, R
<1> QED
  BY <1>5, <1>6 DEF R
-----------------------------------------------------------------------------
(* The steps that leave the bus alone.  The events gone are no longer there, *)
(* those of s are new, and r is what is scheduled then.                      *)
Passes(b, q, gone, s, r) ==
  /\ BusInv(b, r) /\ WillAttempt(b, r)
  /\ \A n \in Local : \A u \in ReadTags(b, q, n) :
       u \in ReadTags(b, r, n) \/ \E e \in gone : IsReadFor(e, n, u)
  /\ \A n \in Local : \A u \in Tag : \A j \in DOMAIN s :
       IsReadFor(s[j], n, u) => u \in ReadTags(b, r, n)

(* As much is still to come as before.                                      *)
Balances(s, e) ==
  \A t \in Tag : /\ Count(s, Near(t)) = IF e \in Near(t) THEN 1 ELSE 0
                 /\ Count(s, Below(t)) = IF e \in Below(t) THEN 1 ELSE 0

LEMMA ReadsPass ==
  ASSUME NEW b, NEW q, NEW r, NEW n \in Local, NEW u \in ReadTags(b, q, n),
         NEW e, \A j \in DOMAIN q : IsReadFor(q[j], n, u) => q[j] = e \/ \E i \in DOMAIN r : r[i] = q[j]
  PROVE  u \in ReadTags(b, r, n) \/ IsReadFor(e, n, u)
<1>1. CASE \E j \in DOMAIN q : IsReadFor(q[j], n, u)
  <2>1. PICK j \in DOMAIN q : IsReadFor(q[j], n, u)
    BY <1>1
  <2>2. CASE q[j] = e
    BY <2>1, <2>2
  <2>3. CASE \E i \in DOMAIN r : r[i] = q[j]
    <3>1. PICK i \in DOMAIN r : r[i] = q[j]
      BY <2>3
    <3> QED
      BY <2>1, <3>1 DEF ReadTags
  <2> QED
    BY <2>1, <2>2, <2>3
<1>2. CASE ReadWaits(b, n, u) \/ ReadRuns(b.pendingTransfers[u], n)
  BY <1>2 DEF ReadTags
<1> QED
  BY <1>1, <1>2 DEF ReadTags

LEMMA ExchangePasses ==
  ASSUME NEW b, NEW q, BusInv(b, q), WillAttempt(b, q), NEW k \in DOMAIN q, q[k].msg # Attempt,
         NEW s \in Seq(Event), Balances(s, q[k]), AllBelong(b, s)
  PROVE  Passes(b, q, {q[k]}, s, RemoveAt(q, k) \o s)
<1> DEFINE r == RemoveAt(q, k) \o s
           f == q[k]
<1>1. q \in Seq(Event)
  BY DEF BusInv
<1>2. r \in Seq(Event) /\ Exchanges(r, q, k, s)
  BY <1>1, CountExchanged
<1> HIDE DEF r
<1>3. /\ \A S : Count(r, S) + (IF f \in S THEN 1 ELSE 0) = Count(q, S) + Count(s, S)
      /\ \A i \in DOMAIN r : (\E j \in DOMAIN q : r[i] = q[j]) \/ (\E j \in DOMAIN s : r[i] = s[j])
      /\ \A j \in DOMAIN q : j # k => \E i \in DOMAIN r : r[i] = q[j]
      /\ \A j \in DOMAIN s : \E i \in DOMAIN r : r[i] = s[j]
  BY <1>2 DEF Exchanges
<1>4. AllCounted(b, r)
  <2> SUFFICES ASSUME NEW u \in Tag
               PROVE  CountedAt(b.pendingTransfers[u], Count(r, Near(u)), Count(r, Below(u)))
    BY DEF AllCounted
  <2>1. CountedAt(b.pendingTransfers[u], Count(q, Near(u)), Count(q, Below(u)))
    BY DEF BusInv, AllCounted
  <2>2. /\ Count(r, Near(u)) \in Nat /\ Count(r, Below(u)) \in Nat
        /\ Count(q, Near(u)) \in Nat /\ Count(q, Below(u)) \in Nat
    BY <1>1, <1>2, CountIsNat
  <2>3. /\ Count(s, Near(u)) = IF f \in Near(u) THEN 1 ELSE 0
        /\ Count(s, Below(u)) = IF f \in Below(u) THEN 1 ELSE 0
    BY DEF Balances
  <2>4. /\ Count(r, Near(u)) + (IF f \in Near(u) THEN 1 ELSE 0) = Count(q, Near(u)) + Count(s, Near(u))
        /\ Count(r, Below(u)) + (IF f \in Below(u) THEN 1 ELSE 0) = Count(q, Below(u)) + Count(s, Below(u))
    BY <1>3
  <2>5. Count(r, Near(u)) = Count(q, Near(u)) /\ Count(r, Below(u)) = Count(q, Below(u))
    BY <2>2, <2>3, <2>4
  <2> QED
    BY <2>1, <2>5
<1>5. AllBelong(b, r)
  BY <1>3 DEF BusInv, AllBelong
<1>6. BusInv(b, r)
  BY <1>2, <1>4, <1>5 DEF BusInv
<1>7. Scheduled(q) => Scheduled(r)
  <2> SUFFICES ASSUME NEW j \in DOMAIN q, q[j].msg = Attempt PROVE Scheduled(r)
    BY DEF Scheduled
  <2>1. PICK i \in DOMAIN r : r[i] = q[j]
    BY <1>3
  <2> QED
    BY <2>1 DEF Scheduled
<1>8. WillAttempt(b, r)
  BY <1>7 DEF WillAttempt
<1>9. ASSUME NEW n \in Local, NEW u \in ReadTags(b, q, n)
      PROVE  u \in ReadTags(b, r, n) \/ \E e \in {f} : IsReadFor(e, n, u)
  <2>1. \A j \in DOMAIN q : q[j] = f \/ \E i \in DOMAIN r : r[i] = q[j]
    BY <1>3
  <2> HIDE DEF f
  <2>2. u \in ReadTags(b, r, n) \/ IsReadFor(f, n, u)
    BY <2>1, ReadsPass
  <2> QED
    BY <2>2
<1>10. ASSUME NEW n \in Local, NEW u \in Tag, NEW j \in DOMAIN s, IsReadFor(s[j], n, u)
       PROVE  u \in ReadTags(b, r, n)
  <2>1. PICK i \in DOMAIN r : r[i] = s[j]
    BY <1>3
  <2> QED
    BY <1>10, <2>1 DEF ReadTags
<1>11. Passes(b, q, {f}, s, r)
  BY <1>6, <1>8, <1>9, <1>10 DEF Passes
<1> QED
  BY <1>11 DEF r

LEMMA AdditionPasses ==
  ASSUME NEW b, NEW q, BusInv(b, q), WillAttempt(b, q),
         NEW s \in Seq(Event), \A j \in DOMAIN s : \A t \in Tag : ~IsOpen(s[j], t)
  PROVE  Passes(b, q, {}, s, q \o s)
<1> DEFINE r == q \o s
<1>1. q \in Seq(Event)
  BY DEF BusInv
<1>2. r \in Seq(Event) /\ Joins(r, q, s)
  BY <1>1, JoinedElements
<1>3. \A S : Count(r, S) = Count(q, S) + Count(s, S)
  BY <1>1, CountJoined
<1> HIDE DEF r
<1>4. AllCounted(b, r)
  <2> SUFFICES ASSUME NEW u \in Tag
               PROVE  CountedAt(b.pendingTransfers[u], Count(r, Near(u)), Count(r, Below(u)))
    BY DEF AllCounted
  <2>1. CountedAt(b.pendingTransfers[u], Count(q, Near(u)), Count(q, Below(u)))
    BY DEF BusInv, AllCounted
  <2>2. Count(q, Near(u)) \in Nat /\ Count(q, Below(u)) \in Nat
    BY <1>1, CountIsNat
  <2>3. \A j \in DOMAIN s : s[j] \notin Near(u) /\ s[j] \notin Below(u)
    BY DEF Near, Below
  <2>4. Count(s, Near(u)) = 0 /\ Count(s, Below(u)) = 0
    BY <2>3, CountZero
  <2>5. /\ Count(r, Near(u)) = Count(q, Near(u)) + Count(s, Near(u))
        /\ Count(r, Below(u)) = Count(q, Below(u)) + Count(s, Below(u))
    BY <1>3
  <2>6. Count(r, Near(u)) = Count(q, Near(u)) /\ Count(r, Below(u)) = Count(q, Below(u))
    BY <2>2, <2>4, <2>5
  <2> QED
    BY <2>1, <2>6
<1>5. AllBelong(b, r)
  BY <1>2 DEF BusInv, AllBelong, Joins
<1>6. BusInv(b, r)
  BY <1>2, <1>4, <1>5 DEF BusInv
<1>7. Scheduled(q) => Scheduled(r)
  <2> SUFFICES ASSUME NEW j \in DOMAIN q, q[j].msg = Attempt PROVE Scheduled(r)
    BY DEF Scheduled
  <2>1. PICK i \in DOMAIN r : r[i] = q[j]
    BY <1>2 DEF Joins
  <2> QED
    BY <2>1 DEF Scheduled
<1>8. WillAttempt(b, r)
  BY <1>7 DEF WillAttempt
<1>9. ASSUME NEW n \in Local, NEW u \in ReadTags(b, q, n)
      PROVE  u \in ReadTags(b, r, n)
  <2> DEFINE e == [msg |-> Attempt]
  <2>1. \A j \in DOMAIN q : q[j] = e \/ \E i \in DOMAIN r : r[i] = q[j]
    BY <1>2 DEF Joins
  <2>2. ~IsReadFor(e, n, u)
    BY MessageTypes DEF IsReadFor
  <2> HIDE DEF e
  <2> QED
    BY <2>1, <2>2, ReadsPass
<1>10. ASSUME NEW n \in Local, NEW u \in Tag, NEW j \in DOMAIN s, IsReadFor(s[j], n, u)
       PROVE  u \in ReadTags(b, r, n)
  <2>1. PICK i \in DOMAIN r : r[i] = s[j]
    BY <1>2 DEF Joins
  <2> QED
    BY <1>10, <2>1 DEF ReadTags
<1>11. Passes(b, q, {}, s, r)
  BY <1>6, <1>8, <1>9, <1>10 DEF Passes
<1> QED
  BY <1>11 DEF r

(* Requests of a cache on the way to the bus are not yet of a transfer.     *)
LEMMA AsksAreNotOpen ==
  ASSUME NEW n \in Local, NEW s \in P!Outbox(P!Asking)
  PROVE  /\ Posted(n, s) \in Seq(Event)
         /\ \A j \in DOMAIN Posted(n, s) : \A t \in Tag : ~IsOpen(Posted(n, s)[j], t)
<1> DEFINE r == Posted(n, s)
<1>1. /\ r \in Seq(Event) /\ DOMAIN r = DOMAIN s
      /\ \A k \in DOMAIN s : r[k].to = "Bus" /\ r[k].from = n /\ r[k].msg = s[k].msg /\ s[k].msg \in P!Asking
  BY PostedTyped, CachesAnswer
<1> HIDE DEF r
<1>2. n # "Bus"
  BY ConnectionAssumption DEF Connection
<1>3. \A j \in DOMAIN r : \A t \in Tag : ~IsOpen(r[j], t)
  BY <1>1, <1>2, KindsOfMessages DEF IsOpen
<1> QED
  BY <1>1, <1>3 DEF r

(* The answer of a cache takes the place of what it was asked.              *)
LEMMA AnswerBalances ==
  ASSUME NEW b, NEW q, BusInv(b, q), NEW n \in Local, NEW k \in DOMAIN q, q[k].to = n,
         NEW m, m = q[k].msg, m \in P!Asking \cup Invalidates, NEW s, AnswersOnce(s, m)
  PROVE  /\ Posted(n, s) \in Seq(Event)
         /\ Balances(Posted(n, s), q[k]) /\ AllBelong(b, Posted(n, s))
<1> DEFINE r == Posted(n, s)
           e == q[k]
           t == m.tag
<1>1. /\ r \in Seq(Event) /\ DOMAIN r = DOMAIN s
      /\ \A i \in DOMAIN s : r[i].to = "Bus" /\ r[i].from = n /\ r[i].msg = s[i].msg /\ s[i].msg \in Sends
  <2>1. s \in P!Outbox(Sends) /\ Sends \subseteq Sends
    BY DEF AnswersOnce
  <2> QED
    BY <2>1, PostedTyped
<1>2. PICK j \in DOMAIN s :
        /\ s[j].msg \in Answers /\ s[j].msg.type = AnswerTo(m) /\ s[j].msg.tag = m.tag
        /\ \A i \in DOMAIN s : i # j => s[i].msg \in P!Asking
  BY DEF AnswersOnce
<1>3. e \in Event /\ n # Remote /\ n # "Bus" /\ e.from = "Bus"
  <2>1. e \in Event
    BY DEF BusInv
  <2>2. n # Remote /\ n # "Bus"
    BY ConnectionAssumption DEF Connection
  <2> QED
    BY <2>1, <2>2, KindsOfEvents
<1>4. IsRequest(m) /\ m.type # "AttemptTransfer" /\ t \in Tag
  BY KindsOfMessages
<1>5. \A u \in Tag : IsOpen(e, u) <=> u = t
  BY <1>3, <1>4 DEF IsOpen
<1> HIDE DEF r, t
<1>6. /\ \A u \in Tag : IsOpen(r[j], u) <=> u = t
      /\ \A i \in DOMAIN r : i # j => \A u \in Tag : ~IsOpen(r[i], u)
  BY <1>1, <1>2, <1>3, KindsOfMessages DEF IsOpen, t
<1>7. Balances(r, e)
  <2> SUFFICES ASSUME NEW u \in Tag
               PROVE  /\ Count(r, Near(u)) = IF e \in Near(u) THEN 1 ELSE 0
                      /\ Count(r, Below(u)) = IF e \in Below(u) THEN 1 ELSE 0
    BY DEF Balances
  <2>1. \A i \in DOMAIN r : r[i] \notin Below(u) /\ (r[i] \in Near(u) <=> i = j /\ u = t)
    BY <1>1, <1>3, <1>6, ConnectionAssumption DEF Near, Below, Connection
  <2>2. e \notin Below(u) /\ (e \in Near(u) <=> u = t)
    BY <1>3, <1>5, ConnectionAssumption DEF Near, Below, Connection
  <2>3. Count(r, Below(u)) = 0
    BY <1>1, <2>1, CountZero
  <2>4. CASE u = t
    <3>1. Count(r, Near(u)) = 1
      BY <1>1, <2>1, <2>4, CountOne
    <3> QED
      BY <2>2, <2>3, <2>4, <3>1
  <2>5. CASE u # t
    <3>1. Count(r, Near(u)) = 0
      BY <1>1, <2>1, <2>5, CountZero
    <3> QED
      BY <2>2, <2>3, <2>5, <3>1
  <2> QED
    BY <2>4, <2>5
<1>8. AllBelong(b, r)
  <2> SUFFICES ASSUME NEW i \in DOMAIN r, NEW u \in Tag, IsOpen(r[i], u)
               PROVE  Belongs(r[i].msg, b.pendingTransfers[u])
    BY DEF AllBelong
  <2>1. i = j /\ u = t
    BY <1>6
  <2>2. Belongs(m, b.pendingTransfers[t])
    BY <1>4, <1>5 DEF BusInv, AllBelong
  <2>3. m = b.pendingTransfers[t].solicitingMsg /\ b.pendingTransfers[t] # NoTransfer
    BY <1>4, <2>2 DEF Belongs
  <2>4. ~IsRequest(r[j].msg) /\ r[j].msg.type = AnswerTo(m)
    BY <1>1, <1>2, KindsOfMessages
  <2> QED
    BY <2>1, <2>3, <2>4 DEF Belongs
<1> QED
  BY <1>1, <1>7, <1>8 DEF r
-----------------------------------------------------------------------------
(* The steps.                                                               *)

(* A cache whose messages have been scheduled.                              *)
LEMMA CacheLeft ==
  ASSUME NEW n \in Local, NEW R, R \subseteq Sends, NEW W, NEW c, P!CacheInv(c, R, W),
         c.topCache = TRUE, NEW b, NEW q, NEW gone, NEW r,
         Passes(b, q, gone, Posted(n, c.toRemote), r), W \subseteq ReadTags(b, r, n)
  PROVE  CacheOK(Emptied(c), ReadTags(b, r, n))
<1> DEFINE s == c.toRemote
           V == ReadTags(b, r, n)
           d == Emptied(c)
<1>1. s \in P!Outbox(R)
  BY DEF P!CacheInv, P!BlocksInv, P!CacheObject
<1>2. /\ DOMAIN Posted(n, s) = DOMAIN s
      /\ \A k \in DOMAIN s : /\ Posted(n, s)[k].from = n /\ Posted(n, s)[k].msg = s[k].msg
                             /\ s[k].msg \in R
  BY <1>1, PostedTyped
<1>3. ASSUME NEW k \in DOMAIN s, s[k].msg.type = "Read"
      PROVE  s[k].msg.tag \in V
  <2>1. s[k].msg.tag \in Tag
    <3>1. s[k].msg \in Message
      BY <1>2 DEF Message
    <3> QED
      BY <3>1, KindsOfMessages DEF Message, Sends
  <2>2. IsReadFor(Posted(n, s)[k], n, s[k].msg.tag)
    BY <1>2, <1>3 DEF IsReadFor
  <2> QED
    BY <1>2, <2>1, <2>2 DEF Passes
<1>4. P!Covers(V, W, c)
  BY <1>3 DEF P!Covers
<1>5. d = P!WithoutMessages(c)
  BY DEF Emptied, P!WithoutMessages
<1> HIDE DEF V, d
<1>6. P!CacheInv(d, Sends, V) /\ d.toLocal = <<>> /\ d.toRemote = <<>> /\ P!SameTables(c, d)
  BY <1>4, <1>5, P!OutboxesEmptied
<1>7. CacheOK(d, V)
  BY <1>6 DEF CacheOK, P!SameTables
<1> QED
  BY <1>7 DEF d, V

LEMMA MoreReads ==
  ASSUME NEW c, NEW V, NEW W, CacheOK(c, V), V \subseteq W
  PROVE  CacheOK(c, W)
<1>1. P!CacheInv(c, Sends, V) /\ c.toLocal = <<>> /\ c.toRemote = <<>>
  BY DEF CacheOK
<1>2. P!CacheInv(c, Sends, W)
  BY <1>1, EmptyBoxes
<1> QED
  BY <1>2 DEF CacheOK

LEMMA CacheStepKeeps ==
  ASSUME SnoopyInv, NEW n \in Local, NEW R, R \subseteq Sends, NEW W, NEW c,
         P!CacheInv(c, R, W), c.topCache = TRUE, NEW q, LeaveCache(n, c, q), bus' = bus,
         NEW gone, Passes(bus, queue, gone, Posted(n, c.toRemote), q \o Posted(n, c.toRemote)),
         W \subseteq ReadTags(bus, q \o Posted(n, c.toRemote), n),
         \A e \in gone : \A o \in Local : o # n => \A u \in Tag : ~IsReadFor(e, o, u)
  PROVE  SnoopyInv'
<1> DEFINE s == Posted(n, c.toRemote)
           r == q \o s
           d == Emptied(c)
<1>1. queue' = r /\ cache' = [cache EXCEPT ![n] = d]
  BY DEF LeaveCache, Posted
<1>2. /\ cache = [o \in Local |-> cache[o]] /\ bus.out = <<>>
      /\ \A o \in Local : CacheOK(cache[o], ReadTags(bus, queue, o))
  BY DEF SnoopyInv
<1>3. CacheOK(d, ReadTags(bus, r, n))
  BY CacheLeft
<1> HIDE DEF s, r, d
<1>4. /\ cache' = [o \in Local |-> cache'[o]] /\ cache'[n] = d
      /\ \A o \in Local : o # n => cache'[o] = cache[o]
  BY <1>1, <1>2
<1>5. Passes(bus, queue, gone, s, r)
  BY DEF s, r
<1>6. ASSUME NEW o \in Local
      PROVE  CacheOK(cache'[o], ReadTags(bus, r, o))
  <2>1. CASE o = n
    BY <1>3, <1>4, <2>1
  <2>2. CASE o # n
    <3>1. \A u \in ReadTags(bus, queue, o) : u \in Tag
      BY DEF ReadTags
    <3>2. ReadTags(bus, queue, o) \subseteq ReadTags(bus, r, o)
      BY <1>5, <2>2, <3>1 DEF Passes
    <3> QED
      BY <1>2, <1>4, <2>2, <3>2, MoreReads
  <2> QED
    BY <2>1, <2>2
<1>7. BusInv(bus, r) /\ WillAttempt(bus, r)
  BY <1>5 DEF Passes
<1>8. BusInv(bus', queue') /\ WillAttempt(bus', queue') /\ bus'.out = <<>>
  BY <1>1, <1>2, <1>7
<1>9. \A o \in Local : CacheOK(cache'[o], ReadTags(bus', queue', o))
  BY <1>1, <1>6
<1> QED
  BY <1>4, <1>8, <1>9 DEF SnoopyInv

LEMMA ProcessorKeeps ==
  ASSUME SnoopyInv, NEW n \in Local, ProcessorRequests(n)
  PROVE  SnoopyInv'
<1>1. PICK t \in Tag : \E m \in {C!Read(t, FALSE, NoID), C!Write(t, NoID)} :
                         \E c \in C!OnLocalRequest(cache[n], m) : LeaveCache(n, c, queue)
  BY DEF ProcessorRequests
<1>2. PICK m \in {C!Read(t, FALSE, NoID), C!Write(t, NoID)} :
                         \E c \in C!OnLocalRequest(cache[n], m) : LeaveCache(n, c, queue)
  BY <1>1
<1>3. PICK c \in C!OnLocalRequest(cache[n], m) : LeaveCache(n, c, queue)
  BY <1>2
<1> DEFINE W == ReadTags(bus, queue, n)
           s == Posted(n, c.toRemote)
<1>4. CacheOK(cache[n], W) /\ BusInv(bus, queue) /\ WillAttempt(bus, queue) /\ bus' = bus
  BY DEF SnoopyInv, ProcessorRequests
<1> HIDE DEF W
<1>5. P!CacheInv(c, P!Asking, W) /\ c.topCache = TRUE /\ c.toRemote \in P!Outbox(P!Asking)
  BY <1>3, <1>4, CacheAsks
<1>6. s \in Seq(Event) /\ \A j \in DOMAIN s : \A u \in Tag : ~IsOpen(s[j], u)
  BY <1>5, AsksAreNotOpen
<1> HIDE DEF s
<1>7. Passes(bus, queue, {}, s, queue \o s)
  BY <1>4, <1>6, AdditionPasses
<1>8. W \subseteq ReadTags(bus, queue \o s, n)
  BY <1>7 DEF Passes, W
<1> DEFINE gone == {}
<1>9. Passes(bus, queue, gone, s, queue \o s) /\ \A e \in gone : FALSE
  BY <1>7
<1> HIDE DEF gone
<1> QED
  BY <1>3, <1>4, <1>5, <1>8, <1>9, CachesAnswer, CacheStepKeeps DEF s

LEMMA ReceiptKeeps ==
  ASSUME SnoopyInv, NEW n \in Local, CacheReceives(n)
  PROVE  SnoopyInv'
<1>1. PICK k \in DOMAIN queue :
        /\ queue[k].to = n
        /\ \E c \in C!FromRemote(cache[n], queue[k].msg, TRUE) : LeaveCache(n, c, RemoveAt(queue, k))
  BY DEF CacheReceives
<1> DEFINE m == queue[k].msg
           e == queue[k]
           q == RemoveAt(queue, k)
           gone == {queue[k]}
           W == ReadTags(bus, queue, n)
<1>2. PICK c \in C!FromRemote(cache[n], m, TRUE) : LeaveCache(n, c, q)
  BY <1>1
<1> DEFINE s == Posted(n, c.toRemote)
<1>3. /\ CacheOK(cache[n], W) /\ BusInv(bus, queue) /\ WillAttempt(bus, queue) /\ bus' = bus
      /\ e \in Event
  BY DEF SnoopyInv, CacheReceives, BusInv
<1>4. n # "Bus" /\ e.to = n /\ e.from = "Bus" /\ m \in Message
  BY <1>1, <1>3, ConnectionAssumption, KindsOfEvents DEF Connection
<1>5. m # Attempt
  BY <1>4, KindsOfMessages
<1>6. \A x \in {e} : \A o \in Local : o # n => \A u \in Tag : ~IsReadFor(x, o, u)
  BY <1>4, ConnectionAssumption DEF IsReadFor, Connection
<1> HIDE DEF W
<1>7. CASE m \in P!Asking \cup Invalidates
  <2>1. P!CacheInv(c, Sends, W) /\ c.topCache = TRUE /\ AnswersOnce(c.toRemote, m)
    BY <1>2, <1>3, <1>7, CacheAnswers
  <2>2. s \in Seq(Event) /\ Balances(s, queue[k]) /\ AllBelong(bus, s)
    BY <1>1, <1>3, <1>7, <2>1, AnswerBalances
  <2> HIDE DEF s
  <2>3. Passes(bus, queue, {queue[k]}, s, RemoveAt(queue, k) \o s)
    BY <1>3, <1>5, <2>2, ExchangePasses
  <2>4. \A u \in Tag : ~IsReadFor(e, n, u)
    BY <1>4, <1>7, MessageTypes DEF IsReadFor
  <2>5. W \subseteq ReadTags(bus, q \o s, n)
    <3>1. \A u \in W : u \in Tag
      BY DEF W, ReadTags
    <3> QED
      BY <2>3, <2>4, <3>1 DEF Passes, W
  <2> DEFINE p == Posted(n, c.toRemote)
  <2>6. /\ LeaveCache(n, c, q) /\ bus' = bus /\ Sends \subseteq Sends
        /\ Passes(bus, queue, gone, p, q \o p) /\ W \subseteq ReadTags(bus, q \o p, n)
        /\ \A x \in gone : \A o \in Local : o # n => \A u \in Tag : ~IsReadFor(x, o, u)
    BY <1>2, <1>3, <1>6, <2>3, <2>5 DEF s
  <2> HIDE DEF gone, m, e, q
  <2> QED
    BY <2>1, <2>6, CacheStepKeeps
<1>8. CASE m \in Answers
  <2> DEFINE V == StillAwaited(W, m)
  <2>1. /\ P!CacheInv(c, P!Asking, V) /\ c.topCache = TRUE
        /\ c.toRemote \in P!Outbox(P!Asking)
    BY <1>2, <1>3, <1>8, CacheTakes
  <2>2. s \in Seq(Event) /\ \A j \in DOMAIN s : \A u \in Tag : ~IsOpen(s[j], u)
    BY <2>1, AsksAreNotOpen
  <2> HIDE DEF s
  <2>3. AllBelong(bus, s)
    BY <2>2 DEF AllBelong
  <2>4. Balances(s, queue[k])
    <3>1. \A u \in Tag : ~IsOpen(e, u)
      BY <1>4, <1>8, KindsOfMessages DEF IsOpen
    <3>2. \A u \in Tag : e \notin Near(u) /\ e \notin Below(u)
      BY <3>1 DEF Near, Below
    <3>3. \A u \in Tag : \A j \in DOMAIN s : s[j] \notin Near(u) /\ s[j] \notin Below(u)
      BY <2>2 DEF Near, Below
    <3>4. \A u \in Tag : Count(s, Near(u)) = 0 /\ Count(s, Below(u)) = 0
      BY <2>2, <3>3, CountZero
    <3> QED
      BY <3>2, <3>4 DEF Balances
  <2>5. Passes(bus, queue, {queue[k]}, s, RemoveAt(queue, k) \o s)
    BY <1>3, <1>5, <2>2, <2>3, <2>4, ExchangePasses
  <2>6. V \subseteq ReadTags(bus, q \o s, n)
    <3> SUFFICES ASSUME NEW u \in V PROVE u \in ReadTags(bus, q \o s, n)
      OBVIOUS
    <3>1. u \in W /\ u \in Tag /\ (m.type = "ReadResponse" => u # m.tag)
      BY DEF StillAwaited, W, ReadTags
    <3>2. ~IsReadFor(e, n, u)
      BY <1>4, <3>1 DEF IsReadFor
    <3> QED
      BY <2>5, <3>1, <3>2 DEF Passes, W
  <2> HIDE DEF V
  <2> DEFINE p == Posted(n, c.toRemote)
  <2>7. /\ LeaveCache(n, c, q) /\ bus' = bus
        /\ Passes(bus, queue, gone, p, q \o p) /\ V \subseteq ReadTags(bus, q \o p, n)
        /\ \A x \in gone : \A o \in Local : o # n => \A u \in Tag : ~IsReadFor(x, o, u)
    BY <1>2, <1>3, <1>6, <2>5, <2>6 DEF s
  <2> HIDE DEF V, gone, m, e, q
  <2> QED
    BY <2>1, <2>7, CachesAnswer, CacheStepKeeps
<1> QED
  BY <1>4, <1>7, <1>8 DEF Message, Sends

(* Neither the caches nor the bus move.                                     *)
LEMMA QueueStepKeeps ==
  ASSUME SnoopyInv, bus' = bus, cache' = cache, NEW gone, NEW s,
         Passes(bus, queue, gone, s, queue'),
         \A e \in gone : \A o \in Local : \A u \in Tag : ~IsReadFor(e, o, u)
  PROVE  SnoopyInv'
<1>1. /\ cache = [o \in Local |-> cache[o]] /\ bus.out = <<>>
      /\ \A o \in Local : CacheOK(cache[o], ReadTags(bus, queue, o))
  BY DEF SnoopyInv
<1>2. ASSUME NEW o \in Local
      PROVE  CacheOK(cache[o], ReadTags(bus, queue', o))
  <2>1. \A u \in ReadTags(bus, queue, o) : u \in Tag
    BY DEF ReadTags
  <2>2. ReadTags(bus, queue, o) \subseteq ReadTags(bus, queue', o)
    BY <2>1 DEF Passes
  <2> QED
    BY <1>1, <2>2, MoreReads
<1>3. BusInv(bus', queue') /\ WillAttempt(bus', queue') /\ bus'.out = <<>>
  BY <1>1 DEF Passes
<1>4. /\ cache' = [o \in Local |-> cache'[o]]
      /\ \A o \in Local : CacheOK(cache'[o], ReadTags(bus', queue', o))
  BY <1>1, <1>2
<1> QED
  BY <1>3, <1>4 DEF SnoopyInv

(* The device below is not asked to invalidate: it is the one that asks.    *)
LEMMA InvalidatesGoUp ==
  ASSUME NEW b, NEW q, BusInv(b, q), NEW k \in DOMAIN q, q[k].to = Remote
  PROVE  q[k].msg \notin Invalidates
<1> SUFFICES ASSUME q[k].msg \in Invalidates PROVE FALSE
  OBVIOUS
<1> DEFINE m == q[k].msg
           x == b.pendingTransfers[m.tag]
<1>1. q[k] \in Event /\ q \in Seq(Event)
  BY DEF BusInv
<1>2. q[k].from = "Bus" /\ m.tag \in Tag /\ IsRequest(m) /\ m.type # "AttemptTransfer"
  BY <1>1, KindsOfEvents, KindsOfMessages, ConnectionAssumption DEF Connection
<1>3. IsOpen(q[k], m.tag) /\ q[k] \in Below(m.tag)
  BY <1>1, <1>2 DEF IsOpen, Below
<1>4. x # NoTransfer /\ m = x.solicitingMsg
  BY <1>2, <1>3 DEF BusInv, AllBelong, Belongs
<1>5. x.solicitingConnection = Remote
  <2>1. x \in Transfer /\ x.solicitingMsg \in Asked(x.solicitingConnection)
    BY <1>2, <1>4 DEF BusInv, BusOK, BusRecord
  <2> QED
    BY <1>4, <2>1, MessageTypes, KindsOfMessages DEF Transfer
<1>6. Count(q, Below(m.tag)) = 0
  BY <1>2, <1>4, <1>5 DEF BusInv, AllCounted, CountedAt
<1> QED
  BY <1>1, <1>3, <1>6, CountZero

(* The answer of the device below takes the place of what it was asked.     *)
LEMMA BelowAnswers ==
  ASSUME NEW b, NEW q, BusInv(b, q), NEW k \in DOMAIN q, q[k].to = Remote,
         NEW m, m = q[k].msg, m \in P!Asking, NEW a \in Answers, a.type = AnswerTo(m), a.tag = m.tag,
         NEW d \in Nat, NEW s, s = <<[to |-> "Bus", from |-> Remote, msg |-> a, delay |-> d]>>
  PROVE  /\ s \in Seq(Event) /\ Balances(s, q[k]) /\ AllBelong(b, s)
<1> DEFINE f == [to |-> "Bus", from |-> Remote, msg |-> a, delay |-> d]
           e == q[k]
           t == m.tag
<1>1. f \in Event /\ f.to = "Bus" /\ f.from = Remote /\ f.msg = a
  BY DEF Event
<1>9. s = <<f>>
  OBVIOUS
<1> HIDE DEF f
<1>2. s \in Seq(Event) /\ DOMAIN s = {1} /\ s[1] = f
  BY <1>1, <1>9
<1>3. e \in Event /\ e.from = "Bus" /\ e.to = Remote /\ Remote # "Bus"
  <2>1. e \in Event
    BY DEF BusInv
  <2> QED
    BY <2>1, KindsOfEvents, ConnectionAssumption DEF Connection
<1>4. /\ IsRequest(m) /\ m.type # "AttemptTransfer" /\ t \in Tag
      /\ ~IsRequest(a) /\ a.type # "AttemptTransfer"
  BY KindsOfMessages
<1>5. \A u \in Tag : (IsOpen(e, u) <=> u = t) /\ (IsOpen(f, u) <=> u = t)
  BY <1>1, <1>3, <1>4 DEF IsOpen
<1>6. \A u \in Tag : /\ e \notin Near(u) /\ (e \in Below(u) <=> u = t)
                     /\ f \notin Near(u) /\ (f \in Below(u) <=> u = t)
  BY <1>1, <1>3, <1>5 DEF Near, Below
<1> HIDE DEF e, t
<1>7. Balances(s, e)
  <2> SUFFICES ASSUME NEW u \in Tag
               PROVE  /\ Count(s, Near(u)) = IF e \in Near(u) THEN 1 ELSE 0
                      /\ Count(s, Below(u)) = IF e \in Below(u) THEN 1 ELSE 0
    BY DEF Balances
  <2>1. Count(s, Near(u)) = 0
    BY <1>2, <1>6, CountZero
  <2>2. CASE u = t
    <3>1. Count(s, Below(u)) = 1
      BY <1>2, <1>6, <2>2, CountOne
    <3> QED
      BY <1>6, <2>1, <2>2, <3>1
  <2>3. CASE u # t
    <3>1. Count(s, Below(u)) = 0
      BY <1>2, <1>6, <2>3, CountZero
    <3> QED
      BY <1>6, <2>1, <2>3, <3>1
  <2> QED
    BY <2>2, <2>3
<1>8. AllBelong(b, s)
  <2>1. Belongs(m, b.pendingTransfers[t])
    BY <1>4, <1>5 DEF BusInv, AllBelong, e
  <2>2. m = b.pendingTransfers[t].solicitingMsg /\ b.pendingTransfers[t] # NoTransfer
    BY <1>4, <2>1 DEF Belongs
  <2>3. Belongs(a, b.pendingTransfers[t])
    BY <1>4, <2>2 DEF Belongs
  <2> QED
    BY <1>1, <1>2, <1>5, <2>3 DEF AllBelong
<1> QED
  BY <1>2, <1>7, <1>8 DEF e

LEMMA AppendIs ==
  ASSUME NEW S, NEW q \in Seq(S), NEW e
  PROVE  Append(q, e) = q \o <<e>>
OBVIOUS

LEMMA MemoryKeeps ==
  ASSUME SnoopyInv, MemoryReceives
  PROVE  SnoopyInv'
<1> DEFINE Reply(k, r, d) ==
             Append(RemoveAt(queue, k), [to |-> "Bus", from |-> Remote, msg |-> r, delay |-> d])
<1>1. PICK k \in DOMAIN queue :
        /\ queue[k].to = Remote
        /\ queue' = CASE queue[k].msg.type = "Read" ->
                           Reply(k, C!ReadResponse(queue[k].msg, TRUE, TRUE), readTime)
                      [] queue[k].msg.type = "Eviction" -> Reply(k, C!EvictionResponse(queue[k].msg.tag), 0)
                      [] OTHER -> RemoveAt(queue, k)
  BY Zenon DEF MemoryReceives
<1> DEFINE m == queue[k].msg
           a == RemoveAt(queue, k)
<1>2. /\ BusInv(bus, queue) /\ WillAttempt(bus, queue) /\ bus' = bus /\ cache' = cache
      /\ queue[k] \in Event /\ queue \in Seq(Event)
  BY DEF SnoopyInv, MemoryReceives, BusInv
<1>3. queue[k].from = "Bus" /\ m \in Message /\ m \notin Invalidates
  BY <1>1, <1>2, KindsOfEvents, InvalidatesGoUp, ConnectionAssumption DEF Connection
<1>4. m # Attempt /\ a \in Seq(Event)
  BY <1>2, <1>3, KindsOfMessages, CountRemoved
<1>5. \A e \in {queue[k]} : \A o \in Local : \A u \in Tag : ~IsReadFor(e, o, u)
  BY <1>1, <1>3, ConnectionAssumption DEF IsReadFor, Connection
<1>6. ASSUME NEW s \in Seq(Event), Balances(s, queue[k]), AllBelong(bus, s), queue' = a \o s
      PROVE  SnoopyInv'
  <2>1. Passes(bus, queue, {queue[k]}, s, queue')
    BY <1>2, <1>4, <1>6, ExchangePasses
  <2> DEFINE gone == {queue[k]}
  <2>2. Passes(bus, queue, gone, s, queue') /\ \A e \in gone : \A o \in Local : \A u \in Tag : ~IsReadFor(e, o, u)
    BY <1>5, <2>1
  <2> HIDE DEF gone
  <2> QED
    BY <1>2, <2>2, QueueStepKeeps
<1>7. ASSUME m \in P!Asking, NEW r \in Answers, r.type = AnswerTo(m), r.tag = m.tag,
             NEW d \in Nat, queue' = Reply(k, r, d)
      PROVE  SnoopyInv'
  <2> DEFINE e == [to |-> "Bus", from |-> Remote, msg |-> r, delay |-> d]
             s == <<e>>
  <2>1. queue' = a \o s
    <3>1. queue' = Append(a, e)
      BY <1>7
    <3> HIDE DEF a, e
    <3> QED
      BY <1>4, <3>1, AppendIs
  <2>2. s \in Seq(Event) /\ Balances(s, queue[k]) /\ AllBelong(bus, s)
    BY <1>1, <1>2, <1>7, BelowAnswers
  <2> QED
    BY <1>6, <2>1, <2>2
<1>8. CASE m.type = "Read"
  <2>1. m \in P!Asking
    BY <1>3, <1>8, MessageTypes DEF Message, Sends
  <2> DEFINE x == TRUE
             r == P!ReadResponse(m, x, x)
  <2>2. x \in BOOLEAN /\ r = C!ReadResponse(m, x, x)
    BY DEF P!ReadResponse, C!ReadResponse
  <2>3. queue' = Reply(k, r, readTime)
    BY <1>1, <1>8, <2>2
  <2> HIDE DEF x
  <2>4. r \in Answers /\ r.type = AnswerTo(m) /\ r.tag = m.tag
    BY <1>8, <2>1, <2>2, AnswersOf
  <2>5. readTime \in Nat
    BY TimesAssumption
  <2> HIDE DEF r, m
  <2> QED
    BY <1>7, <2>1, <2>3, <2>4, <2>5
<1>9. CASE m.type = "Eviction"
  <2>1. m \in P!Asking
    BY <1>3, <1>9, MessageTypes DEF Message, Sends
  <2> DEFINE r == P!EvictionResponse(m.tag)
  <2>2. r = C!EvictionResponse(m.tag)
    BY DEF P!EvictionResponse, C!EvictionResponse
  <2>3. queue' = Reply(k, r, 0)
    BY <1>1, <1>9, <2>2
  <2>4. r \in Answers /\ r.type = AnswerTo(m) /\ r.tag = m.tag
    BY <1>9, <2>1, AnswersOf
  <2> HIDE DEF r, m
  <2> QED
    BY <1>7, <2>1, <2>3, <2>4
<1>10. CASE m.type \notin {"Read", "Eviction"}
  <2>1. m \in Answers /\ ~IsRequest(m)
    BY <1>3, <1>10, MessageTypes, KindsOfMessages DEF Message, Sends
  <2> DEFINE s == <<>>
  <2>2. s \in Seq(Event) /\ DOMAIN s = {} /\ queue' = a \o s
    <3>1. queue' = a
      BY <1>1, <1>10
    <3> HIDE DEF a
    <3> QED
      BY <1>4, <3>1
  <2>3. \A u \in Tag : Count(s, Near(u)) = 0 /\ Count(s, Below(u)) = 0
    BY CountEmpty
  <2> HIDE DEF s
  <2>4. \A u \in Tag : queue[k] \notin Near(u) /\ queue[k] \notin Below(u)
    BY <1>3, <2>1 DEF Near, Below, IsOpen
  <2>5. Balances(s, queue[k])
    BY <2>3, <2>4 DEF Balances
  <2>6. AllBelong(bus, s)
    BY <2>2 DEF AllBelong
  <2> QED
    BY <1>6, <2>2, <2>5, <2>6
<1> QED
  BY <1>8, <1>9, <1>10

LEMMA InvalidationKeeps ==
  ASSUME SnoopyInv, RemoteInvalidates
  PROVE  SnoopyInv'
<1> DEFINE e(t) == [to |-> "Bus", from |-> Remote, msg |-> C!Invalidate(t), delay |-> invalidateTime]
<1>1. PICK t \in Tag : queue' = Append(queue, e(t))
  BY DEF RemoteInvalidates
<1>2. /\ BusInv(bus, queue) /\ WillAttempt(bus, queue) /\ bus' = bus /\ cache' = cache
      /\ queue \in Seq(Event)
  BY DEF SnoopyInv, RemoteInvalidates, BusInv
<1> DEFINE f == e(t)
           s == <<f>>
<1>3. C!Invalidate(t) \in Invalidates
  BY DEF Invalidates, C!Invalidate, P!Invalidate
<1>4. f \in Event /\ f.from = Remote /\ f.msg \in Invalidates
  BY <1>3, TimesAssumption DEF Event
<1>5. queue' = queue \o s
  BY <1>1, <1>2, AppendIs
<1> HIDE DEF f
<1>6. s \in Seq(Event) /\ DOMAIN s = {1} /\ s[1] = f
  BY <1>4
<1>7. \A j \in DOMAIN s : \A u \in Tag : ~IsOpen(s[j], u)
  BY <1>4, <1>6, KindsOfMessages, ConnectionAssumption DEF IsOpen, Connection
<1> DEFINE gone == {}
<1> HIDE DEF s
<1>8. Passes(bus, queue, gone, s, queue')
  BY <1>2, <1>5, <1>6, <1>7, AdditionPasses
<1>9. \A x \in gone : FALSE
  OBVIOUS
<1> HIDE DEF gone
<1> QED
  BY <1>2, <1>8, <1>9, QueueStepKeeps

(* Time passes; the events stay what they are.                              *)
LEMMA Sooner ==
  ASSUME NEW e \in Event, e.delay > 0, NEW f, f = [e EXCEPT !.delay = @ - 1]
  PROVE  f \in Event /\ f.to = e.to /\ f.from = e.from /\ f.msg = e.msg
<1>1. e.delay \in Nat
  BY KindsOfEvents
<1> QED
  BY <1>1 DEF Event

LEMMA TickKeeps ==
  ASSUME SnoopyInv, Tick
  PROVE  SnoopyInv'
<1> DEFINE r == queue'
<1>1. /\ \A k \in DOMAIN queue : queue[k].delay > 0
      /\ r = [k \in DOMAIN queue |-> [queue[k] EXCEPT !.delay = @ - 1]]
      /\ bus' = bus /\ cache' = cache
  BY DEF Tick
<1>2. BusInv(bus, queue) /\ WillAttempt(bus, queue) /\ queue \in Seq(Event)
  BY DEF SnoopyInv, BusInv
<1>3. /\ Len(queue) \in Nat /\ DOMAIN queue = 1..Len(queue)
      /\ \A k \in DOMAIN queue : queue[k] \in Event
  BY <1>2, P!Elements
<1>4. /\ DOMAIN r = DOMAIN queue
      /\ \A k \in DOMAIN queue : r[k] = [queue[k] EXCEPT !.delay = @ - 1]
  BY <1>1
<1>5. \A k \in DOMAIN queue : /\ r[k] \in Event /\ r[k].to = queue[k].to
                              /\ r[k].from = queue[k].from /\ r[k].msg = queue[k].msg
  BY <1>1, <1>3, <1>4, Sooner
<1>6. r \in Seq(Event)
  <2>1. r \in [1..Len(queue) -> Event]
    BY <1>1, <1>3, <1>4, <1>5
  <2> QED
    BY <1>3, <2>1
<1> HIDE DEF r
<1>7. ASSUME NEW k \in DOMAIN queue, NEW u \in Tag
      PROVE  /\ IsOpen(r[k], u) <=> IsOpen(queue[k], u)
             /\ r[k] \in Near(u) <=> queue[k] \in Near(u)
             /\ r[k] \in Below(u) <=> queue[k] \in Below(u)
  <2>1. IsOpen(r[k], u) <=> IsOpen(queue[k], u)
    BY <1>5 DEF IsOpen
  <2> QED
    BY <1>3, <1>5, <2>1 DEF Near, Below
<1>8. AllCounted(bus, r)
  <2> SUFFICES ASSUME NEW u \in Tag
               PROVE  CountedAt(bus.pendingTransfers[u], Count(r, Near(u)), Count(r, Below(u)))
    BY DEF AllCounted
  <2>1. Count(r, Near(u)) = Count(queue, Near(u)) /\ Count(r, Below(u)) = Count(queue, Below(u))
    BY <1>4, <1>7, CountSame
  <2> QED
    BY <1>2, <2>1 DEF BusInv, AllCounted
<1>9. AllBelong(bus, r)
  BY <1>2, <1>4, <1>5, <1>7 DEF BusInv, AllBelong
<1>10. WillAttempt(bus, r)
  <2>1. Scheduled(queue) => Scheduled(r)
    BY <1>4, <1>5 DEF Scheduled
  <2> QED
    BY <1>2, <2>1 DEF WillAttempt
<1>11. BusInv(bus, r)
  BY <1>2, <1>6, <1>8, <1>9 DEF BusInv
<1>12. ASSUME NEW n \in Local, NEW u \in ReadTags(bus, queue, n)
       PROVE  u \in ReadTags(bus, r, n)
  <2>1. CASE \E j \in DOMAIN queue : IsReadFor(queue[j], n, u)
    <3>1. PICK j \in DOMAIN queue : IsReadFor(queue[j], n, u)
      BY <2>1
    <3>2. j \in DOMAIN r /\ IsReadFor(r[j], n, u)
      BY <1>4, <1>5, <3>1 DEF IsReadFor
    <3> QED
      BY <3>2 DEF ReadTags
  <2>2. CASE ReadWaits(bus, n, u) \/ ReadRuns(bus.pendingTransfers[u], n)
    BY <2>2 DEF ReadTags
  <2> QED
    BY <2>1, <2>2 DEF ReadTags
<1> DEFINE s == <<>>
           gone == {}
<1>13. Passes(bus, queue, gone, s, r) /\ \A e \in gone : FALSE
  BY <1>10, <1>11, <1>12 DEF Passes
<1> HIDE DEF s, gone
<1> QED
  BY <1>1, <1>13, QueueStepKeeps DEF r

LEMMA BusStepKeeps ==
  ASSUME SnoopyInv, BusReceives
  PROVE  SnoopyInv'
<1>1. PICK k \in DOMAIN queue :
        /\ queue[k].to = "Bus"
        /\ \E p \in IF queue[k].msg.type = "AttemptTransfer" THEN AttemptTransfer(bus)
                    ELSE RecvMsg(bus, queue[k].from, queue[k].msg) :
             /\ bus' = [p EXCEPT !.out = <<>>]
             /\ queue' = RemoveAt(queue, k) \o p.out
  BY Zenon DEF BusReceives
<1>2. PICK p \in IF queue[k].msg.type = "AttemptTransfer" THEN AttemptTransfer(bus)
                 ELSE RecvMsg(bus, queue[k].from, queue[k].msg) :
             /\ bus' = [p EXCEPT !.out = <<>>]
             /\ queue' = RemoveAt(queue, k) \o p.out
  BY <1>1
<1>3. /\ BusInv(bus, queue) /\ WillAttempt(bus, queue) /\ bus.out = <<>>
      /\ cache = [o \in Local |-> cache[o]] /\ cache' = cache
      /\ \A o \in Local : CacheOK(cache[o], ReadTags(bus, queue, o))
  BY DEF SnoopyInv, BusReceives
<1>4. HandledTo(bus, queue, p, RemoveAt(queue, k))
  BY <1>1, <1>3, BusKeeps
<1>5. /\ BusInv(bus', queue') /\ WillAttempt(bus', queue') /\ bus'.out = <<>>
      /\ \A n \in Local : ReadTags(bus, queue, n) \subseteq ReadTags(bus', queue', n)
  BY <1>2, <1>4 DEF HandledTo
<1>6. /\ cache' = [o \in Local |-> cache'[o]]
      /\ \A o \in Local : CacheOK(cache'[o], ReadTags(bus', queue', o))
  BY <1>3, <1>5, MoreReads
<1> QED
  BY <1>5, <1>6 DEF SnoopyInv

LEMMA InitKeeps == Init => SnoopyInv
<1> SUFFICES ASSUME Init PROVE SnoopyInv
  OBVIOUS
<1> DEFINE z == <<>>
<1>1. /\ bus.waitingMsgs = [c \in Connection |-> z]
      /\ bus.pendingTransfers = [t \in Tag |-> NoTransfer]
      /\ bus.transferInProgress = FALSE /\ bus.out = z
      /\ queue = z /\ cache = [c \in Local |-> C!NewCache(TRUE)]
      /\ bus = [waitingMsgs |-> bus.waitingMsgs, pendingTransfers |-> bus.pendingTransfers,
                transferInProgress |-> bus.transferInProgress, out |-> bus.out]
  BY DEF Init, NewBus
<1>2. z \in Seq(Event) /\ z \in Seq(P!Asking \cup Invalidates) /\ DOMAIN z = {}
  OBVIOUS
<1>3. \A S : Count(z, S) = 0
  BY CountEmpty
<1> HIDE DEF z
<1>4. /\ \A c \in Connection : bus.waitingMsgs[c] = z
      /\ \A t \in Tag : bus.pendingTransfers[t] = NoTransfer
  BY <1>1
<1>5. bus \in BusRecord
  <2>1. bus.waitingMsgs \in [Connection -> Seq(P!Asking \cup Invalidates)]
    BY <1>1, <1>2
  <2>2. bus.pendingTransfers \in [Tag -> Transfer \cup {NoTransfer}]
    BY <1>1
  <2> QED
    BY <1>1, <1>2, <2>1, <2>2 DEF BusRecord
<1>6. BusOK(bus)
  BY <1>2, <1>4, <1>5 DEF BusOK
<1>7. AllCounted(bus, queue) /\ AllBelong(bus, queue)
  BY <1>1, <1>2, <1>3, <1>4 DEF AllCounted, CountedAt, AllBelong
<1>8. WillAttempt(bus, queue)
  BY <1>1, <1>2, <1>4 DEF WillAttempt, Ready
<1>9. ASSUME NEW n \in Local
      PROVE  CacheOK(cache[n], ReadTags(bus, queue, n))
  <2> DEFINE top == TRUE
             W == ReadTags(bus, queue, n)
  <2>1. cache[n] = P!NewCache(top) /\ top \in BOOLEAN
    BY <1>1, SameNewCache
  <2> HIDE DEF top, W
  <2>2. /\ P!CacheInv(cache[n], Sends, W) /\ cache[n].topCache = top
        /\ cache[n].toLocal = <<>> /\ cache[n].toRemote = <<>>
    BY <2>1, ConstantsAreOK, P!NewCacheInv
  <2> QED
    BY <2>2 DEF CacheOK, top, W
<1>10. cache = [n \in Local |-> cache[n]]
  BY <1>1
<1>11. BusInv(bus, queue) /\ bus.out = <<>>
  BY <1>1, <1>2, <1>6, <1>7 DEF BusInv, z
<1> QED
  BY <1>8, <1>9, <1>10, <1>11 DEF SnoopyInv

LEMMA NextKeeps == SnoopyInv /\ [Next]_vars => SnoopyInv'
<1> SUFFICES ASSUME SnoopyInv, [Next]_vars PROVE SnoopyInv'
  OBVIOUS
<1>1. CASE \E n \in Local : ProcessorRequests(n)
  BY <1>1, ProcessorKeeps
<1>2. CASE \E n \in Local : CacheReceives(n)
  BY <1>2, ReceiptKeeps
<1>3. CASE RemoteInvalidates
  BY <1>3, InvalidationKeeps
<1>4. CASE BusReceives
  BY <1>4, BusStepKeeps
<1>5. CASE MemoryReceives
  BY <1>5, MemoryKeeps
<1>6. CASE Tick
  BY <1>6, TickKeeps
<1>7. CASE UNCHANGED vars
  BY <1>7 DEF vars, SnoopyInv
<1> QED
  BY <1>1, <1>2, <1>3, <1>4, <1>5, <1>6, <1>7 DEF Next

(* The invariant holds in every state: the calls of the bus, the caches and  *)
(* the memory (SnoopyBus.cpp:65-216) each keep it.                           *)
THEOREM SnoopyInvariant == Spec => []SnoopyInv
<1>1. Init => SnoopyInv
  BY InitKeeps
<1>2. SnoopyInv /\ [Next]_vars => SnoopyInv'
  BY NextKeeps
<1> QED
  BY <1>1, <1>2, PTL DEF Spec
-----------------------------------------------------------------------------
(* What it says.                                                            *)
LEMMA TypesFollow == SnoopyInv => TypeOK
<1> SUFFICES ASSUME SnoopyInv PROVE TypeOK
  OBVIOUS
<1>1. ASSUME NEW n \in Local
      PROVE  C!CacheTypeOK(cache[n])
  <2> DEFINE W == ReadTags(bus, queue, n)
             c == cache[n]
  <2>1. P!CacheInv(c, Sends, W)
    BY DEF SnoopyInv, CacheOK
  <2> HIDE DEF c, W
  <2>2. P!CacheTypeOK(c)
    BY <2>1, ConstantsAreOK, P!CacheInvImplies
  <2> QED
    BY <2>2, SameProperties DEF c
<1>2. ASSUME NEW t \in Transfers
      PROVE  bus.pendingTransfers[t].pendingResponses \in 1..(Cardinality(Connection) - 1)
  <2>1. bus.pendingTransfers[t] \in Transfer
    BY DEF Transfers, SnoopyInv, BusInv, BusOK, BusRecord
  <2> QED
    BY <2>1, ConnectionsCounted DEF Transfer
<1> QED
  BY <1>1, <1>2 DEF TypeOK

LEMMA CountsFollow == SnoopyInv => ResponsesAreCounted
<1> SUFFICES ASSUME SnoopyInv PROVE ResponsesAreCounted
  OBVIOUS
<1>1. queue \in Seq(Event) /\ AllCounted(bus, queue)
  BY DEF SnoopyInv, BusInv
<1>2. \A k \in DOMAIN queue : queue[k] \in Event
  BY <1>1, P!Elements
<1> SUFFICES ASSUME NEW t \in Tag
             PROVE  LET open == {k \in DOMAIN queue : IsOpen(queue[k], t)}
                        below == {k \in open : Remote \in {queue[k].to, queue[k].from}}
                        transfer == bus.pendingTransfers[t]
                    IN IF transfer = NoTransfer THEN open = {}
                       ELSE IF transfer.solicitingConnection = Remote
                       THEN transfer.pendingResponses = Cardinality(open) /\ below = {}
                       ELSE /\ transfer.pendingResponses = Cardinality(open \ below) + 1
                            /\ below # {} <=> open \ below = {}
  BY Zenon DEF ResponsesAreCounted, IsOpen
<1> DEFINE open == {k \in DOMAIN queue : IsOpen(queue[k], t)}
           below == {k \in open : Remote \in {queue[k].to, queue[k].from}}
           near == Places(queue, Near(t))
<1>3. near = open \ below /\ below = Places(queue, Below(t))
  BY <1>2 DEF Places, Near, Below
<1>4. /\ Count(queue, Near(t)) = Cardinality(near) /\ Count(queue, Below(t)) = Cardinality(below)
      /\ IsFiniteSet(near) /\ IsFiniteSet(below)
      /\ CountedAt(bus.pendingTransfers[t], Cardinality(near), Cardinality(below))
  <2> HIDE DEF open, below, near
  <2>1. near = Places(queue, Near(t))
    BY DEF near
  <2>2. IsFiniteSet(near) /\ IsFiniteSet(below)
    BY <1>1, <1>3, <2>1, CountIsNat
  <2>3. Count(queue, Near(t)) = Cardinality(near) /\ Count(queue, Below(t)) = Cardinality(below)
    BY <1>3, <2>1 DEF Count
  <2>4. CountedAt(bus.pendingTransfers[t], Count(queue, Near(t)), Count(queue, Below(t)))
    BY <1>1 DEF AllCounted
  <2> QED
    BY <2>2, <2>3, <2>4
<1>5. /\ Cardinality(near) = 0 <=> near = {}
      /\ Cardinality(below) = 0 <=> below = {}
  BY <1>4, FS_EmptySet
<1>6. below \subseteq open
  OBVIOUS
<1> HIDE DEF open, below, near
<1>7. CASE bus.pendingTransfers[t] = NoTransfer
  <2>1. near = {} /\ below = {}
    BY <1>4, <1>5, <1>7 DEF CountedAt
  <2>2. open = {}
    BY <1>3, <1>6, <2>1
  <2> QED
    BY <1>7, <2>2 DEF open, below
<1>8. CASE /\ bus.pendingTransfers[t] # NoTransfer
           /\ bus.pendingTransfers[t].solicitingConnection = Remote
  <2>1. bus.pendingTransfers[t].pendingResponses = Cardinality(near) /\ below = {}
    BY <1>4, <1>5, <1>8 DEF CountedAt
  <2>2. open = near
    BY <1>3, <2>1
  <2> QED
    BY <1>8, <2>1, <2>2 DEF open, below
<1>9. CASE /\ bus.pendingTransfers[t] # NoTransfer
           /\ bus.pendingTransfers[t].solicitingConnection # Remote
  <2>1. /\ bus.pendingTransfers[t].pendingResponses = Cardinality(near) + 1
        /\ below # {} <=> near = {}
    BY <1>4, <1>5, <1>9 DEF CountedAt
  <2> QED
    BY <1>3, <1>9, <2>1 DEF open, below
<1> QED
  BY <1>7, <1>8, <1>9

LEMMA IdleFollows ==
  ASSUME evictionPolicy = "LRU"
  PROVE  SnoopyInv => IdleIsDone
<1> SUFFICES ASSUME SnoopyInv, queue = <<>> PROVE
      /\ Transfers = {}
      /\ \A c \in Connection : bus.waitingMsgs[c] = <<>>
      /\ \A n \in Local, t \in Tag :
           cache[n].waitingOnSetUnlock = <<>> /\ cache[n].waitingOnBlockUnlock[t] = <<>>
  BY DEF IdleIsDone
<1>0. evictionPolicy = "LRU"
  OBVIOUS
<1>1. /\ BusOK(bus) /\ bus \in BusRecord /\ AllCounted(bus, queue) /\ WillAttempt(bus, queue)
  BY DEF SnoopyInv, BusInv, BusOK
<1>2. ASSUME NEW t \in Tag
      PROVE  bus.pendingTransfers[t] = NoTransfer
  <2>1. CountedAt(bus.pendingTransfers[t], 0, 0)
    BY <1>1, CountEmpty DEF AllCounted
  <2>2. bus.pendingTransfers[t] # NoTransfer => bus.pendingTransfers[t].pendingResponses \in 1..Cardinality(Local)
    BY <1>1 DEF BusRecord, Transfer
  <2> QED
    BY <2>1, <2>2, ConnectionsCounted DEF CountedAt
<1>3. Transfers = {}
  BY <1>2 DEF Transfers
<1>4. ~Scheduled(queue) /\ ~Unsatisfied(bus)
  BY <1>2 DEF Scheduled, Unsatisfied
<1>5. ASSUME NEW c \in Connection
      PROVE  bus.waitingMsgs[c] = <<>>
  <2> DEFINE w == bus.waitingMsgs[c]
  <2>1. w \in Seq(P!Asking \cup Invalidates) /\ \A k \in DOMAIN w : w[k] \in Asked(c)
    BY <1>1 DEF BusOK, BusRecord
  <2>2. Ready(bus, c) = {}
    BY <1>1, <1>4 DEF WillAttempt
  <2>3. \A k \in DOMAIN w : w[k].tag \in Tag
    BY <2>1, KindsOfMessages
  <2>4. DOMAIN w = {}
    BY <1>2, <2>2, <2>3 DEF Ready
  <2> HIDE DEF w
  <2>5. w = <<>>
    BY <2>1, <2>4
  <2> QED
    BY <2>5 DEF w
<1>6. ASSUME NEW n \in Local, NEW t \in Tag
      PROVE  cache[n].waitingOnSetUnlock = <<>> /\ cache[n].waitingOnBlockUnlock[t] = <<>>
  <2> DEFINE c == cache[n]
             W == ReadTags(bus, queue, n)
  <2>1. P!CacheInv(c, Sends, W) /\ c.toRemote = <<>>
    BY DEF SnoopyInv, CacheOK
  <2>2. W = {}
    <3>1. n \in Connection
      BY DEF Connection
    <3>2. \A u \in Tag : ~ReadWaits(bus, n, u) /\ ~ReadRuns(bus.pendingTransfers[u], n)
      BY <1>2, <1>5, <3>1 DEF ReadWaits, ReadRuns
    <3> QED
      BY <3>2 DEF ReadTags
  <2> HIDE DEF c, W
  <2>3. \A u \in Tag : c.waitingOnBlockUnlock[u] = <<>>
    BY <2>1, <2>2 DEF P!CacheInv, P!BlocksInv, P!AskedFor
  <2>4. \A u \in Tag : ~(c.blocks[u] # NoBlock /\ c.blocks[u].locked)
    BY <2>1, <2>3 DEF P!CacheInv, P!BlocksInv, P!LockedIffWaiting
  <2>5. c.waitingOnSetUnlock = <<>>
    <3>1. SUFFICES ASSUME c.waitingOnSetUnlock # <<>> PROVE FALSE
      OBVIOUS
    <3>2. P!Cardinality(P!Locked(c)) = Associativity
      BY <1>0, <2>1, <3>1 DEF P!CacheInv, P!FrameWaitersWillWake, P!Locked
    <3>3. P!Locked(c) = {}
      BY <2>4 DEF P!Locked, P!Held
    <3> QED
      BY <3>2, <3>3, P!FS_EmptySet, FramesAssumption
  <2> QED
    BY <2>3, <2>5 DEF c
<1> QED
  BY <1>3, <1>5, <1>6

(* The tables of the caches are typed, and no transfer waits for none or    *)
(* for more than the others on the bus, whatever the bus has begun          *)
(* (SnoopyBus.cpp:202-216).                                                 *)
THEOREM SnoopyIsTyped == Spec => []TypeOK
<1>1. Spec => []SnoopyInv
  BY SnoopyInvariant
<1> QED
  BY <1>1, TypesFollow, PTL

(* The count of a transfer is what is still to come for it, so that each    *)
(* response finds its transfer and none is waited for in vain               *)
(* (SnoopyBus.cpp:126-200).                                                 *)
THEOREM ResponsesCounted == Spec => []ResponsesAreCounted
<1>1. Spec => []SnoopyInv
  BY SnoopyInvariant
<1> QED
  BY <1>1, CountsFollow, PTL

(* With the policy that the generated configurations select, nothing waits  *)
(* on the bus or in a cache when nothing is scheduled: every end of a       *)
(* transfer looks for the next one (SnoopyBus.cpp:94-113 and 154-200).      *)
THEOREM IdleMeansDone ==
  ASSUME evictionPolicy = "LRU"
  PROVE  Spec => []IdleIsDone
<1>1. Spec => []SnoopyInv
  BY SnoopyInvariant
<1>2. SnoopyInv => IdleIsDone
  BY IdleFollows
<1> QED
  BY <1>1, <1>2, PTL
=============================================================================
