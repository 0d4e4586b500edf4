------------------------- MODULE CacheFamily_proofs -------------------------
(***************************************************************************)
(* What every handler of a cache keeps, for every class, number of frames, *)
(* policy and set of tags.  The systems that connect caches instantiate    *)
(* these lemmas: each of their steps is a handler and empties outboxes.    *)
(***************************************************************************)
EXTENDS CacheFamily, FiniteSetTheorems, TLAPS

CONSTANT ID   \* the numbers of messages, other than NoID
-----------------------------------------------------------------------------
(* What is assumed of a class: the states it uses are closed under a read   *)
(* from below and a merge from above, and none of them is Invalid.          *)
Valid == DOMAIN class.AfterRead

ClassOK ==
  /\ Valid \subseteq State \ {"Invalid"}
  /\ "Modified" \in Valid /\ "Shared" \in Valid /\ class.ExclusiveFill \in Valid
  /\ \A s \in Valid : class.AfterRead[s] \in Valid /\ class.AfterMerge[s] \in Valid
  /\ class.AfterMerge["Invalid"] \in Valid \cup {"Invalid"}

(* NoBlock is neither a block nor a tag.                                    *)
CacheAssumptions ==
  /\ ClassOK
  /\ NoBlock \notin Block /\ NoBlock \notin Tag
  /\ Associativity \in Nat
-----------------------------------------------------------------------------
(* The types of the objects; R is what may be sent towards the memory.      *)
UsedBlock == [state : Valid \cup {"Invalid"}, locked : BOOLEAN, written : BOOLEAN]
Frame     == UsedBlock \cup {NoBlock}
IDs       == ID \cup {NoID}
ReadMsg   == [type : {"Read"}, tag : Tag, exclusive : BOOLEAN, id : IDs]
Request   == ReadMsg \cup [type : {"Write"}, tag : Tag, id : IDs]
Response  == [type : {"ReadResponse"}, tag : Tag, id : IDs, satisfied : BOOLEAN, exclusive : BOOLEAN]
Written   == [type : {"WriteResponse"}, tag : Tag, id : IDs]
Asking    == {Read(t, x, NoID) : t \in Tag, x \in BOOLEAN} \cup {Eviction(t, b) : t \in Tag, b \in BOOLEAN}
Delay     == {hitTime, missTime, evictionTime, invalidateTime, 0}
Outbox(M) == Seq([msg : M, delay : Delay])

UpMsg == Response \cup Written \cup ReadMsg \cup {Invalidate(t) : t \in Tag}

CacheObject(R) ==
  [topCache : BOOLEAN,
   blocks : [Tag -> Frame],
   waitingOnBlockUnlock : [Tag -> Seq(Request)],
   waitingOnSetUnlock : Seq(Request),
   waitingOnRemoteReads : [Tag -> Seq(ReadMsg)],
   pendingEviction : [Tag -> Frame],
   pendingInvalidate : SUBSET Tag,
   canceledBlockEviction : SUBSET Tag,
   toLocal : Outbox(UpMsg),
   toRemote : Outbox(R)]

(* What waits for a block is about that block.                              *)
Sorted(c) ==
  \A t \in Tag :
    /\ \A k \in DOMAIN c.waitingOnBlockUnlock[t] : c.waitingOnBlockUnlock[t][k].tag = t
    /\ \A k \in DOMAIN c.waitingOnRemoteReads[t] : c.waitingOnRemoteReads[t][k].tag = t

(* A block without data is locked: it waits for its data.                   *)
InvalidIsLocked(c) ==
  \A t \in Tag : c.blocks[t] # NoBlock /\ c.blocks[t].state = "Invalid" => c.blocks[t].locked

(* A block that is being evicted can be used again as it is.                *)
EvictedIsUsable(c) ==
  \A t \in Tag : c.pendingEviction[t] # NoBlock =>
    ~c.pendingEviction[t].locked /\ c.pendingEviction[t].state # "Invalid"

(* A top cache has nothing above it to wait for.                            *)
TopWaitsForNobody(c) ==
  c.topCache => /\ c.pendingInvalidate = {}
                /\ \A t \in Tag : c.pendingEviction[t] = NoBlock /\ c.waitingOnRemoteReads[t] = <<>>

HasItsFrames(c) == IsFiniteSet(Held(c)) /\ Cardinality(Held(c)) <= Associativity

(* While requests wait for a block, it is one of W or a read for it is in   *)
(* the outbox.                                                              *)
AskedFor(c, W) ==
  \A t \in Tag : c.waitingOnBlockUnlock[t] # <<>> =>
    t \in W \/ \E k \in DOMAIN c.toRemote : c.toRemote[k].msg.type = "Read" /\ c.toRemote[k].msg.tag = t

(* The invariant of a cache, but for the requests that wait for a frame.    *)
BlocksInv(c, R, W) ==
  /\ c \in CacheObject(R)
  /\ Sorted(c)
  /\ LockedIffWaiting(c)
  /\ InvalidIsLocked(c)
  /\ EvictedIsUsable(c)
  /\ TopWaitsForNobody(c)
  /\ HasItsFrames(c)
  /\ AskedFor(c, W)

CacheInv(c, R, W) ==
  /\ BlocksInv(c, R, W)
  /\ evictionPolicy = "LRU" => FrameWaitersWillWake(c)
-----------------------------------------------------------------------------
(* Requests at a block that has its frame.                                  *)

(* Everything but the outboxes and what belongs to block t is the same.     *)
SameBut(c, d, t) ==
  /\ d.topCache = c.topCache
  /\ d.waitingOnSetUnlock = c.waitingOnSetUnlock
  /\ d.waitingOnRemoteReads = c.waitingOnRemoteReads
  /\ d.pendingEviction = c.pendingEviction
  /\ d.pendingInvalidate = c.pendingInvalidate
  /\ d.canceledBlockEviction = c.canceledBlockEviction
  /\ \A s \in Tag \ {t} : /\ d.blocks[s] = c.blocks[s]
                          /\ d.waitingOnBlockUnlock[s] = c.waitingOnBlockUnlock[s]

(* Sending changes an outbox and nothing else.                              *)
SameTables(c, d) ==
  /\ d.topCache = c.topCache
  /\ d.blocks = c.blocks
  /\ d.waitingOnBlockUnlock = c.waitingOnBlockUnlock
  /\ d.waitingOnSetUnlock = c.waitingOnSetUnlock
  /\ d.waitingOnRemoteReads = c.waitingOnRemoteReads
  /\ d.pendingEviction = c.pendingEviction
  /\ d.pendingInvalidate = c.pendingInvalidate
  /\ d.canceledBlockEviction = c.canceledBlockEviction

LEMMA AppendTyped ==
  \A S, s, e : s \in Seq(S) /\ e \in S =>
    /\ Append(s, e) \in Seq(S) /\ Len(Append(s, e)) = Len(s) + 1 /\ Len(s) \in Nat
    /\ \A k \in 1..Len(s) : Append(s, e)[k] = s[k]
    /\ Append(s, e)[Len(s) + 1] = e
    /\ Append(s, e) # <<>>
OBVIOUS

(* Sequences.                                                               *)
LEMMA Elements ==
  \A S, s : s \in Seq(S) => /\ Len(s) \in Nat /\ DOMAIN s = 1..Len(s)
                            /\ \A k \in DOMAIN s : s[k] \in S
OBVIOUS

LEMMA LargerSeq ==
  ASSUME NEW S, NEW T, S \subseteq T, NEW s \in Seq(S)
  PROVE  s \in Seq(T)
OBVIOUS

LEMMA JoinedAt ==
  ASSUME NEW S, NEW a \in Seq(S), NEW b \in Seq(S), NEW r, r = a \o b
  PROVE  /\ r \in Seq(S) /\ DOMAIN r = 1..(Len(a) + Len(b))
         /\ \A i \in 1..Len(a) : r[i] = a[i]
         /\ \A i \in 1..Len(b) : r[Len(a) + i] = b[i]
OBVIOUS

(* A sequence without its place k, and where its places were before.        *)
Without(s, k) == SubSeq(s, 1, k-1) \o SubSeq(s, k+1, Len(s))

Before(k, i) == IF i < k THEN i ELSE i+1

LEMMA Removed ==
  ASSUME NEW S, NEW s \in Seq(S), NEW k \in DOMAIN s,
         NEW r, r = Without(s, k)
  PROVE  /\ r \in Seq(S)
         /\ \A j \in DOMAIN s : j # k => \E i \in DOMAIN r : r[i] = s[j]
         /\ \A i \in DOMAIN r : Before(k, i) \in DOMAIN s /\ Before(k, i) # k /\ r[i] = s[Before(k, i)]
         /\ \A i, j \in DOMAIN r : Before(k, i) = Before(k, j) => i = j
<1> DEFINE a == SubSeq(s, 1, k-1)
           b == SubSeq(s, k+1, Len(s))
<1>1. k \in 1..Len(s) /\ Len(s) \in Nat /\ DOMAIN s = 1..Len(s)
  OBVIOUS
<1>2. /\ a \in Seq(S) /\ Len(a) = k-1
      /\ \A i \in 1..(k-1) : a[i] = s[i]
  BY <1>1
<1>3. /\ b \in Seq(S) /\ Len(b) = Len(s)-k
      /\ \A i \in 1..(Len(s)-k) : b[i] = s[k+i]
  BY <1>1
<1>0. r = a \o b
  BY DEF Without
<1> HIDE DEF a, b
<1>4. /\ r \in Seq(S) /\ DOMAIN r = 1..(Len(s)-1)
      /\ \A i \in 1..(k-1) : r[i] = s[i]
      /\ \A i \in k..(Len(s)-1) : r[i] = s[i+1]
  <2>1. /\ r \in Seq(S) /\ DOMAIN r = 1..(Len(s)-1)
        /\ \A i \in 1..(k-1) : r[i] = a[i]
        /\ \A i \in 1..(Len(s)-k) : r[(k-1)+i] = b[i]
    <3>1. (k-1) + (Len(s)-k) = Len(s)-1
      BY <1>1
    <3>2. /\ r \in Seq(S) /\ DOMAIN r = 1..(Len(a) + Len(b))
          /\ \A i \in 1..Len(a) : r[i] = a[i]
          /\ \A i \in 1..Len(b) : r[Len(a) + i] = b[i]
      BY SMTT(60), <1>0, <1>2, <1>3, JoinedAt
    <3>3. Len(a) = k-1 /\ Len(b) = Len(s)-k
      BY <1>2, <1>3
    <3> QED
      BY <3>1, <3>2, <3>3
  <2>2. \A i \in k..(Len(s)-1) : r[i] = s[i+1]
    <3> TAKE i \in k..(Len(s)-1)
    <3> DEFINE h == i-k+1
    <3>1. h \in 1..(Len(s)-k) /\ (k-1)+h = i /\ k+h = i+1
      BY <1>1
    <3> HIDE DEF h
    <3> QED
      BY <1>3, <2>1, <3>1
  <2> QED
    BY <1>2, <2>1, <2>2
<1>6. \A j \in 1..Len(s) : j # k => \E i \in 1..(Len(s)-1) : r[i] = s[j]
  <2> SUFFICES ASSUME NEW j \in 1..Len(s), j # k PROVE \E i \in 1..(Len(s)-1) : r[i] = s[j]
    OBVIOUS
  <2>1. CASE j < k
    BY <1>1, <1>4, <2>1
  <2>2. CASE j > k
    <3>1. j-1 \in k..(Len(s)-1) /\ j-1 \in 1..(Len(s)-1) /\ (j-1)+1 = j
      BY <1>1, <2>2
    <3> QED
      BY <1>4, <3>1
  <2> QED
    BY <1>1, <2>1, <2>2
<1>7. \A i \in 1..(Len(s)-1) : Before(k, i) \in 1..Len(s) /\ Before(k, i) # k /\ r[i] = s[Before(k, i)]
  <2> TAKE i \in 1..(Len(s)-1)
  <2>1. CASE i < k
    BY <1>1, <1>4, <2>1 DEF Before
  <2>2. CASE i >= k
    <3>1. i \in k..(Len(s)-1) /\ i+1 \in 1..Len(s) /\ i+1 # k /\ Before(k, i) = i+1
      BY <1>1, <2>2 DEF Before
    <3> QED
      BY <1>4, <3>1
  <2> QED
    BY <1>1, <2>1, <2>2
<1>8. \A i, j \in 1..(Len(s)-1) : Before(k, i) = Before(k, j) => i = j
  BY <1>1 DEF Before
<1> QED
  BY <1>1, <1>4, <1>6, <1>7, <1>8

LEMMA SendRemote ==
  ASSUME NEW R, NEW c \in CacheObject(R), NEW m \in R, NEW delay \in Delay,
         NEW d, d = ToRemote(c, m, delay)
  PROVE  /\ d \in CacheObject(R) /\ SameTables(c, d) /\ d.toLocal = c.toLocal
         /\ d.toRemote = Append(c.toRemote, [msg |-> m, delay |-> delay])
<1> DEFINE out == Append(c.toRemote, [msg |-> m, delay |-> delay])
<1>1. c.toRemote \in Outbox(R)
  BY DEF CacheObject
<1>2. out \in Outbox(R)
  BY <1>1, AppendTyped DEF Outbox
<1>3. d = [c EXCEPT !.toRemote = out]
  BY DEF ToRemote
<1> HIDE DEF out
<1>4. d \in CacheObject(R) /\ d.toRemote = out
  BY <1>2, <1>3 DEF CacheObject
<1>5. SameTables(c, d) /\ d.toLocal = c.toLocal
  BY <1>3 DEF CacheObject, SameTables
<1> QED
  BY <1>4, <1>5 DEF out

LEMMA SendLocal ==
  ASSUME NEW R, NEW c \in CacheObject(R), NEW m \in UpMsg, NEW delay \in Delay,
         NEW d, d = ToLocal(c, m, delay)
  PROVE  d \in CacheObject(R) /\ SameTables(c, d) /\ d.toRemote = c.toRemote
<1> DEFINE out == Append(c.toLocal, [msg |-> m, delay |-> delay])
<1>1. c.toLocal \in Outbox(UpMsg)
  BY DEF CacheObject
<1>2. out \in Outbox(UpMsg)
  BY <1>1, AppendTyped DEF Outbox
<1>3. d = [c EXCEPT !.toLocal = out]
  BY DEF ToLocal
<1> HIDE DEF out
<1>4. d \in CacheObject(R) /\ d.toRemote = c.toRemote
  BY <1>2, <1>3 DEF CacheObject
<1>5. SameTables(c, d)
  BY <1>3 DEF CacheObject, SameTables
<1> QED
  BY <1>4, <1>5

(* A frame gets another content.                                            *)
WithBlock(c, t, b) == [c EXCEPT !.blocks = [c.blocks EXCEPT ![t] = b]]

LEMMA SetBlock ==
  ASSUME NEW R, NEW c \in CacheObject(R), NEW t \in Tag, NEW b \in Frame,
         NEW d, d = WithBlock(c, t, b)
  PROVE  /\ d \in CacheObject(R) /\ SameBut(c, d, t)
         /\ d.waitingOnBlockUnlock = c.waitingOnBlockUnlock
         /\ d.blocks[t] = b
         /\ d.toRemote = c.toRemote /\ d.toLocal = c.toLocal
BY DEF CacheObject, SameBut, WithBlock

(* One more request waits for a block.                                      *)
WithWaiter(c, t, m) ==
  [c EXCEPT !.waitingOnBlockUnlock = [c.waitingOnBlockUnlock EXCEPT ![t] = Append(@, m)]]

LEMMA AddWaiter ==
  ASSUME NEW R, NEW c \in CacheObject(R), NEW t \in Tag, NEW m \in Request,
         NEW d, d = WithWaiter(c, t, m)
  PROVE  /\ d \in CacheObject(R) /\ SameBut(c, d, t)
         /\ d.blocks = c.blocks
         /\ d.waitingOnBlockUnlock[t] = Append(c.waitingOnBlockUnlock[t], m)
         /\ d.toRemote = c.toRemote /\ d.toLocal = c.toLocal
<1> DEFINE q == Append(c.waitingOnBlockUnlock[t], m)
<1>1. c.waitingOnBlockUnlock \in [Tag -> Seq(Request)]
  BY DEF CacheObject
<1>2. q \in Seq(Request)
  BY <1>1, AppendTyped
<1>3. d = [c EXCEPT !.waitingOnBlockUnlock = [c.waitingOnBlockUnlock EXCEPT ![t] = q]]
  BY <1>1 DEF WithWaiter
<1> HIDE DEF q
<1>6. [c.waitingOnBlockUnlock EXCEPT ![t] = q] \in [Tag -> Seq(Request)]
  BY <1>1, <1>2
<1>4. d \in CacheObject(R)
  BY <1>6, <1>3 DEF CacheObject
<1>5. /\ SameBut(c, d, t) /\ d.blocks = c.blocks
      /\ d.waitingOnBlockUnlock[t] = q
      /\ d.toRemote = c.toRemote /\ d.toLocal = c.toLocal
  BY <1>1, <1>3 DEF CacheObject, SameBut
<1> QED
  BY <1>4, <1>5 DEF q

LEMMA MissResult ==
  ASSUME NEW R, Asking \subseteq R, NEW c \in CacheObject(R),
         NEW t \in Tag, NEW m \in Request, t = m.tag, c.blocks[t] \in UsedBlock, NEW x \in BOOLEAN,
         NEW d, d = Miss(c, m, x)
  PROVE  /\ d \in CacheObject(R) /\ SameBut(c, d, t)
         /\ d.blocks[t] = [c.blocks[t] EXCEPT !.locked = TRUE]
         /\ d.waitingOnBlockUnlock[t] = Append(c.waitingOnBlockUnlock[t], m)
         /\ c.blocks[t].locked => d.toRemote = c.toRemote
         /\ ~c.blocks[t].locked =>
              d.toRemote = Append(c.toRemote, [msg |-> Read(t, x, NoID), delay |-> missTime])
<1> DEFINE b == [c.blocks[t] EXCEPT !.locked = TRUE]
           locked == WithBlock(c, t, b)
           asked == ToRemote(locked, Read(t, x, NoID), missTime)
           e == IF c.blocks[t].locked THEN c ELSE asked
<1>1. b \in Frame
  BY DEF UsedBlock, Frame
<1>2. Read(t, x, NoID) \in R /\ missTime \in Delay
  BY DEF Asking, Delay
<1>3. c.blocks[t].locked => b = c.blocks[t]
  BY DEF UsedBlock
<1>4. d = WithWaiter(e, t, m)
  BY DEF Miss, WithBlock, WithWaiter
<1> HIDE DEF b
<1>5. /\ locked \in CacheObject(R) /\ SameBut(c, locked, t)
      /\ locked.waitingOnBlockUnlock = c.waitingOnBlockUnlock
      /\ locked.blocks[t] = b
      /\ locked.toRemote = c.toRemote
  BY <1>1, SetBlock
<1> HIDE DEF locked
<1>6. /\ asked \in CacheObject(R) /\ SameTables(locked, asked)
      /\ asked.toRemote = Append(locked.toRemote, [msg |-> Read(t, x, NoID), delay |-> missTime])
  BY <1>2, <1>5, SendRemote
<1> HIDE DEF asked
<1>7. /\ e \in CacheObject(R) /\ SameBut(c, e, t)
      /\ e.waitingOnBlockUnlock = c.waitingOnBlockUnlock
      /\ e.blocks[t] = b
      /\ c.blocks[t].locked => e.toRemote = c.toRemote
      /\ ~c.blocks[t].locked => e.toRemote = asked.toRemote
  BY <1>3, <1>5, <1>6 DEF SameBut, SameTables
<1> HIDE DEF e
<1>8. /\ d \in CacheObject(R) /\ SameBut(e, d, t)
      /\ d.blocks = e.blocks
      /\ d.waitingOnBlockUnlock[t] = Append(e.waitingOnBlockUnlock[t], m)
      /\ d.toRemote = e.toRemote
  <2>1. e \in CacheObject(R)
    BY <1>7
  <2> QED
    BY SMTT(60), <1>4, <2>1, AddWaiter
<1> QED
  BY <1>5, <1>6, <1>7, <1>8 DEF SameBut, b

(* A request is answered at once, or it waits and the block is asked for    *)
(* unless it is already.                                                    *)
Answered(c, d, t) ==
  /\ c.blocks[t].state # "Invalid" /\ d.blocks[t].state # "Invalid"
  /\ d.blocks[t].locked = c.blocks[t].locked
  /\ d.waitingOnBlockUnlock[t] = c.waitingOnBlockUnlock[t]
  /\ d.toRemote = c.toRemote

MadeToWait(c, d, t, m) ==
  /\ d.blocks[t].locked
  /\ d.waitingOnBlockUnlock[t] = Append(c.waitingOnBlockUnlock[t], m)
  /\ c.blocks[t].locked => d.toRemote = c.toRemote
  /\ ~c.blocks[t].locked =>
       \E x \in BOOLEAN :
         d.toRemote = Append(c.toRemote, [msg |-> Read(t, x, NoID), delay |-> missTime])

LEMMA PerformReadResult ==
  ASSUME NEW R, Asking \subseteq R, NEW c \in CacheObject(R),
         NEW t \in Tag, NEW m \in ReadMsg, t = m.tag, c.blocks[t] \in UsedBlock,
         NEW d, d = PerformRead(c, m)
  PROVE  /\ d \in CacheObject(R) /\ SameBut(c, d, t) /\ d.blocks[t] \in UsedBlock
         /\ Answered(c, d, t) \/ MadeToWait(c, d, t, m)
<1> DEFINE s == c.blocks[t].state
<1>1. m.exclusive \in BOOLEAN /\ m.id \in IDs /\ m \in Request
  BY DEF ReadMsg, Request
<1>2. CASE s = "Invalid" \/ (m.exclusive /\ s \in class.NeedsExclusive)
  <2>1. d = Miss(c, m, m.exclusive)
    BY <1>2 DEF PerformRead
  <2>2. /\ d \in CacheObject(R) /\ SameBut(c, d, t)
        /\ d.blocks[t] = [c.blocks[t] EXCEPT !.locked = TRUE]
        /\ d.waitingOnBlockUnlock[t] = Append(c.waitingOnBlockUnlock[t], m)
        /\ c.blocks[t].locked => d.toRemote = c.toRemote
        /\ ~c.blocks[t].locked =>
             d.toRemote = Append(c.toRemote, [msg |-> Read(t, m.exclusive, NoID), delay |-> missTime])
    BY SMTT(60), <1>1, <2>1, MissResult
  <2>3. d.blocks[t] \in UsedBlock /\ d.blocks[t].locked
    BY <2>2 DEF UsedBlock
  <2> QED
    BY <1>1, <2>2, <2>3 DEF MadeToWait
<1>3. CASE ~(s = "Invalid" \/ (m.exclusive /\ s \in class.NeedsExclusive))
  <2> DEFINE r == ReadResponse(m, TRUE, s \in class.GrantsExclusive)
  <2>1. d = ToLocal(c, r, hitTime)
    BY <1>3 DEF PerformRead
  <2>2. r \in UpMsg /\ hitTime \in Delay
    BY <1>1 DEF ReadResponse, UpMsg, Response, Delay
  <2> HIDE DEF r
  <2>3. d \in CacheObject(R) /\ SameTables(c, d) /\ d.toRemote = c.toRemote
    BY <2>1, <2>2, SendLocal
  <2> QED
    BY <1>3, <2>3 DEF SameTables, SameBut, Answered
<1> QED
  BY <1>2, <1>3

LEMMA PerformWriteResult ==
  ASSUME CacheAssumptions, NEW R, Asking \subseteq R, NEW c \in CacheObject(R),
         NEW t \in Tag, NEW m \in [type : {"Write"}, tag : Tag, id : IDs], t = m.tag,
         c.blocks[t] \in UsedBlock,
         NEW d, d = PerformWrite(c, m)
  PROVE  /\ d \in CacheObject(R) /\ SameBut(c, d, t) /\ d.blocks[t] \in UsedBlock
         /\ Answered(c, d, t) \/ MadeToWait(c, d, t, m)
<1> DEFINE b == [c.blocks[t] EXCEPT !.written = TRUE]
           e == WithBlock(c, t, b)
<1>1. m.id \in IDs /\ m \in Request /\ TRUE \in BOOLEAN
  BY DEF Request
<1>2. /\ b \in UsedBlock /\ b \in Frame
      /\ b.state = c.blocks[t].state /\ b.locked = c.blocks[t].locked
  BY DEF UsedBlock, Frame
<1>3. d = IF c.blocks[t].state \in class.NeedsExclusive \cup {"Invalid"} THEN Miss(e, m, TRUE)
          ELSE ToLocal([e EXCEPT !.blocks[t].state = "Modified"], WriteResponse(m), hitTime)
  BY DEF PerformWrite, WithBlock
<1> HIDE DEF b
<1>4. /\ e \in CacheObject(R) /\ SameBut(c, e, t)
      /\ e.waitingOnBlockUnlock = c.waitingOnBlockUnlock
      /\ e.blocks[t] = b
      /\ e.toRemote = c.toRemote
  BY <1>2, SetBlock
<1> HIDE DEF e
<1>5. CASE c.blocks[t].state \in class.NeedsExclusive \cup {"Invalid"}
  <2> DEFINE x == TRUE
  <2>1. d = Miss(e, m, x) /\ e.blocks[t] \in UsedBlock /\ x \in BOOLEAN
    BY <1>2, <1>3, <1>4, <1>5
  <2> HIDE DEF x
  <2>2. /\ d \in CacheObject(R) /\ SameBut(e, d, t)
        /\ d.blocks[t] = [e.blocks[t] EXCEPT !.locked = TRUE]
        /\ d.waitingOnBlockUnlock[t] = Append(e.waitingOnBlockUnlock[t], m)
        /\ e.blocks[t].locked => d.toRemote = e.toRemote
        /\ ~e.blocks[t].locked =>
             d.toRemote = Append(e.toRemote, [msg |-> Read(t, x, NoID), delay |-> missTime])
    BY SMTT(60), <1>1, <1>4, <2>1, MissResult
  <2>3. d.blocks[t] \in UsedBlock /\ d.blocks[t].locked
    BY <2>1, <2>2 DEF UsedBlock
  <2>4. MadeToWait(c, d, t, m)
    BY <1>1, <1>2, <1>4, <2>1, <2>2, <2>3 DEF MadeToWait
  <2>5. SameBut(c, d, t)
    BY <1>4, <2>2 DEF SameBut
  <2> QED
    BY <2>2, <2>3, <2>4, <2>5
<1>6. CASE c.blocks[t].state \notin class.NeedsExclusive \cup {"Invalid"}
  <2> DEFINE g == [b EXCEPT !.state = "Modified"]
             f == WithBlock(e, t, g)
  <2>1. g \in UsedBlock /\ g \in Frame /\ g.state = "Modified" /\ g.locked = b.locked
    BY <1>2 DEF UsedBlock, Frame, CacheAssumptions, ClassOK
  <2>2. d = ToLocal(f, WriteResponse(m), hitTime)
    BY <1>3, <1>4, <1>6 DEF WithBlock
  <2> HIDE DEF g
  <2>3. /\ f \in CacheObject(R) /\ SameBut(e, f, t)
        /\ f.waitingOnBlockUnlock = e.waitingOnBlockUnlock
        /\ f.blocks[t] = g
        /\ f.toRemote = e.toRemote
    BY <1>4, <2>1, SetBlock
  <2> HIDE DEF f
  <2>4. WriteResponse(m) \in UpMsg /\ hitTime \in Delay
    BY <1>1 DEF WriteResponse, UpMsg, Written, Delay
  <2>5. d \in CacheObject(R) /\ SameTables(f, d) /\ d.toRemote = f.toRemote
    BY <2>2, <2>3, <2>4, SendLocal
  <2>6. SameBut(c, d, t) /\ d.blocks[t] = g
    BY <1>4, <2>3, <2>5 DEF SameBut, SameTables
  <2>7. Answered(c, d, t)
    BY <1>2, <1>4, <1>6, <2>1, <2>3, <2>5 DEF SameTables, Answered
  <2> QED
    BY <2>1, <2>5, <2>6, <2>7
<1> QED
  BY <1>5, <1>6

LEMMA PerformResult ==
  ASSUME CacheAssumptions, NEW R, Asking \subseteq R, NEW c \in CacheObject(R),
         NEW t \in Tag, NEW m \in Request, t = m.tag, c.blocks[t] \in UsedBlock,
         NEW d, d = Perform(c, m)
  PROVE  /\ d \in CacheObject(R) /\ SameBut(c, d, t) /\ d.blocks[t] \in UsedBlock
         /\ Answered(c, d, t) \/ MadeToWait(c, d, t, m)
<1>1. CASE m.type = "Read"
  <2>1. m \in ReadMsg /\ d = PerformRead(c, m)
    BY <1>1 DEF Request, Perform
  <2> QED
    BY <2>1, PerformReadResult
<1>2. CASE m.type # "Read"
  <2>1. m \in [type : {"Write"}, tag : Tag, id : IDs] /\ d = PerformWrite(c, m)
    BY <1>2 DEF Request, ReadMsg, Perform
  <2> QED
    BY <2>1, PerformWriteResult
<1> QED
  BY <1>1, <1>2

-----------------------------------------------------------------------------
(* What a request at a block with its frame keeps.  W are the blocks that   *)
(* were asked for before.                                                   *)
Keeps(d, R, W) ==
  /\ d \in CacheObject(R)
  /\ Sorted(d)
  /\ LockedIffWaiting(d)
  /\ InvalidIsLocked(d)
  /\ AskedFor(d, W)

LEMMA PerformKeeps ==
  ASSUME CacheAssumptions, NEW R, Asking \subseteq R, NEW W, NEW c \in CacheObject(R),
         NEW t \in Tag, NEW m \in Request, t = m.tag, c.blocks[t] \in UsedBlock,
         Sorted(c), LockedIffWaiting(c), AskedFor(c, W),
         \A s \in Tag \ {t} : c.blocks[s] # NoBlock /\ c.blocks[s].state = "Invalid" => c.blocks[s].locked,
         NEW d, d = Perform(c, m)
  PROVE  /\ Keeps(d, R, W) /\ SameBut(c, d, t) /\ d.blocks[t] \in UsedBlock
         /\ c.blocks[t].locked => d.blocks[t].locked
<1>1. /\ d \in CacheObject(R) /\ SameBut(c, d, t) /\ d.blocks[t] \in UsedBlock
      /\ Answered(c, d, t) \/ MadeToWait(c, d, t, m)
  BY PerformResult
<1>2. /\ c.blocks[t] # NoBlock /\ d.blocks[t] # NoBlock
      /\ c.blocks[t].locked \in BOOLEAN /\ d.blocks[t].locked \in BOOLEAN
  <2>1. UsedBlock \subseteq Block
    BY DEF UsedBlock, Block, CacheAssumptions, ClassOK, State
  <2> QED
    BY <1>1, <2>1 DEF CacheAssumptions, UsedBlock
<1>3. c.waitingOnBlockUnlock[t] \in Seq(Request) /\ c.toRemote \in Outbox(R)
  BY DEF CacheObject
<1>4. c.blocks[t].locked => d.blocks[t].locked
  BY <1>1 DEF Answered, MadeToWait
<1>5. CASE Answered(c, d, t)
  <2>1. \A s \in Tag : d.waitingOnBlockUnlock[s] = c.waitingOnBlockUnlock[s]
    BY <1>1, <1>5 DEF SameBut, Answered
  <2>2. Sorted(d)
    BY <1>1, <2>1 DEF Sorted, SameBut
  <2>3. LockedIffWaiting(d)
    BY <1>1, <1>2, <1>5, <2>1 DEF LockedIffWaiting, SameBut, Answered
  <2>4. InvalidIsLocked(d)
    BY <1>1, <1>5 DEF InvalidIsLocked, SameBut, Answered
  <2>5. AskedFor(d, W)
    BY <1>5, <2>1 DEF AskedFor, Answered
  <2> QED
    BY <1>1, <1>4, <2>2, <2>3, <2>4, <2>5 DEF Keeps
<1>6. CASE MadeToWait(c, d, t, m)
  <2> DEFINE w == c.waitingOnBlockUnlock[t]
  <2>1. /\ d.waitingOnBlockUnlock[t] = Append(w, m) /\ d.waitingOnBlockUnlock[t] # <<>>
        /\ \A k \in DOMAIN d.waitingOnBlockUnlock[t] :
             \/ d.waitingOnBlockUnlock[t][k] = m
             \/ k \in DOMAIN w /\ d.waitingOnBlockUnlock[t][k] = w[k]
    BY <1>3, <1>6, AppendTyped DEF MadeToWait
  <2>2. Sorted(d)
    BY SMTT(60), <1>1, <2>1 DEF Sorted, SameBut
  <2>3. LockedIffWaiting(d)
    BY <1>1, <1>2, <1>6, <2>1 DEF LockedIffWaiting, SameBut, MadeToWait
  <2>4. InvalidIsLocked(d)
    BY <1>1, <1>6 DEF InvalidIsLocked, SameBut, MadeToWait
  <2>5. CASE c.blocks[t].locked
    <3>1. d.toRemote = c.toRemote /\ w # <<>>
      BY <1>2, <1>6, <2>5 DEF MadeToWait, LockedIffWaiting
    <3> QED
      BY <1>1, <1>4, <2>2, <2>3, <2>4, <3>1 DEF Keeps, AskedFor, SameBut
  <2>6. CASE ~c.blocks[t].locked
    <3>1. PICK x \in BOOLEAN :
            d.toRemote = Append(c.toRemote, [msg |-> Read(t, x, NoID), delay |-> missTime])
      BY <1>6, <2>6 DEF MadeToWait
    <3> DEFINE e == [msg |-> Read(t, x, NoID), delay |-> missTime]
    <3>2. e \in [msg : R, delay : Delay] /\ e.msg.type = "Read" /\ e.msg.tag = t
      BY DEF Asking, Read, Delay
    <3> HIDE DEF e
    <3>3. /\ d.toRemote[Len(c.toRemote) + 1] = e /\ Len(c.toRemote) + 1 \in DOMAIN d.toRemote
          /\ \A k \in DOMAIN c.toRemote : k \in DOMAIN d.toRemote /\ d.toRemote[k] = c.toRemote[k]
      BY <1>3, <3>1, <3>2, AppendTyped DEF Outbox, e
    <3>4. AskedFor(d, W)
      BY <1>1, <3>2, <3>3 DEF AskedFor, SameBut
    <3> QED
      BY <1>1, <1>4, <2>2, <2>3, <2>4, <3>4 DEF Keeps
  <2> QED
    BY <2>5, <2>6
<1> QED
  BY <1>1, <1>5, <1>6
-----------------------------------------------------------------------------
(* Frames.                                                                  *)

LEMMA UsedIsNoNoBlock ==
  ASSUME CacheAssumptions PROVE \A b \in UsedBlock : b # NoBlock /\ b.locked \in BOOLEAN
<1>1. UsedBlock \subseteq Block
  BY DEF UsedBlock, Block, CacheAssumptions, ClassOK, State
<1> QED
  BY <1>1 DEF CacheAssumptions, UsedBlock

LEMMA SameHeld ==
  ASSUME NEW c, NEW d, NEW t \in Tag, SameBut(c, d, t), c.blocks[t] # NoBlock, d.blocks[t] # NoBlock
  PROVE  Held(d) = Held(c)
<1>1. \A s \in Tag : d.blocks[s] # NoBlock <=> c.blocks[s] # NoBlock
  BY DEF SameBut
<1> QED
  BY <1>1 DEF Held

(* Requests only wait for a frame while every frame is taken and locked.    *)
Locked(c) == {t \in Held(c) : c.blocks[t].locked}

FullAndLocked(c) ==
  Cardinality(Held(c)) = Associativity /\ \A t \in Held(c) : c.blocks[t].locked

LEMMA FramesAreLocked ==
  ASSUME CacheAssumptions, NEW c, HasItsFrames(c)
  PROVE  Cardinality(Locked(c)) = Associativity <=> FullAndLocked(c)
<1> DEFINE L == Locked(c)
           H == Held(c)
<1>1. L \subseteq H /\ IsFiniteSet(H) /\ Cardinality(H) <= Associativity /\ Associativity \in Nat
  BY DEF Locked, HasItsFrames, CacheAssumptions
<1>2. L = H <=> \A t \in Held(c) : c.blocks[t].locked
  BY DEF Locked
<1> HIDE DEF L, H
<1>3. /\ IsFiniteSet(L) /\ Cardinality(L) <= Cardinality(H) /\ Cardinality(L) \in Nat
      /\ Cardinality(H) \in Nat
      /\ Cardinality(L) = Cardinality(H) => L = H
  BY <1>1, FS_Subset, FS_CardinalityType
<1>4. Cardinality(L) = Associativity => L = H /\ Cardinality(H) = Associativity
  BY <1>1, <1>3
<1>5. L = H /\ Cardinality(H) = Associativity => Cardinality(L) = Associativity
  OBVIOUS
<1> QED
  BY <1>2, <1>4, <1>5 DEF L, H, FullAndLocked

LEMMA WakeMeansLocked ==
  ASSUME CacheAssumptions, NEW c, HasItsFrames(c)
  PROVE  FrameWaitersWillWake(c) <=> (c.waitingOnSetUnlock # <<>> => FullAndLocked(c))
BY FramesAreLocked DEF FrameWaitersWillWake, Locked

-----------------------------------------------------------------------------
(* A cache in which block t has its frame, and maybe no data and no lock:   *)
(* a request for t settles that.                                            *)
ReadyFor(c, t, R, W) ==
  /\ c \in CacheObject(R)
  /\ Sorted(c)
  /\ LockedIffWaiting(c)
  /\ \A s \in Tag \ {t} : c.blocks[s] # NoBlock /\ c.blocks[s].state = "Invalid" => c.blocks[s].locked
  /\ EvictedIsUsable(c)
  /\ TopWaitsForNobody(c)
  /\ HasItsFrames(c)
  /\ AskedFor(c, W)
  /\ c.blocks[t] \in UsedBlock

LEMMA PerformSettles ==
  ASSUME CacheAssumptions, NEW R, Asking \subseteq R, NEW W, NEW c,
         NEW t \in Tag, NEW m \in Request, t = m.tag, ReadyFor(c, t, R, W),
         NEW d, d = Perform(c, m)
  PROVE  /\ BlocksInv(d, R, W) /\ SameBut(c, d, t) /\ d.blocks[t] \in UsedBlock
         /\ Held(d) = Held(c)
         /\ c.blocks[t].locked => d.blocks[t].locked
<1>1. /\ Keeps(d, R, W) /\ SameBut(c, d, t) /\ d.blocks[t] \in UsedBlock
      /\ c.blocks[t].locked => d.blocks[t].locked
  <2>1. /\ c \in CacheObject(R) /\ Sorted(c) /\ LockedIffWaiting(c) /\ AskedFor(c, W)
        /\ \A s \in Tag \ {t} : c.blocks[s] # NoBlock /\ c.blocks[s].state = "Invalid" => c.blocks[s].locked
        /\ c.blocks[t] \in UsedBlock
    BY DEF ReadyFor
  <2> QED
    BY <2>1, PerformKeeps
<1>2. Held(d) = Held(c)
  <2>1. c.blocks[t] # NoBlock /\ d.blocks[t] # NoBlock
    BY <1>1, UsedIsNoNoBlock DEF ReadyFor
  <2> QED
    BY <1>1, <2>1, SameHeld
<1>3. EvictedIsUsable(d)
  BY <1>1 DEF ReadyFor, EvictedIsUsable, SameBut
<1>4. TopWaitsForNobody(d)
  BY <1>1 DEF ReadyFor, TopWaitsForNobody, SameBut
<1>5. HasItsFrames(d)
  BY <1>2 DEF ReadyFor, HasItsFrames
<1> QED
  BY <1>1, <1>2, <1>3, <1>4, <1>5 DEF BlocksInv, Keeps

(* PrepareFreshBlock gives t its frame.                                     *)
LEMMA PrepareMakesReady ==
  ASSUME CacheAssumptions, NEW R, NEW W, NEW c, BlocksInv(c, R, W), HasFreeFrame(c),
         NEW t \in Tag, c.blocks[t] = NoBlock,
         NEW d, d = PrepareFreshBlock(c, t)
  PROVE  /\ ReadyFor(d, t, R, W)
         /\ d.topCache = c.topCache /\ d.waitingOnSetUnlock = c.waitingOnSetUnlock
<1> DEFINE p == c.pendingEviction[t]
           b == IF p = NoBlock THEN [state |-> "Invalid", locked |-> FALSE, written |-> FALSE] ELSE p
           e == WithBlock(c, t, b)
<1>1. c \in CacheObject(R) /\ p \in Frame
  BY DEF BlocksInv, CacheObject
<1>2. b \in UsedBlock /\ b \in Frame /\ b.locked = FALSE
  BY <1>1 DEF UsedBlock, Frame, BlocksInv, EvictedIsUsable
<1>3. d = IF p = NoBlock THEN e
          ELSE [e EXCEPT !.pendingEviction = [c.pendingEviction EXCEPT ![t] = NoBlock],
                         !.canceledBlockEviction = c.canceledBlockEviction \cup {t}]
  BY DEF PrepareFreshBlock, WithBlock
<1> HIDE DEF b
<1>4. /\ e \in CacheObject(R) /\ SameBut(c, e, t)
      /\ e.waitingOnBlockUnlock = c.waitingOnBlockUnlock
      /\ e.blocks[t] = b
      /\ e.toRemote = c.toRemote /\ e.toLocal = c.toLocal
  BY <1>1, <1>2, SetBlock
<1> HIDE DEF e
<1>5. /\ d \in CacheObject(R) /\ d.blocks = e.blocks
      /\ d.waitingOnBlockUnlock = c.waitingOnBlockUnlock
      /\ d.waitingOnRemoteReads = c.waitingOnRemoteReads
      /\ d.waitingOnSetUnlock = c.waitingOnSetUnlock
      /\ d.toRemote = c.toRemote /\ d.topCache = c.topCache
      /\ d.pendingInvalidate = c.pendingInvalidate
      /\ \A s \in Tag : d.pendingEviction[s] = c.pendingEviction[s] \/ d.pendingEviction[s] = NoBlock
  <2>1. CASE p = NoBlock
    BY <1>3, <1>4, <2>1 DEF SameBut
  <2>2. CASE p # NoBlock
    <3> DEFINE pe == [c.pendingEviction EXCEPT ![t] = NoBlock]
               cb == c.canceledBlockEviction \cup {t}
    <3>1. pe \in [Tag -> Frame] /\ cb \in SUBSET Tag
          /\ \A s \in Tag : pe[s] = c.pendingEviction[s] \/ pe[s] = NoBlock
      BY <1>1 DEF CacheObject, Frame
    <3>2. d = [e EXCEPT !.pendingEviction = pe, !.canceledBlockEviction = cb]
      BY <1>3, <2>2
    <3> HIDE DEF pe, cb
    <3> QED
      BY ZenonT(60), <1>4, <3>1, <3>2 DEF CacheObject, SameBut
  <2> QED
    BY <2>1, <2>2
<1>6. \A s \in Tag \ {t} : d.blocks[s] = c.blocks[s]
  BY <1>4, <1>5 DEF SameBut
<1>7. d.blocks[t] = b /\ b # NoBlock
  BY <1>2, <1>4, <1>5, UsedIsNoNoBlock
<1>8. c.waitingOnBlockUnlock[t] = <<>>
  BY DEF BlocksInv, LockedIffWaiting
<1>9. LockedIffWaiting(d)
  BY <1>2, <1>5, <1>6, <1>7, <1>8 DEF BlocksInv, LockedIffWaiting
<1>10. HasItsFrames(d)
  <2> DEFINE H == Held(c)
  <2>1. Held(d) = H \cup {t}
    BY <1>6, <1>7 DEF Held
  <2>2. IsFiniteSet(H) /\ t \notin H /\ Cardinality(H) < Associativity /\ Cardinality(H) \in Nat
    BY FS_CardinalityType DEF BlocksInv, HasItsFrames, HasFreeFrame, Held
  <2> HIDE DEF H
  <2>3. IsFiniteSet(H \cup {t}) /\ Cardinality(H \cup {t}) = Cardinality(H) + 1
    BY <2>2, FS_AddElement
  <2>4. Cardinality(H \cup {t}) <= Associativity
    BY <2>2, <2>3 DEF CacheAssumptions
  <2> QED
    BY <2>1, <2>3, <2>4 DEF HasItsFrames
<1>11. /\ Sorted(d) /\ EvictedIsUsable(d) /\ TopWaitsForNobody(d) /\ AskedFor(d, W)
       /\ \A s \in Tag \ {t} : d.blocks[s] # NoBlock /\ d.blocks[s].state = "Invalid" => d.blocks[s].locked
  <2>1. Sorted(d)
    BY <1>5 DEF BlocksInv, Sorted
  <2>2. EvictedIsUsable(d)
    BY <1>5 DEF BlocksInv, EvictedIsUsable
  <2>3. TopWaitsForNobody(d)
    BY <1>5 DEF BlocksInv, TopWaitsForNobody
  <2>4. AskedFor(d, W)
    BY <1>5 DEF BlocksInv, AskedFor
  <2>5. \A s \in Tag \ {t} : d.blocks[s] # NoBlock /\ d.blocks[s].state = "Invalid" => d.blocks[s].locked
    BY <1>6 DEF BlocksInv, InvalidIsLocked
  <2> QED
    BY <2>1, <2>2, <2>3, <2>4, <2>5
<1> QED
  BY <1>2, <1>5, <1>7, <1>9, <1>10, <1>11 DEF ReadyFor

(* TakeFrame gives up a block that is not locked.                           *)
LEMMA TakeFrameFrees ==
  ASSUME CacheAssumptions, NEW R, Asking \subseteq R, NEW W, NEW c, BlocksInv(c, R, W),
         NEW t \in Tag, NEW v \in Victims(c), c.blocks[t] = NoBlock,
         NEW d, d = TakeFrame(c, v, t)
  PROVE  /\ BlocksInv(d, R, W) /\ HasFreeFrame(d) /\ d.blocks[t] = NoBlock
         /\ d.topCache = c.topCache /\ d.waitingOnSetUnlock = c.waitingOnSetUnlock
<1> DEFINE e == WithBlock(c, v, NoBlock)
           f == [e EXCEPT !.pendingEviction = [c.pendingEviction EXCEPT ![v] = c.blocks[v]]]
<1>1. /\ c \in CacheObject(R) /\ v \in Tag /\ v \in Held(c) /\ c.blocks[v] \in UsedBlock
      /\ c.blocks[v].state # "Invalid" /\ ~c.blocks[v].locked
  BY DEF BlocksInv, Victims, Held, CacheObject, Frame
<1>2. NoBlock \in Frame /\ c.blocks[v] \in Frame
  BY <1>1 DEF Frame
<1>3. d = IF c.topCache THEN ToRemote(e, Eviction(v, c.blocks[v].written), evictionTime)
          ELSE IF t \in c.pendingInvalidate THEN f ELSE ToLocal(f, Invalidate(v), invalidateTime)
  BY <1>1 DEF TakeFrame, WithBlock, CacheObject
<1>4. /\ e \in CacheObject(R) /\ SameBut(c, e, v)
      /\ e.waitingOnBlockUnlock = c.waitingOnBlockUnlock
      /\ e.blocks[v] = NoBlock
      /\ e.toRemote = c.toRemote /\ e.toLocal = c.toLocal
  BY <1>1, <1>2, SetBlock
<1> HIDE DEF e
<1>5. /\ f \in CacheObject(R) /\ f.topCache = c.topCache /\ f.blocks = e.blocks
      /\ f.waitingOnBlockUnlock = c.waitingOnBlockUnlock
      /\ f.waitingOnRemoteReads = c.waitingOnRemoteReads
      /\ f.waitingOnSetUnlock = c.waitingOnSetUnlock
      /\ f.toRemote = c.toRemote
      /\ f.pendingInvalidate = c.pendingInvalidate
      /\ f.pendingEviction = [c.pendingEviction EXCEPT ![v] = c.blocks[v]]
  <2> DEFINE pe == [c.pendingEviction EXCEPT ![v] = c.blocks[v]]
  <2>1. pe \in [Tag -> Frame]
    BY <1>1, <1>2 DEF CacheObject
  <2>2. f = [e EXCEPT !.pendingEviction = pe]
    OBVIOUS
  <2> HIDE DEF pe, f
  <2>3. f \in CacheObject(R) /\ f.pendingEviction = pe
    BY <1>4, <2>1, <2>2 DEF CacheObject
  <2> QED
    BY <1>4, <2>2, <2>3 DEF CacheObject, SameBut, pe
<1> HIDE DEF f
<1>6. /\ d \in CacheObject(R) /\ d.topCache = c.topCache /\ d.blocks = e.blocks
      /\ d.waitingOnBlockUnlock = c.waitingOnBlockUnlock
      /\ d.waitingOnRemoteReads = c.waitingOnRemoteReads
      /\ d.waitingOnSetUnlock = c.waitingOnSetUnlock
      /\ d.pendingInvalidate = c.pendingInvalidate
      /\ \/ d.pendingEviction = c.pendingEviction
         \/ ~c.topCache /\ d.pendingEviction = [c.pendingEviction EXCEPT ![v] = c.blocks[v]]
      /\ \/ d.toRemote = c.toRemote
         \/ \E out \in [msg : R, delay : Delay] : d.toRemote = Append(c.toRemote, out)
  <2>1. CASE c.topCache
    <3> DEFINE m == Eviction(v, c.blocks[v].written)
    <3>1. m \in R /\ evictionTime \in Delay
      BY <1>1 DEF Asking, UsedBlock, Delay
    <3>2. d = ToRemote(e, m, evictionTime)
      BY <1>3, <2>1
    <3> HIDE DEF m
    <3>3. /\ d \in CacheObject(R) /\ SameTables(e, d)
          /\ d.toRemote = Append(e.toRemote, [msg |-> m, delay |-> evictionTime])
      BY <1>4, <3>1, <3>2, SendRemote
    <3>4. [msg |-> m, delay |-> evictionTime] \in [msg : R, delay : Delay]
      BY <3>1
    <3> QED
      BY <1>4, <3>3, <3>4 DEF SameTables, SameBut
  <2>2. CASE ~c.topCache /\ t \in c.pendingInvalidate
    BY <1>3, <1>5, <2>2
  <2>3. CASE ~c.topCache /\ t \notin c.pendingInvalidate
    <3>1. d = ToLocal(f, Invalidate(v), invalidateTime)
      BY <1>3, <2>3
    <3>2. Invalidate(v) \in UpMsg /\ invalidateTime \in Delay
      BY <1>1 DEF UpMsg, Delay
    <3>3. d \in CacheObject(R) /\ SameTables(f, d) /\ d.toRemote = f.toRemote
      BY <1>5, <3>1, <3>2, SendLocal
    <3> QED
      BY <1>5, <2>3, <3>3 DEF SameTables
  <2> QED
    BY <2>1, <2>2, <2>3
<1>7. d.blocks[v] = NoBlock /\ \A s \in Tag \ {v} : d.blocks[s] = c.blocks[s]
  BY <1>4, <1>6 DEF SameBut
<1>8. HasItsFrames(d) /\ HasFreeFrame(d)
  <2> DEFINE H == Held(c)
  <2>1. Held(d) = H \ {v}
    BY <1>7 DEF Held
  <2>2. IsFiniteSet(H) /\ v \in H /\ Cardinality(H) <= Associativity /\ Cardinality(H) \in Nat
    BY <1>1, FS_CardinalityType DEF BlocksInv, HasItsFrames
  <2> HIDE DEF H
  <2>3. IsFiniteSet(H \ {v}) /\ Cardinality(H \ {v}) = Cardinality(H) - 1
    BY <2>2, FS_RemoveElement
  <2>4. Cardinality(H \ {v}) < Associativity
    BY <2>2, <2>3 DEF CacheAssumptions
  <2>5. Cardinality(H \ {v}) <= Associativity
    BY <2>2, <2>3 DEF CacheAssumptions
  <2> QED
    BY <2>1, <2>3, <2>4, <2>5 DEF HasItsFrames, HasFreeFrame
<1>9. Sorted(d)
  BY <1>6 DEF BlocksInv, Sorted
<1>10. LockedIffWaiting(d)
  BY <1>1, <1>6, <1>7 DEF BlocksInv, LockedIffWaiting
<1>11. InvalidIsLocked(d)
  BY <1>7 DEF BlocksInv, InvalidIsLocked
<1>12. EvictedIsUsable(d)
  <2>1. \A s \in Tag : d.pendingEviction[s] = c.pendingEviction[s]
                       \/ d.pendingEviction[s] = c.blocks[v]
    BY <1>1, <1>6 DEF CacheObject
  <2> QED
    BY <1>1, <2>1 DEF BlocksInv, EvictedIsUsable
<1>13. TopWaitsForNobody(d)
  BY <1>6 DEF BlocksInv, TopWaitsForNobody
<1>14. AskedFor(d, W)
  <2>1. c.toRemote \in Outbox(R)
    BY <1>1 DEF CacheObject
  <2>2. \A k \in DOMAIN c.toRemote : k \in DOMAIN d.toRemote /\ d.toRemote[k] = c.toRemote[k]
    BY SMTT(60), <1>6, <2>1, AppendTyped DEF Outbox
  <2> QED
    BY <1>6, <2>2 DEF BlocksInv, AskedFor
<1>15. d.blocks[t] = NoBlock
  BY <1>7
<1> QED
  BY <1>6, <1>8, <1>9, <1>10, <1>11, <1>12, <1>13, <1>14, <1>15 DEF BlocksInv

-----------------------------------------------------------------------------
(* OnLocalRead and OnLocalWrite.                                            *)

LEMMA InvIsReady ==
  ASSUME NEW R, NEW W, NEW c, BlocksInv(c, R, W), NEW t \in Tag, c.blocks[t] # NoBlock
  PROVE  ReadyFor(c, t, R, W)
<1>1. c.blocks[t] \in UsedBlock
  BY DEF BlocksInv, CacheObject, Frame
<1> QED
  BY <1>1 DEF BlocksInv, ReadyFor, InvalidIsLocked

(* Nobody waits for a frame, as far as that is known of the policy.         *)
NobodyWaits(c) == evictionPolicy = "LRU" => c.waitingOnSetUnlock = <<>>

(* Without requests that wait for a frame there is nothing to wake.         *)
LEMMA NobodyToWake ==
  ASSUME NEW R, NEW W, NEW c, BlocksInv(c, R, W), NobodyWaits(c)
  PROVE  CacheInv(c, R, W)
BY DEF CacheInv, FrameWaitersWillWake, NobodyWaits

LEMMA RequestAtHeldBlock ==
  ASSUME CacheAssumptions, NEW R, Asking \subseteq R, NEW W, NEW c, CacheInv(c, R, W),
         NEW m \in Request, c.blocks[m.tag] # NoBlock, NEW d, d = Perform(c, m)
  PROVE  CacheInv(d, R, W) /\ d.topCache = c.topCache
<1> DEFINE t == m.tag
<1>1. t \in Tag
  BY DEF Request, ReadMsg
<1>2. ReadyFor(c, t, R, W)
  BY <1>1, InvIsReady DEF CacheInv
<1> HIDE DEF t
<1>3. t = m.tag
  BY DEF t
<1>4. /\ BlocksInv(d, R, W) /\ SameBut(c, d, t) /\ Held(d) = Held(c)
      /\ c.blocks[t].locked => d.blocks[t].locked
  BY <1>1, <1>2, <1>3, PerformSettles
<1>5. d.topCache = c.topCache /\ d.waitingOnSetUnlock = c.waitingOnSetUnlock
  BY <1>4 DEF SameBut
<1>6. ASSUME evictionPolicy = "LRU"
      PROVE  FrameWaitersWillWake(d)
  <2>1. HasItsFrames(c) /\ HasItsFrames(d) /\ FrameWaitersWillWake(c)
    BY <1>4, <1>6 DEF CacheInv, BlocksInv
  <2>2. c.waitingOnSetUnlock # <<>> => FullAndLocked(c)
    BY <2>1, WakeMeansLocked
  <2>3. FullAndLocked(c) => FullAndLocked(d)
    <3>1. \A s \in Held(d) : s = t \/ d.blocks[s] = c.blocks[s]
      BY <1>4 DEF SameBut, Held
    <3> QED
      BY <1>4, <3>1 DEF FullAndLocked
  <2> QED
    BY <1>5, <2>1, <2>2, <2>3, WakeMeansLocked
<1> QED
  BY <1>4, <1>5, <1>6 DEF CacheInv

(* What OnLocalRequest does with a block that gets a free frame.            *)
InFreeFrame(c, m) == Perform(PrepareFreshBlock(c, m.tag), m)

LEMMA RequestAtFreeFrame ==
  ASSUME CacheAssumptions, NEW R, Asking \subseteq R, NEW W, NEW c, BlocksInv(c, R, W),
         HasFreeFrame(c), NobodyWaits(c),
         NEW m \in Request, c.blocks[m.tag] = NoBlock,
         NEW d, d = InFreeFrame(c, m)
  PROVE  CacheInv(d, R, W) /\ d.topCache = c.topCache
<1> DEFINE t == m.tag
           e == PrepareFreshBlock(c, t)
<1>1. t \in Tag /\ c.blocks[t] = NoBlock
  BY DEF Request, ReadMsg
<1>2. d = Perform(e, m)
  BY DEF InFreeFrame
<1>3. t = m.tag
  OBVIOUS
<1> HIDE DEF t
<1>4. ReadyFor(e, t, R, W) /\ e.topCache = c.topCache /\ e.waitingOnSetUnlock = c.waitingOnSetUnlock
  BY <1>1, PrepareMakesReady
<1> HIDE DEF e
<1>5. BlocksInv(d, R, W) /\ SameBut(e, d, t)
  BY <1>1, <1>2, <1>3, <1>4, PerformSettles
<1>6. d.topCache = c.topCache /\ d.waitingOnSetUnlock = c.waitingOnSetUnlock
  BY <1>4, <1>5 DEF SameBut
<1> QED
  BY <1>5, <1>6, NobodyToWake DEF NobodyWaits

(* A request waits for a frame when no frame can be given up.               *)
LEMMA RequestWaitsForFrame ==
  ASSUME CacheAssumptions, NEW R, NEW W, NEW c, CacheInv(c, R, W),
         NEW m \in Request, ~HasFreeFrame(c), NoBlock \in Evict(c),
         NEW d, d = [c EXCEPT !.waitingOnSetUnlock = Append(@, m)]
  PROVE  CacheInv(d, R, W) /\ d.topCache = c.topCache
<1> DEFINE q == Append(c.waitingOnSetUnlock, m)
<1>1. c \in CacheObject(R)
  BY DEF CacheInv, BlocksInv
<1>2. q \in Seq(Request) /\ q # <<>>
  <2>1. c.waitingOnSetUnlock \in Seq(Request)
    BY <1>1 DEF CacheObject
  <2> QED
    BY <2>1, AppendTyped
<1>3. d = [c EXCEPT !.waitingOnSetUnlock = q]
  OBVIOUS
<1> HIDE DEF q
<1>4. d \in CacheObject(R) /\ d.waitingOnSetUnlock = q
  BY <1>1, <1>2, <1>3 DEF CacheObject
<1>5. /\ d.topCache = c.topCache /\ d.blocks = c.blocks
      /\ d.waitingOnBlockUnlock = c.waitingOnBlockUnlock
      /\ d.waitingOnRemoteReads = c.waitingOnRemoteReads
      /\ d.pendingEviction = c.pendingEviction
      /\ d.pendingInvalidate = c.pendingInvalidate
      /\ d.toRemote = c.toRemote
  BY <1>1, <1>3 DEF CacheObject
<1>6. Held(d) = Held(c)
  BY <1>5 DEF Held
<1>7. BlocksInv(d, R, W)
  <2>1. Sorted(d) /\ LockedIffWaiting(d)
    BY <1>5 DEF CacheInv, BlocksInv, Sorted, LockedIffWaiting
  <2>2. InvalidIsLocked(d) /\ EvictedIsUsable(d)
    BY <1>5 DEF CacheInv, BlocksInv, InvalidIsLocked, EvictedIsUsable
  <2>3. TopWaitsForNobody(d) /\ AskedFor(d, W)
    BY <1>5 DEF CacheInv, BlocksInv, TopWaitsForNobody, AskedFor
  <2>4. HasItsFrames(d)
    BY <1>6 DEF CacheInv, BlocksInv, HasItsFrames
  <2> QED
    BY <1>4, <2>1, <2>2, <2>3, <2>4 DEF BlocksInv
<1>8. ASSUME evictionPolicy = "LRU"
      PROVE  FrameWaitersWillWake(d)
  <2>1. Victims(c) = {}
    <3>1. NoBlock \notin Victims(c)
      BY DEF Victims, Held, CacheAssumptions
    <3> QED
      BY <1>8, <3>1 DEF Evict
  <2>2. \A s \in Held(c) : c.blocks[s].locked
    BY <2>1 DEF Victims, CacheInv, BlocksInv, InvalidIsLocked, Held
  <2>3. Cardinality(Held(c)) = Associativity
    <3> DEFINE n == Cardinality(Held(c))
    <3>1. n \in Nat /\ n <= Associativity /\ ~(n < Associativity) /\ Associativity \in Nat
      BY FS_CardinalityType DEF CacheInv, BlocksInv, HasItsFrames, HasFreeFrame, CacheAssumptions
    <3> HIDE DEF n
    <3>2. n = Associativity
      BY <3>1
    <3> QED
      BY <3>2 DEF n
  <2>4. FullAndLocked(d)
    BY <1>5, <1>6, <2>2, <2>3 DEF FullAndLocked
  <2>5. HasItsFrames(d)
    BY <1>7 DEF BlocksInv
  <2> QED
    BY <2>4, <2>5, WakeMeansLocked
<1> QED
  BY <1>5, <1>7, <1>8 DEF CacheInv

LEMMA LocalRequestKeeps ==
  ASSUME CacheAssumptions, NEW R, Asking \subseteq R, NEW W, NEW c, CacheInv(c, R, W),
         NEW m \in Request, NEW d \in OnLocalRequest(c, m)
  PROVE  CacheInv(d, R, W) /\ d.topCache = c.topCache
<1>1. BlocksInv(c, R, W)
  BY DEF CacheInv
<1>2. ASSUME evictionPolicy = "LRU", c.waitingOnSetUnlock # <<>>
      PROVE  FullAndLocked(c)
  BY <1>1, <1>2, WakeMeansLocked DEF CacheInv, BlocksInv
<1>3. CASE c.blocks[m.tag] # NoBlock
  <2>1. d = Perform(c, m)
    BY <1>3 DEF OnLocalRequest
  <2> QED
    BY <1>3, <2>1, RequestAtHeldBlock
<1>4. CASE c.blocks[m.tag] = NoBlock /\ HasFreeFrame(c)
  <2>1. d = InFreeFrame(c, m)
    BY <1>4 DEF OnLocalRequest, InFreeFrame
  <2>2. ~FullAndLocked(c)
    <3> DEFINE n == Cardinality(Held(c))
    <3>1. n < Associativity /\ n \in Nat /\ Associativity \in Nat
      BY <1>1, <1>4, FS_CardinalityType DEF HasFreeFrame, BlocksInv, HasItsFrames, CacheAssumptions
    <3> HIDE DEF n
    <3>2. n # Associativity
      BY <3>1
    <3> QED
      BY <3>2 DEF n, FullAndLocked
  <2>3. NobodyWaits(c)
    BY <1>2, <2>2 DEF NobodyWaits
  <2>4. HasFreeFrame(c) /\ c.blocks[m.tag] = NoBlock
    BY <1>4
  <2> QED
    BY <1>1, <2>1, <2>3, <2>4, RequestAtFreeFrame
<1>5. CASE c.blocks[m.tag] = NoBlock /\ ~HasFreeFrame(c)
  <2>1. PICK v \in Evict(c) :
          d = IF v = NoBlock THEN [c EXCEPT !.waitingOnSetUnlock = Append(@, m)]
              ELSE Perform(PrepareFreshBlock(TakeFrame(c, v, m.tag), m.tag), m)
    BY <1>5 DEF OnLocalRequest
  <2>2. CASE v = NoBlock
    <3>1. d = [c EXCEPT !.waitingOnSetUnlock = Append(@, m)] /\ NoBlock \in Evict(c)
      BY <2>1, <2>2
    <3> QED
      BY <1>5, <3>1, RequestWaitsForFrame
  <2>3. CASE v # NoBlock
    <3> DEFINE e == TakeFrame(c, v, m.tag)
    <3>1. v \in Victims(c) /\ m.tag \in Tag
      BY <2>3 DEF Evict, Request, ReadMsg
    <3>2. /\ BlocksInv(e, R, W) /\ HasFreeFrame(e) /\ e.blocks[m.tag] = NoBlock
          /\ e.topCache = c.topCache /\ e.waitingOnSetUnlock = c.waitingOnSetUnlock
      BY <1>1, <1>5, <3>1, TakeFrameFrees
    <3>3. d = InFreeFrame(e, m)
      BY <2>1, <2>3 DEF InFreeFrame
    <3> HIDE DEF e
    <3>4. ~FullAndLocked(c)
      BY <3>1 DEF FullAndLocked, Victims
    <3>5. NobodyWaits(e)
      BY <1>2, <3>2, <3>4 DEF NobodyWaits
    <3> QED
      BY <3>2, <3>3, <3>5, RequestAtFreeFrame
  <2> QED
    BY <2>2, <2>3
<1> QED
  BY <1>3, <1>4, <1>5
-----------------------------------------------------------------------------
(* UnlockBlock: the requests that wait for the block, one after the other.  *)

(* x has the cache at the start, the block, the requests, R and W.          *)
Performing(x, k, a) ==
  ReadyFor(a, x[2], x[4], x[5]) /\ InvalidIsLocked(a) /\ SameBut(x[1], a, x[2])

P == INSTANCE FoldLemmas WITH Op <- Perform, Other <- Perform, Good <- Performing

Performed(c, q) == FoldLeft(Perform, c, q)

LEMMA PerformedIsFold == \A c, q : Performed(c, q) = P!Folded(c, q)
BY DEF Performed, P!Folded, FoldLeft, MapThenFoldSet, P!FoldLeft, P!MapThenFoldSet, Max, P!Max

LEMMA PerformedKeeps ==
  ASSUME CacheAssumptions, NEW R, Asking \subseteq R, NEW W, NEW c, NEW t \in Tag,
         ReadyFor(c, t, R, W), InvalidIsLocked(c),
         NEW q \in Seq(Request), \A k \in DOMAIN q : q[k].tag = t
  PROVE  LET d == Performed(c, q) IN
           ReadyFor(d, t, R, W) /\ InvalidIsLocked(d) /\ SameBut(c, d, t)
<1> DEFINE x == <<c, t, q, R, W>>
           n == Len(q)
<1>1. x[1] = c /\ x[2] = t /\ x[4] = R /\ x[5] = W
  OBVIOUS
<1>2. n \in Nat /\ DOMAIN q = 1..n /\ \A k \in 1..n : q[k] \in Request /\ q[k].tag = t
  OBVIOUS
<1> HIDE DEF x, n
<1>3. Performing(x, 0, c)
  BY <1>1 DEF Performing, SameBut
<1>4. ASSUME NEW a, NEW k \in 1..n, Performing(x, k-1, a)
      PROVE  Performing(x, k, Perform(a, q[k]))
  <2> DEFINE d == Perform(a, q[k])
  <2>1. ReadyFor(a, t, R, W) /\ SameBut(c, a, t)
    BY <1>1, <1>4 DEF Performing
  <2>2. q[k] \in Request /\ t = q[k].tag
    BY <1>2
  <2>3. BlocksInv(d, R, W) /\ SameBut(a, d, t) /\ d.blocks[t] \in UsedBlock
    BY <2>1, <2>2, PerformSettles
  <2> HIDE DEF d
  <2>4. ReadyFor(d, t, R, W) /\ InvalidIsLocked(d)
    BY <2>3 DEF BlocksInv, ReadyFor, InvalidIsLocked
  <2>5. SameBut(c, d, t)
    BY <2>1, <2>3 DEF SameBut
  <2>6. Performing(x, k, d)
    BY <1>1, <2>4, <2>5 DEF Performing
  <2> QED
    BY <2>6 DEF d
<1>5. Performing(x, n, P!Folded(c, q))
  BY <1>2, <1>3, <1>4, P!FoldKeeps
<1>6. Performing(x, n, Performed(c, q))
  BY <1>5, PerformedIsFold
<1> QED
  BY <1>1, <1>6 DEF Performing
-----------------------------------------------------------------------------
(* ... and when they leave it unlocked, those that wait for a frame.        *)

MadeAgain(S, m) == UNION {OnLocalRequest(e, m) : e \in S}

(* x has R, W and topCache.                                                 *)
Remaking(x, k, S) == \A e \in S : CacheInv(e, x[1], x[2]) /\ e.topCache = x[3]

A == INSTANCE FoldLemmas WITH Op <- MadeAgain, Other <- MadeAgain, Good <- Remaking

AllMadeAgain(S, q) == FoldLeft(MadeAgain, S, q)

LEMMA AllMadeAgainIsFold == \A S, q : AllMadeAgain(S, q) = A!Folded(S, q)
BY DEF AllMadeAgain, A!Folded, FoldLeft, MapThenFoldSet, A!FoldLeft, A!MapThenFoldSet, Max, A!Max

Unlocked(c, t) == [c EXCEPT !.blocks[t].locked = FALSE, !.waitingOnBlockUnlock[t] = <<>>]

LEMMA UnlockBlockIs ==
  ASSUME NEW c, NEW t
  PROVE  UnlockBlock(c, t) =
           LET d == Performed(Unlocked(c, t), c.waitingOnBlockUnlock[t])
           IN IF d.blocks[t].locked THEN {d}
              ELSE AllMadeAgain({[d EXCEPT !.waitingOnSetUnlock = <<>>]}, d.waitingOnSetUnlock)
BY DEF UnlockBlock, Performed, Unlocked, AllMadeAgain, MadeAgain, FoldLeft, MapThenFoldSet

LEMMA AllMadeAgainKeeps ==
  ASSUME CacheAssumptions, NEW R, Asking \subseteq R, NEW W, NEW c, CacheInv(c, R, W),
         NEW q \in Seq(Request), NEW S, S = {c}, NEW d \in AllMadeAgain(S, q)
  PROVE  CacheInv(d, R, W) /\ d.topCache = c.topCache
<1> DEFINE x == <<R, W, c.topCache>>
           n == Len(q)
<1>1. x[1] = R /\ x[2] = W /\ x[3] = c.topCache
  OBVIOUS
<1>2. n \in Nat /\ DOMAIN q = 1..n /\ \A k \in 1..n : q[k] \in Request
  OBVIOUS
<1> HIDE DEF x, n
<1>3. Remaking(x, 0, S)
  BY <1>1 DEF Remaking
<1>4. ASSUME NEW a, NEW k \in 1..n, Remaking(x, k-1, a)
      PROVE  Remaking(x, k, MadeAgain(a, q[k]))
  <2>1. SUFFICES ASSUME NEW f \in MadeAgain(a, q[k])
                 PROVE  CacheInv(f, R, W) /\ f.topCache = c.topCache
    BY <1>1 DEF Remaking
  <2>2. PICK e \in a : f \in OnLocalRequest(e, q[k])
    BY DEF MadeAgain
  <2>3. CacheInv(e, R, W) /\ e.topCache = c.topCache /\ q[k] \in Request
    BY <1>1, <1>2, <1>4 DEF Remaking
  <2> QED
    BY <2>2, <2>3, LocalRequestKeeps
<1>5. Remaking(x, n, A!Folded(S, q))
  BY <1>2, <1>3, <1>4, A!FoldKeeps
<1>6. Remaking(x, n, AllMadeAgain(S, q))
  BY <1>5, AllMadeAgainIsFold
<1> QED
  BY <1>1, <1>6 DEF Remaking
-----------------------------------------------------------------------------
(* Handlers that change one block.                                          *)

(* A block b as it was but for its state and data: locked or not as before. *)
LockKept(b, old) == b.locked = old.locked /\ (b.state = "Invalid" => b.locked)

LEMMA ChangeBlockKeeps ==
  ASSUME CacheAssumptions, NEW R, NEW W, NEW c, CacheInv(c, R, W), NEW t \in Tag,
         c.blocks[t] # NoBlock,
         NEW b \in UsedBlock, LockKept(b, c.blocks[t]),
         NEW d, d = WithBlock(c, t, b)
  PROVE  CacheInv(d, R, W) /\ SameBut(c, d, t) /\ d.blocks[t] = b
         /\ d.waitingOnBlockUnlock = c.waitingOnBlockUnlock /\ d.toRemote = c.toRemote
<1>a. b.locked = c.blocks[t].locked /\ (b.state = "Invalid" => b.locked)
  BY DEF LockKept
<1>1. c \in CacheObject(R) /\ BlocksInv(c, R, W)
  BY DEF CacheInv, BlocksInv
<1>2. b \in Frame /\ b # NoBlock
  BY UsedIsNoNoBlock DEF Frame
<1>3. /\ d \in CacheObject(R) /\ SameBut(c, d, t) /\ d.blocks[t] = b
      /\ d.waitingOnBlockUnlock = c.waitingOnBlockUnlock
      /\ d.toRemote = c.toRemote /\ d.toLocal = c.toLocal
  BY <1>1, <1>2, SetBlock
<1>4. Held(d) = Held(c)
  BY <1>2, <1>3, SameHeld
<1>5. Sorted(d) /\ EvictedIsUsable(d) /\ TopWaitsForNobody(d) /\ HasItsFrames(d) /\ AskedFor(d, W)
  <2>1. Sorted(d)
    BY <1>1, <1>3 DEF BlocksInv, Sorted, SameBut
  <2>2. EvictedIsUsable(d)
    BY <1>1, <1>3 DEF BlocksInv, EvictedIsUsable, SameBut
  <2>3. TopWaitsForNobody(d)
    BY <1>1, <1>3 DEF BlocksInv, TopWaitsForNobody, SameBut
  <2>4. HasItsFrames(d)
    BY <1>1, <1>4 DEF BlocksInv, HasItsFrames
  <2>5. AskedFor(d, W)
    BY <1>1, <1>3 DEF BlocksInv, AskedFor
  <2> QED
    BY <2>1, <2>2, <2>3, <2>4, <2>5
<1>6. LockedIffWaiting(d)
  BY <1>a, <1>1, <1>2, <1>3 DEF BlocksInv, LockedIffWaiting, SameBut
<1>7. InvalidIsLocked(d)
  BY <1>a, <1>1, <1>3 DEF BlocksInv, InvalidIsLocked, SameBut
<1>8. ASSUME evictionPolicy = "LRU"
      PROVE  FrameWaitersWillWake(d)
  <2>1. HasItsFrames(c) /\ FrameWaitersWillWake(c)
    BY <1>1, <1>8 DEF CacheInv, BlocksInv
  <2>2. FullAndLocked(c) => FullAndLocked(d)
    BY <1>a, <1>3, <1>4 DEF FullAndLocked, SameBut, Held
  <2> QED
    BY <1>3, <1>5, <2>1, <2>2, WakeMeansLocked DEF SameBut
<1> QED
  BY <1>3, <1>5, <1>6, <1>7, <1>8 DEF CacheInv, BlocksInv

(* The frame of a block that is not locked is given up.                     *)
LEMMA FreeFrameKeeps ==
  ASSUME CacheAssumptions, NEW R, NEW W, NEW c, CacheInv(c, R, W), NEW t \in Tag,
         c.waitingOnBlockUnlock[t] = <<>>,
         NEW d, d = WithBlock(c, t, NoBlock)
  PROVE  CacheInv(d, R, W) /\ SameBut(c, d, t) /\ d.blocks[t] = NoBlock
         /\ d.waitingOnBlockUnlock = c.waitingOnBlockUnlock /\ d.toRemote = c.toRemote
<1>1. c \in CacheObject(R) /\ BlocksInv(c, R, W)
  BY DEF CacheInv, BlocksInv
<1>2. NoBlock \in Frame
  BY DEF Frame
<1>3. /\ d \in CacheObject(R) /\ SameBut(c, d, t) /\ d.blocks[t] = NoBlock
      /\ d.waitingOnBlockUnlock = c.waitingOnBlockUnlock
      /\ d.toRemote = c.toRemote /\ d.toLocal = c.toLocal
  BY <1>1, <1>2, SetBlock
<1>4. HasItsFrames(d)
  <2> DEFINE H == Held(c)
             G == Held(d)
  <2>1. G \subseteq H
    BY <1>3 DEF Held, SameBut
  <2>2. IsFiniteSet(H) /\ Cardinality(H) <= Associativity /\ Associativity \in Nat
    BY <1>1 DEF BlocksInv, HasItsFrames, CacheAssumptions
  <2> HIDE DEF G, H
  <2>3. IsFiniteSet(G) /\ Cardinality(G) <= Cardinality(H) /\ Cardinality(G) \in Nat /\ Cardinality(H) \in Nat
    BY <2>1, <2>2, FS_Subset, FS_CardinalityType
  <2>4. Cardinality(G) <= Associativity
    BY <2>2, <2>3
  <2> QED
    BY <2>3, <2>4 DEF G, HasItsFrames
<1>5. Sorted(d) /\ EvictedIsUsable(d) /\ TopWaitsForNobody(d) /\ AskedFor(d, W)
  <2>1. Sorted(d)
    BY <1>1, <1>3 DEF BlocksInv, Sorted, SameBut
  <2>2. EvictedIsUsable(d)
    BY <1>1, <1>3 DEF BlocksInv, EvictedIsUsable, SameBut
  <2>3. TopWaitsForNobody(d)
    BY <1>1, <1>3 DEF BlocksInv, TopWaitsForNobody, SameBut
  <2>5. AskedFor(d, W)
    BY <1>1, <1>3 DEF BlocksInv, AskedFor
  <2> QED
    BY <2>1, <2>2, <2>3, <2>5
<1>6. LockedIffWaiting(d)
  BY <1>1, <1>3 DEF BlocksInv, LockedIffWaiting, SameBut
<1>7. InvalidIsLocked(d)
  BY <1>1, <1>3 DEF BlocksInv, InvalidIsLocked, SameBut
<1>8. ASSUME evictionPolicy = "LRU"
      PROVE  FrameWaitersWillWake(d)
  <2>1. HasItsFrames(c) /\ FrameWaitersWillWake(c)
    BY <1>1, <1>8 DEF CacheInv, BlocksInv
  <2>2. FullAndLocked(c) => FullAndLocked(d)
    <3>1. ASSUME FullAndLocked(c) PROVE c.blocks[t] = NoBlock
      BY <1>1, <3>1 DEF FullAndLocked, Held, BlocksInv, LockedIffWaiting
    <3>2. ASSUME c.blocks[t] = NoBlock PROVE \A s \in Tag : d.blocks[s] = c.blocks[s]
      BY <1>3, <3>2 DEF SameBut
    <3>3. ASSUME FullAndLocked(c) PROVE FullAndLocked(d)
      <4>1. \A s \in Tag : d.blocks[s] = c.blocks[s]
        BY <3>1, <3>2, <3>3
      <4>2. Held(d) = Held(c)
        BY <4>1 DEF Held
      <4>3. \A s \in Held(c) : s \in Tag
        BY DEF Held
      <4> QED
        BY <3>3, <4>1, <4>2, <4>3 DEF FullAndLocked
    <3> QED
      BY <3>3
  <2> QED
    BY <1>3, <1>4, <2>1, <2>2, WakeMeansLocked DEF SameBut
<1> QED
  BY <1>3, <1>4, <1>5, <1>6, <1>7, <1>8 DEF CacheInv, BlocksInv

(* UnlockBlock, of a block that has its data.                               *)
LEMMA UnlockedIsReady ==
  ASSUME CacheAssumptions, NEW R, NEW W, NEW c, BlocksInv(c, R, W), NEW t \in Tag,
         c.blocks[t] \in UsedBlock, c.blocks[t].state # "Invalid",
         NEW d, d = Unlocked(c, t)
  PROVE  ReadyFor(d, t, R, W \ {t}) /\ InvalidIsLocked(d) /\ SameBut(c, d, t)
<1> DEFINE b == [c.blocks[t] EXCEPT !.locked = FALSE]
           w == [c.waitingOnBlockUnlock EXCEPT ![t] = <<>>]
           e == WithBlock(c, t, b)
<1>1. c \in CacheObject(R)
  BY DEF BlocksInv
<1>2. b \in UsedBlock /\ b \in Frame /\ b.locked = FALSE /\ b.state # "Invalid"
  BY DEF UsedBlock, Frame
<1>3. d = [e EXCEPT !.waitingOnBlockUnlock = w]
  BY <1>1 DEF Unlocked, WithBlock, CacheObject
<1> HIDE DEF b
<1>4. /\ e \in CacheObject(R) /\ SameBut(c, e, t) /\ e.blocks[t] = b
      /\ e.waitingOnBlockUnlock = c.waitingOnBlockUnlock /\ e.toRemote = c.toRemote
  BY <1>1, <1>2, SetBlock
<1> HIDE DEF e
<1>5. /\ w \in [Tag -> Seq(Request)] /\ w[t] = <<>>
      /\ \A s \in Tag \ {t} : w[s] = c.waitingOnBlockUnlock[s]
  BY <1>1 DEF CacheObject
<1> HIDE DEF w
<1>6. d \in CacheObject(R) /\ d.waitingOnBlockUnlock = w
  BY <1>3, <1>4, <1>5 DEF CacheObject
<1>7. SameBut(c, d, t) /\ d.blocks[t] = b /\ d.toRemote = c.toRemote
  BY <1>3, <1>4, <1>5 DEF CacheObject, SameBut
<1>8. b # NoBlock /\ c.blocks[t] # NoBlock
  BY <1>2, UsedIsNoNoBlock
<1>9. HasItsFrames(d)
  BY <1>7, <1>8, SameHeld DEF BlocksInv, HasItsFrames
<1>10. Sorted(d)
  <2>1. \A s \in Tag : DOMAIN d.waitingOnBlockUnlock[s] = {} \/ d.waitingOnBlockUnlock[s] = c.waitingOnBlockUnlock[s]
    BY <1>5, <1>6
  <2> QED
    BY <1>7, <2>1 DEF BlocksInv, Sorted, SameBut
<1>11. LockedIffWaiting(d)
  BY <1>2, <1>5, <1>6, <1>7 DEF BlocksInv, LockedIffWaiting, SameBut
<1>12. InvalidIsLocked(d)
  BY <1>2, <1>7 DEF BlocksInv, InvalidIsLocked, SameBut
<1>13. EvictedIsUsable(d) /\ TopWaitsForNobody(d)
  BY <1>7 DEF BlocksInv, EvictedIsUsable, TopWaitsForNobody, SameBut
<1>14. AskedFor(d, W \ {t})
  BY <1>5, <1>6, <1>7 DEF BlocksInv, AskedFor
<1> QED
  BY <1>2, <1>6, <1>7, <1>9, <1>10, <1>11, <1>12, <1>13, <1>14 DEF ReadyFor, InvalidIsLocked

(* What waits for a frame when the requests for the block are performed.    *)
LEMMA FrameWaitersStay ==
  ASSUME CacheAssumptions, NEW R, Asking \subseteq R, NEW W, NEW c, CacheInv(c, R, W), NEW t \in Tag,
         c.blocks[t] \in UsedBlock, c.blocks[t].state # "Invalid",
         NEW d, d = Performed(Unlocked(c, t), c.waitingOnBlockUnlock[t])
  PROVE  d.waitingOnSetUnlock \in Seq(Request)
<1> DEFINE u == Unlocked(c, t)
           q == c.waitingOnBlockUnlock[t]
           V == W \ {t}
<1>1. c \in CacheObject(R) /\ BlocksInv(c, R, W)
  BY DEF CacheInv, BlocksInv
<1>2. q \in Seq(Request) /\ \A k \in DOMAIN q : q[k].tag = t
  BY <1>1 DEF CacheObject, BlocksInv, Sorted
<1>3. ReadyFor(u, t, R, V) /\ InvalidIsLocked(u)
  BY <1>1, UnlockedIsReady
<1>4. d = Performed(u, q)
  OBVIOUS
<1> HIDE DEF u, q, V
<1>5. ReadyFor(d, t, R, V)
  BY <1>2, <1>3, <1>4, PerformedKeeps
<1> QED
  BY <1>5 DEF ReadyFor, CacheObject

(* Nobody waits for a frame any more: their requests are made again.        *)
LEMMA NobodyLeft ==
  ASSUME NEW R, NEW V, NEW e, BlocksInv(e, R, V),
         NEW f, f = [e EXCEPT !.waitingOnSetUnlock = <<>>]
  PROVE  /\ CacheInv(f, R, V) /\ f.topCache = e.topCache
         /\ f.blocks = e.blocks /\ f.pendingEviction = e.pendingEviction /\ f.toRemote = e.toRemote
<1>1. e \in CacheObject(R)
  BY DEF BlocksInv
<1>2. f \in CacheObject(R) /\ f.waitingOnSetUnlock = <<>> /\ f.topCache = e.topCache
  <2> DEFINE z == <<>>
  <2>1. z \in Seq(Request) /\ f = [e EXCEPT !.waitingOnSetUnlock = z]
    OBVIOUS
  <2> HIDE DEF z
  <2>2. f \in CacheObject(R) /\ f.waitingOnSetUnlock = z /\ f.topCache = e.topCache
    BY <1>1, <2>1 DEF CacheObject
  <2> QED
    BY <2>2 DEF z
<1>3. /\ f.toRemote = e.toRemote /\ f.blocks = e.blocks /\ f.waitingOnBlockUnlock = e.waitingOnBlockUnlock
      /\ f.waitingOnRemoteReads = e.waitingOnRemoteReads
      /\ f.pendingEviction = e.pendingEviction
      /\ f.pendingInvalidate = e.pendingInvalidate
  BY <1>1 DEF CacheObject
<1>4. Sorted(f) /\ LockedIffWaiting(f)
  BY <1>3 DEF BlocksInv, Sorted, LockedIffWaiting
<1>5. InvalidIsLocked(f) /\ EvictedIsUsable(f)
  BY <1>3 DEF BlocksInv, InvalidIsLocked, EvictedIsUsable
<1>6. TopWaitsForNobody(f) /\ AskedFor(f, V)
  BY <1>2, <1>3 DEF BlocksInv, TopWaitsForNobody, AskedFor
<1>7. HasItsFrames(f)
  <2>1. Held(f) = Held(e)
    BY <1>3 DEF Held
  <2> QED
    BY <2>1 DEF BlocksInv, HasItsFrames
<1>8. BlocksInv(f, R, V)
  BY <1>2, <1>4, <1>5, <1>6, <1>7 DEF BlocksInv
<1> QED
  BY <1>2, <1>3, <1>8, NobodyToWake DEF NobodyWaits

LEMMA UnlockBlockKeeps ==
  ASSUME CacheAssumptions, NEW R, Asking \subseteq R, NEW W, NEW c, CacheInv(c, R, W), NEW t \in Tag,
         c.blocks[t] \in UsedBlock, c.blocks[t].state # "Invalid",
         NEW d \in UnlockBlock(c, t)
  PROVE  CacheInv(d, R, W \ {t}) /\ d.topCache = c.topCache
<1> DEFINE u == Unlocked(c, t)
           q == c.waitingOnBlockUnlock[t]
           e == Performed(u, q)
           f == [e EXCEPT !.waitingOnSetUnlock = <<>>]
           V == W \ {t}
<1>1. c \in CacheObject(R) /\ BlocksInv(c, R, W) /\ c.blocks[t] # NoBlock
  BY UsedIsNoNoBlock DEF CacheInv, BlocksInv
<1>2. q \in Seq(Request) /\ \A k \in DOMAIN q : q[k].tag = t
  BY <1>1 DEF CacheObject, BlocksInv, Sorted
<1>3. d \in IF e.blocks[t].locked THEN {e} ELSE AllMadeAgain({f}, e.waitingOnSetUnlock)
  BY UnlockBlockIs
<1>4. ReadyFor(u, t, R, V) /\ InvalidIsLocked(u) /\ SameBut(c, u, t)
  BY <1>1, UnlockedIsReady
<1> HIDE DEF u, q, V
<1>5. ReadyFor(e, t, R, V) /\ InvalidIsLocked(e) /\ SameBut(u, e, t)
  BY <1>2, <1>4, PerformedKeeps
<1> HIDE DEF e
<1>6. SameBut(c, e, t) /\ BlocksInv(e, R, V) /\ e.blocks[t] # NoBlock
  BY <1>4, <1>5, UsedIsNoNoBlock DEF SameBut, ReadyFor, BlocksInv
<1>7. CASE e.blocks[t].locked
  <2>1. d = e
    BY <1>3, <1>7
  <2>2. ASSUME evictionPolicy = "LRU"
        PROVE  FrameWaitersWillWake(e)
    <3>1. HasItsFrames(c) /\ HasItsFrames(e) /\ FrameWaitersWillWake(c)
      BY <1>1, <1>6, <2>2 DEF CacheInv, BlocksInv
    <3>2. Held(e) = Held(c)
      BY <1>1, <1>6, SameHeld
    <3>3. FullAndLocked(c) => FullAndLocked(e)
      <4>1. \A s \in Held(e) : s = t \/ e.blocks[s] = c.blocks[s]
        BY <1>6 DEF SameBut, Held
      <4> QED
        BY <1>7, <3>2, <4>1 DEF FullAndLocked
    <3> QED
      BY <1>6, <3>1, <3>3, WakeMeansLocked DEF SameBut
  <2> QED
    BY <1>6, <2>1, <2>2 DEF CacheInv, SameBut, V
<1>8. CASE ~e.blocks[t].locked
  <2>1. d \in AllMadeAgain({f}, e.waitingOnSetUnlock)
    BY <1>3, <1>8
  <2>2. e \in CacheObject(R) /\ e.waitingOnSetUnlock \in Seq(Request)
    BY <1>6 DEF BlocksInv, CacheObject
  <2>3. CacheInv(f, R, V) /\ f.topCache = e.topCache
    BY <1>6, NobodyLeft
  <2> HIDE DEF f
  <2>4. CacheInv(d, R, V) /\ d.topCache = f.topCache
    BY <2>1, <2>2, <2>3, AllMadeAgainKeeps
  <2> QED
    BY <1>6, <2>3, <2>4 DEF V, SameBut
<1> QED
  BY <1>7, <1>8
-----------------------------------------------------------------------------
(* Sending, and what a cache has only to remember.                          *)

(* The invariant is about the tables, but for what the outboxes may hold.   *)
LEMMA TablesDecide ==
  ASSUME NEW R, NEW W, NEW c, CacheInv(c, R, W),
         NEW S, NEW V, NEW d \in CacheObject(S), SameTables(c, d), AskedFor(d, V)
  PROVE  CacheInv(d, S, V)
<1>1. BlocksInv(c, R, W)
  BY DEF CacheInv
<1>2. Sorted(d) /\ LockedIffWaiting(d)
  BY <1>1 DEF BlocksInv, Sorted, LockedIffWaiting, SameTables
<1>3. InvalidIsLocked(d) /\ EvictedIsUsable(d)
  BY <1>1 DEF BlocksInv, InvalidIsLocked, EvictedIsUsable, SameTables
<1>4. TopWaitsForNobody(d)
  BY <1>1 DEF BlocksInv, TopWaitsForNobody, SameTables
<1>5. Held(d) = Held(c)
  BY DEF Held, SameTables
<1>6. HasItsFrames(d)
  BY <1>1, <1>5 DEF BlocksInv, HasItsFrames
<1>7. FrameWaitersWillWake(c) => FrameWaitersWillWake(d)
  BY <1>5 DEF FrameWaitersWillWake, SameTables
<1> QED
  BY <1>2, <1>3, <1>4, <1>6, <1>7 DEF CacheInv, BlocksInv

LEMMA SendLocalKeeps ==
  ASSUME NEW R, NEW W, NEW c, CacheInv(c, R, W), NEW m \in UpMsg, NEW delay \in Delay,
         NEW d, d = ToLocal(c, m, delay)
  PROVE  CacheInv(d, R, W) /\ SameTables(c, d) /\ d.toRemote = c.toRemote
<1>1. c \in CacheObject(R) /\ AskedFor(c, W)
  BY DEF CacheInv, BlocksInv
<1>2. d \in CacheObject(R) /\ SameTables(c, d) /\ d.toRemote = c.toRemote
  BY <1>1, SendLocal
<1>3. AskedFor(d, W)
  BY <1>1, <1>2 DEF AskedFor, SameTables
<1> QED
  BY <1>2, <1>3, TablesDecide

LEMMA SendRemoteKeeps ==
  ASSUME NEW R, NEW W, NEW c, CacheInv(c, R, W), NEW m \in R, NEW delay \in Delay,
         NEW d, d = ToRemote(c, m, delay)
  PROVE  CacheInv(d, R, W) /\ SameTables(c, d)
         /\ d.toRemote = Append(c.toRemote, [msg |-> m, delay |-> delay])
<1>1. c \in CacheObject(R) /\ AskedFor(c, W) /\ c.toRemote \in Outbox(R)
  BY DEF CacheInv, BlocksInv, CacheObject
<1>2. /\ d \in CacheObject(R) /\ SameTables(c, d)
      /\ d.toRemote = Append(c.toRemote, [msg |-> m, delay |-> delay])
  BY <1>1, SendRemote
<1>3. AskedFor(d, W)
  <2> DEFINE out == [msg |-> m, delay |-> delay]
  <2>1. out \in [msg : R, delay : Delay]
    OBVIOUS
  <2> HIDE DEF out
  <2>2. d.toRemote = Append(c.toRemote, out)
    BY <1>2 DEF out
  <2>3. \A k \in DOMAIN c.toRemote : k \in DOMAIN d.toRemote /\ d.toRemote[k] = c.toRemote[k]
    BY <1>1, <2>1, <2>2, AppendTyped DEF Outbox
  <2> QED
    BY <1>1, <1>2, <2>3 DEF AskedFor, SameTables
<1> QED
  BY <1>2, <1>3, TablesDecide

(* The handler has its messages sent.                                       *)
(* The reads in the outbox, and the blocks of W, are of V.                  *)
Covers(V, W, c) ==
  /\ W \subseteq V
  /\ \A k \in DOMAIN c.toRemote : c.toRemote[k].msg.type = "Read" => c.toRemote[k].msg.tag \in V

WithoutMessages(c) == [c EXCEPT !.toLocal = <<>>, !.toRemote = <<>>]

LEMMA OutboxesEmptied ==
  ASSUME NEW R, NEW W, NEW c, CacheInv(c, R, W),
         NEW S, NEW V, Covers(V, W, c),
         NEW d, d = WithoutMessages(c)
  PROVE  CacheInv(d, S, V) /\ d.toLocal = <<>> /\ d.toRemote = <<>> /\ SameTables(c, d)
<1> DEFINE z == <<>>
<1>1. z \in Outbox(UpMsg) /\ z \in Outbox(S) /\ d = [c EXCEPT !.toLocal = z, !.toRemote = z]
  BY DEF Outbox, WithoutMessages
<1>2. c \in CacheObject(R) /\ AskedFor(c, W)
  BY DEF CacheInv, BlocksInv
<1> HIDE DEF z
<1>3. d \in CacheObject(S) /\ SameTables(c, d) /\ d.toLocal = z /\ d.toRemote = z
  BY <1>1, <1>2 DEF CacheObject, SameTables
<1>4. AskedFor(d, V)
  BY <1>2, <1>3 DEF AskedFor, SameTables, Covers
<1>5. CacheInv(d, S, V)
  BY <1>3, <1>4, TablesDecide
<1> QED
  BY <1>3, <1>5 DEF z

(* The tables of what is being given up, invalidated or canceled.           *)
WithPending(c, evictions, invalidates, canceled) ==
  [c EXCEPT !.pendingEviction = evictions, !.pendingInvalidate = invalidates,
            !.canceledBlockEviction = canceled]

LEMMA PendingKeeps ==
  ASSUME NEW R, NEW W, NEW c, CacheInv(c, R, W),
         NEW e \in [Tag -> Frame], \A t \in Tag : e[t] # NoBlock => ~e[t].locked /\ e[t].state # "Invalid",
         NEW i \in SUBSET Tag, NEW l \in SUBSET Tag,
         c.topCache => i = {} /\ \A t \in Tag : e[t] = NoBlock,
         NEW d, d = WithPending(c, e, i, l)
  PROVE  /\ CacheInv(d, R, W) /\ d.topCache = c.topCache
         /\ d.blocks = c.blocks /\ d.waitingOnBlockUnlock = c.waitingOnBlockUnlock
         /\ d.toRemote = c.toRemote
         /\ d.pendingEviction = e /\ d.pendingInvalidate = i /\ d.canceledBlockEviction = l
<1>1. c \in CacheObject(R) /\ BlocksInv(c, R, W)
  BY DEF CacheInv, BlocksInv
<1>2. /\ d \in CacheObject(R) /\ d.topCache = c.topCache
      /\ d.blocks = c.blocks /\ d.waitingOnBlockUnlock = c.waitingOnBlockUnlock
      /\ d.waitingOnSetUnlock = c.waitingOnSetUnlock
      /\ d.waitingOnRemoteReads = c.waitingOnRemoteReads
      /\ d.toRemote = c.toRemote
      /\ d.pendingEviction = e /\ d.pendingInvalidate = i /\ d.canceledBlockEviction = l
  BY <1>1 DEF CacheObject, WithPending
<1>3. Sorted(d) /\ LockedIffWaiting(d)
  BY <1>1, <1>2 DEF BlocksInv, Sorted, LockedIffWaiting
<1>4. InvalidIsLocked(d) /\ AskedFor(d, W)
  BY <1>1, <1>2 DEF BlocksInv, InvalidIsLocked, AskedFor
<1>5. EvictedIsUsable(d) /\ TopWaitsForNobody(d)
  BY <1>1, <1>2 DEF BlocksInv, EvictedIsUsable, TopWaitsForNobody
<1>6. Held(d) = Held(c)
  BY <1>2 DEF Held
<1>7. HasItsFrames(d)
  BY <1>1, <1>6 DEF BlocksInv, HasItsFrames
<1>8. FrameWaitersWillWake(c) => FrameWaitersWillWake(d)
  BY <1>2, <1>6 DEF FrameWaitersWillWake
<1> QED
  BY <1>2, <1>3, <1>4, <1>5, <1>7, <1>8 DEF CacheInv, BlocksInv

(* The reads from below that wait for the level above.                      *)
LEMMA RemoteReadersKeep ==
  ASSUME NEW R, NEW W, NEW c, CacheInv(c, R, W), NEW t \in Tag,
         NEW q \in Seq(ReadMsg), \A k \in DOMAIN q : q[k].tag = t,
         c.topCache => q = <<>>,
         NEW d, d = [c EXCEPT !.waitingOnRemoteReads = [c.waitingOnRemoteReads EXCEPT ![t] = q]]
  PROVE  /\ CacheInv(d, R, W) /\ d.topCache = c.topCache /\ d.toRemote = c.toRemote
         /\ d.waitingOnRemoteReads[t] = q
<1> DEFINE w == [c.waitingOnRemoteReads EXCEPT ![t] = q]
<1>1. c \in CacheObject(R) /\ BlocksInv(c, R, W)
  BY DEF CacheInv, BlocksInv
<1>2. w \in [Tag -> Seq(ReadMsg)] /\ w[t] = q /\ \A s \in Tag \ {t} : w[s] = c.waitingOnRemoteReads[s]
  BY <1>1 DEF CacheObject
<1>3. d = [c EXCEPT !.waitingOnRemoteReads = w]
  OBVIOUS
<1> HIDE DEF w
<1>4. /\ d \in CacheObject(R) /\ d.topCache = c.topCache
      /\ d.blocks = c.blocks /\ d.waitingOnBlockUnlock = c.waitingOnBlockUnlock
      /\ d.waitingOnSetUnlock = c.waitingOnSetUnlock
      /\ d.waitingOnRemoteReads = w
      /\ d.toRemote = c.toRemote
      /\ d.pendingEviction = c.pendingEviction /\ d.pendingInvalidate = c.pendingInvalidate
  BY <1>1, <1>2, <1>3 DEF CacheObject
<1>5. LockedIffWaiting(d) /\ InvalidIsLocked(d) /\ AskedFor(d, W) /\ EvictedIsUsable(d)
  <2>1. LockedIffWaiting(d) /\ InvalidIsLocked(d)
    BY <1>1, <1>4 DEF BlocksInv, LockedIffWaiting, InvalidIsLocked
  <2>2. AskedFor(d, W) /\ EvictedIsUsable(d)
    BY <1>1, <1>4 DEF BlocksInv, AskedFor, EvictedIsUsable
  <2> QED
    BY <2>1, <2>2
<1>6. Sorted(d)
  BY <1>1, <1>2, <1>4 DEF BlocksInv, Sorted
<1>7. TopWaitsForNobody(d)
  BY <1>1, <1>2, <1>4 DEF BlocksInv, TopWaitsForNobody
<1>8. Held(d) = Held(c)
  BY <1>4 DEF Held
<1>9. HasItsFrames(d)
  BY <1>1, <1>8 DEF BlocksInv, HasItsFrames
<1>10. FrameWaitersWillWake(c) => FrameWaitersWillWake(d)
  BY <1>4, <1>8 DEF FrameWaitersWillWake
<1> QED
  BY <1>2, <1>4, <1>5, <1>6, <1>7, <1>9, <1>10 DEF CacheInv, BlocksInv
-----------------------------------------------------------------------------
(* The handlers of messages from below.                                     *)

(* What a cache answers, and all it sends towards the memory but for the    *)
(* answer to an eviction of another cache.                                  *)
Answering == Response \cup {InvalidateResponse(t, b) : t \in Tag, b \in BOOLEAN}
Sending   == Asking \cup Answering

LEMMA NotAskedKeeps ==
  ASSUME NEW R, NEW W, NEW c, CacheInv(c, R, W), NEW t \in Tag, c.waitingOnBlockUnlock[t] = <<>>
  PROVE  CacheInv(c, R, W \ {t})
<1>1. AskedFor(c, W \ {t})
  BY DEF CacheInv, BlocksInv, AskedFor
<1> QED
  BY <1>1 DEF CacheInv, BlocksInv

(* The block m answers, with its data.                                      *)
Filled(c, m) ==
  WithBlock(c, m.tag, [c.blocks[m.tag] EXCEPT !.state = IF m.exclusive THEN class.ExclusiveFill
                                                                       ELSE "Shared"])

IsAwaited(c, m) == c.blocks[m.tag] # NoBlock /\ c.blocks[m.tag].locked

LEMMA FilledKeeps ==
  ASSUME CacheAssumptions, NEW R, NEW W, NEW c, CacheInv(c, R, W),
         NEW m, m.tag \in Tag, IsAwaited(c, m), NEW d, d = Filled(c, m)
  PROVE  CacheInv(d, R, W) /\ d.topCache = c.topCache
         /\ d.blocks[m.tag] \in UsedBlock /\ d.blocks[m.tag].state # "Invalid"
<1> DEFINE t == m.tag
           b == c.blocks[t]
           s == IF m.exclusive THEN class.ExclusiveFill ELSE "Shared"
           f == [b EXCEPT !.state = s]
<1>1. c \in CacheObject(R) /\ BlocksInv(c, R, W) /\ b # NoBlock
  BY DEF CacheInv, BlocksInv, IsAwaited
<1>2. b \in UsedBlock /\ s \in Valid /\ s # "Invalid"
  BY <1>1 DEF CacheObject, Frame, CacheAssumptions, ClassOK
<1>3. d = WithBlock(c, t, f)
  BY DEF Filled
<1> HIDE DEF s
<1>4. f \in UsedBlock /\ LockKept(f, c.blocks[t]) /\ f.state # "Invalid" /\ t \in Tag
  BY <1>2 DEF UsedBlock, LockKept
<1> HIDE DEF f
<1>5. CacheInv(d, R, W) /\ SameBut(c, d, t) /\ d.blocks[t] = f
  BY <1>1, <1>3, <1>4, ChangeBlockKeeps
<1> QED
  BY <1>4, <1>5 DEF SameBut

LEMMA RemoteReadResponseIs ==
  ASSUME NEW c, NEW m, NEW attached
  PROVE  OnRemoteReadResponse(c, m, attached) =
           IF IsAwaited(c, m) THEN UnlockBlock(Filled(c, m), m.tag)
           ELSE {IF class.EvictsSurplus THEN ToRemote(c, Eviction(m.tag, attached), evictionTime) ELSE c}
<1>1. CASE IsAwaited(c, m)
  BY <1>1 DEF OnRemoteReadResponse, IsAwaited, Filled, WithBlock
<1>2. CASE ~IsAwaited(c, m)
  BY <1>2 DEF OnRemoteReadResponse, IsAwaited
<1> QED
  BY <1>1, <1>2

LEMMA RemoteReadResponseKeeps ==
  ASSUME CacheAssumptions, NEW R, Asking \subseteq R, NEW W, NEW c, CacheInv(c, R, W),
         NEW m, m.tag \in Tag, NEW attached \in BOOLEAN,
         NEW d \in OnRemoteReadResponse(c, m, attached)
  PROVE  CacheInv(d, R, W \ {m.tag}) /\ d.topCache = c.topCache
<1> DEFINE t == m.tag
<1>1. c \in CacheObject(R) /\ BlocksInv(c, R, W)
  BY DEF CacheInv, BlocksInv
<1>2. CASE ~IsAwaited(c, m)
  <2>1. CacheInv(c, R, W \ {t})
    <3>1. c.waitingOnBlockUnlock[t] = <<>>
      BY <1>1, <1>2 DEF BlocksInv, LockedIffWaiting, IsAwaited
    <3> QED
      BY <3>1, NotAskedKeeps
  <2>2. CASE class.EvictsSurplus
    <3> DEFINE e == Eviction(t, attached)
    <3>1. e \in R /\ evictionTime \in Delay
      BY DEF Asking, Delay
    <3>2. d = ToRemote(c, e, evictionTime)
      BY <1>2, <2>2, RemoteReadResponseIs
    <3> HIDE DEF e
    <3>3. CacheInv(d, R, W \ {t}) /\ SameTables(c, d)
      BY <2>1, <3>1, <3>2, SendRemoteKeeps
    <3> QED
      BY <3>3 DEF SameTables
  <2>3. CASE ~class.EvictsSurplus
    BY <1>2, <2>1, <2>3, RemoteReadResponseIs
  <2> QED
    BY <2>2, <2>3
<1>3. CASE IsAwaited(c, m)
  <2> DEFINE e == Filled(c, m)
  <2>1. CacheInv(e, R, W) /\ e.topCache = c.topCache
        /\ e.blocks[t] \in UsedBlock /\ e.blocks[t].state # "Invalid"
    BY <1>3, FilledKeeps
  <2>2. d \in UnlockBlock(e, t) /\ t \in Tag
    BY <1>3, RemoteReadResponseIs
  <2> HIDE DEF e, t
  <2>3. CacheInv(d, R, W \ {t}) /\ d.topCache = e.topCache
    BY <2>1, <2>2, UnlockBlockKeeps
  <2> QED
    BY <2>1, <2>3 DEF t
<1> QED
  BY <1>2, <1>3

LEMMA DropBlockKeeps ==
  ASSUME CacheAssumptions, NEW R, NEW W, NEW c, CacheInv(c, R, W), NEW t \in Tag,
         NEW d, d = DropBlock(c, t)
  PROVE  CacheInv(d, R, W) /\ SameBut(c, d, t)
         /\ d.waitingOnBlockUnlock = c.waitingOnBlockUnlock /\ d.toRemote = c.toRemote
<1>1. c \in CacheObject(R) /\ BlocksInv(c, R, W)
  BY DEF CacheInv, BlocksInv
<1>2. CASE c.waitingOnBlockUnlock[t] # <<>>
  <2> DEFINE f == [c.blocks[t] EXCEPT !.state = "Invalid"]
  <2>1. c.blocks[t] # NoBlock /\ c.blocks[t].locked
    BY <1>1, <1>2 DEF BlocksInv, LockedIffWaiting
  <2>2. c.blocks[t] \in UsedBlock
    BY <1>1, <2>1 DEF CacheObject, Frame
  <2>3. f \in UsedBlock /\ LockKept(f, c.blocks[t])
    BY <2>1, <2>2 DEF UsedBlock, LockKept
  <2>4. d = WithBlock(c, t, f)
    BY <1>2 DEF DropBlock, WithBlock
  <2> HIDE DEF f
  <2> QED
    BY <2>1, <2>3, <2>4, ChangeBlockKeeps
<1>3. CASE c.waitingOnBlockUnlock[t] = <<>>
  <2>1. d = WithBlock(c, t, NoBlock)
    BY <1>3 DEF DropBlock, WithBlock
  <2> QED
    BY <1>3, <2>1, FreeFrameKeeps
<1> QED
  BY <1>2, <1>3

(* The read m is answered.                                                  *)
Responds(c, d, m) ==
  \E s, x \in BOOLEAN :
    d.toRemote = Append(c.toRemote, [msg |-> ReadResponse(m, s, x), delay |-> hitTime])

LEMMA PerformRemoteReadKeeps ==
  ASSUME CacheAssumptions, NEW R, Sending \subseteq R, NEW W, NEW c, CacheInv(c, R, W),
         NEW m \in ReadMsg, NEW d, d = PerformRemoteRead(c, m)
  PROVE  /\ CacheInv(d, R, W) /\ d.topCache = c.topCache
         /\ d.waitingOnRemoteReads = c.waitingOnRemoteReads
         /\ Responds(c, d, m)
<1> DEFINE t == m.tag
           b == c.blocks[t]
<1>1. c \in CacheObject(R) /\ BlocksInv(c, R, W)
  BY DEF CacheInv, BlocksInv
<1>2. t \in Tag /\ m.exclusive \in BOOLEAN /\ hitTime \in Delay
  BY DEF ReadMsg, Delay
<1>3. \A s, x \in BOOLEAN : ReadResponse(m, s, x) \in R
  BY DEF ReadMsg, ReadResponse, Response, Sending, Answering
<1>4. CASE b = NoBlock \/ b.state = "Invalid"
  <2> DEFINE s == FALSE
             r == ReadResponse(m, s, s)
  <2>1. s \in BOOLEAN /\ d = ToRemote(c, r, hitTime)
    BY <1>4 DEF PerformRemoteRead
  <2> HIDE DEF s
  <2>2. r \in R
    BY <1>3, <2>1
  <2> HIDE DEF r
  <2>3. /\ CacheInv(d, R, W) /\ SameTables(c, d)
        /\ d.toRemote = Append(c.toRemote, [msg |-> r, delay |-> hitTime])
    BY <1>2, <2>1, <2>2, SendRemoteKeeps
  <2> QED
    BY <2>1, <2>3 DEF SameTables, r, Responds
<1>5. CASE b # NoBlock /\ b.state # "Invalid"
  <2> DEFINE s == TRUE
             r == ReadResponse(m, s, m.exclusive)
             e == IF m.exclusive THEN DropBlock(c, t)
                  ELSE [c EXCEPT !.blocks[t].state = class.AfterRead[@]]
  <2>1. s \in BOOLEAN /\ d = ToRemote(e, r, hitTime)
    BY <1>5 DEF PerformRemoteRead
  <2> HIDE DEF s
  <2>2. r \in R
    BY <1>2, <1>3, <2>1
  <2> HIDE DEF r
  <2>3. CacheInv(e, R, W) /\ SameBut(c, e, t) /\ e.toRemote = c.toRemote
    <3>1. CASE m.exclusive
      <4>1. e = DropBlock(c, t)
        BY <3>1
      <4> HIDE DEF e
      <4> QED
        BY <1>2, <4>1, DropBlockKeeps
    <3>2. CASE ~m.exclusive
      <4> DEFINE f == [b EXCEPT !.state = class.AfterRead[@]]
      <4>1. b \in UsedBlock
        BY <1>1, <1>2, <1>5 DEF CacheObject, Frame
      <4>2. f \in UsedBlock /\ LockKept(f, b)
        <5>1. b.state \in Valid
          BY <1>5, <4>1 DEF UsedBlock
        <5>2. class.AfterRead[b.state] \in Valid /\ class.AfterRead[b.state] # "Invalid"
          BY <5>1 DEF CacheAssumptions, ClassOK
        <5> QED
          BY <4>1, <5>2 DEF UsedBlock, LockKept
      <4>3. e = WithBlock(c, t, f)
        BY <3>2 DEF WithBlock
      <4> HIDE DEF e, f
      <4> QED
        BY <1>2, <1>5, <4>2, <4>3, ChangeBlockKeeps
    <3> QED
      BY <3>1, <3>2
  <2> HIDE DEF e
  <2>4. /\ CacheInv(d, R, W) /\ SameTables(e, d)
        /\ d.toRemote = Append(e.toRemote, [msg |-> r, delay |-> hitTime])
    BY <1>2, <2>1, <2>2, <2>3, SendRemoteKeeps
  <2> QED
    BY <1>2, <2>1, <2>3, <2>4 DEF SameTables, SameBut, r, Responds
<1> QED
  BY <1>4, <1>5

LEMMA RemoteReadKeeps ==
  ASSUME CacheAssumptions, NEW R, Sending \subseteq R, NEW W, NEW c, CacheInv(c, R, W),
         NEW m \in ReadMsg, NEW d \in OnRemoteRead(c, m)
  PROVE  /\ CacheInv(d, R, W) /\ d.topCache = c.topCache
         /\ c.topCache => Responds(c, d, m)
<1> DEFINE t == m.tag
           b == c.blocks[t]
           here == \/ b = NoBlock \/ c.topCache \/ b.state = "Invalid"
                   \/ ~m.exclusive /\ b.state \in class.NeedsExclusive
<1>1. c \in CacheObject(R) /\ BlocksInv(c, R, W)
  BY DEF CacheInv, BlocksInv
<1>2. t \in Tag /\ m.exclusive \in BOOLEAN /\ hitTime \in Delay
  BY DEF ReadMsg, Delay
<1>3. CASE here
  <2>1. d = PerformRemoteRead(c, m)
    BY <1>3 DEF OnRemoteRead
  <2>2. CacheInv(d, R, W) /\ d.topCache = c.topCache /\ Responds(c, d, m)
    BY <2>1, PerformRemoteReadKeeps
  <2> QED
    BY <2>2
<1>4. CASE ~here
  <2> DEFINE q == Append(c.waitingOnRemoteReads[t], m)
             e == [c EXCEPT !.waitingOnRemoteReads = [c.waitingOnRemoteReads EXCEPT ![t] = q]]
             r == Read(t, m.exclusive, NoID)
  <2>1. d = ToLocal(e, r, hitTime) /\ ~c.topCache
    BY <1>4 DEF OnRemoteRead
  <2>2. c.waitingOnRemoteReads[t] \in Seq(ReadMsg)
    BY <1>1, <1>2 DEF CacheObject
  <2>3. q \in Seq(ReadMsg) /\ \A k \in DOMAIN q : q[k].tag = t
    <3>1. q \in Seq(ReadMsg)
      BY <2>2, AppendTyped
    <3>2. \A k \in DOMAIN c.waitingOnRemoteReads[t] : c.waitingOnRemoteReads[t][k].tag = t
      BY <1>1, <1>2 DEF BlocksInv, Sorted
    <3> DEFINE w == c.waitingOnRemoteReads[t]
    <3>3. w \in Seq(ReadMsg) /\ q = Append(w, m) /\ m.tag = t
      BY <2>2
    <3> HIDE DEF w, q, t
    <3>4. \A k \in DOMAIN q : q[k] = m \/ (k \in DOMAIN w /\ q[k] = w[k])
      BY <3>1, <3>3, AppendTyped
    <3> QED
      BY <3>1, <3>2, <3>3, <3>4 DEF w
  <2>4. r \in UpMsg
    BY <1>2 DEF Read, UpMsg, ReadMsg, IDs
  <2> HIDE DEF q, r
  <2>5. CacheInv(e, R, W) /\ e.topCache = c.topCache
    BY <1>2, <2>1, <2>3, RemoteReadersKeep
  <2> HIDE DEF e
  <2>6. CacheInv(d, R, W) /\ SameTables(e, d)
    BY <1>2, <2>1, <2>4, <2>5, SendLocalKeeps
  <2> QED
    BY <2>1, <2>5, <2>6 DEF SameTables
<1> QED
  BY <1>3, <1>4
(* An invalidate is answered, and the block asked for again if need be.     *)
Acknowledged(c, b, t) ==
  Append(c.toRemote, [msg |-> InvalidateResponse(t, b), delay |-> invalidateTime])

AnswersInvalidate(c, d, t) ==
  \E b \in BOOLEAN :
    \/ d.toRemote = Acknowledged(c, b, t)
    \/ d.toRemote = Append(Acknowledged(c, b, t),
                           [msg |-> Read(t, FALSE, NoID), delay |-> invalidateTime])

WithInvalidates(c, p) == [c EXCEPT !.pendingInvalidate = p]

RespondedInvalidate(c, p, t) == RespondInvalidate(WithInvalidates(c, p), t)

(* Of the invalidates p only that of t is new.                              *)
NewIs(t, p, c) == p \in SUBSET Tag /\ p \ {t} \subseteq c.pendingInvalidate

(* The tables when an invalidate of t is answered, but for the block.       *)
Responding(c, p, t) ==
  WithPending(c, [c.pendingEviction EXCEPT ![t] = IF c.blocks[t] = NoBlock THEN NoBlock ELSE @],
              p \ {t}, c.canceledBlockEviction)

LEMMA RespondingKeeps ==
  ASSUME CacheAssumptions, NEW R, NEW W, NEW c, CacheInv(c, R, W),
         NEW t \in Tag, NEW p, NewIs(t, p, c), NEW f, f = Responding(c, p, t)
  PROVE  /\ CacheInv(f, R, W) /\ f.topCache = c.topCache /\ f.toRemote = c.toRemote
         /\ f.waitingOnBlockUnlock = c.waitingOnBlockUnlock /\ f.blocks = c.blocks
         /\ \A s \in Tag : f.pendingEviction[s] = NoBlock \/ f.pendingEviction[s] = c.pendingEviction[s]
         /\ c.blocks[t] = NoBlock => f.pendingEviction[t] = NoBlock
<1> DEFINE pe == [c.pendingEviction EXCEPT ![t] = IF c.blocks[t] = NoBlock THEN NoBlock ELSE @]
           i == p \ {t}
<1>1. /\ c \in CacheObject(R) /\ BlocksInv(c, R, W)
      /\ p \in SUBSET Tag /\ p \ {t} \subseteq c.pendingInvalidate
  BY DEF CacheInv, BlocksInv, NewIs
<1>2. i \in SUBSET Tag
  BY <1>1
<1>3. pe \in [Tag -> Frame] /\ \A s \in Tag : pe[s] = NoBlock \/ pe[s] = c.pendingEviction[s]
  BY <1>1 DEF CacheObject, Frame
<1>4. c.blocks[t] = NoBlock => pe[t] = NoBlock
  BY <1>1 DEF CacheObject
<1>5. f = WithPending(c, pe, i, c.canceledBlockEviction)
  BY DEF Responding
<1> HIDE DEF pe
<1>6. \A s \in Tag : pe[s] # NoBlock => ~pe[s].locked /\ pe[s].state # "Invalid"
  BY <1>1, <1>3 DEF BlocksInv, EvictedIsUsable
<1>7. c.topCache => i = {} /\ \A s \in Tag : pe[s] = NoBlock
  BY <1>1, <1>3 DEF BlocksInv, TopWaitsForNobody
<1>8. c.canceledBlockEviction \in SUBSET Tag
  BY <1>1 DEF CacheObject
<1> HIDE DEF i
<1>9. f.blocks = c.blocks /\ f.pendingEviction = pe
  BY <1>1, <1>5 DEF WithPending, CacheObject
<1> QED
  BY <1>2, <1>3, <1>4, <1>5, <1>6, <1>7, <1>8, <1>9, PendingKeeps

(* The data goes with the answer when memory does not have it.              *)
DataGoes(c, t) ==
  LET b == c.blocks[t]
      v == c.pendingEviction[t]
  IN IF b # NoBlock THEN b.state \in class.Dirty ELSE v # NoBlock /\ v.state \in class.Dirty

LEMMA DataGoesOrNot ==
  ASSUME NEW c, NEW t
  PROVE  DataGoes(c, t) \in BOOLEAN
<1>1. CASE c.blocks[t] # NoBlock
  BY <1>1 DEF DataGoes
<1>2. CASE c.blocks[t] = NoBlock
  BY <1>2 DEF DataGoes
<1> QED
  BY <1>1, <1>2

LEMMA RespondInvalidateIs ==
  ASSUME NEW R, NEW c \in CacheObject(R), NEW t \in Tag, NEW p
  PROVE  RespondedInvalidate(c, p, t) =
           LET g == ToRemote(Responding(c, p, t), InvalidateResponse(t, DataGoes(c, t)), invalidateTime)
               h == DropBlock(g, t)
           IN IF c.waitingOnBlockUnlock[t] # <<>>
              THEN ToRemote(h, Read(t, FALSE, NoID), invalidateTime) ELSE h
<1> DEFINE e == WithInvalidates(c, p)
<1>1. /\ e.blocks = c.blocks /\ e.pendingEviction = c.pendingEviction
      /\ e.waitingOnBlockUnlock = c.waitingOnBlockUnlock
  BY DEF WithInvalidates, CacheObject
<1>2. [e EXCEPT !.pendingInvalidate = @ \ {t},
                !.pendingEviction[t] = IF c.blocks[t] = NoBlock THEN NoBlock ELSE @] = Responding(c, p, t)
  BY DEF WithInvalidates, Responding, WithPending, CacheObject
<1> HIDE DEF e
<1> QED
  BY <1>1, <1>2 DEF RespondedInvalidate, RespondInvalidate, DataGoes, e

LEMMA RespondInvalidateKeeps ==
  ASSUME CacheAssumptions, NEW R, Sending \subseteq R, NEW W, NEW c, CacheInv(c, R, W),
         NEW t \in Tag, NEW p, NewIs(t, p, c),
         NEW d, d = RespondedInvalidate(c, p, t)
  PROVE  CacheInv(d, R, W) /\ d.topCache = c.topCache /\ AnswersInvalidate(c, d, t)
<1> DEFINE attached == DataGoes(c, t)
           f == Responding(c, p, t)
           m == InvalidateResponse(t, attached)
           g == ToRemote(f, m, invalidateTime)
           h == DropBlock(g, t)
           x == FALSE
           r == Read(t, x, NoID)
<1>1. c \in CacheObject(R)
  BY DEF CacheInv, BlocksInv
<1>2. d = IF c.waitingOnBlockUnlock[t] # <<>> THEN ToRemote(h, r, invalidateTime) ELSE h
  BY <1>1, RespondInvalidateIs
<1>3. CacheInv(f, R, W) /\ f.topCache = c.topCache /\ f.toRemote = c.toRemote
  BY RespondingKeeps
<1>4. attached \in BOOLEAN /\ x \in BOOLEAN
  BY DataGoesOrNot
<1> HIDE DEF f, attached, x
<1>5. m \in R /\ r \in R /\ invalidateTime \in Delay
  BY <1>4 DEF Sending, Answering, Asking, Delay
<1>6. /\ CacheInv(g, R, W) /\ SameTables(f, g)
      /\ g.toRemote = Append(f.toRemote, [msg |-> m, delay |-> invalidateTime])
  <2> HIDE DEF m
  <2> QED
    BY <1>3, <1>5, SendRemoteKeeps
<1>7. g.toRemote = Acknowledged(c, attached, t) /\ g.topCache = c.topCache
  BY <1>3, <1>6 DEF Acknowledged, SameTables
<1> HIDE DEF g, m
<1>8. CacheInv(h, R, W) /\ SameBut(g, h, t) /\ h.toRemote = g.toRemote
  BY <1>6, DropBlockKeeps
<1> HIDE DEF h, r
<1>9. CASE c.waitingOnBlockUnlock[t] # <<>>
  <2>1. d = ToRemote(h, r, invalidateTime)
    BY <1>2, <1>9
  <2>2. /\ CacheInv(d, R, W) /\ SameTables(h, d)
        /\ d.toRemote = Append(h.toRemote, [msg |-> r, delay |-> invalidateTime])
    BY <1>5, <1>8, <2>1, SendRemoteKeeps
  <2> QED
    BY <1>4, <1>7, <1>8, <2>2 DEF AnswersInvalidate, SameTables, SameBut, r, x
<1>10. CASE c.waitingOnBlockUnlock[t] = <<>>
  BY <1>2, <1>4, <1>7, <1>8, <1>10 DEF AnswersInvalidate, SameBut
<1> QED
  BY <1>9, <1>10

LEMMA RemoteInvalidateKeeps ==
  ASSUME CacheAssumptions, NEW R, Sending \subseteq R, NEW W, NEW c, CacheInv(c, R, W),
         NEW m, m.tag \in Tag, NEW d \in OnRemoteInvalidate(c, m)
  PROVE  /\ CacheInv(d, R, W) /\ d.topCache = c.topCache
         /\ c.topCache => AnswersInvalidate(c, d, m.tag)
<1> DEFINE t == m.tag
           p == c.pendingInvalidate \cup {t}
           e == WithInvalidates(c, p)
<1>1. c \in CacheObject(R) /\ BlocksInv(c, R, W) /\ t \in Tag
  BY DEF CacheInv, BlocksInv
<1>2. NewIs(t, p, c) /\ p \in SUBSET Tag
  BY <1>1 DEF CacheObject, NewIs
<1>3. c.topCache => t \notin c.pendingInvalidate
  BY <1>1 DEF BlocksInv, TopWaitsForNobody
<1>4. d \in IF t \in c.pendingInvalidate THEN {c}
            ELSE IF c.topCache \/ c.blocks[t] = NoBlock THEN {RespondInvalidate(e, t)}
            ELSE {ToLocal(e, Invalidate(t), 0)}
  BY DEF OnRemoteInvalidate, WithInvalidates
<1> HIDE DEF t, p
<1>5. CASE t \in c.pendingInvalidate
  BY <1>3, <1>4, <1>5
<1>6. CASE t \notin c.pendingInvalidate /\ (c.topCache \/ c.blocks[t] = NoBlock)
  <2>1. d = RespondedInvalidate(c, p, t)
    BY <1>4, <1>6 DEF RespondedInvalidate
  <2>2. CacheInv(d, R, W) /\ d.topCache = c.topCache /\ AnswersInvalidate(c, d, t)
    BY <1>1, <1>2, <2>1, RespondInvalidateKeeps
  <2> QED
    BY <2>2 DEF t
<1>7. CASE t \notin c.pendingInvalidate /\ ~c.topCache /\ c.blocks[t] # NoBlock
  <2> DEFINE i == Invalidate(t)
             z == 0
  <2>1. d = ToLocal(e, i, z) /\ z \in Delay
    BY <1>4, <1>7 DEF Delay
  <2>2. i \in UpMsg
    BY <1>1 DEF UpMsg
  <2> HIDE DEF i, z
  <2>3. e = WithPending(c, c.pendingEviction, p, c.canceledBlockEviction)
    BY <1>1 DEF WithInvalidates, WithPending, CacheObject
  <2> HIDE DEF e
  <2>4. /\ c.pendingEviction \in [Tag -> Frame] /\ c.canceledBlockEviction \in SUBSET Tag
        /\ \A s \in Tag : c.pendingEviction[s] # NoBlock =>
             ~c.pendingEviction[s].locked /\ c.pendingEviction[s].state # "Invalid"
    BY <1>1 DEF CacheObject, BlocksInv, EvictedIsUsable
  <2>5. CacheInv(e, R, W) /\ e.topCache = c.topCache
    BY <1>2, <1>7, <2>3, <2>4, PendingKeeps
  <2>6. CacheInv(d, R, W) /\ SameTables(e, d)
    BY <2>1, <2>2, <2>5, SendLocalKeeps
  <2> QED
    BY <1>7, <2>5, <2>6 DEF SameTables
<1> QED
  BY <1>5, <1>6, <1>7
-----------------------------------------------------------------------------
(* The handlers of messages from above, but for the requests.               *)

LEMMA MergedIsUsed ==
  ASSUME CacheAssumptions, NEW b \in UsedBlock
  PROVE  /\ MergeDirty(b) \in UsedBlock /\ MergeDirty(b).locked = b.locked
         /\ b.state # "Invalid" => MergeDirty(b).state # "Invalid"
<1> DEFINE s == class.AfterMerge[b.state]
<1>1. s \in Valid \cup {"Invalid"} /\ (b.state # "Invalid" => s \in Valid /\ s # "Invalid")
  BY DEF UsedBlock, CacheAssumptions, ClassOK
<1>2. MergeDirty(b) = [b EXCEPT !.state = s]
  BY DEF MergeDirty
<1> HIDE DEF s
<1> QED
  BY <1>1, <1>2 DEF UsedBlock

LEMMA MergeKeeps ==
  ASSUME CacheAssumptions, NEW R, NEW W, NEW c, CacheInv(c, R, W), NEW t \in Tag,
         c.blocks[t] # NoBlock,
         NEW d, d = [c EXCEPT !.blocks[t] = MergeDirty(@)]
  PROVE  CacheInv(d, R, W) /\ SameBut(c, d, t) /\ d.toRemote = c.toRemote
<1> DEFINE f == MergeDirty(c.blocks[t])
<1>1. c \in CacheObject(R) /\ BlocksInv(c, R, W)
  BY DEF CacheInv, BlocksInv
<1>2. c.blocks[t] \in UsedBlock
  BY <1>1 DEF CacheObject, Frame
<1>3. c.blocks[t].state = "Invalid" => c.blocks[t].locked
  BY <1>1 DEF BlocksInv, InvalidIsLocked
<1>4. f \in UsedBlock /\ LockKept(f, c.blocks[t])
  BY <1>2, <1>3, MergedIsUsed DEF LockKept
<1>5. d = WithBlock(c, t, f)
  BY DEF WithBlock
<1> HIDE DEF f
<1> QED
  BY <1>4, <1>5, ChangeBlockKeeps

LEMMA LocalEvictionKeeps ==
  ASSUME CacheAssumptions, NEW R, NEW W, NEW c, CacheInv(c, R, W),
         NEW m, m.tag \in Tag, NEW d \in OnLocalEviction(c, m)
  PROVE  CacheInv(d, R, W) /\ d.topCache = c.topCache
<1>1. CASE m.blockAttached /\ c.blocks[m.tag] # NoBlock
  <2> DEFINE t == m.tag
  <2>1. t \in Tag /\ c.blocks[t] # NoBlock /\ d = [c EXCEPT !.blocks[t] = MergeDirty(@)]
    BY <1>1 DEF OnLocalEviction
  <2> HIDE DEF t
  <2>2. CacheInv(d, R, W) /\ SameBut(c, d, t)
    BY <2>1, MergeKeeps
  <2> QED
    BY <2>2 DEF SameBut
<1>2. CASE ~(m.blockAttached /\ c.blocks[m.tag] # NoBlock)
  BY <1>2 DEF OnLocalEviction
<1> QED
  BY <1>1, <1>2
(* The level above has dropped the block.  What c is when its data is in.   *)
Merged(c, m) ==
  LET t == m.tag
  IN IF ~m.blockAttached THEN c
     ELSE IF c.pendingEviction[t] # NoBlock THEN [c EXCEPT !.pendingEviction[t] = MergeDirty(@)]
     ELSE IF t \in c.pendingInvalidate /\ c.blocks[t] # NoBlock THEN [c EXCEPT !.blocks[t] = MergeDirty(@)]
     ELSE c

LEMMA MergedKeeps ==
  ASSUME CacheAssumptions, NEW R, NEW W, NEW c, CacheInv(c, R, W),
         NEW m, m.tag \in Tag, NEW d, d = Merged(c, m)
  PROVE  CacheInv(d, R, W) /\ d.topCache = c.topCache
         /\ d.pendingInvalidate = c.pendingInvalidate
<1> DEFINE t == m.tag
           v == c.pendingEviction[t]
<1>1. c \in CacheObject(R) /\ BlocksInv(c, R, W) /\ t \in Tag
  BY DEF CacheInv, BlocksInv
<1>2. d = IF ~m.blockAttached THEN c
          ELSE IF v # NoBlock THEN [c EXCEPT !.pendingEviction[t] = MergeDirty(@)]
          ELSE IF t \in c.pendingInvalidate /\ c.blocks[t] # NoBlock THEN [c EXCEPT !.blocks[t] = MergeDirty(@)]
          ELSE c
  BY DEF Merged
<1> HIDE DEF t
<1>3. CASE d = c
  BY <1>3
<1>4. CASE m.blockAttached /\ v # NoBlock
  <2> DEFINE f == MergeDirty(v)
             pe == [c.pendingEviction EXCEPT ![t] = f]
  <2>1. v \in UsedBlock /\ ~v.locked /\ v.state # "Invalid"
    BY <1>1, <1>4 DEF CacheObject, Frame, BlocksInv, EvictedIsUsable
  <2>2. f \in UsedBlock /\ ~f.locked /\ f.state # "Invalid"
    BY <2>1, MergedIsUsed
  <2>3. d = [c EXCEPT !.pendingEviction = pe]
    BY <1>1, <1>2, <1>4 DEF CacheObject
  <2> HIDE DEF f
  <2>4. pe \in [Tag -> Frame] /\ \A s \in Tag : pe[s] = f \/ pe[s] = c.pendingEviction[s]
    BY <1>1, <2>2 DEF CacheObject, Frame
  <2> HIDE DEF pe
  <2>5. d = WithPending(c, pe, c.pendingInvalidate, c.canceledBlockEviction)
    BY <1>1, <2>3 DEF WithPending, CacheObject
  <2>6. \A s \in Tag : pe[s] # NoBlock => ~pe[s].locked /\ pe[s].state # "Invalid"
    BY <1>1, <2>2, <2>4 DEF BlocksInv, EvictedIsUsable
  <2>7. c.pendingInvalidate \in SUBSET Tag /\ c.canceledBlockEviction \in SUBSET Tag
    BY <1>1 DEF CacheObject
  <2>8. ~c.topCache
    BY <1>1, <1>4 DEF BlocksInv, TopWaitsForNobody
  <2> QED
    BY <2>4, <2>5, <2>6, <2>7, <2>8, PendingKeeps
<1>5. CASE c.blocks[t] # NoBlock /\ d = [c EXCEPT !.blocks[t] = MergeDirty(@)]
  <2>1. CacheInv(d, R, W) /\ SameBut(c, d, t)
    BY <1>1, <1>5, MergeKeeps
  <2> QED
    BY <2>1 DEF SameBut
<1> QED
  BY <1>2, <1>3, <1>4, <1>5

LEMMA LocalInvalidateResponseKeeps ==
  ASSUME CacheAssumptions, NEW R, Sending \subseteq R, NEW W, NEW c, CacheInv(c, R, W),
         NEW m, m.tag \in Tag, NEW d \in OnLocalInvalidateResponse(c, m)
  PROVE  CacheInv(d, R, W) /\ d.topCache = c.topCache
<1> DEFINE t == m.tag
           e == Merged(c, m)
           f == IF t \in c.pendingInvalidate THEN RespondInvalidate(e, t) ELSE e
           l == c.canceledBlockEviction \ {t}
<1>1. c \in CacheObject(R) /\ BlocksInv(c, R, W) /\ t \in Tag
  BY DEF CacheInv, BlocksInv
<1>2. d \in IF t \in c.canceledBlockEviction THEN {[c EXCEPT !.canceledBlockEviction = l]}
            ELSE IF f.pendingEviction[t] = NoBlock THEN {f}
            ELSE {ToRemote([f EXCEPT !.pendingEviction[t] = NoBlock],
                           Eviction(t, f.pendingEviction[t].state \in class.Dirty), evictionTime)}
  BY DEF OnLocalInvalidateResponse, Merged
<1>3. CASE t \in c.canceledBlockEviction
  <2>1. d = [c EXCEPT !.canceledBlockEviction = l] /\ l \in SUBSET Tag
    BY <1>1, <1>2, <1>3 DEF CacheObject
  <2> HIDE DEF l
  <2>2. d = WithPending(c, c.pendingEviction, c.pendingInvalidate, l)
    BY <1>1, <2>1 DEF WithPending, CacheObject
  <2>3. /\ c.pendingEviction \in [Tag -> Frame] /\ c.pendingInvalidate \in SUBSET Tag
        /\ \A s \in Tag : c.pendingEviction[s] # NoBlock =>
             ~c.pendingEviction[s].locked /\ c.pendingEviction[s].state # "Invalid"
        /\ c.topCache => c.pendingInvalidate = {} /\ \A s \in Tag : c.pendingEviction[s] = NoBlock
    BY <1>1 DEF CacheObject, BlocksInv, EvictedIsUsable, TopWaitsForNobody
  <2> QED
    BY <2>1, <2>2, <2>3, PendingKeeps
<1>4. CacheInv(e, R, W) /\ e.topCache = c.topCache /\ e.pendingInvalidate = c.pendingInvalidate
  BY <1>1, MergedKeeps
<1> HIDE DEF e
<1>5. CacheInv(f, R, W) /\ f.topCache = c.topCache
  <2>1. CASE t \in c.pendingInvalidate
    <3> DEFINE p == e.pendingInvalidate
    <3>1. e \in CacheObject(R) /\ p \in SUBSET Tag /\ p \ {t} \subseteq p
      BY <1>4 DEF CacheInv, BlocksInv, CacheObject
    <3>2. WithInvalidates(e, p) = e
      BY <3>1 DEF WithInvalidates, CacheObject
    <3>3. f = RespondedInvalidate(e, p, t)
      BY <2>1, <3>2 DEF RespondedInvalidate
    <3> HIDE DEF f
    <3>4. NewIs(t, p, e)
      BY <3>1 DEF NewIs
    <3> HIDE DEF p, t
    <3>5. CacheInv(f, R, W) /\ f.topCache = e.topCache
      BY <1>1, <1>4, <3>3, <3>4, RespondInvalidateKeeps
    <3> QED
      BY <1>4, <3>5
  <2>2. CASE t \notin c.pendingInvalidate
    BY <1>4, <2>2
  <2> QED
    BY <2>1, <2>2
<1> HIDE DEF f
<1>6. CASE t \notin c.canceledBlockEviction /\ f.pendingEviction[t] = NoBlock
  BY <1>2, <1>5, <1>6
<1>7. CASE t \notin c.canceledBlockEviction /\ f.pendingEviction[t] # NoBlock
  <2> DEFINE a == f.pendingEviction[t].state \in class.Dirty
             x == Eviction(t, a)
             pe == [f.pendingEviction EXCEPT ![t] = NoBlock]
             g == [f EXCEPT !.pendingEviction[t] = NoBlock]
  <2>1. d = ToRemote(g, x, evictionTime) /\ a \in BOOLEAN /\ evictionTime \in Delay
    BY <1>2, <1>7 DEF Delay
  <2> HIDE DEF a
  <2>2. x \in R
    BY <1>1, <2>1 DEF Sending, Asking
  <2> HIDE DEF x
  <2>3. f \in CacheObject(R) /\ BlocksInv(f, R, W)
    BY <1>5 DEF CacheInv, BlocksInv
  <2>4. /\ pe \in [Tag -> Frame] /\ f.pendingInvalidate \in SUBSET Tag
        /\ f.canceledBlockEviction \in SUBSET Tag
        /\ \A s \in Tag : pe[s] = NoBlock \/ pe[s] = f.pendingEviction[s]
    BY <2>3 DEF CacheObject, Frame
  <2>5. g = [f EXCEPT !.pendingEviction = pe]
    BY <2>3 DEF CacheObject
  <2> HIDE DEF pe, g
  <2>6. g = WithPending(f, pe, f.pendingInvalidate, f.canceledBlockEviction)
    BY <2>3, <2>5 DEF WithPending, CacheObject
  <2>7. /\ \A s \in Tag : pe[s] # NoBlock => ~pe[s].locked /\ pe[s].state # "Invalid"
        /\ f.topCache => f.pendingInvalidate = {} /\ \A s \in Tag : pe[s] = NoBlock
    BY <2>3, <2>4 DEF BlocksInv, EvictedIsUsable, TopWaitsForNobody
  <2>8. CacheInv(g, R, W) /\ g.topCache = f.topCache
    BY <1>5, <2>4, <2>6, <2>7, PendingKeeps
  <2>9. CacheInv(d, R, W) /\ SameTables(g, d)
    BY <2>1, <2>2, <2>8, SendRemoteKeeps
  <2> QED
    BY <1>5, <2>8, <2>9 DEF SameTables
<1> QED
  BY SMTT(60), <1>3, <1>6, <1>7
(* The reads from below that waited for the level above, one after the      *)
(* other; x has topCache, R and W.                                          *)
Reading(x, k, a) == CacheInv(a, x[2], x[3]) /\ a.topCache = x[1]

N == INSTANCE FoldLemmas WITH Op <- PerformRemoteRead, Other <- PerformRemoteRead, Good <- Reading

AllRead(c, q) == FoldLeft(PerformRemoteRead, c, q)

LEMMA AllReadIsFold == \A c, q : AllRead(c, q) = N!Folded(c, q)
BY DEF AllRead, N!Folded, FoldLeft, MapThenFoldSet, N!FoldLeft, N!MapThenFoldSet, Max, N!Max

LEMMA AllReadKeeps ==
  ASSUME CacheAssumptions, NEW R, Sending \subseteq R, NEW W, NEW c, CacheInv(c, R, W),
         NEW q \in Seq(ReadMsg), NEW d, d = AllRead(c, q)
  PROVE  CacheInv(d, R, W) /\ d.topCache = c.topCache
<1> DEFINE x == <<c.topCache, R, W>>
           n == Len(q)
<1>1. x[1] = c.topCache /\ x[2] = R /\ x[3] = W
  OBVIOUS
<1>2. n \in Nat /\ DOMAIN q = 1..n /\ \A k \in 1..n : q[k] \in ReadMsg
  OBVIOUS
<1> HIDE DEF x, n
<1>3. Reading(x, 0, c)
  BY <1>1 DEF Reading
<1>4. ASSUME NEW a, NEW k \in 1..n, Reading(x, k-1, a)
      PROVE  Reading(x, k, PerformRemoteRead(a, q[k]))
  <2> DEFINE e == PerformRemoteRead(a, q[k])
  <2>1. CacheInv(a, R, W) /\ a.topCache = c.topCache /\ q[k] \in ReadMsg
    BY <1>1, <1>2, <1>4 DEF Reading
  <2>2. CacheInv(e, R, W) /\ e.topCache = a.topCache
    BY <2>1, PerformRemoteReadKeeps
  <2> HIDE DEF e
  <2>3. Reading(x, k, e)
    BY <1>1, <2>1, <2>2 DEF Reading
  <2> QED
    BY <2>3 DEF e
<1>5. Reading(x, n, N!Folded(c, q))
  BY <1>2, <1>3, <1>4, N!FoldKeeps
<1>6. Reading(x, n, d)
  BY <1>5, AllReadIsFold
<1> QED
  BY <1>1, <1>6 DEF Reading

LEMMA LocalReadResponseKeeps ==
  ASSUME CacheAssumptions, NEW R, Sending \subseteq R, NEW W, NEW c, CacheInv(c, R, W),
         NEW m, m.tag \in Tag, NEW d \in OnLocalReadResponse(c, m)
  PROVE  CacheInv(d, R, W) /\ d.topCache = c.topCache
<1> DEFINE t == m.tag
           w == c.waitingOnRemoteReads[t]
           z == <<>>
           e == [c EXCEPT !.waitingOnRemoteReads = [c.waitingOnRemoteReads EXCEPT ![t] = z]]
<1>1. c \in CacheObject(R) /\ t \in Tag
  BY DEF CacheInv, BlocksInv
<1>2. w \in Seq(ReadMsg)
  BY <1>1 DEF CacheObject
<1>3. d = AllRead(e, w)
  BY DEF OnLocalReadResponse, AllRead
<1>4. z \in Seq(ReadMsg) /\ \A k \in DOMAIN z : z[k].tag = t
  OBVIOUS
<1>5. c.topCache => z = <<>>
  OBVIOUS
<1> HIDE DEF t, z, w
<1>6. CacheInv(e, R, W) /\ e.topCache = c.topCache
  BY <1>1, <1>4, <1>5, RemoteReadersKeep
<1> HIDE DEF e
<1>7. CacheInv(d, R, W) /\ d.topCache = e.topCache
  BY <1>2, <1>3, <1>6, AllReadKeeps
<1> QED
  BY <1>6, <1>7
-----------------------------------------------------------------------------
(* RecvMsg, and the start.                                                  *)

(* The messages between the levels have tags of the set.                    *)
LEMMA TagsOfMessages ==
  \A m \in Request \cup Sending \cup UpMsg : m.tag \in Tag
BY DEF Request, ReadMsg, Sending, Asking, Answering, UpMsg, Response, Written, Read, Eviction,
       InvalidateResponse, Invalidate

LEMMA ReadsAreReads ==
  \A m \in Request \cup Sending \cup UpMsg : m.type = "Read" => m \in ReadMsg
BY DEF Request, ReadMsg, Sending, Asking, Answering, UpMsg, Response, Written, Read, Eviction,
       InvalidateResponse, Invalidate, IDs

LEMMA WritesAreRequests ==
  \A m \in Request \cup Sending : m.type \in {"Read", "Write"} => m \in Request
BY DEF Request, ReadMsg, Sending, Asking, Answering, Response, Read, Eviction,
       InvalidateResponse, IDs

LEMMA FromLocalKeeps ==
  ASSUME CacheAssumptions, NEW R, Sending \subseteq R, NEW W, NEW c, CacheInv(c, R, W),
         NEW m \in Request \cup Sending, NEW d \in FromLocal(c, m)
  PROVE  CacheInv(d, R, W) /\ d.topCache = c.topCache
<1>1. m.tag \in Tag
  BY TagsOfMessages
<1>2. CASE m.type \in {"Read", "Write"}
  <2>1. d \in OnLocalRequest(c, m)
    BY <1>2 DEF FromLocal
  <2>2. m \in Request /\ Asking \subseteq R
    BY <1>2, WritesAreRequests DEF Sending
  <2> QED
    BY <2>1, <2>2, LocalRequestKeeps
<1>3. CASE m.type = "ReadResponse"
  <2>1. d \in OnLocalReadResponse(c, m)
    BY <1>3 DEF FromLocal
  <2> QED
    BY <1>1, <2>1, LocalReadResponseKeeps
<1>4. CASE m.type = "Eviction"
  <2>1. d \in OnLocalEviction(c, m)
    BY <1>4 DEF FromLocal
  <2> QED
    BY <1>1, <2>1, LocalEvictionKeeps
<1>5. CASE m.type = "InvalidateResponse"
  <2>1. d \in OnLocalInvalidateResponse(c, m)
    BY <1>5 DEF FromLocal
  <2> QED
    BY <1>1, <2>1, LocalInvalidateResponseKeeps
<1>6. m.type \in {"Read", "Write", "ReadResponse", "Eviction", "InvalidateResponse"}
  BY DEF Request, ReadMsg, Sending, Asking, Answering, Response, Read, Eviction, InvalidateResponse
<1> QED
  BY <1>2, <1>3, <1>4, <1>5, <1>6

(* Evictions of other caches only come to the caches on a bus.              *)
LEMMA FromRemoteKeeps ==
  ASSUME CacheAssumptions, NEW R, Sending \subseteq R, NEW W, NEW c, CacheInv(c, R, W),
         NEW m, m.tag \in Tag, m.type = "Read" => m \in ReadMsg, m.type # "Eviction",
         NEW attached \in BOOLEAN, NEW d \in FromRemote(c, m, attached)
  PROVE  CacheInv(d, R, W) /\ d.topCache = c.topCache
<1>1. CASE m.type = "Read"
  <2>1. d \in OnRemoteRead(c, m) /\ m \in ReadMsg
    BY <1>1 DEF FromRemote
  <2>2. CacheInv(d, R, W) /\ d.topCache = c.topCache
    BY <2>1, RemoteReadKeeps
  <2> QED
    BY <2>2
<1>2. CASE m.type = "ReadResponse"
  <2>1. d \in OnRemoteReadResponse(c, m, attached) /\ Asking \subseteq R
    BY <1>2 DEF FromRemote, Sending
  <2>2. CacheInv(d, R, W \ {m.tag}) /\ d.topCache = c.topCache
    BY <2>1, RemoteReadResponseKeeps
  <2>3. AskedFor(d, W)
    BY <2>2 DEF CacheInv, BlocksInv, AskedFor
  <2> QED
    BY <2>2, <2>3 DEF CacheInv, BlocksInv
<1>3. CASE m.type = "Invalidate"
  <2>1. d \in OnRemoteInvalidate(c, m)
    BY <1>3 DEF FromRemote
  <2>2. CacheInv(d, R, W) /\ d.topCache = c.topCache
    BY <2>1, RemoteInvalidateKeeps
  <2> QED
    BY <2>2
<1>4. CASE m.type \notin {"Read", "ReadResponse", "Invalidate"}
  BY <1>4 DEF FromRemote
<1> QED
  BY <1>1, <1>2, <1>3, <1>4

LEMMA NewCacheInv ==
  ASSUME CacheAssumptions, NEW R, NEW W, NEW top \in BOOLEAN, NEW c, c = NewCache(top)
  PROVE  CacheInv(c, R, W) /\ c.topCache = top /\ c.toLocal = <<>> /\ c.toRemote = <<>>
<1> DEFINE b == [t \in Tag |-> NoBlock]
           z == <<>>
           w == [t \in Tag |-> <<>>]
           s == {}
<1>1. /\ b \in [Tag -> Frame] /\ \A t \in Tag : b[t] = NoBlock
      /\ z \in Seq(Request) /\ z \in Outbox(UpMsg) /\ z \in Outbox(R)
      /\ w \in [Tag -> Seq(Request)] /\ w \in [Tag -> Seq(ReadMsg)] /\ \A t \in Tag : w[t] = <<>>
      /\ s \in SUBSET Tag
  BY DEF Frame, Outbox
<1>2. c = [topCache |-> top, blocks |-> b, waitingOnBlockUnlock |-> w, waitingOnSetUnlock |-> z,
           waitingOnRemoteReads |-> w, pendingEviction |-> b, pendingInvalidate |-> s,
           canceledBlockEviction |-> s, toLocal |-> z, toRemote |-> z]
  BY DEF NewCache
<1>3. z = <<>> /\ s = {}
  OBVIOUS
<1> HIDE DEF b, z, w, s
<1>4. c \in CacheObject(R)
  BY <1>1, <1>2 DEF CacheObject
<1>5. Sorted(c) /\ LockedIffWaiting(c)
  BY <1>1, <1>2 DEF Sorted, LockedIffWaiting
<1>6. InvalidIsLocked(c) /\ EvictedIsUsable(c)
  BY <1>1, <1>2 DEF InvalidIsLocked, EvictedIsUsable
<1>7. TopWaitsForNobody(c) /\ AskedFor(c, W)
  BY <1>1, <1>2, <1>3 DEF TopWaitsForNobody, AskedFor
<1>8. HasItsFrames(c)
  <2>1. Held(c) = {}
    BY <1>1, <1>2 DEF Held
  <2> QED
    BY <2>1, FS_EmptySet DEF HasItsFrames, CacheAssumptions
<1>9. FrameWaitersWillWake(c)
  BY <1>2, <1>3 DEF FrameWaitersWillWake
<1> QED
  BY <1>2, <1>3, <1>4, <1>5, <1>6, <1>7, <1>8, <1>9 DEF CacheInv, BlocksInv

(* What the systems check of each cache.                                    *)
LEMMA CacheInvImplies ==
  ASSUME CacheAssumptions, NEW R, NEW W, NEW c, CacheInv(c, R, W)
  PROVE  /\ CacheTypeOK(c) /\ LockedIffWaiting(c)
         /\ evictionPolicy = "LRU" => FrameWaitersWillWake(c)
<1>1. Frame \subseteq Block \cup {NoBlock}
  BY DEF Frame, UsedBlock, Block, CacheAssumptions, ClassOK, State
<1>2. c \in CacheObject(R) /\ BlocksInv(c, R, W)
  BY DEF CacheInv, BlocksInv
<1>3. CacheTypeOK(c)
  BY <1>1, <1>2 DEF CacheTypeOK, CacheObject, BlocksInv, HasItsFrames
<1> QED
  BY <1>2, <1>3 DEF CacheInv, BlocksInv

(* What the level below sends, of all that may come from below.             *)
LEMMA UpMsgKeeps ==
  ASSUME CacheAssumptions, NEW R, Sending \subseteq R, NEW W, NEW c, CacheInv(c, R, W),
         NEW m \in UpMsg, NEW attached \in BOOLEAN, NEW d \in FromRemote(c, m, attached)
  PROVE  CacheInv(d, R, W) /\ d.topCache = c.topCache
<1>1. m.tag \in Tag
  BY TagsOfMessages
<1>2. m.type = "Read" => m \in ReadMsg
  BY ReadsAreReads
<1>3. m.type # "Eviction"
  BY DEF UpMsg, Response, Written, ReadMsg, Invalidate
<1> QED
  BY <1>1, <1>2, <1>3, FromRemoteKeeps
-----------------------------------------------------------------------------
(* What a cache has for its own: it may write it, or tell nobody of it.     *)
Writable == {"Modified", "Exclusive"}

(* Of a class: only such blocks are written, a read from below leaves none  *)
(* of them, and dirty data from above makes none.                           *)
OwnershipOK ==
  /\ ~class.EvictsSurplus
  /\ \A s \in Valid : /\ s \notin class.NeedsExclusive => s \in Writable
                      /\ class.AfterRead[s] \notin Writable
  /\ \A s \in Valid \cup {"Invalid"} : class.AfterMerge[s] \in Writable => s \in Writable

IsOwned(b) == b # NoBlock /\ b.state \in Writable
Owns(c, t) == IsOwned(c.blocks[t]) \/ IsOwned(c.pendingEviction[t])

(* Messages to the directory after which the cache is not the only one.     *)
GivesUp(m) ==
  \/ m.type \in {"Eviction", "InvalidateResponse"}
  \/ m.type = "ReadResponse" /\ m.satisfied

GivenUp(c, t) == \E k \in DOMAIN c.toRemote : c.toRemote[k].msg.tag = t /\ GivesUp(c.toRemote[k].msg)

(* A block that is being evicted has left its frame.                        *)
EvictedIsGone(c) == \A t \in Tag : c.pendingEviction[t] # NoBlock => c.blocks[t] = NoBlock

(* What the cache has for its own is among G, and it gives none of it up.   *)
OwnInv(c, G) ==
  /\ EvictedIsGone(c)
  /\ \A t \in Tag : Owns(c, t) => t \in G /\ ~GivenUp(c, t)

LEMMA OwnsNoMore ==
  ASSUME NEW G, NEW c, OwnInv(c, G), NEW d, EvictedIsGone(d),
         \A t \in Tag : Owns(d, t) => Owns(c, t), d.toRemote = c.toRemote
  PROVE  OwnInv(d, G)
BY DEF OwnInv, GivenUp

LEMMA OwnsNoMoreAndSends ==
  ASSUME NEW G, NEW c, OwnInv(c, G), NEW d, EvictedIsGone(d),
         \A t \in Tag : Owns(d, t) => Owns(c, t),
         NEW S, c.toRemote \in Seq(S), NEW e \in S, d.toRemote = Append(c.toRemote, e),
         GivesUp(e.msg) => ~Owns(d, e.msg.tag)
  PROVE  OwnInv(d, G)
<1>1. \A k \in DOMAIN d.toRemote : d.toRemote[k] = e \/ (k \in DOMAIN c.toRemote /\ d.toRemote[k] = c.toRemote[k])
  OBVIOUS
<1>2. ASSUME NEW t \in Tag, Owns(d, t)
      PROVE  t \in G /\ ~GivenUp(d, t)
  <2>1. t \in G /\ ~GivenUp(c, t)
    BY <1>2 DEF OwnInv
  <2> QED
    BY <1>1, <1>2, <2>1 DEF GivenUp
<1> QED
  BY <1>2 DEF OwnInv

(* A message to the directory.                                              *)
LEMMA SendOwns ==
  ASSUME NEW R, NEW c \in CacheObject(R), NEW G, OwnInv(c, G), NEW m \in R, NEW delay \in Delay,
         GivesUp(m) => ~Owns(c, m.tag), NEW d, d = ToRemote(c, m, delay)
  PROVE  OwnInv(d, G)
<1> DEFINE S == [msg : R, delay : Delay]
           e == [msg |-> m, delay |-> delay]
<1>1. SameTables(c, d) /\ d.toRemote = Append(c.toRemote, e)
  BY SendRemote
<1>2. c.toRemote \in Seq(S) /\ e \in S
  BY DEF CacheObject, Outbox
<1>3. e.msg = m
  OBVIOUS
<1> HIDE DEF S, e
<1>4. EvictedIsGone(d) /\ \A t \in Tag : Owns(d, t) <=> Owns(c, t)
  BY <1>1 DEF SameTables, EvictedIsGone, Owns, OwnInv
<1>5. GivesUp(e.msg) => ~Owns(d, e.msg.tag)
  <2>1. SUFFICES ASSUME GivesUp(m) PROVE ~Owns(d, m.tag)
    BY <1>3
  <2> QED
    BY <1>1, <2>1 DEF SameTables, Owns
<1> QED
  BY <1>1, <1>2, <1>4, <1>5, OwnsNoMoreAndSends

(* One block changes, and is not made the cache's own.                      *)
LEMMA ChangeOwns ==
  ASSUME NEW c, NEW G, OwnInv(c, G), NEW t \in Tag, NEW d, SameBut(c, d, t),
         d.toRemote = c.toRemote, c.blocks[t] # NoBlock \/ d.blocks[t] = NoBlock,
         IsOwned(d.blocks[t]) => IsOwned(c.blocks[t])
  PROVE  OwnInv(d, G)
<1>1. EvictedIsGone(d)
  BY DEF SameBut, OwnInv, EvictedIsGone
<1>2. \A s \in Tag : Owns(d, s) => Owns(c, s)
  BY DEF SameBut, Owns
<1> QED
  BY <1>1, <1>2, OwnsNoMore
-----------------------------------------------------------------------------
LEMMA PerformState ==
  ASSUME CacheAssumptions, OwnershipOK, NEW R, NEW c \in CacheObject(R),
         NEW m \in Request, NEW t \in Tag, t = m.tag, c.blocks[t] \in UsedBlock,
         NEW d, d = Perform(c, m)
  PROVE  d.blocks[t].state \in Writable => c.blocks[t].state \in Writable
<1>1. c.blocks[t].state \notin class.NeedsExclusive \cup {"Invalid"} => c.blocks[t].state \in Writable
  BY DEF OwnershipOK, UsedBlock
<1>2. CASE m.type = "Read"
  <2>1. d.blocks[t].state = c.blocks[t].state
    BY <1>2 DEF Perform, PerformRead, Miss, ToLocal, ToRemote, CacheObject
  <2> QED
    BY <2>1
<1>3. CASE m.type # "Read"
  <2>1. d.blocks[t].state = c.blocks[t].state
        \/ c.blocks[t].state \notin class.NeedsExclusive \cup {"Invalid"}
    BY <1>3 DEF Perform, PerformWrite, Miss, ToLocal, ToRemote, CacheObject
  <2> QED
    BY <1>1, <2>1
<1> QED
  BY <1>2, <1>3

LEMMA PerformOwns ==
  ASSUME CacheAssumptions, OwnershipOK, NEW R, Asking \subseteq R, NEW c \in CacheObject(R),
         NEW G, OwnInv(c, G),
         NEW m \in Request, NEW t \in Tag, t = m.tag, c.blocks[t] \in UsedBlock,
         NEW d, d = Perform(c, m)
  PROVE  OwnInv(d, G)
<1>1. /\ SameBut(c, d, t) /\ d.blocks[t] \in UsedBlock
      /\ Answered(c, d, t) \/ MadeToWait(c, d, t, m)
  BY PerformResult
<1>2. d.blocks[t].state \in Writable => c.blocks[t].state \in Writable
  BY PerformState
<1>3. c.blocks[t] # NoBlock
  BY UsedIsNoNoBlock
<1>4. EvictedIsGone(d) /\ \A s \in Tag : Owns(d, s) => Owns(c, s)
  BY <1>1, <1>2, <1>3 DEF SameBut, OwnInv, EvictedIsGone, Owns, IsOwned
<1>5. CASE d.toRemote = c.toRemote
  BY <1>4, <1>5, OwnsNoMore
<1>6. CASE \E x \in BOOLEAN : d.toRemote = Append(c.toRemote, [msg |-> Read(t, x, NoID), delay |-> missTime])
  <2>1. PICK x \in BOOLEAN : d.toRemote = Append(c.toRemote, [msg |-> Read(t, x, NoID), delay |-> missTime])
    BY <1>6
  <2> DEFINE S == [msg : R, delay : Delay]
             e == [msg |-> Read(t, x, NoID), delay |-> missTime]
  <2>2. c.toRemote \in Seq(S) /\ e \in S
    BY DEF CacheObject, Outbox, Asking, Delay
  <2>3. ~GivesUp(e.msg)
    BY DEF GivesUp, Read
  <2> HIDE DEF S
  <2> QED
    BY <1>4, <2>1, <2>2, <2>3, OwnsNoMoreAndSends
<1> QED
  BY <1>1, <1>5, <1>6 DEF Answered, MadeToWait
(* PrepareFreshBlock: a block that was being evicted is the cache's own as  *)
(* it was; a fresh one is not.                                              *)
LEMMA PrepareOwns ==
  ASSUME CacheAssumptions, NEW R, NEW c \in CacheObject(R), NEW G, OwnInv(c, G),
         NEW t \in Tag, NEW d, d = PrepareFreshBlock(c, t)
  PROVE  OwnInv(d, G)
<1> DEFINE b == [state |-> "Invalid", locked |-> FALSE, written |-> FALSE]
<1>1. CASE c.pendingEviction[t] = NoBlock
  <2>1. /\ d.blocks = [c.blocks EXCEPT ![t] = b]
        /\ d.pendingEviction = c.pendingEviction /\ d.toRemote = c.toRemote
    BY <1>1 DEF PrepareFreshBlock, CacheObject
  <2>2. ~IsOwned(b)
    BY DEF IsOwned, Writable
  <2>3. c.blocks \in [Tag -> Frame]
    BY DEF CacheObject
  <2> HIDE DEF b
  <2>4. \A s \in Tag : Owns(d, s) => Owns(c, s)
    BY <2>1, <2>2, <2>3 DEF Owns
  <2>5. EvictedIsGone(d)
    BY <1>1, <2>1, <2>3 DEF OwnInv, EvictedIsGone
  <2> QED
    BY <2>1, <2>4, <2>5, OwnsNoMore
<1>2. CASE c.pendingEviction[t] # NoBlock
  <2>1. /\ d.blocks = [c.blocks EXCEPT ![t] = c.pendingEviction[t]]
        /\ d.pendingEviction = [c.pendingEviction EXCEPT ![t] = NoBlock] /\ d.toRemote = c.toRemote
    BY <1>2 DEF PrepareFreshBlock, CacheObject
  <2>2. ~IsOwned(NoBlock)
    BY DEF IsOwned
  <2>3. c.blocks \in [Tag -> Frame] /\ c.pendingEviction \in [Tag -> Frame]
    BY DEF CacheObject
  <2>4. \A s \in Tag : Owns(d, s) => Owns(c, s)
    BY <2>1, <2>2, <2>3 DEF Owns
  <2>5. EvictedIsGone(d)
    BY <1>2, <2>1, <2>3 DEF OwnInv, EvictedIsGone
  <2> QED
    BY <2>1, <2>4, <2>5, OwnsNoMore
<1> QED
  BY <1>1, <1>2

(* TakeFrame: a block that leaves its frame is given up or waits to be.     *)
LEMMA TakeFrameOwns ==
  ASSUME CacheAssumptions, NEW R, Asking \subseteq R, NEW c \in CacheObject(R), NEW G, OwnInv(c, G),
         NEW t \in Tag, NEW v \in Victims(c), NEW d, d = TakeFrame(c, v, t)
  PROVE  OwnInv(d, G)
<1> DEFINE e == WithBlock(c, v, NoBlock)
<1>1. v \in Tag /\ c.blocks[v] # NoBlock /\ NoBlock \in Frame
  BY DEF Victims, Held, Frame
<1>2. c.blocks \in [Tag -> Frame] /\ c.pendingEviction \in [Tag -> Frame] /\ c.blocks[v] \in UsedBlock
  BY <1>1 DEF CacheObject, Frame
<1>3. ~IsOwned(NoBlock) /\ c.pendingEviction[v] = NoBlock
  BY <1>1 DEF IsOwned, OwnInv, EvictedIsGone
<1>4. CASE c.topCache
  <2> DEFINE m == Eviction(v, c.blocks[v].written)
  <2>1. d = ToRemote(e, m, evictionTime)
    BY <1>4 DEF TakeFrame, WithBlock
  <2>2. e \in CacheObject(R) /\ SameBut(c, e, v) /\ e.blocks[v] = NoBlock /\ e.toRemote = c.toRemote
    <3> HIDE DEF e
    <3>1. e = WithBlock(c, v, NoBlock)
      BY DEF e
    <3> QED
      BY <1>1, <3>1, SetBlock
  <2>3. m \in R /\ evictionTime \in Delay /\ m.tag = v
    BY <1>1, <1>2 DEF Asking, Delay, UsedBlock, Eviction
  <2> HIDE DEF e, m
  <2>4. OwnInv(e, G)
    BY <1>1, <1>3, <2>2, ChangeOwns
  <2>5. ~Owns(e, v)
    BY <1>1, <1>3, <2>2 DEF Owns, SameBut
  <2> QED
    BY <2>1, <2>2, <2>3, <2>4, <2>5, SendOwns
<1>5. CASE ~c.topCache
  <2>1. /\ d.blocks = [c.blocks EXCEPT ![v] = NoBlock]
        /\ d.pendingEviction = [c.pendingEviction EXCEPT ![v] = c.blocks[v]] /\ d.toRemote = c.toRemote
    BY <1>5 DEF TakeFrame, CacheObject, ToLocal
  <2>2. \A s \in Tag : Owns(d, s) => Owns(c, s)
    BY <1>2, <1>3, <2>1 DEF Owns
  <2>3. EvictedIsGone(d)
    BY <1>2, <2>1 DEF OwnInv, EvictedIsGone
  <2> QED
    BY <2>1, <2>2, <2>3, OwnsNoMore
<1> QED
  BY <1>4, <1>5

LEMMA LocalRequestOwns ==
  ASSUME CacheAssumptions, OwnershipOK, NEW R, Asking \subseteq R, NEW W, NEW c, CacheInv(c, R, W),
         NEW G, OwnInv(c, G), NEW m \in Request, NEW d \in OnLocalRequest(c, m)
  PROVE  OwnInv(d, G)
<1> DEFINE t == m.tag
<1>1. c \in CacheObject(R) /\ BlocksInv(c, R, W) /\ t \in Tag
  BY DEF CacheInv, BlocksInv, Request, ReadMsg
<1>2. ASSUME NEW e, BlocksInv(e, R, W), HasFreeFrame(e), e.blocks[t] = NoBlock, OwnInv(e, G)
      PROVE  OwnInv(Perform(PrepareFreshBlock(e, t), m), G)
  <2> DEFINE f == PrepareFreshBlock(e, t)
  <2>1. t = m.tag /\ e \in CacheObject(R)
    BY <1>2 DEF BlocksInv
  <2> HIDE DEF t
  <2>2. ReadyFor(f, t, R, W)
    BY <1>1, <1>2, PrepareMakesReady
  <2>3. OwnInv(f, G)
    BY <1>1, <1>2, <2>1, PrepareOwns
  <2> HIDE DEF f
  <2>4. f \in CacheObject(R) /\ f.blocks[t] \in UsedBlock
    BY <2>2 DEF ReadyFor
  <2>5. OwnInv(Perform(f, m), G)
    BY <1>1, <2>1, <2>3, <2>4, PerformOwns
  <2> QED
    BY <2>5 DEF f
<1>3. CASE c.blocks[t] # NoBlock
  <2>1. d = Perform(c, m) /\ t = m.tag
    BY <1>3 DEF OnLocalRequest
  <2>2. c.blocks[t] \in UsedBlock
    BY <1>1, <1>3 DEF CacheObject, Frame
  <2> HIDE DEF t
  <2> QED
    BY <1>1, <2>1, <2>2, PerformOwns
<1>4. CASE c.blocks[t] = NoBlock /\ HasFreeFrame(c)
  <2>1. d = Perform(PrepareFreshBlock(c, t), m)
    BY <1>4 DEF OnLocalRequest
  <2> HIDE DEF t
  <2> QED
    BY <1>1, <1>2, <1>4, <2>1
<1>5. CASE c.blocks[t] = NoBlock /\ ~HasFreeFrame(c)
  <2>1. PICK v \in Evict(c) :
          d = IF v = NoBlock THEN [c EXCEPT !.waitingOnSetUnlock = Append(@, m)]
              ELSE Perform(PrepareFreshBlock(TakeFrame(c, v, t), t), m)
    BY <1>5 DEF OnLocalRequest
  <2> HIDE DEF t
  <2>2. CASE v = NoBlock
    <3>1. d = [c EXCEPT !.waitingOnSetUnlock = Append(@, m)]
      BY <2>1, <2>2
    <3>2. d.blocks = c.blocks /\ d.pendingEviction = c.pendingEviction /\ d.toRemote = c.toRemote
      BY <1>1, <3>1 DEF CacheObject
    <3>3. EvictedIsGone(d) /\ \A s \in Tag : Owns(d, s) => Owns(c, s)
      BY <3>2 DEF OwnInv, EvictedIsGone, Owns
    <3> QED
      BY <3>2, <3>3, OwnsNoMore
  <2>3. CASE v # NoBlock
    <3> DEFINE e == TakeFrame(c, v, t)
    <3>1. v \in Victims(c)
      BY <2>3 DEF Evict
    <3>2. BlocksInv(e, R, W) /\ HasFreeFrame(e) /\ e.blocks[t] = NoBlock
      BY <1>1, <1>5, <3>1, TakeFrameFrees
    <3>3. OwnInv(e, G)
      BY <1>1, <3>1, TakeFrameOwns
    <3>4. d = Perform(PrepareFreshBlock(e, t), m)
      BY <2>1, <2>3
    <3> HIDE DEF e
    <3> QED
      BY <1>2, <3>2, <3>3, <3>4
  <2> QED
    BY <2>2, <2>3
<1> QED
  BY <1>3, <1>4, <1>5
-----------------------------------------------------------------------------
(* UnlockBlock, by its two folds; x as for Performing, and G.               *)
OwningPerformed(x, k, a) == Performing(x, k, a) /\ OwnInv(a, x[6])

LEMMA PerformedOwns ==
  ASSUME CacheAssumptions, OwnershipOK, NEW R, Asking \subseteq R, NEW W, NEW c, NEW t \in Tag,
         ReadyFor(c, t, R, W), InvalidIsLocked(c), NEW G, OwnInv(c, G),
         NEW q \in Seq(Request), \A k \in DOMAIN q : q[k].tag = t
  PROVE  OwnInv(Performed(c, q), G)
<1> DEFINE x == <<c, t, q, R, W, G>>
           n == Len(q)
<1>1. x[1] = c /\ x[2] = t /\ x[4] = R /\ x[5] = W /\ x[6] = G
  OBVIOUS
<1>2. n \in Nat /\ DOMAIN q = 1..n /\ \A k \in 1..n : q[k] \in Request /\ q[k].tag = t
  OBVIOUS
<1> HIDE DEF x, n
<1>3. OwningPerformed(x, 0, c)
  BY <1>1 DEF OwningPerformed, Performing, SameBut
<1>4. ASSUME NEW a, NEW k \in 1..n, OwningPerformed(x, k-1, a)
      PROVE  OwningPerformed(x, k, Perform(a, q[k]))
  <2> DEFINE d == Perform(a, q[k])
  <2>1. ReadyFor(a, t, R, W) /\ SameBut(c, a, t) /\ OwnInv(a, G)
    BY <1>1, <1>4 DEF OwningPerformed, Performing
  <2>2. q[k] \in Request /\ t = q[k].tag
    BY <1>2
  <2>3. BlocksInv(d, R, W) /\ SameBut(a, d, t) /\ d.blocks[t] \in UsedBlock
    BY <2>1, <2>2, PerformSettles
  <2>4. a \in CacheObject(R) /\ a.blocks[t] \in UsedBlock
    BY <2>1 DEF ReadyFor
  <2>5. OwnInv(d, G)
    BY <2>1, <2>2, <2>4, PerformOwns
  <2> HIDE DEF d
  <2>6. ReadyFor(d, t, R, W) /\ InvalidIsLocked(d)
    BY <2>3 DEF BlocksInv, ReadyFor, InvalidIsLocked
  <2>7. SameBut(c, d, t)
    BY <2>1, <2>3 DEF SameBut
  <2>8. OwningPerformed(x, k, d)
    BY <1>1, <2>5, <2>6, <2>7 DEF OwningPerformed, Performing
  <2> QED
    BY <2>8 DEF d
<1>5. PICK h : P!Passes(h, c, q, n)
  BY <1>2, P!FoldPasses
<1> DEFINE Done == {k \in 0..n : OwningPerformed(x, k, h[k])}
<1>6. n \in Done
  <2>1. 0 \in Done
    BY <1>2, <1>3, <1>5 DEF P!Passes
  <2>2. ASSUME NEW k \in 1..n, k-1 \in Done
        PROVE  k \in Done
    <3>1. h[k] = Perform(h[k-1], q[k]) /\ k \in 0..n /\ OwningPerformed(x, k-1, h[k-1])
      BY <2>2, <1>5 DEF P!Passes
    <3>2. OwningPerformed(x, k, h[k])
      BY <1>4, <3>1
    <3> QED
      BY <3>1, <3>2
  <2> HIDE DEF Done
  <2> QED
    BY <1>2, <2>1, <2>2, P!UpToTheEnd
<1>7. OwningPerformed(x, n, Performed(c, q))
  BY <1>5, <1>6, PerformedIsFold DEF P!Passes
<1> QED
  BY <1>1, <1>7 DEF OwningPerformed

(* x has R, W, topCache and G.                                              *)
OwningRemade(x, k, S) == Remaking(x, k, S) /\ \A e \in S : OwnInv(e, x[4])

LEMMA AllMadeAgainOwns ==
  ASSUME CacheAssumptions, OwnershipOK, NEW R, Asking \subseteq R, NEW W, NEW c, CacheInv(c, R, W),
         NEW G, OwnInv(c, G), NEW q \in Seq(Request), NEW S, S = {c}, NEW d \in AllMadeAgain(S, q)
  PROVE  OwnInv(d, G)
<1> DEFINE x == <<R, W, c.topCache, G>>
           n == Len(q)
<1>1. x[1] = R /\ x[2] = W /\ x[3] = c.topCache /\ x[4] = G
  OBVIOUS
<1>2. n \in Nat /\ DOMAIN q = 1..n /\ \A k \in 1..n : q[k] \in Request
  OBVIOUS
<1> HIDE DEF x, n
<1>3. OwningRemade(x, 0, S)
  BY <1>1 DEF OwningRemade, Remaking
<1>4. ASSUME NEW a, NEW k \in 1..n, OwningRemade(x, k-1, a)
      PROVE  OwningRemade(x, k, MadeAgain(a, q[k]))
  <2>1. SUFFICES ASSUME NEW f \in MadeAgain(a, q[k])
                 PROVE  CacheInv(f, R, W) /\ f.topCache = c.topCache /\ OwnInv(f, G)
    BY <1>1 DEF OwningRemade, Remaking
  <2>2. PICK e \in a : f \in OnLocalRequest(e, q[k])
    BY DEF MadeAgain
  <2>3. CacheInv(e, R, W) /\ e.topCache = c.topCache /\ OwnInv(e, G) /\ q[k] \in Request
    BY <1>1, <1>2, <1>4 DEF OwningRemade, Remaking
  <2>4. CacheInv(f, R, W) /\ f.topCache = e.topCache
    BY <2>2, <2>3, LocalRequestKeeps
  <2>5. OwnInv(f, G)
    BY <2>2, <2>3, LocalRequestOwns
  <2> QED
    BY <2>3, <2>4, <2>5
<1>5. PICK h : A!Passes(h, S, q, n)
  BY <1>2, A!FoldPasses
<1> DEFINE Done == {k \in 0..n : OwningRemade(x, k, h[k])}
<1>6. n \in Done
  <2>1. 0 \in Done
    <3>1. h[0] = S /\ 0 \in 0..n
      BY <1>2, <1>5 DEF A!Passes
    <3>2. OwningRemade(x, 0, h[0])
      BY <1>3, <3>1, Zenon
    <3> QED
      BY <3>1, <3>2
  <2>2. ASSUME NEW k \in 1..n, k-1 \in Done
        PROVE  k \in Done
    <3>1. h[k] = MadeAgain(h[k-1], q[k]) /\ k \in 0..n /\ OwningRemade(x, k-1, h[k-1])
      BY <2>2, <1>5 DEF A!Passes
    <3>2. OwningRemade(x, k, h[k])
      BY <1>4, <3>1
    <3> QED
      BY <3>1, <3>2
  <2> HIDE DEF Done
  <2> QED
    BY <1>2, <2>1, <2>2, A!UpToTheEnd
<1>7. OwningRemade(x, n, AllMadeAgain(S, q))
  BY <1>5, <1>6, AllMadeAgainIsFold DEF A!Passes
<1> QED
  BY <1>1, <1>7 DEF OwningRemade

(* Tables that only differ in what waits.                                   *)
LEMMA WaitersOwnNothing ==
  ASSUME NEW c, NEW G, OwnInv(c, G), NEW d, d.blocks = c.blocks,
         d.pendingEviction = c.pendingEviction, d.toRemote = c.toRemote
  PROVE  OwnInv(d, G)
<1>1. EvictedIsGone(d) /\ \A s \in Tag : Owns(d, s) => Owns(c, s)
  BY DEF OwnInv, EvictedIsGone, Owns
<1> QED
  BY <1>1, OwnsNoMore
LEMMA UnlockedOwns ==
  ASSUME NEW R, NEW c \in CacheObject(R), NEW t \in Tag, c.blocks[t] \in UsedBlock,
         c.blocks[t] # NoBlock,
         NEW G, OwnInv(c, G), NEW d, d = Unlocked(c, t), SameBut(c, d, t)
  PROVE  OwnInv(d, G)
<1>1. d.blocks[t].state = c.blocks[t].state /\ d.toRemote = c.toRemote
  BY DEF Unlocked, CacheObject, UsedBlock
<1> QED
  BY <1>1, ChangeOwns DEF IsOwned

LEMMA UnlockBlockOwns ==
  ASSUME CacheAssumptions, OwnershipOK, NEW R, Asking \subseteq R, NEW W, NEW c, CacheInv(c, R, W),
         NEW t \in Tag, c.blocks[t] \in UsedBlock, c.blocks[t].state # "Invalid",
         NEW G, OwnInv(c, G), NEW d \in UnlockBlock(c, t)
  PROVE  OwnInv(d, G)
<1> DEFINE u == Unlocked(c, t)
           q == c.waitingOnBlockUnlock[t]
           e == Performed(u, q)
           f == [e EXCEPT !.waitingOnSetUnlock = <<>>]
           V == W \ {t}
           S == {f}
<1>1. c \in CacheObject(R) /\ BlocksInv(c, R, W) /\ c.blocks[t] # NoBlock
  BY UsedIsNoNoBlock DEF CacheInv, BlocksInv
<1>2. q \in Seq(Request) /\ \A k \in DOMAIN q : q[k].tag = t
  BY <1>1 DEF CacheObject, BlocksInv, Sorted
<1>3. d \in IF e.blocks[t].locked THEN {e} ELSE AllMadeAgain(S, e.waitingOnSetUnlock)
  BY UnlockBlockIs
<1>4. ReadyFor(u, t, R, V) /\ InvalidIsLocked(u) /\ SameBut(c, u, t)
  BY <1>1, UnlockedIsReady
<1>5. OwnInv(u, G)
  BY <1>1, <1>4, UnlockedOwns
<1> HIDE DEF u, q, V
<1>6. ReadyFor(e, t, R, V) /\ InvalidIsLocked(e) /\ OwnInv(e, G)
  BY <1>2, <1>4, <1>5, PerformedKeeps, PerformedOwns
<1> HIDE DEF e
<1>7. BlocksInv(e, R, V)
  BY <1>6 DEF ReadyFor, BlocksInv
<1>8. CacheInv(f, R, V) /\ OwnInv(f, G)
  BY <1>6, <1>7, NobodyLeft, WaitersOwnNothing
<1>9. e.waitingOnSetUnlock \in Seq(Request)
  BY <1>7 DEF BlocksInv, CacheObject
<1>10. S = {f}
  OBVIOUS
<1> HIDE DEF f, S
<1>11. ASSUME NEW g \in AllMadeAgain(S, e.waitingOnSetUnlock)
       PROVE  OwnInv(g, G)
  BY <1>8, <1>9, <1>10, AllMadeAgainOwns
<1> QED
  BY <1>3, <1>6, <1>11
-----------------------------------------------------------------------------
(* The messages from below.  A block that is filled exclusively was granted.*)
LEMMA RemoteReadResponseOwns ==
  ASSUME CacheAssumptions, OwnershipOK, NEW R, Asking \subseteq R, NEW W, NEW c, CacheInv(c, R, W),
         NEW m, m.tag \in Tag, NEW attached \in BOOLEAN,
         NEW G, OwnInv(c, G), ~GivenUp(c, m.tag), m.exclusive => m.tag \in G,
         NEW d \in OnRemoteReadResponse(c, m, attached)
  PROVE  OwnInv(d, G)
<1> DEFINE t == m.tag
           s == IF m.exclusive THEN class.ExclusiveFill ELSE "Shared"
           b == [c.blocks[t] EXCEPT !.state = s]
           e == Filled(c, m)
<1>1. c \in CacheObject(R) /\ t \in Tag
  BY DEF CacheInv, BlocksInv
<1>2. CASE ~IsAwaited(c, m)
  <2>1. d = c
    BY <1>2, RemoteReadResponseIs DEF OwnershipOK
  <2> QED
    BY <2>1
<1>3. CASE IsAwaited(c, m)
  <2>1. CacheInv(e, R, W) /\ e.blocks[t] \in UsedBlock /\ e.blocks[t].state # "Invalid"
    BY <1>3, FilledKeeps
  <2>2. d \in UnlockBlock(e, t)
    BY <1>3, RemoteReadResponseIs
  <2>3. c.blocks[t] # NoBlock /\ c.blocks[t] \in UsedBlock
    BY <1>1, <1>3 DEF IsAwaited, CacheObject, Frame
  <2>4. e = WithBlock(c, t, b)
    BY DEF Filled
  <2>5. b.state = s /\ (~m.exclusive => s \notin Writable)
    BY <2>3 DEF Writable, UsedBlock
  <2>6. b \in Frame
    <3>1. s \in Valid
      BY DEF CacheAssumptions, ClassOK
    <3> QED
      BY <2>3, <3>1 DEF UsedBlock, Frame
  <2> HIDE DEF e, t, b, s
  <2>7. SameBut(c, e, t) /\ e.blocks[t] = b /\ e.toRemote = c.toRemote
    BY <1>1, <2>4, <2>6, SetBlock
  <2>8. EvictedIsGone(e)
    BY <2>3, <2>7 DEF SameBut, OwnInv, EvictedIsGone
  <2>9. ASSUME NEW r \in Tag, Owns(e, r)
        PROVE  r \in G /\ ~GivenUp(e, r)
    <3>1. GivenUp(e, r) <=> GivenUp(c, r)
      BY <2>7 DEF GivenUp
    <3>2. CASE r # t
      <4>1. Owns(c, r)
        BY <2>7, <2>9, <3>2 DEF SameBut, Owns
      <4> QED
        BY <3>1, <4>1 DEF OwnInv
    <3>3. CASE r = t
      <4>1. c.pendingEviction[t] = NoBlock /\ e.pendingEviction = c.pendingEviction
        BY <1>1, <2>3, <2>7 DEF OwnInv, EvictedIsGone, SameBut
      <4>2. b.state \in Writable
        BY <2>7, <2>9, <3>3, <4>1 DEF Owns, IsOwned
      <4>3. m.exclusive
        BY <2>5, <4>2
      <4> QED
        BY <3>1, <3>3, <4>3 DEF t
    <3> QED
      BY <3>2, <3>3
  <2>10. OwnInv(e, G)
    BY <2>8, <2>9 DEF OwnInv
  <2> QED
    BY <1>1, <2>1, <2>2, <2>10, UnlockBlockOwns
<1> QED
  BY <1>2, <1>3

LEMMA DropBlockOwns ==
  ASSUME CacheAssumptions, NEW R, NEW W, NEW c, CacheInv(c, R, W), NEW t \in Tag,
         NEW G, OwnInv(c, G), NEW d, d = DropBlock(c, t)
  PROVE  OwnInv(d, G) /\ (c.pendingEviction[t] = NoBlock => ~Owns(d, t))
<1>1. c \in CacheObject(R) /\ BlocksInv(c, R, W) /\ c.blocks \in [Tag -> Frame]
  BY DEF CacheInv, BlocksInv, CacheObject
<1>2. SameBut(c, d, t) /\ d.toRemote = c.toRemote
  BY DropBlockKeeps
<1>3. ~IsOwned(d.blocks[t]) /\ (c.blocks[t] # NoBlock \/ d.blocks[t] = NoBlock)
  <2>1. CASE c.waitingOnBlockUnlock[t] # <<>>
    <3>1. c.blocks[t] # NoBlock /\ c.blocks[t] \in UsedBlock
      BY <1>1, <2>1 DEF BlocksInv, LockedIffWaiting, Frame
    <3>2. d.blocks[t].state = "Invalid"
      BY <1>1, <2>1, <3>1 DEF DropBlock, CacheObject, UsedBlock
    <3> QED
      BY <3>1, <3>2 DEF IsOwned, Writable
  <2>2. CASE c.waitingOnBlockUnlock[t] = <<>>
    <3>1. d.blocks[t] = NoBlock
      BY <1>1, <2>2 DEF DropBlock, CacheObject
    <3> QED
      BY <3>1 DEF IsOwned
  <2> QED
    BY <2>1, <2>2
<1>4. OwnInv(d, G)
  BY <1>2, <1>3, ChangeOwns
<1>5. c.pendingEviction[t] = NoBlock => ~Owns(d, t)
  BY <1>2, <1>3 DEF Owns, IsOwned, SameBut
<1> QED
  BY <1>4, <1>5

LEMMA PerformRemoteReadOwns ==
  ASSUME CacheAssumptions, OwnershipOK, NEW R, Sending \subseteq R, NEW W, NEW c, CacheInv(c, R, W),
         NEW G, OwnInv(c, G), NEW m \in ReadMsg, NEW d, d = PerformRemoteRead(c, m)
  PROVE  OwnInv(d, G)
<1> DEFINE t == m.tag
           b == c.blocks[t]
<1>1. c \in CacheObject(R) /\ BlocksInv(c, R, W)
  BY DEF CacheInv, BlocksInv
<1>2. t \in Tag /\ m.exclusive \in BOOLEAN /\ hitTime \in Delay
  BY DEF ReadMsg, Delay
<1>3. \A s, x \in BOOLEAN : ReadResponse(m, s, x) \in R
  BY DEF ReadMsg, ReadResponse, Response, Sending, Answering
<1>4. CASE b = NoBlock \/ b.state = "Invalid"
  <2> DEFINE r == ReadResponse(m, FALSE, FALSE)
  <2>1. d = ToRemote(c, r, hitTime) /\ r \in R
    BY <1>3, <1>4 DEF PerformRemoteRead
  <2>2. ~GivesUp(r)
    BY DEF GivesUp, ReadResponse
  <2> HIDE DEF r
  <2> QED
    BY <1>1, <1>2, <2>1, <2>2, SendOwns
<1>5. CASE b # NoBlock /\ b.state # "Invalid"
  <2> DEFINE r == ReadResponse(m, TRUE, m.exclusive)
             e == IF m.exclusive THEN DropBlock(c, t)
                  ELSE [c EXCEPT !.blocks[t].state = class.AfterRead[@]]
  <2>1. d = ToRemote(e, r, hitTime) /\ r \in R /\ r.tag = t
    BY <1>2, <1>3, <1>5 DEF PerformRemoteRead, ReadResponse
  <2>2. c.pendingEviction[t] = NoBlock
    BY <1>2, <1>5 DEF OwnInv, EvictedIsGone
  <2> HIDE DEF r
  <2>3. OwnInv(e, G) /\ ~Owns(e, t) /\ e \in CacheObject(R)
    <3>1. CASE m.exclusive
      <4>1. e = DropBlock(c, t)
        BY <3>1
      <4> HIDE DEF e
      <4>2. e \in CacheObject(R)
        BY <1>2, <4>1, DropBlockKeeps DEF CacheInv, BlocksInv
      <4> QED
        BY <1>2, <2>2, <4>1, <4>2, DropBlockOwns
    <3>2. CASE ~m.exclusive
      <4> DEFINE f == [b EXCEPT !.state = class.AfterRead[@]]
      <4>1. b \in UsedBlock
        BY <1>1, <1>2, <1>5 DEF CacheObject, Frame
      <4>2. f \in Frame /\ f.state \notin Writable
        <5>1. b.state \in Valid
          BY <1>5, <4>1 DEF UsedBlock
        <5>2. class.AfterRead[b.state] \in Valid /\ class.AfterRead[b.state] \notin Writable
          BY <5>1 DEF CacheAssumptions, ClassOK, OwnershipOK
        <5> QED
          BY <4>1, <5>2 DEF UsedBlock, Frame
      <4>3. e = WithBlock(c, t, f)
        BY <3>2 DEF WithBlock
      <4> HIDE DEF e, f
      <4>4. e \in CacheObject(R) /\ SameBut(c, e, t) /\ e.blocks[t] = f /\ e.toRemote = c.toRemote
        BY <1>1, <1>2, <4>2, <4>3, SetBlock
      <4>5. ~IsOwned(e.blocks[t])
        BY <4>2, <4>4 DEF IsOwned
      <4>6. OwnInv(e, G)
        BY <1>2, <1>5, <4>4, <4>5, ChangeOwns
      <4>7. ~Owns(e, t)
        BY <2>2, <4>4, <4>5 DEF Owns, SameBut, IsOwned
      <4> QED
        BY <4>4, <4>6, <4>7
    <3> QED
      BY <3>1, <3>2
  <2> HIDE DEF e
  <2> QED
    BY <1>2, <2>1, <2>3, SendOwns
<1> QED
  BY <1>4, <1>5
LEMMA SendLocalOwns ==
  ASSUME NEW R, NEW c \in CacheObject(R), NEW G, OwnInv(c, G), NEW m \in UpMsg, NEW delay \in Delay,
         NEW d, d = ToLocal(c, m, delay)
  PROVE  OwnInv(d, G)
<1>1. d.blocks = c.blocks /\ d.pendingEviction = c.pendingEviction /\ d.toRemote = c.toRemote
  BY SendLocal DEF SameTables
<1> QED
  BY <1>1, WaitersOwnNothing

LEMMA RemoteReadOwns ==
  ASSUME CacheAssumptions, OwnershipOK, NEW R, Sending \subseteq R, NEW W, NEW c, CacheInv(c, R, W),
         NEW G, OwnInv(c, G), NEW m \in ReadMsg, NEW d \in OnRemoteRead(c, m)
  PROVE  OwnInv(d, G)
<1> DEFINE q == [c.waitingOnRemoteReads EXCEPT ![m.tag] = Append(@, m)]
           e == [c EXCEPT !.waitingOnRemoteReads = q]
<1>1. c \in CacheObject(R)
  BY DEF CacheInv, BlocksInv
<1>2. d = PerformRemoteRead(c, m) \/ d = ToLocal(e, Read(m.tag, m.exclusive, NoID), hitTime)
  BY <1>1 DEF OnRemoteRead, CacheObject
<1>3. CASE d = PerformRemoteRead(c, m)
  BY <1>3, PerformRemoteReadOwns
<1>4. CASE d = ToLocal(e, Read(m.tag, m.exclusive, NoID), hitTime)
  <2>1. d.blocks = c.blocks /\ d.pendingEviction = c.pendingEviction /\ d.toRemote = c.toRemote
    BY <1>1, <1>4 DEF ToLocal, CacheObject
  <2> QED
    BY <2>1, WaitersOwnNothing
<1> QED
  BY <1>2, <1>3, <1>4

LEMMA DropAfterSending ==
  ASSUME NEW R, NEW f \in CacheObject(R), NEW m, NEW delay, NEW t \in Tag
  PROVE  DropBlock(ToRemote(f, m, delay), t) = ToRemote(DropBlock(f, t), m, delay)
BY DEF DropBlock, ToRemote, CacheObject

LEMMA RespondInvalidateOwns ==
  ASSUME CacheAssumptions, OwnershipOK, NEW R, Sending \subseteq R, NEW W, NEW c, CacheInv(c, R, W),
         NEW t \in Tag, NEW p, NewIs(t, p, c), NEW G, OwnInv(c, G),
         NEW d, d = RespondedInvalidate(c, p, t)
  PROVE  OwnInv(d, G)
<1> DEFINE f == Responding(c, p, t)
           m == InvalidateResponse(t, DataGoes(c, t))
           h == DropBlock(f, t)
           g == ToRemote(h, m, invalidateTime)
           x == FALSE
           r == Read(t, x, NoID)
<1>1. c \in CacheObject(R)
  BY DEF CacheInv, BlocksInv
<1>2. /\ CacheInv(f, R, W) /\ f.toRemote = c.toRemote /\ f.blocks = c.blocks
      /\ \A s \in Tag : f.pendingEviction[s] = NoBlock \/ f.pendingEviction[s] = c.pendingEviction[s]
      /\ c.blocks[t] = NoBlock => f.pendingEviction[t] = NoBlock
  BY RespondingKeeps
<1>3. f \in CacheObject(R)
  BY <1>2 DEF CacheInv, BlocksInv
<1>4. d = g \/ d = ToRemote(g, r, invalidateTime)
  <2> DEFINE k == DropBlock(ToRemote(f, m, invalidateTime), t)
  <2>1. d = k \/ d = ToRemote(k, r, invalidateTime)
    BY <1>1, RespondInvalidateIs
  <2>2. k = g
    <3> HIDE DEF f, m
    <3> QED
      BY <1>3, DropAfterSending
  <2> HIDE DEF k, g, r
  <2> QED
    BY <2>1, <2>2
<1>5. m \in R /\ m.tag = t /\ r \in R /\ ~GivesUp(r) /\ invalidateTime \in Delay
  <2>1. x \in BOOLEAN /\ DataGoes(c, t) \in BOOLEAN
    BY DataGoesOrNot
  <2> DEFINE a == DataGoes(c, t)
  <2>2. a \in BOOLEAN /\ m = InvalidateResponse(t, a)
    BY <2>1
  <2> HIDE DEF a, m, x
  <2> QED
    BY <2>1, <2>2 DEF Sending, Answering, Asking, Delay, InvalidateResponse, Read, GivesUp
<1> HIDE DEF f, m, r, x
<1>6. OwnInv(f, G) /\ f.pendingEviction[t] = NoBlock
  <2>1. EvictedIsGone(f)
    BY <1>2 DEF OwnInv, EvictedIsGone
  <2>2. \A s \in Tag : Owns(f, s) => Owns(c, s)
    BY <1>2 DEF Owns, IsOwned
  <2>3. c.blocks[t] # NoBlock => c.pendingEviction[t] = NoBlock
    BY DEF OwnInv, EvictedIsGone
  <2> QED
    BY <1>2, <2>1, <2>2, <2>3, OwnsNoMore
<1>7. OwnInv(h, G) /\ ~Owns(h, t)
  BY <1>2, <1>6, DropBlockOwns
<1>8. h \in CacheObject(R)
  BY <1>2, DropBlockKeeps DEF CacheInv, BlocksInv
<1> HIDE DEF h
<1>9. OwnInv(g, G)
  BY <1>5, <1>7, <1>8, SendOwns
<1>10. g \in CacheObject(R)
  BY <1>5, <1>8, SendRemote
<1> HIDE DEF g
<1>11. CASE d = ToRemote(g, r, invalidateTime)
  BY <1>5, <1>9, <1>10, <1>11, SendOwns
<1> QED
  BY <1>4, <1>9, <1>11

LEMMA RemoteInvalidateOwns ==
  ASSUME CacheAssumptions, OwnershipOK, NEW R, Sending \subseteq R, NEW W, NEW c, CacheInv(c, R, W),
         NEW m, m.tag \in Tag, NEW G, OwnInv(c, G), NEW d \in OnRemoteInvalidate(c, m)
  PROVE  OwnInv(d, G)
<1> DEFINE t == m.tag
           p == c.pendingInvalidate \cup {t}
           e == WithInvalidates(c, p)
<1>1. c \in CacheObject(R) /\ t \in Tag
  BY DEF CacheInv, BlocksInv
<1>2. NewIs(t, p, c)
  BY <1>1 DEF CacheObject, NewIs
<1>3. d = c \/ d = RespondedInvalidate(c, p, t) \/ d = ToLocal(e, Invalidate(t), 0)
  BY DEF OnRemoteInvalidate, WithInvalidates, RespondedInvalidate
<1> HIDE DEF t, p
<1>4. CASE d = RespondedInvalidate(c, p, t)
  BY <1>1, <1>2, <1>4, RespondInvalidateOwns
<1>5. CASE d = ToLocal(e, Invalidate(t), 0)
  <2>1. d.blocks = c.blocks /\ d.pendingEviction = c.pendingEviction /\ d.toRemote = c.toRemote
    BY <1>1, <1>5 DEF ToLocal, WithInvalidates, CacheObject
  <2> QED
    BY <2>1, WaitersOwnNothing
<1> QED
  BY <1>3, <1>4, <1>5
-----------------------------------------------------------------------------
(* The messages from above.  Dirty data makes nothing the cache's own.      *)
LEMMA MergedIsNoMore ==
  ASSUME OwnershipOK, NEW b \in UsedBlock, NoBlock \notin UsedBlock
  PROVE  IsOwned(MergeDirty(b)) => IsOwned(b)
<1>1. MergeDirty(b).state = class.AfterMerge[b.state]
  BY DEF MergeDirty, UsedBlock
<1>2. b.state \in Valid \cup {"Invalid"} /\ b # NoBlock
  BY DEF UsedBlock
<1> QED
  BY <1>1, <1>2 DEF IsOwned, OwnershipOK

LEMMA MergeOwns ==
  ASSUME CacheAssumptions, OwnershipOK, NEW R, NEW W, NEW c, CacheInv(c, R, W), NEW t \in Tag,
         c.blocks[t] # NoBlock, NEW G, OwnInv(c, G),
         NEW d, d = [c EXCEPT !.blocks[t] = MergeDirty(@)]
  PROVE  OwnInv(d, G)
<1>1. c \in CacheObject(R) /\ c.blocks[t] \in UsedBlock
  BY DEF CacheInv, BlocksInv, CacheObject, Frame
<1>2. SameBut(c, d, t) /\ d.toRemote = c.toRemote
  BY MergeKeeps
<1>3. d.blocks[t] = MergeDirty(c.blocks[t])
  BY <1>1 DEF CacheObject
<1>4. IsOwned(d.blocks[t]) => IsOwned(c.blocks[t])
  BY <1>1, <1>3, UsedIsNoNoBlock, MergedIsNoMore
<1> QED
  BY <1>2, <1>4, ChangeOwns

LEMMA LocalEvictionOwns ==
  ASSUME CacheAssumptions, OwnershipOK, NEW R, NEW W, NEW c, CacheInv(c, R, W),
         NEW m, m.tag \in Tag, NEW G, OwnInv(c, G), NEW d \in OnLocalEviction(c, m)
  PROVE  OwnInv(d, G)
<1> DEFINE t == m.tag
<1>1. d = c \/ (c.blocks[t] # NoBlock /\ d = [c EXCEPT !.blocks[t] = MergeDirty(@)])
  BY DEF OnLocalEviction
<1>2. t \in Tag
  OBVIOUS
<1> HIDE DEF t
<1> QED
  BY <1>1, <1>2, MergeOwns

LEMMA MergedOwns ==
  ASSUME CacheAssumptions, OwnershipOK, NEW R, NEW W, NEW c, CacheInv(c, R, W),
         NEW m, m.tag \in Tag, NEW G, OwnInv(c, G), NEW d, d = Merged(c, m)
  PROVE  OwnInv(d, G)
<1> DEFINE t == m.tag
           v == c.pendingEviction[t]
           f == MergeDirty(v)
<1>1. c \in CacheObject(R) /\ t \in Tag
  BY DEF CacheInv, BlocksInv
<1>2. \/ d = c
      \/ v # NoBlock /\ d = [c EXCEPT !.pendingEviction[t] = f]
      \/ c.blocks[t] # NoBlock /\ d = [c EXCEPT !.blocks[t] = MergeDirty(@)]
  BY <1>1 DEF Merged, CacheObject
<1> HIDE DEF t
<1>3. CASE v # NoBlock /\ d = [c EXCEPT !.pendingEviction[t] = f]
  <2>1. v \in UsedBlock
    BY <1>1, <1>3 DEF CacheObject, Frame
  <2>2. IsOwned(f) => IsOwned(v)
    BY <2>1, UsedIsNoNoBlock, MergedIsNoMore
  <2> HIDE DEF f
  <2>3. /\ d.blocks = c.blocks /\ d.toRemote = c.toRemote
        /\ d.pendingEviction[t] = f /\ \A s \in Tag \ {t} : d.pendingEviction[s] = c.pendingEviction[s]
    BY <1>1, <1>3 DEF CacheObject
  <2>4. EvictedIsGone(d) /\ \A s \in Tag : Owns(d, s) => Owns(c, s)
    BY <1>3, <2>2, <2>3 DEF OwnInv, EvictedIsGone, Owns
  <2> QED
    BY <2>3, <2>4, OwnsNoMore
<1>4. CASE c.blocks[t] # NoBlock /\ d = [c EXCEPT !.blocks[t] = MergeDirty(@)]
  BY <1>1, <1>4, MergeOwns
<1> QED
  BY <1>2, <1>3, <1>4
(* What is left of c when the level above has dropped t.                    *)
AfterDrop(c, m) ==
  IF m.tag \in c.pendingInvalidate THEN RespondInvalidate(Merged(c, m), m.tag) ELSE Merged(c, m)

LEMMA AfterDropOwns ==
  ASSUME CacheAssumptions, OwnershipOK, NEW R, Sending \subseteq R, NEW W, NEW c, CacheInv(c, R, W),
         NEW m, m.tag \in Tag, NEW G, OwnInv(c, G), NEW f, f = AfterDrop(c, m)
  PROVE  OwnInv(f, G) /\ CacheInv(f, R, W)
<1> DEFINE t == m.tag
           e == Merged(c, m)
           p == e.pendingInvalidate
<1>1. t \in Tag
  OBVIOUS
<1>2. CacheInv(e, R, W) /\ OwnInv(e, G) /\ e.pendingInvalidate = c.pendingInvalidate
  BY MergedKeeps, MergedOwns
<1>3. f = IF t \in c.pendingInvalidate THEN RespondInvalidate(e, t) ELSE e
  BY DEF AfterDrop
<1> HIDE DEF e, t, p
<1>4. CASE t \in c.pendingInvalidate
  <2>1. e \in CacheObject(R) /\ p \in SUBSET Tag /\ p \ {t} \subseteq p /\ p = e.pendingInvalidate
    BY <1>2 DEF CacheInv, BlocksInv, CacheObject, p
  <2>2. WithInvalidates(e, p) = e
    BY <2>1 DEF WithInvalidates, CacheObject
  <2>3. f = RespondedInvalidate(e, p, t)
    BY <1>3, <1>4, <2>2 DEF RespondedInvalidate
  <2>4. NewIs(t, p, e)
    BY <2>1 DEF NewIs
  <2> QED
    BY <1>1, <1>2, <2>3, <2>4, RespondInvalidateKeeps, RespondInvalidateOwns
<1>5. CASE t \notin c.pendingInvalidate
  BY <1>2, <1>3, <1>5
<1> QED
  BY <1>4, <1>5

LEMMA LocalInvalidateResponseOwns ==
  ASSUME CacheAssumptions, OwnershipOK, NEW R, Sending \subseteq R, NEW W, NEW c, CacheInv(c, R, W),
         NEW m, m.tag \in Tag, NEW G, OwnInv(c, G), NEW d \in OnLocalInvalidateResponse(c, m)
  PROVE  OwnInv(d, G)
<1> DEFINE t == m.tag
           f == AfterDrop(c, m)
           x == Eviction(t, f.pendingEviction[t].state \in class.Dirty)
           g == [f EXCEPT !.pendingEviction[t] = NoBlock]
<1>1. c \in CacheObject(R) /\ t \in Tag
  BY DEF CacheInv, BlocksInv
<1>2. d \in IF t \in c.canceledBlockEviction THEN {[c EXCEPT !.canceledBlockEviction = @ \ {t}]}
            ELSE IF f.pendingEviction[t] = NoBlock THEN {f}
            ELSE {ToRemote(g, x, evictionTime)}
  BY DEF OnLocalInvalidateResponse, Merged, AfterDrop
<1>3. OwnInv(f, G) /\ CacheInv(f, R, W)
  BY AfterDropOwns
<1> HIDE DEF t, f
<1>4. CASE d = [c EXCEPT !.canceledBlockEviction = @ \ {t}]
  <2>1. d.blocks = c.blocks /\ d.pendingEviction = c.pendingEviction /\ d.toRemote = c.toRemote
    BY <1>1, <1>4 DEF CacheObject
  <2> QED
    BY <2>1, WaitersOwnNothing
<1>5. CASE d = ToRemote(g, x, evictionTime) /\ f.pendingEviction[t] # NoBlock
  <2>1. f \in CacheObject(R) /\ f.blocks[t] = NoBlock
    BY <1>1, <1>3, <1>5 DEF CacheInv, BlocksInv, OwnInv, EvictedIsGone
  <2>2. /\ g.blocks = f.blocks /\ g.toRemote = f.toRemote /\ g.pendingEviction[t] = NoBlock
        /\ \A s \in Tag \ {t} : g.pendingEviction[s] = f.pendingEviction[s]
    BY <1>1, <2>1 DEF CacheObject
  <2>3. g \in CacheObject(R)
    BY <2>1 DEF CacheObject, Frame
  <2>4. x \in R /\ x.tag = t /\ evictionTime \in Delay
    <3> DEFINE a == f.pendingEviction[t].state \in class.Dirty
    <3>1. a \in BOOLEAN /\ x = Eviction(t, a)
      OBVIOUS
    <3> HIDE DEF a, x
    <3> QED
      BY <1>1, <3>1 DEF Sending, Asking, Delay, Eviction
  <2> HIDE DEF g, x
  <2>5. EvictedIsGone(g) /\ \A s \in Tag : Owns(g, s) => Owns(f, s)
    BY <1>1, <1>3, <2>2 DEF OwnInv, EvictedIsGone, Owns, IsOwned
  <2>6. OwnInv(g, G)
    BY <1>3, <2>2, <2>5, OwnsNoMore
  <2>7. ~Owns(g, t)
    BY <2>1, <2>2 DEF Owns, IsOwned
  <2> QED
    BY <1>5, <2>3, <2>4, <2>6, <2>7, SendOwns
<1> QED
  BY <1>2, <1>3, <1>4, <1>5
(* The reads from below that waited; x has topCache, R, W and G.            *)
OwningRead(x, k, a) == Reading(x, k, a) /\ OwnInv(a, x[4])

LEMMA AllReadOwns ==
  ASSUME CacheAssumptions, OwnershipOK, NEW R, Sending \subseteq R, NEW W, NEW c, CacheInv(c, R, W),
         NEW G, OwnInv(c, G), NEW q \in Seq(ReadMsg), NEW d, d = AllRead(c, q)
  PROVE  OwnInv(d, G)
<1> DEFINE x == <<c.topCache, R, W, G>>
           n == Len(q)
<1>1. x[1] = c.topCache /\ x[2] = R /\ x[3] = W /\ x[4] = G
  OBVIOUS
<1>2. n \in Nat /\ DOMAIN q = 1..n /\ \A k \in 1..n : q[k] \in ReadMsg
  OBVIOUS
<1> HIDE DEF x, n
<1>3. OwningRead(x, 0, c)
  BY <1>1 DEF OwningRead, Reading
<1>4. ASSUME NEW a, NEW k \in 1..n, OwningRead(x, k-1, a)
      PROVE  OwningRead(x, k, PerformRemoteRead(a, q[k]))
  <2> DEFINE e == PerformRemoteRead(a, q[k])
  <2>1. CacheInv(a, R, W) /\ a.topCache = c.topCache /\ OwnInv(a, G) /\ q[k] \in ReadMsg
    BY <1>1, <1>2, <1>4 DEF OwningRead, Reading
  <2>2. CacheInv(e, R, W) /\ e.topCache = a.topCache
    BY <2>1, PerformRemoteReadKeeps
  <2>3. OwnInv(e, G)
    BY <2>1, PerformRemoteReadOwns
  <2> HIDE DEF e
  <2>4. OwningRead(x, k, e)
    BY <1>1, <2>1, <2>2, <2>3 DEF OwningRead, Reading
  <2> QED
    BY <2>4 DEF e
<1>5. PICK h : N!Passes(h, c, q, n)
  BY <1>2, N!FoldPasses
<1> DEFINE Done == {k \in 0..n : OwningRead(x, k, h[k])}
<1>6. n \in Done
  <2>1. 0 \in Done
    BY <1>2, <1>3, <1>5 DEF N!Passes
  <2>2. ASSUME NEW k \in 1..n, k-1 \in Done
        PROVE  k \in Done
    <3>1. h[k] = PerformRemoteRead(h[k-1], q[k]) /\ k \in 0..n /\ OwningRead(x, k-1, h[k-1])
      BY <2>2, <1>5 DEF N!Passes
    <3>2. OwningRead(x, k, h[k])
      BY <1>4, <3>1
    <3> QED
      BY <3>1, <3>2
  <2> HIDE DEF Done
  <2> QED
    BY <1>2, <2>1, <2>2, N!UpToTheEnd
<1>7. OwningRead(x, n, d)
  BY <1>5, <1>6, AllReadIsFold DEF N!Passes
<1> QED
  BY <1>1, <1>7 DEF OwningRead

LEMMA LocalReadResponseOwns ==
  ASSUME CacheAssumptions, OwnershipOK, NEW R, Sending \subseteq R, NEW W, NEW c, CacheInv(c, R, W),
         NEW m, m.tag \in Tag, NEW G, OwnInv(c, G), NEW d \in OnLocalReadResponse(c, m)
  PROVE  OwnInv(d, G)
<1> DEFINE t == m.tag
           w == c.waitingOnRemoteReads[t]
           z == <<>>
           e == [c EXCEPT !.waitingOnRemoteReads = [c.waitingOnRemoteReads EXCEPT ![t] = z]]
<1>1. c \in CacheObject(R) /\ t \in Tag
  BY DEF CacheInv, BlocksInv
<1>2. w \in Seq(ReadMsg)
  BY <1>1 DEF CacheObject
<1>3. d = AllRead(e, w)
  BY DEF OnLocalReadResponse, AllRead
<1>4. z \in Seq(ReadMsg) /\ (\A k \in DOMAIN z : z[k].tag = t) /\ (c.topCache => z = <<>>)
  OBVIOUS
<1> HIDE DEF t, z, w
<1>5. e.blocks = c.blocks /\ e.pendingEviction = c.pendingEviction /\ e.toRemote = c.toRemote
  BY <1>1 DEF CacheObject
<1>6. CacheInv(e, R, W) /\ e.topCache = c.topCache
  BY <1>1, <1>4, RemoteReadersKeep
<1> HIDE DEF e
<1>7. OwnInv(e, G)
  BY <1>5, WaitersOwnNothing
<1> QED
  BY <1>2, <1>3, <1>6, <1>7, AllReadOwns
-----------------------------------------------------------------------------
(* RecvMsg, and the start.                                                  *)
LEMMA FromLocalOwns ==
  ASSUME CacheAssumptions, OwnershipOK, NEW R, Sending \subseteq R, NEW W, NEW c, CacheInv(c, R, W),
         NEW m \in Request \cup Sending, NEW G, OwnInv(c, G), NEW d \in FromLocal(c, m)
  PROVE  OwnInv(d, G)
<1>1. m.tag \in Tag
  BY TagsOfMessages
<1>2. CASE m.type \in {"Read", "Write"}
  <2>1. d \in OnLocalRequest(c, m)
    BY <1>2 DEF FromLocal
  <2>2. m \in Request /\ Asking \subseteq R
    BY <1>2, WritesAreRequests DEF Sending
  <2> QED
    BY <2>1, <2>2, LocalRequestOwns
<1>3. CASE m.type = "ReadResponse"
  <2>1. d \in OnLocalReadResponse(c, m)
    BY <1>3 DEF FromLocal
  <2> QED
    BY <1>1, <2>1, LocalReadResponseOwns
<1>4. CASE m.type = "Eviction"
  <2>1. d \in OnLocalEviction(c, m)
    BY <1>4 DEF FromLocal
  <2> QED
    BY <1>1, <2>1, LocalEvictionOwns
<1>5. CASE m.type = "InvalidateResponse"
  <2>1. d \in OnLocalInvalidateResponse(c, m)
    BY <1>5 DEF FromLocal
  <2> QED
    BY <1>1, <2>1, LocalInvalidateResponseOwns
<1>6. m.type \in {"Read", "Write", "ReadResponse", "Eviction", "InvalidateResponse"}
  BY DEF Request, ReadMsg, Sending, Asking, Answering, Response, Read, Eviction, InvalidateResponse
<1> QED
  BY <1>2, <1>3, <1>4, <1>5, <1>6

(* The requests of a directory: reads and invalidates.                      *)
LEMMA FromRemoteOwns ==
  ASSUME CacheAssumptions, OwnershipOK, NEW R, Sending \subseteq R, NEW W, NEW c, CacheInv(c, R, W),
         NEW m \in UpMsg, m.type # "ReadResponse", NEW attached,
         NEW G, OwnInv(c, G), NEW d \in FromRemote(c, m, attached)
  PROVE  OwnInv(d, G)
<1>1. m.tag \in Tag /\ m.type # "Eviction" /\ (m.type = "Read" => m \in ReadMsg)
  BY TagsOfMessages, ReadsAreReads DEF UpMsg, Response, Written, ReadMsg, Invalidate
<1>2. CASE m.type = "Read"
  <2>1. d \in OnRemoteRead(c, m) /\ m \in ReadMsg
    BY <1>1, <1>2 DEF FromRemote
  <2> QED
    BY <2>1, RemoteReadOwns
<1>3. CASE m.type = "Invalidate"
  <2>1. d \in OnRemoteInvalidate(c, m)
    BY <1>3 DEF FromRemote
  <2> QED
    BY <1>1, <2>1, RemoteInvalidateOwns
<1>4. CASE m.type \notin {"Read", "Invalidate"}
  BY <1>1, <1>4 DEF FromRemote
<1> QED
  BY <1>2, <1>3, <1>4

LEMMA NewCacheOwns ==
  ASSUME NEW top, NEW c, c = NewCache(top), NEW G
  PROVE  OwnInv(c, G)
BY DEF NewCache, OwnInv, EvictedIsGone, Owns, IsOwned

(* The outboxes are emptied: what was not given up in them is left.         *)
LEMMA EmptiedOwns ==
  ASSUME NEW R, NEW c \in CacheObject(R), NEW G, OwnInv(c, G), NEW d, d = WithoutMessages(c),
         NEW H, \A t \in Tag : t \in G /\ ~GivenUp(c, t) => t \in H
  PROVE  OwnInv(d, H)
<1>1. d.blocks = c.blocks /\ d.pendingEviction = c.pendingEviction /\ d.toRemote = <<>>
  BY DEF WithoutMessages, CacheObject
<1>2. \A t \in Tag : ~GivenUp(d, t) /\ (Owns(d, t) <=> Owns(c, t))
  BY <1>1 DEF GivenUp, Owns
<1> QED
  BY <1>1, <1>2 DEF OwnInv, EvictedIsGone
-----------------------------------------------------------------------------
(* Service: what was asked of a cache is not forgotten.  A read from above  *)
(* waits for its block or for a frame, or its answer is in the outbox.      *)
Said(c, type, t) == \E k \in DOMAIN c.toLocal : c.toLocal[k].msg.type = type /\ c.toLocal[k].msg.tag = t

WaitsForFrame(c, t) == \E k \in DOMAIN c.waitingOnSetUnlock : c.waitingOnSetUnlock[k].tag = t

Attends(c, t) ==
  c.waitingOnBlockUnlock[t] # <<>> \/ WaitsForFrame(c, t) \/ Said(c, "ReadResponse", t)

ReadsOnly(c) ==
  /\ \A t \in Tag : c.waitingOnBlockUnlock[t] \in Seq(ReadMsg)
  /\ c.waitingOnSetUnlock \in Seq(ReadMsg)

(* The tags of G are attended to, and r are the reads from below that wait  *)
(* for the level above.                                                     *)
ServeInv(c, G, r) ==
  /\ G \subseteq Tag
  /\ ReadsOnly(c)
  /\ c.waitingOnRemoteReads = r
  /\ \A t \in G : Attends(c, t)

SameWaiters(c, d) ==
  /\ d.waitingOnBlockUnlock = c.waitingOnBlockUnlock
  /\ d.waitingOnSetUnlock = c.waitingOnSetUnlock
  /\ d.waitingOnRemoteReads = c.waitingOnRemoteReads

SaysNoLess(c, d) == \A type, t : Said(c, type, t) => Said(d, type, t)

LEMMA SaysMore ==
  ASSUME NEW S, NEW c, c.toLocal \in Seq(S), NEW e \in S, NEW d, d.toLocal = Append(c.toLocal, e)
  PROVE  SaysNoLess(c, d) /\ Said(d, e.msg.type, e.msg.tag)
<1> DEFINE s == c.toLocal
           u == d.toLocal
<1>1. s \in Seq(S) /\ u = Append(s, e)
  OBVIOUS
<1>2. /\ DOMAIN s = 1..Len(s) /\ Len(s) \in Nat /\ DOMAIN u = 1..(Len(s) + 1)
      /\ \A k \in 1..Len(s) : u[k] = s[k]
      /\ u[Len(s) + 1] = e
  <2> HIDE DEF s, u
  <2>1. u \in Seq(S) /\ Len(u) = Len(s) + 1
    BY <1>1, AppendTyped
  <2> QED
    BY <1>1, <2>1, AppendTyped, Elements
<1> HIDE DEF s, u
<1>3. \A k \in DOMAIN s : k \in DOMAIN u /\ u[k] = s[k]
  BY <1>2
<1>4. Len(s) + 1 \in DOMAIN u
  BY <1>2
<1> QED
  BY <1>2, <1>3, <1>4 DEF SaysNoLess, Said, s, u

LEMMA SaysTheSame ==
  ASSUME NEW c, NEW d, d.toLocal = c.toLocal
  PROVE  SaysNoLess(c, d)
BY DEF SaysNoLess, Said

LEMMA ServesOn ==
  ASSUME NEW c, NEW G, NEW r, ServeInv(c, G, r), NEW d, SameWaiters(c, d), SaysNoLess(c, d)
  PROVE  ServeInv(d, G, r)
<1>1. ReadsOnly(d) /\ d.waitingOnRemoteReads = r
  BY DEF ServeInv, ReadsOnly, SameWaiters
<1>2. \A t \in G : Attends(d, t)
  BY DEF ServeInv, SameWaiters, SaysNoLess, Attends, WaitsForFrame
<1> QED
  BY <1>1, <1>2 DEF ServeInv

(* What a handler does to the members that are not about waiting.           *)
Waiting == {"waitingOnBlockUnlock", "waitingOnSetUnlock", "waitingOnRemoteReads", "toLocal"}

Quiet(c, d) ==
  /\ Waiting \subseteq DOMAIN d
  /\ SameWaiters(c, d)
  /\ d.toLocal = c.toLocal

LEMMA ObjectsWait == \A R : \A c \in CacheObject(R) : Waiting \subseteq DOMAIN c
BY DEF CacheObject, Waiting

(* A message is sent to the level above.                                   *)
LEMMA SendLocalServes ==
  ASSUME NEW R, NEW c \in CacheObject(R), NEW e, Waiting \subseteq DOMAIN e, e.toLocal = c.toLocal,
         NEW G, NEW r, ServeInv(e, G, r), NEW m \in UpMsg, NEW delay \in Delay,
         NEW d, d = ToLocal(e, m, delay)
  PROVE  ServeInv(d, G, r) /\ Said(d, m.type, m.tag)
<1> DEFINE o == [msg |-> m, delay |-> delay]
           S == [msg : UpMsg, delay : Delay]
<1>1. o \in S /\ o.msg = m
  OBVIOUS
<1>2. e.toLocal \in Seq(S)
  BY DEF CacheObject, Outbox
<1>3. SameWaiters(e, d) /\ d.toLocal = Append(e.toLocal, o)
  BY DEF ToLocal, SameWaiters, Waiting
<1> HIDE DEF o, S
<1>4. SaysNoLess(e, d) /\ Said(d, o.msg.type, o.msg.tag)
  BY <1>1, <1>2, <1>3, SaysMore
<1> QED
  BY <1>1, <1>3, <1>4, ServesOn

LEMMA QuietIsTransitive == \A c, d, e : Quiet(c, d) /\ Quiet(d, e) => Quiet(c, e)
BY DEF Quiet, SameWaiters

LEMMA QuietServes ==
  ASSUME NEW c, NEW G, NEW r, ServeInv(c, G, r), NEW d, Quiet(c, d)
  PROVE  ServeInv(d, G, r)
BY SaysTheSame, ServesOn DEF Quiet

LEMMA ToRemoteIsQuiet ==
  ASSUME NEW c, Waiting \subseteq DOMAIN c, NEW m, NEW delay
  PROVE  Quiet(c, ToRemote(c, m, delay))
BY DEF ToRemote, Quiet, SameWaiters, Waiting

LEMMA BlockIsQuiet ==
  ASSUME NEW c, Waiting \subseteq DOMAIN c, NEW t, NEW b
  PROVE  Quiet(c, WithBlock(c, t, b))
BY DEF WithBlock, Quiet, SameWaiters, Waiting

LEMMA DropIsQuiet ==
  ASSUME NEW c, Waiting \subseteq DOMAIN c, NEW t
  PROVE  Quiet(c, DropBlock(c, t))
BY DEF DropBlock, Quiet, SameWaiters, Waiting
-----------------------------------------------------------------------------
(* Requests from above.                                                     *)
LEMMA PerformServes ==
  ASSUME CacheAssumptions, NEW R, Asking \subseteq R, NEW c \in CacheObject(R),
         NEW m \in ReadMsg, NEW t \in Tag, t = m.tag, c.blocks[t] \in UsedBlock,
         NEW G, NEW r, ServeInv(c, G, r), NEW d, d = Perform(c, m)
  PROVE  ServeInv(d, G \cup {t}, r)
<1>1. /\ m \in Request /\ m.type = "Read" /\ d = PerformRead(c, m)
      /\ m.exclusive \in BOOLEAN /\ m.id \in IDs
  BY DEF Perform, Request, ReadMsg
<1>2. SameBut(c, d, t) /\ (Answered(c, d, t) \/ MadeToWait(c, d, t, m))
  BY <1>1, PerformResult
<1>3. CASE c.blocks[t].state = "Invalid" \/ (m.exclusive /\ c.blocks[t].state \in class.NeedsExclusive)
  <2>1. d = Miss(c, m, m.exclusive)
    BY <1>1, <1>3 DEF PerformRead
  <2>2. d.toLocal = c.toLocal
    BY <2>1 DEF Miss, ToRemote, CacheObject
  <2>3. d.waitingOnBlockUnlock[t] = Append(c.waitingOnBlockUnlock[t], m)
    <3>1. c.waitingOnBlockUnlock \in [Tag -> Seq(Request)]
      BY DEF CacheObject
    <3> QED
      BY <2>1, <3>1 DEF Miss, ToRemote, CacheObject
  <2>4. c.waitingOnBlockUnlock[t] \in Seq(ReadMsg)
    BY DEF ServeInv, ReadsOnly
  <2>5. d.waitingOnBlockUnlock[t] \in Seq(ReadMsg) /\ d.waitingOnBlockUnlock[t] # <<>>
    BY <2>3, <2>4, AppendTyped
  <2>6. ReadsOnly(d)
    BY <1>2, <2>5 DEF ServeInv, ReadsOnly, SameBut
  <2>7. \A s \in G \cup {t} : Attends(d, s)
    <3>1. SaysNoLess(c, d)
      BY <2>2, SaysTheSame
    <3>2. Attends(d, t)
      BY <2>5 DEF Attends
    <3>3. \A s \in G : s # t => Attends(d, s)
      BY <1>2, <3>1 DEF ServeInv, SameBut, SaysNoLess, Attends, WaitsForFrame
    <3> QED
      BY <3>2, <3>3
  <2> QED
    BY <1>2, <2>6, <2>7 DEF ServeInv, SameBut
<1>4. CASE ~(c.blocks[t].state = "Invalid" \/ (m.exclusive /\ c.blocks[t].state \in class.NeedsExclusive))
  <2> DEFINE a == ReadResponse(m, TRUE, c.blocks[t].state \in class.GrantsExclusive)
  <2>1. d = ToLocal(c, a, hitTime)
    BY <1>1, <1>4 DEF PerformRead
  <2>2. a \in UpMsg /\ a.type = "ReadResponse" /\ a.tag = t /\ hitTime \in Delay
    BY <1>1 DEF ReadResponse, UpMsg, Response, Delay
  <2> HIDE DEF a
  <2>3. ServeInv(d, G, r) /\ Said(d, "ReadResponse", t)
    BY <2>1, <2>2, ObjectsWait, SendLocalServes
  <2> QED
    BY <2>3 DEF ServeInv, Attends
<1> QED
  BY <1>3, <1>4

LEMMA PrepareServes ==
  ASSUME NEW R, NEW c \in CacheObject(R), NEW G, NEW r, ServeInv(c, G, r),
         NEW t \in Tag, NEW d, d = PrepareFreshBlock(c, t)
  PROVE  ServeInv(d, G, r)
<1>1. Quiet(c, d)
  BY ObjectsWait DEF PrepareFreshBlock, Quiet, SameWaiters, Waiting
<1> QED
  BY <1>1, QuietServes

LEMMA TakeFrameServes ==
  ASSUME NEW R, NEW c \in CacheObject(R), NEW G, NEW r, ServeInv(c, G, r),
         NEW t, NEW v \in Tag, NEW d, d = TakeFrame(c, v, t)
  PROVE  ServeInv(d, G, r)
<1> DEFINE e == [c EXCEPT !.blocks[v] = NoBlock]
           f == [e EXCEPT !.pendingEviction[v] = c.blocks[v]]
<1>1. Waiting \subseteq DOMAIN c
  BY ObjectsWait
<1>2. Quiet(c, e)
  BY <1>1 DEF Quiet, SameWaiters, Waiting
<1>3. Quiet(e, f)
  <2>1. Waiting \subseteq DOMAIN e
    BY <1>2 DEF Quiet
  <2> HIDE DEF e
  <2> QED
    BY <2>1 DEF Quiet, SameWaiters, Waiting
<1>4. d = IF c.topCache THEN ToRemote(e, Eviction(v, c.blocks[v].written), evictionTime)
          ELSE IF t \in c.pendingInvalidate THEN f ELSE ToLocal(f, Invalidate(v), invalidateTime)
  BY DEF TakeFrame
<1> HIDE DEF e, f
<1>5. Quiet(c, f)
  BY <1>2, <1>3, QuietIsTransitive
<1>6. CASE c.topCache
  <2>1. Quiet(e, d)
    BY <1>2, <1>4, <1>6, ToRemoteIsQuiet DEF Quiet
  <2> QED
    BY <1>2, <2>1, QuietIsTransitive, QuietServes
<1>7. CASE ~c.topCache /\ t \in c.pendingInvalidate
  BY <1>4, <1>5, <1>7, QuietServes
<1>8. CASE ~c.topCache /\ t \notin c.pendingInvalidate
  <2> DEFINE m == Invalidate(v)
  <2>1. m \in UpMsg /\ invalidateTime \in Delay /\ d = ToLocal(f, m, invalidateTime)
    BY <1>4, <1>8 DEF UpMsg, Delay
  <2>2. ServeInv(f, G, r) /\ Waiting \subseteq DOMAIN f /\ f.toLocal = c.toLocal
    BY <1>5, QuietServes DEF Quiet
  <2> HIDE DEF m
  <2> QED
    BY <2>1, <2>2, SendLocalServes
<1> QED
  BY <1>6, <1>7, <1>8

LEMMA LocalRequestServes ==
  ASSUME CacheAssumptions, NEW R, Asking \subseteq R, NEW W, NEW c, CacheInv(c, R, W),
         NEW G, NEW r, ServeInv(c, G, r), NEW m \in ReadMsg, NEW d \in OnLocalRequest(c, m)
  PROVE  ServeInv(d, G \cup {m.tag}, r)
<1> DEFINE t == m.tag
<1>1. c \in CacheObject(R) /\ BlocksInv(c, R, W) /\ t \in Tag
  BY DEF CacheInv, BlocksInv, ReadMsg
<1>2. ASSUME NEW e, BlocksInv(e, R, W), HasFreeFrame(e), e.blocks[t] = NoBlock, ServeInv(e, G, r)
      PROVE  ServeInv(Perform(PrepareFreshBlock(e, t), m), G \cup {t}, r)
  <2> DEFINE f == PrepareFreshBlock(e, t)
  <2>1. t = m.tag /\ e \in CacheObject(R)
    BY <1>2 DEF BlocksInv
  <2> HIDE DEF t
  <2>2. ReadyFor(f, t, R, W)
    BY <1>1, <1>2, PrepareMakesReady
  <2>3. ServeInv(f, G, r)
    BY <1>1, <1>2, <2>1, PrepareServes
  <2> HIDE DEF f
  <2>4. f \in CacheObject(R) /\ f.blocks[t] \in UsedBlock
    BY <2>2 DEF ReadyFor
  <2>5. ServeInv(Perform(f, m), G \cup {t}, r)
    BY <1>1, <2>1, <2>3, <2>4, PerformServes
  <2> QED
    BY <2>5 DEF f
<1>3. CASE c.blocks[t] # NoBlock
  <2>1. d = Perform(c, m) /\ t = m.tag
    BY <1>3 DEF OnLocalRequest
  <2>2. c.blocks[t] \in UsedBlock
    BY <1>1, <1>3 DEF CacheObject, Frame
  <2> HIDE DEF t
  <2>3. ServeInv(d, G \cup {t}, r)
    BY <1>1, <2>1, <2>2, PerformServes
  <2> QED
    BY <2>1, <2>3
<1>4. CASE c.blocks[t] = NoBlock /\ HasFreeFrame(c)
  <2>1. d = Perform(PrepareFreshBlock(c, t), m)
    BY <1>4 DEF OnLocalRequest
  <2> QED
    BY <1>1, <1>2, <1>4, <2>1
<1>5. CASE c.blocks[t] = NoBlock /\ ~HasFreeFrame(c)
  <2>1. PICK v \in Evict(c) :
          d = IF v = NoBlock THEN [c EXCEPT !.waitingOnSetUnlock = Append(@, m)]
              ELSE Perform(PrepareFreshBlock(TakeFrame(c, v, t), t), m)
    BY <1>5 DEF OnLocalRequest
  <2>2. CASE v = NoBlock
    <3> DEFINE q == Append(c.waitingOnSetUnlock, m)
               w == c.waitingOnSetUnlock
    <3>1. d = [c EXCEPT !.waitingOnSetUnlock = q]
      BY <2>1, <2>2
    <3>2. w \in Seq(ReadMsg) /\ q = Append(w, m)
      BY DEF ServeInv, ReadsOnly
    <3> HIDE DEF q
    <3>3. /\ d.waitingOnBlockUnlock = c.waitingOnBlockUnlock
          /\ d.waitingOnRemoteReads = c.waitingOnRemoteReads
          /\ d.waitingOnSetUnlock = q /\ d.toLocal = c.toLocal
      BY <1>1, <3>1 DEF CacheObject
    <3> HIDE DEF w
    <3>4. /\ q \in Seq(ReadMsg) /\ q[Len(w) + 1] = m /\ DOMAIN q = 1..(Len(w) + 1)
          /\ DOMAIN w = 1..Len(w) /\ Len(w) \in Nat /\ \A k \in 1..Len(w) : q[k] = w[k]
      BY <3>2, AppendTyped, Elements
    <3>5. Len(w) + 1 \in DOMAIN q /\ \A k \in DOMAIN w : k \in DOMAIN q /\ q[k] = w[k]
      BY <3>4
    <3>6. WaitsForFrame(d, t) /\ \A s : WaitsForFrame(c, s) => WaitsForFrame(d, s)
      BY <3>3, <3>4, <3>5 DEF WaitsForFrame, w
    <3>7. ReadsOnly(d)
      BY <3>3, <3>4 DEF ServeInv, ReadsOnly
    <3>8. SaysNoLess(c, d)
      BY <3>3, SaysTheSame
    <3> QED
      BY <1>1, <3>3, <3>6, <3>7, <3>8 DEF ServeInv, SaysNoLess, Attends
  <2>3. CASE v # NoBlock
    <3> DEFINE e == TakeFrame(c, v, t)
    <3>1. v \in Victims(c) /\ v \in Tag
      BY <2>3 DEF Evict, Victims, Held
    <3>2. d = Perform(PrepareFreshBlock(e, t), m)
      BY <2>1, <2>3
    <3>3. t \in Tag /\ e = TakeFrame(c, v, t) /\ c.blocks[t] = NoBlock
      BY <1>1, <1>5
    <3> HIDE DEF e, t
    <3>4. BlocksInv(e, R, W) /\ HasFreeFrame(e) /\ e.blocks[t] = NoBlock
      BY <1>1, <3>1, <3>3, TakeFrameFrees
    <3>5. ServeInv(e, G, r)
      BY <1>1, <3>1, <3>3, TakeFrameServes
    <3>6. ServeInv(d, G \cup {t}, r)
      BY <1>2, <3>2, <3>4, <3>5
    <3> QED
      BY <3>6 DEF t
  <2> QED
    BY <2>2, <2>3
<1> QED
  BY <1>3, <1>4, <1>5
-----------------------------------------------------------------------------
(* UnlockBlock, by its two folds; x as for Performing, with the tags that   *)
(* are attended to and the reads from below that wait.                      *)
ServingPerformed(x, k, a) ==
  Performing(x, k, a) /\ ServeInv(a, IF k = 0 THEN x[6] ELSE x[6] \cup {x[2]}, x[7])

LEMMA PerformedServes ==
  ASSUME CacheAssumptions, NEW R, Asking \subseteq R, NEW W, NEW c, NEW t \in Tag,
         ReadyFor(c, t, R, W), InvalidIsLocked(c), NEW G, NEW r, ServeInv(c, G, r),
         NEW q \in Seq(ReadMsg), q # <<>>, \A k \in DOMAIN q : q[k].tag = t
  PROVE  ServeInv(Performed(c, q), G \cup {t}, r)
<1> DEFINE x == <<c, t, q, R, W, G, r>>
           n == Len(q)
<1>1. x[1] = c /\ x[2] = t /\ x[4] = R /\ x[5] = W /\ x[6] = G /\ x[7] = r
  OBVIOUS
<1>2. n \in Nat /\ n # 0 /\ DOMAIN q = 1..n /\ \A k \in 1..n : q[k] \in ReadMsg /\ q[k].tag = t
  OBVIOUS
<1> HIDE DEF x, n
<1>3. ServingPerformed(x, 0, c)
  BY <1>1 DEF ServingPerformed, Performing, SameBut
<1>4. ASSUME NEW a, NEW k \in 1..n, ServingPerformed(x, k-1, a)
      PROVE  ServingPerformed(x, k, Perform(a, q[k]))
  <2> DEFINE d == Perform(a, q[k])
             H == IF k-1 = 0 THEN G ELSE G \cup {t}
  <2>1. ReadyFor(a, t, R, W) /\ SameBut(c, a, t) /\ ServeInv(a, H, r)
    BY <1>1, <1>4 DEF ServingPerformed, Performing
  <2>2. q[k] \in ReadMsg /\ q[k] \in Request /\ t = q[k].tag
    BY <1>2 DEF Request
  <2>3. BlocksInv(d, R, W) /\ SameBut(a, d, t) /\ d.blocks[t] \in UsedBlock
    BY <2>1, <2>2, PerformSettles
  <2>4. a \in CacheObject(R) /\ a.blocks[t] \in UsedBlock
    BY <2>1 DEF ReadyFor
  <2>5. k # 0 /\ H \cup {t} = G \cup {t}
    BY <1>2
  <2> HIDE DEF H
  <2>6. ServeInv(d, H \cup {t}, r)
    BY <2>1, <2>2, <2>4, PerformServes
  <2> HIDE DEF d
  <2>7. ReadyFor(d, t, R, W) /\ InvalidIsLocked(d)
    BY <2>3 DEF BlocksInv, ReadyFor, InvalidIsLocked
  <2>8. SameBut(c, d, t)
    BY <2>1, <2>3 DEF SameBut
  <2>9. ServingPerformed(x, k, d)
    BY <1>1, <2>5, <2>6, <2>7, <2>8 DEF ServingPerformed, Performing
  <2> QED
    BY <2>9 DEF d
<1>5. PICK h : P!Passes(h, c, q, n)
  BY <1>2, P!FoldPasses
<1> DEFINE Done == {k \in 0..n : ServingPerformed(x, k, h[k])}
<1>6. n \in Done
  <2>1. 0 \in Done
    BY <1>2, <1>3, <1>5 DEF P!Passes
  <2>2. ASSUME NEW k \in 1..n, k-1 \in Done
        PROVE  k \in Done
    <3>1. h[k] = Perform(h[k-1], q[k]) /\ k \in 0..n /\ ServingPerformed(x, k-1, h[k-1])
      BY <2>2, <1>5 DEF P!Passes
    <3>2. ServingPerformed(x, k, h[k])
      BY <1>4, <3>1
    <3> QED
      BY <3>1, <3>2
  <2> HIDE DEF Done
  <2> QED
    BY <1>2, <2>1, <2>2, P!UpToTheEnd
<1>7. ServingPerformed(x, n, Performed(c, q))
  BY <1>5, <1>6, PerformedIsFold DEF P!Passes
<1> QED
  BY <1>1, <1>2, <1>7 DEF ServingPerformed

(* The tags of the first k requests of q.                                   *)
FirstTags(q, k) == {q[j].tag : j \in 1..k}

(* x has R, W, topCache, the tags, the reads from below and the requests.   *)
ServingRemade(x, k, S) ==
  Remaking(x, k, S) /\ \A e \in S : ServeInv(e, x[4] \cup FirstTags(x[6], k), x[5])

LEMMA AllMadeAgainServes ==
  ASSUME CacheAssumptions, NEW R, Asking \subseteq R, NEW W, NEW c, CacheInv(c, R, W),
         NEW G, NEW r, ServeInv(c, G, r), NEW q \in Seq(ReadMsg),
         NEW S, S = {c}, NEW d \in AllMadeAgain(S, q)
  PROVE  ServeInv(d, G \cup FirstTags(q, Len(q)), r)
<1> DEFINE x == <<R, W, c.topCache, G, r, q>>
           n == Len(q)
<1>1. x[1] = R /\ x[2] = W /\ x[3] = c.topCache /\ x[4] = G /\ x[5] = r /\ x[6] = q
  OBVIOUS
<1>2. n \in Nat /\ DOMAIN q = 1..n /\ \A k \in 1..n : q[k] \in ReadMsg /\ q[k] \in Request
  BY DEF Request
<1> HIDE DEF x, n
<1>3. ServingRemade(x, 0, S)
  <2>1. G \cup FirstTags(q, 0) = G
    BY DEF FirstTags
  <2> QED
    BY <1>1, <2>1 DEF ServingRemade, Remaking
<1>4. ASSUME NEW a, NEW k \in 1..n, ServingRemade(x, k-1, a)
      PROVE  ServingRemade(x, k, MadeAgain(a, q[k]))
  <2> DEFINE H == G \cup FirstTags(q, k-1)
             m == q[k]
  <2>0. H \cup {m.tag} = G \cup FirstTags(q, k)
    <3>1. FirstTags(q, k) = FirstTags(q, k-1) \cup {q[k].tag}
      <4>1. 1..k = (1..(k-1)) \cup {k}
        BY <1>2
      <4> QED
        BY <4>1 DEF FirstTags
    <3> QED
      BY <3>1
  <2>1. SUFFICES ASSUME NEW f \in MadeAgain(a, q[k])
                 PROVE  CacheInv(f, R, W) /\ f.topCache = c.topCache /\ ServeInv(f, H \cup {m.tag}, r)
    BY <1>1, <2>0 DEF ServingRemade, Remaking
  <2>2. PICK e \in a : f \in OnLocalRequest(e, m)
    BY DEF MadeAgain
  <2>3. CacheInv(e, R, W) /\ e.topCache = c.topCache /\ ServeInv(e, H, r)
    BY <1>1, <1>4 DEF ServingRemade, Remaking
  <2>4. m \in ReadMsg /\ m \in Request
    BY <1>2
  <2> HIDE DEF H, m
  <2>5. CacheInv(f, R, W) /\ f.topCache = e.topCache
    BY <2>2, <2>3, <2>4, LocalRequestKeeps
  <2>6. ServeInv(f, H \cup {m.tag}, r)
    BY <2>2, <2>3, <2>4, LocalRequestServes
  <2> QED
    BY <2>3, <2>5, <2>6
<1>5. PICK h : A!Passes(h, S, q, n)
  BY <1>2, A!FoldPasses
<1> DEFINE Done == {k \in 0..n : ServingRemade(x, k, h[k])}
<1>6. n \in Done
  <2>1. 0 \in Done
    <3>1. h[0] = S /\ 0 \in 0..n
      BY <1>2, <1>5 DEF A!Passes
    <3>2. ServingRemade(x, 0, h[0])
      BY <1>3, <3>1, Zenon
    <3> QED
      BY <3>1, <3>2
  <2>2. ASSUME NEW k \in 1..n, k-1 \in Done
        PROVE  k \in Done
    <3>1. h[k] = MadeAgain(h[k-1], q[k]) /\ k \in 0..n /\ ServingRemade(x, k-1, h[k-1])
      BY <2>2, <1>5 DEF A!Passes
    <3>2. ServingRemade(x, k, h[k])
      BY <1>4, <3>1
    <3> QED
      BY <3>1, <3>2
  <2> HIDE DEF Done
  <2> QED
    BY <1>2, <2>1, <2>2, A!UpToTheEnd
<1>7. ServingRemade(x, n, AllMadeAgain(S, q))
  BY <1>5, <1>6, AllMadeAgainIsFold DEF A!Passes
<1> QED
  BY <1>1, <1>7 DEF ServingRemade, n

LEMMA ServesFewer ==
  ASSUME NEW c, NEW G, NEW r, ServeInv(c, G, r), NEW H, H \subseteq G
  PROVE  ServeInv(c, H, r)
BY DEF ServeInv

LEMMA UnlockedServes ==
  ASSUME NEW R, NEW c \in CacheObject(R), NEW t \in Tag, NEW G, NEW r, ServeInv(c, G, r),
         NEW d, d = Unlocked(c, t)
  PROVE  ServeInv(d, G \ {t}, r)
<1> DEFINE w == [c.waitingOnBlockUnlock EXCEPT ![t] = <<>>]
<1>1. /\ d.waitingOnBlockUnlock = w /\ d.waitingOnSetUnlock = c.waitingOnSetUnlock
      /\ d.waitingOnRemoteReads = c.waitingOnRemoteReads /\ d.toLocal = c.toLocal
  BY DEF Unlocked, CacheObject
<1>2. w[t] = <<>> /\ \A s \in Tag \ {t} : w[s] = c.waitingOnBlockUnlock[s]
  BY DEF CacheObject
<1>3. <<>> \in Seq(ReadMsg)
  OBVIOUS
<1> HIDE DEF w
<1>4. ReadsOnly(d)
  BY <1>1, <1>2, <1>3 DEF ServeInv, ReadsOnly
<1>5. \A s \in G \ {t} : Attends(d, s)
  <2>1. SaysNoLess(c, d)
    BY <1>1, SaysTheSame
  <2> QED
    BY <1>1, <1>2, <2>1 DEF ServeInv, SaysNoLess, Attends, WaitsForFrame
<1> QED
  BY <1>1, <1>4, <1>5 DEF ServeInv

(* Nobody waits for a frame any more: those for whom that was all are not   *)
(* attended to until they are made again.                                   *)
LEMMA NobodyLeftServes ==
  ASSUME NEW R, NEW c \in CacheObject(R), NEW G, NEW r, ServeInv(c, G, r),
         NEW q, q = c.waitingOnSetUnlock, NEW d, d = [c EXCEPT !.waitingOnSetUnlock = <<>>]
  PROVE  \E H : /\ ServeInv(d, H, r)
                /\ q \in Seq(ReadMsg) /\ G \subseteq H \cup FirstTags(q, Len(q))
<1> DEFINE H == {s \in G : Attends(d, s)}
<1>1. /\ d.waitingOnBlockUnlock = c.waitingOnBlockUnlock
      /\ d.waitingOnRemoteReads = c.waitingOnRemoteReads /\ d.toLocal = c.toLocal
      /\ d.waitingOnSetUnlock = <<>>
  BY DEF CacheObject
<1>2. <<>> \in Seq(ReadMsg)
  OBVIOUS
<1>3. ServeInv(d, H, r)
  BY <1>1, <1>2 DEF ServeInv, ReadsOnly
<1>4. q \in Seq(ReadMsg)
  BY DEF ServeInv, ReadsOnly
<1>5. ASSUME NEW s \in G, ~Attends(d, s)
      PROVE  s \in FirstTags(q, Len(q))
  <2>1. SaysNoLess(c, d)
    BY <1>1, SaysTheSame
  <2>2. WaitsForFrame(c, s)
    BY <1>1, <1>5, <2>1 DEF ServeInv, SaysNoLess, Attends
  <2>3. DOMAIN q = 1..Len(q)
    BY <1>4
  <2> QED
    BY <2>2, <2>3 DEF WaitsForFrame, FirstTags
<1> QED
  BY <1>3, <1>4, <1>5

LEMMA UnlockBlockServes ==
  ASSUME CacheAssumptions, NEW R, Asking \subseteq R, NEW W, NEW c, CacheInv(c, R, W),
         NEW t \in Tag, c.blocks[t] \in UsedBlock, c.blocks[t].state # "Invalid",
         c.waitingOnBlockUnlock[t] # <<>>,
         NEW G, NEW r, ServeInv(c, G, r), NEW d \in UnlockBlock(c, t)
  PROVE  ServeInv(d, G, r)
<1> DEFINE u == Unlocked(c, t)
           q == c.waitingOnBlockUnlock[t]
           e == Performed(u, q)
           f == [e EXCEPT !.waitingOnSetUnlock = <<>>]
           V == W \ {t}
           S == {f}
           w == e.waitingOnSetUnlock
<1>1. c \in CacheObject(R) /\ BlocksInv(c, R, W)
  BY DEF CacheInv, BlocksInv
<1>2. /\ q \in Seq(Request) /\ q \in Seq(ReadMsg) /\ q # <<>>
      /\ \A k \in DOMAIN q : q[k].tag = t
  BY <1>1 DEF CacheObject, BlocksInv, Sorted, ServeInv, ReadsOnly
<1>3. d \in IF e.blocks[t].locked THEN {e} ELSE AllMadeAgain(S, w)
  BY UnlockBlockIs
<1>4. ReadyFor(u, t, R, V) /\ InvalidIsLocked(u)
  BY <1>1, UnlockedIsReady
<1> DEFINE F == G \ {t}
<1>5. ServeInv(u, F, r)
  BY <1>1, UnlockedServes
<1>6. G \subseteq F \cup {t}
  OBVIOUS
<1> HIDE DEF u, q, V, F
<1>7. ReadyFor(e, t, R, V) /\ InvalidIsLocked(e) /\ ServeInv(e, F \cup {t}, r)
  BY <1>2, <1>4, <1>5, PerformedKeeps, PerformedServes
<1> HIDE DEF e
<1>8. ServeInv(e, G, r)
  BY <1>6, <1>7, ServesFewer
<1>9. BlocksInv(e, R, V) /\ e \in CacheObject(R) /\ w = e.waitingOnSetUnlock
  BY <1>7 DEF ReadyFor, BlocksInv
<1>10. CacheInv(f, R, V)
  BY <1>9, NobodyLeft
<1>11. f = [e EXCEPT !.waitingOnSetUnlock = <<>>] /\ S = {f}
  OBVIOUS
<1> HIDE DEF f, S, w
<1>12. PICK H : ServeInv(f, H, r) /\ w \in Seq(ReadMsg) /\ G \subseteq H \cup FirstTags(w, Len(w))
  BY <1>8, <1>9, <1>11, NobodyLeftServes
<1>13. ASSUME NEW g \in AllMadeAgain(S, w)
       PROVE  ServeInv(g, G, r)
  <2>1. ServeInv(g, H \cup FirstTags(w, Len(w)), r)
    BY <1>10, <1>11, <1>12, AllMadeAgainServes
  <2> QED
    BY <1>12, <2>1, ServesFewer
<1> QED
  BY <1>3, <1>8, <1>13
-----------------------------------------------------------------------------
(* The messages from below, but for reads: nobody is forgotten.             *)
LEMMA RemoteReadResponseServes ==
  ASSUME CacheAssumptions, NEW R, Asking \subseteq R, NEW W, NEW c, CacheInv(c, R, W),
         NEW m, m.tag \in Tag, NEW attached,
         NEW G, NEW r, ServeInv(c, G, r), NEW d \in OnRemoteReadResponse(c, m, attached)
  PROVE  ServeInv(d, G, r)
<1> DEFINE t == m.tag
           e == Filled(c, m)
<1>1. c \in CacheObject(R) /\ BlocksInv(c, R, W) /\ Waiting \subseteq DOMAIN c
  BY ObjectsWait DEF CacheInv, BlocksInv
<1>2. CASE ~IsAwaited(c, m)
  <2> DEFINE x == Eviction(t, attached)
  <2>1. d = IF class.EvictsSurplus THEN ToRemote(c, x, evictionTime) ELSE c
    BY <1>2, RemoteReadResponseIs
  <2> HIDE DEF x
  <2>2. Quiet(c, ToRemote(c, x, evictionTime))
    BY <1>1, ToRemoteIsQuiet
  <2>3. ServeInv(ToRemote(c, x, evictionTime), G, r)
    BY <2>2, QuietServes
  <2> QED
    BY <2>1, <2>3
<1>3. CASE IsAwaited(c, m)
  <2>1. CacheInv(e, R, W) /\ e.blocks[t] \in UsedBlock /\ e.blocks[t].state # "Invalid"
    BY <1>3, FilledKeeps
  <2>2. d \in UnlockBlock(e, t) /\ t \in Tag
    BY <1>3, RemoteReadResponseIs
  <2>3. Quiet(c, e)
    BY <1>1, BlockIsQuiet DEF Filled
  <2>4. c.waitingOnBlockUnlock[t] # <<>>
    BY <1>1, <1>3 DEF IsAwaited, BlocksInv, LockedIffWaiting
  <2> HIDE DEF e, t
  <2>5. ServeInv(e, G, r) /\ e.waitingOnBlockUnlock[t] # <<>>
    BY <2>3, <2>4, QuietServes DEF Quiet, SameWaiters
  <2> QED
    BY <2>1, <2>2, <2>5, UnlockBlockServes
<1> QED
  BY <1>2, <1>3

LEMMA RespondInvalidateIsQuiet ==
  ASSUME NEW R, NEW c \in CacheObject(R), NEW t \in Tag, NEW p, NEW d, d = RespondedInvalidate(c, p, t)
  PROVE  Quiet(c, d)
<1> DEFINE f == Responding(c, p, t)
           m == InvalidateResponse(t, DataGoes(c, t))
           g == ToRemote(f, m, invalidateTime)
           h == DropBlock(g, t)
           x == Read(t, FALSE, NoID)
           j == ToRemote(h, x, invalidateTime)
<1>1. d = IF c.waitingOnBlockUnlock[t] # <<>> THEN j ELSE h
  BY RespondInvalidateIs
<1>2. Waiting \subseteq DOMAIN c
  BY ObjectsWait
<1>3. Quiet(c, f)
  BY <1>2 DEF Responding, WithPending, Quiet, SameWaiters, Waiting
<1> HIDE DEF f, m, x
<1>4. Quiet(f, g)
  BY <1>3, ToRemoteIsQuiet DEF Quiet
<1> HIDE DEF g
<1>5. Quiet(g, h)
  BY <1>4, DropIsQuiet DEF Quiet
<1> HIDE DEF h
<1>6. Quiet(h, j)
  BY <1>5, ToRemoteIsQuiet DEF Quiet
<1> HIDE DEF j
<1>7. Quiet(c, h)
  BY <1>3, <1>4, <1>5, QuietIsTransitive
<1>8. Quiet(c, j)
  BY <1>6, <1>7, QuietIsTransitive
<1> QED
  BY <1>1, <1>7, <1>8

LEMMA RemoteInvalidateServes ==
  ASSUME NEW R, NEW c \in CacheObject(R), NEW m, m.tag \in Tag,
         NEW G, NEW r, ServeInv(c, G, r), NEW d \in OnRemoteInvalidate(c, m)
  PROVE  ServeInv(d, G, r)
<1> DEFINE t == m.tag
           p == c.pendingInvalidate \cup {t}
           e == WithInvalidates(c, p)
<1>1. d \in IF t \in c.pendingInvalidate THEN {c}
            ELSE IF c.topCache \/ c.blocks[t] = NoBlock THEN {RespondedInvalidate(c, p, t)}
            ELSE {ToLocal(e, Invalidate(t), 0)}
  BY DEF OnRemoteInvalidate, WithInvalidates, RespondedInvalidate
<1>2. t \in Tag
  OBVIOUS
<1> HIDE DEF t, p
<1>3. CASE d = c
  BY <1>3
<1>4. CASE d = RespondedInvalidate(c, p, t)
  BY <1>2, <1>4, RespondInvalidateIsQuiet, QuietServes
<1>5. CASE d = ToLocal(e, Invalidate(t), 0)
  <2> DEFINE i == Invalidate(t)
             z == 0
  <2>1. i \in UpMsg /\ z \in Delay /\ d = ToLocal(e, i, z)
    BY <1>2, <1>5 DEF UpMsg, Delay
  <2>2. Quiet(c, e)
    BY ObjectsWait DEF WithInvalidates, Quiet, SameWaiters, Waiting
  <2> HIDE DEF i, z, e
  <2>3. ServeInv(e, G, r) /\ Waiting \subseteq DOMAIN e /\ e.toLocal = c.toLocal
    BY <2>2, QuietServes DEF Quiet
  <2> QED
    BY <2>1, <2>3, SendLocalServes
<1> QED
  BY <1>1, <1>3, <1>4, <1>5
-----------------------------------------------------------------------------
(* Reads from below: answered, or waiting for the level above, which is     *)
(* asked.                                                                   *)
Sent(c, type, t) == \E k \in DOMAIN c.toRemote : c.toRemote[k].msg.type = type /\ c.toRemote[k].msg.tag = t

LEMMA RespondsIsSent ==
  ASSUME NEW R, NEW c \in CacheObject(R), NEW m, NEW d, Responds(c, d, m), d \in CacheObject(R)
  PROVE  Sent(d, "ReadResponse", m.tag)
<1>1. PICK s, x \in BOOLEAN :
        d.toRemote = Append(c.toRemote, [msg |-> ReadResponse(m, s, x), delay |-> hitTime])
  BY DEF Responds
<1> DEFINE q == c.toRemote
           a == ReadResponse(m, s, x)
           e == [msg |-> a, delay |-> hitTime]
           u == d.toRemote
           S == [msg : R, delay : Delay]
<1>2. u = Append(q, e) /\ q \in Seq(S) /\ e.msg = a
  BY <1>1 DEF CacheObject, Outbox
<1>3. a.type = "ReadResponse" /\ a.tag = m.tag
  BY DEF ReadResponse
<1> HIDE DEF q, a, e, u, S
<1>4. Len(q)+1 \in DOMAIN u /\ u[Len(q)+1] = e
  BY <1>2
<1> QED
  BY <1>2, <1>3, <1>4 DEF Sent, u

LEMMA PerformRemoteReadIsQuiet ==
  ASSUME NEW c, Waiting \subseteq DOMAIN c, NEW m, NEW d, d = PerformRemoteRead(c, m)
  PROVE  Quiet(c, d)
<1> DEFINE x == ReadResponse(m, FALSE, FALSE)
           y == ReadResponse(m, TRUE, m.exclusive)
           e == IF m.exclusive THEN DropBlock(c, m.tag)
                ELSE [c EXCEPT !.blocks[m.tag].state = class.AfterRead[@]]
<1>1. d = ToRemote(c, x, hitTime) \/ d = ToRemote(e, y, hitTime)
  BY DEF PerformRemoteRead
<1>2. Quiet(c, e)
  <2>1. CASE m.exclusive
    BY <2>1, DropIsQuiet
  <2>2. CASE ~m.exclusive
    BY <2>2 DEF Quiet, SameWaiters, Waiting
  <2> QED
    BY <2>1, <2>2
<1> HIDE DEF x, y, e
<1>3. Quiet(e, ToRemote(e, y, hitTime)) /\ Quiet(c, ToRemote(c, x, hitTime))
  BY <1>2, ToRemoteIsQuiet DEF Quiet
<1>4. Quiet(c, ToRemote(e, y, hitTime))
  BY <1>2, <1>3, QuietIsTransitive
<1> QED
  BY <1>1, <1>3, <1>4

(* m waits in s, where r waited.                                            *)
WaitsToo(r, s, t) == s[t] # <<>> /\ \A u \in Tag \ {t} : s[u] = r[u]

LEMMA RemoteReadServes ==
  ASSUME CacheAssumptions, NEW R, Sending \subseteq R, NEW W, NEW c, CacheInv(c, R, W),
         NEW G, NEW r, ServeInv(c, G, r), NEW m \in ReadMsg, NEW d \in OnRemoteRead(c, m)
  PROVE  \/ ServeInv(d, G, r) /\ Sent(d, "ReadResponse", m.tag)
         \/ \E s : ServeInv(d, G, s) /\ WaitsToo(r, s, m.tag) /\ Said(d, "Read", m.tag)
<1> DEFINE t == m.tag
           b == c.blocks[t]
           here == \/ b = NoBlock \/ c.topCache \/ b.state = "Invalid"
                   \/ ~m.exclusive /\ b.state \in class.NeedsExclusive
<1>1. c \in CacheObject(R) /\ Waiting \subseteq DOMAIN c
  BY ObjectsWait DEF CacheInv, BlocksInv
<1>2. t \in Tag /\ m.exclusive \in BOOLEAN /\ hitTime \in Delay
  BY DEF ReadMsg, Delay
<1>3. CASE here
  <2>1. d = PerformRemoteRead(c, m)
    BY <1>3 DEF OnRemoteRead
  <2>2. CacheInv(d, R, W) /\ Responds(c, d, m)
    BY <2>1, PerformRemoteReadKeeps
  <2>3. d \in CacheObject(R)
    BY <2>2 DEF CacheInv, BlocksInv
  <2>4. Sent(d, "ReadResponse", t)
    BY <1>1, <2>2, <2>3, RespondsIsSent
  <2>5. ServeInv(d, G, r)
    BY <1>1, <2>1, PerformRemoteReadIsQuiet, QuietServes
  <2> QED
    BY <2>4, <2>5
<1>4. CASE ~here
  <2> DEFINE w == c.waitingOnRemoteReads
             q == Append(w[t], m)
             s == [w EXCEPT ![t] = q]
             e == [c EXCEPT !.waitingOnRemoteReads = s]
             x == Read(t, m.exclusive, NoID)
  <2>1. d = ToLocal(e, x, hitTime)
    BY <1>4 DEF OnRemoteRead
  <2>2. w \in [Tag -> Seq(ReadMsg)] /\ w = r
    BY <1>1 DEF CacheObject, ServeInv
  <2>3. q # <<>>
    BY <1>2, <2>2, AppendTyped
  <2>4. x \in UpMsg /\ x.type = "Read" /\ x.tag = t
    BY <1>2 DEF Read, UpMsg, ReadMsg, IDs
  <2> HIDE DEF q, x
  <2>5. WaitsToo(r, s, t)
    BY <1>2, <2>2, <2>3 DEF WaitsToo
  <2> HIDE DEF s
  <2>6. /\ e.waitingOnBlockUnlock = c.waitingOnBlockUnlock /\ e.waitingOnSetUnlock = c.waitingOnSetUnlock
        /\ e.waitingOnRemoteReads = s /\ e.toLocal = c.toLocal /\ Waiting \subseteq DOMAIN e
    BY <1>1 DEF Waiting
  <2> HIDE DEF e
  <2>7. ServeInv(e, G, s)
    <3>1. SaysNoLess(c, e)
      BY <2>6, SaysTheSame
    <3> QED
      BY <2>6, <3>1 DEF ServeInv, ReadsOnly, SaysNoLess, Attends, WaitsForFrame
  <2>8. ServeInv(d, G, s) /\ Said(d, "Read", t)
    BY <1>1, <1>2, <2>1, <2>4, <2>6, <2>7, SendLocalServes
  <2> QED
    BY <2>5, <2>8
<1> QED
  BY <1>3, <1>4

(* The reads of tag t that waited; x has topCache, R, W, the tags, the      *)
(* reads that still wait, and t.                                            *)
ServingRead(x, k, a) ==
  /\ Reading(x, k, a)
  /\ ServeInv(a, x[4], x[5])
  /\ k # 0 => Sent(a, "ReadResponse", x[6])

LEMMA AllReadServes ==
  ASSUME CacheAssumptions, NEW R, Sending \subseteq R, NEW W, NEW c, CacheInv(c, R, W),
         NEW G, NEW r, ServeInv(c, G, r), NEW t, NEW q \in Seq(ReadMsg),
         \A k \in DOMAIN q : q[k].tag = t, NEW d, d = AllRead(c, q)
  PROVE  ServeInv(d, G, r) /\ (q # <<>> => Sent(d, "ReadResponse", t))
<1> DEFINE x == <<c.topCache, R, W, G, r, t>>
           n == Len(q)
<1>1. x[1] = c.topCache /\ x[2] = R /\ x[3] = W /\ x[4] = G /\ x[5] = r /\ x[6] = t
  OBVIOUS
<1>2. /\ n \in Nat /\ DOMAIN q = 1..n /\ \A k \in 1..n : q[k] \in ReadMsg /\ q[k].tag = t
      /\ q # <<>> => n # 0
  OBVIOUS
<1> HIDE DEF x, n
<1>3. ServingRead(x, 0, c)
  BY <1>1 DEF ServingRead, Reading
<1>4. ASSUME NEW a, NEW k \in 1..n, ServingRead(x, k-1, a)
      PROVE  ServingRead(x, k, PerformRemoteRead(a, q[k]))
  <2> DEFINE e == PerformRemoteRead(a, q[k])
             m == q[k]
  <2>1. CacheInv(a, R, W) /\ a.topCache = c.topCache /\ ServeInv(a, G, r) /\ m \in ReadMsg /\ m.tag = t
    BY <1>1, <1>2, <1>4 DEF ServingRead, Reading
  <2>2. e = PerformRemoteRead(a, m)
    OBVIOUS
  <2> HIDE DEF e, m
  <2>3. CacheInv(e, R, W) /\ e.topCache = a.topCache /\ Responds(a, e, m)
    BY <2>1, <2>2, PerformRemoteReadKeeps
  <2>4. a \in CacheObject(R) /\ e \in CacheObject(R) /\ Waiting \subseteq DOMAIN a
    BY <2>1, <2>3, ObjectsWait DEF CacheInv, BlocksInv
  <2>5. ServeInv(e, G, r)
    BY <2>1, <2>2, <2>4, PerformRemoteReadIsQuiet, QuietServes
  <2>6. Sent(e, "ReadResponse", t)
    BY <2>1, <2>3, <2>4, RespondsIsSent
  <2>7. ServingRead(x, k, e)
    BY <1>1, <2>1, <2>3, <2>5, <2>6 DEF ServingRead, Reading
  <2> QED
    BY <2>7 DEF e
<1>5. PICK h : N!Passes(h, c, q, n)
  BY <1>2, N!FoldPasses
<1> DEFINE Done == {k \in 0..n : ServingRead(x, k, h[k])}
<1>6. n \in Done
  <2>1. 0 \in Done
    BY <1>2, <1>3, <1>5 DEF N!Passes
  <2>2. ASSUME NEW k \in 1..n, k-1 \in Done
        PROVE  k \in Done
    <3>1. h[k] = PerformRemoteRead(h[k-1], q[k]) /\ k \in 0..n /\ ServingRead(x, k-1, h[k-1])
      BY <2>2, <1>5 DEF N!Passes
    <3>2. ServingRead(x, k, h[k])
      BY <1>4, <3>1
    <3> QED
      BY <3>1, <3>2
  <2> HIDE DEF Done
  <2> QED
    BY <1>2, <2>1, <2>2, N!UpToTheEnd
<1>7. ServingRead(x, n, d)
  BY <1>5, <1>6, AllReadIsFold DEF N!Passes
<1> QED
  BY <1>1, <1>2, <1>7 DEF ServingRead

(* No read of tag t waits in s, where r waited.                             *)
WaitsNoMore(r, s, t) == s[t] = <<>> /\ \A u \in Tag \ {t} : s[u] = r[u]

LEMMA LocalReadResponseServes ==
  ASSUME CacheAssumptions, NEW R, Sending \subseteq R, NEW W, NEW c, CacheInv(c, R, W),
         NEW m, m.tag \in Tag, NEW G, NEW r, ServeInv(c, G, r), NEW d \in OnLocalReadResponse(c, m)
  PROVE  \E s : /\ ServeInv(d, G, s) /\ WaitsNoMore(r, s, m.tag)
                /\ r[m.tag] # <<>> => Sent(d, "ReadResponse", m.tag)
<1> DEFINE t == m.tag
           w == c.waitingOnRemoteReads[t]
           z == <<>>
           s == [c.waitingOnRemoteReads EXCEPT ![t] = z]
           e == [c EXCEPT !.waitingOnRemoteReads = s]
<1>1. c \in CacheObject(R) /\ t \in Tag /\ Waiting \subseteq DOMAIN c /\ BlocksInv(c, R, W)
  BY ObjectsWait DEF CacheInv, BlocksInv
<1>2. w \in Seq(ReadMsg) /\ w = r[t] /\ \A k \in DOMAIN w : w[k].tag = t
  BY <1>1 DEF CacheObject, ServeInv, BlocksInv, Sorted
<1>3. d = AllRead(e, w)
  BY DEF OnLocalReadResponse, AllRead
<1>4. z \in Seq(ReadMsg) /\ (\A k \in DOMAIN z : z[k].tag = t) /\ (c.topCache => z = <<>>)
  OBVIOUS
<1>5. WaitsNoMore(r, s, t)
  BY <1>1 DEF CacheObject, ServeInv, WaitsNoMore
<1> HIDE DEF z, w
<1>6. CacheInv(e, R, W)
  <2> HIDE DEF t
  <2> QED
    BY <1>1, <1>4, RemoteReadersKeep
<1> HIDE DEF s
<1>7. /\ e.waitingOnBlockUnlock = c.waitingOnBlockUnlock /\ e.waitingOnSetUnlock = c.waitingOnSetUnlock
      /\ e.waitingOnRemoteReads = s /\ e.toLocal = c.toLocal
  BY <1>1 DEF Waiting
<1> HIDE DEF e
<1>8. ServeInv(e, G, s)
  <2>1. SaysNoLess(c, e)
    BY <1>7, SaysTheSame
  <2> QED
    BY <1>7, <2>1 DEF ServeInv, ReadsOnly, SaysNoLess, Attends, WaitsForFrame
<1>9. ServeInv(d, G, s) /\ (w # <<>> => Sent(d, "ReadResponse", t))
  BY <1>2, <1>3, <1>6, <1>8, AllReadServes
<1> QED
  BY <1>2, <1>5, <1>9
-----------------------------------------------------------------------------
(* What the level above gives back.                                         *)
LEMMA LocalEvictionServes ==
  ASSUME NEW R, NEW c \in CacheObject(R), NEW m, NEW G, NEW r, ServeInv(c, G, r),
         NEW d \in OnLocalEviction(c, m)
  PROVE  ServeInv(d, G, r)
<1>1. Waiting \subseteq DOMAIN c
  BY ObjectsWait
<1>2. d = c \/ d = [c EXCEPT !.blocks[m.tag] = MergeDirty(@)]
  BY DEF OnLocalEviction
<1>3. Quiet(c, d)
  BY <1>1, <1>2 DEF Quiet, SameWaiters, Waiting
<1> QED
  BY <1>3, QuietServes

LEMMA LocalInvalidateResponseServes ==
  ASSUME CacheAssumptions, NEW R, NEW W, NEW c, CacheInv(c, R, W), NEW m, m.tag \in Tag,
         NEW G, NEW r, ServeInv(c, G, r), NEW d \in OnLocalInvalidateResponse(c, m)
  PROVE  ServeInv(d, G, r)
<1> DEFINE t == m.tag
           e == Merged(c, m)
           f == IF t \in c.pendingInvalidate THEN RespondInvalidate(e, t) ELSE e
           l == [c EXCEPT !.canceledBlockEviction = @ \ {t}]
           g == [f EXCEPT !.pendingEviction[t] = NoBlock]
           x == Eviction(t, f.pendingEviction[t].state \in class.Dirty)
<1>1. c \in CacheObject(R) /\ t \in Tag /\ Waiting \subseteq DOMAIN c
  BY ObjectsWait DEF CacheInv, BlocksInv
<1>2. d = l \/ d = f \/ d = ToRemote(g, x, evictionTime)
  BY DEF OnLocalInvalidateResponse, Merged
<1>3. CacheInv(e, R, W)
  BY <1>1, MergedKeeps
<1>4. Quiet(c, l)
  BY <1>1 DEF Quiet, SameWaiters, Waiting
<1>5. Quiet(c, e)
  BY <1>1 DEF Merged, Quiet, SameWaiters, Waiting
<1> HIDE DEF l, e, x
<1>6. Quiet(c, f)
  <2>1. CASE t \in c.pendingInvalidate
    <3> DEFINE p == e.pendingInvalidate
    <3>1. e \in CacheObject(R)
      BY <1>3 DEF CacheInv, BlocksInv
    <3>2. WithInvalidates(e, p) = e
      BY <3>1 DEF WithInvalidates, CacheObject
    <3>3. f = RespondedInvalidate(e, p, t)
      BY <2>1, <3>2 DEF RespondedInvalidate
    <3> HIDE DEF f, p, t
    <3>4. Quiet(e, f)
      BY <1>1, <3>1, <3>3, RespondInvalidateIsQuiet
    <3> QED
      BY <1>5, <3>4, QuietIsTransitive
  <2>2. CASE t \notin c.pendingInvalidate
    BY <1>5, <2>2
  <2> QED
    BY <2>1, <2>2
<1> HIDE DEF f
<1>7. Quiet(f, g)
  BY <1>6 DEF Quiet, SameWaiters, Waiting
<1> HIDE DEF g
<1>8. Quiet(g, ToRemote(g, x, evictionTime))
  BY <1>7, ToRemoteIsQuiet DEF Quiet
<1>9. Quiet(c, ToRemote(g, x, evictionTime))
  BY <1>6, <1>7, <1>8, QuietIsTransitive
<1> QED
  BY <1>2, <1>4, <1>6, <1>9, QuietServes
-----------------------------------------------------------------------------
(* RecvMsg, and the start.  The level above sends reads, and no writes.     *)
LEMMA FromLocalServes ==
  ASSUME CacheAssumptions, NEW R, Sending \subseteq R, NEW W, NEW c, CacheInv(c, R, W),
         NEW m \in Sending, NEW G, NEW r, ServeInv(c, G, r), NEW d \in FromLocal(c, m)
  PROVE  \E s : /\ ServeInv(d, IF m.type = "Read" THEN G \cup {m.tag} ELSE G, s)
                /\ m.type # "ReadResponse" => s = r
                /\ m.type = "ReadResponse" =>
                     /\ WaitsNoMore(r, s, m.tag)
                     /\ r[m.tag] # <<>> => Sent(d, "ReadResponse", m.tag)
<1>1. m.tag \in Tag /\ c \in CacheObject(R)
  BY TagsOfMessages DEF CacheInv, BlocksInv
<1>2. CASE m.type = "Read"
  <2>1. d \in OnLocalRequest(c, m)
    BY <1>2 DEF FromLocal
  <2>2. m \in ReadMsg /\ Asking \subseteq R
    BY <1>2, ReadsAreReads DEF Sending
  <2>3. ServeInv(d, G \cup {m.tag}, r)
    BY <2>1, <2>2, LocalRequestServes
  <2> QED
    BY <1>2, <2>3
<1>3. CASE m.type = "ReadResponse"
  <2>1. d \in OnLocalReadResponse(c, m)
    BY <1>3 DEF FromLocal
  <2>2. PICK s : /\ ServeInv(d, G, s) /\ WaitsNoMore(r, s, m.tag)
                 /\ r[m.tag] # <<>> => Sent(d, "ReadResponse", m.tag)
    BY <1>1, <2>1, LocalReadResponseServes
  <2> QED
    BY <1>3, <2>2
<1>4. CASE m.type \in {"Eviction", "InvalidateResponse"}
  <2>1. d \in OnLocalEviction(c, m) \/ d \in OnLocalInvalidateResponse(c, m)
    BY <1>4 DEF FromLocal
  <2>2. ServeInv(d, G, r)
    BY <1>1, <2>1, LocalEvictionServes, LocalInvalidateResponseServes
  <2> QED
    BY <1>4, <2>2
<1>5. m.type \in {"Read", "ReadResponse", "Eviction", "InvalidateResponse"}
  BY DEF Sending, Asking, Answering, Response, Read, Eviction, InvalidateResponse
<1> QED
  BY <1>2, <1>3, <1>4, <1>5

LEMMA FromRemoteServes ==
  ASSUME CacheAssumptions, NEW R, Sending \subseteq R, NEW W, NEW c, CacheInv(c, R, W),
         NEW m \in UpMsg, NEW attached, NEW G, NEW r, ServeInv(c, G, r),
         NEW d \in FromRemote(c, m, attached)
  PROVE  \/ ServeInv(d, G, r) /\ (m.type = "Read" => Sent(d, "ReadResponse", m.tag))
         \/ \E s : /\ ServeInv(d, G, s) /\ m.type = "Read"
                   /\ WaitsToo(r, s, m.tag) /\ Said(d, "Read", m.tag)
<1>1. /\ m.tag \in Tag /\ m.type # "Eviction" /\ (m.type = "Read" => m \in ReadMsg)
      /\ c \in CacheObject(R) /\ Asking \subseteq R
  BY TagsOfMessages, ReadsAreReads
     DEF UpMsg, Response, Written, ReadMsg, Invalidate, CacheInv, BlocksInv, Sending
<1>2. CASE m.type = "Read"
  <2>1. d \in OnRemoteRead(c, m) /\ m \in ReadMsg
    BY <1>1, <1>2 DEF FromRemote
  <2>2. \/ ServeInv(d, G, r) /\ Sent(d, "ReadResponse", m.tag)
        \/ \E s : ServeInv(d, G, s) /\ WaitsToo(r, s, m.tag) /\ Said(d, "Read", m.tag)
    BY <2>1, RemoteReadServes
  <2> QED
    BY <1>2, <2>2
<1>3. CASE m.type = "ReadResponse"
  <2>1. d \in OnRemoteReadResponse(c, m, attached)
    BY <1>3 DEF FromRemote
  <2>2. ServeInv(d, G, r)
    BY <1>1, <2>1, RemoteReadResponseServes
  <2> QED
    BY <1>3, <2>2
<1>4. CASE m.type = "Invalidate"
  <2>1. d \in OnRemoteInvalidate(c, m)
    BY <1>4 DEF FromRemote
  <2>2. ServeInv(d, G, r)
    BY <1>1, <2>1, RemoteInvalidateServes
  <2> QED
    BY <1>4, <2>2
<1>5. CASE m.type \notin {"Read", "ReadResponse", "Invalidate"}
  BY <1>1, <1>5 DEF FromRemote
<1> QED
  BY <1>2, <1>3, <1>4, <1>5
=============================================================================
