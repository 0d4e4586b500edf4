---------------------------- MODULE CacheFamily ----------------------------
(***************************************************************************)
(* What the four cache classes of src/src/MemSys/Devices have in common:   *)
(* MSICache, MESICache, MOESICache and BIPMOESICache are copies of each    *)
(* other that differ in the states of a block and what leads from one to   *)
(* another.  Those are the parameters here, and each class is a module of  *)
(* its own that gives them their values.  Lines without a file name are    *)
(* lines of BIPMOESICache.cpp.                                             *)
(*                                                                         *)
(* One cache, or one level of a hierarchy of them, for one set of frames.  *)
(* All tables are keyed by tag or by set, so the sets do not interact.     *)
(*                                                                         *)
(* An object is a record c with the members of the class and two outboxes, *)
(* toLocal and toRemote, of the messages a handler sends towards the       *)
(* processor and towards the memory.  A handler maps the object and the    *)
(* message it was sent to the set of objects it can leave: several, when   *)
(* it may choose the block to evict.  The modules that connect caches make *)
(* one action of each call and empty the outboxes into their channels.     *)
(*                                                                         *)
(* Which evictable block is evicted is left open: that covers LRU, which   *)
(* every generated configuration selects, and the choice of Random.  A     *)
(* message carries the delay it is sent with.                              *)
(***************************************************************************)
EXTENDS Naturals, Sequences, FiniteSets, SequencesExt

CONSTANTS Tag,             \* the tags of the set
          Associativity,   \* its frames
          NoBlock,
          NoID,            \* the number of a message whose number nobody reads
          hitTime, missTime, evictionTime, invalidateTime,
          evictionPolicy   \* "LRU" or "Random"

CONSTANT class             \* what the classes differ in, a record:
(*   Dirty           the states whose data the memory does not have         *)
(*   NeedsExclusive  the states that can be read but not written            *)
(*   GrantsExclusive the states in which a read is answered exclusively     *)
(*   ExclusiveFill   the state of a block that arrives exclusively          *)
(*   AfterRead       from each state, the state after a read from below     *)
(*   AfterMerge      the same, when the level above gives dirty data        *)
(*   EvictsSurplus   is a response nobody waits for turned into an eviction?*)

State == {"Modified", "Owned", "Exclusive", "Shared", "Invalid"}

(* BlockState; written stands for lastWrite # 0.  A tag without a valid     *)
(* frame has NoBlock.                                                       *)
Block == [state : State, locked : BOOLEAN, written : BOOLEAN]

NewCache(topCache) ==
  [topCache             |-> topCache,
   blocks               |-> [t \in Tag |-> NoBlock],
   waitingOnBlockUnlock |-> [t \in Tag |-> <<>>],
   waitingOnSetUnlock   |-> <<>>,
   waitingOnRemoteReads |-> [t \in Tag |-> <<>>],
   pendingEviction      |-> [t \in Tag |-> NoBlock],
   pendingInvalidate    |-> {},
   canceledBlockEviction |-> {},
   toLocal              |-> <<>>,
   toRemote             |-> <<>>]

ToLocal(c, m, delay)  == [c EXCEPT !.toLocal = Append(@, [msg |-> m, delay |-> delay])]
ToRemote(c, m, delay) == [c EXCEPT !.toRemote = Append(@, [msg |-> m, delay |-> delay])]

(* Messages.  The number of a request is that of its message; a cache does  *)
(* not look at the number of a message from below.                          *)
Read(t, x, i)             == [type |-> "Read", tag |-> t, exclusive |-> x, id |-> i]
Write(t, i)               == [type |-> "Write", tag |-> t, id |-> i]
ReadResponse(m, s, x)     == [type |-> "ReadResponse", tag |-> m.tag, id |-> m.id,
                              satisfied |-> s, exclusive |-> x]
WriteResponse(m)          == [type |-> "WriteResponse", tag |-> m.tag, id |-> m.id]
Eviction(t, b)            == [type |-> "Eviction", tag |-> t, blockAttached |-> b]
Invalidate(t)             == [type |-> "Invalidate", tag |-> t]
EvictionResponse(t)       == [type |-> "EvictionResponse", tag |-> t]
InvalidateResponse(t, b)  == [type |-> "InvalidateResponse", tag |-> t, blockAttached |-> b]
-----------------------------------------------------------------------------
(* Allocation.                                                              *)

Held(c) == {t \in Tag : c.blocks[t] # NoBlock}

Victims(c) == {t \in Held(c) : c.blocks[t].state # "Invalid" /\ ~c.blocks[t].locked}

(* PrepareFreshBlock: a block that waits for its eviction comes back.       *)
PrepareFreshBlock(c, t) ==
  IF c.pendingEviction[t] = NoBlock
  THEN [c EXCEPT !.blocks[t] = [state |-> "Invalid", locked |-> FALSE, written |-> FALSE]]
  ELSE [c EXCEPT !.blocks[t] = c.pendingEviction[t],
                 !.pendingEviction[t] = NoBlock,
                 !.canceledBlockEviction = @ \cup {t}]

(* The frame of v is taken for t.  A top cache gives the block up at once;  *)
(* another first invalidates it above, unless an invalidate of t is pending.*)
TakeFrame(c, v, t) ==
  LET d == [c EXCEPT !.blocks[v] = NoBlock]
  IN IF c.topCache
     THEN ToRemote(d, Eviction(v, c.blocks[v].written), evictionTime)
     ELSE LET e == [d EXCEPT !.pendingEviction[v] = c.blocks[v]]
          IN IF t \in c.pendingInvalidate THEN e ELSE ToLocal(e, Invalidate(v), invalidateTime)

(* Slip: one frame more than the set has.                                   *)
OneFrameMore(c) == Cardinality(Held(c)) <= Associativity

HasFreeFrame(c) == Cardinality(Held(c)) < Associativity

(* What the policy may answer in a full set.  Random draws an index below   *)
(* the number of frames and counts with it through the evictable blocks: it *)
(* may come to no block (32-46).                                            *)
Evict(c) ==
  LET none == \/ Victims(c) = {}
              \/ evictionPolicy = "Random" /\ Cardinality(Victims(c)) < Associativity
  IN Victims(c) \cup (IF none THEN {NoBlock} ELSE {})
-----------------------------------------------------------------------------
(* Requests from above.                                                     *)

(* The block is locked and asked for, unless it is already; m waits.        *)
Miss(c, m, exclusive) ==
  LET d == IF c.blocks[m.tag].locked THEN c
           ELSE ToRemote([c EXCEPT !.blocks[m.tag].locked = TRUE],
                         Read(m.tag, exclusive, NoID), missTime)
  IN [d EXCEPT !.waitingOnBlockUnlock[m.tag] = Append(@, m)]

PerformRead(c, m) ==
  LET s == c.blocks[m.tag].state
  IN IF s = "Invalid" \/ (m.exclusive /\ s \in class.NeedsExclusive)
     THEN Miss(c, m, m.exclusive)
     ELSE ToLocal(c, ReadResponse(m, TRUE, s \in class.GrantsExclusive), hitTime)

PerformWrite(c, m) ==
  LET d == [c EXCEPT !.blocks[m.tag].written = TRUE]
  IN IF c.blocks[m.tag].state \in class.NeedsExclusive \cup {"Invalid"}
     THEN Miss(d, m, TRUE)
     ELSE ToLocal([d EXCEPT !.blocks[m.tag].state = "Modified"], WriteResponse(m), hitTime)

Perform(c, m) == IF m.type = "Read" THEN PerformRead(c, m) ELSE PerformWrite(c, m)

(* OnLocalRead and OnLocalWrite.  AllocateBlock makes room, or m waits.     *)
OnLocalRequest(c, m) ==
  IF c.blocks[m.tag] # NoBlock THEN {Perform(c, m)}
  ELSE IF HasFreeFrame(c) THEN {Perform(PrepareFreshBlock(c, m.tag), m)}
  ELSE {IF v = NoBlock THEN [c EXCEPT !.waitingOnSetUnlock = Append(@, m)]
        ELSE Perform(PrepareFreshBlock(TakeFrame(c, v, m.tag), m.tag), m) : v \in Evict(c)}

(* Slip: the requests that wait for a frame are left waiting.               *)
UnlockOnly(c, t) ==
  {FoldLeft(Perform, [c EXCEPT !.blocks[t].locked = FALSE, !.waitingOnBlockUnlock[t] = <<>>],
            c.waitingOnBlockUnlock[t])}

(* UnlockBlock: the requests that wait for the block are performed in their *)
(* order, and when they leave it unlocked those that wait for a frame are   *)
(* made again.                                                              *)
UnlockBlock(c, t) ==
  LET unlocked == [c EXCEPT !.blocks[t].locked = FALSE, !.waitingOnBlockUnlock[t] = <<>>]
      d == FoldLeft(Perform, unlocked, c.waitingOnBlockUnlock[t])
      Again(S, m) == UNION {OnLocalRequest(e, m) : e \in S}
  IN IF d.blocks[t].locked THEN {d}
     ELSE FoldLeft(Again, {[d EXCEPT !.waitingOnSetUnlock = <<>>]}, d.waitingOnSetUnlock)

(* OnLocalEviction: what the level above evicts goes on in this one.        *)
MergeDirty(b) == [b EXCEPT !.state = class.AfterMerge[@]]

OnLocalEviction(c, m) ==
  IF m.blockAttached /\ c.blocks[m.tag] # NoBlock
  THEN {[c EXCEPT !.blocks[m.tag] = MergeDirty(@)]} ELSE {c}
-----------------------------------------------------------------------------
(* Messages from below.                                                     *)

(* Slip: a response for a block that is there is taken for a surplus one,   *)
(* though a write may wait for it to become exclusive.                      *)
SurplusUnlessInvalid(c, m, attached) ==
  LET b == c.blocks[m.tag]
  IN IF b = NoBlock \/ b.state # "Invalid"
     THEN {ToRemote(c, Eviction(m.tag, attached), evictionTime)}
     ELSE UnlockBlock([c EXCEPT !.blocks[m.tag].state =
                         IF m.exclusive THEN class.ExclusiveFill ELSE "Shared"], m.tag)

OnRemoteReadResponse(c, m, attached) ==
  LET b == c.blocks[m.tag]
  IN IF b = NoBlock \/ ~b.locked
     THEN {IF class.EvictsSurplus THEN ToRemote(c, Eviction(m.tag, attached), evictionTime) ELSE c}
     ELSE UnlockBlock([c EXCEPT !.blocks[m.tag].state =
                         IF m.exclusive THEN class.ExclusiveFill ELSE "Shared"], m.tag)

(* Slip: the frame is given up whoever waits for it.                        *)
DropAlways(c, t) == [c EXCEPT !.blocks[t] = NoBlock]

(* The block is dropped; requests that wait for it keep its frame.          *)
DropBlock(c, t) ==
  IF c.waitingOnBlockUnlock[t] # <<>> THEN [c EXCEPT !.blocks[t].state = "Invalid"]
                                      ELSE [c EXCEPT !.blocks[t] = NoBlock]

(* Slip: a block that another device has read stays exclusive.              *)
StaysExclusive(c, m) ==
  LET b == c.blocks[m.tag]
  IN IF b = NoBlock \/ b.state = "Invalid"
     THEN ToRemote(c, ReadResponse(m, FALSE, FALSE), hitTime)
     ELSE ToRemote(IF m.exclusive THEN DropBlock(c, m.tag) ELSE c, ReadResponse(m, TRUE, m.exclusive), hitTime)

PerformRemoteRead(c, m) ==
  LET b == c.blocks[m.tag]
      d == IF m.exclusive THEN DropBlock(c, m.tag)
           ELSE [c EXCEPT !.blocks[m.tag].state = class.AfterRead[@]]
  IN IF b = NoBlock \/ b.state = "Invalid"
     THEN ToRemote(c, ReadResponse(m, FALSE, FALSE), hitTime)
     ELSE ToRemote(d, ReadResponse(m, TRUE, m.exclusive), hitTime)

OnRemoteRead(c, m) ==
  LET b == c.blocks[m.tag]
      here == \/ b = NoBlock
              \/ c.topCache
              \/ b.state = "Invalid"
              \/ ~m.exclusive /\ b.state \in class.NeedsExclusive
  IN IF here THEN {PerformRemoteRead(c, m)}
     ELSE {ToLocal([c EXCEPT !.waitingOnRemoteReads[m.tag] = Append(@, m)],
                   Read(m.tag, m.exclusive, NoID), hitTime)}

(* Slip: an answer without the block is taken for none.                     *)
PerformIfSatisfied(c, m) ==
  IF ~m.satisfied THEN {c}
  ELSE {FoldLeft(PerformRemoteRead, [c EXCEPT !.waitingOnRemoteReads[m.tag] = <<>>],
                 c.waitingOnRemoteReads[m.tag])}

OnLocalReadResponse(c, m) ==
  {FoldLeft(PerformRemoteRead, [c EXCEPT !.waitingOnRemoteReads[m.tag] = <<>>],
            c.waitingOnRemoteReads[m.tag])}

(* RespondInvalidate.  A block that is waited for is asked for again, not   *)
(* exclusively.                                                             *)
RespondInvalidate(c, t) ==
  LET b == c.blocks[t]
      p == c.pendingEviction[t]
      attached == IF b # NoBlock THEN b.state \in class.Dirty ELSE p # NoBlock /\ p.state \in class.Dirty
      d == ToRemote([c EXCEPT !.pendingInvalidate = @ \ {t},
                              !.pendingEviction[t] = IF b = NoBlock THEN NoBlock ELSE @],
                    InvalidateResponse(t, attached), invalidateTime)
  IN IF c.waitingOnBlockUnlock[t] # <<>>
     THEN ToRemote(DropBlock(d, t), Read(t, FALSE, NoID), invalidateTime)
     ELSE DropBlock(d, t)

(* Slip: nothing to invalidate, nothing to say.                             *)
InvalidateIfHeld(c, m) ==
  LET d == [c EXCEPT !.pendingInvalidate = @ \cup {m.tag}]
  IN IF m.tag \in c.pendingInvalidate \/ c.blocks[m.tag] = NoBlock THEN {c}
     ELSE IF c.topCache THEN {RespondInvalidate(d, m.tag)}
          ELSE {ToLocal(d, Invalidate(m.tag), 0)}

OnRemoteInvalidate(c, m) ==
  LET d == [c EXCEPT !.pendingInvalidate = @ \cup {m.tag}]
  IN IF m.tag \in c.pendingInvalidate THEN {c}
     ELSE IF c.topCache \/ c.blocks[m.tag] = NoBlock THEN {RespondInvalidate(d, m.tag)}
          ELSE {ToLocal(d, Invalidate(m.tag), 0)}

(* OnLocalInvalidateResponse: the level above has dropped the block.        *)
OnLocalInvalidateResponse(c, m) ==
  LET t == m.tag
      merged == IF ~m.blockAttached THEN c
                ELSE IF c.pendingEviction[t] # NoBlock
                     THEN [c EXCEPT !.pendingEviction[t] = MergeDirty(@)]
                ELSE IF t \in c.pendingInvalidate /\ c.blocks[t] # NoBlock
                     THEN [c EXCEPT !.blocks[t] = MergeDirty(@)]
                ELSE c
      d == IF t \in c.pendingInvalidate THEN RespondInvalidate(merged, t) ELSE merged
  IN IF t \in c.canceledBlockEviction
     THEN {[c EXCEPT !.canceledBlockEviction = @ \ {t}]}
     ELSE IF d.pendingEviction[t] = NoBlock THEN {d}
          ELSE {ToRemote([d EXCEPT !.pendingEviction[t] = NoBlock],
                         Eviction(t, d.pendingEviction[t].state \in class.Dirty), evictionTime)}

(* RecvMsg.  Only a bus passes the eviction of another cache on; responses  *)
(* to evictions and to writes are thrown away.                              *)
FromRemote(c, m, attached) ==
  CASE m.type = "Read"         -> OnRemoteRead(c, m)
    [] m.type = "ReadResponse" -> OnRemoteReadResponse(c, m, attached)
    [] m.type = "Invalidate"   -> OnRemoteInvalidate(c, m)
    [] m.type = "Eviction"     -> {ToRemote(c, EvictionResponse(m.tag), hitTime)}
    [] OTHER                   -> {c}

FromLocal(c, m) ==
  CASE m.type \in {"Read", "Write"}     -> OnLocalRequest(c, m)
    [] m.type = "ReadResponse"          -> OnLocalReadResponse(c, m)
    [] m.type = "Eviction"              -> OnLocalEviction(c, m)
    [] m.type = "InvalidateResponse"    -> OnLocalInvalidateResponse(c, m)
-----------------------------------------------------------------------------
(* Properties of one cache, as state predicates of c.                       *)

(* A block is locked exactly while requests wait for it: otherwise the      *)
(* response that arrives finds nothing to unlock, or unlocks nothing        *)
(* (assertions at 222, 223, 231, 308, 438 and 443).                         *)
LockedIffWaiting(c) ==
  \A t \in Tag :
    c.waitingOnBlockUnlock[t] # <<>> <=> c.blocks[t] # NoBlock /\ c.blocks[t].locked

(* Requests only wait for a frame while every frame is locked, so that some *)
(* UnlockBlock will make them again (226-248).                              *)
FrameWaitersWillWake(c) ==
  c.waitingOnSetUnlock # <<>> =>
    Cardinality({t \in Held(c) : c.blocks[t].locked}) = Associativity

(* The cache has the block, in a state in which it can be used.             *)
Usable(c, t) == c.blocks[t] # NoBlock /\ c.blocks[t].state # "Invalid"
-----------------------------------------------------------------------------
(* The tables of one cache; no more blocks than frames (BIPMOESICache.h:92).*)
CacheTypeOK(c) ==
  /\ c.topCache \in BOOLEAN
  /\ c.blocks \in [Tag -> Block \cup {NoBlock}]
  /\ Cardinality(Held(c)) <= Associativity
  /\ c.pendingEviction \in [Tag -> Block \cup {NoBlock}]
  /\ c.pendingInvalidate \subseteq Tag
  /\ c.canceledBlockEviction \subseteq Tag
=============================================================================
