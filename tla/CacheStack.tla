----------------------------- MODULE CacheStack -----------------------------
(***************************************************************************)
(* Two levels of cache between a processor and its directory or bus, as    *)
(* OutBIPDirectoryMemory of MemGen.cs (503) and the other configurations   *)
(* generate them: L1 with TopCache = 1, and L2, which keeps what L1 has    *)
(* and invalidates it there before it gives a block up.  The class of the  *)
(* caches is chosen at the start; lines without a file name are of         *)
(* BIPMOESICache.cpp.                                                      *)
(*                                                                         *)
(* The messages between the two are events of the EventManager: they are   *)
(* delivered when their delay has passed, those of one tick in the order   *)
(* they were scheduled.  The directory below is any that keeps to what     *)
(* OneFetch of BIPDirectory says of it: it has at most one request, a Read *)
(* or an Invalidate, at a cache for a block, and it answers the reads of   *)
(* the cache at any later time, in any order.  The time a message to it    *)
(* takes is part of that.                                                  *)
(***************************************************************************)
EXTENDS Naturals, Sequences, FiniteSets, SequencesExt

CONSTANTS Tag, NoBlock, NoID,
          Associativity1, hitTime1, missTime1,     \* of L1
          Associativity2, hitTime2, missTime2,     \* of L2
          evictionTime, invalidateTime, evictionPolicy,
          Classes,       \* the classes the caches may be of: records as in CacheFamily
          MaxRequests,   \* bound on the requests of the processor
          MaxFetches     \* bound on the requests of the directory

ASSUME BoundsAssumption == MaxRequests \in Nat /\ MaxFetches \in Nat
ASSUME TimesAssumption == {hitTime1, missTime1, hitTime2, missTime2, evictionTime, invalidateTime} \subseteq Nat
ASSUME FramesAssumption == Associativity1 \in Nat /\ Associativity2 \in Nat

VARIABLES class,       \* of both caches
          l1, l2,
          queue,       \* the scheduled messages between them: [to, msg, delay]
          reads,       \* reads of l2 that the directory has not answered
          granted,     \* what the directory has granted l2: "none", "shared" or "exclusive"
          fetches,     \* requests of the directory that l2 has not answered
          requested,   \* how many requests the processor has made
          fetched      \* how many requests the directory has made

vars == <<class, l1, l2, queue, reads, granted, fetches, requested, fetched>>

L1 == INSTANCE CacheFamily
        WITH Associativity <- Associativity1, hitTime <- hitTime1, missTime <- missTime1
L2 == INSTANCE CacheFamily
        WITH Associativity <- Associativity2, hitTime <- hitTime2, missTime <- missTime2

(* NoBlock is no tag and no block, and in every class the states in which a *)
(* block can be lead to such states.                                        *)
ASSUME NoBlockAssumption == NoBlock \notin Tag /\ NoBlock \notin L1!Block
ASSUME ClassesAssumption ==
  \A k \in Classes : LET Valid == DOMAIN k.AfterRead IN
    /\ Valid \subseteq L1!State \ {"Invalid"}
    /\ {"Modified", "Shared", k.ExclusiveFill} \subseteq Valid
    /\ \A s \in Valid : k.AfterRead[s] \in Valid /\ k.AfterMerge[s] \in Valid
    /\ k.AfterMerge["Invalid"] \in Valid \cup {"Invalid"}

(* A class in which dirty data leaves a shared block shared makes no block  *)
(* writable but by an exclusive response.                                   *)
ASSUME OwnershipAssumption ==
  \A k \in Classes : k.AfterMerge["Shared"] # "Modified" =>
    LET Valid == DOMAIN k.AfterRead
        Writable == {"Modified", "Exclusive"}
    IN /\ \A s \in Valid : (s \notin k.NeedsExclusive => s \in Writable) /\ k.AfterRead[s] \notin Writable
       /\ \A s \in Valid \cup {"Invalid"} : k.AfterMerge[s] \in Writable => s \in Writable

Init ==
  /\ class \in Classes
  /\ l1 = L1!NewCache(TRUE)
  /\ l2 = L2!NewCache(FALSE)
  /\ queue = <<>>
  /\ reads = <<>>
  /\ granted = [t \in Tag |-> "none"]
  /\ fetches = {}
  /\ requested = 0 /\ fetched = 0

Emptied(c) == [c EXCEPT !.toLocal = <<>>, !.toRemote = <<>>]
Addressed(s, to) == [k \in DOMAIN s |-> [to |-> to, msg |-> s[k].msg, delay |-> s[k].delay]]

(* L1 is left as c, and what it sends is scheduled after the events of q.   *)
(* The processor takes its answers.                                         *)
LeaveL1(c, q) ==
  /\ l1' = Emptied(c)
  /\ queue' = q \o Addressed(c.toRemote, "L2")

(* What m of L2 leaves it of a grant: nothing of one it has given up, and no *)
(* more than a shared one when others read the block.                       *)
Remains(grant, m) ==
  CASE m.type \in {"Eviction", "InvalidateResponse"}             -> "none"
    [] m.type = "ReadResponse" /\ m.satisfied /\ m.exclusive      -> "none"
    [] m.type = "ReadResponse" /\ m.satisfied /\ grant # "none"   -> "shared"
    [] OTHER                                                      -> grant

Take(g, e) == [g EXCEPT ![e.msg.tag] = Remains(@, e.msg)]

AppendRead(s, e) == IF e.msg.type = "Read" THEN Append(s, e) ELSE s

(* L2 is left as c.  The directory keeps its reads until it answers them;   *)
(* an answer of L2 ends a request of the directory; evictions are taken.    *)
LeaveL2(c, q, readsBefore, grantedBefore, fetchesBefore) ==
  LET sent == {c.toRemote[k].msg : k \in DOMAIN c.toRemote}
      Answers(m, f) == /\ m.tag = f.tag
                       /\ m.type = IF f.type = "Read" THEN "ReadResponse" ELSE "InvalidateResponse"
  IN /\ l2' = Emptied(c)
     /\ queue' = q \o Addressed(c.toLocal, "L1")
     /\ reads' = FoldLeft(AppendRead, readsBefore, c.toRemote)
     /\ granted' = FoldLeft(Take, grantedBefore, c.toRemote)
     /\ fetches' = {f \in fetchesBefore : \A m \in sent : ~Answers(m, f)}

ProcessorRequests ==
  \E t \in Tag : \E m \in {L1!Read(t, FALSE, NoID), L1!Write(t, NoID)} :
    /\ requested < MaxRequests
    /\ requested' = requested + 1
    /\ \E c \in L1!OnLocalRequest(l1, m) : LeaveL1(c, queue)
    /\ UNCHANGED <<class, l2, reads, granted, fetches, fetched>>

(* The first event whose time has come is delivered.  L2 attaches the block *)
(* to a response if the read did not say that L1 already has it (406); that *)
(* only matters for surplus responses and is left open.                     *)
Deliver(to) ==
  \E k \in DOMAIN queue :
    LET m == queue[k].msg
        q == RemoveAt(queue, k)
    IN /\ queue[k].to = to
       /\ queue[k].delay = 0
       /\ \A j \in 1..(k - 1) : queue[j].delay > 0
       /\ \/ /\ to = "L1"
             /\ \E attached \in BOOLEAN : \E c \in L1!FromRemote(l1, m, attached) : LeaveL1(c, q)
             /\ UNCHANGED <<l2, reads, granted, fetches>>
          \/ /\ to = "L2"
             /\ \E c \in L2!FromLocal(l2, m) : LeaveL2(c, q, reads, granted, fetches)
             /\ UNCHANGED l1
       /\ UNCHANGED <<class, requested, fetched>>

(* Time passes when the events of this tick are delivered.                  *)
Tick ==
  /\ queue # <<>>
  /\ \A k \in DOMAIN queue : queue[k].delay > 0
  /\ queue' = [k \in DOMAIN queue |-> [queue[k] EXCEPT !.delay = @ - 1]]
  /\ UNCHANGED <<class, l1, l2, reads, granted, fetches, requested, fetched>>

DirectoryAnswers ==
  \E k \in DOMAIN reads, exclusive \in BOOLEAN :
    /\ reads[k].msg.exclusive => exclusive
    /\ \E c \in L2!FromRemote(l2, L2!ReadResponse(reads[k].msg, TRUE, exclusive), TRUE) :
         LeaveL2(c, queue, RemoveAt(reads, k),
                 [granted EXCEPT ![reads[k].msg.tag] =
                    IF exclusive \/ @ = "exclusive" THEN "exclusive" ELSE "shared"],
                 fetches)
    /\ UNCHANGED <<class, l1, requested, fetched>>

DirectoryRequests ==
  \E t \in Tag : \E m \in {L2!Read(t, FALSE, NoID), L2!Read(t, TRUE, NoID), L2!Invalidate(t)} :
    /\ fetched < MaxFetches
    /\ fetched' = fetched + 1
    /\ \A f \in fetches : f.tag # t
    /\ \E c \in L2!FromRemote(l2, m, TRUE) : LeaveL2(c, queue, reads, granted, fetches \cup {m})
    /\ UNCHANGED <<class, l1, requested>>

Next ==
  \/ ProcessorRequests
  \/ \E to \in {"L1", "L2"} : Deliver(to)
  \/ Tick
  \/ DirectoryAnswers
  \/ DirectoryRequests

Spec == Init /\ [][Next]_vars
-----------------------------------------------------------------------------
(* The tables of both levels; neither has more blocks than frames.          *)
TypeOK == L1!CacheTypeOK(l1) /\ L2!CacheTypeOK(l2)

(* In either level a block is locked exactly while requests wait for it:    *)
(* UnlockBlock and RespondInvalidate (226, 276) rely on it.                 *)
LockedIffWaiting == L1!LockedIffWaiting(l1) /\ L2!LockedIffWaiting(l2)

(* In either level requests wait for a frame only while an UnlockBlock is   *)
(* due that will make them again (236-247).                                 *)
FrameWaitersWillWake == L1!FrameWaitersWillWake(l1) /\ L2!FrameWaitersWillWake(l2)

Scheduled(to, type, t) ==
  \E k \in DOMAIN queue : queue[k].to = to /\ queue[k].msg.type = type /\ queue[k].msg.tag = t
Waits(s, t) == \E k \in DOMAIN s : s[k].tag = t

(* While requests wait for a block in L1 a read for it is on its way to L2, *)
(* waits there, or is answered, and likewise between L2 and the directory.  *)
WaitersAreServed ==
  \A t \in Tag :
    /\ l1.waitingOnBlockUnlock[t] # <<>> =>
         \/ Scheduled("L2", "Read", t)
         \/ Waits(l2.waitingOnBlockUnlock[t], t) \/ Waits(l2.waitingOnSetUnlock, t)
         \/ Scheduled("L1", "ReadResponse", t)
    /\ l2.waitingOnBlockUnlock[t] # <<>> =>
         \E k \in DOMAIN reads : reads[k].msg.tag = t

(* A read of the directory that L2 has not answered has a message on its    *)
(* way to or from L1.  It is not so of invalidates: see the next property.  *)
FetchesAreServed ==
  \A f \in fetches : f.type = "Read" =>
    Scheduled("L1", "Read", f.tag) \/ Scheduled("L2", "ReadResponse", f.tag)

(* "AllocateBlock puts tag1 into pendingEviction.  OnLocalInvalidateResponse *)
(* gets called, and removes tag1 from pendingEviction, doing the necessary  *)
(* cleanup" (src/report/report.txt:224): an Invalidate of it is on its way  *)
(* to L1 or answered.                                                       *)
EvictionsAreCleanedUp ==
  \A t \in Tag : l2.pendingEviction[t] # NoBlock =>
    Scheduled("L1", "Invalidate", t) \/ Scheduled("L2", "InvalidateResponse", t)

(* L2 of MESICache or MOESICache takes a block for its own only while it was *)
(* granted exclusively and nobody else has read it since: dirty data that   *)
(* L1 gives back, perhaps much later, does not make more of a grant than it *)
(* was (641-646).  It is not so of MSICache, whose OnLocalEviction makes    *)
(* any block Modified (MSICache.cpp:638), nor of BIPMOESICache, which may   *)
(* turn a surplus response into an eviction of a block it keeps (702).      *)
OwnsOnlyWhatWasGranted ==
  class.AfterMerge["Shared"] # "Modified" /\ ~class.EvictsSurplus =>
    \A t \in Tag : L2!Usable(l2, t) /\ l2.blocks[t].state \in {"Modified", "Exclusive"} =>
      granted[t] = "exclusive"
=============================================================================
