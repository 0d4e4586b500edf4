---------------------------- MODULE EventManager ----------------------------
(***************************************************************************)
(* The scheduler of src/src/MemSys/EventManager.cpp with the pools of      *)
(* Pool.h it recycles its objects through.                                 *)
(*                                                                         *)
(* ProcessTick runs the callbacks of the current tick from a vector that   *)
(* the callbacks themselves append to, and gives the vector back to a pool *)
(* when it is done with it.  A step here is one call of a method by a      *)
(* callback, or by the processor models between two ticks, or one          *)
(* iteration of the loop of ProcessTick.                                   *)
(***************************************************************************)
EXTENDS Naturals, Sequences

CONSTANTS Function,      \* the callback objects
          Container,     \* the vectors of callbacks
          NoContainer,
          MaxDelay,      \* bound on the delay of an event
          MaxTick,       \* bound on the simulated time
          MaxPerTick     \* bound on the callbacks of one tick

ASSUME BoundsAssumption == MaxDelay \in Nat /\ MaxTick \in Nat /\ MaxPerTick \in Nat
ASSUME NoContainerAssumption == NoContainer \notin Container

VARIABLES
  currentTick,
  scheduleSet,     \* per tick: the vector of its callbacks, or NoContainer
  contents,        \* per vector: the callbacks in it
  containerPool,   \* vectors given back
  functionPool,    \* callback objects that are not in use
  i,               \* ProcessTick's index, 0 between two calls of it
  executing        \* callback i is being executed

vars == <<currentTick, scheduleSet, contents, containerPool, functionPool, i, executing>>

Tick == 0..MaxTick

Init ==
  /\ currentTick = 0
  /\ scheduleSet = [t \in Tick |-> NoContainer]
  /\ contents = [c \in Container |-> <<>>]
  /\ containerPool = {}
  /\ functionPool = Function
  /\ i = 0
  /\ executing = FALSE

current == contents[scheduleSet[currentTick]]

(* Vectors that were never made, or deleted: Take makes one of them when    *)
(* the pool is empty.                                                       *)
Unmade == Container \ (containerPool \cup {scheduleSet[t] : t \in Tick})

(* Pool::Take.  Which of the vectors in the pool is taken is left open.     *)
Take(c) == c \in IF containerPool = {} THEN Unmade ELSE containerPool

(* ScheduleEventAbsolute of a callback made by PooledFunctionGenerator      *)
ScheduleEventAbsolute(f, time) ==
  /\ f \in functionPool /\ functionPool' = functionPool \ {f}
  /\ \/ /\ scheduleSet[time] # NoContainer
        /\ Len(contents[scheduleSet[time]]) < MaxPerTick
        /\ contents' = [contents EXCEPT ![scheduleSet[time]] = Append(@, f)]
        /\ UNCHANGED <<scheduleSet, containerPool>>
     \/ /\ scheduleSet[time] = NoContainer
        /\ \E c \in Container :
             /\ Take(c)
             /\ scheduleSet' = [scheduleSet EXCEPT ![time] = c]
             /\ contents' = [contents EXCEPT ![c] = Append(@, f)]
             /\ containerPool' = containerPool \ {c}

(* A slip: the delay is taken for a time.                                   *)
ScheduleEventAtDelta(f, dT) ==
  /\ executing \/ i = 0
  /\ dT \in Tick
  /\ ScheduleEventAbsolute(f, dT)
  /\ UNCHANGED <<currentTick, i, executing>>

(* Callbacks schedule others while they execute, the processor models do so *)
(* between two ticks.                                                       *)
ScheduleEvent(f, dT) ==
  /\ executing \/ i = 0
  /\ currentTick + dT \in Tick
  /\ ScheduleEventAbsolute(f, currentTick + dT)
  /\ UNCHANGED <<currentTick, i, executing>>
-----------------------------------------------------------------------------
(* ProcessTick.                                                             *)

EmptyTick ==
  /\ i = 0 /\ currentTick < MaxTick
  /\ scheduleSet[currentTick] = NoContainer
  /\ currentTick' = currentTick + 1
  /\ UNCHANGED <<scheduleSet, contents, containerPool, functionPool, i, executing>>

StartTick ==
  /\ i = 0
  /\ scheduleSet[currentTick] # NoContainer
  /\ i' = 1
  /\ UNCHANGED <<currentTick, scheduleSet, contents, containerPool, functionPool, executing>>

(* A slip: the last callback is left out.                                   *)
LoopEndsEarly == i < Len(current)

(* The loop looks the vector and its size up again before every call.       *)
LoopGoesOn == i <= Len(current)

(* A slip: the object is given back before the call has ended.              *)
CallAndReturn ==
  /\ i > 0 /\ ~executing /\ LoopGoesOn
  /\ executing' = TRUE
  /\ functionPool' = functionPool \cup {current[i]}
  /\ UNCHANGED <<currentTick, scheduleSet, contents, containerPool, i>>

Call ==
  /\ i > 0 /\ ~executing /\ LoopGoesOn
  /\ executing' = TRUE
  /\ UNCHANGED <<currentTick, scheduleSet, contents, containerPool, functionPool, i>>

(* PooledFunction::Execute gives the object back after the call.            *)
Return ==
  /\ executing /\ executing' = FALSE
  /\ functionPool' = functionPool \cup {current[i]}
  /\ i' = i + 1
  /\ UNCHANGED <<currentTick, scheduleSet, contents, containerPool>>

(* A slip: the vector goes to the pool with its callbacks in it.            *)
NotCleared(c) == contents
Cleared(c) == [contents EXCEPT ![c] = <<>>]

(* A slip: the next tick goes on at the index.                              *)
EndTickAtIndex ==
  /\ i > 0 /\ ~executing /\ ~LoopGoesOn /\ currentTick < MaxTick
  /\ contents' = Cleared(scheduleSet[currentTick])
  /\ containerPool' = containerPool \cup {scheduleSet[currentTick]}
  /\ scheduleSet' = [scheduleSet EXCEPT ![currentTick] = NoContainer]
  /\ currentTick' = currentTick + 1
  /\ UNCHANGED <<functionPool, executing, i>>

EndTick ==
  /\ i > 0 /\ ~executing /\ ~LoopGoesOn /\ currentTick < MaxTick
  /\ contents' = Cleared(scheduleSet[currentTick])
  /\ containerPool' = containerPool \cup {scheduleSet[currentTick]}
  /\ scheduleSet' = [scheduleSet EXCEPT ![currentTick] = NoContainer]
  /\ currentTick' = currentTick + 1
  /\ i' = 0
  /\ UNCHANGED <<functionPool, executing>>

ProcessTick == EmptyTick \/ StartTick \/ Call \/ Return \/ EndTick

Next == ProcessTick \/ \E f \in Function, dT \in 0..MaxDelay : ScheduleEvent(f, dT)

Spec == Init /\ [][Next]_vars
-----------------------------------------------------------------------------
(* The vectors, the pools and the position of the loop have their types     *)
(* (564-577).                                                               *)
TypeOK ==
  /\ currentTick \in Tick
  /\ scheduleSet \in [Tick -> Container \cup {NoContainer}]
  /\ contents \in [Container -> Seq(Function)]
  /\ containerPool \subseteq Container
  /\ functionPool \subseteq Function
  /\ i \in Nat
  /\ executing \in BOOLEAN
  /\ i > 0 => scheduleSet[currentTick] # NoContainer /\ i <= Len(current) + 1
  /\ executing => i \in DOMAIN current

(* A vector belongs to one tick, and one that belongs to none is empty:     *)
(* otherwise the callbacks of one tick would be called in another.          *)
VectorsAreSeparate ==
  /\ \A s, t \in Tick : scheduleSet[s] = scheduleSet[t] /\ s # t => scheduleSet[s] = NoContainer
  /\ \A t \in Tick : scheduleSet[t] \notin containerPool
  /\ \A c \in Container : c \notin {scheduleSet[t] : t \in Tick} => contents[c] = <<>>

(* The places of vectors that are still to be called.                       *)
FirstDue(t) == IF t # currentTick THEN 1 ELSE IF executing THEN i + 1 ELSE IF i = 0 THEN 1 ELSE i
Due(t) == IF scheduleSet[t] = NoContainer THEN {}
          ELSE {<<t, k>> : k \in FirstDue(t) .. Len(contents[scheduleSet[t]])}
FunctionAt(p) == contents[scheduleSet[p[1]]][p[2]]

(* A callback object in use waits for exactly one call: its arguments are   *)
(* those of the event it was made for, and nobody can overwrite them.       *)
OneCallPerFunction ==
  LET due == UNION {Due(t) : t \in Tick}
  IN /\ \A p, q \in due : FunctionAt(p) = FunctionAt(q) => p = q
     /\ \A p \in due : FunctionAt(p) \notin functionPool
     /\ executing => /\ current[i] \notin functionPool
                     /\ \A p \in due : FunctionAt(p) # current[i]

(* No event is due in the past.                                             *)
NothingLeftBehind ==
  \A t \in Tick : t < currentTick => scheduleSet[t] = NoContainer

(* What the devices see: an EventQueue.                                     *)
Agenda == [t \in Tick |->
  IF scheduleSet[t] = NoContainer THEN <<>>
  ELSE SubSeq(contents[scheduleSet[t]], FirstDue(t), Len(contents[scheduleSet[t]]))]

Queue == INSTANCE EventQueue WITH Event <- Function, now <- currentTick, agenda <- Agenda

ImplementsQueue == Queue!Spec
=============================================================================
