------------------------ MODULE EventManager_proofs ------------------------
(* Theorems about EventManager, for every set of callbacks and vectors and   *)
(* every bound.                                                             *)
EXTENDS EventManager, SequenceTheorems, TLAPS

USE BoundsAssumption, NoContainerAssumption

(* No vector serves two ticks, and time does not leave one behind: what is   *)
(* called in a tick was scheduled for it.                                   *)
VectorInv == TypeOK /\ VectorsAreSeparate /\ NothingLeftBehind /\ (executing => i > 0)

(* The vector that ProcessTick is at is there, and a call is one of its      *)
(* callbacks.                                                               *)
LEMMA CurrentVector ==
  ASSUME VectorInv
  PROVE  /\ currentTick \in Tick /\ i \in Nat
         /\ i > 0 => /\ scheduleSet[currentTick] \in Container
                     /\ current \in Seq(Function) /\ i <= Len(current) + 1
         /\ executing => i > 0 /\ i \in 1..Len(current) /\ current[i] \in Function
<1>1. currentTick \in Tick /\ i \in Nat /\ (executing => i > 0)
  BY DEF VectorInv, TypeOK
<1>2. i > 0 => /\ scheduleSet[currentTick] \in Container
              /\ current \in Seq(Function) /\ i <= Len(current) + 1
  BY <1>1 DEF VectorInv, TypeOK, current
<1>3. executing => i \in 1..Len(current)
  BY <1>1, <1>2 DEF VectorInv, TypeOK
<1> QED
  BY <1>1, <1>2, <1>3
-----------------------------------------------------------------------------
(* A vector that Take hands out is in no tick, and empty.                   *)
LEMMA TakenIsUnused ==
  ASSUME VectorInv, NEW c \in Container, Take(c)
  PROVE  (\A t \in Tick : scheduleSet[t] # c) /\ contents[c] = <<>>
<1>1. \A t \in Tick : scheduleSet[t] # c
  BY DEF Take, Unmade, VectorInv, VectorsAreSeparate
<1> QED
  BY <1>1 DEF VectorInv, VectorsAreSeparate

(* The vector of a tick is one, and of no other tick.                       *)
LEMMA VectorOfTick ==
  ASSUME VectorInv, NEW t \in Tick, scheduleSet[t] # NoContainer
  PROVE  /\ scheduleSet[t] \in Container /\ contents[scheduleSet[t]] \in Seq(Function)
         /\ \A s \in Tick : s # t => scheduleSet[s] # scheduleSet[t]
BY DEF VectorInv, TypeOK, VectorsAreSeparate

LEMMA VectorInvInit == Init => VectorInv
<1> SUFFICES ASSUME Init PROVE VectorInv
  OBVIOUS
<1>1. TypeOK /\ ~executing
  BY DEF Init, TypeOK, Tick
<1>2. VectorsAreSeparate
  BY DEF Init, VectorsAreSeparate, Tick
<1>3. NothingLeftBehind
  BY DEF Init, NothingLeftBehind, Tick
<1> QED
  BY <1>1, <1>2, <1>3 DEF VectorInv
-----------------------------------------------------------------------------
(* Scheduling adds to the vector of its tick, or to an unused one.           *)

ToVector(f, time) ==
  /\ scheduleSet[time] # NoContainer
  /\ contents' = [contents EXCEPT ![scheduleSet[time]] = Append(@, f)]
  /\ UNCHANGED <<scheduleSet, containerPool>>

ToNewVector(f, time, c) ==
  /\ scheduleSet[time] = NoContainer
  /\ Take(c)
  /\ scheduleSet' = [scheduleSet EXCEPT ![time] = c]
  /\ contents' = [contents EXCEPT ![c] = Append(@, f)]
  /\ containerPool' = containerPool \ {c}

LEMMA ScheduleCases ==
  ASSUME NEW f \in Function, NEW dT \in 0..MaxDelay, ScheduleEvent(f, dT)
  PROVE  /\ currentTick + dT \in Tick
         /\ f \in functionPool /\ functionPool' = functionPool \ {f}
         /\ UNCHANGED <<currentTick, i, executing>>
         /\ executing \/ i = 0
         /\ \/ ToVector(f, currentTick + dT)
            \/ \E c \in Container : ToNewVector(f, currentTick + dT, c)
BY DEF ScheduleEvent, ScheduleEventAbsolute, ToVector, ToNewVector

LEMMA ToVectorKeeps ==
  ASSUME VectorInv, NEW f \in Function, NEW time \in Tick, currentTick <= time,
         ToVector(f, time), functionPool' \subseteq Function, UNCHANGED <<currentTick, i, executing>>
  PROVE  VectorInv'
<1> DEFINE c == scheduleSet[time]
<1>1. c \in Container /\ contents[c] \in Seq(Function)
  BY VectorOfTick DEF ToVector
<1>2. contents' \in [Container -> Seq(Function)] /\ Len(contents'[c]) = Len(contents[c]) + 1
  BY <1>1 DEF ToVector, VectorInv, TypeOK
<1>3. \A b \in Container : b # c => contents'[b] = contents[b]
  BY <1>1 DEF ToVector, VectorInv, TypeOK
<1>4. currentTick \in Tick /\ i \in Nat
  BY DEF VectorInv, TypeOK
<1>5. i > 0 => i <= Len(contents'[scheduleSet[currentTick]]) + 1
  <2>1. CASE scheduleSet[currentTick] = c
    BY <2>1, <1>1, <1>2, <1>4 DEF VectorInv, TypeOK, current
  <2>2. CASE scheduleSet[currentTick] # c
    BY <2>2, <1>3, <1>4 DEF VectorInv, TypeOK, current
  <2> QED
    BY <2>1, <2>2
<1>6. executing => i \in DOMAIN contents'[scheduleSet[currentTick]]
  <2>1. CASE scheduleSet[currentTick] = c
    <3>1. executing => i \in 1..Len(contents[c])
      BY <2>1, CurrentVector DEF current
    <3>2. Len(contents[c]) \in Nat /\ DOMAIN contents'[c] = 1..Len(contents'[c])
      BY <1>1, <1>2
    <3> QED
      BY <2>1, <3>1, <3>2, <1>2, <1>4
  <2>2. CASE scheduleSet[currentTick] # c
    BY <2>2, <1>3, CurrentVector DEF current
  <2> QED
    BY <2>1, <2>2
<1>7. TypeOK'
  BY <1>2, <1>5, <1>6 DEF ToVector, VectorInv, TypeOK, current
<1>8. VectorsAreSeparate'
  BY <1>1, <1>3 DEF ToVector, VectorInv, VectorsAreSeparate
<1>9. NothingLeftBehind'
  BY DEF ToVector, VectorInv, NothingLeftBehind
<1> QED
  BY <1>7, <1>8, <1>9, CurrentVector DEF VectorInv

LEMMA ToNewVectorKeeps ==
  ASSUME VectorInv, NEW f \in Function, NEW time \in Tick, currentTick <= time,
         NEW c \in Container, ToNewVector(f, time, c),
         functionPool' \subseteq Function, UNCHANGED <<currentTick, i, executing>>
  PROVE  VectorInv'
<1>1. (\A t \in Tick : scheduleSet[t] # c) /\ contents[c] = <<>>
  BY TakenIsUnused DEF ToNewVector
<1>2. /\ contents' \in [Container -> Seq(Function)]
      /\ \A b \in Container : b # c => contents'[b] = contents[b]
  BY DEF ToNewVector, VectorInv, TypeOK
<1>3. /\ scheduleSet' \in [Tick -> Container \cup {NoContainer}] /\ scheduleSet'[time] = c
      /\ \A t \in Tick : t # time => scheduleSet'[t] = scheduleSet[t]
  BY DEF ToNewVector, VectorInv, TypeOK
<1>4. currentTick \in Tick /\ i \in Nat
  BY DEF VectorInv, TypeOK
<1>5. executing => i > 0
  BY CurrentVector
<1>6. i > 0 => /\ currentTick # time
               /\ scheduleSet'[currentTick] = scheduleSet[currentTick]
               /\ current' = current
  <2>1. i > 0 => currentTick # time /\ scheduleSet[currentTick] # c
    BY <1>1, <1>4 DEF ToNewVector, VectorInv, TypeOK
  <2>2. i > 0 => scheduleSet[currentTick] \in Container
    BY CurrentVector
  <2>3. i > 0 => scheduleSet'[currentTick] = scheduleSet[currentTick]
    BY <2>1, <1>3, <1>4
  <2>4. i > 0 => contents'[scheduleSet'[currentTick]] = contents[scheduleSet[currentTick]]
    BY <2>1, <2>2, <2>3, <1>2
  <2> QED
    BY <2>1, <2>3, <2>4 DEF current
<1>7. TypeOK'
  BY <1>2, <1>3, <1>4, <1>5, <1>6 DEF ToNewVector, VectorInv, TypeOK
<1>8. VectorsAreSeparate'
  <2>1. \A s, t \in Tick : scheduleSet'[s] = scheduleSet'[t] /\ s # t => scheduleSet'[s] = NoContainer
    BY <1>1, <1>3 DEF VectorInv, VectorsAreSeparate
  <2>2. \A t \in Tick : scheduleSet'[t] \notin containerPool'
    BY <1>3 DEF ToNewVector, VectorInv, VectorsAreSeparate
  <2>3. \A b \in Container : b \notin {scheduleSet'[t] : t \in Tick} => contents'[b] = <<>>
    <3> SUFFICES ASSUME NEW b \in Container, b \notin {scheduleSet'[t] : t \in Tick}
                 PROVE  contents'[b] = <<>>
      OBVIOUS
    <3>1. b # c
      BY <1>3
    <3>2. \A t \in Tick : scheduleSet[t] # b
      BY <1>3 DEF ToNewVector
    <3> QED
      BY <3>1, <3>2, <1>2 DEF VectorInv, VectorsAreSeparate
  <2> QED
    BY <2>1, <2>2, <2>3 DEF VectorsAreSeparate
<1>9. NothingLeftBehind'
  BY <1>3, <1>4 DEF VectorInv, NothingLeftBehind, Tick
<1> QED
  BY <1>7, <1>8, <1>9, CurrentVector DEF VectorInv
-----------------------------------------------------------------------------
(* Ending a tick gives its vector back, empty.                              *)
LEMMA EndTickKeeps ==
  ASSUME VectorInv, EndTick
  PROVE  VectorInv'
<1> DEFINE c == scheduleSet[currentTick]
<1>1. currentTick \in Tick /\ c # NoContainer /\ c \in Container
  BY DEF EndTick, VectorInv, TypeOK
<1>2. \A t \in Tick : t # currentTick => scheduleSet[t] # c
  BY <1>1, VectorOfTick
<1>3. /\ scheduleSet' \in [Tick -> Container \cup {NoContainer}]
      /\ scheduleSet'[currentTick] = NoContainer
      /\ \A t \in Tick : t # currentTick => scheduleSet'[t] = scheduleSet[t]
  BY <1>1 DEF EndTick, VectorInv, TypeOK
<1>4. /\ contents' \in [Container -> Seq(Function)] /\ contents'[c] = <<>>
      /\ \A b \in Container : b # c => contents'[b] = contents[b]
  BY <1>1 DEF EndTick, Cleared, VectorInv, TypeOK
<1>5. /\ containerPool' = containerPool \cup {c} /\ currentTick' = currentTick + 1 /\ i' = 0
      /\ ~executing' /\ functionPool' = functionPool
  BY DEF EndTick
<1>6. TypeOK'
  BY <1>1, <1>3, <1>4, <1>5 DEF EndTick, VectorInv, TypeOK, Tick
<1>7. VectorsAreSeparate'
  <2>1. \A s, t \in Tick : scheduleSet'[s] = scheduleSet'[t] /\ s # t => scheduleSet'[s] = NoContainer
    BY <1>3 DEF VectorInv, VectorsAreSeparate
  <2>2. \A t \in Tick : scheduleSet'[t] \notin containerPool'
    BY <1>1, <1>2, <1>3, <1>5 DEF VectorInv, TypeOK, VectorsAreSeparate
  <2>3. \A b \in Container : b \notin {scheduleSet'[t] : t \in Tick} => contents'[b] = <<>>
    <3> SUFFICES ASSUME NEW b \in Container, b \notin {scheduleSet'[t] : t \in Tick}, b # c
                 PROVE  contents'[b] = <<>>
      BY <1>4
    <3>1. \A t \in Tick : scheduleSet[t] # b
      BY <1>3
    <3> QED
      BY <3>1, <1>4 DEF VectorInv, VectorsAreSeparate
  <2> QED
    BY <2>1, <2>2, <2>3 DEF VectorsAreSeparate
<1>8. NothingLeftBehind'
  <2>1. \A t \in Tick : t < currentTick + 1 => t < currentTick \/ t = currentTick
    BY <1>1 DEF Tick
  <2> QED
    BY <2>1, <1>3, <1>5 DEF VectorInv, NothingLeftBehind
<1> QED
  BY <1>5, <1>6, <1>7, <1>8 DEF VectorInv

LEMMA VectorInvNext == VectorInv /\ [Next]_vars => VectorInv'
<1> SUFFICES ASSUME VectorInv, [Next]_vars
             PROVE  VectorInv'
  OBVIOUS
<1>1. currentTick \in Tick /\ i \in Nat
  BY CurrentVector
<1>2. CASE EmptyTick
  <2>1. \A t \in Tick : t < currentTick + 1 => t < currentTick \/ t = currentTick
    BY <1>1 DEF Tick
  <2>2. NothingLeftBehind'
    BY <2>1, <1>2 DEF EmptyTick, VectorInv, NothingLeftBehind
  <2>3. ~executing /\ i = 0
    BY <1>2, CurrentVector DEF EmptyTick
  <2>4. TypeOK'
    BY <1>1, <1>2, <2>3 DEF EmptyTick, VectorInv, TypeOK, Tick
  <2> QED
    BY <2>2, <2>3, <2>4, <1>2 DEF EmptyTick, VectorInv, VectorsAreSeparate
<1>3. CASE StartTick
  <2>1. ~executing /\ Len(current) \in Nat
    BY <1>1, <1>3, VectorOfTick, CurrentVector DEF StartTick, current
  <2>2. TypeOK'
    BY <2>1, <1>1, <1>3 DEF StartTick, VectorInv, TypeOK, current
  <2> QED
    BY <2>1, <2>2, <1>3 DEF StartTick, VectorInv, VectorsAreSeparate, NothingLeftBehind
<1>4. CASE Call
  <2>1. current \in Seq(Function) /\ i > 0
    BY <1>4, CurrentVector DEF Call
  <2>2. i \in DOMAIN current
    BY <2>1, <1>1, <1>4 DEF Call, LoopGoesOn
  <2>3. TypeOK'
    BY <2>2, <1>4 DEF Call, VectorInv, TypeOK, current
  <2> QED
    BY <2>1, <2>3, <1>4 DEF Call, VectorInv, VectorsAreSeparate, NothingLeftBehind
<1>5. CASE Return
  <2>1. /\ i > 0 /\ i <= Len(current) /\ current[i] \in Function
        /\ Len(current) \in Nat /\ scheduleSet[currentTick] # NoContainer
    BY <1>5, CurrentVector DEF Return
  <2>2. current' = current /\ i' = i + 1 /\ executing' = FALSE /\ functionPool' \subseteq Function
    BY <1>5, <2>1 DEF Return, current, VectorInv, TypeOK
  <2>3. i' > 0 => scheduleSet'[currentTick'] # NoContainer /\ i' <= Len(current') + 1
    BY <2>1, <2>2, <1>1, <1>5 DEF Return
  <2>4. i' \in Nat
    BY <2>2, <1>1
  <2>5. executing' \in BOOLEAN /\ ~executing'
    BY <2>2, Zenon
  <2>6. TypeOK'
    BY <2>2, <2>3, <2>4, <2>5, <1>5 DEF Return, VectorInv, TypeOK
  <2> QED
    BY <2>2, <2>5, <2>6, <1>5 DEF Return, VectorInv, VectorsAreSeparate, NothingLeftBehind
<1>6. CASE EndTick
  BY <1>6, EndTickKeeps
<1>7. ASSUME NEW f \in Function, NEW dT \in 0..MaxDelay, ScheduleEvent(f, dT)
      PROVE  VectorInv'
  <2>1. currentTick <= currentTick + dT
    BY <1>1 DEF Tick
  <2>2. functionPool' \subseteq Function
    BY <1>7, ScheduleCases DEF VectorInv, TypeOK
  <2>3. CASE ToVector(f, currentTick + dT)
    BY <1>7, <2>1, <2>2, <2>3, ScheduleCases, ToVectorKeeps
  <2>4. CASE \E c \in Container : ToNewVector(f, currentTick + dT, c)
    BY <1>7, <2>1, <2>2, <2>4, ScheduleCases, ToNewVectorKeeps
  <2> QED
    BY <1>7, <2>3, <2>4, ScheduleCases
<1>8. CASE UNCHANGED vars
  BY <1>8 DEF vars, VectorInv, TypeOK, VectorsAreSeparate, NothingLeftBehind, current
<1> QED
  BY <1>2, <1>3, <1>4, <1>5, <1>6, <1>7, <1>8 DEF Next, ProcessTick

LEMMA VectorInvariant == Spec => []VectorInv
BY VectorInvInit, VectorInvNext, PTL DEF Spec

(* The vectors, the pools and the position of the loop keep their types     *)
(* (564-577).                                                               *)
THEOREM TypeCorrect == Spec => []TypeOK
<1>1. VectorInv => TypeOK
  BY DEF VectorInv
<1> QED
  BY <1>1, VectorInvariant, PTL

(* A vector of callbacks never serves two ticks and never leaves the pool   *)
(* with callbacks in it (Pool.h, ProcessTick).                              *)
THEOREM VectorsStaySeparate == Spec => []VectorsAreSeparate
<1>1. VectorInv => VectorsAreSeparate
  BY DEF VectorInv
<1> QED
  BY <1>1, VectorInvariant, PTL

(* ProcessTick leaves no event behind it.                                   *)
THEOREM NothingIsLeftBehind == Spec => []NothingLeftBehind
<1>1. VectorInv => NothingLeftBehind
  BY DEF VectorInv
<1> QED
  BY <1>1, VectorInvariant, PTL
-----------------------------------------------------------------------------
(* The callbacks that wait, the one that is being called included.          *)

FirstOpen(t) == IF t = currentTick /\ i > 0 THEN i ELSE 1
IsOpen(t, k) == scheduleSet[t] # NoContainer /\ k \in FirstOpen(t) .. Len(contents[scheduleSet[t]])
CallbackAt(t, k) == contents[scheduleSet[t]][k]

CallInv ==
  /\ \A s, t \in Tick, j, k \in Nat :
       IsOpen(s, j) /\ IsOpen(t, k) /\ CallbackAt(s, j) = CallbackAt(t, k) => s = t /\ j = k
  /\ \A t \in Tick, k \in Nat : IsOpen(t, k) => CallbackAt(t, k) \notin functionPool

(* A step that opens no callback keeps CallInv if what it gives back to the *)
(* pool is open no more.                                                    *)
LEMMA NothingOpened ==
  ASSUME CallInv,
         \A t \in Tick, k \in Nat :
           IsOpen(t, k)' => /\ IsOpen(t, k) /\ CallbackAt(t, k)' = CallbackAt(t, k)
                            /\ CallbackAt(t, k) \notin functionPool' \ functionPool
  PROVE  CallInv'
BY DEF CallInv

(* A step that opens one callback, which was in the pool.                   *)
LEMMA OneOpened ==
  ASSUME CallInv, NEW f \in functionPool, functionPool' = functionPool \ {f},
         NEW time \in Tick, NEW n \in Nat,
         \A t \in Tick, k \in Nat :
           IsOpen(t, k)' => \/ t = time /\ k = n /\ CallbackAt(t, k)' = f
                            \/ IsOpen(t, k) /\ CallbackAt(t, k)' = CallbackAt(t, k)
  PROVE  CallInv'
BY DEF CallInv

LEMMA ToVectorOpensOne ==
  ASSUME VectorInv, NEW f \in Function, NEW time \in Tick, ToVector(f, time),
         UNCHANGED <<currentTick, i, executing>>
  PROVE  \A t \in Tick, k \in Nat :
           IsOpen(t, k)' => \/ t = time /\ k = Len(contents[scheduleSet[time]]) + 1 /\ CallbackAt(t, k)' = f
                            \/ IsOpen(t, k) /\ CallbackAt(t, k)' = CallbackAt(t, k)
<1> DEFINE c == scheduleSet[time]
<1>1. c \in Container /\ contents[c] \in Seq(Function)
  BY VectorOfTick DEF ToVector
<1>2. /\ contents'[c] = Append(contents[c], f)
      /\ \A b \in Container : b # c => contents'[b] = contents[b]
  BY <1>1 DEF ToVector, VectorInv, TypeOK
<1>3. SUFFICES ASSUME NEW t \in Tick, NEW k \in Nat, IsOpen(t, k)'
               PROVE  \/ t = time /\ k = Len(contents[c]) + 1 /\ CallbackAt(t, k)' = f
                      \/ IsOpen(t, k) /\ CallbackAt(t, k)' = CallbackAt(t, k)
  OBVIOUS
<1>4. scheduleSet' = scheduleSet /\ FirstOpen(t)' = FirstOpen(t) /\ FirstOpen(t) \in Nat
  BY CurrentVector DEF ToVector, FirstOpen
<1>5. scheduleSet[t] # NoContainer /\ k \in FirstOpen(t) .. Len(contents'[scheduleSet[t]])
  BY <1>3, <1>4 DEF IsOpen
<1>6. CASE t # time
  <2>1. scheduleSet[t] # c /\ scheduleSet[t] \in Container
    BY <1>5, <1>6, VectorOfTick
  <2>2. contents'[scheduleSet[t]] = contents[scheduleSet[t]]
    BY <2>1, <1>2
  <2> QED
    BY <2>2, <1>4, <1>5 DEF IsOpen, CallbackAt
<1>7. CASE t = time
  <2>1. CASE k = Len(contents[c]) + 1
    BY <2>1, <1>1, <1>2, <1>4, <1>7 DEF CallbackAt
  <2>2. CASE k # Len(contents[c]) + 1
    <3>1. k \in FirstOpen(t) .. Len(contents[c])
      BY <2>2, <1>1, <1>2, <1>4, <1>5, <1>7
    <3>2. k >= 1
      BY <3>1, CurrentVector DEF FirstOpen
    <3>3. contents'[c][k] = contents[c][k]
      BY <3>1, <3>2, <1>1, <1>2, <1>4
    <3> QED
      BY <3>1, <3>3, <1>4, <1>5, <1>7 DEF IsOpen, CallbackAt
  <2> QED
    BY <2>1, <2>2
<1> QED
  BY <1>6, <1>7

LEMMA ToNewVectorOpensOne ==
  ASSUME VectorInv, NEW f \in Function, NEW time \in Tick,
         NEW c \in Container, ToNewVector(f, time, c), UNCHANGED <<currentTick, i, executing>>
  PROVE  \A t \in Tick, k \in Nat :
           IsOpen(t, k)' => \/ t = time /\ k = 1 /\ CallbackAt(t, k)' = f
                            \/ IsOpen(t, k) /\ CallbackAt(t, k)' = CallbackAt(t, k)
<1>1. (\A t \in Tick : scheduleSet[t] # c) /\ contents[c] = <<>>
  BY TakenIsUnused DEF ToNewVector
<1>2. /\ contents'[c] = <<f>>
      /\ \A b \in Container : b # c => contents'[b] = contents[b]
  BY <1>1 DEF ToNewVector, VectorInv, TypeOK
<1>3. /\ scheduleSet'[time] = c /\ scheduleSet[time] = NoContainer
      /\ \A t \in Tick : t # time => scheduleSet'[t] = scheduleSet[t]
  BY DEF ToNewVector, VectorInv, TypeOK
<1>4. SUFFICES ASSUME NEW t \in Tick, NEW k \in Nat, IsOpen(t, k)'
               PROVE  \/ t = time /\ k = 1 /\ CallbackAt(t, k)' = f
                      \/ IsOpen(t, k) /\ CallbackAt(t, k)' = CallbackAt(t, k)
  OBVIOUS
<1>5. FirstOpen(t)' = FirstOpen(t)
  BY DEF FirstOpen
<1>6. CASE t = time
  <2>1. k \in FirstOpen(t) .. 1
    BY <1>2, <1>3, <1>4, <1>5, <1>6 DEF IsOpen
  <2>2. FirstOpen(t) = 1
    <3>1. i > 0 => currentTick # time
      BY <1>3, CurrentVector
    <3> QED
      BY <3>1, <1>6 DEF FirstOpen
  <2> QED
    BY <2>1, <2>2, <1>2, <1>3, <1>6 DEF CallbackAt
<1>7. CASE t # time
  <2>1. scheduleSet'[t] = scheduleSet[t] /\ scheduleSet[t] # NoContainer /\ scheduleSet[t] # c
    BY <1>1, <1>3, <1>4, <1>7 DEF IsOpen
  <2>2. contents'[scheduleSet[t]] = contents[scheduleSet[t]]
    BY <2>1, <1>2, VectorOfTick
  <2> QED
    BY <2>1, <2>2, <1>4, <1>5 DEF IsOpen, CallbackAt
<1> QED
  BY <1>6, <1>7

LEMMA CallInvNext ==
  ASSUME VectorInv, CallInv, [Next]_vars
  PROVE  CallInv'
<1>1. currentTick \in Tick /\ i \in Nat
  BY CurrentVector
<1>2. CASE EmptyTick
  BY <1>1, <1>2, NothingOpened DEF EmptyTick, IsOpen, FirstOpen, CallbackAt, Tick
<1>3. CASE StartTick
  BY <1>1, <1>3, NothingOpened DEF StartTick, IsOpen, FirstOpen, CallbackAt
<1>4. CASE Call
  BY <1>4, NothingOpened DEF Call, IsOpen, FirstOpen, CallbackAt
<1>5. CASE Return
  <2>1. i > 0 /\ i <= Len(current) /\ Len(current) \in Nat /\ scheduleSet[currentTick] # NoContainer
    BY <1>5, CurrentVector DEF Return
  <2>2. IsOpen(currentTick, i) /\ current[i] = CallbackAt(currentTick, i)
    BY <2>1, <1>1 DEF IsOpen, FirstOpen, CallbackAt, current
  <2>3. ASSUME NEW t \in Tick, NEW k \in Nat, IsOpen(t, k)'
        PROVE  /\ IsOpen(t, k) /\ CallbackAt(t, k)' = CallbackAt(t, k)
               /\ <<t, k>> # <<currentTick, i>>
    <3>1. UNCHANGED <<scheduleSet, contents, currentTick>> /\ i' = i + 1
      BY <1>5 DEF Return
    <3>2. CASE t = currentTick
      BY <2>1, <2>3, <3>1, <3>2, <1>1 DEF IsOpen, FirstOpen, CallbackAt, current
    <3>3. CASE t # currentTick
      BY <2>3, <3>1, <3>3, <1>1 DEF IsOpen, FirstOpen, CallbackAt
    <3> QED
      BY <3>2, <3>3
  <2>4. functionPool' \ functionPool \subseteq {CallbackAt(currentTick, i)}
    BY <2>2, <1>5 DEF Return
  <2>5. ASSUME NEW t \in Tick, NEW k \in Nat, IsOpen(t, k)'
        PROVE  CallbackAt(t, k) \notin functionPool' \ functionPool
    <3>1. CallbackAt(t, k) # CallbackAt(currentTick, i)
      BY <2>2, <2>3, <2>5, <1>1 DEF CallInv
    <3> QED
      BY <3>1, <2>4
  <2> QED
    BY <2>3, <2>5, NothingOpened
<1>6. CASE EndTick
  <2> DEFINE c == scheduleSet[currentTick]
  <2>1. c \in Container /\ \A t \in Tick : t # currentTick => scheduleSet[t] # c
    BY <1>1, <1>6, VectorOfTick, CurrentVector DEF EndTick
  <2>2. /\ scheduleSet'[currentTick] = NoContainer
        /\ \A t \in Tick : t # currentTick => scheduleSet'[t] = scheduleSet[t]
        /\ \A b \in Container : b # c => contents'[b] = contents[b]
        /\ functionPool' = functionPool /\ i' = 0 /\ currentTick' = currentTick + 1
    BY <1>1, <1>6, <2>1 DEF EndTick, Cleared, VectorInv, TypeOK
  <2>3. ASSUME NEW t \in Tick, NEW k \in Nat, IsOpen(t, k)'
        PROVE  IsOpen(t, k) /\ CallbackAt(t, k)' = CallbackAt(t, k)
    <3>1. t # currentTick /\ scheduleSet'[t] = scheduleSet[t] /\ scheduleSet[t] # NoContainer
      BY <2>2, <2>3 DEF IsOpen
    <3>2. contents'[scheduleSet[t]] = contents[scheduleSet[t]]
      BY <2>1, <2>2, <3>1, VectorOfTick
    <3>3. FirstOpen(t)' = 1 /\ FirstOpen(t) = 1
      BY <2>2, <3>1 DEF FirstOpen
    <3> QED
      BY <2>3, <3>1, <3>2, <3>3 DEF IsOpen, CallbackAt
  <2> QED
    BY <2>2, <2>3, NothingOpened
<1>7. ASSUME NEW f \in Function, NEW dT \in 0..MaxDelay, ScheduleEvent(f, dT)
      PROVE  CallInv'
  <2> DEFINE time == currentTick + dT
  <2>1. time \in Tick /\ f \in functionPool /\ functionPool' = functionPool \ {f}
        /\ UNCHANGED <<currentTick, i, executing>>
    BY <1>7, ScheduleCases
  <2>2. CASE ToVector(f, time)
    <3>1. Len(contents[scheduleSet[time]]) + 1 \in Nat
      BY <2>1, <2>2, VectorOfTick DEF ToVector
    <3> QED
      BY ZenonT(60), <2>1, <2>2, <3>1, ToVectorOpensOne, OneOpened
  <2>3. ASSUME NEW c \in Container, ToNewVector(f, time, c)
        PROVE  CallInv'
    BY <2>1, <2>3, ToNewVectorOpensOne, OneOpened
  <2> QED
    BY <1>7, <2>2, <2>3, ScheduleCases
<1>8. CASE UNCHANGED vars
  BY <1>8, NothingOpened DEF vars, IsOpen, FirstOpen, CallbackAt
<1> QED
  BY <1>2, <1>3, <1>4, <1>5, <1>6, <1>7, <1>8 DEF Next, ProcessTick

LEMMA CallInvSuffices ==
  ASSUME VectorInv, CallInv
  PROVE  OneCallPerFunction
<1> DEFINE due == UNION {Due(t) : t \in Tick}
<1>1. ASSUME NEW p \in due
      PROVE  /\ p = <<p[1], p[2]>> /\ p[1] \in Tick /\ p[2] \in Nat
             /\ IsOpen(p[1], p[2]) /\ FunctionAt(p) = CallbackAt(p[1], p[2])
             /\ executing /\ p[1] = currentTick => p[2] # i
  <2>1. PICK t \in Tick : p \in Due(t)
    OBVIOUS
  <2>2. scheduleSet[t] # NoContainer
    BY <2>1 DEF Due
  <2>3. PICK k \in FirstDue(t) .. Len(contents[scheduleSet[t]]) : p = <<t, k>>
    BY <2>1, <2>2 DEF Due
  <2>4. /\ FirstDue(t) \in Nat /\ FirstDue(t) >= FirstOpen(t)
        /\ executing /\ t = currentTick => FirstDue(t) = i + 1
    BY CurrentVector DEF FirstDue, FirstOpen
  <2>5. FirstOpen(t) \in Nat /\ Len(contents[scheduleSet[t]]) \in Nat
    BY <2>2, CurrentVector, VectorOfTick DEF FirstOpen
  <2>6. k \in Nat /\ IsOpen(t, k) /\ (executing /\ t = currentTick => k # i)
    BY <2>2, <2>3, <2>4, <2>5, CurrentVector DEF IsOpen
  <2> QED
    BY <2>3, <2>6 DEF FunctionAt, CallbackAt
<1> HIDE DEF due
<1>2. \A p, q \in due : FunctionAt(p) = FunctionAt(q) => p = q
  <2> SUFFICES ASSUME NEW p \in due, NEW q \in due, FunctionAt(p) = FunctionAt(q)
               PROVE  p = q
    OBVIOUS
  <2>1. p[1] = q[1] /\ p[2] = q[2]
    BY <1>1 DEF CallInv
  <2> QED
    BY <2>1, <1>1
<1>3. \A p \in due : FunctionAt(p) \notin functionPool
  BY <1>1 DEF CallInv
<1>4. ASSUME executing
      PROVE  current[i] \notin functionPool /\ \A p \in due : FunctionAt(p) # current[i]
  <2>1. /\ currentTick \in Tick /\ i \in Nat /\ IsOpen(currentTick, i)
        /\ current[i] = CallbackAt(currentTick, i)
    BY <1>4, CurrentVector DEF IsOpen, FirstOpen, CallbackAt, current
  <2> QED
    BY <2>1, <1>1, <1>4 DEF CallInv
<1> QED
  BY <1>2, <1>3, <1>4 DEF OneCallPerFunction, due

(* A callback object in use waits for exactly one call: the pool never hands *)
(* it out before the call has ended (StoredFunctionCall.h, Pool.h).         *)
THEOREM OneCallEach == Spec => []OneCallPerFunction
<1>1. Init => CallInv
  BY DEF Init, CallInv, IsOpen
<1>2. VectorInv /\ CallInv /\ [Next]_vars => CallInv'
  BY CallInvNext
<1>3. VectorInv /\ CallInv => OneCallPerFunction
  BY CallInvSuffices
<1> QED
  BY <1>1, <1>2, <1>3, VectorInvariant, PTL DEF Spec
-----------------------------------------------------------------------------
(* The implementation of EventQueue: each step changes the agenda of at most *)
(* one tick, as a step of the queue does, or none.                          *)

LEMMA SubSeqOfAppend ==
  ASSUME NEW S, NEW s \in Seq(S), NEW x \in S, NEW m \in 1..(Len(s) + 1)
  PROVE  SubSeq(Append(s, x), m, Len(s) + 1) = Append(SubSeq(s, m, Len(s)), x)
<1> DEFINE a == SubSeq(Append(s, x), m, Len(s) + 1)
           b == SubSeq(s, m, Len(s))
<1>1. /\ Append(s, x) \in Seq(S) /\ Len(s) \in Nat
      /\ \A k \in 1..Len(s) : Append(s, x)[k] = s[k]
      /\ Append(s, x)[Len(s) + 1] = x /\ Len(Append(s, x)) = Len(s) + 1
  OBVIOUS
<1>2. /\ a \in Seq(S) /\ Len(a) = Len(s) + 2 - m
      /\ \A k \in 1..(Len(s) + 2 - m) : a[k] = Append(s, x)[m + k - 1]
  BY SMTT(60), <1>1, SubSeqProperties
<1>3. /\ b \in Seq(S) /\ Len(b) = Len(s) + 1 - m
      /\ \A k \in 1..(Len(s) + 1 - m) : b[k] = s[m + k - 1]
  BY SubSeqProperties
<1> HIDE DEF a, b
<1>4. /\ Append(b, x) \in Seq(S) /\ Len(Append(b, x)) = Len(b) + 1
      /\ \A k \in 1..Len(b) : Append(b, x)[k] = b[k]
      /\ Append(b, x)[Len(b) + 1] = x
  BY <1>3, AppendProperties
<1>5. Len(b) = Len(a) - 1 /\ Len(a) \in Nat /\ Len(a) = Len(s) + 2 - m /\ Len(s) \in Nat
  BY <1>1, <1>2, <1>3
<1>6. ASSUME NEW k \in 1..Len(a)
      PROVE  a[k] = Append(b, x)[k]
  <2>1. CASE k = Len(a)
    <3>1. a[k] = Append(s, x)[m + k - 1] /\ m + k - 1 = Len(s) + 1
      BY <2>1, <1>1, <1>2
    <3> QED
      BY <2>1, <3>1, <1>1, <1>4, <1>5
  <2>2. CASE k # Len(a)
    <3>1. k \in 1..Len(b) /\ m + k - 1 \in 1..Len(s)
      BY <2>2, <1>5
    <3>2. a[k] = s[m + k - 1]
      <4>1. \A j \in 1..Len(s) : Append(s, x)[j] = s[j]
        BY <1>1
      <4>2. Append(s, x)[m + k - 1] = s[m + k - 1]
        BY <3>1, <4>1
      <4>3. k \in 1..(Len(s) + 2 - m)
        BY <1>2
      <4> QED
        BY <4>2, <4>3, <1>2
    <3>3. b[k] = s[m + k - 1]
      BY <3>1, <1>1, <1>3
    <3> QED
      BY <3>1, <3>2, <3>3, <1>4
  <2> QED
    BY <2>1, <2>2
<1>7. a = Append(b, x)
  <2>1. Len(Append(b, x)) = Len(a)
    BY <1>4, <1>5
  <2> QED
    BY <2>1, <1>2, <1>4, <1>6, SeqEqual
<1> QED
  BY <1>7 DEF a, b

LEMMA SubSeqHasFirst ==
  ASSUME NEW S, NEW s \in Seq(S), NEW m \in 1..Len(s)
  PROVE  SubSeq(s, m, Len(s)) # <<>>
<1>1. m \in Int /\ Len(s) \in Int /\ m <= Len(s) /\ \A k \in m..Len(s) : s[k] \in S
  OBVIOUS
<1> DEFINE a == SubSeq(s, m, Len(s))
<1>2. Len(a) = Len(s) - m + 1
  BY <1>1, SubSeqProperties
<1> HIDE DEF a
<1>3. Len(a) # 0
  BY <1>1, <1>2
<1>4. a # <<>>
  BY <1>3
<1> QED
  BY <1>4 DEF a

LEMMA FirstDueIsPlace ==
  ASSUME VectorInv, NEW t \in Tick, scheduleSet[t] # NoContainer
  PROVE  /\ FirstDue(t) \in 1..(Len(contents[scheduleSet[t]]) + 1)
         /\ contents[scheduleSet[t]] \in Seq(Function)
<1>1. contents[scheduleSet[t]] \in Seq(Function) /\ Len(contents[scheduleSet[t]]) \in Nat
  BY VectorOfTick
<1>2. CASE t # currentTick \/ i = 0
  BY <1>1, <1>2, CurrentVector DEF FirstDue
<1>3. CASE t = currentTick /\ i > 0
  BY <1>1, <1>3, CurrentVector DEF FirstDue, current
<1> QED
  BY <1>2, <1>3, CurrentVector

LEMMA AgendaOfTick ==
  ASSUME NEW t \in Tick
  PROVE  /\ scheduleSet[t] = NoContainer => Agenda[t] = <<>>
         /\ scheduleSet[t] # NoContainer =>
              Agenda[t] = SubSeq(contents[scheduleSet[t]], FirstDue(t), Len(contents[scheduleSet[t]]))
BY DEF Agenda

LEMMA AgendaOfTickNext ==
  ASSUME NEW t \in Tick
  PROVE  /\ scheduleSet'[t] = NoContainer => Agenda'[t] = <<>>
         /\ scheduleSet'[t] # NoContainer =>
              Agenda'[t] = SubSeq(contents'[scheduleSet'[t]], FirstDue(t)', Len(contents'[scheduleSet'[t]]))
BY DEF Agenda

(* A tick whose vector and position stay keeps its agenda.                  *)
LEMMA SameAgenda ==
  ASSUME NEW t \in Tick, scheduleSet'[t] = scheduleSet[t],
         scheduleSet[t] # NoContainer =>
           contents'[scheduleSet[t]] = contents[scheduleSet[t]] /\ FirstDue(t)' = FirstDue(t)
  PROVE  Agenda'[t] = Agenda[t]
BY AgendaOfTick, AgendaOfTickNext

LEMMA AgendaIsFunction == Agenda = [t \in Tick |-> Agenda[t]] /\ Agenda' = [t \in Tick |-> Agenda'[t]]
BY DEF Agenda

LEMMA AllAgendasSame ==
  ASSUME \A t \in Tick : Agenda'[t] = Agenda[t]
  PROVE  Agenda' = Agenda
BY AgendaIsFunction

LEMMA OneAgendaChanges ==
  ASSUME NEW time \in Tick, NEW s, Agenda'[time] = s,
         \A t \in Tick : t # time => Agenda'[t] = Agenda[t]
  PROVE  Agenda' = [Agenda EXCEPT ![time] = s]
<1>1. [Agenda EXCEPT ![time] = s] = [t \in Tick |-> IF t = time THEN s ELSE Agenda[t]]
  BY AgendaIsFunction
<1> QED
  BY <1>1, AgendaIsFunction
-----------------------------------------------------------------------------
LEMMA ScheduleIsSchedule ==
  ASSUME VectorInv, NEW f \in Function, NEW dT \in 0..MaxDelay, ScheduleEvent(f, dT)
  PROVE  Queue!Schedule(f, currentTick + dT)
<1> DEFINE time == currentTick + dT
<1>1. time \in Tick /\ currentTick \in Tick /\ currentTick <= time
      /\ UNCHANGED <<currentTick, i, executing>>
  BY ScheduleCases, CurrentVector DEF Tick
<1>2. \A t \in Tick : FirstDue(t)' = FirstDue(t)
  BY <1>1 DEF FirstDue
<1> HIDE DEF time
<1>3. CASE ToVector(f, time)
  <2> DEFINE c == scheduleSet[time]
             v == contents[c]
  <2>1. /\ c # NoContainer /\ c \in Container /\ v \in Seq(Function)
        /\ \A t \in Tick : t # time => scheduleSet[t] # c
    BY <1>1, <1>3, VectorOfTick DEF ToVector
  <2>2. /\ scheduleSet' = scheduleSet /\ contents'[c] = Append(v, f)
        /\ \A b \in Container : b # c => contents'[b] = contents[b]
    BY <2>1, <1>3 DEF ToVector, VectorInv, TypeOK
  <2>3. Agenda'[time] = Append(Agenda[time], f)
    <3>1. FirstDue(time) \in 1..(Len(v) + 1)
      BY <1>1, <2>1, FirstDueIsPlace
    <3>2. Agenda'[time] = SubSeq(Append(v, f), FirstDue(time), Len(v) + 1)
      <4>1. Len(Append(v, f)) = Len(v) + 1
        BY <2>1
      <4> QED
        BY <4>1, <1>1, <1>2, <2>1, <2>2, AgendaOfTickNext
    <3>3. Agenda[time] = SubSeq(v, FirstDue(time), Len(v))
      BY <1>1, <2>1, AgendaOfTick
    <3> HIDE DEF v
    <3> QED
      BY <3>1, <3>2, <3>3, <2>1, SubSeqOfAppend
  <2>4. \A t \in Tick : t # time => Agenda'[t] = Agenda[t]
    BY <1>2, <2>1, <2>2, SameAgenda, VectorOfTick
  <2> QED
    BY <1>1, <2>3, <2>4, OneAgendaChanges DEF Queue!Schedule, time
<1>4. ASSUME NEW c \in Container, ToNewVector(f, time, c)
      PROVE  Queue!Schedule(f, time)
  <2>1. (\A t \in Tick : scheduleSet[t] # c) /\ contents[c] = <<>>
    BY <1>4, TakenIsUnused DEF ToNewVector
  <2>2. /\ scheduleSet'[time] = c /\ scheduleSet[time] = NoContainer /\ c # NoContainer
        /\ \A t \in Tick : t # time => scheduleSet'[t] = scheduleSet[t]
        /\ contents'[c] = <<f>>
        /\ \A b \in Container : b # c => contents'[b] = contents[b]
    BY <1>1, <1>4, <2>1 DEF ToNewVector, VectorInv, TypeOK
  <2>3. FirstDue(time) = 1
    BY <2>2, CurrentVector DEF FirstDue
  <2>4. Agenda'[time] = Append(Agenda[time], f)
    <3>1. Agenda[time] = <<>>
      BY <1>1, <2>2, AgendaOfTick
    <3>2. Agenda'[time] = SubSeq(<<f>>, 1, Len(<<f>>))
      BY <1>1, <1>2, <2>2, <2>3, AgendaOfTickNext
    <3>3. SubSeq(<<f>>, 1, Len(<<f>>)) = <<f>>
      BY SubSeqFull, <<f>> \in Seq(Function)
    <3> QED
      BY <3>1, <3>2, <3>3
  <2>5. \A t \in Tick : t # time => Agenda'[t] = Agenda[t]
    BY <1>2, <2>1, <2>2, SameAgenda, VectorOfTick
  <2> QED
    BY <1>1, <2>4, <2>5, OneAgendaChanges DEF Queue!Schedule
<1> QED
  BY <1>3, <1>4, ScheduleCases DEF time

LEMMA CallIsCall ==
  ASSUME VectorInv, Call
  PROVE  Queue!Call
<1>1. /\ currentTick \in Tick /\ i \in 1..Len(current) /\ current \in Seq(Function)
      /\ scheduleSet[currentTick] # NoContainer /\ ~executing
      /\ UNCHANGED <<currentTick, scheduleSet, contents, i>> /\ executing'
  BY CurrentVector DEF Call, LoopGoesOn
<1>2. FirstDue(currentTick) = i /\ FirstDue(currentTick)' = i + 1
  BY <1>1 DEF FirstDue
<1>3. /\ Agenda[currentTick] = SubSeq(current, i, Len(current))
      /\ Agenda'[currentTick] = SubSeq(current, i + 1, Len(current))
  BY <1>1, <1>2, AgendaOfTick, AgendaOfTickNext DEF current
<1>4. \A t \in Tick : t # currentTick => Agenda'[t] = Agenda[t]
  BY <1>1, SameAgenda DEF FirstDue
<1>5. Agenda[currentTick] # <<>> /\ Agenda'[currentTick] = Tail(Agenda[currentTick])
  <2>1. Len(current) \in i..Len(current) /\ \A k \in i..Len(current) : current[k] \in Function
    BY <1>1
  <2>2. SubSeq(current, i, Len(current)) # <<>>
    BY <1>1, SubSeqHasFirst
  <2>3. Tail(SubSeq(current, i, Len(current))) = SubSeq(current, i + 1, Len(current))
    BY <1>1, <2>1, HeadTailOfSubSeq
  <2> QED
    BY <1>3, <2>2, <2>3
<1> QED
  BY <1>1, <1>4, <1>5, OneAgendaChanges DEF Queue!Call

(* A tick ends, with callbacks or without, when nothing of it is due.       *)
LEMMA EndIsAdvance ==
  ASSUME VectorInv, EmptyTick \/ EndTick
  PROVE  Queue!Advance
<1>1. currentTick \in Tick /\ currentTick < MaxTick /\ currentTick' = currentTick + 1 /\ ~executing /\ ~executing'
  BY CurrentVector DEF EmptyTick, EndTick
<1>2. Agenda[currentTick] = <<>> /\ Agenda'[currentTick] = <<>>
  <2>1. CASE EmptyTick
    BY <2>1, <1>1, AgendaOfTick, AgendaOfTickNext DEF EmptyTick
  <2>2. CASE EndTick
    <3>1. scheduleSet[currentTick] # NoContainer /\ i > 0 /\ i > Len(current) /\ current \in Seq(Function)
      BY <2>2, CurrentVector DEF EndTick, LoopGoesOn
    <3>2. FirstDue(currentTick) = i
      BY <1>1, <3>1, CurrentVector DEF FirstDue
    <3>3. Agenda[currentTick] = SubSeq(current, i, Len(current))
      BY <1>1, <3>1, <3>2, AgendaOfTick DEF current
    <3>4. SubSeq(current, i, Len(current)) = <<>>
      BY <3>1, CurrentVector, SubSeqEmpty
    <3>5. scheduleSet'[currentTick] = NoContainer
      BY <1>1, <2>2 DEF EndTick, VectorInv, TypeOK
    <3> QED
      BY <1>1, <3>3, <3>4, <3>5, AgendaOfTickNext
  <2> QED
    BY <2>1, <2>2
<1>3. ASSUME NEW t \in Tick, t # currentTick
      PROVE  Agenda'[t] = Agenda[t]
  <2>1. i' = 0 /\ FirstDue(t) = 1 /\ FirstDue(t)' = 1
    BY <1>1, <1>3 DEF EmptyTick, EndTick, FirstDue
  <2>2. scheduleSet'[t] = scheduleSet[t]
    BY <1>1, <1>3 DEF EmptyTick, EndTick, VectorInv, TypeOK
  <2>3. scheduleSet[t] # NoContainer => contents'[scheduleSet[t]] = contents[scheduleSet[t]]
    <3>1. CASE EmptyTick
      BY <3>1 DEF EmptyTick
    <3>2. CASE EndTick
      <4>1. scheduleSet[currentTick] # NoContainer
        BY <3>2, CurrentVector DEF EndTick
      <4>2. scheduleSet[t] # scheduleSet[currentTick]
        BY <4>1, <1>1, <1>3, VectorOfTick
      <4> QED
        BY <3>2, <4>2, VectorOfTick DEF EndTick, Cleared, VectorInv, TypeOK
    <3> QED
      BY <3>1, <3>2
  <2> QED
    BY <2>1, <2>2, <2>3, SameAgenda
<1>4. Agenda' = Agenda
  BY <1>2, <1>3, AllAgendasSame
<1> QED
  BY <1>1, <1>2, <1>4 DEF Queue!Advance

LEMMA BetweenCalls ==
  ASSUME VectorInv, StartTick \/ Return
  PROVE  UNCHANGED <<currentTick, Agenda>>
<1>1. UNCHANGED <<currentTick, scheduleSet, contents>>
  BY DEF StartTick, Return
<1>2. \A t \in Tick : FirstDue(t)' = FirstDue(t)
  BY <1>1, CurrentVector DEF StartTick, Return, FirstDue
<1>3. Agenda' = Agenda
  BY <1>1, <1>2, SameAgenda, AllAgendasSame
<1> QED
  BY <1>1, <1>3

LEMMA QueueInit == Init => Queue!Init
<1> SUFFICES ASSUME Init PROVE Queue!Init
  OBVIOUS
<1>1. \A t \in Tick : scheduleSet[t] = NoContainer
  BY DEF Init
<1>2. Agenda = [t \in Tick |-> <<>>]
  BY <1>1 DEF Agenda
<1> QED
  BY <1>2 DEF Init, Queue!Init, Queue!Tick, Tick

LEMMA QueueStep ==
  ASSUME VectorInv, [Next]_vars
  PROVE  [Queue!Next]_<<currentTick, Agenda>>
<1>1. CASE EmptyTick \/ EndTick
  BY <1>1, EndIsAdvance DEF Queue!Next
<1>2. CASE StartTick \/ Return
  BY <1>2, BetweenCalls
<1>3. CASE Call
  BY <1>3, CallIsCall DEF Queue!Next
<1>4. ASSUME NEW f \in Function, NEW dT \in 0..MaxDelay, ScheduleEvent(f, dT)
      PROVE  Queue!Next
  <2>1. currentTick + dT \in Queue!Tick
    BY <1>4, ScheduleCases DEF Queue!Tick, Tick
  <2> QED
    BY <1>4, <2>1, ScheduleIsSchedule DEF Queue!Next
<1>5. CASE UNCHANGED vars
  BY <1>5 DEF vars, Agenda, FirstDue
<1> QED
  BY <1>1, <1>2, <1>3, <1>4, <1>5 DEF Next, ProcessTick

(* To those who schedule events, the recycled vectors of ProcessTick (564)  *)
(* are one queue per tick.                                                  *)
THEOREM IsAnEventQueue == Spec => ImplementsQueue
<1>1. VectorInv /\ [Next]_vars => [Queue!Next]_<<currentTick, Agenda>>
  BY QueueStep
<1> QED
  BY <1>1, QueueInit, VectorInvariant, PTL DEF Spec, ImplementsQueue, Queue!Spec
=============================================================================
