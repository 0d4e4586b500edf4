# Verification of the memory system of sesc-echang

This directory holds TLA+ specifications of the memory system under
`src/src/MemSys`: an event-driven model of caches, coherence directories, a
network and memories that plugs into the SESC processor simulator. The
specifications are checked with TLC on small instances, and part of what they
state is proved with TLAPS for every size. Line numbers refer to the files
under `src/`; `PROJECT.json` maps every definition to the lines it models.

## 1. The system

A simulation is one process with one thread. All concurrency is simulated: a
device handles one message at a time in `RecvMsg`, changes its tables, and
sends messages, each of which is a callback scheduled with the `EventManager`
for a later tick. What can go wrong is therefore in the order of handlers, and
that order depends on configured delays and on a random network.

The configurations studied are the two that `Main` of `memgen/memgen/MemGen.cs`
generates (534-580), `OutBIPDirectoryMemory` (499) and `OutOriginDirectoryMemory`
(462), with per node a processor interface, L1, L2, a directory and a memory,
and all nodes on one `RandomLoadNetwork`; and the `OutSimpleMemory` variants
(340-425), whose calls are commented out, with caches on a `SnoopyBus`.

| Component | State | Operations | Depends on |
|---|---|---|---|
| `EventManager` | a vector of callbacks per future tick, pools of vectors and callbacks, the current tick | `ScheduleEvent`, `ProcessTick` | callbacks that schedule callbacks |
| `Connection`, `BaseMemDevice` | two ends and a latency | `SendMsg` schedules a delivery | `EventManager` |
| `RandomLoadNetwork` | messages in flight (load), last arrival per pair | `RecvMsg`, `DeliverMsg` | `EventManager` |
| `BIPDirectory` | at the home: directory entry, lookups being served, invalidation counts, memory accesses; at every node: reads and evictions in progress, fetches and invalidations passed to the cache | one handler per message | cache, memory, network |
| `BIPMOESICache`, `MOESICache`, `MESICache`, `MSICache` | frames, requests that wait for a block / a frame / the level above, evictions and invalidations in progress | one handler per message | level above, level below |
| `TestMemory` | none | answers after a latency | |
| `SESCProcessorInterface` | table of outstanding requests | `access`, `RecvMsg` | libcore, first cache |
| `OriginDirectory` | at every node a state machine on the side of the cache: state, replies held back, acknowledgements counted, reads that wait; at the home another: state, owner, previous owner, sharers, the request being served | one handler per state and message | cache, memory, network |
| `SnoopyBus` | messages that wait for the bus per connection, a transfer per address with the responses still to come, whether a transfer is on the bus | request, response, arbitration | caches above, one device below |
| `Directory`, `NetworkMemoryInterface` | the four-stage protocol: as `BIPDirectory`, plus a table of requests on the network | | |
| `ThreeStageDirectory` | a header only | | |
| `Factory`, `MemorySystem`, configuration, `memgen` | built once at start | | |

How they interact, with `BIPDirectory`: the processor sends a read or a write to L1; a miss becomes a
read to L2 and from there to the directory of the node, which sends a *lookup*
to the directory of the home of the address. The home refuses it while it
serves another one it cannot combine it with (and tries again later), or
accepts it and *fetches* the block: from the owner, from a sharer, or from its
memory. For an exclusive lookup it then *invalidates* the other sharers and
counts their acknowledgements. The answer travels back. At any moment a cache
may give a block up, which is an *eviction* with a handshake of its own.

With `OriginDirectory` the home never waits for the network while it serves a
request for an unowned or shared block: it answers with the number of
acknowledgements the requester has to wait for, and those go to the requester. For
a block that is owned it sends the owner an *intervention* and the requester a
*speculative reply* from memory; the previous owner answers the requester
directly. Requests that come while the home is busy are refused and made again
60 ticks later.

On a `SnoopyBus` a request is broadcast to the caches; when each has answered and
none had the block, the device below is asked.

Behaviours that are hard here:

* an eviction crosses a fetch or an invalidation for the same block;
* messages between two nodes, and between two devices of a node, overtake each
  other because each is sent with a delay of its own;
* refused lookups are made again under the same number;
* a block is invalidated while requests wait for it, so that responses and
  reads no longer pair up;
* an eviction of L2 is cancelled because the block is wanted again;
* with `OriginDirectory` the answer to one request comes in parts from several nodes,
  in any order: reply, acknowledgements, speculative reply, refusal;
* the next transfer of a bus begins while the data of the one before is still on it;
* callbacks, vectors and messages are pooled and recycled.

What makes each component correct: the **event manager** calls every callback
once, in its tick, in order. The **network** keeps the order it is asked to keep
and counts its load. The **directory** works for at most one kind of lookup
at a time, by one fetch or one round of invalidations; loses no request; grants
a block exclusively to one node. A **cache** answers each request from below
once, whatever it is doing, strands no request from above, and takes for its own no
block it was not granted. The **Origin directory** counts the acknowledgements of a
request right wherever they wait, and leaves no node waiting for an answer
that nobody will give. The **bus** counts each response to the request it belongs
to, and falls idle with nothing waiting. **Together**, caches over directories behave
like the directory module says, and at most one node can write a block.

## 2. The modules

| Module | Models | Composes |
|---|---|---|
| `EventQueue` | what scheduling promises: a queue per tick | |
| `EventManager` | `EventManager`, `Pool`, `PooledFunction` with recycled vectors and callback objects | implements `EventQueue` |
| `EventManager_proofs` | theorems on it | |
| `RandomLoadNetwork` | the network with `RandomLoadedCalculator` and simulated time | `EventQueue` |
| `RandomLoadNetwork_proofs` | theorems on it | |
| `BIPDirectory` | the protocol between the directories of all nodes, for one address, over caches that keep a contract | |
| `BIPDirectory_proofs` | theorems on it: types, lookups and evictions; fetches, rounds of invalidations and grants; reads | |
| `CacheFamily` | the cache classes as operators on the record of one object, with what they differ in as a parameter | |
| `MSICache`, `MESICache`, `MOESICache`, `BIPMOESICache` | that parameter for each class | `CacheFamily` |
| `FoldLemmas` | lemmas: what a handler that runs for each element of a queue keeps | |
| `CacheFamily_proofs` | lemmas: what each handler of a cache keeps, for any class | `FoldLemmas` |
| `BIPCoherence` | one cache per node over `BIPDirectory` | `BIPDirectory`, `BIPMOESICache`; implements `BIPDirectory` |
| `BIPCoherence_proofs` | lemmas on caches and directories together; the theorems, the refinement among them | `CacheFamily_proofs`, `BIPDirectory_proofs` |
| `CacheStack` | L1 over L2 of any class, with the delays between them | two instances of `CacheFamily` |
| `CacheStack_proofs` | theorems on it | two instances of `CacheFamily_proofs` |
| `SnoopyBus` | the bus, with a cache per processor above it and the memory below | `CacheFamily` |
| `SnoopyBus_proofs` | theorems on it | `CacheFamily_proofs` |
| `OriginDirectory` | the Origin protocol between all nodes, with its delays, over a contract of the caches | |
| `MC*` | model values, symmetry and scenarios for TLC | |

### BIPDirectory

One action per handler, named as in the code. All tables are keyed by address
or by message number, so one address stands for all; the node it hashes to is
`Home`. `home` groups the variables of the home's directory, `local` the
per-node ones. `net` is the set of messages between directories, callbacks of
the home to itself included, `toCache` the messages on their way to a cache.
Both are delivered in any order: the configuration switches the ordering of
the network off (`MemGen.cs:323`), and directory and cache send with
different delays. The set representation loses no duplicates:
`EvictionHandshake`, `InvalidationRound` and `RequestTracked` state that there
are none.

The cache is an environment: it reads and evicts when it likes, answers each
fetch and each invalidation once, and gives a block up if a satisfied fetch
asked for that. Section *BIPCoherence* discharges this.

Left out, and why: `OnLocalWrite`, `OnRemoteWrite` and their responses (a cache
turns a write miss into an exclusive read and never forwards a write); the branch
of `OnRemoteDirectoryNak` for invalidations (883-904; nothing sends such a
refusal); the unsatisfied branch of `OnRemoteReadResponse` (792-808; a
refusal is sent as a `DirectoryNak` instead); `reversePendingLocalReads`
(read only by code behind `if(false)`, 618 and 1014); `EvictionResponse` to
the cache, which throws it away; `originalRequestingNode`; statistics.

### CacheFamily and the four cache classes

`MSICache.cpp`, `MESICache.cpp`, `MOESICache.cpp` and `BIPMOESICache.cpp` are copies
of each other. They differ in which states are dirty, which a write has to leave,
in which a read is answered exclusively, what a block becomes when it arrives
exclusively, is read from below, or gets dirty data from above, and in
whether a response nobody waits for is turned into an eviction
(`BIPMOESICache.cpp:702`). `CacheFamily` has these as a record `class`, and each
class is a module that gives it its value.

An object is a record with the members of the class and two outboxes. A handler
is an operator from the object and a message to the set of objects it can leave,
so that the nested calls of the code (`UnlockBlock` performs the requests that
waited, which may lock the block again, and then makes those again that waited
for a frame) stay nested: a handler is one step however deep it calls. There is
one set of frames; all tables are keyed by tag or by set. Which evictable block
is evicted is open, which covers `LRUEvictionPolicy`, and with
`evictionPolicy = "Random"` the policy that draws below the size of the
set (32-46). `lastRead` and `lastWrite` are left out except for the test
`lastWrite != 0`, which decides whether an evicted block is attached.

### BIPCoherence and CacheStack

`BIPCoherence` puts one top cache per node between a processor that reads and
writes and `BIPDirectory`, for the block `Addr` and one other block that
competes with it for frames. `fromCache` is the channel to the directory, where
a message overtakes those sent with a longer delay. The one level stands for the
whole hierarchy of a node and has the times of L2.

`CacheStack` has both levels, of one of `Classes`, which is chosen at the start.
Here the time matters, because L2 sends an invalidation up with delay 0 and a
response with delay `hitTime`, so `queue` holds the scheduled messages with the
ticks that are left to them; those of one tick are delivered in the order of
scheduling, as the `EventManager` does. The directory is an environment that does
what `OneFetch` allows: at most one request at a cache for a block at a time. It
answers reads at any later time, so `missTime` of L2 is not counted. `granted`
remembers what it granted, for `OwnsOnlyWhatWasGranted`.

### SnoopyBus

`bus` has the members of the class: the waiting messages per connection, the
pending transfers, and `transferInProgress`. Arbitration picks one connection whose
first message that can go does not wait for a transfer of its address; the device
below wins if it competes (`RemoteFirstRandomArbitration`). A transfer is
broadcast to the other caches and asks the device below only if none of them had the
block. `AttemptTransfer` is a callback in `queue` like in the code, so that two of them
can be scheduled at once. `dataTime` and `plainTime` are the latencies on the bus of
a message with and without a block; with `dataTime = plainTime` they are the
constant calculator. The caches are those of `CacheFamily`. The memory answers
reads and evictions after `readTime`; `RemoteInvalidates` is what a shared
cache below the bus, instead of a memory, would do besides.

### OriginDirectory

The class is two state machines per address: `local[n]`, the side of the cache at each
node (`CacheData`), and `home`, the side of the directory (`DirectoryData`). A
handler is an operator from the data and a message to the data it leaves; the handler
for a message dispatches on the state as the code does. A message that the state
does not handle (`PrintError`), or an assertion that fails, gives `Error` and the
simulation stops (`Stop`). `Deliver` is one message, with every nested
`ProcessRemainingPendingLocalReads`, replay of a held-back message and answer it
leads to.

Time matters: whether an intervention meets an eviction or an invalidation overtakes a
reply is decided by delays, and with arbitrary ones most of the assertions fail. So
`events` has the delays of the generated configuration: 4 ticks to itself, its
cache and the network (`LOCAL_SEND_TIME`, the remote send time), 60 before a
refused request is made again, 57 for the memory, 13, 10 and 1 for L2. In the
network a message takes one of `latencies`. `scenario` is chosen at the start and
holds who uses the address and what the latencies are: `RandomLoadedCalculator`
draws from 100 to 110 times `networkMultiplyFactor`, and from 0 to 1 if that is 0
as in `Main` (540).

The caches are seen from below: a cache holds nothing, a shared or an exclusive
block; it reads, waits for the answer, answers interventions and
invalidations after the time L1 takes, and other blocks may push its block out
whenever it does not wait. `pendingMemoryWriteAccesses` is left out: nothing but
its own handlers reads it.

### EventManager and RandomLoadNetwork

`EventManager` has the containers and callback objects as model values, so that
a vector that is in the pool and in use at once, or an object recycled while an
event refers to it, would show. `Pool.h` takes any unused object. Time is
cut at `MaxTick`. `RandomLoadNetwork` has integer time, because the
computation of arrival times is what it is about.

## 3. The runs

| Run | Instance | Shows |
|---|---|---|
| `directory` | 3 nodes, 2 message numbers | the invariants and `GrantIsExclusive` under all orders of messages (683,010 states) |
| `directory_live` | 2 nodes, 2 numbers, fairness | accepted lookups are answered (84,990 states) |
| `event_manager` | 4 callbacks, 3 vectors, ticks to 6 | scheduling; the implementation of `EventQueue` (21,392 states) |
| `network_large_packets` | 2 nodes, 3 messages, time to 12 | order and load (64,205 states) |
| `coherence` | 2 nodes, 3 numbers, 2 tags for 1 frame, 3 requests per processor | no stranded request; caches keep the contract of the directory module (504,867 states) |
| `coherence_modified` | the same | **violation**: a stale copy beside a modified one |
| `cache_stack` | 4 classes, 2 tags for 1 frame per level, 3 requests, 2 directory requests | no request lost between L1 and L2; no level takes more than it was granted (2,284,758 states) |
| `cache_stack_evictions` | BIPMOESI, 3 tags for 2 frames per level, 4 requests, 1 of the directory | **violation**: an eviction of L2 is never finished |
| `bus` | 3 MOESI caches, 3 requests, 1 invalidation from below | responses are counted, nothing is left waiting (403,029 states) |
| `bus_modified` | the same without the invalidation | **violation**: the memory grants a block twice |
| `origin` | 3 nodes; `Generated` or `Slow` | the Origin protocol loses no request, eviction or acknowledgement (6,572,765 states) |
| `origin_lost_read` | 3 nodes; `Away` | **violation**: a read is queued and never processed |

### Properties of the passing runs

* `OneKindOfLookup`, `OneFetch`, `FetchMatchesLookup`: at the home shared and
  exclusive lookups never wait together; while lookups wait exactly one
  fetch or one round of invalidations is under way; and it is the right one.
* `InvalidationRound`: the acknowledgements still to come and those counted add
  up to those expected, and nobody else is listed when the last one arrives.
* `RequestTracked`: a read of a cache is in exactly one place, through refusals
  and retries. The one exception the code makes is stated in it: the home
  keeps its own entry of an exclusive read after a round (1113), so its table grows.
* `EvictionHandshake`: an eviction is pending exactly while one message of it
  is in flight.
* `GrantIsExclusive` (of steps): an exclusive grant leaves the grantee owner and
  nobody a sharer.
* `AcceptedLookupIsAnswered` (liveness): unless caches refuse fetches for ever.
* `VectorsAreSeparate`, `OneCallPerFunction`, `NothingLeftBehind`: no vector
  serves two ticks or comes out of the pool with callbacks in it; no callback
  object is called twice or recycled too early. `ImplementsQueue`: with the
  recycling hidden this is a queue per tick.
* `LoadIsExact`, `DeliveredInOrder`: the load counter is the number of messages
  in flight; order is kept if the shortest packet takes longer than
  the variation of the base latency.
* `LockedIffWaiting`: a block is locked exactly while requests wait for it.
  `FrameWaitersWillWake`: requests wait for a frame only while an unlock is due.
  `WaitersAreServed`: for every waiting request a response is still to come,
  although invalidations and surplus responses consume and create responses.
  `FetchesAreServed`: a read of the directory that L2 passed to L1 comes back; it is not
  so of invalidations (`cache_stack_evictions`).
  The first three are stated of `BIPCoherence` too.
* `OwnsOnlyWhatWasGranted`: dirty data that L1 gives back, perhaps after L2 has
  answered a read of somebody else, does not make L2 Modified or Exclusive again.
  True of MESI and MOESI. `MSICache` makes any block Modified (638), and
  `BIPMOESICache` may turn a surplus response into the eviction of a block it keeps
  (702), so it is not stated of them.
* `CachesKeepContract`: `BIPCoherence` implements `BIPDirectory`, if a
  request counts as being at the cache until its answer has reached the
  directory. So what `directory` shows holds with real caches.
* `ResponsesAreCounted`: a transfer of the bus counts exactly the requests and
  responses that are on their way, and the device below is asked last; so a
  response never meets the wrong transfer or none (the assertion at 129), even
  when transfers overlap or a second `AttemptTransfer` is scheduled.
* `IdleIsDone`: when nothing is scheduled, nothing waits on the bus or in a cache.
* `AcksAreCounted`: what a node was told to wait for, or will be, is what it has
  counted plus the invalidations and acknowledgements still under way, whether the
  reply or the acknowledgements come first.
* `MemoryIsAsked`, `BusyIsAnswered`: the home waits for memory exactly while a read
  is there, and for a previous owner only while the intervention, or what it leads
  to, is under way. `EvictionHandshake`: a node that waits to write back will hear of it.
* `RequestIsOut`, `CacheIsServed`: a node waits for the directory, and a
  cache for its node, only while the request or its answer is somewhere.
* `OnlyEvictionsForgetReads` (of steps): reads that are queued are taken up when the node
  has done waiting, but for the one state of the finding below.

### Findings

* `coherence_modified` (`report/report.txt:48`). The directory passes a response on with
  `satisfyTime + localSendTime` and an invalidation with `localSendTime`. An
  invalidation that overtakes the response is acknowledged by a cache that then
  fills the block as Shared, while the other node becomes Modified. No fairness or
  unusual delay is needed: the reordering is in the configured times.
* `cache_stack_evictions` (`report/report.txt:224-225`). L2 evicts a block by invalidating
  it in L1 and finishing when the answer comes. `AllocateBlock` sends that
  Invalidate unless `pendingInvalidate` has `tag`, which is the block that is wanted and
  not the one that is evicted (`BIPMOESICache.cpp:186`, and the same line in the other
  classes). In the run the directory invalidates x, which is evicted and read again before L1 has
  answered; y, which gives way to it, stays in `pendingEviction` with no
  message for it. What follows is worse: when y is read again its eviction is
  cancelled, `canceledBlockEviction` keeps y for a response that is not
  due, and swallows the one to the next Invalidate of the directory, which waits for ever. It
  takes sets of two frames at both levels; those that `MemGen.cs` generates have four (518-520).
* `bus_modified` (`report/report.txt:48`). A response with the block takes `dataTime` on the
  bus, one without `plainTime`. If the second is the last to be counted, the
  next transfer starts before the data has reached the requester
  (`SnoopyBus.cpp:193-196`). Nobody answers it, and the memory grants the block
  exclusively (`TestMemory.cpp:53`) a second time.
* `origin_lost_read` (`OriginDirectory.cpp:3388`). A read that comes while the node
  answers an intervention for the block it has just evicted is queued; the
  state becomes Invalid at 1287 or 1346 without processing the queue. Every other
  way out of a waiting state processes it (1905, 2132, 2173, 3381).

Seen while modelling, with no line of the repository that promises otherwise: `enforceInOrder`
replaces the base latency by the distance from the message before, counted from the
present, so that the later message may still arrive first (`RandomLoadNetwork.cpp:87`;
TLC shows it with `Size = {1, 4}` and `initialTime = 4`). The Origin
directory can stop on its own assertions. When a cache reads a block a second time
just before an invalidation reaches it, the answer that comes after is not expected
(1524). With latencies as far apart as in `Slow`, an invalidation overtakes the
acknowledgement of an eviction whose node is still listed as a sharer, in a state that
does not handle it; and one that overtakes a shared reply leaves a shared copy beside
an exclusive one. `Stop` is those states: a stopped simulation takes no further
step, and the invariants of `origin` hold until then.

### Bounds

* Three nodes in `directory`: a home, an owner and a second sharer; two message
  numbers allow two reads in flight at once, one of which is refused or joins the
  other. Message numbers are never reused while in a table, as in the code
  (`Fresh`). `MaxMemoryWrites` limits blocks under way to the memory in the
  guards of the steps that start one (`MayWriteBack`); the count is independent of
  everything else. The leaked entries of the home use message numbers up,
  which limits how long a behaviour of the instance is, not which states a
  node can reach before that.
* Two nodes in `coherence`: one with the home, one without. Three nodes with two
  requests each and two numbers (1.7 million states) pass as well but take too
  long to repeat on every change. Three requests per processor allow a read,
  a write that upgrades it, and a competing block that evicts it.
* One frame for two tags makes every second request evict. `cache_stack` has
  `hitTime2 = 3` where the configuration has 10. What matters is that it is longer
  than `invalidateTime` (1) and `missTime1` (2); the other times are those of the
  configuration.
* `bus`: three caches, so that a transfer is answered by one cache with the block and one
  without; with a single cache a transfer would be answered by nobody. One tag and three
  requests: two transfers of one address overlap and a third finds what they left.
  `dataTime = 3` and `plainTime = 1` because what matters is which response is
  slower; `readTime = 3` lets other transfers go by while the memory reads.
* `origin`: `MaxReads` of the scenarios. With one read per node and the generated
  latencies a request meets an owner, a sharer, an eviction, and the busy home that
  refuses it. Some states need latencies further apart: `Slow` has two nodes away
  from the home, three reads between them, and a spread of 20 ticks, that of a
  `networkMultiplyFactor` of 2 (results with other factors are in the repository).
  There acknowledgements precede the reply, reads are cancelled, and eviction and
  intervention cross in every way; the common part of the latency, 200 ticks, is left out
  because it is the same for every message of the network.
* `event_manager`: `MaxDelay`, `MaxTick` and `MaxPerTick` bound how far ahead, how
  long and how many; two delays and three vectors are enough for a vector to be
  recycled while a later tick has one. `network_*`: `MaxTick` and `MaxMessages`.
* `CHECK_DEADLOCK FALSE` where a bound makes the system stop: time in
  `event_manager` and `network_*`, the request budgets in the others. In
  `directory` and `directory_live` deadlock is checked.
* Symmetry: nodes other than `Home`, message numbers, tags, callbacks and vectors
  are alike. It is not used with liveness, nor with the nodes of `SnoopyBus` and
  `OriginDirectory`, where they are asked in some order.

### Fairness

`FairSpec` assumes weak fairness of each delivery, of the memory's answers and of
the answers of the caches. The `EventManager` calls every scheduled
callback (`ImplementsQueue`) and the network schedules every message once, so a
delivery happens; `TestMemory` schedules its answer at once; that caches answer is
`FetchesAreServed` and `CachesKeepContract` on the safety side. No fairness is
assumed of reads and evictions, nor that refused lookups ever win: the code
retries them in no order, and a node may lose every time. In the modules with time
(`CacheStack`, `SnoopyBus`, `OriginDirectory`) "will be served" is stated as an
invariant: something that is scheduled, and so will be delivered, leads to it.

## 4. What is proved

`EventManager_proofs`, for any sets of callbacks and vectors and any bounds:

* `TypeCorrect`, `VectorsStaySeparate`, `NothingIsLeftBehind`: from `VectorInv`, which
  is their conjunction with `executing => i > 0`. The four are inductive only
  together: that a vector taken from the pool is empty needs that the vectors of
  ticks are not in the pool, and that needs that `ProcessTick` never skips a tick.
  Scheduling is split by whether the tick has a vector (`ToVectorKeeps`,
  `ToNewVectorKeeps`).
* `OneCallEach`: from `CallInv`, which speaks of open positions (vector of a tick,
  index not yet called) rather than of sequences: the callbacks at two open positions
  differ, and none is in the pool. `NothingOpened` and `OneOpened` are the two ways a
  step can change the open positions.
* `IsAnEventQueue`: `Spec => Queue!Spec` under the mapping that forgets vectors. Each step
  appends to one agenda, removes the first of the present one, advances the time when
  that is empty, or stutters.

`RandomLoadNetwork_proofs`, for any nodes, sizes and parameters of the calculator:
`NetworkTypeCorrect` and `LoadIsAlwaysExact`. `LoadInv` says of the agendas what
`LoadIsExact` says of a derived set, and that this set is finite, without which its cardinality
says nothing. `LargePacketsAreDeliveredInOrder`: `LargePackets => (Spec => []DeliveredInOrder)`. `LargePackets` says
that `enforceInOrder` is set and that the time added for the size of any message is at
least the largest latency that can be drawn, load included. The correction that
`CalcTime` makes for the order is then not undone by the size, which is added after it. The
configuration of `network_large_packets` satisfies this hypothesis; with packets that are
quicker than the base latency the property is violated (see Findings). `OrderInv` speaks of the last arrival between
two nodes as well as of the messages under way.

`BIPDirectory_proofs`, for any finite set of nodes, any set of message numbers
and any bound on memory writes (`NodeAssumption`, `MaxMemoryWritesAssumption`):

* `TypeCorrect`: `Spec => []TypeOK`. `MessagesMade`, `MessageFields` and
  `CacheMessages` say which records are messages and which fields they have; then
  one lemma per group of handlers, put together in `StepTypeOK`. The type is
  inductive as it stands.
* `LookupsAreOfOneKind`: `Spec => []OneKindOfLookup`. Inductive as it stands: only the
  two accepting branches of `OnDirectoryBlockRequest` add to a table, and
  `Busy` guards each against the other; every other handler shrinks the tables.
* `EvictionsAreTracked`: `Spec => []EvictionHandshake`, using `TypeOK`. The handlers
  that do not touch evictions are shown to leave both the table and the
  messages of evictions alone (`SameEvictions`); the remaining ones are taken
  one by one.

The second part is about fetches and rounds. `OneFetch`, `FetchMatchesLookup` and
`InvalidationRound` are inductive only together and with the types and `OneKindOfLookup`:
that a fetch is alone is why the lookup it was made for still waits when its answer
arrives; that no round runs meanwhile is why the sharers it finds may be invalidated;
and that the sharers still listed are among those that have yet to acknowledge is why the last
acknowledgement finds none. The invariant is `PhaseInv == TypeOK /\ OneKindOfLookup /\
Phase /\ InvalidationRound`. `Phase` says the same as the first two properties, of the
tables and of `net` (one message of a fetch and no more, or one read at one cache, or one
at the memory) rather than of the set `Fetches`, which the provers cannot follow
through a step; `PhaseSuffices` goes from one to the other.

* `OneFetchAtATime`: `Spec => []OneFetch`, `FetchIsForLookup`: `Spec => []FetchMatchesLookup` and
  `RoundsAreCounted`: `Spec => []InvalidationRound`. A fetch begins
  (`FetchBegins`), moves and ends (`ReadResponseKeepsPhase`), a round begins (`RoundBegins`), moves
  (`InvalidationMoves`) and is acknowledged (`AcknowledgementKeepsPhase`, with the
  count of a finite set that loses one element); `QuietKeepsPhase` covers the steps that do
  none of these.
* `GrantsAreExclusive`: `Spec => GrantIsExclusive`, an action property. It needs `PhaseInv`
  (the owner can only be the node that answered, so `AddDirectoryShare` finds none) and that no
  reply is ever addressed to Home.

The third part is about reads, from `PhaseInv`. `RequestsAreTracked`: `Spec => []RequestTracked`. The
property names a set, the whereabouts of a read; the invariant `AllTracked` says for
every node and message number in which of five stages it is (idle, looking, waiting,
replied, or kept by Home), each stage as the presence of one thing and the absence
of the others. `SameKeyTracked` is the frame: a step that touches nothing of a number leaves its
stage. One lemma for each way a read moves follows: `ReadBegins` (where `Fresh` is
used), `RequestMovesOn`, `AnswersKeepTracked`, `AcknowledgementKeepsTracked`, `ReplyKeepsTracked`.

So every invariant and action property of the `directory` run is proved for all nodes and numbers.

`FoldLemmas`. The cache makes waiting requests again in a loop over a queue
(`FoldLeft` of a handler). The library's induction theorems take the property as a
parameter, which the provers cannot instantiate; here handler and property are
CONSTANTS, so that an INSTANCE fixes them, and the induction is the argument by
the least counterexample, from the least element of a set of naturals. `FoldKeeps`: what each
step of the fold keeps, the fold keeps. `FoldsAgree`: folds of handlers that agree
are the same.

`CacheFamily_proofs` has one lemma per handler of a cache: it keeps `CacheInv(c, R, W)`, where
`R` is what may be sent to the memory and `W` the tags for which a read is under
way. `BlocksInv` is the part that holds of every policy: the types of the object; a block is locked
exactly while requests wait for it; a block without data is locked; a block that is
being evicted can be used again as it is; no more blocks than frames; and what
waits for a block was asked for. Each conjunct is needed for another one: that
`UnlockBlock` finds a block with data needs the second and third, that a request
which takes the place of an eviction may be performed at once needs the fourth. With LRU,
requests wait for a frame only while a block is locked that will wake them (`FullAndLocked`,
`WakeMeansLocked`). Of a class only `ClassOK` is assumed: its states are closed under
reads from below and merges from above.

`CacheStack_proofs`, for any tags, frames, times and classes (`TimesAssumption`,
`FramesAssumption`, `NoBlockAssumption`, `ClassesAssumption`, `OwnershipAssumption`), any number of requests:
`TablesAreTyped`, `LocksAreWaitedFor` and `FramesAreWaitedFor`, from `StackInv`, which is
`CacheInv` of both caches with the types of what is scheduled. `FramesAreWaitedFor` has
`evictionPolicy = "LRU"` as a hypothesis, here and below: with the policy `Random` as coded
a request may find no block to evict although there is one, and then waits while
nothing is locked.

* `WaitersServed`: `Spec => []WaitersAreServed` and `FetchesServed`: `Spec => []FetchesAreServed`, from `StackInv` and
  `ServiceInv`. Each of the two properties is about one direction, and neither is inductive: that a read of L1
  gets its answer needs that L2 has only reads waiting (it is not asked to write), and that a
  fetch is answered needs to know for every read that waits in L2 (`waitingOnRemoteReads`), and not only
  for those of the directory's present fetches, that it was passed on to L1 (`FetchedBy`). For a handler of L2,
  `ServeInv(c, G, r)` says which reads of L1 the cache attends to (`G`: they wait for the block, wait
  for a frame, or their answer is in the outbox) and which reads of the directory wait (`r`); there is one lemma
  for each handler, and for the two loops (`PerformedServes`, `AllMadeAgainServes`) the fold
  keeps those it has served and those still in the queue apart.
* `OwnedWasGranted`: `Spec => []OwnsOnlyWhatWasGranted`, from `StackInv` and `OwnershipInv`. `OwnInv`, the
  part about the cache, says more than the property: not only what a frame holds Modified or
  Exclusive was granted, but also what waits to be evicted; no message in the outbox gives up a
  block the cache still has for its own; and a block being evicted has left its frame, without which an
  eviction that ends would give up a block that is still in use. A step works on a copy of the cache while
  `granted` lags behind, so the lemmas of the handlers are about the copy and its
  outbox, and `GrantsAreLeft` is the fold that takes from `granted` what the outbox gives up. Of a class in
  which dirty data leaves a shared block shared, `OwnershipAssumption` says that its other tables
  make no block writable; the property is about these classes that do not evict their surplus, as in the run.

`BIPCoherence_proofs`, under `CacheAssumption` and the assumptions of
`BIPDirectory`, for any nodes, tags, frames and times:

* `CachesAnswerOnce`: `CoherenceSpec => CachesKeepContract`. `D` is the directory as the
  contract sees it, with `toCache` replaced by `Asked`: the requests on their way to the
  cache and those whose answer is on its way back.
  One lemma per handler of the directory says that it is the same step of `D`;
  for each step of a cache, either `Asked` stays, or one request leaves it by the answer the contract
  gives. That needs an invariant, `TokensOK`: a fetch or an invalidation that the
  directory made is at one place only, on its way to the cache or answered on the
  way back, and nothing is answered that was not asked. `CoherenceInv` joins it with
  `TypeOK`, `D!PhaseInv` (the directory asks a cache one thing at a time) and the
  `CacheInv` of each cache; none of the four is inductive without the others.
* `CoherenceIsTyped`, `LocksAreWaitedFor`, `FramesAreWaitedFor` and `WaitersHaveReads`, from the same
  invariant. The last names where the read for a waiting request is:
  in the channel to the directory, at the home, or on the way back.

By the refinement the theorems on `BIPDirectory` hold with the caches as coded in
place of its contract, and so `CoherenceInv` may use them.

`SnoopyBus_proofs`, for any finite set of more than one cache above the bus, any tags, frames, times,
class and number of requests (`ConnectionAssumption`, `TimesAssumption`, `FramesAssumption`,
`BoundsAssumption`, `ClassAssumption`, and two that say that `NoBlock` and `NoTransfer` are neither):

* `SnoopyIsTyped`: `Spec => []TypeOK` and `ResponsesCounted`: `Spec => []ResponsesAreCounted`. With a single
  cache the count would be wrong from the start (see Hazards: 162), and so
  `ConnectionAssumption` excludes it.
* `IdleMeansDone`: `Spec => []IdleIsDone`, with `evictionPolicy = "LRU"` as a hypothesis, for the
  reason given for `FramesAreWaitedFor`.

All follow from `SnoopyInv` (`SnoopyInvariant`), which has three parts, and none is inductive alone.
`BusInv` says of each tag that the count of its transfer is the number of messages `Near` it
(between the bus and the caches) and one for what is `Below` (between the bus and the
memory), as `ResponsesAreCounted` does, and with `AllBelong` also whose these messages are: a
request on its way is the one the transfer is for, and a response is of the kind that request is answered
with. Without it nothing says that a read response that comes up finds a cache that reads. `WillAttempt`: while a message could
go or the bus is taken, an attempt is scheduled or a transfer is unsatisfied, whose answer will bring
one. `CacheOK` of each cache is the `CacheInv` of `CacheFamily_proofs`, where the reads under way
are those in `ReadTags`: scheduled, waiting for the bus, or the message of a transfer that is not satisfied.
Each handler of the bus is taken once with the queue it finds and once with the messages it adds;
`Count` of a queue that loses its first element or gets more at its end is what the lemmas of the
first section are about.

Only model-checked are: the properties of
`OriginDirectory`, whose counts are of messages that wait in four tables as well as on the network;
and liveness: fairness and ENABLED are out of the prover's reach.

## 5. What is not modelled

* `Directory` and `NetworkMemoryInterface`, the four-stage protocol: `BIPDirectory` is
  its later form with the same tables, and no generated configuration has them
  (`MemGen.cs:562` is commented out). `ThreeStageDirectory` is a header without a source.
* `TestMemory`, `Connection`, `BaseMemDevice` have no state; their effect is in the
  actions of the others. `SESCProcessorInterface` only as the source of requests.
* Configuration, factories, statistics, debug output and `memgen` do not act once
  the simulation runs.
* Data: no values are stored, so "the data is stale" is stated by the states of the
  block in the caches (`ModifiedIsAlone`).
* The rest of `src/`, which is most of its 284,000 lines: the SESC simulator
  (`libcore`, `libemul`, `libmint`), the power and network models (`libpower`,
  `libnet`), libraries (`libsuperlu`) and the benchmarks in `WorkingFolder`. They
  are not this repository's own; the memory system in `MemSys`, of some 17,000 lines, is what it adds.

## 6. Plan

Done: the modules above. What would come next:

1. `DirectoryEntry`: an abstract specification of what a home promises (one
   writer or many readers, requests served one kind at a time), and `BIPDirectory`
   shown to implement it.
2. Two levels of cache over `OriginDirectory` in place of its contract, as
   `BIPCoherence` does for `BIPDirectory`.
3. `Directory` with `NetworkMemoryInterface`, if a configuration with them is
   generated again.
4. More proofs: `OriginDirectory` (its acknowledgements are counted as
   `InvalidationRound` counts them).
