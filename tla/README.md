# A TLA+ verification project for cpp-multithreaded

The repository holds six independent homeworks on concurrency in C++. This
project models them as TLA+ specifications, checks small instances with TLC and
proves the main safety properties with TLAPS for every value of the constants.

- `tlc -workers 2 -config <cfg> <module>` runs a check (table "Runs" below);
- `tlapm <module>` checks the proofs of a module: `FutexMutexProofs`, `BufferedChannelProofs`,
  `MpscQueueProofs`, `ShmLifecycleProofs`, `ProcessPoolProofs`, `CooperativeDfsProofs`,
  `ApplyFunctionProofs`, `Counting`.

`PROJECT.json` lists components, runs, mutants, the map from definitions to
source lines, hazards, findings and theorems.

## Inventory

### hw-1: CooperativeDFS (`dfs.cpp`)

State: the scheduler's FIFO queue of coroutine handles, `visited`,
`traversal_order`, an explicit stack per coroutine. Operations: `Spawn`, `Run`,
the coroutine body between two `co_await Yield()`, the exception path for an
invalid edge, the scheduler's destructor. Hard: coroutines start suspended, so all
of them are spawned before any runs; each frame must be destroyed once, also when
one coroutine throws, and all of them share `visited`. Correct when every vertex is
entered and every edge inspected once, every frame is destroyed once, and the call
ends: with an exception exactly for an invalid graph.

### hw-2: ApplyFunction (`apply_function.hpp`)

State: the vector, the threads with their half-open index ranges. Operations:
clamping the thread count, the partition into chunks, start, apply, join. Hard:
threads work on the caller's vector by reference, so an exception (of `transform`, of
the start of a thread) must not leave one running. Correct when every element is
transformed once before the call returns, and the work is shared evenly.

### hw-3: BufferedChannel (`buffered_channel.h`)

State: `closed`, the circular `buffer` with `head`, `tail`, `size`, one mutex, the
wait sets of `notFull` and `notEmpty`. Operations: `Send`, `Recv`, `Close`, called by
any number of threads. Hard: notifications are sent after the unlock, by one thread
to any one waiter; waits end spuriously; `Close` races with waits. Correct when the
channel is a bounded FIFO queue, no blocked call misses what it waits for, and
`Close` releases everybody.

### hw-4: Mutex (`mutex.h`, `mutex.cpp`)

State: the lock word `mtx_state` (0, 1, 2) and the kernel's wait queue. Operations:
`Lock`, `Unlock`. Hard: the interleavings of the fast path, the unconditional
`exchange(2)`, `FutexWait`'s comparison and the wake-up of one thread. Correct when
it excludes and never leaves everybody asleep with the lock free.

### hw-5: MPSC queue in shared memory (`mpsc_queue.h`, `mpsc_queue.cpp`)

Two parts. The ring: `reservePos`, `commitPos`, `readPos` and the bytes of the buffer;
producers (processes) reserve with a compare-exchange, write a padding record when
the message does not fit the tail, write the message, publish in the order of the
reservations; one consumer reads, filters by type and frees. Hard: three positions
moved by different processes, two loads that are not atomic together, padding and
rounding at the end of the ring, processes that die in a call. Correct when the
wanted messages are delivered once each, in order and intact, and calls return.
The shared memory lifecycle: the name, the objects created under it, their headers with
`initState` and three counters; `SharedMemoryRegion`, the constructors and destructors
of `ProducerNode` and `ConsumerNode`. Hard: processes attach while others create,
initialise, die or unlink, and nothing is locked. Correct when whoever is attached
works on an initialised object of its own size, the counters are exact, all
attached processes share one object, and nobody waits for ever.

### hw-6: ProcessPool and Future (`process_pool.*`, `detail.h`, `future.h`)

State: `pending_`, `next_task_id_`, `next_worker_`, `stopping_`, two sockets per worker,
a reader thread per worker, the shared states of the futures. Operations: the
constructor, `Submit` (any thread), `Get`, `WorkerLoop` (a process each), `ReaderLoop` (a
thread each), `Shutdown`, `FailAllPending`. Hard: Submit racing with Shutdown, workers
that die with tasks queued, two parties that complete the same future, SIGPIPE,
descriptors that children inherit. Correct when every returned future is completed
exactly once, with the outcome of its own task, a waiting `Get` returns, Shutdown
returns and leaves nothing behind, and no worker outlives the program.

The homeworks do not call each other, so no module composes two components; inside
hw-6 the pool module composes clients, workers, readers and the stopping thread. The
two parts of hw-5 meet in one state only: what `InitReady` of `ShmLifecycle` publishes is
`Init` of `MpscQueue`.

## Modules

| module | models | state and grain |
|---|---|---|
| `AbstractLock` | what a lock promises | the set of holders |
| `FutexMutex` | hw-4 | `mtx_state`, `pc`; one action per atomic operation or system call |
| `FutexMutexProofs` | - | theorems about `FutexMutex` |
| `AbstractChannel` | what a bounded channel promises | the queue, `closed`, the values received |
| `BufferedChannel` | hw-3 | `closed`, `buffer`, `head`, `tail`, `size`, `pc`; one action per critical section, one per notification |
| `BufferedChannelProofs` | - | theorems about `BufferedChannel` |
| `MpscQueue` | hw-5, the ring | the three positions, the cells, each process's locals; one action per shared access |
| `MCMpscQueue` | - | the message sets of the TLC instances |
| `MpscQueueProofs` | - | theorems about `MpscQueue` |
| `ShmLifecycle` | hw-5, attach and detach | the name, the objects and their headers, `pc`; one action per system call or header access |
| `ShmLifecycleProofs` | - | theorems about `ShmLifecycle` |
| `ProcessPool` | hw-6 | pool members, sockets as queues, workers, readers, futures, Shutdown's loops |
| `ProcessPoolProofs` | - | theorems about `ProcessPool` |
| `CooperativeDfs` | hw-1 | the graph, `ready_queue_`, the frames, `visited`, order and log; one action per resumption |
| `CooperativeDfsProofs` | - | theorems about `CooperativeDfs` |
| `ApplyFunction` | hw-2 | the chunk and position of each thread, how often each element was transformed; one action per call of `transform` |
| `ApplyFunctionProofs` | - | theorems about `ApplyFunction` |
| `Counting` | - | what four proof modules need of cardinalities: how a set's size changes with one element, and the places of its numbers in order |

Definitions called "Faulty variant" in a comment are not used by the specifications.
Each is the definition behind it with a plausible bug; substituted for it, it makes one
property fail, which shows that the property depends on that piece of the code.

### FutexMutex

The local `expected` only decides where control goes and is folded into `pc`. The
kernel's wait queue is the set of threads with `pc = "asleep"`; `FutexWait` compares
and queues in one step, `FutexWakeOne` wakes any one sleeper, `SpuriousWake` lets
`FUTEX_WAIT` return by itself. Memory orders are abstracted: all accesses are
read-modify-writes of a single word. The thread that unlocks is the one that locked,
since the class relies on that.

### BufferedChannel

A critical section is one action, since nobody else can see the state in between. A
thread waiting for `mtx` in a new call is "idle", one waiting for it after a wake-up
is "woken". Values are pairs (sender, number), so that loss, duplication and
overtaking are visible. A caller that got an exception or nullopt stops. `SendCopyThrows`
is an element type whose copy assignment throws: the sender leaves without a
notification, and if it had been woken by one, that one is used up and another blocked
sender may sleep beside the free slot. The history variable `dropped` records this, and
`NoLostWakeup` and `BlockedCallProceeds` promise blocked senders nothing afterwards;
everything else keeps holding.

### MpscQueue

Sizes count half-words of 4 bytes: a header is two cells, `Alignment` is two cells, so
rounding and tails shorter than a header still occur. A payload cell names the
reservation it belongs to, so a message delivered with another's content is visible.
A consumer that reads cells which are not an intact header gets any value (`TypeRead`,
`SizeRead`). Positions are natural numbers, but their differences are taken modulo
`Word`, as `uint64_t` does: this is where `freeSpace` wraps. Reservation, publication,
loads and stores of positions are single actions; filling a reserved record is one
action, which is sound because nobody else uses the cells (`WritersApart`, checked
and proved). The history variable `wrapped` records that a reservation was admitted by
a wrapped `freeSpace`; from then on the queue promises nothing (finding 1), so the
properties of the passing run speak of the time before. One consumer is modelled;
nothing in the code enforces that there is only one.

### ShmLifecycle

An object outlives its name: `shm_unlink` removes what has the path now, whoever has an
object mapped keeps it, and a later producer creates another. `object` is therefore a
growing sequence of headers and `name` says which of them the path leads to. A process
that looks at an object before `ftruncate` gave it pages ends with SIGBUS ("fault"). The
creator's stores before `Ready` are one action: nobody else looks past `initState`.
`magic`, `version` and `bufferSize` are left out, since whoever stores Ready has stored
them too and they follow from `shmSize`. A killed process keeps its control state, as
its counts stay in the header. The history variable `overlap` records that somebody had
the object open without being in `refCount` while the last consumer was about to unlink
(finding 7); `SameQueue` speaks of the other behaviours.

### ProcessPool

A request or a response is one queue element: `write_mutex` keeps requests whole, and a
record cut short by a death is read as EOF. A task is its kind: it returns a value
or nothing, throws, or throws with an empty text. `Status` is what `ExecuteTyped` and the
response header make of that, `Completion` what `PendingValue` and `PendingVoid` make of
the response. Completing a shared state and `notify_all` are two steps, and `Get` tests
and waits in one, as under its lock. `next_worker` is kept modulo the number of workers.
`SpawnFails` is a constructor that throws on the way. `killed` is the end of the host
program, by SIGPIPE (unless `SigpipeIgnored`), by `std::terminate` in a half-built pool or
for reasons of its own (`HostDies`); `Orphaned` says when a worker then sees the end of its
sockets, whose other ends later workers have inherited. A second Shutdown returns at
once and is not modelled.

### CooperativeDfs

There is one thread, so what varies is the graph: every graph within the bounds is an
initial state, with edges to the two neighbouring indices that are no vertices. A
coroutine is its frame: where it is suspended, its stack, the edge it has just
inspected. `Resume` runs the front one from there to its next `co_await`, its end or its
exception. The log is a sequence of records instead of text.

### ApplyFunction

`applied` counts the calls of `transform` per element, `bad` are the elements on which
it throws. On the calling thread the exception reaches the caller; in a thread it ends
the program ("terminated"), and so does a failure to start a thread when others are
joinable.

## Runs

| run | module / cfg | shows |
|---|---|---|
| `mutex` | `FutexMutex` | four threads: implements `AbstractLock`; no sleeper is forgotten; somebody keeps getting the lock |
| `channel` | `BufferedChannel` | two senders, two receivers, a closer, two slots: implements `AbstractChannel`; nullopt is final; no lost notification; blocked calls proceed; Close releases all; copies may throw |
| `ring` | `MCMpscQueue` / `MpscRing.cfg` | positions ordered, writers apart, exact delivery until `freeSpace` wraps; calls return unless a producer died with a reserved range; what is published is read |
| `shm` | `ShmLifecycle` | who is attached has an initialised object of its size; counters exact, the killed included; one object for all unless an attach overlapped an unlink; waits end unless the creator is lost |
| `pool` | `ProcessPool` | results match their tasks, futures are completed once and eventually, `Get` returns, Shutdown returns and leaves nothing, orphaned workers leave |
| `dfs` | `CooperativeDfs` | all graphs of up to three vertices: frames queued and destroyed once, vertices and edges seen once, order 0 .. n-1, turns alternate, exception exactly for invalid graphs, the call ends |
| `apply` | `ApplyFunction` | all sizes and thread counts: each element once, balanced chunks, no thread left behind by an exception, the call ends |
| `stale_read_pos` | `MCMpscQueue` / `MpscStaleReadPos.cfg` | violation: finding 1 |
| `padded_message` | `MCMpscQueue` / `MpscPaddedMessage.cfg` | violation: finding 2 |
| `unaligned_ring` | `MCMpscQueue` / `MpscUnalignedRing.cfg` | violation: finding 3 |
| `pool_sigpipe` | `ProcessPool` / `PoolSigpipe.cfg` | violation: finding 4 |
| `pool_empty_what` | `ProcessPool` / `PoolEmptyWhat.cfg` | violation: finding 5 |

### Bounds

- `mutex`: four threads allow a holder, a waker, a woken thread and a sleeper at once.
  No other bound.
- `channel`: two slots so that the circular buffer wraps and full, partly full and
  empty differ; two threads a side so that a notification can reach the wrong one;
  `MaxSends = 2` a sender, four values through two slots.
- `ring`: six cells are three empty messages or one number and one empty text, so
  every combination of tails and padding occurs; `MaxSends = 2` a producer wraps the
  ring. One producer blocks, the other gives up and may crash anywhere in a call.
- `channel` also: the values of one sender may throw when copied, those of the other may
  not, so that a dropped notification has somebody to miss it.
- `shm`: two producers race to create, two consumers race to be the last; one producer
  may be killed anywhere and may come with a size that is too small or does not match.
  `MaxStarts = 4` constructor calls and `MaxObjects = 2` let a second object be created after an
  unlink, while somebody still holds the first.
- `pool`: two workers, one of which may die, two tasks in any order, of which each
  returns or throws; a constructor that may fail and a host that may die at any point.
- `dfs`: three vertices with up to two edges each and five in all, loops, repeated and
  invalid edges included; three coroutines can all meet at one vertex.
- `apply`: sizes and thread counts to six, beyond and below each other, zero and negative
  counts included, every set of throwing elements.

Deadlock is not checked where the callers may simply stop: after the bounded number
of calls everybody is idle.

### Fairness

- Every runnable thread or process is scheduled (weak fairness of its steps). Nobody
  is obliged to call Lock, Send, Recv, Close, Submit, Get or Shutdown, or to attach or
  detach; a task ends, and so does a call of `transform`.
- Spurious wake-ups, crashes, deaths and failing system calls get no fairness: they
  may never happen.
- `dfs` is sequential: its one thread runs.
- `channel`: whoever waits for `mtx` gets it in the end; `std::mutex` gives no formal
  guarantee, the usual implementations do.
- `ring`: a compare-exchange tried again and again with its expected value in place
  succeeds in the end (strong fairness of `CasReserve`): a weak compare-exchange may
  fail spuriously, but not every time. Without it a producer could be unlucky for ever.

## Findings

1. `TrySend` loads `readPos` before `reservePos`. If the others advance in between by
   more than the ring holds, `reservePos - readPos > bufferSize`, `freeSpace` wraps and
   the reservation overwrites unread messages. With one producer this cannot happen
   (theorem `SoleProducerNeverWraps`).
2. A message that fits the ring but not together with its padding passes the size
   check and is never sent: `Send` spins on an empty ring.
3. If the buffer size is no multiple of `Alignment`, the consumer rounds a padding
   record up past its end and reads the next message from its middle.
4. A `Submit` that raced with `Shutdown` writes to a worker that is gone: SIGPIPE kills
   the host program instead of an exception being thrown.
5. A void task that throws with an empty `what()` is reported as a success.
6. When a worker dies, its futures stay incomplete until `Shutdown` (no run of its own;
   `FutureCompletes` states the exception).
7. The last consumer unlinks after `refCount` reached zero, but a process that is attaching
   is not yet in `refCount`: it goes on with an object that has lost its name, or the unlink
   removes the name of a newer object. Producers and consumers of one path then use
   different queues (no run of its own; `SameQueue` states the exception).
8. A process that opens the object before the creator's `ftruncate` dies of SIGBUS in
   `WaitUntilReady` instead of waiting (control state "fault").
9. The traversal order of `CooperativeDFS` is 0, 1, ..., n-1 for every graph: each vertex gets
   a coroutine, and each coroutine enters its own vertex in its first turn. `TraversalOrder`
   states it; the tests only ask for every vertex once.

Smaller observations, visible in the models: a creator that is killed, or whose size is too
small, leaves an object on which later processes wait for ever (`WaitEnds` states it); a sender
whose copy throws can swallow a notification; a pool constructor that fails leaks the workers
it has forked until the program ends.

## Proofs

`FutexMutexProofs`, for any set of threads. The inductive invariant `IInv` joins
`TypeOK`, `MutualExclusion`, `LockWord` (the word is 0 exactly while nobody holds the
lock, without which mutual exclusion is not inductive: the fast path only looks at the
word) and `NoLostWakeup`. One lemma per action, then `Invariance`, from which
`TypeCorrect`, `MutexSafe` and `WakeupsNotLost` follow, and `Refinement`: every step is an
`Acquire`, a `Release` or a stutter of `AbstractLock`.

`MpscQueueProofs`, for any producers, messages and bound on the calls. `TypeCorrect`
needs only the named assumptions on the constants. The others assume that `BufferSize`
is a multiple of `Alignment` (finding 3 shows why) and rest on `IInv`: the consumer is
behind what it saw published and on aligned positions (`ReaderBehind`), unpublished
reservations lie between `commitPos` and `reservePos` and do not overlap
(`ReservationsInside`, `ReservationsApart`), what a producer loaded is old and never
new (`StaleLoads`), at most `BufferSize` is reserved until `freeSpace` wraps (`NoOverrun`).
From it follow `Positions` and, with arithmetic on remainders (`OffsetInjective`,
`CellsApart`), `WritersNeverCollide`. `SoleNeverWraps` strengthens it for one producer and
yields `SoleProducerNeverWraps`.

What the consumer is handed needs a second invariant, `CInv`, about contents. `LogOK`: the
reservations follow one another without a gap, on aligned positions, each with a message that
fits. `SendersOK` and `CommitOK`: what a producer holds is one of them, and `commitPos` is
where one begins, so reservations are published whole. Until `freeSpace` wraps, also
`ReadsOK`: the consumer is at the beginning of a padding record or a message (`ReaderOK`);
every record that has been filled in and not been read lies whole in the ring (`RingHolds`);
the header and payload the consumer has copied are those of a published record (`HeaderOK`);
what was delivered is what was due (`DeliversExactly`). A write keeps `RingHolds` because all
unread records are less than one turn apart (`PutElsewhere`, from `NoOverrun`) and none is
split at the end of the ring (`InOnePiece`). `Contents` is the invariant, `Delivery` the
property; with one producer `SoleProducerDelivers` drops the proviso. The two hypotheses are
where the findings are: without alignment a padding record's size is not its rounded size
(`NextRecord`, finding 3), and after a wrap `NoOverrun` is gone (finding 1).

`BufferedChannelProofs`, for any numbers of senders, receivers and closers, any capacity and
any number of values. `IInv` adds to `TypeOK`, `NulloptIsFinal` and `NoLostWakeup` that `tail`
is `size` behind `head` and that the slots in between were written (`RingOK`, without which a
`Recv` might read an empty slot), and that a waiting sender still has a value to send
(`StillSending`: a woken sender does not ask again). The counting in `NoLostWakeup` rests on
`Counting!OneMoves`: a step of one thread changes each cardinality by its own part in it.
`Refinement` maps the ring to the sequence of its elements (`TakeContents` and its
counterpart for storing, by arithmetic on indices at most one turn ahead); every step is then
a send, a receive, a close or a stutter of `AbstractChannel`.

`ShmLifecycleProofs`, for any finite sets of producers and consumers (finite, because the
theorems count them), any of them killed anywhere, any number of objects. `ReadyBeforeUse` and
`CountsMatch` are not inductive: the creator's stores would break both. `CreatorAlone` says
that an object under construction belongs to the one process that created it and is not yet
Ready, so nobody is attached to it. `OpenedByName` adds that everybody alive who has opened an
object has the one with the name, and that nobody has while the last consumer is about to
unlink; `OneQueue` follows. It keeps the premise of `SameQueue`, that no attach overlapped
that unlink.

`ProcessPoolProofs`, for any clients, number of workers (any of them dying at any point),
tasks and host program. The argument is where a task's handler is (`HandlersOK`): registered
in `pending`, taken by one reader, taken by `FailAllPending`, or gone, and gone exactly if the
future is completed. So nobody can complete a future twice (`OneCompletion`). All
records on the response sockets are answers of known tasks (`SocketsOK`, `ReadersOK`), which
gives `OwnResult`; it assumes that no void task throws with an empty `what()`, the case
that the run `pool_empty_what` refutes. `ShutdownOK` says what each of Shutdown's loops
has achieved at its index: joined readers, closed descriptors, then no registered handler of
a returned future; `NothingLeft` reads it off at the end.

`ApplyFunctionProofs`, for any size of the data, any `threadCount`, any elements on which
`transform` throws and any order of the threads. Chunks are consecutive and of their size
(`ChunksOK`), no element below `startIndex` lies between two of them (`NoGaps`, which spares
an induction over the chunks), an element has been transformed if its thread is past it
(`AppliedOK`). That the last chunk ends at `data.size()` needs the closed form
`startIndex = Dealt(i)`, kept by `CallerOK` and proved by division with remainder (`Deal`).
`OnceEach`, `Balanced` and `CleanThrow` follow.

`CooperativeDfsProofs`, for every graph. The key is `FirstRound`: the coroutines that have not
started are at the front of the queue in the order of their indices, so each enters its own
vertex before any follows an edge, and after that every vertex is visited and a stack
holds its own start vertex at most (`FramesOK`). This yields `OrderIsIndexOrder`, `ThrowsExactly`
and `FramesOwned`. `TurnsOK` (whoever is further back was resumed as often, or
once more) makes `FairTurns` inductive. For `EdgesInspectedOnce`, `LogOK` says how much of a
vertex's log each frame accounts for (`Reported`): nothing before its first turn, the entry
and the edges up to its stack's index while it runs, everything once its stack is
empty. A step adds one entry, which `Counting!LastOne` puts last among those of its vertex.

`DeliversExactly` and `EachEdgeOnce` compare a sequence with the entries of a log that
satisfy a condition. They are stated with the place of each entry among them (`Rank`), which
says the same as filtering the log but needs no induction over sequences.

All inductive invariants were checked with TLC on the instances of the runs (`CooperativeDfs`
with at most 4 edges) before they were proved.

### Only model-checked

- Everything about liveness (`LockProgress`, `CloseReleasesAll`, `BlockedCallProceeds`,
  `SendReturns`, `PublishedIsRead`, `WaitEnds`, `FutureCompletes`, `ShutdownReturns`,
  `OrphansLeave`, `Terminates`, `Completes`): fairness is out of TLAPS's reach.

Every other property of a passing run has a theorem.

## Not modelled

The demo programs and benchmarks (they only call the components, `cleanup.cpp` a function
that does not exist), payloads beyond 2^32 bytes, destruction of a mutex or channel in
use, reuse of closed descriptors, finite socket buffers (every reader keeps reading, so a
bound only delays a write), the bytes of task arguments and results (`AppendBytes`,
`ReadValue`: copies of trivially copyable objects), a second Shutdown, more than one
consumer in the ring.

## Plan

Done: mutex with proofs and refinement; channel; ring with proofs; shared memory
lifecycle; pool with futures; coroutines; `ApplyFunction`. Every component with logic of
its own has a module.

Proved: every invariant and every action property that a passing run checks, and both
refinements.

Left: liveness stays with TLC. Extending the model means one of the items under "Not
modelled".
