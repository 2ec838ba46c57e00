# Verification of the concurrency, memory and networking core

TLA+ models of the C++ library in `src/`: thread pools, synchronization
primitives, two memory allocators, a file cache, buffers, an event-driven HTTP
service, and the support of its threads. The models are checked on small
instances with TLC. The central results on both thread pools, the barrier, both
spinlocks, the numbers and the crash report of workers, the stop of the I/O
service, the references of connections, and the pins, list and byte count of the
file cache are proved with TLAPS for all values of the constants.

## The system and its parts

| Part | State | Operations | What is hard about it |
|---|---|---|---|
| Fast thread pool | free workers, queue, one mailbox per worker | `addTask`, `workerLoop`, `stop` | hand-over between worker list and queue; `stop()` from a task |
| Normal thread pool | one queue, one condition variable | the same | one signal per task; joining |
| Barrier | two semaphores, a counter | `wait` | threads that come back before the batch left |
| Spinlock | a flag | `lock`, `unlock` | a load and a test-and-set that others come between |
| MCS spinlock | tail, one node per thread | `lock`, `unlock` | the race of `unlock()` with an arriving thread; reuse of nodes |
| One-layer allocator | segregated free lists, boundary tags | `malloc`, `free`, `realloc`, exit report | tags written outside the lock; splitting; lazy initialization |
| Two-layer allocator | caches over a central heap of pages | the same | blocks that wander between layers; two locks |
| File cache | map, FIFO list, pins, byte count | `pin`, `unpin`, `evict`, destructor | loading without a lock; eviction against pins |
| I/O manager, descriptors | readiness flags, timers, garbage list | `poll`, `setUpCalls`, `readWhenReady`, `stop` | edge-triggered events; deferred deletion |
| I/O service, acceptor | stop flags, listening socket | `start`, `stop`, `doAccept` | `stop()` from outside and from workers at once |
| Connection | reference count, `writing_`, two buffers | `startConnect`, `doConnect`, `doRead`, `startWrite`, `doWrite` | reader and writer on different workers; deletion by the last reference |
| Buffer, HTTP parser | chunks and positions | `reserve`, `advance`, `write`, `consume`, `appendFrom`, `copyFrom`, parsing | messages cut anywhere; positions at the end of a chunk |
| HTTP connections | requests, callbacks | `readDone`, `asyncSend`, `send`, both `connect` | matching responses by order alone; a wait that no event ends |
| Threads, signal handler | registry, one array of stacks | register, deregister, two handlers | a crash while threads come and go |
| Thread-local storage | a counter and an array of slots | `getVal`, `setVal` | slots are never given back |
| Request statistics | a ring of counts per worker | `finishedRequest`, `getStats` | no lock; slots that are reused while they are read |

The service is layered: an acceptor makes connections; a connection owns a
descriptor; the I/O manager's poll loop turns events into callbacks on a fast
thread pool; callbacks read, parse, answer and write. A worker of the pool finds
its number in thread-local storage and counts the requests it served under it.
`PROJECT.json` lists every part, modelled or not, and the hazards with the
properties that watch them.

## Modules

A step of a model is one critical section, one system call or one unlocked
access, so that every interleaving the locks permit is explored. Names of
variables and operations are those of the code.

| Module | Models |
|---|---|
| `ThreadPool` | what a pool promises: a task runs at most once, `stop()` returns when what came before it is done |
| `ThreadPoolFast`, `ThreadPoolNormal` | `thread_pool_fast.cpp`, `thread_pool_normal.cpp`; both implement `ThreadPool` |
| `AbstractBarrier`, `Barrier` | a barrier that gathers full batches; `thread_barrier.hpp` |
| `AbstractLock` | locks with one holder |
| `Spinlock`, `SpinlockMCS` | `spinlock.hpp`, `spinlock_mcs.hpp`, one step per shared access |
| `Spinlocks` | threads on locks of either kind; both implement `AbstractLock` |
| `FreeLists`, `DualLnkList` | the free lists as sequences, and as the pointers that implement them |
| `OneLayerAlloc` | the one-layer allocator in bytes, on the pointers of `DualLnkList` |
| `TwoLayerAlloc` | caches and central heap in bytes, on the sequences of `FreeLists` |
| `FileCache` | `file_cache.cpp`; a pointer to a deleted node leads to "crashed" |
| `Descriptor` | one direction of a `Descriptor`, shared by the next three |
| `Connection` | a connection with poll loop, workers and peer; data is counted |
| `ClientConnection` | `Connection` with the client's program: connect, callbacks, blocking calls |
| `IOService` | `start()` against `stop()`, with acceptor, manager, timers and pool |
| `Buffer`, `Buffers` | `buffer.cpp` as operators; buffers under every sequence of operations |
| `HTTPParser`, `HTTPExchange` | the parser; a client and a server joined by a socket, in bytes |
| `Threads` | `thread_registry.cpp`, `signal_handler.cpp` |
| `ThreadLocal`, `RequestStats` | `thread_local.hpp`, `request_stats.cpp`, one load or store at a time |
| `Workers` | pool threads: the three modules above together |
| `*Proofs` | theorems and proofs |
| `MC*` | instances for TLC |

`Connection` and `HTTPExchange` cut the same code differently. The first keeps
every interleaving and counts data in units. The second keeps every byte and
takes a round of reading or writing as one step. `IOService` and `Connection`
use the worker pool as a queue, which `ImplementsThreadPool` justifies in part:
it shows that a task which was submitted runs once at most, and before `stop()`
returns. `TwoLayerAlloc` may use
sequences for lists because `RefinesSequence` of `OneLayerAlloc` shows that the
pointers change as they do.

## Runs

| Run | Instance | States | Shows |
|---|---|---|---|
| `fast_pool` | 2 workers, 4 tasks | 208,520 | no task waits beside a free worker, `stop()` returns and nothing runs after it, refinement |
| `normal_pool` | 2 workers, 4 tasks | 17,429 | one signal per task is enough, `stop()` returns, refinement |
| `barrier` | 3 to 5 threads, 3 participants | 6,122 | full batches (refinement), who was let in leaves; with 3 threads every call returns |
| `spinlocks` | 3 threads, 2 MCS locks or 2 flags | 46,283 | mutual exclusion (refinement); MCS: FIFO, no starvation |
| `one_layer` | 2 threads, 4 sizes, 120 bytes | 122,051 | one owner per block, no overlap, tags intact, pointers implement sequences |
| `two_layer` | three programs (`Mixed`) | 125,207 | blocks tile the heap, tags and lists sound, what is printed at exit is right |
| `file_cache` | 2 threads, 3 files, 4 pins | 55,630 | pinned files stay; list, map and byte count agree; `pin()` returns |
| `connection` | six loads (`MCConnection`) | 482,580 | one reader and writer, exact references, reclaimed; flushed and answered, with the exceptions below |
| `io_service` | 2 workers, three loads (`MCIOService`) | 146,686 | no client or timer forgotten, poll loop ends first, all joined |
| `http_exchange` | 2 requests, blocks of 12 bytes | 297,240 | no byte lost or moved, answers match, all answered |
| `buffer` | 2 buffers, blocks of 2, 4 bytes, 3 chunks | 292,878 | buffers are queues, the area being read is stable |
| `workers` | 4 threads, 2 slots, four loads (`MCWorkers`) | 304,275 | own number, statistics right, stacks complete, a crash ends the process |

Every property is also tested by a mutant: a change of the modelled code, as a
plausible bug would make it, that breaks the property.

### Why the bounds are enough

- Pools: two workers and four tasks give a full queue beside a busy pool, a
  task that submits, and a `stop()` from a task with work queued behind it.
- Barrier: `users`, the threads that call `wait()`, are as many as the participants
  or more; with more, the next batch presses in while one departs.
- Spinlocks: three threads make a queue with a first, a middle and a last; two
  locks make a thread reuse its node on another lock.
- Allocators: sizes are chosen to meet an exact fit, a split, a rest too small
  to split off, and the shared last class. Class counts and page size are scaled
  down (`NumClasses`, `CacheClasses`, `CentClasses`, `Page`, `Threshold`).
- File cache: room for two files of three, so that loading one evicts another;
  sizes all equal, or unequal, with one that does not fit, and changing.
- Connection: a send buffer of one unit makes every response meet a full one. The
  full product of two workers, two requests and a peer that closes is too large;
  the loads take two of the three at a time.
- I/O service: two requests to quit make two workers call `stop()` at once; a load
  of timers has two of them due around one tick.
- HTTP: blocks of 12 hold less than a response with header and body, so that
  messages straddle chunks; a read returns any part of what was sent.
- Buffer: four bytes fill two blocks, and copies fill a third; an empty, a full
  and a partly read chunk all meet each operation.
- Workers: two slots for four threads, so that they run out; nine ticks go
  around a ring of six, which is one short of a second of seven, as the division of
  `kTicksPerSlot` leaves a remainder; of two faults one may come while a worker leaves.

### Conditions inside the properties

Some properties hold only under a condition, which their definition or their
instance states.

- `OneLayerAlloc` and `TwoLayerAlloc` run with `Early = {t1}`: other threads
  start after the lazy initialization. Without this, see the race below. The exit
  handlers run when no call is in progress.
- `EveryoneLeaves` is about threads that `sem_wait(arrival_)` has let in, and about
  those before it only if there are as many users as participants. A semaphore
  does not say whom it wakes: with more users a thread may be overtaken by others
  for ever.
- `CacheConsistent` (as far as the list is concerned) and `PinReturns` ask that all
  files have one size, and the latter that files do not change while they are
  read. When `evict()` removes two nodes in one walk it sets `prev` to a deleted
  node (`file_cache.cpp:210`).
- `ExitReport` excepts blocks freed into a cache that nobody has allocated from.
- `Flushed` excepts a writer that gave up, in two ways. One takes a second thread:
  another worker, or the program of a client. The other happens on one worker: a
  file that filled its chunk was sent before the next response was written
  (`tail = "left"`). Both go against the comment of `startWrite()`; see `FlushesAll`
  below.
- `ClientAnswered` excepts a writer that gave up, a peer that closes, a stopped
  service, a failed `socket()`, and a `connect()` that succeeds at once, upon which
  `doConnect()` uses a descriptor that is not there. It also excepts a response
  that did not parse (`http_connection.cpp:203-206`): the reading ends, no callback
  is run, and the caller of `send()` waits for ever. A correct response can fail in
  this way when it is cut after a carriage return (`http_parser.cpp:121-128`).
- `ReclaimedWhenClosed` excepts a program that waits for an answer which will not
  come. The blocking client is run only with a peer that stays; see below.
- `OrderlyStop` excepts the worker that ran `stop()` from those that have ended,
  although the destructor's comment says that all have joined
  (`io_service.cpp:23-27`). It does not claim that timers have run if the only worker called
  `stop()`: what is queued behind that worker is dropped.
- `StopCompletes` excepts a worker that is caught in one of three named ways.
- `QuietMeansAnswered` excepts a reader that failed and a writer that is stuck.
- `BuffersAreQueues` and `ReadAreaStable` except a buffer that `appendFrom` has taken
  an empty last chunk from (`Spoilt`): its `wpos_` is behind its chunks, and `Buffers`
  does nothing more with it. See `AppendFromEmpties` below.
- `BuffersAreQueues` also excepts two positions of `rpos_`: on a chunk read to its end
  when `write()` went on to the next, nothing can be read; behind a chunk that
  `appendFrom` left in front, `byteCount()` counts too much.
- `OwnNumber` holds until more threads than `MAXNUMOFTHREADS` have used a slot.
- `ReportSound` is about one fault, while slots last: after that a worker that
  finds a wrong number may end the process in the middle of the report. `CrashEnds` excepts a thread that leaves
  between the look at the registry and its signal.
- `WindowAccurate` counts the workers that are not recording meanwhile. At the tick
  that is a second after a slot began, and at as many before it as the remainder
  of the division, the ring has gone round and the second is not over; there the
  window is two seconds (`Horizon`).

### Fairness

Weak fairness of each thread's steps: the operating system schedules every
thread that can run. Beyond that:

- `Barrier`: every user keeps calling `wait()`, without which no batch fills. The
  semaphores are not fair.
- `Spinlocks`: critical sections end.
- `FileCache`: users unpin what they pinned, and locks are granted.
- `ClientConnection`: the peer receives what it is sent, answers or refuses a
  connect, and answers a client's requests. Fairness of the poll loop is that of
  one thread.
- `Workers`: only the signal handlers are fair; workers may do nothing.

Nobody has to submit, connect, stop, close, fault or fail. `HTTPExchange`, `Buffers`
and the allocators have no fairness: progress of the exchange is stated as an
invariant of quiet states.

## What is proved

All theorems hold for every value of the constants that the named assumptions
allow: at least one worker (`NumWorkersAssumption`), participant
(`ParticipantsAssumption`) and slot (`MaxThreadsAssumption`); `NULL` is no task
(`TaskAssumption`) and no thread (`NullAssumption`); the main thread is not a pool
thread (`MainAssumption`); pool threads are numbered (`ThreadAssumption` of
`Workers`), in pools of at least one (`StatsAssumption`); the I/O service has at
least one worker and natural bounds (`ServiceBounds`); each connection has at
least one thread and some request, and among the connections one has the most
threads (`LoadAssumption` of `Connection`); the cache has finitely many threads
(`ThreadAssumption` of `FileCache`), some file (`FileAssumption`), natural
bounds (`BoundsAssumption`) and files that are not empty (`FileSystemAssumption`);
the one-layer allocator has at least one list (`NumClassesAssumption`), and no
request is for zero bytes (`RequestAssumption`).

| Theorem | States |
|---|---|
| `TypeTheorem` | type correctness of the fast pool |
| `FreeWorkersTheorem` | a free worker waits with an empty mailbox, so `assignTask` overwrites nothing |
| `NoIdleTheorem` | no task is queued while a worker is free |
| `NoLostWakeupTheorem` | no worker sleeps on a full mailbox |
| `QuietTheorem` | after `stop()` nothing runs but the task that called it |
| `FastImplementsThreadPool`, `NormalImplementsThreadPool` | both pools implement `ThreadPool` |
| `AwakeTheorem` | normal pool: as many workers are awake as tasks are queued, or all are |
| `TokenTheorem` | one token, so `counter_` is never raced for |
| `BatchTheorem` | only full batches depart |
| `CounterTheorem` | `counter_` is the number of threads inside |
| `BarrierTheorem` | `Barrier` implements `AbstractBarrier` |
| `MCSTheorem`, `FCFSTheorem` | the MCS queue is linked as described below; granted in order |
| `RefinementTheorem` | `SpinlockMCS` implements `AbstractLock` |
| `LocksTheorem`, `BothFCFSTheorem` | the same for locks of both kinds, as `spinlocks` checks it |
| `WorkersTheorem`, `SlotsTheorem`, `OwnNumberTheorem` | until slots run out no two threads share one, and a worker reads its number |
| `ReportTheorem` | after one fault stacks are printed one at a time, each once, and all before the process dies |
| `OneAcceptorTheorem` | the right to run `doAccept` is at one place |
| `OrderlyStopTheorem` | poll loop, workers and timers are over in the order in which `stop()` needs it |
| `OneReaderOneWriterTheorem` | one read and one write of a connection at a time |
| `RefsTheorem` | `refs_` is what is outstanding; nothing reaches a deleted connection |
| `PinnedTheorem` | a pinned file stays in the cache, and its count is the number of its pins |
| `ConsistentTheorem` | list, map, `bytes_used_` and the totals of the calls agree |
| `OneOwnerTheorem` | no memory is given out twice, nor is in two free lists |
| `RefinesTheorem` | the pointers of the free lists do what the sequences of `FreeLists` do, if one thread makes the first `malloc` |

**Fast pool.** `HandOver` is inductive. It joins the type invariant, the state of
the constructor, `MailboxInv`, and the three properties. They need each other:
`addTask` may write a mailbox only because a worker with a task is not free,
and `queueWorker` may list a worker only because the queue is empty then.
`JoinInv` adds how far `stop()` has come, who called it, and that every worker
joined so far has ended. `QuietTheorem` follows from both.

For the refinement `Delivery` follows each task: it is at one place at most, in
the queue, a mailbox or a worker (`OnePlace`); none that was accepted is nowhere
(`NoneLost`); and the `NULL` tasks of `stop()` come behind all others (`NullsLast`),
so that a worker that ends leaves no task behind. With these (`PoolInv`) each
step is one of the abstract pool, or changes nothing that it shows.

**Normal pool.** `EnoughAwake` is inductive with the types (`AwakeInv`). The work is
in counting: a step puts one worker to sleep or wakes one, and takes one task. The
refinement goes as in the fast pool, with one queue and without mailboxes.

**Barrier.** `OneToken` alone is not inductive. `PhaseInv` says what `counter_`
and the number of arrivals are wherever the token is. `CountInv` ties `counter_`
to the set of threads inside, whose finiteness is part of the invariant. With
both, each step maps to a step of the abstract barrier or to a stutter.

**Spinlocks.** Mutual exclusion of the MCS lock rests on the shape of its queue.
`MCSInv` describes the list that the nodes form: who is in it, once (`Members`);
that `tail_` is its last (`TailInv`); that each thread behind the first waits, and
is linked from the step on that links it (`Links`); and what the first may be doing
(`HeadInv`). `FlagInv` says that a flag is set exactly if someone holds it.

**Workers.** `SlotsHandedOut` is the reason for `OwnNumber`: slots below the counter
belong to one thread each. It is claimed only while slots last (`WorkersInv`),
since the slot after the last one is the counter itself. `ReportInv` follows the
one handler of the fault (`Progress`): threads it has asked have printed, except
the one it waits for, and nobody else is asked (`NobodyAsked`).

**I/O service.** `AcceptInv` says at which one place the right to accept is; `start()`
is the first to give it away. `OrderlyStop` needs how far `stop()` has come:
one thread runs its body (`StopInv`), what it has done by then ends the poll loop
(`LoopInv`), and its `NULL` tasks come behind the timers (`JoinInv`), so that a
worker that has ended left none. `TimerInv` says that an issued timer waits, is
queued once, or has run.

**Connection.** Both theorems are about tokens. A read (or write) is a token that
is with the creator, the descriptor, the poll loop, the queue or a thread, and
`Readers` (`Writers`) counts the tokens. The bound of one is not inductive: it
needs who may make a token. `ConnectInv` holds from `connect()` until `doConnect()`
calls `setUpCalls`, `TrafficInv` after that: `connDone` makes the first read from
the completion that it consumes, and `startWrite` makes a write only if `writing_`
is clear, which implies that there is none. `CreatorInv` says what has not begun,
`UserInv` that the program is told once, `LinkInv` that no event comes before the
socket is connected, `NestedInv` who is in a `doWrite` inside of `doRead`. Together
they are `TokenInv`. `RefsInv` adds that `refs_` is the number of tokens, of calls
that have passed theirs on and not yet released, and of the program's reference;
that it is zero before anything is started and from the last `release()` on; and
how far the deletion has come. `ConnectionInv` is `TokenInv /\ (Kept => RefsInv)`:
`connect()` hands its program a connection without a reference
(`http_service.cpp:67`), so that for such a client the references are claimed
only while its read goes on (`Kept`): until the peer closes or a response does not
parse. The run checks `RefsExact` after a failed parse as well.

**File cache.** `PinnedStaysCached` is about nodes in the map, but a pin is taken
on nodes that are on their way in, and lost on those on their way out. `FullInv`
follows a node from its maker, who alone knows it (`InsertInv`), through the map,
where its count equals its pins (`MapInv`, `PinInv`), to the list of those to be
deleted, which exists under the lock only (`LockInv`, `DropInv`); `NodeInv` says
that it is always in one of these places. `BoundInv` says that there is a number
left for each node to be made. The destructor ends this, hence `CacheInv`.

`CacheConsistent` is about states in which no one holds the lock. `ConsInv` says what
holds in between. `CallsInv` adds the calls that are under way to the totals.
`BytesInv` says which nodes `bytes_used_` counts: those of the map and those on
the way out, less the ones a load has inserted and not counted. `ListInv` gives
the links as a sequence from `tail_` to `head_` that has every node of the map once
(`IsList`); `WalkInv` says where in it `evict()` stands until it has removed a node.
Both are for files of one size. `Listed` and `BytesOf` are recursive functions, of
which these proofs need what they compute: `NatSet` derives induction over the
naturals from the well-foundedness of `<`, stated about sets, and from it follow
`ListedIs` (the nodes of the sequence are what is reached along `next`) and the
lemmas on sums.

**One-layer allocator.** `AllocInv` is inductive. `Linked` says that `freels_`, `next_`
and `prev_` form one list per class, and that the lists share no block; from it
follows what `Walk` finds (`WalkIs`, by `NatSet`), and for each case of `insertFreeBlock`
and `rmFromFreeLs` that the pointers they set form the lists with one block more or
less (`InsertLinked`, `RemoveLinked`). `Own` says that a block is free, in user hands or
held by one call. `Laid` says that blocks do not overlap. It cannot take all sizes
from the headers: `allocateObject` writes the tags after it has released the lock, so
that until then the size of the block is the `totalSize` of the call, and the header
may be that of a larger block before it was cut. `Laid` therefore has the sizes as a
function that is only claimed to exist, and each step shows the function for the
next state. The invariant holds even if several threads make the first `malloc`.
`RefinesTheorem` supposes that one does (`\A t, u \in Early : t = u`); otherwise a
turn of `initialize()` may empty a list that another thread has filled, which is no
insertion or removal. `EarlyInv` says that no other thread moves during `initialize()`.

**Model-checked only.** All liveness (the prover has no rule for fairness); `TagsIntact`
and the two-layer allocator, whose exit reports are sums over all blocks; `WindowAccurate`, whose ring is arithmetic modulo a parameter;
`HTTPExchange`. `Buffer` and `HTTPParser` are recursive over data of several kinds
at once; the library's induction theorems take an operator as a parameter, which
the provers cannot instantiate, and what `NatSet` offers in their place was
carried only as far as the file cache needs it.

## Where code and documentation disagree

The following definitions state what the documentation says, and TLC refutes
them. They are in no listed run; each is reproduced by giving the named
specification and changes in a copy of the module's cfg.

| Property | Changes to the cfg | What happens |
|---|---|---|
| `PreviouslyEnqueuedServed` (`ThreadPoolFast`) | `Spec`, `NumWorkers = 1`, `Task = {t1, t2}` | a task calls `stop()`; what is queued behind it is dropped (`io_service.cpp:88-89`) |
| `NothingLost` (`OneLayerAlloc`) | `Early = {t1, t2}` | a block freed before `initialize()` empties the lists is lost (`MyMalloc.cpp:42`) |
| `CentralHoldsPages` (`TwoLayerAlloc`) | `Load <- Small`, `CentClasses = 3` | `realloc` gives a small block to the central heap (`heap_alloc.cpp:433`, against `:320-322`) |
| `NeverExceedsSize` (`FileCache`) | `Spec`, `FileSystem <- OnlyEqual` | two loads pass the space check together (`file_cache.hpp:17-19`) |
| `StopIsSafe` (`IOService`) | none | a worker accepts from the closed socket for ever, uses the deleted descriptor, or waits in a second `stop()` for the one that joins it (`io_service.hpp:34-36`) |
| `OutputReadable` (`HTTPExchange`) | none | after `advance()` filled a chunk that was then consumed, `write()` leaves the read position in it; `readSize()` is 0 and the writer gets stuck (`buffer.hpp:101-103`) |
| `AppendFromEmpties` (`Buffers`) | none | one full block is written; `appendFrom` takes it and leaves the other buffer's `wpos_` behind its chunks (`buffer.cpp:146-152`, against `buffer.hpp:106-107`) |
| `WritingHasWriter` (`ClientConnection`) | `Spec` | see below (`connection.hpp:103`) |
| `FlushesAll` (`ClientConnection`) | as a `PROPERTY`; even with the one load of one server worker | see below (`connection.hpp:149-151`) |
| `RefsExact` (`ClientConnection`) | the blocking load with `!.closes = TRUE` | `connect()` keeps no reference for its caller (`http_service.cpp:67`): when the peer closes, the connection is deleted under it |

`WritingHasWriter`: between the append of a response and the `startWrite()` for it,
the writer on another worker flushes everything and clears `writing_`.
`startWrite()` then writes zero bytes, `doWrite()` takes the zero for a closed
socket (`connection.cpp:254`) and ends with `writing_` set. No later response is
ever written, although the comment calls `writing_` "a pending/ongoing write
request".

`FlushesAll`: the same end is reached on one worker, with no race. A file fills the
last chunk of `out_` and is sent; the next response goes to a new chunk, and
`write()` leaves the read position at the end of the old one (`buffer.cpp:63-86`).
`readSize()` is 0 though there are bytes to send, and `doWrite()` gives up with
`writing_` set. The comment says that a write "will flush to the underlying socket
all the contents of 'out_'".

Seen in the models, and part of them, without a documented promise to set
against:

- `parseLine` looks at the character after a carriage return without asking
  whether there is one (`http_parser.cpp:123`). A line cut there is accepted or
  rejected by what the memory holds; the model chooses either.
- `free` chooses the layer by a remainder, not a comparison
  (`heap_alloc.cpp:410`); lists stay sound all the same.
- A block freed into a cache before the cache's first allocation is forgotten
  when that allocation empties the lists (`thread_cache.cpp:34`).
- The failure of `open` is not counted in `pin_total_` (`file_cache.cpp:104`), and
  the read loop does not end if the file shrank (`file_cache.cpp:132`).
- Slots of thread-local storage are never given back, and the one behind the
  last is the counter (`thread_local.hpp:87`).

## Assumptions about the environment

`SIGPIPE` is ignored, so that a write to a closed socket returns an error. Memory
accesses take effect in program order, as the comment in `spinlock_mcs.hpp` says
the build keeps for its stores; in `RequestStats` stores may arrive in any order.
`sbrk` does not fail, and callers free what they own, once. Epoll reports each
direction that is ready when an edge has occurred. A request address begins with
a slash, as the server's parser requires. The program that uses a client
connection is external: it waits for each callback, and releases in the end.

## What is not modelled

- Several acceptors of one service: a loop over what is modelled for one.
- The text of pages, and the pin of the file that is served (see `FileCache`).
- Nested use of two MCS locks by one thread, which shares one node; no code does it.
- Exit handlers while another thread is still inside the allocator.
- The counts of calls in the allocators, which are printed only.
- Callbacks (generated wrappers), logging, parameters, clocks and process
  wrappers: formatting or no state of their own; support of tests and benchmarks.
- `list_set` and `circular_buffer`, whose bodies are empty; `sbrk_alloc` and
  `page_map`, which no program compiles.

## Running

    tlc -config MCBarrier.cfg MCBarrier
    tlapm SyncProofs.tla
