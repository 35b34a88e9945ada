# TLA+ models of embLinux

The repository holds a C++20/23 library of concurrency building blocks for embedded
Linux (`src/modern_cpp_core`), the study code it grew out of
(`src/C++_ConcurrencyInAction`) and three small C programs that share memory between
processes (`src/tran-danh-quang/session-09`). This directory models the library (its
lock-free containers, RCU and hazard pointers, its queue, its thread pool with the
parallel algorithm built on it, the channel of its coroutines, and the runtime they
live in: frame pool, tasks, timers, event loop), the lock based queues, table and list and the stack and queue
with split reference counts of the study code, and the three pairs of programs.

Every module is written from the source. `PROJECT.json` maps each definition to the
lines it stands for, and lists the runs, the mutants that show that each property can
fail, the findings, the hazards and the theorems.

## Inventory

| component | state | operations | hard part | what makes it correct |
|---|---|---|---|---|
| `LockFreeQueue` | ring of `Capacity + 1` cells, two atomic indices | `push` (two overloads), `pop`, one thread each | order of cell and index accesses, old index values, wrap | a bounded FIFO; no cell written while it is read |
| `LockFreeStack` | pool of nodes, two tagged list heads | `push`, `pop` by any thread | ABA, retry loops, nodes in transit | an atomic bounded stack; each node in one place |
| RCU | epochs and records of a domain, a thread-local context, `RcuPtr` | register, unregister, `lock`, `unlock`, `read`, `update`, `synchronize` | epoch loaded before it is published, records skipped by the writer, record reuse | nothing is deleted while a reader may use it; `update` returns |
| `ThreadSafeQueue` | queue, mutex, semaphore | `push`, `try_pop`, `wait_and_pop`, `empty` | permit and element are separate | permits match elements; every element delivered |
| `JThreadPool` | global queue, a deque per worker, condition variable, shutdown flag, stop tokens | `create`, `execute`, `worker_loop`, destructor | lost wake-ups, stealing, forking, shutdown at any moment | tasks are run once and eventually; the destructor returns |
| `parallel_for_each`, `parallel_transform` | a latch and the chunks of a range | one call | boundaries of chunks, return against the last chunk | every element once, before the call returns |
| `Channel` | bounded queue, waiting senders and receivers | `send`, `receive` and their awaiters | nested resumption, changes between `await_ready` and `await_suspend` | values neither lost nor copied; nobody stranded |
| `EventLoop`, `AsyncTimer` | epoll set, map from descriptor to coroutine, `running` | `register_timer`, `unregister_timer`, `run`, `poll`, `stop`; construct, await, destroy a timer | event before the map entry, `stop` before `run`, timeout zero | an awaited timer resumes its coroutine once |
| `CoroutinePoolAllocator` | free list of frames | `init`, `destroy`, `allocate`, `deallocate` | frames that outlive the pool | a block has one user |
| `Task`, `Generator` | coroutine frame and continuation | await, resume, iterate | frame lifetime | the continuation is resumed once |
| hazard pointers | owner slots, list of retired nodes | acquire, publish, retire, scan | publication against scan | a published pointer is not deleted |
| `ThreadSafeHashMap` | buckets with a shared mutex each | `insert`, `get`, `remove` | none across buckets | a map |
| `FixedTask`, `Spinlock`, `atomic_wait`, aliases, affinity, memory, other patterns | small or none | | | |
| `threadsafe_queue_single_mutex`, `threadsafe_queue_fine_grained` (study) | a list with a dummy node, one or two mutexes, a condition variable | `push`, `wait_and_pop`, `try_pop` (two overloads each), `empty` | notification without the mutex of the wait, assignments that throw | a FIFO queue; every element is returned |
| `threadsafe_lookup_table` (study) | buckets with a shared mutex each | `value_for`, `add_or_update_mapping`, `remove_mapping`, `get_map` | several locks at once | a copy is a state of the table; no deadlock |
| `threadsafe_list` (study) | a mutex in every node | `push_front`, `for_each`, `find_first_if`, `remove_if` | nodes destroyed between other traversals | no destroyed node is touched, none that stays is missed |
| `lock_free_stack`, `lock_free_queue` (study) | linked nodes, split reference counts | `push`, `pop` | reference against delete, addresses that come back, helping | a stack, a queue; each node deleted once; no element lost |
| Treiber `LockFreeStack` (study) | linked nodes, raw pointers | `push`, `pop` | `pop` reads and deletes a node that another `pop` may hold | not modelled: nothing protects a node |
| other study code | pools, algorithms, exercises | | the barrier of a partial sum | |
| sensor daemon and client | a System V segment, no lock | start, measure, store, `SIGINT`; attach, load | fields of two rounds in one report, daemons that are killed | a report is not older than its stamp; the key names a running daemon's segment |
| configuration writer and reader | a mapped file | open, defaults, menu; poll | several writers, death between two stores | a file with a baud rate is complete |
| controller and device | a POSIX object with a process shared mutex | create, command, destroy, unlink; open, lock, read, `SIGINT` | death with the mutex held, use before initialisation and after destruction | a device stops when told |

Interactions: `parallel_for_each` submits closures to `JThreadPool` and waits for a
latch that they count down; tasks of a pool submit more tasks to the deque of their
worker, and threads of one pool may submit to another; coroutines resume each other
through a `Channel`; `AsyncTimer` hands a coroutine to the `EventLoop`, which resumes it;
all of the coroutine code takes frames from `CoroutinePoolAllocator`; `Channel` and the
allocator use `Spinlock`; `JThreadPool` stores `FixedTask`s. The programs of session-09 meet
only in the shared objects: the segment of a key, the file, the object of a name.

## Modules

| module | models | checked by |
|---|---|---|
| `BoundedFifo` | the promise of `LockFreeQueue`, `LockedQueue` and `CountedQueue` | `lock_free_queue`, `locked_containers`, `lock_free_containers` (refinements) |
| `LockFreeQueue` | `lock_free_queue.hpp` | `lock_free_queue`; `LockFreeContainersProofs` |
| `BoundedStack` | the promise of `LockFreeStack` and `CountedStack` | `lock_free_containers` (refinements) |
| `LockFreeStack` | `lock_free_stack.hpp` | `lock_free_containers` |
| `HazardPointers` | `hazard_pointer.hpp` | `lock_free_containers` |
| `CountedStack`, `CountedQueue` | `designLockFree/dataStructures.hpp` | `lock_free_containers`; `CountedQueueProofs` |
| `LinkedLists` | a linked list and the sequence of its nodes | used by the two stacks |
| `LockFreeContainers` | the four containers above side by side | `lock_free_containers`; `LockFreeContainersProofs` |
| `Rcu` | `rcu.hpp` | `rcu`, `rcu_nested`; `RcuProofs` |
| `ThreadSafeQueue` | `thread_safe_queue.hpp` | `locked_containers`, `thread_safe_queue_mixed` |
| `LockedQueue`, `LookupTable`, `HandOverHandList` | `designLockBase/dataStructures.hpp` | `locked_containers` |
| `LockedContainers` | `ThreadSafeQueue` and the three above side by side | `locked_containers`; `LockedContainersProofs` |
| `ThreadPool` | `thread_pool.hpp`, `thread_pool.cpp` | `thread_pool`, `thread_pool_foreign`; `ThreadPoolProofs` |
| `ParallelForEach` (extends `ThreadPool`) | `parallel_algorithms.hpp` | `thread_pool`; `ThreadPoolProofs` |
| `Channel` | `channel.hpp` | `channel`, `channel_threads`; `ChannelProofs` |
| `CoroutineRuntime` | `coroutine_pool.*`, `task.hpp`, `async_timer.hpp`, `event_loop.*` | `coroutine_runtime`; `CoroutineRuntimeProofs` |
| `SensorSegment` | session-09, `Exercise_1` | `shared_memory_programs` |
| `ConfigFile` | session-09, `Exercise_2` | `shared_memory_programs` |
| `DeviceShm` | session-09, `Exercise_3` | `shared_memory_programs` |
| `SharedMemoryPrograms` | the three pairs side by side | `shared_memory_programs`; `SharedMemoryProofs` |

A module "side by side" composes parts that share nothing: the initial state chooses the
one that a behaviour uses, so that one run asks the same kind of question of each without
multiplying their states.

`MC*` modules give the constants values that a `.cfg` cannot write. Operators whose
comment starts with "Mutant" are wrong versions of the definition that follows them;
nothing uses them but the `mutants` of `PROJECT.json`.

### Grain and memory model

An action is one access to an atomic, or one critical section where a mutex or spinlock
guards everything that the section touches.

* `LockFreeQueue` models what acquire and release give, not sequential consistency: a
  load of the other side's index may return any value between the last one seen and the
  newest (`Observable`), and the cell is accessed in a step of its own, so that an
  unsynchronised access would show as `NoDataRace` failing.
* `LockFreeStack`, `HazardPointers`, `CountedStack`, `CountedQueue` and `Rcu` interleave their
  atomic accesses. A `compare_exchange_weak` that fails for no reason reads again what it
  has read and is no step; a loop whose failing rounds only change a local (the count of
  a node in `CountedQueue`, `add_to_reclaim_list`) is one step. Deleted nodes and objects are
  allocated again, so that a stale pointer can meet its address in a new role. In `rcu.hpp` the accesses that
  order a reader against a writer are seq_cst read-modify-writes; the fence that its risk
  review mentions does not exist in the code, and nothing depends on it under this model.
* `ThreadPool` takes each critical section as one step, except from the test of the wait's
  predicate to the moment the worker is in the condition variable's queue. That is two
  steps with `m_queue_mutex` held (`blocking`), because a worker of another pool pushes and
  notifies without that mutex. `m_is_shutdown` is read under the wrong mutex when the
  caller has a worker index: such a read is a data race and may return the old value until
  the worker has locked `m_queue_mutex` (`seen`). `try_lock` may fail at any time. The
  test for "every queue empty" after a shutdown locks the deques one by one; it is one step
  here, the difference only being whether a worker returns now or after another round.
* `LockedQueue`: a wait is two steps, the test and the entry into the condition variable's
  queue, with the mutex of the wait held; a push is three (data, link, notify), of which the
  notification of the fine grained queue is outside the mutex. `LookupTable` takes an
  operation on one bucket as one step and `get_map` as one per lock and per copy.
  `HandOverHandList` takes each lock as a step; its nodes are never allocated again, so that a
  destroyed one can be told.
* `SensorSegment`, `ConfigFile` and `DeviceShm` take loads and stores of shared fields as steps in
  program order (the programs are built for x86-64, with system calls in between). System calls
  are external: `shmget` with `IPC_EXCL`, `IPC_RMID` that takes the key away at once and the memory
  after the last detach; `ftruncate` that fills with zeroes; a process shared mutex as glibc has it (a
  lock call tests once that the mutex is not destroyed, an unlock frees it whoever holds it,
  initialising it again forgets who sleeps on it).
* `Channel` models a thread as a stack of coroutines: `resume()` pushes, suspension pops,
  and only the innermost coroutine of a stack moves.
* `CoroutineRuntime` takes system calls and critical sections as steps. What matters of the
  kernel is external: a timerfd armed with a value expires once and one armed with zero
  never; `epoll_wait` reports at most `kMaxEvents` of the armed and expired descriptors, in any
  order, and disarms those (`EPOLLONESHOT`); `close` removes a descriptor from the epoll set
  and its number may be used again.

### State and actions against the code

* `LockFreeQueue`: `m_buffer`, `m_head`, `m_tail` and the locals of the two calls.
  `PushBegin`, `PushLoadHead`, `PushWrite`, `PushStore` are the four accesses of `push`;
  `PopBegin`, `PopLoadTail`, `PopMove`, `PopStore` those of `pop`.
* `LockFreeStack`: both operations take a node from one list and put it on the other, so
  `push_impl` and `pop` share `TakeLoad`/`TakeNext`/`TakeCas` and `PutLoad`/`PutNext`/`PutCas`
  with the lists swapped (`From`, `To`); in between comes `WriteData` or `ExtractData`. A
  failing compare_exchange is the load of the next round.
* `Rcu`: `Enter` and `Register*` for the constructor of a reader, `LockLoad`, `LockExchange`,
  `Read`, `Unlock`; `ExitClear`, `ExitRelease` for the end of a thread; `UpdateSwap`,
  `SyncAdvance`, `SyncInUse`, `SyncSkip`, `SyncSpin`, `UpdateDelete` for `update`.
* `ThreadSafeQueue`: `Push`, `Release`; `TryPop`; `Acquire`, `WaitPop`. `style` says which of
  the pops the consumers of a queue use.
* `ThreadPool`: `Spawn`, `SpawnFails`; `Destroy`, `Shutdown`, `NotifyAll`, `RequestStop`, `Join`;
  `Execute*` for clients and `Fork*` for the body of a task; the rest is `worker_loop` from top
  to bottom. `submitted`, `misplaced`, `ran` and `dropped` are history.
* `HazardPointers`: `ReadBegin` and `try_acquire` get a slot, `ExitClear` and `ExitRelease` are the
  destructor of the owner; `reclaim_later` retires, `TakeList`, `outstanding_hazard_pointers_for` (one
  slot per step), `KeepNode` and `DeleteNode` are `delete_nodes_with_no_hazards`. The client is external:
  `Load`, `Publish` (the store to what `get_pointer` returns), `Validate`, `ReadEnd`, `Replace`.
* `CountedStack`: `CPush`, `CPushCas`; `CPop`, `increase_head_count`, `ReadNext`, `CPopCas`, then `SwapData`,
  `AddExternal` for the winner and `ReleaseNode` for the others. `CountedQueue`: `QPush`, `StoreData`,
  `LinkNode` (both branches: its own link and the help), `set_new_tail`; `QPop`, `TestEmpty`, `LoadNext`,
  `Unlink`, `ExchangeData`; `increase_external_count`, `free_external_counter`, `release_ref` for both. `popped`,
  `newest`, `late` are history.
* `LockedQueue`: `PushData`, `PushLink`, `PushNotify`; `CallPop`, `Test`, `Block`, `PopHead`, `PopThrows`. `kind` says
  which of the classes it is; `missed` and `threw` are history. `LookupTable`: one action per
  operation, `MapBegin`, `MapLock`, `MapCopy`, `MapReturn` for `get_map`. `HandOverHandList`: `push_front`; `Begin`,
  `LockNext`, `StepOn`, `Found`, `Unlink`, `Delete`, `End` for the three traversals.
* `ParallelForEach`: `usage` says whether the pool serves the clients of `ThreadPool` or callers of
  the algorithm. `CallEmpty`, `CallBegin`, `CallSubmit` (which is `ExecuteGlobal` of the pool),
  `CallReturn` in the caller; `ForEach` and `CountDown` (with `Finish` of the pool) in a worker.
* `Channel`: `Send*` and `Receive*`, one for each awaiter function and outcome. `Take` is the code
  that `await_ready` and `await_resume` of a receive have in common.
* `CoroutineRuntime`: a job is a detached coroutine, as in `test_coroutines_advanced.cpp`, that awaits
  a `Task` that awaits an `AsyncTimer`. `StartJob` (or `bad_alloc`), `CallTask`, `AwaitTask`, `NewTimer`,
  `EpollAdd`, `InsertTimer` lead to the suspension; `RunBegin`, `RunTest`, `PollBegin`, `EpollWait`,
  `PollInterrupted`, `TakeEvent`, `ResumeCoro`, `PollEnd`, `Stop` are the loop; `TimerFired`,
  `FinalSuspend`, `TaskResult`, `EndJob` run on its thread. An exception of the timer is stored in
  the promise of the task and thrown again in the root, which catches it. `DropJob` is a client
  that destroys a waiting job between two polls: the map keeps its handle. `single` says
  whether the thread of the jobs polls or another thread is in `run()`; `fired` and `missed`
  are history.
* `SensorSegment`: `init_daemon`, `DaemonAttach`, `DaemonMeasure`, `StoreTemp`, `StoreRam`, `StoreStamp`,
  `DaemonDetach`, `DaemonRemove`, and `sigint_handler` or `DaemonKilled` at any moment; `CliGet`, `CliAttach`, `LoadStamp`,
  `LoadTemp`, `LoadRam`. A field holds the number of its measurement.
* `ConfigFile`: `WriterOpen`, `WriterMap`, `WriterTest`, the three defaults, `Update` for the menu, `WriterEnds` for
  every way to end; `ReaderOpen`, `Poll`, `ReaderEnds`.
* `DeviceShm`: `COpen` to `CUnlink` are `controller.c` from top to bottom, `DOpen` to `DEnd` are `device.c`; `CKilled`,
  `DKilled` and `DSigint` happen anywhere. `holder` is "gone" when a mutex stays locked for ever, a device is
  "asleep" when the mutex has forgotten it.

## Runs

| run | instance | shows |
|---|---|---|
| `lock_free_queue` | capacity 3, 2 values | the ring implements the FIFO; every value comes out; a full queue does not stay full for a producer that retries |
| `rcu` | 3 threads, 2 records, 1 domain, 2 objects | grace periods, no use after free, one owner per object, `update` returns; also with a thread that finds no record |
| `rcu_nested` | 2 threads, readers nested twice | expected violation, see Findings |
| `lock_free_containers` | tagged stack: 2 threads, 2 nodes, 5 operations; hazard pointers: 3 readers of which 2 write, 2 slots, 2 addresses; counted stack: 2 threads of 3 calls, 2 addresses; counted queue: 3 pushes and 2 pops of 2 threads, 4 addresses | nothing is freed while it is used, nothing leaks, both stacks and the queue implement their abstract ones, no element is lost but for one case, operations return, retired objects are deleted |
| `locked_containers` | 2 producers of 2 elements and 2 consumers for either kind of queue; 3 threads of 2 calls on 2 buckets; 2 threads on a list of up to 3 nodes | permits match elements, delivery, FIFO order, `get_map` copies one state, traversals are safe and complete, nobody waits for ever |
| `thread_safe_queue_mixed` | the same queue, both pops used | expected violation |
| `thread_pool` | 2 workers, a client, a worker of another pool, a task that forks; or a caller with ranges of -1 to 5 elements in chunks of 2, 3, 7 | tasks in one place, no lost wake-up, tasks run, the destructor returns; each element once by the time the call returns; it returns |
| `thread_pool_foreign` | the same pool | expected violation |
| `channel` | 2 senders of 2 values, 2 receivers, capacity 1, 1 or 2 threads | values and coroutines in one place; on one thread no stranded waiter and full delivery |
| `channel_threads` | the same | expected violation |
| `coroutine_runtime` | 2 jobs, 2 descriptors, pools of 3 or 4 blocks built twice, 1 event per wait, 1 or 2 threads | frames in one place, resumption by the own expired timer only, timers fire, `run` returns after `stop` |
| `shared_memory_programs` | 2 daemons, a client, 2 segments, 2 measurements; 2 writers, a reader; 2 controllers, 2 devices, 1 object; all started again and again | reports are not older than their stamp, the key follows the daemon, the configuration is complete, a device stops on `SIGINT`, with the exceptions below |

Why the bounds are enough to meet the interesting cases: the ring turns more than once
(the state space has no bound on operations); the stack's five operations allow pop, pop,
push, push between a load and a compare_exchange, which is the ABA case (the mutant
`SameTag` fails within the bound), and `TagModulus` is one more than the operations so that
tags do not wrap; in `rcu` three threads compete for two records, and two objects suffice for
a reader to hold one object while the other is swapped in; three readers compete for two
hazard pointers, and a slot changes hands between two loads of a scan; with two addresses for
the counted stack and four for the queue, deleted nodes come back while old copies of the head are
about, a push helps another one and still has an address for its next node, and one is overtaken by a push and a pop (three
threads on the counted stack were checked once as well, too long for a run that is repeated);
with two elements a producer one consumer of `LockedQueue` can be in the test while another waits; two
threads on three nodes put a traversal before, on and behind a node that is removed; a second
daemon, writer, controller or device is what it takes to start while another one runs or after it
was killed; nothing that a device does involves two objects (one controller with two objects was checked once as well); in `thread_pool` one worker can be
in any place of its loop while the other is in any other; in `channel` both lists of
waiters get two entries, and a chain of two nested resumptions happens; in
`coroutine_runtime` a pool of three blocks runs out in the second task, a descriptor of a dropped
job is used by the other one, and two events are ready while one is taken. Unbounded counters
are bounded by `MaxObjects`, `MaxOps`, `MaxPushes`, `MaxSends`, `MaxDistance`, `MaxPools`, `QMaxPushes`, `QMaxPops`, `QMaxCount`,
`CMaxCalls`, `CMaxCount`, `TMaxCalls`, `LMaxCalls`, `MaxNodes`, `MaxSegments`, `MaxSamples`. The hazard pointers and the
processes need no bound on what they do. `Modulus` stands
for 2^64; `RangeAssumption` keeps `distance + chunk_size - 1` below it.

`CHECK_DEADLOCK FALSE` is used where the system may really stop: consumers that wait for
an element that nobody pushes, a pool that has been destroyed, calls that have all returned, a
controller that waits for a mutex whose holder was killed; and in `lock_free_containers`, where
the counted structures stop at their bounds.

### Fairness

* Threads are scheduled: weak fairness on the steps of calls in progress. No fairness
  on starting a call, except that consumers of the queues keep consuming where delivery is
  the question, and that a coroutine is started.
* `Rcu`: a reader is closed some time (`WF` of `Unlock`); `synchronize` waits for it by design.
* `LockFreeStack`: weak fairness is enough, since the number of operations is finite and a weak
  compare_exchange does not fail for no reason for ever.
* `HazardPointers`: readers end, and while there are retired objects somebody calls
  `delete_nodes_with_no_hazards` again (`SF` of `TakeList`); without that the list only grows.
* `CountedStack`, `CountedQueue`: none, only safety is checked. Two pops that count themselves in
  between each other's count and compare_exchange fail for ever, with counts that grow: neither is
  lock-free, and no finite behaviour shows it.
* `LockedContainers`: weak fairness throughout. Consumers of `ThreadSafeQueue` and one consumer of `LockedQueue`
  keep calling, the other calls are finite in number, so that every mutex is free for good in the end.
* `SharedMemoryPrograms`: processes are scheduled, and a mutex that is free again and again is got (`SF` of
  `DLocked`). Nobody need start a process, type a command or send a signal.
* `ThreadPool`: strong fairness for steps that lock `m_queue_mutex`, i.e. the mutex does not starve a
  thread; tasks return. Spurious wake-ups happen but nothing relies on them.
* `CoroutineRuntime`: threads run, time passes, a client without a loop thread keeps polling, and not
  every `epoll_wait` is interrupted by a signal (`SF` of `EpollWait`).

## Findings

1. Nested readers (`rcu_nested`): `unlock` stores 0 in the only epoch of the thread, so that
   closing an inner `scoped_rcu_reader` ends the outer critical section for `synchronize`.
2. Mixed pops (`thread_safe_queue_mixed`): `try_pop` leaves a permit behind, and `wait_and_pop`
   takes `front()` of an empty queue.
3. Work from another pool (`thread_pool_foreign`): `execute()` uses the index that the calling thread
   has in its own pool. The task goes to the deque of the namesake, without the mutex of
   the wait, and the notification may go to a worker that does not look there.
4. Channel over threads (`channel_threads`): `await_suspend` does not look again.
   Sender and receivers can all wait for ever.

Further places where a promise holds with an exception that the property names; each property is
violated without its exception.

* `ElementsKept`: a push of the counted queue that holds a reference to the last node and is overtaken by
  another push into that node and by its pop finds `data` empty again, and stores its element in a
  node that has left the queue (`designLockFree/dataStructures.hpp:280`).
* `ElementsReturned`: the fine grained queue notifies without the mutex of the wait
  (`designLockBase/dataStructures.hpp:258`), so that a notification between the test and the wait is lost; and a
  consumer whose assignment to the caller's variable throws has used up a notification.
* `ConfigComplete`: a writer killed after the first default leaves a file that every later writer takes as
  initialised (`writer.c:64`).
* `KeyFollowsDaemon`: a daemon that is killed leaves its segment, and no daemon starts any more (`daemon.c:77`).
* `StopsOnSigint`: a process killed with the mutex locked, an unlock of a destroyed mutex, and a mutex that is used
  before its initialisation (it is then private to each process, also for a lock call that goes on when it has been initialised) or
  initialised again under a sleeper leave a device that `SIGINT` cannot stop.

`Rcu` with two domains also loses its protection, since the thread-local context belongs to the first domain
a thread used (`rcu.hpp:142`); this is in the list of hazards and has no run.

In the event loop, `register_timer` arms the descriptor before it stores the coroutine: when the timer
has expired and the thread in `run()` polls in between, the one-shot event is consumed and
the coroutine is never resumed. `TimersFire` names this case (`missed`) as its only exception for a
running loop, and is violated without it.

## Proofs

Every theorem holds for all values of the constants that meet the assumptions named in the
modules (`ASSUME`); a further hypothesis is in the statement and in this text. `PROJECT.json`
lists the theorems with the property that a run checks and the theorem states. Each
section names the inductive invariant, and what it says that the property does not.

`RcuProofs`, for any number of threads, records and objects. `Grace` and `Protected` are under
`Discipline` (one domain, no nesting; the tests of the repository keep to it; the run
`rcu_nested` shows that nesting makes them false): `IInv` adds to `TypeOK` which record belongs
to which thread (`Places`, `Slots`: records of two threads differ, a record in use has an owner),
that a published epoch is positive and not above the global one (`Epochs`), who may hold or free
which object (`Heap`), and for each waiting writer that a reader that it still has to wait for,
or that holds its old object, has a record at or after the scanned index with an older
epoch (`Waits`). The last is what makes `GracePeriod` and `NoUseAfterFree` follow.
`ObjectsOwnedOnce` (`OInv`) needs no discipline: an update is the owner of its old object
exactly until it has deleted it.

`LockFreeContainersProofs` and `CountedQueueProofs`, for any number of threads, nodes, slots and calls. The linked lists are
given by links; the proofs are about the sequences that they stand for (`LinkedLists`), with
lemmas on what a push and a pop at the front do to them. What needs induction over positions of
a list (two lists along the same links are equal, a list ends within as many steps as
there are nodes) takes the least counterexample instead (`Least`, from the well-foundedness of
the natural numbers), since the provers cannot instantiate an induction theorem. Lemmas on lists and the
counted queue are in `CountedQueueProofs`, which the other module extends; the rest is in the other.

* Ring buffer (`RingInv`), for every capacity and set of values: `Ring` (the producer's view of the head is not ahead of the
  head, the consumer's view of the tail not ahead of the tail, and the queued part never exceeds the
  capacity), `RingLocals` (an index held in a call is the current one, and a call past its test
  has seen room, or a value) and `RingFilled` (cells between head and tail hold values). Neither
  `NoDataRace` nor the refinement is inductive: both need that what a lagging load has
  seen is a safe bound on the truth. `RaceFree`; `RingRefinement` maps the abstract queue to the cells
  from `m_head` to `m_tail`: `PushStore` and `PopStore` are the abstract operations.
* Tagged stack (`StackInv`), if no tag comes back, `MaxOps < TagModulus`: the code has 32-bit tags
  and no other protection against ABA. `TagsCount`: the tag of a list and the operations
  that have still to change it are at most the operations begun. `StackLocals`: a head with the tag that
  a call has loaded is the head it has loaded (`Current`); `Lists` and `Layout` that the two lists are sequences without repetition, disjoint
  and disjoint from the nodes that the threads hold; `Links` that the next index a call has read is the second
  node as long as its compare_exchange can succeed. `NodeInOnePlace`, `StackRefinement`.
* Counted stack (`CInv`), without any hypothesis on addresses and counts that come back. For every node
  on the list, the external count of the one pointer to it is one, plus the references that
  pops have, minus what has been given back in `internal_count` (`Link`, `Count`); for a node off
  the list with no owner `internal_count` is the number of references left (`CSpent`); `CShape` says that
  these, the new nodes and the nodes of pops that have won are all the nodes that are not deleted. A successful compare_exchange
  then implies that the caller has read `next` of a node that never left. `NodesCounted`,
  `CountedStackRefinement`.
* Counted queue (`QInv`, `QDataInv`), without any hypothesis either; of the addresses only that they are finitely many
  and at least one. `Shaped(c)`: `c` are the nodes from the head to before the last one (`QChain`), and there are `w`, for
  each end and node what the end has counted and not yet passed on to the node, and `o`, in which nodes it has still to be accounted
  for, such that per node `internal_count` plus both `w` is the number of calls that refer to it and
  `external_counters` the number of ends in `o` (`Balanced`), an end has counted what it shows (`EndCounted`), and the call that has
  moved an end off a node has that end's count in hand (`LeaverCounted`). `OffList` is why a node that neither end points at is still there: an end to be accounted for by
  a call, or a reference. `QRefers` is what a call knows of the node it refers to. A node without a trace of a call is
  `Fresh`, which is how a node that comes back after delete differs from the one that a call still refers to. `QBecomes`: a step leaves `c`, appends the last node or
  takes the first away. `QFilled`, `QOnce` and `QFound` follow the elements: nodes before the last have
  one; the last has one only while the push that stored it is still about to move the tail or to see that
  it has moved; an element that was stored in the queue is in one node of it, with one pop, or popped. `QueueNodesCounted`,
  `CountedQueueRefinement`, `ElementsAreKept`.
* Hazard pointers (`HInv`): `Ahead` keeps, for each slot that a scan has still to load or has loaded, why a reader
  that validates there later does not hold the object to be deleted; `Owned` that every
  live object is in one of: the global pointer, a replacement under way, a list, a scan.

`LockedContainersProofs`, for any number of threads, keys, buckets, nodes and elements.
`TInv`: the buckets that `get_map` holds are those below its index, and what it has copied is
what they still hold. `SemInv`: the permits, the pops past the semaphore and the producers before
`release` match the elements; `WaitFindsElement` is for consumers that use one kind of pop (`~Mixed`, the
run `thread_safe_queue_mixed` shows why). `LInv`: nodes are in list order, a
traversal holds the locks of the nodes it stands on, nobody else has them, and each node that
was there from the start is examined or ahead (`Progress`), for which nobody may pass a locked node. `QInv`:
the chain has no repetition and ends in the dummy node, with one thread at each end; the queue of
`QueueRefinement` is the chain without its last node.

`ThreadPoolProofs`, for any number of workers, clients and tasks that fork (`ForksAssumption`: a task forks
finitely many others). `PInv` is types, `OInv` and `WInv`. `OInv`: no two of the places of a task have it, and it is in
one once it was submitted. `WInv`: a worker on its way into the condition variable has seen an empty global queue, which nobody can
fill before it is in, so that with all workers in and a task queued a notification is due; and a worker
that looks elsewhere or waits has nothing in its own deque but what a worker of another pool misplaced. The invariant is about `PoolNext`, the steps of the pool with any clients,
so that it holds while `parallel_for_each` uses the pool (`CallsKeepPool`). `CInv` and `RInv` relate, for each
call, chunks submitted, chunks run, the latch, and how often each element was applied; the chunk
arithmetic (`ChunkAssumption`, `RangeAssumption`: tasks for all chunks, and no overflow) is proved for every range and chunk.

`ChannelProofs`, for any number of senders, receivers, values and threads. `AInv` gives each coroutine one of: a
place on one stack of `resume()`, an entry in one list of waiters, or none; `Midway` the parts of a
call between two awaiter functions. `VInv` has for each value of a begun send exactly one of queue, list
of senders, receiver. `SInv`, for one thread: a coroutine between `await_ready` and `await_suspend` is on top
of the stack, so that what it tested still holds (`OnTop`), and a list of waiters is empty or the queue is full or empty
accordingly (`Room`). `NobodyStranded` is about one thread; `channel_threads` shows why.

`CoroutineRuntimeProofs`, for any number of jobs, descriptors and blocks, every frame size and timeout. `PInv`: a block
below the high mark of the pool is free once or the frame of one coroutine. `CInv`: a job is on a thread exactly
while it has something to do (`OnThreads`); a descriptor is open for one timer (`Descriptors`); an event that has been
reported is of the expired timer of the job that the map names (`Events`, `Entries`), though descriptors are
used again and entries of destroyed coroutines remain. `Frames`: which frames a job has at each
place. `HInv`: how the result of the timer travels to the root.

`SharedMemoryProofs`, for any number of processes, segments and measurements, started and killed at any moment. `SInv`:
one daemon at most runs on a segment and the key names it, unless one was killed; the fields of a record are not older
than its stamp at any point of the three stores; what a client has loaded is not older than the stamp it loaded
first. `FInv`: a writer past the baud rate finds a baud rate in the file.

The composed modules: `ContainersKeepAll`, `ProgramsKeepAll`, `CountsKept` and `AbstractImplemented` state the same of the
specifications that put the parts side by side, which is what the runs check.

## Only model-checked

* Liveness: `ProducerProgress`, `UpdateReturns`, `OpsProgress`, `EveryElementDelivered`, `ElementsReturned`, `OperationsReturn`,
  `EveryTaskRuns`, `DestructorReturns`, `CallReturns`, `EveryValueReceived`, `TimersFire`, `RunReturns`, `StopsOnSigint`, `Delivered`:
  fairness and `ENABLED` are out of the prover's reach.
* The properties of the four runs that expect a violation are false.

## Not modelled

The components with status `not_modelled` in `PROJECT.json`, each with its reason. Within
modelled files: `~RcuPtr` and the destructors of the containers (they run alone), `threadsafe_stack` (one
mutex around each operation of a `std::stack`), exceptions thrown by element types other than in `wait_and_pop(T&)`, or by tasks (a task
that throws ends the process), `empty()` (no effect), the destruction of a pool by one of its
own workers, `unregister_timer` (never called), moves of a `Task`, a frame that outlives its pool (the client destroys the pool when no
frame lives), and a coroutine that is destroyed by another one while its event is in the batch being handled.
`treiberStack.cpp` of the study code is not modelled either: its `pop` reads `old_head->next` (`:49`) and deletes the node (`:66`)
without any protection against another `pop`, as its comment says (`:63`). What is checked and proved of `CountedStack` and
`LockFreeStack` does not hold of it; the latter is its rewrite (`rules/plan.md:55`). Of the study code, the pools are
fragments, and the algorithms are exercises; the barrier of `parallelPartialSum.hpp:48` waits for threads that have
left their loop, on every input of two elements or more, which needs no model to be seen.

## Plan

Every invariant and every refinement that a passing run checks is proved. Next are parts of the model that no property
follows far enough yet:

1. The event loop with coroutines that drop others from inside a batch of events; `Generator` on the frame pool.
2. A property that bounds what a stalled call costs the counted stack and queue: the allocated nodes exceed the stored
   elements by no more than the calls in progress. The invariants `CInv` and `QInv` are the place to derive it from.
