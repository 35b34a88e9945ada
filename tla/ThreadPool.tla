----------------------------- MODULE ThreadPool -----------------------------
(***************************************************************************)
(* modern_cpp_core/concurrency/thread_pool.{hpp,cpp}: JThreadPool, a       *)
(* global task queue, one deque per worker, and one condition variable.    *)
(*                                                                         *)
(* A critical section of one mutex is one step.  m_queue_mutex is held     *)
(* over two steps only where a step of another thread can come between:    *)
(* from the test of the wait's predicate to the moment the thread is in    *)
(* the condition variable's queue (pc "blocking"), since execute() from a  *)
(* thread with a worker index pushes without that mutex.  execute() calls  *)
(* notify_one after it has left the critical section, a step of its own.   *)
(***************************************************************************)
EXTENDS Integers, Sequences, FiniteSets, SequencesExt

CONSTANTS
    thread_count,   \* the argument of create()
    Clients,        \* threads that call execute(), not workers of this pool
    Foreign,        \* the clients that are workers of another pool ...
    ForeignIndex,   \* ... and their tl_worker_index there
    Task,
    Submits,        \* the tasks that each client passes to execute() ...
    Forks,          \* ... and the body of each task, in this order
    NoTask          \* an empty FixedTask

ASSUME CountAssumption == thread_count \in Nat
ASSUME ForeignAssumption == Foreign \subseteq Clients /\ ForeignIndex \in Nat
ASSUME TaskAssumption ==
    /\ Submits \in [Clients -> SUBSET Task]
    /\ Forks \in [Task -> Seq(Task)]
    /\ NoTask \notin Task

RootTask == {t \in Task : \A u \in Task : \A i \in DOMAIN Forks[u] : Forks[u][i] # t}

\* A task is the object of one call of execute(): made by a client, or at one place in
\* the body of one other task.
ASSUME ForksAssumption ==
    /\ \A x \in Clients : Submits[x] \subseteq RootTask
    /\ \A t, u \in Task : \A i \in DOMAIN Forks[t], k \in DOMAIN Forks[u] :
            Forks[t][i] = Forks[u][k] => t = u /\ i = k

N == IF thread_count = 0 THEN 1 ELSE thread_count
Workers == 0 .. N - 1

VARIABLES
    m_task_queue, m_local_queues, m_is_shutdown,
    m_cv,           \* the workers waiting in the condition variable
    stop,           \* the stop state of each std::jthread
    life,           \* create() and ~JThreadPool
    spawned,        \* length of m_workers
    pc, task, scan, forked,     \* each worker: place in worker_loop, task, i, children forked
    seen,           \* workers that locked m_queue_mutex after m_is_shutdown was set
    notifying,      \* clients in execute() between the push and notify_one
    submitted, misplaced, ran, dropped      \* history of the tasks

queues == <<m_task_queue, m_local_queues>>
owner == <<m_is_shutdown, stop, life, spawned>>
worker == <<pc, task, scan, forked, seen>>
history == <<submitted, misplaced, ran, dropped>>
vars == <<queues, m_cv, owner, worker, notifying, history>>

Init ==
    /\ m_task_queue = <<>>
    /\ m_local_queues = [w \in Workers |-> <<>>]
    /\ m_is_shutdown = FALSE
    /\ m_cv = {}
    /\ stop = [w \in Workers |-> FALSE]
    /\ life = "creating" /\ spawned = 0
    /\ pc = [w \in Workers |-> "unborn"]
    /\ task = [w \in Workers |-> NoTask]
    /\ scan = [w \in Workers |-> 0]
    /\ forked = [w \in Workers |-> 0]
    /\ seen = {}
    /\ notifying = {}
    /\ submitted = {} /\ misplaced = {} /\ dropped = {}
    /\ ran = [t \in Task |-> 0]

Goto(w, label) == pc' = [pc EXCEPT ![w] = label]

MutexFree == \A w \in Workers : pc[w] # "blocking"      \* m_queue_mutex

\* What locking m_queue_mutex tells worker w of m_is_shutdown.
Sync(w) == seen' = IF m_is_shutdown THEN seen \cup {w} ELSE seen

\* Mutant: notify_one wakes nobody.
NotifyNobody == m_cv' = m_cv

NotifyOne ==
    \/ m_cv = {} /\ UNCHANGED m_cv
    \/ \E w \in m_cv : m_cv' = m_cv \ {w}

-----------------------------------------------------------------------------
(* create() and the destructor, in the thread that owns the pool.          *)

Spawn ==
    /\ life = "creating" /\ spawned < N
    /\ spawned' = spawned + 1
    /\ Goto(spawned, "local")
    /\ life' = IF spawned' = N THEN "alive" ELSE life
    /\ UNCHANGED <<queues, m_cv, m_is_shutdown, stop, task, scan, forked, seen, notifying, history>>

\* std::system_error: the pool, which nobody else has seen, is destroyed.
SpawnFails ==
    /\ life = "creating"
    /\ life' = "destroying"
    /\ UNCHANGED <<queues, m_cv, m_is_shutdown, stop, spawned, worker, notifying, history>>

Destroy ==
    /\ life = "alive"
    /\ life' = "destroying"
    /\ UNCHANGED <<queues, m_cv, m_is_shutdown, stop, spawned, worker, notifying, history>>

Shutdown ==
    /\ life = "destroying" /\ MutexFree
    /\ m_is_shutdown' = TRUE
    /\ life' = "shutdown"
    /\ UNCHANGED <<queues, m_cv, stop, spawned, worker, notifying, history>>

NotifyAll ==
    /\ life = "shutdown"
    /\ m_cv' = {}
    /\ life' = "stopping"
    /\ UNCHANGED <<queues, m_is_shutdown, stop, spawned, worker, notifying, history>>

ToStop == {w \in 0 .. spawned - 1 : ~stop[w]}

\* A stop request runs the callback of a worker in wait(lock, stoken, ...),
\* which notifies all.
RequestStop ==
    /\ life = "stopping"
    /\ \E w \in ToStop :
        /\ \A v \in ToStop : w <= v
        /\ stop' = [stop EXCEPT ![w] = TRUE]
        /\ m_cv' = IF w \in m_cv THEN {} ELSE m_cv
    /\ UNCHANGED <<queues, m_is_shutdown, life, spawned, worker, notifying, history>>

Queued == ToSet(m_task_queue) \cup UNION {ToSet(m_local_queues[w]) : w \in Workers}

\* m_workers.clear() joins; then the members go, with the tasks still queued.
\* A call of execute() must have returned before the object's lifetime ends.
Join ==
    /\ life = "stopping" /\ ToStop = {}
    /\ \A w \in 0 .. spawned - 1 : pc[w] = "exit"
    /\ notifying = {}
    /\ life' = "gone"
    /\ dropped' = dropped \cup Queued
    /\ m_task_queue' = <<>>
    /\ m_local_queues' = [w \in Workers |-> <<>>]
    /\ UNCHANGED <<m_cv, m_is_shutdown, stop, spawned, worker, notifying, submitted, misplaced, ran>>

-----------------------------------------------------------------------------
(* execute() in a client.                                                  *)

CanExecute(x, t) ==
    /\ life \in {"alive", "destroying", "shutdown", "stopping"}
    /\ x \notin notifying
    /\ t \notin submitted

UsesLocal(x) == x \in Foreign /\ ForeignIndex < N

ExecuteGlobal(x, t) ==
    /\ CanExecute(x, t) /\ ~UsesLocal(x)
    /\ MutexFree
    /\ ~m_is_shutdown
    /\ m_task_queue' = Append(m_task_queue, t)
    /\ notifying' = notifying \cup {x}
    /\ submitted' = submitted \cup {t}
    /\ UNCHANGED <<m_local_queues, m_cv, owner, worker, misplaced, ran, dropped>>

\* A worker of another pool pushes to the queue of its namesake.  It reads
\* m_is_shutdown without the mutex that guards it: the old value may be read.
ExecuteLocal(x, t) ==
    /\ CanExecute(x, t) /\ UsesLocal(x)
    /\ m_local_queues' = [m_local_queues EXCEPT ![ForeignIndex] = Append(@, t)]
    /\ notifying' = notifying \cup {x}
    /\ submitted' = submitted \cup {t}
    /\ misplaced' = misplaced \cup {t}
    /\ UNCHANGED <<m_task_queue, m_cv, owner, worker, ran, dropped>>

ExecuteIgnored(x, t) ==
    /\ CanExecute(x, t)
    /\ UsesLocal(x) \/ MutexFree
    /\ m_is_shutdown
    /\ submitted' = submitted \cup {t}
    /\ dropped' = dropped \cup {t}
    /\ UNCHANGED <<queues, m_cv, owner, worker, notifying, misplaced, ran>>

ExecuteNotify(x) ==
    /\ x \in notifying
    /\ NotifyOne
    /\ notifying' = notifying \ {x}
    /\ UNCHANGED <<queues, owner, worker, history>>

-----------------------------------------------------------------------------
(* worker_loop.                                                            *)

LoopEnd(w) ==
    /\ pc[w] = "local" /\ stop[w]
    /\ Goto(w, "exit")
    /\ UNCHANGED <<queues, m_cv, owner, task, scan, forked, seen, notifying, history>>

TakeLocal(w) ==
    /\ pc[w] = "local" /\ ~stop[w]
    /\ m_local_queues[w] # <<>>
    /\ task' = [task EXCEPT ![w] = Head(m_local_queues[w])]
    /\ m_local_queues' = [m_local_queues EXCEPT ![w] = Tail(@)]
    /\ Goto(w, "run")
    /\ UNCHANGED <<m_task_queue, m_cv, owner, scan, forked, seen, notifying, history>>

LocalEmpty(w) ==
    /\ pc[w] = "local" /\ ~stop[w]
    /\ m_local_queues[w] = <<>>
    /\ Goto(w, "global")
    /\ UNCHANGED <<queues, m_cv, owner, task, scan, forked, seen, notifying, history>>

TakeGlobal(w) ==
    /\ pc[w] = "global" /\ MutexFree
    /\ m_task_queue # <<>>
    /\ task' = [task EXCEPT ![w] = Head(m_task_queue)]
    /\ m_task_queue' = Tail(m_task_queue)
    /\ Goto(w, "run")
    /\ Sync(w)
    /\ UNCHANGED <<m_local_queues, m_cv, owner, scan, forked, notifying, history>>

GlobalEmpty(w) ==
    /\ pc[w] = "global" /\ MutexFree
    /\ m_task_queue = <<>>
    /\ Goto(w, "steal")
    /\ Sync(w)
    /\ UNCHANGED <<queues, m_cv, owner, task, scan, forked, notifying, history>>

Target(w) == (w + scan[w] + 1) % N

\* Mutant: the stolen task is not popped.
StealCopies(w) ==
    /\ pc[w] = "steal"
    /\ m_local_queues[Target(w)] # <<>>
    /\ task' = [task EXCEPT ![w] = Last(m_local_queues[Target(w)])]
    /\ Goto(w, "run")
    /\ UNCHANGED <<queues, m_cv, owner, scan, forked, seen, notifying, history>>

Steal(w) ==
    /\ pc[w] = "steal"
    /\ m_local_queues[Target(w)] # <<>>
    /\ task' = [task EXCEPT ![w] = Last(m_local_queues[Target(w)])]
    /\ m_local_queues' = [m_local_queues EXCEPT ![Target(w)] = Front(@)]
    /\ scan' = [scan EXCEPT ![w] = 0]
    /\ Goto(w, "run")
    /\ UNCHANGED <<m_task_queue, m_cv, owner, forked, seen, notifying, history>>

\* Nothing there, or try_lock failed, as it may even when nobody holds the mutex.
StealNext(w) ==
    /\ pc[w] = "steal"
    /\ scan' = [scan EXCEPT ![w] = (@ + 1) % N]
    /\ Goto(w, IF scan'[w] = 0 THEN "wait" ELSE "steal")
    /\ UNCHANGED <<queues, m_cv, owner, task, forked, seen, notifying, history>>

\* The body of the task calls execute(), which finds the index of this worker ...
Child(w) == Forks[task[w]][forked[w] + 1]
HasChild(w) == pc[w] = "run" /\ forked[w] < Len(Forks[task[w]])

Fork(w) ==
    /\ HasChild(w)
    /\ m_is_shutdown => w \notin seen       \* else the old value cannot be read
    /\ m_local_queues' = [m_local_queues EXCEPT ![w] = Append(@, Child(w))]
    /\ submitted' = submitted \cup {Child(w)}
    /\ forked' = [forked EXCEPT ![w] = @ + 1]
    /\ Goto(w, "notify")
    /\ UNCHANGED <<m_task_queue, m_cv, owner, task, scan, seen, notifying, misplaced, ran, dropped>>

ForkIgnored(w) ==
    /\ HasChild(w)
    /\ m_is_shutdown
    /\ submitted' = submitted \cup {Child(w)}
    /\ dropped' = dropped \cup {Child(w)}
    /\ forked' = [forked EXCEPT ![w] = @ + 1]
    /\ UNCHANGED <<queues, m_cv, owner, pc, task, scan, seen, notifying, misplaced, ran>>

ForkNotify(w) ==
    /\ pc[w] = "notify"
    /\ NotifyOne
    /\ Goto(w, "run")
    /\ UNCHANGED <<queues, owner, task, scan, forked, seen, notifying, history>>

\* ... and returns.
Finish(w) ==
    /\ pc[w] = "run" /\ ~HasChild(w)
    /\ ran' = [ran EXCEPT ![task[w]] = @ + 1]
    /\ task' = [task EXCEPT ![w] = NoTask]
    /\ forked' = [forked EXCEPT ![w] = 0]
    /\ Goto(w, "local")
    /\ UNCHANGED <<queues, m_cv, owner, scan, seen, notifying, submitted, misplaced, dropped>>

Predicate(w) == m_is_shutdown \/ m_task_queue # <<>> \/ m_local_queues[w] # <<>>

\* Mutant: the worker waits without testing the predicate first.
WaitBlocksUntested(w) ==
    /\ pc[w] = "wait" /\ w \notin m_cv /\ MutexFree
    /\ Goto(w, "blocking")
    /\ Sync(w)
    /\ UNCHANGED <<queues, m_cv, owner, task, scan, forked, notifying, history>>

\* The predicate is false when the wait begins, and again after each wake-up.
WaitBlocks(w) ==
    /\ pc[w] = "wait" /\ w \notin m_cv /\ MutexFree
    /\ ~Predicate(w) /\ ~stop[w]
    /\ Goto(w, "blocking")
    /\ Sync(w)
    /\ UNCHANGED <<queues, m_cv, owner, task, scan, forked, notifying, history>>

\* A stop requested by now has run its callback: the thread does not wait.
Sleep(w) ==
    /\ pc[w] = "blocking"
    /\ m_cv' = IF stop[w] THEN m_cv ELSE m_cv \cup {w}
    /\ Goto(w, "wait")
    /\ UNCHANGED <<queues, owner, task, scan, forked, seen, notifying, history>>

SpuriousWakeup(w) ==
    /\ w \in m_cv
    /\ m_cv' = m_cv \ {w}
    /\ UNCHANGED <<queues, owner, worker, notifying, history>>

\* Mutant: after a shutdown the worker waits for the others to empty the queues.
WaitUntilDrained(w) ==
    /\ pc[w] = "wait" /\ w \notin m_cv /\ MutexFree
    /\ Predicate(w) \/ stop[w]
    /\ Goto(w, IF ~m_is_shutdown THEN "local" ELSE IF Queued = {} THEN "exit" ELSE "wait")
    /\ Sync(w)
    /\ UNCHANGED <<queues, m_cv, owner, task, scan, forked, notifying, history>>

\* After the wait, m_queue_mutex still held: back to the loop's test, or the
\* worker returns when the pool is shut down and every queue is found empty.
WaitReturns(w) ==
    /\ pc[w] = "wait" /\ w \notin m_cv /\ MutexFree
    /\ Predicate(w) \/ stop[w]
    /\ Goto(w, IF m_is_shutdown /\ Queued = {} THEN "exit" ELSE "local")
    /\ Sync(w)
    /\ UNCHANGED <<queues, m_cv, owner, task, scan, forked, notifying, history>>

-----------------------------------------------------------------------------
Teardown == Shutdown \/ NotifyAll \/ RequestStop \/ Join

Execute(x, t) == ExecuteGlobal(x, t) \/ ExecuteLocal(x, t) \/ ExecuteIgnored(x, t)

\* What worker w does outside the body of a task, and in it.
Loop(w) ==
    \/ LoopEnd(w) \/ TakeLocal(w) \/ LocalEmpty(w) \/ TakeGlobal(w) \/ GlobalEmpty(w)
    \/ Steal(w) \/ StealNext(w) \/ WaitBlocks(w) \/ Sleep(w) \/ WaitReturns(w)

Body(w) == Fork(w) \/ ForkIgnored(w) \/ ForkNotify(w)

Next ==
    \/ Spawn \/ SpawnFails \/ Destroy \/ Teardown
    \/ \E x \in Clients : \E t \in Submits[x] : Execute(x, t)
    \/ \E x \in Clients : ExecuteNotify(x)
    \/ \E w \in Workers : Loop(w) \/ Body(w) \/ Finish(w) \/ SpuriousWakeup(w)

Spec == Init /\ [][Next]_vars

\* Calls run to their end and every thread is scheduled: create(), execute() and
\* the destructor once begun, and the workers, whose tasks return.  A thread that
\* waits for m_queue_mutex gets it though others take it again and again.  Nobody
\* need submit a task, destroy the pool or wake a worker spuriously.
Fairness ==
    /\ WF_vars(Spawn) /\ SF_vars(Teardown)
    /\ \A x \in Clients : WF_vars(ExecuteNotify(x))
    /\ \A w \in Workers : SF_vars(Loop(w)) /\ WF_vars(Body(w) \/ Finish(w))

FairSpec == Spec /\ Fairness

-----------------------------------------------------------------------------
Label == {"unborn", "local", "global", "steal", "run", "notify", "wait", "blocking", "exit"}

\* Types of the pool's members and of the threads' local variables; a worker
\* holds a task exactly while it runs one (task() of an empty FixedTask would be
\* a call through a null pointer).
TypeOK ==
    /\ m_task_queue \in Seq(Task)
    /\ m_local_queues \in [Workers -> Seq(Task)]
    /\ m_is_shutdown \in BOOLEAN
    /\ m_cv \in SUBSET Workers
    /\ stop \in [Workers -> BOOLEAN]
    /\ life \in {"creating", "alive", "destroying", "shutdown", "stopping", "gone"}
    /\ spawned \in 0 .. N
    /\ pc \in [Workers -> Label]
    /\ task \in [Workers -> Task \cup {NoTask}]
    /\ scan \in [Workers -> Workers]
    /\ forked \in [Workers -> Nat]
    /\ seen \in SUBSET Workers
    /\ notifying \in SUBSET Clients
    /\ submitted \in SUBSET Task /\ misplaced \in SUBSET Task /\ dropped \in SUBSET Task
    /\ ran \in [Task -> Nat]
    /\ \A w \in Workers : (task[w] # NoTask) <=> (pc[w] \in {"run", "notify"})

\* Everywhere a task may be: in a queue, in the hands of a worker, run (once for
\* each time), or dropped.
Places(t) ==
    {<<"global", i>> : i \in {j \in DOMAIN m_task_queue : m_task_queue[j] = t}}
    \cup (UNION {{<<"local", w, i>> :
            i \in {j \in DOMAIN m_local_queues[w] : m_local_queues[w][j] = t}} : w \in Workers})
    \cup {<<"worker", w>> : w \in {v \in Workers : task[v] = t}}
    \cup {<<"ran", i>> : i \in 1 .. ran[t]}
    \cup {<<"dropped", i>> : i \in {j \in {1} : t \in dropped}}

\* No task is lost or run twice: once passed to execute() it is in one place,
\* whoever pops, steals, runs or drops it.
OnePlace == \A t \in Task : Cardinality(Places(t)) = IF t \in submitted THEN 1 ELSE 0

\* No wake-up is lost: when every worker waits and no notify_one is due, nothing is
\* left to run.  (What a worker of another pool pushed is the exception: the one
\* worker that would find it may not be the one that is notified.)
NoLostWakeup == m_cv = Workers /\ notifying = {} => Queued \subseteq misplaced

\* So a task accepted by a pool that is not destroyed runs, if it comes from a
\* worker of this pool or from a thread of no pool.
EveryTaskRuns ==
    \A t \in Task : (t \in submitted) ~> (ran[t] > 0 \/ t \in misplaced \/ life # "alive")

\* execute() "submits a fire-and-forget task" (thread_pool.hpp:44) whoever calls it:
\* a task accepted by a pool that is not destroyed runs.
FireAndForget == \A t \in Task : (t \in submitted) ~> (ran[t] > 0 \/ life # "alive")

\* The destructor returns: every worker sees the stop and no join waits for ever.
DestructorReturns == (life = "destroying") ~> (life = "gone")
=============================================================================
