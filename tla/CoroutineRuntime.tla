-------------------------- MODULE CoroutineRuntime --------------------------
(***************************************************************************)
(* The coroutine runtime of modern_cpp_core/coroutines: frames from the    *)
(* CoroutinePoolAllocator, a Task awaited by its parent, an AsyncTimer     *)
(* awaited in the task, and the EventLoop that resumes it.                 *)
(*                                                                         *)
(* A job is a detached coroutine (the root) that calls and awaits a Task   *)
(* (the child), which awaits an AsyncTimer.  Jobs are started by the       *)
(* thread "app".  Either that thread also calls poll() between its jobs    *)
(* (single), or the thread "loop" is in run().  A critical section is one  *)
(* step; epoll_ctl and the entry in the map of timers are two.  A client   *)
(* on one thread may also drop a job whose coroutines are suspended.       *)
(***************************************************************************)
EXTENDS Integers, Sequences, FiniteSets

CONSTANTS
    Jobs, Fds,
    PoolSizes, block_size,          \* the arguments of init()
    FrameSizes,                     \* sizes of the frames of tasks
    Timeouts,                       \* milliseconds given to AsyncTimer
    kMaxEvents,                     \* events taken by one epoll_wait
    MaxPools,                       \* bound: calls of init() that build a pool
    NoJob, NoBlock, NoFd

ASSUME PoolAssumption ==
    /\ PoolSizes \subseteq Nat \ {0} /\ block_size \in Nat /\ MaxPools \in Nat
    /\ FrameSizes \subseteq Nat
ASSUME LoopAssumption == kMaxEvents \in Nat \ {0} /\ Timeouts \subseteq Int
ASSUME NotMembers == NoJob \notin Jobs /\ NoFd \notin Fds /\ NoBlock \notin Nat \X Nat

VARIABLES
    s_initialized, s_free_list,
    pools, max_coroutines,  \* pools built so far, and the size of the last one
    frame,          \* block of the root and of the child of each job
    m_continuation, m_exception,    \* of the promise of the child
    pc,             \* place of each job
    on,             \* thread that executes the job, "none" while it is suspended
    fd, timeout,    \* m_fd of the job's AsyncTimer and what it was armed with
    expired,        \* descriptors whose timer has expired and was not read
    interest,       \* the epoll set: "none", "armed" or, after a oneshot, "off"
    timers,         \* the map of the loop: coroutine of each descriptor
    running, loop,
    batch, event, coro,     \* in poll(): events to handle, the current one, the handle found
    single,
    fired,          \* history: jobs that the loop has resumed
    missed          \* history: jobs whose event found no entry in the map

pool == <<s_initialized, s_free_list, pools, max_coroutines>>
promise == <<m_continuation, m_exception>>
kernel == <<expired, interest>>
eloop == <<running, loop, batch, event, coro, fired, missed>>
vars == <<pool, frame, promise, pc, on, fd, timeout, kernel, timers, eloop, single>>

Block == (1 .. MaxPools) \X (0 .. max_coroutines - 1)
Part == {"root", "child"}

Init ==
    /\ s_initialized = FALSE /\ s_free_list = <<>> /\ pools = 0 /\ max_coroutines = 0
    /\ frame = [j \in Jobs |-> [p \in Part |-> NoBlock]]
    /\ m_continuation = [j \in Jobs |-> FALSE]
    /\ m_exception = [j \in Jobs |-> FALSE]
    /\ pc = [j \in Jobs |-> "new"] /\ on = [j \in Jobs |-> "none"]
    /\ fd = [j \in Jobs |-> NoFd] /\ timeout = [j \in Jobs |-> 0]
    /\ expired = {} /\ interest = [f \in Fds |-> "none"]
    /\ timers = [f \in Fds |-> NoJob]
    /\ running = FALSE /\ loop = "out" /\ batch = {} /\ event = NoFd /\ coro = NoJob
    /\ single \in BOOLEAN /\ fired = {} /\ missed = {}

Idle(t) == \A j \in Jobs : on[j] # t
Goto(j, label) == pc' = [pc EXCEPT ![j] = label]

-----------------------------------------------------------------------------
(* CoroutinePoolAllocator                                                  *)

sizeofBlock == 8
max_align == 16
s_block_size ==
    LET size == IF block_size < sizeofBlock THEN sizeofBlock ELSE block_size
    IN  ((size + max_align - 1) \div max_align) * max_align

Live == (UNION {{frame[j][p] : p \in Part} : j \in Jobs}) \ {NoBlock}

\* init(); a call while there is a pool returns at once.
PoolInit ==
    /\ ~s_initialized /\ pools < MaxPools
    /\ pools' = pools + 1
    /\ max_coroutines' \in PoolSizes
    /\ s_free_list' = [i \in 1 .. max_coroutines' |-> <<pools + 1, i - 1>>]
    /\ s_initialized' = TRUE
    /\ UNCHANGED <<frame, promise, pc, on, fd, timeout, kernel, timers, eloop, single>>

\* The client destroys the pool when no coroutine lives in it.
PoolDestroy ==
    /\ s_initialized /\ Live = {}
    /\ s_initialized' = FALSE /\ s_free_list' = <<>>
    /\ UNCHANGED <<pools, max_coroutines, frame, promise, pc, on, fd, timeout, kernel, timers, eloop, single>>

CanAllocate(size) == s_initialized /\ size <= s_block_size /\ s_free_list # <<>>

\* Mutant: the head of the free list is not advanced.
AllocateKeepsHead(j, p) ==
    /\ frame' = [frame EXCEPT ![j][p] = Head(s_free_list)]
    /\ UNCHANGED pool

Allocate(j, p) ==
    /\ frame' = [frame EXCEPT ![j][p] = Head(s_free_list)]
    /\ s_free_list' = Tail(s_free_list)
    /\ UNCHANGED <<s_initialized, pools, max_coroutines>>

\* The blocks in bs go back to the free list, the last one to its head.
Deallocate(bs) ==
    /\ s_free_list' = IF s_initialized
                      THEN [i \in 1 .. Len(bs) |-> bs[Len(bs) + 1 - i]] \o s_free_list
                      ELSE s_free_list
    /\ UNCHANGED <<s_initialized, pools, max_coroutines>>

-----------------------------------------------------------------------------
(* The root and its Task                                                   *)

\* The coroutine function is called: bad_alloc reaches the caller, or the root runs.
StartJob(j) ==
    /\ pc[j] = "new" /\ Idle("app")
    /\ single => loop = "out"
    /\ \E size \in FrameSizes :
         \/ /\ CanAllocate(size)
            /\ Allocate(j, "root")
            /\ Goto(j, "root") /\ on' = [on EXCEPT ![j] = "app"]
         \/ /\ ~CanAllocate(size)
            /\ Goto(j, "failed") /\ UNCHANGED <<pool, frame, on>>
    /\ UNCHANGED <<promise, fd, timeout, kernel, timers, eloop, single>>

\* The root calls the task, which suspends initially; the root catches bad_alloc and ends.
CallTask(j) ==
    /\ pc[j] = "root"
    /\ \E size \in FrameSizes :
         \/ /\ CanAllocate(size)
            /\ Allocate(j, "child")
            /\ Goto(j, "await")
         \/ /\ ~CanAllocate(size)
            /\ Goto(j, "caught") /\ UNCHANGED <<pool, frame>>
    /\ UNCHANGED <<promise, on, fd, timeout, kernel, timers, eloop, single>>

\* Mutant: the continuation is not stored.
AwaitTaskForgets(j) ==
    /\ pc[j] = "await"
    /\ Goto(j, "child")
    /\ UNCHANGED <<pool, frame, promise, on, fd, timeout, kernel, timers, eloop, single>>

\* Task::await_suspend: the child runs in the place of the root.
AwaitTask(j) ==
    /\ pc[j] = "await"
    /\ m_continuation' = [m_continuation EXCEPT ![j] = TRUE]
    /\ Goto(j, "child")
    /\ UNCHANGED <<pool, frame, m_exception, on, fd, timeout, kernel, timers, eloop, single>>

\* FinalAwaiter: transfer to the continuation, or back to the thread.
FinalSuspend(j) ==
    /\ pc[j] = "final"
    /\ Goto(j, IF m_continuation[j] THEN "resumed" ELSE "orphan")
    /\ on' = [on EXCEPT ![j] = IF m_continuation[j] THEN @ ELSE "none"]
    /\ UNCHANGED <<pool, frame, promise, fd, timeout, kernel, timers, eloop, single>>

\* await_resume returns or throws what the task threw, and the Task is destroyed.
TaskResult(j) ==
    /\ pc[j] = "resumed"
    /\ Goto(j, IF m_exception[j] THEN "caught" ELSE "end")
    /\ Deallocate(<<frame[j]["child"]>>)
    /\ frame' = [frame EXCEPT ![j]["child"] = NoBlock]
    /\ UNCHANGED <<promise, on, fd, timeout, kernel, timers, eloop, single>>

\* The root does not suspend at its end: its frame is freed.
EndJob(j) ==
    /\ pc[j] \in {"end", "caught"}
    /\ Deallocate(<<frame[j]["root"]>>)
    /\ frame' = [frame EXCEPT ![j]["root"] = NoBlock]
    /\ Goto(j, IF pc[j] = "end" THEN "done" ELSE "failed")
    /\ on' = [on EXCEPT ![j] = "none"]
    /\ UNCHANGED <<promise, fd, timeout, kernel, timers, eloop, single>>

-----------------------------------------------------------------------------
(* AsyncTimer and register_timer, in the task                              *)

FreeFds == Fds \ {fd[j] : j \in Jobs}
Throw(j) == m_exception' = [m_exception EXCEPT ![j] = TRUE] /\ Goto(j, "final")

\* close(): the kernel also forgets the descriptor in the epoll set.
Close(j) ==
    /\ fd' = [fd EXCEPT ![j] = NoFd]
    /\ interest' = [interest EXCEPT ![fd[j]] = "none"]
    /\ expired' = expired \ {fd[j]}

\* The constructor: timerfd_create fails, the timeout is negative (the descriptor is closed
\* again), or the timer is set; a timeout of zero leaves it disarmed.
NewTimer(j) ==
    /\ pc[j] = "child"
    /\ \/ Throw(j) /\ UNCHANGED <<fd, timeout>>
       \/ \E ms \in Timeouts, f \in FreeFds :
             \/ /\ ms < 0
                /\ Throw(j) /\ UNCHANGED <<fd, timeout>>
             \/ /\ ms >= 0
                /\ fd' = [fd EXCEPT ![j] = f]
                /\ timeout' = [timeout EXCEPT ![j] = ms]
                /\ Goto(j, "timer") /\ UNCHANGED m_exception
    /\ UNCHANGED <<pool, frame, m_continuation, on, kernel, timers, eloop, single>>

\* epoll_ctl(ADD) of register_timer; when it fails the timer is destroyed.
EpollAdd(j) ==
    /\ pc[j] = "timer"
    /\ \/ /\ interest' = [interest EXCEPT ![fd[j]] = "armed"]
          /\ Goto(j, "insert") /\ UNCHANGED <<expired, fd, m_exception>>
       \/ Throw(j) /\ Close(j)
    /\ UNCHANGED <<pool, frame, m_continuation, on, timeout, timers, eloop, single>>

\* Mutant: emplace() in the place of [], which keeps an entry that is there.
InsertTimerKeeps(j) ==
    /\ pc[j] = "insert"
    /\ timers' = IF timers[fd[j]] = NoJob THEN [timers EXCEPT ![fd[j]] = j] ELSE timers
    /\ Goto(j, "suspended") /\ on' = [on EXCEPT ![j] = "none"]
    /\ UNCHANGED <<pool, frame, promise, fd, timeout, kernel, eloop, single>>

\* The entry in the map; from here on the loop may resume the coroutine.
InsertTimer(j) ==
    /\ pc[j] = "insert"
    /\ timers' = [timers EXCEPT ![fd[j]] = j]
    /\ Goto(j, "suspended") /\ on' = [on EXCEPT ![j] = "none"]
    /\ UNCHANGED <<pool, frame, promise, fd, timeout, kernel, eloop, single>>

\* await_resume and the destructor of AsyncTimer; the task returns.
TimerFired(j) ==
    /\ pc[j] = "fired"
    /\ Close(j)
    /\ Goto(j, "final")
    /\ UNCHANGED <<pool, frame, promise, on, timeout, timers, eloop, single>>

\* The client destroys the root between two polls: ~AsyncTimer, ~Task, the frame of the root.
\* The entry in the map stays.
DropJob(j) ==
    /\ single /\ loop = "out" /\ Idle("app")
    /\ pc[j] = "suspended"
    /\ Close(j)
    /\ Deallocate(<<frame[j]["child"], frame[j]["root"]>>)
    /\ frame' = [frame EXCEPT ![j] = [p \in Part |-> NoBlock]]
    /\ Goto(j, "dropped")
    /\ UNCHANGED <<promise, on, timeout, timers, eloop, single>>

\* Time passes; only a timer that was armed with a value expires.
Expire(j) ==
    /\ fd[j] # NoFd /\ timeout[j] > 0 /\ fd[j] \notin expired
    /\ pc[j] \in {"timer", "insert", "suspended"}
    /\ expired' = expired \cup {fd[j]}
    /\ UNCHANGED <<pool, frame, promise, pc, on, fd, timeout, interest, timers, eloop, single>>

-----------------------------------------------------------------------------
(* EventLoop                                                               *)

coroutines == <<pool, frame, promise, fd, timeout, single>>

RunBegin ==
    /\ ~single /\ loop = "out"
    /\ running' = TRUE /\ loop' = "test"
    /\ UNCHANGED <<coroutines, pc, on, kernel, timers, batch, event, coro, fired, missed>>

\* Mutant: the flag is set in every turn of the loop.
RunTestSets ==
    /\ loop = "test"
    /\ running' = TRUE /\ loop' = "wait"
    /\ UNCHANGED <<coroutines, pc, on, kernel, timers, batch, event, coro, fired, missed>>

RunTest ==
    /\ loop = "test"
    /\ loop' = IF running THEN "wait" ELSE "out"
    /\ UNCHANGED <<coroutines, pc, on, kernel, timers, running, batch, event, coro, fired, missed>>

\* stop(); one that comes before run() has no effect, since run() sets the flag.
Stop ==
    /\ running
    /\ running' = FALSE
    /\ UNCHANGED <<coroutines, pc, on, kernel, timers, loop, batch, event, coro, fired, missed>>

\* poll() called by the thread of the jobs
PollBegin ==
    /\ single /\ loop = "out" /\ Idle("app")
    /\ loop' = "wait"
    /\ UNCHANGED <<coroutines, pc, on, kernel, timers, running, batch, event, coro, fired, missed>>

AfterPoll == IF single THEN "out" ELSE "test"
Ready == {f \in Fds : interest[f] = "armed" /\ f \in expired}

\* At most kMaxEvents of the ready descriptors are reported, and those are disarmed.
EpollWait ==
    /\ loop = "wait"
    /\ \E b \in SUBSET Ready :
         /\ Cardinality(b) = IF Cardinality(Ready) <= kMaxEvents THEN Cardinality(Ready)
                             ELSE kMaxEvents
         /\ batch' = b
         /\ interest' = [f \in Fds |-> IF f \in b THEN "off" ELSE interest[f]]
    /\ loop' = "event"
    /\ UNCHANGED <<coroutines, pc, on, expired, timers, running, event, coro, fired, missed>>

\* EINTR
PollInterrupted ==
    /\ loop = "wait"
    /\ loop' = AfterPoll
    /\ UNCHANGED <<coroutines, pc, on, kernel, timers, running, batch, event, coro, fired, missed>>

\* One event: its coroutine is looked up and taken out of the map.
TakeEvent ==
    /\ loop = "event" /\ Idle("loop")
    /\ \E f \in batch :
         /\ batch' = batch \ {f}
         /\ \/ /\ timers[f] # NoJob
               /\ coro' = timers[f] /\ event' = f /\ loop' = "resume"
               /\ timers' = [timers EXCEPT ![f] = NoJob]
               /\ UNCHANGED missed
            \/ /\ timers[f] = NoJob
               /\ missed' = missed \cup {j \in Jobs : fd[j] = f}
               /\ UNCHANGED <<coro, event, loop, timers>>
    /\ UNCHANGED <<coroutines, pc, on, kernel, running, fired>>

\* read(), epoll_ctl(DEL) and resume(): the coroutine runs on the thread of the loop.
ResumeCoro ==
    /\ loop = "resume"
    /\ expired' = expired \ {event}
    /\ interest' = [interest EXCEPT ![event] = "none"]
    /\ Goto(coro, "fired") /\ on' = [on EXCEPT ![coro] = "loop"]
    /\ fired' = fired \cup {coro}
    /\ coro' = NoJob /\ event' = NoFd /\ loop' = "event"
    /\ UNCHANGED <<coroutines, timers, running, batch, missed>>

PollEnd ==
    /\ loop = "event" /\ batch = {} /\ Idle("loop")
    /\ loop' = AfterPoll
    /\ UNCHANGED <<coroutines, pc, on, kernel, timers, running, batch, event, coro, fired, missed>>

-----------------------------------------------------------------------------

JobStep(j) ==
    \/ CallTask(j) \/ AwaitTask(j) \/ NewTimer(j) \/ EpollAdd(j) \/ InsertTimer(j)
    \/ TimerFired(j) \/ FinalSuspend(j) \/ TaskResult(j) \/ EndJob(j)

LoopStep == RunTest \/ PollBegin \/ TakeEvent \/ ResumeCoro \/ PollEnd

Next ==
    \/ PoolInit \/ PoolDestroy \/ RunBegin \/ Stop \/ EpollWait \/ PollInterrupted \/ LoopStep
    \/ \E j \in Jobs : StartJob(j) \/ DropJob(j) \/ Expire(j) \/ JobStep(j)

Spec == Init /\ [][Next]_vars

\* Threads run on, time passes, and not every epoll_wait is interrupted by a signal.
FairSpec ==
    /\ Spec /\ WF_vars(LoopStep) /\ SF_vars(EpollWait)
    /\ \A j \in Jobs : WF_vars(JobStep(j)) /\ WF_vars(Expire(j))

-----------------------------------------------------------------------------
(* Properties                                                              *)

Place == {"new", "root", "await", "child", "timer", "insert", "suspended", "fired", "final",
          "resumed", "orphan", "end", "caught", "done", "failed", "dropped"}

\* Every variable has its type; a job is on a thread exactly while it has something to do
\* there, and no thread executes two jobs.
TypeOK ==
    /\ s_initialized \in BOOLEAN /\ s_free_list \in Seq(Block) /\ pools \in 0 .. MaxPools
    /\ max_coroutines \in PoolSizes \cup {0}
    /\ frame \in [Jobs -> [Part -> Block \cup {NoBlock}]]
    /\ m_continuation \in [Jobs -> BOOLEAN] /\ m_exception \in [Jobs -> BOOLEAN]
    /\ pc \in [Jobs -> Place] /\ on \in [Jobs -> {"app", "loop", "none"}]
    /\ fd \in [Jobs -> Fds \cup {NoFd}] /\ timeout \in [Jobs -> Timeouts \cup {0}]
    /\ expired \subseteq Fds /\ interest \in [Fds -> {"none", "armed", "off"}]
    /\ timers \in [Fds -> Jobs \cup {NoJob}]
    /\ running \in BOOLEAN /\ loop \in {"out", "test", "wait", "event", "resume"}
    /\ batch \subseteq Fds /\ event \in Fds \cup {NoFd} /\ coro \in Jobs \cup {NoJob}
    /\ single \in BOOLEAN /\ fired \subseteq Jobs /\ missed \subseteq Jobs
    /\ \A j \in Jobs : on[j] = "none" <=>
         pc[j] \in {"new", "suspended", "orphan", "done", "failed", "dropped"}
    /\ \A i, j \in Jobs : on[i] = on[j] /\ on[i] # "none" => i = j

\* A block of the pool is either once in the free list or the frame of one coroutine, a
\* coroutine that has not ended has its frame, and one that has ended has given it back.
\* (allocate and deallocate from both threads, Task's destructor, destroy and a second init)
BlockInOnePlace ==
    /\ \A i, k \in DOMAIN s_free_list : s_free_list[i] = s_free_list[k] => i = k
    /\ \A i, j \in Jobs, p, q \in Part :
         frame[i][p] # NoBlock /\ frame[i][p] = frame[j][q] => i = j /\ p = q
    /\ LET free == {s_free_list[i] : i \in DOMAIN s_free_list}
       IN  /\ free \cap Live = {}
           /\ free \cup Live = IF s_initialized THEN {pools} \X (0 .. max_coroutines - 1) ELSE {}
    /\ \A j \in Jobs :
         /\ frame[j]["root"] # NoBlock <=> pc[j] \notin {"new", "done", "failed", "dropped"}
         /\ frame[j]["child"] # NoBlock <=>
              pc[j] \in {"await", "child", "timer", "insert", "suspended", "fired", "final",
                        "resumed", "orphan"}

\* The loop resumes a coroutine only while it is suspended on the very descriptor of the
\* event, whose timer has expired, although descriptors are used again and entries of dropped
\* coroutines stay in the map; a job that ends with a value was resumed so, one that ends with
\* an exception was not.  (poll, register_timer, AsyncTimer, Task::await_resume)
ResumedByOwnTimer ==
    /\ loop = "resume" =>
         /\ pc[coro] = "suspended" /\ fd[coro] = event
         /\ event \in expired /\ timeout[coro] > 0
    /\ \A j \in Jobs :
         /\ pc[j] \in {"fired", "end", "done"} => j \in fired
         /\ pc[j] \in {"caught", "failed", "dropped"} => j \notin fired

\* A coroutine that awaits a timer with a timeout above zero is resumed, and its job ends.
\* Excepted are a loop that is not in run(), a client that drops the job, and, with the loop on
\* a thread of its own, an event that came between epoll_ctl and the entry in the map: it is
\* consumed and the coroutine is never resumed.  (register_timer, poll, FinalAwaiter)
TimersFire ==
    \A j \in Jobs :
        pc[j] = "suspended" /\ timeout[j] > 0
            ~> \/ pc[j] \in {"done", "dropped"}
               \/ ~single /\ (j \in missed \/ loop = "out")

\* After stop(), run() returns, also when the thread was handling events or was about to wait.
\* (run, poll, stop)
RunReturns == ~single /\ ~running /\ loop # "out" ~> loop = "out"
=============================================================================
