-------------------------- MODULE ThreadPoolProofs --------------------------
(***************************************************************************)
(* Proofs about the thread pool and parallel_for_each, for every number of *)
(* workers, clients and tasks, every range and every chunk size.           *)
(*                                                                         *)
(* The steps of ParallelForEach are those of a pool with any clients       *)
(* (PoolNext), so what PoolNext keeps holds whatever the pool is used for. *)
(***************************************************************************)
EXTENDS ParallelForEach, FiniteSetTheorems, SequenceTheorems, TLAPS

PoolNext ==
    \/ Spawn \/ SpawnFails \/ Destroy \/ Teardown
    \/ \E x \in Clients : \E t \in RootTask : Execute(x, t)
    \/ \E x \in Clients : ExecuteNotify(x)
    \/ \E w \in Workers : Loop(w) \/ Body(w) \/ Finish(w) \/ SpuriousWakeup(w)

LEMMA WorkersFacts ==
    /\ N \in Nat \ {0}
    /\ \A w \in Workers : w \in Nat /\ w < N
    /\ \A i \in Nat : i < N => i \in Workers
    /\ \A a \in Nat : a % N \in Workers
<1>1. N \in Nat \ {0} BY CountAssumption DEF N
<1>2. \A a \in Nat, n \in Nat \ {0} : a % n \in 0 .. n - 1 OBVIOUS
<1> QED BY <1>1, <1>2, SMT DEF Workers

-----------------------------------------------------------------------------
(* Sequences without repetition                                            *)

In(s, e) == \E i \in DOMAIN s : s[i] = e
Once(s) == \A i, k \in DOMAIN s : s[i] = s[k] => i = k

LEMMA EmptyIn == (\A e : ~In(<<>>, e)) /\ Once(<<>>)
BY DEF In, Once

\* What Append(s, x) holds.
LEMMA AppendIn ==
    ASSUME NEW S, NEW s \in Seq(S), NEW x \in S
    PROVE  /\ Append(s, x) \in Seq(S)
           /\ \A e : In(Append(s, x), e) <=> In(s, e) \/ e = x
           /\ Once(s) /\ ~In(s, x) => Once(Append(s, x))
<1>1. /\ Append(s, x) \in Seq(S)
      /\ DOMAIN s = 1 .. Len(s) /\ Len(s) \in Nat
      /\ DOMAIN Append(s, x) = 1 .. Len(s) + 1
      /\ \A i \in 1 .. Len(s) : Append(s, x)[i] = s[i]
      /\ Append(s, x)[Len(s) + 1] = x
    BY AppendProperties
<1>2. ASSUME NEW e PROVE In(Append(s, x), e) <=> In(s, e) \/ e = x
    BY <1>1 DEF In
<1>3. Once(s) /\ ~In(s, x) => Once(Append(s, x))
    BY <1>1 DEF In, Once
<1> QED BY <1>1, <1>2, <1>3

\* What is left without the first element.
LEMMA TailIn ==
    ASSUME NEW S, NEW s \in Seq(S), s # <<>>
    PROVE  /\ Head(s) \in S /\ Tail(s) \in Seq(S)
           /\ In(s, Head(s))
           /\ \A e : In(Tail(s), e) => In(s, e)
           /\ Once(s) => /\ Once(Tail(s))
                         /\ \A e : In(Tail(s), e) <=> In(s, e) /\ e # Head(s)
<1>1. /\ Head(s) \in S /\ Tail(s) \in Seq(S)
      /\ DOMAIN s = 1 .. Len(s) /\ Len(s) \in Nat \ {0} /\ Head(s) = s[1]
      /\ DOMAIN Tail(s) = 1 .. Len(s) - 1
      /\ \A i \in 1 .. Len(s) - 1 : Tail(s)[i] = s[i + 1]
    BY HeadTailProperties, LenProperties, EmptySeq
<1>2. In(s, Head(s)) BY <1>1 DEF In
<1>3. \A e : In(Tail(s), e) => In(s, e) BY <1>1 DEF In
<1>4. Once(s) => Once(Tail(s)) BY <1>1 DEF Once
<1>5. ASSUME Once(s), NEW e PROVE In(Tail(s), e) <=> In(s, e) /\ e # Head(s)
    <2>1. In(Tail(s), e) => e # Head(s) BY <1>1, <1>5 DEF In, Once
    <2>2. ASSUME NEW i \in 1 .. Len(s), s[i] = e, e # Head(s) PROVE In(Tail(s), e)
        <3>1. i - 1 \in 1 .. Len(s) - 1 /\ Tail(s)[i - 1] = s[i] BY <1>1, <2>2
        <3> QED BY <1>1, <2>2, <3>1 DEF In
    <2> QED BY <1>1, <1>3, <2>1, <2>2 DEF In
<1> QED BY <1>1, <1>2, <1>3, <1>4, <1>5

\* What is left without the last element.
LEMMA FrontIn ==
    ASSUME NEW S, NEW s \in Seq(S), s # <<>>
    PROVE  /\ Last(s) \in S /\ Front(s) \in Seq(S)
           /\ In(s, Last(s))
           /\ \A e : In(Front(s), e) => In(s, e)
           /\ Once(s) => /\ Once(Front(s))
                         /\ \A e : In(Front(s), e) <=> In(s, e) /\ e # Last(s)
<1>1. /\ DOMAIN s = 1 .. Len(s) /\ Len(s) \in Nat \ {0} /\ Last(s) = s[Len(s)] /\ Last(s) \in S
    BY LenProperties, EmptySeq, ElementOfSeq DEF Last
<1>2. /\ Front(s) \in Seq(S) /\ DOMAIN Front(s) = 1 .. Len(s) - 1
      /\ \A i \in 1 .. Len(s) - 1 : Front(s)[i] = s[i]
    <2>1. Front(s) = SubSeq(s, 1, Len(s) - 1) BY DEF Front
    <2>2. 1 \in 1 .. Len(s) + 1 /\ Len(s) - 1 \in 1 - 1 .. Len(s) BY <1>1
    <2> QED BY <1>1, <2>1, <2>2, SubSeqProperties, SMT
<1>3. In(s, Last(s)) BY <1>1 DEF In
<1>4. \A e : In(Front(s), e) => In(s, e) BY <1>1, <1>2 DEF In
<1>5. Once(s) => Once(Front(s)) BY <1>1, <1>2 DEF Once
<1>6. ASSUME Once(s), NEW e PROVE In(Front(s), e) <=> In(s, e) /\ e # Last(s)
    <2>1. In(Front(s), e) => e # Last(s) BY <1>1, <1>2, <1>6 DEF In, Once
    <2>2. In(s, e) /\ e # Last(s) => In(Front(s), e) BY <1>1, <1>2 DEF In
    <2> QED BY <1>4, <2>1, <2>2
<1> QED BY <1>1, <1>2, <1>3, <1>4, <1>5, <1>6

-----------------------------------------------------------------------------
(* Types                                                                   *)

\* Nobody is in worker_loop before his thread was created.
Unborn == \A w \in Workers : w >= spawned => pc[w] = "unborn"

TInv == TypeOK /\ Unborn

LEMMA TypeInit == Init => TInv
<1> SUFFICES ASSUME Init PROVE TInv
    OBVIOUS
<1>1. 0 \in Workers /\ 0 \in 0 .. N BY WorkersFacts
<1>2. /\ stop \in [Workers -> BOOLEAN] /\ m_is_shutdown \in BOOLEAN
    BY Zenon DEF Init
<1>3. /\ pc \in [Workers -> Label] /\ task \in [Workers -> Task \cup {NoTask}]
      /\ scan \in [Workers -> Workers] /\ forked \in [Workers -> Nat] /\ ran \in [Task -> Nat]
    BY <1>1 DEF Init, Label
<1>4. /\ m_task_queue \in Seq(Task) /\ m_local_queues \in [Workers -> Seq(Task)]
    BY DEF Init
<1>5. Unborn /\ \A w \in Workers : (task[w] # NoTask) <=> (pc[w] \in {"run", "notify"})
    BY DEF Init, Unborn
<1> QED BY <1>1, <1>2, <1>3, <1>4, <1>5 DEF Init, TypeOK, TInv

\* A step of a worker that leaves the members alone.
LEMMA TypeGoto ==
    ASSUME TInv, NEW w \in Workers, NEW l \in Label, pc[w] # "unborn", Goto(w, l),
           l \in {"run", "notify"} <=> pc[w] \in {"run", "notify"},
           UNCHANGED <<queues, owner, task, notifying, history>>,
           m_cv' \in SUBSET Workers, scan' \in [Workers -> Workers],
           UNCHANGED forked, seen' \in SUBSET Workers
    PROVE  TInv'
<1>1. pc' \in [Workers -> Label] /\ \A v \in Workers : pc'[v] = IF v = w THEN l ELSE pc[v]
    BY DEF TInv, TypeOK, Goto
<1>2. \A v \in Workers : (task'[v] # NoTask) <=> (pc'[v] \in {"run", "notify"})
    BY <1>1 DEF TInv, TypeOK
<1>3. Unborn' BY <1>1 DEF TInv, Unborn, owner
<1> QED BY <1>1, <1>2, <1>3 DEF TInv, TypeOK, queues, owner, history

\* A worker gets a task.
LEMMA TypeTake ==
    ASSUME TInv, NEW w \in Workers, pc[w] # "unborn", Goto(w, "run"), NEW t \in Task,
           task' = [task EXCEPT ![w] = t],
           m_task_queue' \in Seq(Task), m_local_queues' \in [Workers -> Seq(Task)],
           UNCHANGED <<m_cv, owner, forked, notifying, history>>,
           scan' \in [Workers -> Workers], seen' \in SUBSET Workers
    PROVE  TInv'
<1>1. pc' \in [Workers -> Label] /\ \A v \in Workers : pc'[v] = IF v = w THEN "run" ELSE pc[v]
    BY DEF TInv, TypeOK, Goto, Label
<1>2. /\ task' \in [Workers -> Task \cup {NoTask}]
      /\ \A v \in Workers : task'[v] = IF v = w THEN t ELSE task[v]
    BY DEF TInv, TypeOK
<1>3. \A v \in Workers : (task'[v] # NoTask) <=> (pc'[v] \in {"run", "notify"})
    BY <1>1, <1>2, TaskAssumption DEF TInv, TypeOK
<1>4. Unborn' BY <1>1 DEF TInv, Unborn, owner
<1> QED BY <1>1, <1>2, <1>3, <1>4 DEF TInv, TypeOK, owner, history

LEMMA TypeFork ==
    ASSUME TInv, NEW w \in Workers, Fork(w) \/ ForkIgnored(w)
    PROVE  TInv' /\ Child(w) \in Task /\ task[w] \in Task
<1>1. task[w] \in Task /\ Child(w) \in Task
    <2>1. task[w] \in Task BY DEF TInv, TypeOK, Fork, ForkIgnored, HasChild
    <2>2. Forks[task[w]] \in Seq(Task) BY <2>1, TaskAssumption
    <2>3. forked[w] + 1 \in 1 .. Len(Forks[task[w]])
        BY <2>2 DEF TInv, TypeOK, Fork, ForkIgnored, HasChild
    <2> QED BY <2>1, <2>2, <2>3, ElementOfSeq DEF Child
<1>2. /\ submitted' \in SUBSET Task /\ dropped' \in SUBSET Task
      /\ forked' \in [Workers -> Nat]
    <2>1. submitted' = submitted \cup {Child(w)} /\ dropped' \subseteq dropped \cup {Child(w)}
        BY DEF Fork, ForkIgnored
    <2>2. forked' = [forked EXCEPT ![w] = @ + 1] BY DEF Fork, ForkIgnored
    <2>3. forked' \in [Workers -> Nat] BY <2>2 DEF TInv, TypeOK
    <2> QED BY <1>1, <2>1, <2>3 DEF TInv, TypeOK
<1>3. CASE ForkIgnored(w)
    BY <1>1, <1>2, <1>3 DEF ForkIgnored, TInv, TypeOK, Unborn, queues, owner
<1>4. CASE Fork(w)
    <2>1. /\ pc' \in [Workers -> Label]
          /\ \A v \in Workers : pc'[v] = IF v = w THEN "notify" ELSE pc[v]
        BY <1>4 DEF TInv, TypeOK, Fork, Goto, Label
    <2>2. \A v \in Workers : (task'[v] # NoTask) <=> (pc'[v] \in {"run", "notify"})
        BY <1>4, <2>1 DEF Fork, HasChild, TInv, TypeOK
    <2>3. Unborn' BY <1>4, <2>1 DEF Fork, HasChild, TInv, Unborn, owner
    <2>4. m_local_queues' \in [Workers -> Seq(Task)]
        BY <1>1, <1>4 DEF Fork, TInv, TypeOK
    <2> QED BY <1>1, <1>2, <1>4, <2>1, <2>2, <2>3, <2>4 DEF Fork, TInv, TypeOK, owner
<1> QED BY <1>3, <1>4

LEMMA TypeFinish ==
    ASSUME TInv, NEW w \in Workers, Finish(w)
    PROVE  TInv' /\ task[w] \in Task
<1>1. task[w] \in Task BY DEF Finish, TInv, TypeOK
<1>2. /\ pc' \in [Workers -> Label]
      /\ \A v \in Workers : pc'[v] = IF v = w THEN "local" ELSE pc[v]
    BY DEF TInv, TypeOK, Finish, Goto, Label
<1>3. /\ task' \in [Workers -> Task \cup {NoTask}]
      /\ \A v \in Workers : task'[v] = IF v = w THEN NoTask ELSE task[v]
    BY DEF TInv, TypeOK, Finish
<1>4. forked' \in [Workers -> Nat] /\ ran' \in [Task -> Nat]
    BY <1>1 DEF TInv, TypeOK, Finish
<1>5. \A v \in Workers : (task'[v] # NoTask) <=> (pc'[v] \in {"run", "notify"})
    BY <1>2, <1>3 DEF TInv, TypeOK
<1>6. Unborn' BY <1>2 DEF Finish, TInv, Unborn, owner
<1> QED BY <1>1, <1>2, <1>3, <1>4, <1>5, <1>6 DEF Finish, TInv, TypeOK, queues, owner

\* What a step of worker_loop outside the body of a task does, for the types.
LEMMA TypeLoop ==
    ASSUME TInv, NEW w \in Workers, Loop(w)
    PROVE  TInv'
<1>s. ASSUME Sync(w) PROVE seen' \in SUBSET Workers
    BY <1>s DEF Sync, TInv, TypeOK
<1>1. CASE TakeLocal(w)
    <2>1. m_local_queues[w] \in Seq(Task) /\ m_local_queues[w] # <<>>
        BY <1>1 DEF TakeLocal, TInv, TypeOK
    <2>2. Head(m_local_queues[w]) \in Task /\ Tail(m_local_queues[w]) \in Seq(Task)
        BY <2>1, TailIn
    <2> QED BY <1>1, <2>2, TypeTake DEF TakeLocal, TInv, TypeOK, owner, history
<1>2. CASE TakeGlobal(w)
    <2>1. Head(m_task_queue) \in Task /\ Tail(m_task_queue) \in Seq(Task)
        BY <1>2, TailIn DEF TakeGlobal, TInv, TypeOK
    <2> QED BY <1>2, <2>1, <1>s, TypeTake DEF TakeGlobal, TInv, TypeOK, owner, history
<1>3. CASE Steal(w)
    <2>1. Target(w) \in Workers /\ 0 \in Workers
        <3>0. scan[w] \in Workers BY DEF TInv, TypeOK
        <3>1. w + scan[w] + 1 \in Nat BY <3>0, WorkersFacts
        <3> QED BY <3>1, WorkersFacts DEF Target
    <2>2. m_local_queues[Target(w)] \in Seq(Task) /\ m_local_queues[Target(w)] # <<>>
        BY <1>3, <2>1 DEF Steal, TInv, TypeOK
    <2>3. Last(m_local_queues[Target(w)]) \in Task /\ Front(m_local_queues[Target(w)]) \in Seq(Task)
        BY <2>2, FrontIn
    <2>4. m_local_queues' \in [Workers -> Seq(Task)] /\ scan' \in [Workers -> Workers]
        BY <1>3, <2>1, <2>3 DEF Steal, TInv, TypeOK
    <2> QED BY <1>3, <2>3, <2>4, TypeTake DEF Steal, TInv, TypeOK, owner, history
<1>4. CASE LoopEnd(w) \/ LocalEmpty(w)
    BY <1>4, TypeGoto DEF LoopEnd, LocalEmpty, TInv, TypeOK, Label
<1>5. CASE GlobalEmpty(w)
    BY <1>5, <1>s, TypeGoto DEF GlobalEmpty, TInv, TypeOK, Label
<1>6. CASE StealNext(w)
    <2>1. (scan[w] + 1) % N \in Workers
        <3>0. scan[w] \in Workers BY DEF TInv, TypeOK
        <3>1. scan[w] + 1 \in Nat BY <3>0, WorkersFacts
        <3> QED BY <3>1, WorkersFacts
    <2>2. scan' \in [Workers -> Workers] BY <1>6, <2>1 DEF StealNext, TInv, TypeOK
    <2>3. PICK l \in {"wait", "steal"} : Goto(w, l) BY <1>6 DEF StealNext
    <2> QED BY <1>6, <2>2, <2>3, TypeGoto DEF StealNext, TInv, TypeOK, Label
<1>7. CASE WaitBlocks(w)
    BY <1>7, <1>s, TypeGoto DEF WaitBlocks, TInv, TypeOK, Label
<1>8. CASE Sleep(w)
    BY <1>8, TypeGoto DEF Sleep, TInv, TypeOK, Label
<1>9. CASE WaitReturns(w)
    <2>1. PICK l \in {"exit", "local"} : Goto(w, l) BY <1>9 DEF WaitReturns
    <2> QED BY <1>9, <2>1, <1>s, TypeGoto DEF WaitReturns, TInv, TypeOK, Label
<1> QED BY <1>1, <1>2, <1>3, <1>4, <1>5, <1>6, <1>7, <1>8, <1>9 DEF Loop

LEMMA TypeExecute ==
    ASSUME TInv, NEW x \in Clients, NEW t \in Task, Execute(x, t)
    PROVE  TInv'
<1>1. submitted' \in SUBSET Task /\ misplaced' \in SUBSET Task /\ dropped' \in SUBSET Task
    BY DEF Execute, ExecuteGlobal, ExecuteLocal, ExecuteIgnored, TInv, TypeOK
<1>2. m_task_queue' \in Seq(Task)
    <2>1. m_task_queue' = m_task_queue \/ m_task_queue' = Append(m_task_queue, t)
        BY DEF Execute, ExecuteGlobal, ExecuteLocal, ExecuteIgnored, queues
    <2>2. m_task_queue \in Seq(Task) BY DEF TInv, TypeOK
    <2>3. Append(m_task_queue, t) \in Seq(Task) BY <2>2, AppendIn
    <2> QED BY <2>1, <2>2, <2>3
<1>3. m_local_queues' \in [Workers -> Seq(Task)] /\ notifying' \in SUBSET Clients
    <2>1. \/ m_local_queues' = m_local_queues
          \/ m_local_queues' = [m_local_queues EXCEPT ![ForeignIndex] = Append(@, t)]
        BY DEF Execute, ExecuteGlobal, ExecuteLocal, ExecuteIgnored, queues
    <2>2. ForeignIndex \in Workers => Append(m_local_queues[ForeignIndex], t) \in Seq(Task)
        BY AppendIn DEF TInv, TypeOK
    <2>3. m_local_queues' \in [Workers -> Seq(Task)]
        <3>1. m_local_queues \in [Workers -> Seq(Task)] BY DEF TInv, TypeOK
        <3> QED BY <2>1, <2>2, <3>1
    <2>4. notifying' \subseteq notifying \cup {x}
        BY DEF Execute, ExecuteGlobal, ExecuteLocal, ExecuteIgnored
    <2> QED BY <2>3, <2>4 DEF TInv, TypeOK
<1>4. UNCHANGED <<m_cv, owner, worker, ran>>
    BY DEF Execute, ExecuteGlobal, ExecuteLocal, ExecuteIgnored
<1> QED BY <1>1, <1>2, <1>3, <1>4 DEF TInv, TypeOK, Unborn, owner, worker

LEMMA TypeNext == TInv /\ [PoolNext]_vars => TInv'
<1> SUFFICES ASSUME TInv, [PoolNext]_vars PROVE TInv'
    OBVIOUS
<1>1. CASE Spawn
    <2>1. spawned \in Workers /\ spawned' \in 0 .. N /\ spawned' = spawned + 1
        BY <1>1, WorkersFacts DEF Spawn, TInv, TypeOK
    <2>2. /\ pc' \in [Workers -> Label]
          /\ \A v \in Workers : pc'[v] = IF v = spawned THEN "local" ELSE pc[v]
        BY <1>1 DEF TInv, TypeOK, Spawn, Goto, Label
    <2>3. \A v \in Workers : (task'[v] # NoTask) <=> (pc'[v] \in {"run", "notify"})
        <3>1. pc[spawned] = "unborn" /\ spawned \in Nat BY <2>1, WorkersFacts DEF TInv, Unborn
        <3>2. UNCHANGED task BY <1>1 DEF Spawn
        <3> QED BY <2>1, <2>2, <3>1, <3>2 DEF TInv, TypeOK
    <2>4. Unborn' BY <2>1, <2>2, WorkersFacts DEF TInv, TypeOK, Unborn
    <2> QED BY <1>1, <2>1, <2>2, <2>3, <2>4 DEF Spawn, TInv, TypeOK, queues, history
<1>2. CASE SpawnFails \/ Destroy \/ NotifyAll
    BY <1>2 DEF SpawnFails, Destroy, NotifyAll, TInv, TypeOK, Unborn, queues, worker, history
<1>3. CASE Shutdown
    BY <1>3 DEF Shutdown, TInv, TypeOK, Unborn, queues, worker, history
<1>4. CASE RequestStop
    BY <1>4, WorkersFacts DEF RequestStop, ToStop, TInv, TypeOK, Unborn, queues, worker, history
<1>5. CASE Join
    <2>1. dropped' \in SUBSET Task
        <3>1. \A w \in Workers : ToSet(m_local_queues[w]) \subseteq Task
            BY DEF TInv, TypeOK, ToSet
        <3>2. ToSet(m_task_queue) \subseteq Task BY DEF TInv, TypeOK, ToSet
        <3> QED BY <1>5, <3>1, <3>2 DEF Join, Queued, TInv, TypeOK
    <2>2. m_task_queue' \in Seq(Task) /\ m_local_queues' \in [Workers -> Seq(Task)]
        BY <1>5 DEF Join
    <2> QED BY <1>5, <2>1, <2>2 DEF Join, TInv, TypeOK, Unborn, worker
<1>6. ASSUME NEW x \in Clients, NEW t \in RootTask, Execute(x, t) PROVE TInv'
    BY <1>6, TypeExecute DEF RootTask
<1>7. ASSUME NEW x \in Clients, ExecuteNotify(x) PROVE TInv'
    BY <1>7 DEF ExecuteNotify, NotifyOne, TInv, TypeOK, Unborn, queues, owner, worker, history
<1>8. ASSUME NEW w \in Workers, ForkNotify(w) PROVE TInv'
    <2>1. m_cv' \in SUBSET Workers BY <1>8 DEF ForkNotify, NotifyOne, TInv, TypeOK
    <2> QED BY <1>8, <2>1, TypeGoto DEF ForkNotify, TInv, TypeOK, Label
<1>9. ASSUME NEW w \in Workers, SpuriousWakeup(w) PROVE TInv'
    BY <1>9 DEF SpuriousWakeup, TInv, TypeOK, Unborn, queues, owner, worker, history
<1>10. CASE UNCHANGED vars
    BY <1>10 DEF vars, queues, owner, worker, history, TInv, TypeOK, Unborn
<1> QED
    BY <1>1, <1>2, <1>3, <1>4, <1>5, <1>6, <1>7, <1>8, <1>9, <1>10, TypeLoop, TypeFork, TypeFinish
    DEF PoolNext, Teardown, Body

-----------------------------------------------------------------------------
(* No lost wake-up.  A worker that holds m_queue_mutex on its way into the *)
(* condition variable has seen an empty queue, which no execute() can fill *)
(* before the worker is in; so when all are in and the queue is not empty, *)
(* the last push came later and its notify_one is still due.  The queue of *)
(* a worker that looks elsewhere holds only what others put there.         *)

Waiting ==
    /\ \A w \in m_cv : pc[w] = "wait"
    /\ \A w \in Workers : pc[w] = "blocking" => m_task_queue = <<>>
    /\ m_cv = Workers /\ notifying = {} => m_task_queue = <<>>

Searches(w) == pc[w] \in {"global", "steal", "wait", "blocking"}
OwnQueueDone(w) == Searches(w) => \A t : In(m_local_queues[w], t) => t \in misplaced

WInv == Waiting /\ \A w \in Workers : OwnQueueDone(w)

LEMMA WaitInit == Init => WInv
BY WorkersFacts, EmptyIn DEF Init, WInv, Waiting, OwnQueueDone, Searches

\* A step of worker w that neither fills a queue nor waits keeps the invariant.
LEMMA WaitGoto ==
    ASSUME TInv, WInv, NEW w \in Workers, NEW l \in Label \ {"wait", "blocking"}, Goto(w, l),
           w \notin m_cv, UNCHANGED <<m_cv, notifying, misplaced>>,
           m_task_queue = <<>> => m_task_queue' = <<>>,
           \A v \in Workers : \A t : In(m_local_queues'[v], t) => In(m_local_queues[v], t),
           l \in {"global", "steal"} =>
                Searches(w) \/ \A t : In(m_local_queues'[w], t) => t \in misplaced
    PROVE  WInv'
<1>1. \A v \in Workers : pc'[v] = IF v = w THEN l ELSE pc[v]
    BY DEF TInv, TypeOK, Goto
<1>2. Waiting' BY <1>1 DEF WInv, Waiting, TInv, TypeOK
<1>3. ASSUME NEW v \in Workers PROVE OwnQueueDone(v)'
    BY <1>1 DEF WInv, OwnQueueDone, Searches
<1> QED BY <1>2, <1>3 DEF WInv

\* A step that leaves workers and queues alone and puts nobody to sleep.
LEMMA WaitWake ==
    ASSUME TInv, WInv, UNCHANGED <<queues, pc, misplaced>>, m_cv' \subseteq m_cv,
           notifying' = {} => m_cv' # Workers \/ notifying = {}
    PROVE  WInv'
<1>1. \A w \in Workers : OwnQueueDone(w)' BY DEF WInv, OwnQueueDone, Searches, queues
<1>2. Waiting' BY DEF WInv, Waiting, TInv, TypeOK, queues
<1> QED BY <1>1, <1>2 DEF WInv

\* notify_one leaves at least one worker awake.
LEMMA NotifyWakes ==
    ASSUME TInv, NotifyOne
    PROVE  m_cv' \subseteq m_cv /\ m_cv' # Workers
<1>1. 0 \in Workers BY WorkersFacts
<1> QED BY <1>1 DEF NotifyOne, TInv, TypeOK

LEMMA WaitExecute ==
    ASSUME TInv, WInv, NEW x \in Clients, NEW t \in Task, Execute(x, t)
    PROVE  WInv'
<1>1. CASE ExecuteGlobal(x, t)
    <2>1. /\ UNCHANGED <<m_local_queues, m_cv, pc, misplaced>> /\ notifying' # {}
          /\ \A w \in Workers : pc[w] # "blocking"
        BY <1>1 DEF ExecuteGlobal, MutexFree, worker
    <2> QED BY <2>1 DEF WInv, Waiting, OwnQueueDone, Searches
<1>2. CASE ExecuteLocal(x, t)
    <2>1. /\ UNCHANGED <<m_task_queue, m_cv, pc>> /\ notifying' # {}
          /\ misplaced' = misplaced \cup {t}
        BY <1>2 DEF ExecuteLocal, worker
    <2>2. Waiting' BY <2>1 DEF WInv, Waiting
    <2>3. ASSUME NEW w \in Workers, NEW u, In(m_local_queues'[w], u)
          PROVE  In(m_local_queues[w], u) \/ u = t
        <3>1. m_local_queues \in [Workers -> Seq(Task)] BY DEF TInv, TypeOK
        <3>2. m_local_queues'[w] \in {m_local_queues[w], Append(m_local_queues[w], t)}
            BY <1>2, <3>1 DEF ExecuteLocal
        <3>3. In(Append(m_local_queues[w], t), u) <=> In(m_local_queues[w], u) \/ u = t
            BY <3>1, AppendIn
        <3> QED BY <2>3, <3>2, <3>3
    <2>4. \A w \in Workers : OwnQueueDone(w)'
        BY <2>1, <2>3 DEF WInv, OwnQueueDone, Searches
    <2> QED BY <2>2, <2>4 DEF WInv
<1>3. CASE ExecuteIgnored(x, t)
    BY <1>3, WaitWake DEF ExecuteIgnored, worker, history
<1> QED BY <1>1, <1>2, <1>3 DEF Execute

\* The local queue of w without its head, or that of a victim without its last.
LEMMA LocalShrinks ==
    ASSUME TInv, NEW w \in Workers, TakeLocal(w) \/ Steal(w)
    PROVE  \A v \in Workers : \A t : In(m_local_queues'[v], t) => In(m_local_queues[v], t)
<1>1. m_local_queues \in [Workers -> Seq(Task)] BY DEF TInv, TypeOK
<1>2. CASE TakeLocal(w)
    <2>1. \A t : In(Tail(m_local_queues[w]), t) => In(m_local_queues[w], t)
        BY <1>1, <1>2, TailIn DEF TakeLocal
    <2> QED BY <1>1, <1>2, <2>1 DEF TakeLocal
<1>3. CASE Steal(w)
    <2>1. ASSUME Target(w) \in Workers, NEW t, In(Front(m_local_queues[Target(w)]), t)
          PROVE  In(m_local_queues[Target(w)], t)
        BY <1>1, <1>3, <2>1, FrontIn DEF Steal
    <2> QED BY <1>1, <1>3, <2>1 DEF Steal
<1> QED BY <1>2, <1>3

LEMMA WaitLoop ==
    ASSUME TInv, WInv, NEW w \in Workers, Loop(w)
    PROVE  WInv'
<1>p. pc \in [Workers -> Label] BY DEF TInv, TypeOK
<1>w. pc[w] # "wait" => w \notin m_cv BY DEF WInv, Waiting
<1>1. CASE LoopEnd(w)
    BY <1>1, <1>w, WaitGoto DEF LoopEnd, Label, queues, history
<1>2. CASE LocalEmpty(w)
    <2>1. \A t : ~In(m_local_queues'[w], t) BY <1>2, EmptyIn DEF LocalEmpty, queues
    <2> QED BY <1>2, <1>w, <2>1, WaitGoto DEF LocalEmpty, Label, queues, history
<1>3. CASE GlobalEmpty(w)
    BY <1>3, <1>w, WaitGoto DEF GlobalEmpty, Searches, Label, queues, history
<1>4. CASE TakeLocal(w) \/ Steal(w)
    BY <1>4, <1>w, LocalShrinks, WaitGoto DEF TakeLocal, Steal, Label, history
<1>5. CASE TakeGlobal(w)
    BY <1>5, <1>w, WaitGoto DEF TakeGlobal, Label, history
<1>6. CASE StealNext(w) \/ WaitBlocks(w) \/ Sleep(w)
    <2>1. UNCHANGED <<queues, notifying, misplaced>> /\ Searches(w) /\ Searches(w)'
          /\ \A v \in Workers : v # w => pc'[v] = pc[v]
        BY <1>6, <1>p DEF StealNext, WaitBlocks, Sleep, Goto, Searches, history
    <2>2. \A v \in Workers : OwnQueueDone(v)'
        BY <2>1 DEF WInv, OwnQueueDone, Searches, queues
    <2>3. Waiting'
        <3>1. CASE StealNext(w)
            <4>1. UNCHANGED m_cv /\ pc'[w] # "blocking" /\ pc[w] # "wait"
                BY <1>p, <3>1 DEF StealNext, Goto
            <4> QED BY <2>1, <4>1 DEF WInv, Waiting, queues, TInv, TypeOK
        <3>2. CASE WaitBlocks(w)
            <4>1. UNCHANGED m_cv /\ m_task_queue = <<>> /\ w \notin m_cv
                BY <3>2 DEF WaitBlocks, Predicate
            <4> QED BY <2>1, <4>1 DEF WInv, Waiting, queues, TInv, TypeOK
        <3>3. CASE Sleep(w)
            <4>1. m_cv' \subseteq m_cv \cup {w} /\ m_task_queue = <<>> /\ pc'[w] = "wait"
                BY <1>p, <3>3 DEF Sleep, Goto, WInv, Waiting
            <4> QED BY <2>1, <4>1 DEF WInv, Waiting, queues, TInv, TypeOK
        <3> QED BY <1>6, <3>1, <3>2, <3>3
    <2> QED BY <2>2, <2>3 DEF WInv
<1>7. CASE WaitReturns(w)
    <2>1. PICK l \in {"exit", "local"} : Goto(w, l) BY <1>7 DEF WaitReturns
    <2> QED BY <1>7, <2>1, WaitGoto DEF WaitReturns, Label, queues, history
<1> QED BY <1>1, <1>2, <1>3, <1>4, <1>5, <1>6, <1>7 DEF Loop

LEMMA WaitNext == TInv /\ WInv /\ [PoolNext]_vars => WInv'
<1> SUFFICES ASSUME TInv, WInv, [PoolNext]_vars PROVE WInv'
    OBVIOUS
<1>p. pc \in [Workers -> Label] BY DEF TInv, TypeOK
<1>1. CASE Spawn
    <2>1. spawned \in Workers /\ pc[spawned] = "unborn"
        BY <1>1, WorkersFacts DEF Spawn, TInv, TypeOK, Unborn
    <2>2. spawned \notin m_cv BY <2>1 DEF WInv, Waiting
    <2> QED BY <1>1, <2>1, <2>2, WaitGoto DEF Spawn, Label, queues, history
<1>2. CASE SpawnFails \/ Destroy \/ Shutdown
    BY <1>2, WaitWake DEF SpawnFails, Destroy, Shutdown, worker, history
<1>3. CASE NotifyAll \/ RequestStop
    <2>1. m_cv' \subseteq m_cv /\ UNCHANGED <<queues, notifying, worker, history>>
        BY <1>3 DEF NotifyAll, RequestStop
    <2> QED BY <2>1, WaitWake DEF worker, history
<1>4. CASE Join
    <2>1. /\ UNCHANGED <<pc, m_cv, notifying, misplaced>> /\ m_task_queue' = <<>>
          /\ \A w \in Workers : m_local_queues'[w] = <<>>
        BY <1>4 DEF Join, worker
    <2> QED BY <2>1, EmptyIn DEF WInv, Waiting, OwnQueueDone, Searches
<1>5. ASSUME NEW x \in Clients, ExecuteNotify(x) PROVE WInv'
    <2>1. m_cv' \subseteq m_cv /\ m_cv' # Workers BY <1>5, NotifyWakes DEF ExecuteNotify
    <2> QED BY <1>5, <2>1, WaitWake DEF ExecuteNotify, worker, history
<1>6. ASSUME NEW w \in Workers, Fork(w) \/ ForkIgnored(w) \/ ForkNotify(w) \/ Finish(w) PROVE WInv'
    <2>1. /\ ~Searches(w) /\ ~Searches(w)' /\ w \notin m_cv /\ m_cv' \subseteq m_cv
          /\ \A v \in Workers : v # w => pc'[v] = pc[v] /\ m_local_queues'[v] = m_local_queues[v]
        <3>1. m_local_queues \in [Workers -> Seq(Task)] BY DEF TInv, TypeOK
        <3>2. pc[w] \in {"run", "notify"} /\ pc'[w] \in {"run", "notify", "local"}
            BY <1>6, <1>p DEF Fork, ForkIgnored, ForkNotify, Finish, HasChild, Goto
        <3>3. \A v \in Workers : v # w => pc'[v] = pc[v]
            BY <1>6, <1>p DEF Fork, ForkIgnored, ForkNotify, Finish, HasChild, Goto
        <3>4. \A v \in Workers : v # w => m_local_queues'[v] = m_local_queues[v]
            BY <1>6, <3>1 DEF Fork, ForkIgnored, ForkNotify, Finish, queues
        <3>5. m_cv' \subseteq m_cv
            BY <1>6, NotifyWakes DEF Fork, ForkIgnored, ForkNotify, Finish
        <3> QED BY <3>2, <3>3, <3>4, <3>5 DEF Searches, WInv, Waiting
    <2>2. UNCHANGED <<m_task_queue, misplaced, notifying>>
        BY <1>6 DEF Fork, ForkIgnored, ForkNotify, Finish, queues, history
    <2>3. \A v \in Workers : OwnQueueDone(v)'
        BY <2>1, <2>2 DEF WInv, OwnQueueDone, Searches
    <2>4. Waiting' BY <2>1, <2>2 DEF WInv, Waiting, Searches, TInv, TypeOK
    <2> QED BY <2>3, <2>4 DEF WInv
<1>7. ASSUME NEW w \in Workers, SpuriousWakeup(w) PROVE WInv'
    BY <1>7, WaitWake DEF SpuriousWakeup, worker, history
<1>8. CASE UNCHANGED vars
    BY <1>8, WaitWake DEF vars, worker, history
<1>9. ASSUME NEW x \in Clients, NEW t \in RootTask, Execute(x, t) PROVE WInv'
    BY <1>9, WaitExecute DEF RootTask
<1> QED
    BY <1>1, <1>2, <1>3, <1>4, <1>5, <1>6, <1>7, <1>8, <1>9, WaitLoop
    DEF PoolNext, Teardown, Body

-----------------------------------------------------------------------------
(* Every task is in one place.  That Fork submits a new task, and not one  *)
(* submitted before, holds because the task whose body it is in runs once  *)
(* (BodyOnce): the two facts need each other.                              *)

Alone(t) ==
    /\ In(m_task_queue, t) =>
        /\ \A w \in Workers : ~In(m_local_queues[w], t) /\ task[w] # t
        /\ ran[t] = 0 /\ t \notin dropped
    /\ \A w \in Workers : In(m_local_queues[w], t) =>
        /\ \A v \in Workers : task[v] # t /\ (In(m_local_queues[v], t) => v = w)
        /\ ran[t] = 0 /\ t \notin dropped
    /\ \A w \in Workers : task[w] = t =>
        /\ \A v \in Workers : task[v] = t => v = w
        /\ ran[t] = 0 /\ t \notin dropped
    /\ ran[t] > 0 => ran[t] = 1 /\ t \notin dropped
    /\ t \in submitted <=>
        \/ In(m_task_queue, t) \/ ran[t] > 0 \/ t \in dropped
        \/ \E w \in Workers : In(m_local_queues[w], t) \/ task[w] = t

BodyOnce(t) ==
    \A i \in DOMAIN Forks[t] : Forks[t][i] \in submitted =>
        ran[t] > 0 \/ \E w \in Workers : task[w] = t /\ i <= forked[w]

OInv ==
    /\ Once(m_task_queue) /\ \A w \in Workers : Once(m_local_queues[w])
    /\ \A t \in Task : Alone(t) /\ BodyOnce(t)

LEMMA PlaceInit == Init => OInv
BY EmptyIn, TaskAssumption DEF Init, OInv, Alone, BodyOnce

\* A step does not touch task t.
Same(t) ==
    /\ In(m_task_queue', t) <=> In(m_task_queue, t)
    /\ \A w \in Workers : (In(m_local_queues'[w], t) <=> In(m_local_queues[w], t))
                          /\ (task'[w] = t <=> task[w] = t)
    /\ ran'[t] = ran[t]
    /\ t \in dropped' <=> t \in dropped
    /\ t \in submitted' <=> t \in submitted

LEMMA SameAlone ==
    ASSUME NEW t \in Task, Alone(t), Same(t)
    PROVE  Alone(t)'
BY DEF Alone, Same

\* A step that moves no task.
LEMMA PlaceQuiet ==
    ASSUME OInv, UNCHANGED <<queues, task, forked, submitted, ran, dropped>>
    PROVE  OInv'
BY DEF OInv, Alone, BodyOnce, queues

\* Worker w takes task t from a queue.
LEMMA PlaceTake ==
    ASSUME TInv, OInv, NEW w \in Workers, NEW t \in Task, task[w] = NoTask,
           task' = [task EXCEPT ![w] = t],
           UNCHANGED <<forked, submitted, ran, dropped>>,
           In(m_task_queue, t) \/ \E v \in Workers : In(m_local_queues[v], t),
           \A u \in Task : In(m_task_queue', u) <=> In(m_task_queue, u) /\ u # t,
           \A v \in Workers, u \in Task : In(m_local_queues'[v], u) <=> In(m_local_queues[v], u) /\ u # t,
           Once(m_task_queue'), \A v \in Workers : Once(m_local_queues'[v])
    PROVE  OInv'
<1>1. \A v \in Workers : task'[v] = IF v = w THEN t ELSE task[v]
    BY DEF TInv, TypeOK
<1>2. \A v \in Workers : task[v] # t /\ ran[t] = 0 /\ t \notin dropped /\ t \in submitted
    BY DEF OInv, Alone
<1>3. Alone(t)' BY <1>1, <1>2 DEF Alone
<1>4. ASSUME NEW u \in Task, u # t PROVE Alone(u)'
    <2>1. Same(u) BY <1>1, <1>4, TaskAssumption DEF Same
    <2> QED BY <2>1, SameAlone DEF OInv
<1>5. ASSUME NEW u \in Task PROVE BodyOnce(u)'
    <2>1. \A v \in Workers : task[v] = u => task'[v] = u
        BY <1>1, TaskAssumption
    <2> QED BY <2>1 DEF OInv, BodyOnce
<1> QED BY <1>3, <1>4, <1>5 DEF OInv

\* A new task t is pushed to one of the queues or dropped.
LEMMA PlaceSubmit ==
    ASSUME TInv, OInv, NEW t \in Task, t \notin submitted,
           submitted' = submitted \cup {t}, UNCHANGED <<task, ran>>,
           \/ m_task_queue' = Append(m_task_queue, t) /\ UNCHANGED <<m_local_queues, dropped>>
           \/ dropped' = dropped \cup {t} /\ UNCHANGED queues
           \/ \E v \in Workers : /\ m_local_queues' = [m_local_queues EXCEPT ![v] = Append(@, t)]
                                 /\ UNCHANGED <<m_task_queue, dropped>>
    PROVE  /\ Once(m_task_queue') /\ \A w \in Workers : Once(m_local_queues'[w])
           /\ \A u \in Task : Alone(u)'
<1>t. /\ m_task_queue \in Seq(Task) /\ m_local_queues \in [Workers -> Seq(Task)]
      /\ task \in [Workers -> Task \cup {NoTask}] /\ ran \in [Task -> Nat]
    BY DEF TInv, TypeOK
<1>n. /\ ~In(m_task_queue, t) /\ ran[t] = 0 /\ t \notin dropped
      /\ \A w \in Workers : ~In(m_local_queues[w], t) /\ task[w] # t
    BY <1>t DEF OInv, Alone
<1>1. CASE m_task_queue' = Append(m_task_queue, t) /\ UNCHANGED <<m_local_queues, dropped>>
    <2>1. /\ \A e : In(m_task_queue', e) <=> In(m_task_queue, e) \/ e = t
          /\ Once(m_task_queue')
        BY <1>t, <1>n, <1>1, AppendIn DEF OInv
    <2>2. Alone(t)' BY <1>n, <1>1, <2>1 DEF Alone
    <2>3. ASSUME NEW u \in Task, u # t PROVE Alone(u)'
        <3>1. Same(u) BY <1>1, <2>1, <2>3 DEF Same
        <3> QED BY <3>1, SameAlone DEF OInv
    <2> QED BY <1>1, <2>1, <2>2, <2>3 DEF OInv
<1>2. CASE dropped' = dropped \cup {t} /\ UNCHANGED queues
    <2>1. Alone(t)' BY <1>n, <1>2 DEF Alone, queues
    <2>2. ASSUME NEW u \in Task, u # t PROVE Alone(u)'
        <3>1. Same(u) BY <1>2, <2>2 DEF Same, queues
        <3> QED BY <3>1, SameAlone DEF OInv
    <2> QED BY <1>2, <2>1, <2>2 DEF OInv, queues
<1>3. ASSUME NEW v \in Workers, m_local_queues' = [m_local_queues EXCEPT ![v] = Append(@, t)],
             UNCHANGED <<m_task_queue, dropped>>
      PROVE  /\ Once(m_task_queue') /\ \A w \in Workers : Once(m_local_queues'[w])
             /\ \A u \in Task : Alone(u)'
    <2>1. \A w \in Workers : m_local_queues'[w] =
                IF w = v THEN Append(m_local_queues[v], t) ELSE m_local_queues[w]
        BY <1>t, <1>3
    <2>2. /\ \A e : In(Append(m_local_queues[v], t), e) <=> In(m_local_queues[v], e) \/ e = t
          /\ Once(Append(m_local_queues[v], t))
        BY <1>t, <1>n, AppendIn DEF OInv
    <2>3. /\ \A w \in Workers : \A e :
                In(m_local_queues'[w], e) <=> In(m_local_queues[w], e) \/ (w = v /\ e = t)
          /\ \A w \in Workers : Once(m_local_queues'[w])
        BY <2>1, <2>2 DEF OInv
    <2>4. Alone(t)' BY <1>n, <1>3, <2>3 DEF Alone
    <2>5. ASSUME NEW u \in Task, u # t PROVE Alone(u)'
        <3>1. Same(u) BY <1>3, <2>3, <2>5 DEF Same
        <3> QED BY <3>1, SameAlone DEF OInv
    <2> QED BY <1>3, <2>3, <2>4, <2>5 DEF OInv
<1> QED BY <1>1, <1>2, <1>3

LEMMA PlaceExecute ==
    ASSUME TInv, OInv, NEW x \in Clients, NEW t \in RootTask, Execute(x, t)
    PROVE  OInv'
<1>1. /\ t \in Task /\ t \notin submitted /\ submitted' = submitted \cup {t}
      /\ UNCHANGED <<task, ran, forked>>
    BY DEF Execute, ExecuteGlobal, ExecuteLocal, ExecuteIgnored, CanExecute, RootTask, worker
<1>2. UsesLocal(x) => ForeignIndex \in Workers
    BY WorkersFacts, ForeignAssumption DEF UsesLocal
<1>3. /\ Once(m_task_queue') /\ \A w \in Workers : Once(m_local_queues'[w])
      /\ \A u \in Task : Alone(u)'
    <2>1. CASE ExecuteGlobal(x, t)
        BY <1>1, <2>1, PlaceSubmit DEF ExecuteGlobal
    <2>2. CASE ExecuteLocal(x, t)
        BY <1>1, <1>2, <2>2, PlaceSubmit DEF ExecuteLocal
    <2>3. CASE ExecuteIgnored(x, t)
        BY <1>1, <2>3, PlaceSubmit DEF ExecuteIgnored
    <2> QED BY <2>1, <2>2, <2>3 DEF Execute
<1>4. ASSUME NEW u \in Task PROVE BodyOnce(u)'
    BY <1>1 DEF OInv, BodyOnce, RootTask
<1> QED BY <1>3, <1>4 DEF OInv

LEMMA PlaceFork ==
    ASSUME TInv, OInv, NEW w \in Workers, Fork(w) \/ ForkIgnored(w)
    PROVE  OInv'
<1> DEFINE p == task[w]
           k == forked[w] + 1
<1>1. /\ p \in Task /\ Child(w) \in Task /\ k \in DOMAIN Forks[p] /\ Child(w) = Forks[p][k]
      /\ \A v \in Workers : forked[v] \in Nat
    <2>1. p \in Task /\ Child(w) \in Task BY TypeFork
    <2>2. Forks[p] \in Seq(Task) BY <2>1, TaskAssumption
    <2>3. \A v \in Workers : forked[v] \in Nat BY DEF TInv, TypeOK
    <2> QED BY <2>1, <2>2, <2>3 DEF Child, Fork, ForkIgnored, HasChild
<1>2. /\ submitted' = submitted \cup {Child(w)} /\ UNCHANGED <<task, ran>>
      /\ forked' = [forked EXCEPT ![w] = @ + 1]
    BY DEF Fork, ForkIgnored
<1>3. Child(w) \notin submitted
    <2> SUFFICES ASSUME Child(w) \in submitted PROVE FALSE
        OBVIOUS
    <2>1. ran[p] = 0 /\ \A v \in Workers : task[v] = p => v = w BY <1>1 DEF OInv, Alone
    <2>2. ran[p] > 0 \/ \E v \in Workers : task[v] = p /\ k <= forked[v]
        BY <1>1 DEF OInv, BodyOnce
    <2> QED BY <1>1, <2>1, <2>2
<1>4. /\ Once(m_task_queue') /\ \A v \in Workers : Once(m_local_queues'[v])
      /\ \A u \in Task : Alone(u)'
    BY <1>1, <1>2, <1>3, PlaceSubmit DEF Fork, ForkIgnored
<1>5. ASSUME NEW u \in Task, NEW i \in DOMAIN Forks[u], Forks[u][i] \in submitted'
      PROVE  ran'[u] > 0 \/ \E v \in Workers : task'[v] = u /\ i <= forked'[v]
    <2>1. forked'[w] = k /\ \A v \in Workers : forked[v] <= forked'[v] /\ forked'[v] \in Nat
        BY <1>1, <1>2 DEF TInv, TypeOK
    <2>2. CASE Forks[u][i] \in submitted
        <3>1. ran[u] > 0 \/ \E v \in Workers : task[v] = u /\ i <= forked[v]
            BY <2>2 DEF OInv, BodyOnce
        <3>2. i \in Nat BY TaskAssumption
        <3> QED BY <1>1, <1>2, <2>1, <3>1, <3>2
    <2>3. CASE Forks[u][i] = Child(w)
        <3>1. u = p /\ i = k BY <1>1, <2>3, ForksAssumption
        <3> QED BY <1>1, <1>2, <2>1, <3>1
    <2> QED BY <1>2, <1>5, <2>2, <2>3
<1> QED BY <1>4, <1>5 DEF OInv, BodyOnce

LEMMA PlaceFinish ==
    ASSUME TInv, OInv, NEW w \in Workers, Finish(w)
    PROVE  OInv'
<1>1. PICK t \in Task : t = task[w] BY TypeFinish
<1>2. /\ UNCHANGED <<queues, submitted, dropped>>
      /\ \A v \in Workers : task'[v] = IF v = w THEN NoTask ELSE task[v]
      /\ \A u \in Task : ran'[u] = IF u = t THEN ran[u] + 1 ELSE ran[u]
      /\ \A v \in Workers : v # w => forked'[v] = forked[v]
    BY <1>1 DEF Finish, TInv, TypeOK
<1>3. /\ ran[t] = 0 /\ t \notin dropped /\ ~In(m_task_queue, t) /\ t \in submitted
      /\ \A v \in Workers : ~In(m_local_queues[v], t) /\ (task[v] = t => v = w)
    BY <1>1 DEF OInv, Alone
<1>4. Alone(t)'
    <2>1. ran'[t] = 1 /\ \A v \in Workers : task'[v] # t
        BY <1>1, <1>2, <1>3, TaskAssumption
    <2>2. /\ ~In(m_task_queue', t) /\ \A v \in Workers : ~In(m_local_queues'[v], t)
          /\ t \in submitted' /\ t \notin dropped'
        BY <1>2, <1>3 DEF queues
    <2> QED BY <1>1, <2>1, <2>2 DEF Alone
<1>5. ASSUME NEW u \in Task, u # t PROVE Alone(u)'
    <2>1. Same(u) BY <1>1, <1>2, <1>5, TaskAssumption DEF Same, queues
    <2> QED BY <2>1, SameAlone DEF OInv
<1>6. ASSUME NEW u \in Task PROVE BodyOnce(u)'
    <2>0. ran[u] \in Nat BY DEF TInv, TypeOK
    <2>1. ran[u] > 0 => ran'[u] > 0 BY <1>2, <2>0
    <2>2. ran'[t] > 0 BY <1>1, <1>2, <1>3
    <2>3. \A v \in Workers : task[v] = u /\ v # w => task'[v] = u /\ forked'[v] = forked[v]
        BY <1>2
    <2> QED BY <1>1, <1>2, <2>1, <2>2, <2>3 DEF OInv, BodyOnce
<1> QED BY <1>2, <1>4, <1>5, <1>6 DEF OInv, queues

\* The members go: what was queued is dropped.
LEMMA PlaceJoin ==
    ASSUME TInv, OInv, Join
    PROVE  OInv'
<1>1. /\ m_task_queue' = <<>> /\ \A w \in Workers : m_local_queues'[w] = <<>>
      /\ UNCHANGED <<task, forked, submitted, ran>>
    BY DEF Join, worker
<1>2. ASSUME NEW t \in Task
      PROVE  t \in dropped' <=> t \in dropped \/ In(m_task_queue, t)
                                \/ \E w \in Workers : In(m_local_queues[w], t)
    <2>1. t \in ToSet(m_task_queue) <=> In(m_task_queue, t) BY DEF ToSet, In
    <2>2. ASSUME NEW w \in Workers PROVE t \in ToSet(m_local_queues[w]) <=> In(m_local_queues[w], t)
        BY DEF ToSet, In
    <2> QED BY <2>1, <2>2 DEF Join, Queued
<1>3. ASSUME NEW t \in Task PROVE Alone(t)' /\ BodyOnce(t)'
    BY <1>1, <1>2, EmptyIn DEF OInv, Alone, BodyOnce
<1> QED BY <1>1, <1>3, EmptyIn DEF OInv

LEMMA PlaceLoop ==
    ASSUME TInv, OInv, NEW w \in Workers, TakeLocal(w) \/ TakeGlobal(w) \/ Steal(w)
    PROVE  OInv'
<1>t. m_task_queue \in Seq(Task) /\ m_local_queues \in [Workers -> Seq(Task)] BY DEF TInv, TypeOK
<1>n. task[w] = NoTask BY DEF TakeLocal, TakeGlobal, Steal, TInv, TypeOK
<1>u. UNCHANGED <<forked, submitted, ran, dropped>>
    BY DEF TakeLocal, TakeGlobal, Steal, history
<1>1. CASE TakeGlobal(w)
    <2>1. /\ Head(m_task_queue) \in Task /\ In(m_task_queue, Head(m_task_queue))
          /\ Once(m_task_queue')
          /\ \A u : In(m_task_queue', u) <=> In(m_task_queue, u) /\ u # Head(m_task_queue)
        BY <1>1, <1>t, TailIn DEF TakeGlobal, OInv
    <2>2. \A v \in Workers : ~In(m_local_queues[v], Head(m_task_queue))
        BY <2>1 DEF OInv, Alone
    <2>3. UNCHANGED m_local_queues /\ task' = [task EXCEPT ![w] = Head(m_task_queue)]
        BY <1>1 DEF TakeGlobal
    <2>4. PICK t \in Task : t = Head(m_task_queue) BY <2>1
    <2>5. \A v \in Workers, u \in Task : In(m_local_queues'[v], u) <=> In(m_local_queues[v], u) /\ u # t
        BY <2>2, <2>3, <2>4
    <2>6. \A v \in Workers : Once(m_local_queues'[v]) BY <2>3 DEF OInv
    <2> QED BY <1>n, <1>u, <2>1, <2>3, <2>4, <2>5, <2>6, PlaceTake
<1>2. ASSUME NEW v \in Workers, NEW t \in Task, In(m_local_queues[v], t),
             Once(m_local_queues'[v]),
             \A u : In(m_local_queues'[v], u) <=> In(m_local_queues[v], u) /\ u # t,
             \A x \in Workers : x # v => m_local_queues'[x] = m_local_queues[x],
             UNCHANGED m_task_queue, task' = [task EXCEPT ![w] = t]
      PROVE  OInv'
    <2>1. ~In(m_task_queue, t) /\ \A x \in Workers : In(m_local_queues[x], t) => x = v
        BY <1>2 DEF OInv, Alone
    <2>2. /\ \A u \in Task : In(m_task_queue', u) <=> In(m_task_queue, u) /\ u # t
          /\ \A x \in Workers : Once(m_local_queues'[x])
          /\ \A x \in Workers, u \in Task :
                In(m_local_queues'[x], u) <=> In(m_local_queues[x], u) /\ u # t
        BY <1>2, <2>1 DEF OInv
    <2> QED BY <1>n, <1>u, <1>2, <2>2, PlaceTake DEF OInv
<1>3. CASE TakeLocal(w)
    <2>1. /\ m_local_queues'[w] = Tail(m_local_queues[w])
          /\ \A x \in Workers : x # w => m_local_queues'[x] = m_local_queues[x]
        BY <1>t, <1>3 DEF TakeLocal
    <2>2. /\ Head(m_local_queues[w]) \in Task /\ In(m_local_queues[w], Head(m_local_queues[w]))
          /\ Once(Tail(m_local_queues[w]))
          /\ \A u : In(Tail(m_local_queues[w]), u) <=>
                        In(m_local_queues[w], u) /\ u # Head(m_local_queues[w])
        BY <1>3, <1>t, TailIn DEF TakeLocal, OInv
    <2> QED BY <1>2, <1>3, <2>1, <2>2 DEF TakeLocal
<1>4. CASE Steal(w)
    <2>0. PICK v \in Workers : v = Target(w)
        <3>0. scan[w] \in Workers BY DEF TInv, TypeOK
        <3>1. w + scan[w] + 1 \in Nat BY <3>0, WorkersFacts
        <3> QED BY <3>1, WorkersFacts DEF Target
    <2>1. /\ m_local_queues'[v] = Front(m_local_queues[v])
          /\ \A x \in Workers : x # v => m_local_queues'[x] = m_local_queues[x]
        BY <1>t, <1>4, <2>0 DEF Steal
    <2>2. /\ Last(m_local_queues[v]) \in Task /\ In(m_local_queues[v], Last(m_local_queues[v]))
          /\ Once(Front(m_local_queues[v]))
          /\ \A u : In(Front(m_local_queues[v]), u) <=>
                        In(m_local_queues[v], u) /\ u # Last(m_local_queues[v])
        BY <1>4, <1>t, <2>0, FrontIn DEF Steal, OInv
    <2>3. UNCHANGED m_task_queue /\ task' = [task EXCEPT ![w] = Last(m_local_queues[v])]
        BY <1>4, <2>0 DEF Steal
    <2> QED BY <1>2, <2>0, <2>1, <2>2, <2>3
<1> QED BY <1>1, <1>3, <1>4

LEMMA PlaceNext == TInv /\ OInv /\ [PoolNext]_vars => OInv'
<1> SUFFICES ASSUME TInv, OInv, [PoolNext]_vars PROVE OInv'
    OBVIOUS
<1>1. CASE Spawn \/ SpawnFails \/ Destroy \/ Shutdown \/ NotifyAll \/ RequestStop
    BY <1>1, PlaceQuiet
    DEF Spawn, SpawnFails, Destroy, Shutdown, NotifyAll, RequestStop, worker, history
<1>2. ASSUME NEW x \in Clients, ExecuteNotify(x) PROVE OInv'
    BY <1>2, PlaceQuiet DEF ExecuteNotify, worker, history
<1>3. ASSUME NEW w \in Workers, LoopEnd(w) \/ LocalEmpty(w) \/ GlobalEmpty(w) \/ StealNext(w)
                                \/ WaitBlocks(w) \/ Sleep(w) \/ WaitReturns(w)
      PROVE  OInv'
    BY <1>3, PlaceQuiet
    DEF LoopEnd, LocalEmpty, GlobalEmpty, StealNext, WaitBlocks, Sleep, WaitReturns, history
<1>4. ASSUME NEW w \in Workers, ForkNotify(w) \/ SpuriousWakeup(w) PROVE OInv'
    BY <1>4, PlaceQuiet DEF ForkNotify, SpuriousWakeup, worker, history
<1>5. CASE UNCHANGED vars
    BY <1>5, PlaceQuiet DEF vars, worker, history
<1> QED
    BY <1>1, <1>2, <1>3, <1>4, <1>5, PlaceJoin, PlaceExecute, PlaceLoop, PlaceFork, PlaceFinish
    DEF PoolNext, Teardown, Loop, Body

\* The places that OnePlace counts.
LEMMA CountPlaces ==
    ASSUME TInv, OInv, NEW t \in Task
    PROVE  Cardinality(Places(t)) = IF t \in submitted THEN 1 ELSE 0
<1> DEFINE inGlobal == {<<"global", i>> : i \in {j \in DOMAIN m_task_queue : m_task_queue[j] = t}}
           inLocal == UNION {{<<"local", w, i>> :
                i \in {j \in DOMAIN m_local_queues[w] : m_local_queues[w][j] = t}} : w \in Workers}
           atWorker == {<<"worker", w>> : w \in {v \in Workers : task[v] = t}}
           hasRun == {<<"ran", i>> : i \in 1 .. ran[t]}
           isDropped == {<<"dropped", i>> : i \in {j \in {1} : t \in dropped}}
<1>p. Places(t) = inGlobal \cup inLocal \cup atWorker \cup hasRun \cup isDropped
    BY DEF Places
<1>r. ran[t] \in Nat BY DEF TInv, TypeOK
<1>a. Alone(t) BY DEF OInv
<1>g. ~In(m_task_queue, t) => inGlobal = {} BY DEF In
<1>l. (\A w \in Workers : ~In(m_local_queues[w], t)) => inLocal = {} BY DEF In
<1>w. (\A w \in Workers : task[w] # t) => atWorker = {} OBVIOUS
<1>n. ran[t] = 0 => hasRun = {}
    <2>1. 1 .. 0 = {} OBVIOUS
    <2> QED BY <2>1
<1>d. t \notin dropped => isDropped = {} OBVIOUS
<1>1. CASE t \notin submitted
    <2>1. /\ ~In(m_task_queue, t) /\ ran[t] = 0 /\ t \notin dropped
          /\ \A w \in Workers : ~In(m_local_queues[w], t) /\ task[w] # t
        BY <1>a, <1>r, <1>1 DEF Alone
    <2> HIDE DEF inGlobal, inLocal, atWorker, hasRun, isDropped
    <2>2. Places(t) = {} BY <1>p, <1>g, <1>l, <1>w, <1>n, <1>d, <2>1
    <2> QED BY <1>1, <2>2, FS_EmptySet
<1>2. CASE t \in submitted
    <2> SUFFICES \E p : Places(t) = {p}
        BY <1>2, FS_Singleton
    <2>1. CASE In(m_task_queue, t)
        <3>1. PICK i \in DOMAIN m_task_queue : m_task_queue[i] = t BY <2>1 DEF In
        <3>2. \A j \in DOMAIN m_task_queue : m_task_queue[j] = t => j = i
            BY <3>1 DEF OInv, Once
        <3>3. inGlobal = {<<"global", i>>} BY <3>1, <3>2
        <3>4. /\ ran[t] = 0 /\ t \notin dropped
              /\ \A w \in Workers : ~In(m_local_queues[w], t) /\ task[w] # t
            BY <1>a, <2>1 DEF Alone
        <3> HIDE DEF inGlobal, inLocal, atWorker, hasRun, isDropped
        <3> QED BY <1>p, <1>l, <1>w, <1>n, <1>d, <3>3, <3>4
    <2>2. ASSUME NEW w \in Workers, In(m_local_queues[w], t) PROVE \E p : Places(t) = {p}
        <3>1. PICK i \in DOMAIN m_local_queues[w] : m_local_queues[w][i] = t BY <2>2 DEF In
        <3>2. \A j \in DOMAIN m_local_queues[w] : m_local_queues[w][j] = t => j = i
            BY <3>1 DEF OInv, Once
        <3>3. /\ ran[t] = 0 /\ t \notin dropped /\ ~In(m_task_queue, t)
              /\ \A v \in Workers : task[v] # t /\ (v # w => ~In(m_local_queues[v], t))
            BY <1>a, <2>2 DEF Alone
        <3>4. ASSUME NEW v \in Workers, NEW j \in DOMAIN m_local_queues[v], m_local_queues[v][j] = t
              PROVE  v = w /\ j = i
            BY <3>2, <3>3, <3>4 DEF In
        <3>5. inLocal = {<<"local", w, i>>} BY <3>1, <3>4
        <3> HIDE DEF inGlobal, inLocal, atWorker, hasRun, isDropped
        <3> QED BY <1>p, <1>g, <1>w, <1>n, <1>d, <3>3, <3>5
    <2>3. ASSUME NEW w \in Workers, task[w] = t PROVE \E p : Places(t) = {p}
        <3>1. /\ ran[t] = 0 /\ t \notin dropped /\ ~In(m_task_queue, t)
              /\ \A v \in Workers : ~In(m_local_queues[v], t) /\ (task[v] = t => v = w)
            BY <1>a, <2>3 DEF Alone
        <3>2. atWorker = {<<"worker", w>>} BY <2>3, <3>1
        <3> HIDE DEF inGlobal, inLocal, atWorker, hasRun, isDropped
        <3> QED BY <1>p, <1>g, <1>l, <1>n, <1>d, <3>1, <3>2
    <2>4. CASE ran[t] > 0
        <3>1. /\ ran[t] = 1 /\ t \notin dropped /\ ~In(m_task_queue, t)
              /\ \A v \in Workers : ~In(m_local_queues[v], t) /\ task[v] # t
            BY <1>a, <2>4 DEF Alone
        <3>2. 1 .. 1 = {1} OBVIOUS
        <3>3. hasRun = {<<"ran", 1>>} BY <3>1, <3>2
        <3> HIDE DEF inGlobal, inLocal, atWorker, hasRun, isDropped
        <3> QED BY <1>p, <1>g, <1>l, <1>w, <1>d, <3>1, <3>3
    <2>5. CASE t \in dropped
        <3>1. /\ ran[t] = 0 /\ ~In(m_task_queue, t)
              /\ \A v \in Workers : ~In(m_local_queues[v], t) /\ task[v] # t
            BY <1>a, <1>r, <2>5 DEF Alone
        <3>2. isDropped = {<<"dropped", 1>>} BY <2>5
        <3> HIDE DEF inGlobal, inLocal, atWorker, hasRun, isDropped
        <3> QED BY <1>p, <1>g, <1>l, <1>w, <1>n, <3>1, <3>2
    <2> QED BY <1>a, <1>2, <2>1, <2>2, <2>3, <2>4, <2>5 DEF Alone
<1> QED BY <1>1, <1>2

\* What is queued when all wait and no notify_one is due.
LEMMA NothingLeft == TInv /\ WInv => NoLostWakeup
<1> SUFFICES ASSUME TInv, WInv, m_cv = Workers, notifying = {}, NEW t \in Queued
             PROVE  t \in misplaced
    BY DEF NoLostWakeup
<1>1. m_task_queue = <<>> BY DEF WInv, Waiting
<1>2. PICK w \in Workers : t \in ToSet(m_local_queues[w])
    BY <1>1 DEF Queued, ToSet
<1>3. In(m_local_queues[w], t) BY <1>2 DEF ToSet, In
<1> QED BY <1>3 DEF WInv, Waiting, OwnQueueDone, Searches

PInv == TInv /\ WInv /\ OInv

LEMMA PoolStep_PInv == PInv /\ [PoolNext]_vars => PInv'
BY TypeNext, WaitNext, PlaceNext DEF PInv

\* The inductive invariant of the pool, whoever its clients are.
THEOREM PoolInv == Spec => []PInv
<1>1. Init => PInv BY TypeInit, WaitInit, PlaceInit DEF PInv
<1>2. Next => PoolNext BY ForksAssumption DEF Next, PoolNext
<1>3. PInv /\ [Next]_vars => PInv' BY <1>2, PoolStep_PInv
<1> QED BY <1>1, <1>3, PTL DEF Spec

\* A task passed to execute() is in one place from then on: in one queue, with one worker, run
\* once or dropped, for any number of workers and any tasks that fork others.
\* (execute, worker_loop, try_pop_local, try_steal, ~JThreadPool)
THEOREM TaskInOnePlace == Spec => []OnePlace
<1>1. PInv => OnePlace BY CountPlaces DEF PInv, OnePlace
<1> QED BY <1>1, PoolInv, PTL

\* No wake-up is lost: when every worker waits in m_cv and no notify_one is due, nothing is
\* queued but what workers of another pool put where its owner does not look.
\* (execute, the wait of worker_loop)
THEOREM WakeupsKept == Spec => []NoLostWakeup
<1>1. PInv => NoLostWakeup BY NothingLeft DEF PInv
<1> QED BY <1>1, PoolInv, PTL

-----------------------------------------------------------------------------
(* The chunks of a range                                                   *)

LEMMA Quotient ==
    ASSUME NEW a \in Nat, NEW c \in Nat \ {0}
    PROVE  a \div c \in Nat /\ (a \div c) * c <= a /\ a < (a \div c) * c + c
OBVIOUS

LEMMA QuotientUnique ==
    ASSUME NEW a \in Nat, NEW c \in Nat \ {0}, NEW i \in Nat, i * c <= a, a < i * c + c
    PROVE  i = a \div c
<1>1. PICK q \in Nat : q = a \div c /\ q * c <= a /\ a < q * c + c BY Quotient
<1>2. \A m \in Nat : i = q + 1 + m => i * c = q * c + c + m * c /\ m * c >= 0 OBVIOUS
<1>3. \A m \in Nat : q = i + 1 + m => q * c = i * c + c + m * c /\ m * c >= 0 OBVIOUS
<1>4. i * c \in Nat /\ q * c \in Nat OBVIOUS
<1>5. ASSUME i > q PROVE FALSE
    <2>1. i - q - 1 \in Nat /\ i = q + 1 + (i - q - 1) BY <1>5
    <2> QED BY <1>1, <1>2, <1>4, <2>1
<1>6. ASSUME i < q PROVE FALSE
    <2>1. q - i - 1 \in Nat /\ q = i + 1 + (q - i - 1) BY <1>6
    <2> QED BY <1>1, <1>3, <1>4, <2>1
<1> QED BY <1>1, <1>5, <1>6

CallTypes ==
    /\ usage \in {"tasks", "ranges"}
    /\ caller \in [Callers -> {"idle", "submit", "wait", "done"}]
    /\ distance \in [Callers -> -1 .. MaxDistance] /\ chunk_size \in [Callers -> ChunkSizes]
    /\ next \in [Callers -> Nat] /\ done_latch \in [Callers -> Int]
    /\ worked \subseteq Workers
    /\ applied \in [Callers -> [0 .. MaxDistance - 1 -> Nat]]

\* num_chunks is the rounded up quotient, of which the sum in the code does not wrap around.
LEMMA NumChunks ==
    ASSUME CallTypes, NEW x \in Callers, distance[x] > 0
    PROVE  /\ distance[x] \in 1 .. MaxDistance /\ chunk_size[x] \in Nat \ {0}
           /\ num_chunks(x) \in 1 .. MaxDistance
           /\ (num_chunks(x) - 1) * chunk_size[x] < distance[x]
           /\ distance[x] <= num_chunks(x) * chunk_size[x]
<1>1. PICK d \in 1 .. MaxDistance : d = distance[x] BY RangeAssumption DEF CallTypes
<1>2. PICK c \in 1 .. Modulus - MaxDistance : c = chunk_size[x]
    BY RangeAssumption DEF CallTypes
<1>3. d + c - 1 \in 0 .. Modulus - 1 /\ d \in Nat \ {0} /\ c \in Nat \ {0}
    BY <1>1, <1>2, RangeAssumption
<1>4. (d + c - 1) % Modulus = d + c - 1 BY <1>3, RangeAssumption
<1>5. PICK n \in Nat : n = (d + c - 1) \div c /\ n * c <= d + c - 1 /\ d + c - 1 < n * c + c
    <2>1. d + c - 1 \in Nat BY <1>3
    <2> QED BY <1>3, <2>1, Quotient
<1>6. n = num_chunks(x) BY <1>1, <1>2, <1>4, <1>5 DEF num_chunks
<1>7. (n - 1) * c = n * c - c /\ n * c \in Nat BY <1>3
<1>8. n # 0 BY <1>3, <1>5
<1>9. n <= d
    <2>1. \A m \in Nat : n = d + 1 + m => n * c = d * c + c + m * c /\ m * c >= 0 BY <1>3
    <2>2. d * c >= d /\ d * c \in Nat BY <1>3
    <2>3. ASSUME n > d PROVE FALSE
        <3>1. n - d - 1 \in Nat /\ n = d + 1 + (n - d - 1) BY <1>3, <2>3
        <3> QED BY <1>3, <1>5, <2>1, <2>2, <3>1
    <2> QED BY <1>3, <2>3
<1> QED BY <1>1, <1>2, <1>3, <1>5, <1>6, <1>7, <1>8, <1>9, RangeAssumption

\* The chunks cut the range: element e belongs to chunk e \div chunk_size and to no other.
LEMMA ChunksCut ==
    ASSUME CallTypes, NEW x \in Callers, distance[x] > 0, NEW e \in Nat,
           NEW i \in 0 .. num_chunks(x) - 1
    PROVE  e \in Chunk(x, i) <=> e < distance[x] /\ e \div chunk_size[x] = i
<1>1. PICK d \in Nat \ {0}, c \in Nat \ {0}, n \in Nat \ {0} :
        /\ d = distance[x] /\ c = chunk_size[x] /\ n = num_chunks(x)
        /\ (n - 1) * c < d /\ d <= n * c
    BY NumChunks, RangeAssumption
<1>2. PICK q \in Nat : q = e \div c /\ q * c <= e /\ e < q * c + c BY Quotient
<1>3. i \in Nat /\ i * c \in Nat /\ n * c \in Nat /\ (n - 1) * c = n * c - c BY <1>1
<1>4. i * c <= e /\ e < i * c + c => i = q BY <1>2, <1>3, QuotientUnique
<1>5. CASE i = n - 1
    <2>1. Chunk(x, i) = i * c .. d - 1 BY <1>1, <1>5 DEF Chunk
    <2>2. i * c = n * c - c BY <1>3, <1>5
    <2>3. PICK b \in Nat : b = i * c /\ d <= b + c BY <1>1, <1>3, <2>2
    <2>4. ASSUME e \in b .. d - 1 PROVE e < d /\ i = q BY <1>1, <1>4, <2>3, <2>4
    <2>5. ASSUME e < d, i = q PROVE e \in b .. d - 1 BY <1>1, <1>2, <2>3, <2>5
    <2> QED BY <1>1, <1>2, <2>1, <2>3, <2>4, <2>5
<1>6. CASE i # n - 1
    <2>1. Chunk(x, i) = i * c .. (i * c + c) - 1 BY <1>1, <1>6 DEF Chunk
    <2>2. i * c + c <= (n - 1) * c
        <3>1. \A m \in Nat : n - 1 = i + 1 + m => (n - 1) * c = i * c + c + m * c /\ m * c >= 0
            BY <1>1, <1>3
        <3>2. n - 2 - i \in Nat /\ n - 1 = i + 1 + (n - 2 - i) BY <1>1, <1>6
        <3> QED BY <1>1, <1>3, <3>1, <3>2
    <2>3. PICK b \in Nat : b = i * c /\ b + c < d
        <3>1. PICK k \in Int : k = (n - 1) * c BY <1>1
        <3> QED BY <1>1, <1>3, <2>2, <3>1
    <2>4. ASSUME e \in b .. (b + c) - 1 PROVE e < d /\ i = q BY <1>1, <1>4, <2>3, <2>4
    <2>5. ASSUME e < d, i = q PROVE e \in b .. (b + c) - 1 BY <1>1, <1>2, <2>3, <2>5
    <2> QED BY <1>1, <1>2, <2>1, <2>3, <2>4, <2>5
<1> QED BY <1>5, <1>6

-----------------------------------------------------------------------------
(* parallel_for_each.  Of every call we know how many chunks it has passed *)
(* to the pool, of every element whether its chunk was worked on, and of   *)
(* the latch how many chunks have returned.                                *)

CallPlace(x) ==
    /\ usage = "tasks" => caller[x] = "idle"
    /\ caller[x] = "idle" => next[x] = 0
    /\ caller[x] = "submit" => distance[x] > 0 /\ next[x] < num_chunks(x)
    /\ caller[x] = "wait" => distance[x] > 0 /\ next[x] = num_chunks(x)
    /\ caller[x] = "done" => next[x] = IF distance[x] > 0 THEN num_chunks(x) ELSE 0

CInv == CallTypes /\ \A x \in Callers : CallPlace(x)

LEMMA CallInit == InitCalls => CInv
<1> SUFFICES ASSUME InitCalls PROVE CInv
    OBVIOUS
<1>1. CallTypes
    <2>1. [e \in 0 .. MaxDistance - 1 |-> 0] \in [0 .. MaxDistance - 1 -> Nat] OBVIOUS
    <2>2. applied \in [Callers -> [0 .. MaxDistance - 1 -> Nat]] BY <2>1 DEF InitCalls
    <2> QED BY <2>2 DEF InitCalls, CallTypes
<1>2. \A x \in Callers : CallPlace(x) BY DEF InitCalls, CallPlace
<1> QED BY <1>1, <1>2 DEF CInv

\* The steps of a call that are none of the pool's.
LEMMA CallOnly ==
    ASSUME CInv, NEW x \in Callers, CallEmpty(x) \/ CallBegin(x) \/ CallReturn(x),
           usage = "ranges", UNCHANGED usage
    PROVE  CInv'
<1>1. /\ UNCHANGED <<vars, distance, chunk_size, next, worked, applied>>
      /\ \A y \in Callers : y # x => caller'[y] = caller[y]
      /\ caller' \in [Callers -> {"idle", "submit", "wait", "done"}]
    BY DEF CallEmpty, CallBegin, CallReturn, CInv, CallTypes
<1>2. done_latch' \in [Callers -> Int]
    <2>1. CASE CallBegin(x)
        <3>1. num_chunks(x) \in Int
            BY <2>1, NumChunks DEF CallBegin, CInv
        <3> QED BY <2>1, <3>1 DEF CallBegin, CInv, CallTypes
    <2> QED BY <2>1 DEF CallEmpty, CallReturn, CInv, CallTypes
<1>3. CallTypes' BY <1>1, <1>2 DEF CInv, CallTypes
<1>4. \A y \in Callers : num_chunks(y)' = num_chunks(y) BY <1>1 DEF num_chunks
<1>5. CallPlace(x)'
    <2>1. CASE CallEmpty(x)
        <3>1. caller'[x] = "done" /\ distance[x] <= 0 /\ caller[x] = "idle"
            BY <2>1 DEF CallEmpty, CInv, CallTypes
        <3>2. distance[x] \in Int BY DEF CInv, CallTypes
        <3> QED BY <1>1, <3>1, <3>2 DEF CallPlace, CInv
    <2>2. CASE CallBegin(x)
        <3>1. caller'[x] = "submit" /\ distance[x] > 0 /\ caller[x] = "idle"
            BY <2>2 DEF CallBegin, CInv, CallTypes
        <3>2. num_chunks(x) > 0 BY <3>1, NumChunks DEF CInv
        <3> QED BY <1>1, <1>4, <3>1, <3>2 DEF CallPlace, CInv
    <2>3. CASE CallReturn(x)
        <3>1. caller'[x] = "done" /\ caller[x] = "wait"
            BY <2>3 DEF CallReturn, CInv, CallTypes
        <3> QED BY <1>1, <1>4, <3>1 DEF CallPlace, CInv
    <2> QED BY <2>1, <2>2, <2>3
<1>6. ASSUME NEW y \in Callers, y # x PROVE CallPlace(y)'
    BY <1>1, <1>4, <1>6 DEF CallPlace, CInv
<1> QED BY <1>3, <1>5, <1>6 DEF CInv

LEMMA CallSubmits ==
    ASSUME CInv, NEW x \in Callers, CallSubmit(x), usage = "ranges", UNCHANGED usage
    PROVE  /\ CInv'
           /\ <<x, next[x]>> \in RootTask /\ x \in Clients
<1>1. /\ distance[x] > 0 /\ next[x] \in 0 .. num_chunks(x) - 1 /\ num_chunks(x) \in 1 .. MaxDistance
      /\ caller[x] = "submit"
    <2>1. distance[x] > 0 /\ next[x] < num_chunks(x) /\ caller[x] = "submit" /\ next[x] \in Nat
        BY DEF CallSubmit, CInv, CallPlace, CallTypes
    <2>2. num_chunks(x) \in 1 .. MaxDistance BY <2>1, NumChunks DEF CInv
    <2> QED BY <2>1, <2>2
<1>2. <<x, next[x]>> \in RootTask /\ x \in Clients
    BY <1>1, ChunkAssumption, CallersAssumption, RangeAssumption
<1>3. /\ UNCHANGED <<distance, chunk_size, done_latch, worked, applied>>
      /\ \A y \in Callers : y # x => caller'[y] = caller[y] /\ next'[y] = next[y]
      /\ caller' \in [Callers -> {"idle", "submit", "wait", "done"}]
      /\ next' \in [Callers -> Nat] /\ next'[x] = next[x] + 1
      /\ caller'[x] = IF next[x] + 1 = num_chunks(x) THEN "wait" ELSE "submit"
    BY <1>1 DEF CallSubmit, CInv, CallTypes
<1>4. \A y \in Callers : num_chunks(y)' = num_chunks(y) BY <1>3 DEF num_chunks
<1>5. CallTypes' BY <1>3 DEF CInv, CallTypes
<1>6. CallPlace(x)' BY <1>1, <1>3, <1>4 DEF CallPlace
<1>7. ASSUME NEW y \in Callers, y # x PROVE CallPlace(y)'
    BY <1>3, <1>4, <1>7 DEF CallPlace, CInv
<1> QED BY <1>2, <1>5, <1>6, <1>7 DEF CInv

\* Steps that leave the places of the calls alone.
LEMMA CallQuiet ==
    ASSUME CInv, UNCHANGED <<usage, caller, distance, chunk_size, next>>,
           worked' \subseteq Workers, done_latch' \in [Callers -> Int],
           applied' \in [Callers -> [0 .. MaxDistance - 1 -> Nat]]
    PROVE  CInv'
<1>1. CallTypes' BY DEF CInv, CallTypes
<1>2. \A y \in Callers : num_chunks(y)' = num_chunks(y) BY DEF num_chunks
<1> QED BY <1>1, <1>2 DEF CInv, CallPlace

Worked(x, i) == ran[<<x, i>>] > 0 \/ \E w \in worked : task[w] = <<x, i>>
Counted(x) == {i \in 0 .. num_chunks(x) - 1 : ran[<<x, i>>] > 0}

\* The tasks of the pool are the chunks passed to it so far.
ChunksOnly == \A t \in submitted : \E x \in Callers : \E i \in 0 .. next[x] - 1 : t = <<x, i>>

AppliedOnce ==
    \A x \in Callers, e \in 0 .. MaxDistance - 1 :
        applied[x][e] = IF e < distance[x] /\ Worked(x, e \div chunk_size[x]) THEN 1 ELSE 0

Latch(x) ==
    distance[x] > 0 =>
        /\ caller[x] # "idle" => done_latch[x] + Cardinality(Counted(x)) = num_chunks(x)
        /\ caller[x] = "done" => done_latch[x] = 0

RInv ==
    usage = "ranges" =>
        /\ ChunksOnly /\ AppliedOnce
        /\ \A w \in worked : pc[w] = "run"
        /\ \A x \in Callers : Latch(x)

\* A chunk in the hands of a worker was passed to the pool, and nobody else has it.
LEMMA ChunkHeld ==
    ASSUME PInv, CInv, RInv, usage = "ranges", NEW w \in Workers, pc[w] = "run"
    PROVE  \E x \in Callers : \E i \in 0 .. num_chunks(x) - 1 :
                /\ task[w] = <<x, i>> /\ <<x, i>> \in Task
                /\ distance[x] > 0 /\ caller[x] # "idle"
                /\ ran[<<x, i>>] = 0
                /\ \A v \in Workers : task[v] = <<x, i>> => v = w
<1>1. task[w] \in Task BY DEF PInv, TInv, TypeOK
<1>2. /\ task[w] \in submitted /\ ran[task[w]] = 0
      /\ \A v \in Workers : task[v] = task[w] => v = w
    BY <1>1 DEF PInv, OInv, Alone
<1>0. PICK x \in Callers : \E i \in 0 .. next[x] - 1 : task[w] = <<x, i>>
    BY <1>2 DEF RInv, ChunksOnly
<1>3. PICK i \in 0 .. next[x] - 1 : task[w] = <<x, i>> BY <1>0
<1>4. next[x] \in Nat /\ next[x] > 0 /\ i \in Nat /\ i < next[x] BY <1>3 DEF CInv, CallTypes
<1>5. caller[x] # "idle" /\ distance[x] > 0 BY <1>4 DEF CInv, CallPlace, CallTypes
<1>6. num_chunks(x) \in Nat BY <1>5, NumChunks DEF CInv
<1>7. next[x] <= num_chunks(x)
    <2>1. caller[x] \in {"submit", "wait", "done"} BY <1>5 DEF CInv, CallTypes
    <2>2. next[x] < num_chunks(x) \/ next[x] = num_chunks(x)
        BY <1>5, <2>1 DEF CInv, CallPlace
    <2> QED BY <1>4, <1>6, <2>2
<1>8. i \in 0 .. num_chunks(x) - 1 BY <1>4, <1>6, <1>7
<1> QED BY <1>1, <1>2, <1>3, <1>5, <1>8

\* The chunk of an element of the range is a task.
LEMMA ChunkOf ==
    ASSUME CInv, NEW x \in Callers, NEW e \in 0 .. MaxDistance - 1, e < distance[x]
    PROVE  /\ distance[x] > 0 /\ e \div chunk_size[x] \in 0 .. num_chunks(x) - 1
           /\ <<x, e \div chunk_size[x]>> \in Task
<1>1. distance[x] > 0 /\ e \in Nat BY DEF CInv, CallTypes
<1>2. PICK d \in Nat \ {0}, c \in Nat \ {0}, n \in 1 .. MaxDistance :
        d = distance[x] /\ c = chunk_size[x] /\ n = num_chunks(x) /\ d <= n * c
    BY <1>1, NumChunks, RangeAssumption DEF CInv
<1>3. PICK q \in Nat : q = e \div c /\ q * c <= e BY <1>1, <1>2, Quotient
<1>4. q < n
    <2>1. \A m \in Nat : q = n + m => q * c = n * c + m * c /\ m * c >= 0 BY <1>2
    <2>2. q * c \in Nat /\ n * c \in Nat BY <1>2
    <2>3. ASSUME q >= n PROVE FALSE
        <3>1. q - n \in Nat /\ q = n + (q - n) BY <1>2, <2>3
        <3> QED BY <1>1, <1>2, <1>3, <2>1, <2>2, <3>1
    <2> QED BY <1>2, <2>3
<1>5. q \in 0 .. MaxDistance - 1 BY <1>2, <1>4, RangeAssumption
<1> QED BY <1>1, <1>2, <1>3, <1>4, <1>5, ChunkAssumption DEF RootTask

\* A step that finishes no chunk and changes no applied and no latch.
LEMMA RangeQuiet ==
    ASSUME CInv, RInv, usage = "ranges",
           UNCHANGED <<usage, distance, chunk_size, done_latch, worked, applied, ran>>,
           \A w \in worked : pc'[w] = pc[w] /\ task'[w] = task[w],
           \A x \in Callers : \/ caller'[x] = caller[x]
                              \/ caller[x] # "idle" /\ caller'[x] \notin {"idle", "done"},
           ChunksOnly'
    PROVE  RInv'
<1>1. \A x, i : Worked(x, i)' <=> Worked(x, i) BY DEF Worked
<1>2. AppliedOnce' BY <1>1 DEF AppliedOnce, RInv
<1>3. \A x \in Callers : num_chunks(x)' = num_chunks(x) BY DEF num_chunks
<1>4. \A x \in Callers : Counted(x)' = Counted(x) BY <1>3 DEF Counted
<1>5. \A x \in Callers : Latch(x)' BY <1>3, <1>4 DEF Latch, RInv
<1> QED BY <1>2, <1>5 DEF RInv

LEMMA RangeBegin ==
    ASSUME PInv, CInv, RInv, NEW x \in Callers, usage = "ranges", UNCHANGED usage,
           CallEmpty(x) \/ CallBegin(x) \/ CallReturn(x)
    PROVE  RInv'
<1>1. /\ UNCHANGED <<vars, distance, chunk_size, next, worked, applied>>
      /\ \A y \in Callers : y # x => caller'[y] = caller[y] /\ done_latch'[y] = done_latch[y]
    BY DEF CallEmpty, CallBegin, CallReturn, CInv, CallTypes
<1>2. UNCHANGED <<ran, pc, task, submitted>> BY <1>1 DEF vars, worker, history
<1>3. ChunksOnly' BY <1>1, <1>2 DEF ChunksOnly, RInv
<1>4. \A y, i : Worked(y, i)' <=> Worked(y, i) BY <1>1, <1>2 DEF Worked
<1>5. AppliedOnce' BY <1>1, <1>4 DEF AppliedOnce, RInv
<1>6. \A y \in Callers : num_chunks(y)' = num_chunks(y) BY <1>1 DEF num_chunks
<1>7. \A y \in Callers : Counted(y)' = Counted(y) BY <1>2, <1>6 DEF Counted
<1>8. ASSUME NEW y \in Callers, y # x PROVE Latch(y)'
    BY <1>1, <1>6, <1>7, <1>8 DEF Latch, RInv
<1>9. Latch(x)'
    <2>1. CASE CallEmpty(x)
        <3>1. distance'[x] <= 0 /\ distance'[x] \in Int
            BY <1>1, <2>1 DEF CallEmpty, CInv, CallTypes
        <3> QED BY <3>1 DEF Latch
    <2>2. CASE CallBegin(x)
        <3>1. caller'[x] = "submit" /\ done_latch'[x] = num_chunks(x) /\ caller[x] = "idle"
              /\ distance[x] > 0
            BY <2>2 DEF CallBegin, CInv, CallTypes
        <3>2. next[x] = 0 BY <3>1 DEF CInv, CallPlace
        <3>3. num_chunks(x) \in 1 .. MaxDistance BY <3>1, NumChunks DEF CInv
        <3>4. ASSUME NEW i \in 0 .. num_chunks(x) - 1, ran[<<x, i>>] > 0 PROVE FALSE
            <4>1. <<x, i>> \in Task
                BY <3>3, ChunkAssumption, RangeAssumption DEF RootTask
            <4>2. <<x, i>> \in submitted BY <3>4, <4>1 DEF PInv, OInv, Alone
            <4>3. PICK y \in Callers : \E k \in 0 .. next[y] - 1 : <<x, i>> = <<y, k>>
                BY <4>2 DEF RInv, ChunksOnly
            <4>4. y = x BY <4>3
            <4> QED BY <3>2, <4>3, <4>4
        <3>5. Counted(x) = {} BY <3>4 DEF Counted
        <3>6. Cardinality(Counted(x)) = 0 BY <3>5, FS_EmptySet
        <3> QED BY <1>6, <1>7, <3>1, <3>3, <3>6 DEF Latch
    <2>3. CASE CallReturn(x)
        <3>1. caller'[x] = "done" /\ done_latch[x] = 0 /\ caller[x] = "wait" /\ UNCHANGED done_latch
            BY <2>3 DEF CallReturn, CInv, CallTypes
        <3> QED BY <1>1, <1>6, <1>7, <3>1 DEF Latch, RInv
    <2> QED BY <2>1, <2>2, <2>3
<1> QED BY <1>1, <1>2, <1>3, <1>5, <1>8, <1>9 DEF RInv

LEMMA RangeSubmit ==
    ASSUME PInv, CInv, RInv, NEW x \in Callers, usage = "ranges", UNCHANGED usage, CallSubmit(x)
    PROVE  RInv'
<1>1. /\ submitted' = submitted \cup {<<x, next[x]>>} /\ UNCHANGED <<ran, pc, task>>
      /\ UNCHANGED <<distance, chunk_size, done_latch, worked, applied>>
    BY DEF CallSubmit, ExecuteGlobal, worker
<1>2. /\ next'[x] = next[x] + 1 /\ next[x] \in Nat
      /\ \A y \in Callers : y # x => next'[y] = next[y] /\ caller'[y] = caller[y]
      /\ caller[x] = "submit" /\ caller'[x] \in {"submit", "wait"}
    BY DEF CallSubmit, CInv, CallTypes
<1>3. ChunksOnly'
    <2> SUFFICES ASSUME NEW t \in submitted'
                 PROVE  \E y \in Callers : \E i \in 0 .. next'[y] - 1 : t = <<y, i>>
        BY DEF ChunksOnly
    <2>1. CASE t \in submitted
        <3>1. PICK y \in Callers : \E i \in 0 .. next[y] - 1 : t = <<y, i>>
            BY <2>1 DEF RInv, ChunksOnly
        <3>2. PICK i \in 0 .. next[y] - 1 : t = <<y, i>> BY <3>1
        <3>3. i \in 0 .. next'[y] - 1 BY <1>2, <3>2
        <3> QED BY <3>2, <3>3
    <2>2. CASE t = <<x, next[x]>>
        <3>1. next[x] \in 0 .. next'[x] - 1 BY <1>2
        <3> QED BY <2>2, <3>1
    <2> QED BY <1>1, <2>1, <2>2
<1> QED BY <1>1, <1>2, <1>3, RangeQuiet

\* std::for_each over one chunk: each of its elements had not been visited before.
LEMMA RangeForEach ==
    ASSUME PInv, CInv, RInv, NEW w \in Workers, usage = "ranges", UNCHANGED usage, ForEach(w)
    PROVE  CInv' /\ RInv'
<1>0. /\ pc[w] = "run" /\ w \notin worked /\ worked' = worked \cup {w}
      /\ UNCHANGED <<vars, call>>
    BY DEF ForEach
<1>1. UNCHANGED <<ran, pc, task, submitted>> BY <1>0 DEF vars, worker, history
<1>2. UNCHANGED <<caller, distance, chunk_size, next, done_latch>> BY <1>0 DEF call
<1>3. PICK x \in Callers : \E i \in 0 .. num_chunks(x) - 1 :
                /\ task[w] = <<x, i>> /\ <<x, i>> \in Task
                /\ distance[x] > 0 /\ caller[x] # "idle"
                /\ ran[<<x, i>>] = 0
                /\ \A v \in Workers : task[v] = <<x, i>> => v = w
    BY <1>0, ChunkHeld
<1>4. PICK i \in 0 .. num_chunks(x) - 1 :
                /\ task[w] = <<x, i>> /\ <<x, i>> \in Task
                /\ distance[x] > 0 /\ caller[x] # "idle"
                /\ ran[<<x, i>>] = 0
                /\ \A v \in Workers : task[v] = <<x, i>> => v = w
    BY <1>3
<1>5. task[w][1] = x /\ task[w][2] = i BY <1>4
<1>6. applied' = [applied EXCEPT ![x] =
                [e \in DOMAIN @ |-> @[e] + IF e \in Chunk(x, i) THEN 1 ELSE 0]]
    BY <1>5 DEF ForEach
<1>7. applied \in [Callers -> [0 .. MaxDistance - 1 -> Nat]] BY DEF CInv, CallTypes
<1>8. /\ applied' \in [Callers -> [0 .. MaxDistance - 1 -> Nat]]
      /\ \A y \in Callers : y # x => applied'[y] = applied[y]
      /\ \A e \in 0 .. MaxDistance - 1 :
            applied'[x][e] = applied[x][e] + IF e \in Chunk(x, i) THEN 1 ELSE 0
    <2> DEFINE f == [e \in 0 .. MaxDistance - 1 |->
                        applied[x][e] + IF e \in Chunk(x, i) THEN 1 ELSE 0]
    <2>1. applied[x] \in [0 .. MaxDistance - 1 -> Nat] BY <1>7
    <2>0. \A k \in Nat : k + 1 \in Nat /\ k + 0 \in Nat OBVIOUS
    <2>2. f \in [0 .. MaxDistance - 1 -> Nat]
        <3>1. ASSUME NEW e \in 0 .. MaxDistance - 1
              PROVE  applied[x][e] + (IF e \in Chunk(x, i) THEN 1 ELSE 0) \in Nat
            <4>1. applied[x][e] \in Nat BY <2>1
            <4>2. CASE e \in Chunk(x, i) BY <2>0, <4>1, <4>2
            <4>3. CASE e \notin Chunk(x, i) BY <2>0, <4>1, <4>3
            <4> QED BY <4>2, <4>3
        <3> QED BY <3>1
    <2>3. applied' = [applied EXCEPT ![x] = f] BY <1>6, <2>1
    <2>4. \A e \in 0 .. MaxDistance - 1 :
            f[e] = applied[x][e] + IF e \in Chunk(x, i) THEN 1 ELSE 0
        OBVIOUS
    <2> HIDE DEF f
    <2> QED BY <1>7, <2>2, <2>3, <2>4
<1>9. CInv'
    <2>1. worked' \subseteq Workers BY <1>0 DEF CInv, CallTypes
    <2>2. done_latch' \in [Callers -> Int] BY <1>2 DEF CInv, CallTypes
    <2> QED BY <1>2, <1>8, <2>1, <2>2, CallQuiet
<1>10. \A y, k : Worked(y, k)' <=> Worked(y, k) \/ (y = x /\ k = i)
    BY <1>0, <1>1, <1>4 DEF Worked
<1>11. ~Worked(x, i)
    <2>1. worked \subseteq Workers BY DEF CInv, CallTypes
    <2> QED BY <1>0, <1>4, <2>1 DEF Worked
<1>12. ASSUME NEW y \in Callers, NEW e \in 0 .. MaxDistance - 1
       PROVE  applied'[y][e] =
                IF e < distance'[y] /\ Worked(y, e \div chunk_size[y])' THEN 1 ELSE 0
    <2>0. applied[y][e] = IF e < distance[y] /\ Worked(y, e \div chunk_size[y]) THEN 1 ELSE 0
        BY DEF RInv, AppliedOnce
    <2>1. e \div chunk_size'[y] = e \div chunk_size[y] /\ distance'[y] = distance[y] BY <1>2
    <2>2. CASE y # x
        <3>1. Worked(y, e \div chunk_size[y])' <=> Worked(y, e \div chunk_size[y])
            BY <1>2, <1>10, <2>2
        <3> QED BY <1>8, <2>0, <2>1, <2>2, <3>1
    <2>3. CASE y = x
        <3>1. e \in Chunk(x, i) <=> e < distance[x] /\ e \div chunk_size[x] = i
            <4>1. e \in Nat BY RangeAssumption
            <4> QED BY <1>4, <4>1, ChunksCut DEF CInv
        <3>2. Worked(x, e \div chunk_size[x])' <=>
                    Worked(x, e \div chunk_size[x]) \/ e \div chunk_size[x] = i
            BY <1>2, <1>10
        <3>3. e \div chunk_size[x] = i => ~Worked(x, e \div chunk_size[x]) BY <1>11
        <3>4. CASE e < distance[x] /\ e \div chunk_size[x] = i
            <4>1. applied[x][e] = 0 BY <2>0, <2>3, <3>3, <3>4
            <4>2. applied'[x][e] = 1 BY <1>8, <3>1, <3>4, <4>1
            <4> QED BY <2>1, <2>3, <3>2, <3>4, <4>2
        <3>5. CASE ~(e < distance[x] /\ e \div chunk_size[x] = i)
            <4>1. applied'[x][e] = applied[x][e]
                <5>1. applied[x][e] \in Nat BY <1>7
                <5> QED BY <1>8, <3>1, <3>5, <5>1
            <4> QED BY <2>0, <2>1, <2>3, <3>2, <3>5, <4>1
        <3> QED BY <3>4, <3>5
    <2> QED BY <2>2, <2>3
<1>13. AppliedOnce' BY <1>2, <1>12 DEF AppliedOnce
<1>14. ChunksOnly' BY <1>1, <1>2 DEF ChunksOnly, RInv
<1>15. \A y \in Callers : num_chunks(y)' = num_chunks(y) BY <1>2 DEF num_chunks
<1>16. \A y \in Callers : Counted(y)' = Counted(y) BY <1>1, <1>15 DEF Counted
<1>17. \A y \in Callers : Latch(y)' BY <1>2, <1>15, <1>16 DEF Latch, RInv
<1> QED BY <1>0, <1>1, <1>9, <1>13, <1>14, <1>17 DEF RInv

\* count_down(): one more chunk is counted, and the latch is one less.
LEMMA RangeCountDown ==
    ASSUME PInv, CInv, RInv, NEW w \in Workers, usage = "ranges", UNCHANGED usage, CountDown(w)
    PROVE  CInv' /\ RInv'
<1>0. /\ w \in worked /\ Finish(w) /\ worked' = worked \ {w} /\ pc[w] = "run"
      /\ UNCHANGED <<caller, distance, chunk_size, next, applied>>
    BY DEF CountDown, Finish
<1>3. PICK x \in Callers : \E i \in 0 .. num_chunks(x) - 1 :
                /\ task[w] = <<x, i>> /\ <<x, i>> \in Task
                /\ distance[x] > 0 /\ caller[x] # "idle"
                /\ ran[<<x, i>>] = 0
                /\ \A v \in Workers : task[v] = <<x, i>> => v = w
    BY <1>0, ChunkHeld
<1>4. PICK i \in 0 .. num_chunks(x) - 1 :
                /\ task[w] = <<x, i>> /\ <<x, i>> \in Task
                /\ distance[x] > 0 /\ caller[x] # "idle"
                /\ ran[<<x, i>>] = 0
                /\ \A v \in Workers : task[v] = <<x, i>> => v = w
    BY <1>3
<1>5. /\ \A v \in Workers : v # w => pc'[v] = pc[v] /\ task'[v] = task[v]
      /\ UNCHANGED submitted /\ task'[w] = NoTask
    BY <1>0 DEF Finish, Goto, PInv, TInv, TypeOK
<1>6. /\ ran' = [ran EXCEPT ![<<x, i>>] = @ + 1] /\ ran \in [Task -> Nat]
      /\ done_latch' = [done_latch EXCEPT ![x] = @ - 1] /\ done_latch \in [Callers -> Int]
    <2>1. task[w][1] = x BY <1>4
    <2> QED BY <1>0, <1>4, <2>1 DEF Finish, CountDown, PInv, TInv, TypeOK, CInv, CallTypes
<1>7. /\ ran'[<<x, i>>] = 1
      /\ \A t \in Task : t # <<x, i>> => ran'[t] = ran[t]
      /\ done_latch'[x] = done_latch[x] - 1 /\ done_latch' \in [Callers -> Int]
      /\ \A y \in Callers : y # x => done_latch'[y] = done_latch[y]
    BY <1>4, <1>6
<1>8. worked \subseteq Workers BY DEF CInv, CallTypes
<1>9. CInv'
    <2>1. worked' \subseteq Workers BY <1>0, <1>8
    <2>2. applied' \in [Callers -> [0 .. MaxDistance - 1 -> Nat]] BY <1>0 DEF CInv, CallTypes
    <2> QED BY <1>0, <1>7, <2>1, <2>2, CallQuiet
<1>10. ASSUME NEW y, NEW k, <<y, k>> \in Task PROVE Worked(y, k)' <=> Worked(y, k)
    <2>1. CASE <<y, k>> = <<x, i>>
        BY <1>0, <1>4, <1>7, <2>1 DEF Worked
    <2>2. CASE <<y, k>> # <<x, i>>
        <3>1. ran'[<<y, k>>] = ran[<<y, k>>] BY <1>7, <1>10, <2>2
        <3>2. (\E v \in worked' : task'[v] = <<y, k>>) <=> (\E v \in worked : task[v] = <<y, k>>)
            BY <1>0, <1>4, <1>5, <1>8, <2>2
        <3> QED BY <3>1, <3>2 DEF Worked
    <2> QED BY <2>1, <2>2
<1>11. AppliedOnce'
    <2> SUFFICES ASSUME NEW y \in Callers, NEW e \in 0 .. MaxDistance - 1
                 PROVE  applied'[y][e] = IF e < distance'[y] /\ Worked(y, e \div chunk_size[y])'
                                         THEN 1 ELSE 0
        BY DEF AppliedOnce
    <2>1. applied[y][e] = IF e < distance[y] /\ Worked(y, e \div chunk_size[y]) THEN 1 ELSE 0
        BY DEF RInv, AppliedOnce
    <2>2. e < distance[y] => (Worked(y, e \div chunk_size[y])' <=> Worked(y, e \div chunk_size[y]))
        <3>1. PICK k : k = e \div chunk_size[y] OBVIOUS
        <3>2. e < distance[y] => <<y, k>> \in Task BY <3>1, ChunkOf
        <3>3. e < distance[y] => (Worked(y, k)' <=> Worked(y, k)) BY <1>10, <3>2
        <3>4. k = e \div chunk_size'[y] BY <1>0, <3>1
        <3> QED BY <3>1, <3>3, <3>4 DEF Worked
    <2> QED BY <1>0, <2>1, <2>2
<1>12. ChunksOnly' BY <1>0, <1>5 DEF ChunksOnly, RInv
<1>13. \A y \in Callers : num_chunks(y)' = num_chunks(y) BY <1>0 DEF num_chunks
<1>c. \A y \in Callers : distance[y] > 0 => num_chunks(y) \in 1 .. MaxDistance
    BY NumChunks DEF CInv
<1>t. ASSUME NEW y \in Callers, distance[y] > 0, NEW k \in 0 .. num_chunks(y) - 1
      PROVE  <<y, k>> \in Task
    <2>1. k \in 0 .. MaxDistance - 1 BY <1>c, <1>t, RangeAssumption
    <2> QED BY <2>1, ChunkAssumption DEF RootTask
<1>14. ASSUME NEW y \in Callers, y # x PROVE Latch(y)'
    <2>1. ASSUME distance[y] > 0 PROVE Counted(y)' = Counted(y)
        <3>1. \A k \in 0 .. num_chunks(y) - 1 : ran'[<<y, k>>] = ran[<<y, k>>]
            BY <1>7, <1>14, <1>t, <2>1
        <3> QED BY <1>13, <3>1 DEF Counted
    <2> QED BY <1>0, <1>7, <1>13, <1>14, <2>1 DEF Latch, RInv
<1>15. Latch(x)'
    <2>1. Counted(x)' = Counted(x) \cup {i} /\ i \notin Counted(x)
        <3>1. \A k \in 0 .. num_chunks(x) - 1 : k # i => ran'[<<x, k>>] = ran[<<x, k>>]
            BY <1>4, <1>7, <1>t
        <3> QED BY <1>4, <1>7, <1>13, <3>1 DEF Counted
    <2>2. /\ IsFiniteSet(0 .. num_chunks(x) - 1) /\ num_chunks(x) \in Nat
          /\ Cardinality(0 .. num_chunks(x) - 1) = num_chunks(x)
        <3>1. PICK n \in Nat \ {0} : n = num_chunks(x) BY <1>4, <1>c, RangeAssumption
        <3>2. IsFiniteSet(0 .. n - 1) /\ Cardinality(0 .. n - 1) = IF 0 > n - 1 THEN 0 ELSE n - 1 - 0 + 1
            BY FS_Interval
        <3> QED BY <3>1, <3>2
    <2>3. IsFiniteSet(Counted(x)) /\ IsFiniteSet(Counted(x)')
        <3>1. Counted(x) \in SUBSET (0 .. num_chunks(x) - 1) BY DEF Counted
        <3>2. Counted(x)' \in SUBSET (0 .. num_chunks(x) - 1) BY <2>1, <3>1
        <3> QED BY <2>2, <3>1, <3>2, FS_Subset
    <2>4. Cardinality(Counted(x)') = Cardinality(Counted(x)) + 1
        BY <2>1, <2>3, FS_AddElement
    <2>5. Cardinality(Counted(x)) \in Nat /\ Cardinality(Counted(x)') <= num_chunks(x)
        <3>1. Counted(x)' \in SUBSET (0 .. num_chunks(x) - 1) BY <1>13 DEF Counted
        <3> QED BY <2>2, <2>3, <3>1, FS_Subset, FS_CardinalityType
    <2>6. /\ done_latch[x] + Cardinality(Counted(x)) = num_chunks(x) /\ done_latch[x] \in Int
          /\ caller[x] = "done" => done_latch[x] = 0
        BY <1>4, <1>6 DEF RInv, Latch
    <2>7. caller[x] # "done" BY <2>2, <2>4, <2>5, <2>6
    <2>8. done_latch'[x] + Cardinality(Counted(x)') = num_chunks(x)
        BY <1>7, <2>2, <2>4, <2>5, <2>6
    <2> QED BY <1>0, <1>13, <2>7, <2>8 DEF Latch
<1>16. \A v \in worked' : pc'[v] = "run" BY <1>0, <1>5, <1>8 DEF RInv
<1> QED BY <1>9, <1>11, <1>12, <1>14, <1>15, <1>16 DEF RInv

\* The pool's own steps touch no worker that is in the body of a task.
LEMMA RangePool ==
    ASSUME PInv, CInv, RInv, PoolStep, usage = "ranges", UNCHANGED <<usage, call, worked, applied>>
    PROVE  CInv' /\ RInv'
<1>1. UNCHANGED <<caller, distance, chunk_size, next, done_latch>> BY DEF call
<1>2. CInv' BY <1>1, CallQuiet DEF CInv, CallTypes
<1>3. UNCHANGED <<ran, submitted>>
    <2>1. CASE Spawn BY <2>1 DEF Spawn, history
    <2>2. ASSUME NEW x \in Callers, ExecuteNotify(x) PROVE UNCHANGED <<ran, submitted>>
        BY <2>2 DEF ExecuteNotify, history
    <2>3. ASSUME NEW w \in Workers, Loop(w) PROVE UNCHANGED <<ran, submitted>>
        BY <2>3 DEF Loop, LoopEnd, TakeLocal, LocalEmpty, TakeGlobal, GlobalEmpty, Steal, StealNext,
                    WaitBlocks, Sleep, WaitReturns, history
    <2>4. ASSUME NEW w \in Workers, SpuriousWakeup(w) PROVE UNCHANGED <<ran, submitted>>
        BY <2>4 DEF SpuriousWakeup, history
    <2> QED BY <2>1, <2>2, <2>3, <2>4 DEF PoolStep
<1>4. ASSUME NEW v \in worked PROVE pc'[v] = pc[v] /\ task'[v] = task[v]
    <2>0. v \in Workers /\ pc[v] = "run" BY DEF RInv, CInv, CallTypes
    <2>t. pc \in [Workers -> Label] /\ task \in [Workers -> Task \cup {NoTask}]
        BY DEF PInv, TInv, TypeOK
    <2>1. CASE Spawn
        <3>1. spawned \in Workers /\ pc[spawned] = "unborn"
            BY <2>1, WorkersFacts DEF Spawn, PInv, TInv, TypeOK, Unborn
        <3> QED BY <2>0, <2>t, <2>1, <3>1 DEF Spawn, Goto
    <2>2. ASSUME NEW x \in Callers, ExecuteNotify(x) PROVE UNCHANGED <<pc, task>>
        BY <2>2 DEF ExecuteNotify, worker
    <2>3. ASSUME NEW w \in Workers, Loop(w) PROVE pc'[v] = pc[v] /\ task'[v] = task[v]
        <3>1. pc[w] # "run" BY <2>3 DEF Loop, LoopEnd, TakeLocal, LocalEmpty, TakeGlobal,
                    GlobalEmpty, Steal, StealNext, WaitBlocks, Sleep, WaitReturns
        <3>2. w # v BY <2>0, <3>1
        <3> QED BY <2>0, <2>t, <2>3, <3>2 DEF Loop, LoopEnd, TakeLocal, LocalEmpty, TakeGlobal,
                    GlobalEmpty, Steal, StealNext, WaitBlocks, Sleep, WaitReturns, Goto
    <2>4. ASSUME NEW w \in Workers, SpuriousWakeup(w) PROVE UNCHANGED <<pc, task>>
        BY <2>4 DEF SpuriousWakeup, worker
    <2> QED BY <2>1, <2>2, <2>3, <2>4 DEF PoolStep
<1>5. ChunksOnly' BY <1>1, <1>3 DEF ChunksOnly, RInv
<1> QED BY <1>1, <1>2, <1>3, <1>4, <1>5, RangeQuiet

LEMMA CallsNext ==
    ASSUME PInv, CInv, RInv, [NextCalls]_allVars
    PROVE  PInv' /\ CInv' /\ RInv'
<1>1. CASE UNCHANGED allVars
    <2>1. UNCHANGED <<vars, usage, caller, distance, chunk_size, next, done_latch, worked, applied>>
        BY <1>1 DEF allVars, call
    <2>2. PInv' BY <2>1, PoolStep_PInv
    <2>3. CInv' BY <2>1, CallQuiet DEF CInv, CallTypes
    <2>4. UNCHANGED <<pc, task, ran, submitted>> BY <2>1 DEF vars, worker, history
    <2>5. usage = "ranges" => ChunksOnly' BY <2>1, <2>4 DEF RInv, ChunksOnly
    <2>6. RInv'
        <3>1. CASE usage = "ranges" BY <2>1, <2>4, <2>5, <3>1, RangeQuiet
        <3>2. CASE usage # "ranges" BY <2>1, <3>2 DEF RInv
        <3> QED BY <3>1, <3>2
    <2> QED BY <2>2, <2>3, <2>6
<1>2. CASE usage = "tasks" /\ Next /\ UNCHANGED <<usage, call, worked, applied>>
    <2>1. PInv'
        <3>1. PoolNext BY <1>2, ForksAssumption DEF Next, PoolNext
        <3> QED BY <3>1, PoolStep_PInv
    <2>2. UNCHANGED <<caller, distance, chunk_size, next, done_latch>> BY <1>2 DEF call
    <2>3. CInv' BY <1>2, <2>2, CallQuiet DEF CInv, CallTypes
    <2> QED BY <1>2, <2>1, <2>3 DEF RInv
<1>3. CASE usage = "ranges" /\ PoolStep /\ UNCHANGED <<usage, call, worked, applied>>
    <2>1. PoolNext BY <1>3, CallersAssumption DEF PoolStep, PoolNext
    <2> QED BY <1>3, <2>1, PoolStep_PInv, RangePool
<1>4. ASSUME NEW x \in Callers, usage = "ranges", UNCHANGED usage, Call(x)
      PROVE  PInv' /\ CInv' /\ RInv'
    <2>1. CASE CallEmpty(x) \/ CallBegin(x) \/ CallReturn(x)
        <3>1. UNCHANGED vars BY <2>1 DEF CallEmpty, CallBegin, CallReturn
        <3> QED BY <1>4, <2>1, <3>1, PoolStep_PInv, CallOnly, RangeBegin
    <2>2. CASE CallSubmit(x)
        <3>1. CInv' /\ <<x, next[x]>> \in RootTask /\ x \in Clients BY <1>4, <2>2, CallSubmits
        <3>2. PoolNext BY <2>2, <3>1 DEF CallSubmit, Execute, PoolNext
        <3> QED BY <1>4, <2>2, <3>1, <3>2, PoolStep_PInv, RangeSubmit
    <2> QED BY <1>4, <2>1, <2>2 DEF Call
<1>5. ASSUME NEW w \in Workers, usage = "ranges", UNCHANGED usage, ForEach(w) \/ CountDown(w)
      PROVE  PInv' /\ CInv' /\ RInv'
    <2>1. CASE ForEach(w)
        <3>1. UNCHANGED vars BY <2>1 DEF ForEach
        <3> QED BY <1>5, <2>1, <3>1, PoolStep_PInv, RangeForEach
    <2>2. CASE CountDown(w)
        <3>1. PoolNext BY <2>2 DEF CountDown, PoolNext
        <3> QED BY <1>5, <2>2, <3>1, PoolStep_PInv, RangeCountDown
    <2> QED BY <1>5, <2>1, <2>2
<1> QED BY <1>1, <1>2, <1>3, <1>4, <1>5 DEF NextCalls

\* The inductive invariant of the pool and of the calls of parallel_for_each.
THEOREM CallsInv == SpecCalls => [](PInv /\ CInv /\ RInv)
<1>1. InitCalls => PInv /\ CInv /\ RInv
    <2> SUFFICES ASSUME InitCalls PROVE PInv /\ CInv /\ RInv
        OBVIOUS
    <2>1. PInv BY TypeInit, WaitInit, PlaceInit DEF PInv, InitCalls
    <2>2. CInv BY CallInit
    <2>3. submitted = {} /\ worked = {} /\ \A t \in Task : ran[t] = 0
        BY DEF InitCalls, Init
    <2>4. AppliedOnce
        <3> SUFFICES ASSUME NEW x \in Callers, NEW e \in 0 .. MaxDistance - 1
                     PROVE  applied[x][e] =
                                IF e < distance[x] /\ Worked(x, e \div chunk_size[x]) THEN 1 ELSE 0
            BY DEF AppliedOnce
        <3>1. applied[x][e] = 0 BY DEF InitCalls
        <3>2. e < distance[x] => ~Worked(x, e \div chunk_size[x])
            BY <2>2, <2>3, ChunkOf DEF Worked
        <3> QED BY <3>1, <3>2
    <2>5. ChunksOnly /\ \A x \in Callers : Latch(x)
        BY <2>3 DEF InitCalls, ChunksOnly, Latch
    <2> QED BY <2>1, <2>2, <2>3, <2>4, <2>5 DEF RInv
<1>2. PInv /\ CInv /\ RInv /\ [NextCalls]_allVars => (PInv /\ CInv /\ RInv)'
    BY CallsNext
<1> QED BY <1>1, <1>2, PTL DEF SpecCalls

\* When parallel_for_each returns, f was called once on each element of the range and on
\* nothing else, for every length, every chunk size and any number of workers and callers.
\* (parallel_for_each, the lambda it passes to execute, std::latch)
THEOREM ElementsOnce == SpecCalls => []EachElementOnce
<1>1. PInv /\ CInv /\ RInv => EachElementOnce
    <2> SUFFICES ASSUME PInv, CInv, RInv, NEW x \in Callers, caller[x] = "done",
                        NEW e \in DOMAIN applied[x]
                 PROVE  applied[x][e] = IF e < distance[x] THEN 1 ELSE 0
        BY DEF EachElementOnce
    <2>1. usage = "ranges" BY DEF CInv, CallPlace, CallTypes
    <2>2. e \in 0 .. MaxDistance - 1 BY DEF CInv, CallTypes
    <2>3. applied[x][e] = IF e < distance[x] /\ Worked(x, e \div chunk_size[x]) THEN 1 ELSE 0
        BY <2>1, <2>2 DEF RInv, AppliedOnce
    <2>4. ASSUME e < distance[x] PROVE Worked(x, e \div chunk_size[x])
        <3>1. distance[x] > 0 /\ e \div chunk_size[x] \in 0 .. num_chunks(x) - 1
            BY <2>2, <2>4, ChunkOf
        <3>2. PICK n \in Nat \ {0} : n = num_chunks(x)
            BY <3>1, NumChunks, RangeAssumption DEF CInv
        <3>3. IsFiniteSet(0 .. n - 1) /\ Cardinality(0 .. n - 1) = IF 0 > n - 1 THEN 0 ELSE n - 1 - 0 + 1
            BY FS_Interval
        <3>4. Counted(x) \in SUBSET (0 .. n - 1) BY <3>2 DEF Counted
        <3>5. Cardinality(Counted(x)) = n
            <4>1. done_latch[x] = 0 /\ done_latch[x] + Cardinality(Counted(x)) = n
                BY <2>1, <3>1, <3>2 DEF RInv, Latch
            <4>2. Cardinality(Counted(x)) \in Nat BY <3>3, <3>4, FS_Subset, FS_CardinalityType
            <4> QED BY <4>1, <4>2
        <3>6. Counted(x) = 0 .. n - 1
            <4>1. Cardinality(0 .. n - 1) = n BY <3>2, <3>3
            <4> QED BY <3>3, <3>4, <3>5, <4>1, FS_Subset
        <3> QED BY <3>1, <3>2, <3>6 DEF Counted, Worked
    <2> QED BY <2>3, <2>4
<1> QED BY <1>1, CallsInv, PTL

\* The pool's promises hold also while parallel_for_each uses it.
THEOREM CallsKeepPool == SpecCalls => [](TypeOK /\ OnePlace /\ NoLostWakeup)
<1>1. PInv => TypeOK /\ OnePlace /\ NoLostWakeup
    BY CountPlaces, NothingLeft DEF PInv, TInv, OnePlace
<1> QED BY <1>1, CallsInv, PTL
=============================================================================
