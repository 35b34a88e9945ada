--------------------------- MODULE ParallelForEach ---------------------------
(***************************************************************************)
(* modern_cpp_core/patterns/parallel_algorithms.hpp: parallel_for_each     *)
(* (and parallel_transform, which differs in what it applies only), called *)
(* by the clients of a ThreadPool.  A call cuts its range into chunks,     *)
(* passes each to execute() and waits for a latch that every chunk counts  *)
(* down.  The caller keeps the pool alive and is no worker of a pool, as   *)
(* the header's warning asks.                                              *)
(*                                                                         *)
(* A behaviour is one of a pool whose clients submit tasks of their own    *)
(* and that is destroyed, or of one that parallel_for_each uses.           *)
(***************************************************************************)
EXTENDS ThreadPool

CONSTANTS
    Callers,        \* the clients that call parallel_for_each
    MaxDistance,    \* bound: std::distance(first, last) of a call
    ChunkSizes,     \* the chunk_size arguments considered
    Modulus         \* 2^64, the width of std::size_t

ASSUME CallersAssumption == Callers \subseteq Clients \ Foreign
ASSUME RangeAssumption ==
    /\ MaxDistance \in Nat
    /\ ChunkSizes \subseteq 1 .. Modulus - MaxDistance
    /\ Modulus \in Nat

\* The task <<x, i>> is chunk i of the call by x; its body calls no execute().
ASSUME ChunkAssumption ==
    \A x \in Callers, i \in 0 .. MaxDistance - 1 : <<x, i>> \in RootTask /\ Forks[<<x, i>>] = <<>>

VARIABLES
    usage,          \* what the pool is used for
    caller,         \* place of each client in parallel_for_each
    distance, chunk_size,
    next,           \* i of the submitting loop
    done_latch,
    worked,         \* workers past the std::for_each of their chunk
    applied         \* history: how often f was called on each element of the range

call == <<caller, distance, chunk_size, next, done_latch>>
allVars == <<vars, usage, call, worked, applied>>

InitCalls ==
    /\ Init
    /\ usage \in {"tasks", "ranges"}
    /\ caller = [x \in Callers |-> "idle"]
    /\ distance \in [Callers -> -1 .. MaxDistance]
    /\ chunk_size \in [Callers -> ChunkSizes]
    /\ usage = "tasks" => \A x \in Callers : distance[x] = 0 /\ \A n \in ChunkSizes : chunk_size[x] <= n
    /\ next = [x \in Callers |-> 0]
    /\ done_latch = [x \in Callers |-> 0]
    /\ worked = {}
    /\ applied = [x \in Callers |-> [e \in 0 .. MaxDistance - 1 |-> 0]]

num_chunks(x) == ((distance[x] + chunk_size[x] - 1) % Modulus) \div chunk_size[x]

\* The elements from chunk_start up to, not including, chunk_end.
Chunk(x, i) ==
    LET chunk_start == i * chunk_size[x]
        chunk_end == IF i = num_chunks(x) - 1 THEN distance[x]
                     ELSE chunk_start + chunk_size[x]
    IN  chunk_start .. chunk_end - 1

-----------------------------------------------------------------------------
CallEmpty(x) ==
    /\ life = "alive"
    /\ caller[x] = "idle" /\ distance[x] <= 0
    /\ caller' = [caller EXCEPT ![x] = "done"]
    /\ UNCHANGED <<vars, distance, chunk_size, next, done_latch, worked, applied>>

\* Mutant: a latch that counts the caller too, which does not count down.
CallBeginExtra(x) ==
    /\ life = "alive"
    /\ caller[x] = "idle" /\ distance[x] > 0
    /\ caller' = [caller EXCEPT ![x] = "submit"]
    /\ done_latch' = [done_latch EXCEPT ![x] = num_chunks(x) + 1]
    /\ UNCHANGED <<vars, distance, chunk_size, next, worked, applied>>

CallBegin(x) ==
    /\ life = "alive"
    /\ caller[x] = "idle" /\ distance[x] > 0
    /\ caller' = [caller EXCEPT ![x] = "submit"]
    /\ done_latch' = [done_latch EXCEPT ![x] = num_chunks(x)]
    /\ UNCHANGED <<vars, distance, chunk_size, next, worked, applied>>

\* pool.execute() of one chunk, the task <<x, i>>; ExecuteNotify(x) ends the call.
CallSubmit(x) ==
    /\ caller[x] = "submit"
    /\ ExecuteGlobal(x, <<x, next[x]>>)
    /\ next' = [next EXCEPT ![x] = @ + 1]
    /\ caller' = [caller EXCEPT ![x] = IF next[x] + 1 = num_chunks(x) THEN "wait" ELSE @]
    /\ UNCHANGED <<distance, chunk_size, done_latch, worked, applied>>

\* Mutant: the caller does not wait for the latch.
CallReturnEarly(x) ==
    /\ caller[x] = "wait" /\ x \notin notifying
    /\ caller' = [caller EXCEPT ![x] = "done"]
    /\ UNCHANGED <<vars, distance, chunk_size, next, done_latch, worked, applied>>

CallReturn(x) ==
    /\ caller[x] = "wait" /\ x \notin notifying
    /\ done_latch[x] = 0
    /\ caller' = [caller EXCEPT ![x] = "done"]
    /\ UNCHANGED <<vars, distance, chunk_size, next, done_latch, worked, applied>>

-----------------------------------------------------------------------------
\* The body of a chunk's task in worker w: std::for_each over the chunk ...
ForEach(w) ==
    /\ pc[w] = "run" /\ w \notin worked
    /\ LET whose == task[w][1]
           chunk == Chunk(whose, task[w][2])
       IN  applied' = [applied EXCEPT ![whose] =
                [e \in DOMAIN @ |-> @[e] + IF e \in chunk THEN 1 ELSE 0]]
    /\ worked' = worked \cup {w}
    /\ UNCHANGED <<vars, call>>

\* ... and done_latch.count_down(), after which the task returns.
CountDown(w) ==
    /\ w \in worked
    /\ Finish(w)
    /\ done_latch' = [done_latch EXCEPT ![task[w][1]] = @ - 1]
    /\ worked' = worked \ {w}
    /\ UNCHANGED <<caller, distance, chunk_size, next, applied>>

-----------------------------------------------------------------------------
Call(x) == CallEmpty(x) \/ CallBegin(x) \/ CallSubmit(x) \/ CallReturn(x)

\* Steps of the pool that are no step of a call or of a chunk.
PoolStep ==
    \/ Spawn
    \/ \E x \in Callers : ExecuteNotify(x)
    \/ \E w \in Workers : Loop(w) \/ SpuriousWakeup(w)

NextCalls ==
    /\ UNCHANGED usage
    /\ \/ usage = "tasks" /\ Next /\ UNCHANGED <<call, worked, applied>>
       \/ usage = "ranges" /\ PoolStep /\ UNCHANGED <<call, worked, applied>>
       \/ usage = "ranges" /\ \E x \in Callers : Call(x)
       \/ usage = "ranges" /\ \E w \in Workers : ForEach(w) \/ CountDown(w)

SpecCalls == InitCalls /\ [][NextCalls]_allVars

\* The pool's fairness (a task that returns is a chunk that was counted down), and
\* a caller goes on with its call.
FairSpecCalls ==
    /\ SpecCalls /\ Fairness
    /\ \A x \in Callers :
        /\ SF_<<vars, call>>(usage = "ranges" /\ CallSubmit(x))
        /\ WF_<<vars, call>>(usage = "ranges" /\ CallReturn(x))

-----------------------------------------------------------------------------
\* "The calling thread blocks until all chunks are processed"
\* (parallel_algorithms.hpp:15): when the call returns, f has been called once on
\* every element of the range and on nothing else.
EachElementOnce ==
    \A x \in Callers : caller[x] = "done" =>
        \A e \in DOMAIN applied[x] : applied[x][e] = IF e < distance[x] THEN 1 ELSE 0

\* A call returns, as long as the pool is not destroyed.
CallReturns == \A x \in Callers : (caller[x] = "submit") ~> (caller[x] = "done")
=============================================================================
