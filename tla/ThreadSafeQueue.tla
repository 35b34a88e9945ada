-------------------------- MODULE ThreadSafeQueue --------------------------
(***************************************************************************)
(* modern_cpp_core/data_structures/thread_safe_queue.hpp: a queue under a  *)
(* mutex whose elements are counted by a semaphore.  A critical section    *)
(* touches nothing else and is one step; the semaphore is released after   *)
(* the one of push and acquired before the one of wait_and_pop, and        *)
(* try_pop does not use it.                                                *)
(***************************************************************************)
EXTENDS Integers, Sequences, FiniteSets, SequencesExt

CONSTANTS
    Producers, Consumers,
    MaxPushes,      \* bound: pushes of one producer
    Mixed,          \* may consumers of one queue use both try_pop and wait_and_pop?
    NoElement,      \* std::nullopt, or nothing returned yet
    Garbage         \* what front() of an empty std::queue yields (undefined)

ASSUME PushesAssumption == MaxPushes \in Nat
ASSUME MixedAssumption == Mixed \in BOOLEAN

Element == Producers \X (1 .. MaxPushes)
ASSUME NotElements == NoElement # Garbage /\ {NoElement, Garbage} \cap Element = {}

VARIABLES
    m_queue, m_sem,
    pc,             \* inside push: "release"; inside wait_and_pop: "pop"
    pushed,         \* calls of push begun by each producer
    result,         \* what the last pop of each consumer returned
    delivered,      \* history: all that was returned
    style           \* which of the pops the consumers of this queue call

vars == <<m_queue, m_sem, pc, pushed, result, delivered, style>>

Init ==
    /\ m_queue = <<>> /\ m_sem = 0
    /\ pc = [t \in Producers \cup Consumers |-> "idle"]
    /\ pushed = [p \in Producers |-> 0]
    /\ result = [c \in Consumers |-> NoElement]
    /\ delivered = {}
    /\ style \in IF Mixed THEN {"mixed"} ELSE {"blocking", "polling"}

Return(c, e) ==
    /\ result' = [result EXCEPT ![c] = e]
    /\ delivered' = delivered \cup ({e} \ {NoElement})

-----------------------------------------------------------------------------
Push(p) ==
    /\ pc[p] = "idle"
    /\ pushed[p] < MaxPushes
    /\ pushed' = [pushed EXCEPT ![p] = @ + 1]
    /\ m_queue' = Append(m_queue, <<p, pushed[p] + 1>>)
    /\ pc' = [pc EXCEPT ![p] = "release"]
    /\ UNCHANGED <<m_sem, result, delivered, style>>

\* Mutant: a binary semaphore in the place of the counting one.
ReleaseBinary(p) ==
    /\ pc[p] = "release"
    /\ m_sem' = 1
    /\ pc' = [pc EXCEPT ![p] = "idle"]
    /\ UNCHANGED <<m_queue, pushed, result, delivered, style>>

Release(p) ==
    /\ pc[p] = "release"
    /\ m_sem' = m_sem + 1
    /\ pc' = [pc EXCEPT ![p] = "idle"]
    /\ UNCHANGED <<m_queue, pushed, result, delivered, style>>

TryPop(c) ==
    /\ pc[c] = "idle"
    /\ style \in {"polling", "mixed"}
    /\ \/ m_queue = <<>> /\ Return(c, NoElement) /\ UNCHANGED m_queue
       \/ m_queue # <<>> /\ Return(c, Head(m_queue)) /\ m_queue' = Tail(m_queue)
    /\ UNCHANGED <<m_sem, pc, pushed, style>>

\* Mutant: a permit is taken without being counted.
AcquireKeeps(c) ==
    /\ pc[c] = "idle"
    /\ style \in {"blocking", "mixed"}
    /\ m_sem > 0
    /\ pc' = [pc EXCEPT ![c] = "pop"]
    /\ UNCHANGED <<m_queue, m_sem, pushed, result, delivered, style>>

\* wait_and_pop blocks in acquire until there is a permit ...
Acquire(c) ==
    /\ pc[c] = "idle"
    /\ style \in {"blocking", "mixed"}
    /\ m_sem > 0
    /\ m_sem' = m_sem - 1
    /\ pc' = [pc EXCEPT ![c] = "pop"]
    /\ UNCHANGED <<m_queue, pushed, result, delivered, style>>

\* ... and takes the front without looking whether there is one.
WaitPop(c) ==
    /\ pc[c] = "pop"
    /\ Return(c, IF m_queue = <<>> THEN Garbage ELSE Head(m_queue))
    /\ m_queue' = IF m_queue = <<>> THEN <<>> ELSE Tail(m_queue)
    /\ pc' = [pc EXCEPT ![c] = "idle"]
    /\ UNCHANGED <<m_sem, pushed, style>>

-----------------------------------------------------------------------------
Produce(p) == Push(p) \/ Release(p)
Consume(c) == TryPop(c) \/ Acquire(c) \/ WaitPop(c)

Next == (\E p \in Producers : Produce(p)) \/ (\E c \in Consumers : Consume(c))

Spec == Init /\ [][Next]_vars

-----------------------------------------------------------------------------
\* Types of the members and of the calls in progress.
TypeOK ==
    /\ m_queue \in Seq(Element)
    /\ m_sem \in Nat
    /\ pc \in [Producers \cup Consumers -> {"idle", "release", "pop"}]
    /\ pushed \in [Producers -> 0 .. MaxPushes]
    /\ result \in [Consumers -> Element \cup {NoElement, Garbage}]
    /\ delivered \in SUBSET (Element \cup {Garbage})
    /\ style \in {"blocking", "polling", "mixed"}

\* Every element in the queue is matched by one permit: in the semaphore, in the
\* hands of a consumer about to pop, or of a producer about to release it.
PermitPerElement ==
    style = "blocking" =>
        Len(m_queue) = m_sem + Cardinality({c \in Consumers : pc[c] = "pop"})
                             + Cardinality({p \in Producers : pc[p] = "release"})

\* wait_and_pop returns an element of the queue (thread_safe_queue.hpp:59), never
\* the front of an empty one.
WaitReturnsElement == Garbage \notin delivered

\* An element pushed reaches a consumer: the release cannot be missed.
EveryElementDelivered ==
    \A e \in Element : (pushed[e[1]] >= e[2]) ~> e \in delivered
=============================================================================
