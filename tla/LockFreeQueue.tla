--------------------------- MODULE LockFreeQueue ---------------------------
(***************************************************************************)
(* modern_cpp_core/data_structures/lock_free_queue.hpp: a ring buffer for  *)
(* one producer and one consumer.  One action per access to shared memory. *)
(*                                                                         *)
(* A relaxed load by the only writer of an atomic returns its last store.  *)
(* An acquire load of the other side's index may return any value between  *)
(* the one this thread saw last and the newest one (read coherence); what  *)
(* the release store published before that value is then visible.          *)
(***************************************************************************)
EXTENDS Integers, Sequences

CONSTANTS
    RingValues,     \* what can be pushed
    RingCapacity,   \* the template parameter
    RingNone        \* a cell that was never written, or was moved from

ASSUME RingAssumption == RingCapacity \in Nat \ {0}
ASSUME RingNoneAssumption == RingNone \notin RingValues

kRealCapacity == RingCapacity + 1
RingIndex == 0 .. RingCapacity

VARIABLES
    m_buffer, m_head, m_tail,
    pushPc, pushed, current_tail, seenHead,     \* the producer inside push
    popPc, value, current_head, seenTail,       \* the consumer inside pop
    out                                         \* what the last successful pop returned

producer == <<pushPc, pushed, current_tail, seenHead>>
consumer == <<popPc, value, current_head, seenTail, out>>
ringVars == <<m_buffer, m_head, m_tail, producer, consumer>>

Succ(i) == (i + 1) % kRealCapacity

\* How many increments of the index lead from a to b.
Dist(a, b) == IF a <= b THEN b - a ELSE b - a + kRealCapacity

\* What a load can return: not older than what was seen, not newer than now.
Observable(seen, now) == {i \in RingIndex : Dist(seen, i) <= Dist(seen, now)}

RingInit ==
    /\ m_buffer = [i \in RingIndex |-> RingNone]
    /\ m_head = 0 /\ m_tail = 0
    /\ pushPc = "idle" /\ pushed = RingNone /\ current_tail = 0 /\ seenHead = 0
    /\ popPc = "idle" /\ value = RingNone /\ current_head = 0 /\ seenTail = 0
    /\ out = RingNone

-----------------------------------------------------------------------------
(* push(value), by copy or by move: both overloads make the same accesses. *)

PushBegin(v) ==
    /\ pushPc = "idle"
    /\ pushPc' = "load"
    /\ pushed' = v
    /\ current_tail' = m_tail
    /\ UNCHANGED <<m_buffer, m_head, m_tail, seenHead, consumer>>

\* Mutant: the full test is missing.
PushLoadHeadNoTest(h) ==
    /\ pushPc = "load"
    /\ h \in Observable(seenHead, m_head)
    /\ seenHead' = h
    /\ pushPc' = "write"
    /\ UNCHANGED <<m_buffer, m_head, m_tail, pushed, current_tail, consumer>>

\* Mutant: the tail is published before the cell is written.
PushLoadHeadPublishes(h) ==
    /\ pushPc = "load"
    /\ h \in Observable(seenHead, m_head)
    /\ seenHead' = h
    /\ pushPc' = IF Succ(current_tail) = h THEN "idle" ELSE "write"
    /\ m_tail' = IF Succ(current_tail) = h THEN m_tail ELSE Succ(current_tail)
    /\ UNCHANGED <<m_buffer, m_head, pushed, current_tail, consumer>>

\* Full, as far as the producer can see: return false.
PushLoadHead(h) ==
    /\ pushPc = "load"
    /\ h \in Observable(seenHead, m_head)
    /\ seenHead' = h
    /\ pushPc' = IF Succ(current_tail) = h THEN "idle" ELSE "write"
    /\ UNCHANGED <<m_buffer, m_head, m_tail, pushed, current_tail, consumer>>

PushWrite ==
    /\ pushPc = "write"
    /\ m_buffer' = [m_buffer EXCEPT ![current_tail] = pushed]
    /\ pushPc' = "store"
    /\ UNCHANGED <<m_head, m_tail, pushed, current_tail, seenHead, consumer>>

PushStore ==
    /\ pushPc = "store"
    /\ m_tail' = Succ(current_tail)
    /\ pushPc' = "idle"
    /\ UNCHANGED <<m_buffer, m_head, pushed, current_tail, seenHead, consumer>>

-----------------------------------------------------------------------------
(* pop() *)

PopBegin ==
    /\ popPc = "idle"
    /\ popPc' = "load"
    /\ current_head' = m_head
    /\ UNCHANGED <<m_buffer, m_head, m_tail, producer, value, seenTail, out>>

\* Mutant: a single queued value is taken for none.
PopLoadTailOffByOne(t) ==
    /\ popPc = "load"
    /\ t \in Observable(seenTail, m_tail)
    /\ seenTail' = t
    /\ popPc' = IF t \in {current_head, Succ(current_head)} THEN "idle" ELSE "move"
    /\ UNCHANGED <<m_buffer, m_head, m_tail, producer, value, current_head, out>>

\* Empty, as far as the consumer can see: return nullopt.
PopLoadTail(t) ==
    /\ popPc = "load"
    /\ t \in Observable(seenTail, m_tail)
    /\ seenTail' = t
    /\ popPc' = IF current_head = t THEN "idle" ELSE "move"
    /\ UNCHANGED <<m_buffer, m_head, m_tail, producer, value, current_head, out>>

\* The value is moved out: the cell keeps a moved-from object.
PopMove ==
    /\ popPc = "move"
    /\ value' = m_buffer[current_head]
    /\ m_buffer' = [m_buffer EXCEPT ![current_head] = RingNone]
    /\ popPc' = "store"
    /\ UNCHANGED <<m_head, m_tail, producer, current_head, seenTail, out>>

\* Mutant: the head is not advanced.
PopStoreNoAdvance ==
    /\ popPc = "store"
    /\ out' = value
    /\ popPc' = "idle"
    /\ UNCHANGED <<m_buffer, m_head, m_tail, producer, value, current_head, seenTail>>

PopStore ==
    /\ popPc = "store"
    /\ m_head' = Succ(current_head)
    /\ out' = value
    /\ popPc' = "idle"
    /\ UNCHANGED <<m_buffer, m_tail, producer, value, current_head, seenTail>>

-----------------------------------------------------------------------------
Push ==
    \/ \E v \in RingValues : PushBegin(v)
    \/ \E h \in RingIndex : PushLoadHead(h)
    \/ PushWrite
    \/ PushStore

Pop ==
    \/ PopBegin
    \/ \E t \in RingIndex : PopLoadTail(t)
    \/ PopMove
    \/ PopStore

RingNext == Push \/ Pop

RingSpec == RingInit /\ [][RingNext]_ringVars

\* A call once begun runs to its end; the consumer keeps asking and a producer
\* that has seen a full queue tries again (the loops of test_lock_free_queue.cpp);
\* a store becomes visible to the other thread in finite time.
RingFairness ==
    /\ WF_ringVars(Push /\ pushPc # "idle")
    /\ WF_ringVars(\E v \in RingValues : PushBegin(v) /\ Succ(m_tail) = seenHead)
    /\ WF_ringVars(Pop)
    /\ SF_ringVars(PushLoadHead(m_head))
    /\ SF_ringVars(PopLoadTail(m_tail))

RingFairSpec == RingSpec /\ RingFairness

-----------------------------------------------------------------------------
\* Every variable keeps its type (members of lock_free_queue.hpp:28-32 and the
\* locals of push and pop).
RingTypeOK ==
    /\ m_buffer \in [RingIndex -> RingValues \cup {RingNone}]
    /\ m_head \in RingIndex /\ m_tail \in RingIndex
    /\ pushPc \in {"idle", "load", "write", "store"}
    /\ pushed \in RingValues \cup {RingNone}
    /\ current_tail \in RingIndex /\ seenHead \in RingIndex
    /\ popPc \in {"idle", "load", "move", "store"}
    /\ value \in RingValues \cup {RingNone}
    /\ current_head \in RingIndex /\ seenTail \in RingIndex
    /\ out \in RingValues \cup {RingNone}

\* The plain accesses to one cell, the write in push and the move in pop, are
\* never in progress at once: the acquire loads of the indices order them.
NoDataRace == ~(pushPc = "write" /\ popPc = "move" /\ current_tail = current_head)

\* The values the consumer can still get, oldest first.  A value counts as
\* queued until the store to m_head, also when it has left its cell.
RingContents ==
    [i \in 1 .. Dist(m_head, m_tail) |->
        IF i = 1 /\ popPc = "store" THEN value
        ELSE m_buffer[(m_head + i - 1) % kRealCapacity]]

Fifo == INSTANCE BoundedFifo WITH
    Values <- RingValues, Capacity <- RingCapacity, NoValue <- RingNone,
    q <- RingContents, out <- out

\* push and pop implement the bounded FIFO queue: nothing is lost, duplicated,
\* reordered or overwritten, whatever each thread sees of the other's index.
ImplementsFifo == Fifo!Spec

\* A queued value is eventually returned by pop to a consumer that keeps asking.
Delivered ==
    \A v \in RingValues :
        (RingContents # <<>> /\ RingContents[1] = v) ~> out = v

\* A producer that retries push gets a cell once the consumer keeps popping.
ProducerProgress == pushPc = "load" ~> pushPc = "store"
=============================================================================
