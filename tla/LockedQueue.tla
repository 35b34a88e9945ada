----------------------------- MODULE LockedQueue -----------------------------
(***************************************************************************)
(* designLockBase/dataStructures.hpp: threadsafe_queue_single_mutex and    *)
(* threadsafe_queue_fine_grained, two queues with the same interface.  The *)
(* first locks one mutex for everything, the second is a list that ends in *)
(* a dummy node, with head_mutex for pops and tail_mutex for pushes.       *)
(*                                                                         *)
(* chain is the list with its dummy; the std::queue of the first is the    *)
(* chain without it.  Both mutexes of the first are the one it has.        *)
(***************************************************************************)
EXTENDS Naturals, Sequences, FiniteSets, SequencesExt

CONSTANTS
    QProducers, QConsumers,
    QMaxPushes,     \* bound: pushes of one producer
    QNothing        \* no data: the dummy node, or an empty shared_ptr

ASSUME QPushesAssumption == QMaxPushes \in Nat
ASSUME QThreadsAssumption == IsFiniteSet(QProducers)

QElement == QProducers \X (1 .. QMaxPushes)
ASSUME QNothingAssumption == QNothing \notin QElement

VARIABLES
    kind,           \* which of the two classes
    chain,          \* the data of the nodes from head to tail
    data_cond,      \* the consumers in the condition variable's queue
    qpc,            \* place of each thread in its call
    call,           \* the member function that each consumer is in
    qpushed, returned, newest,  \* history: pushes begun, elements returned, the last of them
    missed,         \* history: a notification came between a test and the wait for it
    threw           \* history: an assignment to the caller's T& threw

qVars == <<kind, chain, data_cond, qpc, call, qpushed, returned, newest, missed, threw>>

QInit ==
    /\ kind \in {"single_mutex", "fine_grained"}
    /\ chain = <<QNothing>>
    /\ data_cond = {}
    /\ qpc = [t \in QProducers \cup QConsumers |-> "idle"]
    /\ call = [c \in QConsumers |-> "none"]
    /\ qpushed = [p \in QProducers |-> 0]
    /\ returned = {} /\ newest = QNothing
    /\ missed = FALSE /\ threw = FALSE

QGoto(t, label) == qpc' = [qpc EXCEPT ![t] = label]

PopLocked == \E c \in QConsumers : qpc[c] \in {"pop", "block"}
PushLocked ==
    \E p \in QProducers : qpc[p] = "link" \/ (kind = "single_mutex" /\ qpc[p] = "notify")

\* Can head_mutex, tail_mutex, or mut which is both, be taken?
HeadFree == ~PopLocked /\ (kind = "single_mutex" => ~PushLocked)
TailFree == ~PushLocked /\ (kind = "single_mutex" => ~PopLocked)

-----------------------------------------------------------------------------
\* push: the data goes into the dummy node ...
PushData(p) ==
    /\ qpc[p] = "idle" /\ qpushed[p] < QMaxPushes
    /\ TailFree
    /\ qpushed' = [qpushed EXCEPT ![p] = @ + 1]
    /\ chain' = [chain EXCEPT ![Len(chain)] = <<p, qpushed[p] + 1>>]
    /\ QGoto(p, "link")
    /\ UNCHANGED <<kind, data_cond, call, returned, newest, missed, threw>>

\* ... and a new dummy behind it.
PushLink(p) ==
    /\ qpc[p] = "link"
    /\ chain' = Append(chain, QNothing)
    /\ QGoto(p, "notify")
    /\ UNCHANGED <<kind, data_cond, call, qpushed, returned, newest, missed, threw>>

\* Mutant: only a push to an empty queue notifies.
PushNotifyFirst(p) ==
    /\ qpc[p] = "notify"
    /\ \/ data_cond = {} /\ UNCHANGED data_cond
       \/ Len(chain) > 2 /\ UNCHANGED data_cond
       \/ Len(chain) <= 2 /\ \E c \in data_cond : data_cond' = data_cond \ {c}
    /\ missed' = (missed \/ (/\ data_cond = {} /\ Len(chain) > 1
                             /\ \E c \in QConsumers : qpc[c] = "block"))
    /\ QGoto(p, "idle")
    /\ UNCHANGED <<kind, chain, call, qpushed, returned, newest, threw>>

\* notify_one: under the mutex in the one class, after the unlock in the other.
PushNotify(p) ==
    /\ qpc[p] = "notify"
    /\ \/ data_cond = {} /\ UNCHANGED data_cond
       \/ \E c \in data_cond : data_cond' = data_cond \ {c}
    /\ missed' = (missed \/ (/\ data_cond = {} /\ Len(chain) > 1
                             /\ \E c \in QConsumers : qpc[c] = "block"))
    /\ QGoto(p, "idle")
    /\ UNCHANGED <<kind, chain, call, qpushed, returned, newest, threw>>

-----------------------------------------------------------------------------
\* head.get() == get_tail(), or data_queue.empty().
Empty == Len(chain) = 1

CallPop(c, f) ==
    /\ qpc[c] = "idle"
    /\ call' = [call EXCEPT ![c] = f]
    /\ QGoto(c, "test")
    /\ UNCHANGED <<kind, chain, data_cond, qpushed, returned, newest, missed, threw>>

\* There is an element to pop, or the wait begins, or try_pop returns nothing.
Decide(c) ==
    \/ ~Empty /\ QGoto(c, "pop") /\ UNCHANGED call
    \/ Empty /\ call[c] # "try_pop" /\ QGoto(c, "block") /\ UNCHANGED call
    \/ /\ Empty /\ call[c] = "try_pop"
       /\ QGoto(c, "idle") /\ call' = [call EXCEPT ![c] = "none"]

\* Mutant: get_tail() outside the region that head_mutex protects.
TestEarly(c) ==
    /\ qpc[c] = "test" /\ c \notin data_cond
    /\ TailFree
    /\ Decide(c)
    /\ UNCHANGED <<kind, chain, data_cond, qpushed, returned, newest, missed, threw>>

\* The pop's mutex is taken, at first or on return from a wait, and get_tail()
\* takes tail_mutex as well.
Test(c) ==
    /\ qpc[c] = "test" /\ c \notin data_cond
    /\ HeadFree /\ TailFree
    /\ Decide(c)
    /\ UNCHANGED <<kind, chain, data_cond, qpushed, returned, newest, missed, threw>>

\* The wait releases head_mutex and enters the condition variable's queue.
Block(c) ==
    /\ qpc[c] = "block"
    /\ data_cond' = data_cond \cup {c}
    /\ QGoto(c, "test")
    /\ UNCHANGED <<kind, chain, call, qpushed, returned, newest, missed, threw>>

WakeSpuriously(c) ==
    /\ c \in data_cond
    /\ data_cond' = data_cond \ {c}
    /\ UNCHANGED <<kind, chain, qpc, call, qpushed, returned, newest, missed, threw>>

\* pop_head: the first node is unlinked and its data returned.
PopHead(c) ==
    /\ qpc[c] = "pop"
    /\ newest' = Head(chain) /\ returned' = returned \cup {Head(chain)}
    /\ chain' = Tail(chain)
    /\ call' = [call EXCEPT ![c] = "none"]
    /\ QGoto(c, "idle")
    /\ UNCHANGED <<kind, data_cond, qpushed, missed, threw>>

\* value = std::move(...) throws before the node is unlinked; the thread has
\* used up a notification and calls no more.
PopThrows(c) ==
    /\ qpc[c] = "pop" /\ call[c] = "wait_and_pop_ref"
    /\ ~threw
    /\ threw' = TRUE
    /\ QGoto(c, "gone")
    /\ UNCHANGED <<kind, chain, data_cond, call, qpushed, returned, newest, missed>>

-----------------------------------------------------------------------------
PopCalls == {"wait_and_pop", "wait_and_pop_ref", "try_pop"}

QConsume(c) == (\E f \in PopCalls : CallPop(c, f)) \/ Test(c) \/ Block(c) \/ PopHead(c)

QNext ==
    \/ \E p \in QProducers : PushData(p) \/ PushLink(p) \/ PushNotify(p)
    \/ \E c \in QConsumers : QConsume(c) \/ WakeSpuriously(c) \/ PopThrows(c)

QSpec == QInit /\ [][QNext]_qVars

-----------------------------------------------------------------------------
\* Both queues are atomic first in, first out queues: whatever the threads do, the
\* elements come out in the order in which PushLink made them visible, each once, and
\* never the dummy node (dataStructures.hpp:160 "simultaneous push and pop").
Fifo == INSTANCE BoundedFifo WITH
    Values <- QElement, Capacity <- Cardinality(QElement), NoValue <- QNothing,
    q <- SubSeq(chain, 1, Len(chain) - 1),
    out <- newest

ImplementsQueue == Fifo!Spec

\* An element pushed is returned to somebody while one consumer keeps calling.  Two
\* cases are the exceptions: a notification without the mutex of the wait
\* (dataStructures.hpp:258) that comes between a test and its wait, which only the
\* fine grained queue can miss, and a consumer that throws its notification away.
ElementsReturned ==
    \A e \in QElement : (qpushed[e[1]] >= e[2]) ~>
        (e \in returned \/ threw \/ (missed /\ kind = "fine_grained"))
=============================================================================
