---------------------------- MODULE CountedQueue ----------------------------
(***************************************************************************)
(* designLockFree/dataStructures.hpp: lock_free_queue, a linked queue that *)
(* ends in a node without data.  Nodes are freed by split reference        *)
(* counts: head and tail count the calls that have taken a reference from  *)
(* them, and a node counts, besides the references given back, how many    *)
(* of those two still have to be accounted for.  A push that finds the     *)
(* last node filled helps the push that has filled it.                     *)
(*                                                                         *)
(* One action per atomic access.  The loops on the count of a node only    *)
(* repeat a compare_exchange on what it has just read: each is one step.   *)
(***************************************************************************)
EXTENDS Integers, Sequences, FiniteSets

CONSTANTS
    QThreads,
    QNodes,         \* addresses of nodes, used again after delete
    QMaxPushes, QMaxPops,   \* bounds: calls of each thread
    QMaxCount,      \* bound: external counts of head and tail
    QNull           \* nullptr

\* Memory is finite, and there is some for the first node.
ASSUME QNodesAssumption == IsFiniteSet(QNodes) /\ QNodes # {}
ASSUME QBoundsAssumption ==
    QMaxPushes \in [QThreads -> Nat] /\ QMaxPops \in [QThreads -> Nat] /\ QMaxCount \in Nat

QElement == UNION {{t} \X (1 .. QMaxPushes[t]) : t \in QThreads}
ASSUME QNullAssumption == QNull \notin QNodes \cup QElement

QCounted(n, p) == [external_count |-> n, ptr |-> p]
QNoPtr == QCounted(0, QNull)

VARIABLES
    ends,           \* head and tail
    qnode,          \* the nodes: data, count (internal_count, external_counters), next
    qalloc,         \* the nodes that are not deleted
    qpc,            \* place of each thread in its call
    local,          \* its locals, see QNoLocals
    qpushes, qpops, \* calls begun by each thread
    popped,         \* history: the elements that pops have returned
    newest,         \* history: the element of the last node that the head has left
    late            \* history: elements stored in a node that the tail had left

qVars == <<ends, qnode, qalloc, qpc, local, qpushes, qpops, popped, newest, late>>
qCalls == <<qpushes, qpops>>
qHistory == <<popped, newest, late>>

QNode == [data |-> QNull, internal_count |-> 0, external_counters |-> 2, next |-> QNoPtr]

QNoLocals == [
    side |-> "head",    \* the end that the call works on: head for pop, tail for push
    old  |-> QNoPtr,    \* old_head or old_tail
    ptr  |-> QNull,     \* the node that the call has a reference to
    new  |-> QNull,     \* the node that a push brings
    next |-> QNoPtr,    \* next of pop, the new tail of push
    done |-> FALSE]     \* the call returns once it has given its reference back

QInit ==
    LET n == CHOOSE m \in QNodes : TRUE IN     \* any address will do
    /\ ends = [head |-> QCounted(1, n), tail |-> QCounted(1, n)]
    /\ qnode = [m \in QNodes |-> QNode]
    /\ qalloc = {n}
    /\ qpc = [t \in QThreads |-> "idle"]
    /\ local = [t \in QThreads |-> QNoLocals]
    /\ qpushes = [t \in QThreads |-> 0] /\ qpops = [t \in QThreads |-> 0]
    /\ popped = {} /\ newest = QNull /\ late = {}

QGoto(t, label) == qpc' = [qpc EXCEPT ![t] = label]

\* The nodes from n on: w[i] is the one i links behind it.
QWalk(n) ==
    LET w[i \in 0 .. Cardinality(QNodes)] ==
            IF i = 0 THEN n ELSE IF w[i - 1] = QNull THEN QNull ELSE qnode[w[i - 1]].next.ptr
    IN  w

QLinked(n) == LET w == QWalk(n) IN {w[i] : i \in 0 .. Cardinality(QNodes)} \ {QNull}

-----------------------------------------------------------------------------
QPush(t) ==
    /\ qpc[t] = "idle" /\ qpushes[t] < QMaxPushes[t]
    /\ qpushes' = [qpushes EXCEPT ![t] = @ + 1]
    /\ \E n \in QNodes \ qalloc :
        /\ qalloc' = qalloc \cup {n}
        /\ local' = [local EXCEPT ![t] = [@ EXCEPT !.side = "tail", !.new = n, !.old = ends.tail]]
    /\ QGoto(t, "increase")
    /\ UNCHANGED <<ends, qnode, qpops, qHistory>>

QPop(t) ==
    /\ qpc[t] = "idle" /\ qpops[t] < QMaxPops[t]
    /\ qpops' = [qpops EXCEPT ![t] = @ + 1]
    /\ local' = [local EXCEPT ![t] = [@ EXCEPT !.side = "head", !.old = ends.head]]
    /\ QGoto(t, "increase")
    /\ UNCHANGED <<ends, qnode, qalloc, qpushes, qHistory>>

\* One compare_exchange of increase_external_count(head or tail).
increase_external_count(t) ==
    LET side == local[t].side
        counter == ends[side]
        new_counter == [counter EXCEPT !.external_count = @ + 1]
    IN
    /\ qpc[t] = "increase"
    /\ IF counter # local[t].old
       THEN /\ local' = [local EXCEPT ![t].old = counter]
            /\ UNCHANGED <<ends, qpc>>
       ELSE /\ counter.external_count < QMaxCount
            /\ ends' = [ends EXCEPT ![side] = new_counter]
            /\ local' = [local EXCEPT ![t] = [@ EXCEPT !.old = new_counter, !.ptr = counter.ptr]]
            /\ QGoto(t, IF side = "tail" THEN "store" ELSE "test")
    /\ UNCHANGED <<qnode, qalloc, qCalls, qHistory>>

-----------------------------------------------------------------------------
(* push *)

QArg(t) == <<t, qpushes[t]>>

\* Mutant: the data is stored without a look at what is there.
StoreDataAlways(t) ==
    LET n == local[t].ptr IN
    /\ qpc[t] = "store"
    /\ qnode' = [qnode EXCEPT ![n].data = QArg(t)]
    /\ local' = [local EXCEPT ![t].done = TRUE]
    /\ late' = IF n \notin QLinked(ends.tail.ptr) THEN late \cup {QArg(t)} ELSE late
    /\ QGoto(t, "link")
    /\ UNCHANGED <<ends, qalloc, qCalls, popped, newest>>

\* The data goes into the last node, unless it has some: then the push helps.
StoreData(t) ==
    LET n == local[t].ptr
        free == qnode[n].data = QNull
    IN
    /\ qpc[t] = "store"
    /\ qnode' = [qnode EXCEPT ![n].data = IF free THEN QArg(t) ELSE @]
    /\ local' = [local EXCEPT ![t].done = free]
    /\ late' = IF free /\ n \notin QLinked(ends.tail.ptr) THEN late \cup {QArg(t)} ELSE late
    /\ QGoto(t, "link")
    /\ UNCHANGED <<ends, qalloc, qCalls, popped, newest>>

\* The new node is linked behind the last one, by the push itself or its helper.
\* A helper needs another new node then; a push that was helped deletes its own.
LinkNode(t) ==
    LET n == local[t].ptr
        mine == QCounted(1, local[t].new)
        done == local[t].done
    IN
    /\ qpc[t] = "link"
    /\ IF qnode[n].next = QNoPtr
       THEN /\ qnode' = [qnode EXCEPT ![n].next = mine]
            /\ \E m \in IF done THEN {QNull} ELSE QNodes \ qalloc :
                /\ qalloc' = qalloc \cup ({m} \ {QNull})
                /\ local' = [local EXCEPT ![t] = [@ EXCEPT !.next = mine, !.new = m]]
       ELSE /\ qalloc' = IF done THEN qalloc \ {local[t].new} ELSE qalloc
            /\ local' = [local EXCEPT ![t] = [@ EXCEPT !.next = qnode[n].next,
                                                       !.new = IF done THEN QNull ELSE local[t].new]]
            /\ UNCHANGED qnode
    /\ QGoto(t, "set_tail")
    /\ UNCHANGED <<ends, qCalls, qHistory>>

\* One compare_exchange of set_new_tail: it gives up when another has moved the tail.
set_new_tail(t) ==
    /\ qpc[t] = "set_tail"
    /\ IF ends.tail = local[t].old
       THEN /\ ends' = [ends EXCEPT !.tail = local[t].next]
            /\ QGoto(t, "free")
            /\ UNCHANGED local
       ELSE /\ local' = [local EXCEPT ![t].old = ends.tail]
            /\ QGoto(t, IF ends.tail.ptr = local[t].ptr THEN "set_tail" ELSE "release")
            /\ UNCHANGED ends
    /\ UNCHANGED <<qnode, qalloc, qCalls, qHistory>>

-----------------------------------------------------------------------------
(* pop *)

\* The queue is empty if the first node is the last one.
TestEmpty(t) ==
    LET empty == local[t].ptr = ends.tail.ptr IN
    /\ qpc[t] = "test"
    /\ local' = [local EXCEPT ![t].done = empty]
    /\ QGoto(t, IF empty THEN "release" ELSE "next")
    /\ UNCHANGED <<ends, qnode, qalloc, qCalls, qHistory>>

LoadNext(t) ==
    /\ qpc[t] = "next"
    /\ local' = [local EXCEPT ![t].next = qnode[local[t].ptr].next]
    /\ QGoto(t, "unlink")
    /\ UNCHANGED <<ends, qnode, qalloc, qCalls, qHistory>>

Unlink(t) ==
    /\ qpc[t] = "unlink"
    /\ IF ends.head = local[t].old
       THEN /\ ends' = [ends EXCEPT !.head = local[t].next]
            /\ newest' = qnode[local[t].ptr].data
            /\ QGoto(t, "exchange")
            /\ UNCHANGED local
       ELSE /\ local' = [local EXCEPT ![t].old = ends.head]
            /\ QGoto(t, "release")
            /\ UNCHANGED <<ends, newest>>
    /\ UNCHANGED <<qnode, qalloc, qCalls, popped, late>>

ExchangeData(t) ==
    LET n == local[t].ptr IN
    /\ qpc[t] = "exchange"
    /\ popped' = popped \cup {qnode[n].data}
    /\ qnode' = [qnode EXCEPT ![n].data = QNull]
    /\ local' = [local EXCEPT ![t].done = TRUE]
    /\ QGoto(t, "free")
    /\ UNCHANGED <<ends, qalloc, qCalls, newest, late>>

-----------------------------------------------------------------------------
\* The count of a node after a change, and its deletion if nothing is left.  The call
\* returns, or tries again.
UpdateCount(t, references, counters) ==
    LET n == local[t].ptr
        new_counter == [qnode[n] EXCEPT !.internal_count = @ + references,
                                        !.external_counters = @ - counters]
        unused == new_counter.internal_count = 0 /\ new_counter.external_counters = 0
    IN
    /\ qnode' = [qnode EXCEPT ![n] = IF unused THEN QNode ELSE new_counter]
    /\ qalloc' = IF unused THEN qalloc \ {n} ELSE qalloc
    /\ local' = [local EXCEPT ![t] =
            IF @.done THEN QNoLocals ELSE [@ EXCEPT !.ptr = QNull, !.next = QNoPtr]]
    /\ QGoto(t, IF local[t].done THEN "idle" ELSE "increase")
    /\ UNCHANGED <<ends, qCalls, qHistory>>

\* head or tail has left the node: the references it has counted are added, without
\* the one of this call and the one of the list.
free_external_counter(t) ==
    /\ qpc[t] = "free"
    /\ UpdateCount(t, local[t].old.external_count - 2, 1)

release_ref(t) ==
    /\ qpc[t] = "release"
    /\ UpdateCount(t, -1, 0)

-----------------------------------------------------------------------------
QStep(t) ==
    \/ increase_external_count(t)
    \/ StoreData(t) \/ LinkNode(t) \/ set_new_tail(t)
    \/ TestEmpty(t) \/ LoadNext(t) \/ Unlink(t) \/ ExchangeData(t)
    \/ free_external_counter(t) \/ release_ref(t)

QNext == \E t \in QThreads : QStep(t) \/ QPush(t) \/ QPop(t)

QSpec == QInit /\ [][QNext]_qVars

-----------------------------------------------------------------------------
\* The nodes that threads may touch: the one they have a reference to, and the new one.
QHeld == ({local[t].ptr : t \in QThreads} \cup {local[t].new : t \in QThreads}) \ {QNull}

\* The nodes that are alive are those in the list and those in the hands of a thread:
\* neither use after delete, nor a second delete, nor a leak, whichever of the two
\* ends leaves a node last (dataStructures.hpp:204, :166).
QueueCounts == qalloc = QLinked(ends.head.ptr) \cup QHeld

\* The data from the head up to the last node, which has none.
QContents ==
    LET w == QWalk(ends.head.ptr)
        length == CHOOSE i \in 0 .. Cardinality(QNodes) : w[i] = ends.tail.ptr
    IN  [i \in 1 .. length |-> qnode[w[i - 1]].data]

QFifo == INSTANCE BoundedFifo WITH
    Values <- QElement, Capacity <- Cardinality(QNodes), NoValue <- QNull,
    q <- QContents, out <- newest

\* push takes effect when the tail moves and pop when the head does, whoever moves
\* them: a first in, first out queue.
ImplementsCountedQueue == QFifo!Spec

Returned(e) == qpushes[e[1]] > e[2] \/ (qpushes[e[1]] = e[2] /\ local[e[1]].side # "tail")

QPlaces(e) ==
    {<<"queue", i>> : i \in {j \in DOMAIN QContents : QContents[j] = e}}
    \cup {<<"pop", t>> : t \in {u \in QThreads :
                qpc[u] = "exchange" /\ qnode[local[u].ptr].data = e}}
    \cup {<<"popped">> : x \in popped \cap {e}}

\* An element whose push has returned is in the queue or with one pop.  The exception
\* is a push that has a reference to a last node, is overtaken by another push and the
\* pop of that element, and then finds no data in the node: it stores its element in a
\* node that has left the queue (dataStructures.hpp:280).
ElementsKept ==
    \A e \in QElement : Returned(e) /\ e \notin late => Cardinality(QPlaces(e)) = 1
=============================================================================
