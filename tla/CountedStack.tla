---------------------------- MODULE CountedStack ----------------------------
(***************************************************************************)
(* designLockFree/dataStructures.hpp: lock_free_stack, a linked stack      *)
(* whose nodes are freed by split reference counts.  A pop counts itself   *)
(* in external_count, next to the pointer, before it touches the node; it  *)
(* leaves by internal_count in the node.  The pop that unlinks the node    *)
(* adds the one to the other, and who brings the sum to zero deletes the   *)
(* node.  One action per atomic access; atomics are sequentially           *)
(* consistent here, and a compare_exchange_weak that fails for no reason   *)
(* is no step at all.                                                      *)
(***************************************************************************)
EXTENDS Integers, Sequences, FiniteSets, LinkedLists

CONSTANTS
    CThreads, CValues,
    CNodes,         \* addresses of nodes, used again after delete
    CMaxCalls,      \* bound: calls of one thread
    CMaxCount,      \* bound: the external count of the head
    CNull,          \* nullptr
    CNone           \* no data

ASSUME CCallsAssumption == CMaxCalls \in Nat /\ CMaxCount \in Nat
ASSUME CNodesAssumption == IsFiniteSet(CNodes)
ASSUME CNullAssumption == CNull \notin CNodes /\ CNone \notin CValues

Counted(n, p) == [external_count |-> n, ptr |-> p]

VARIABLES
    chead,          \* head
    cnode,          \* the nodes: data, internal_count, next
    calloc,         \* the nodes that are not deleted
    cpc,            \* place of each thread in its call
    old_head, cptr, cnext,  \* locals of pop: old_head, ptr, and ptr->next as read
    new_node,       \* the node that a push brings
    cres,           \* what the last pop of each thread returned
    ccalls          \* calls begun by each thread

cVars == <<chead, cnode, calloc, cpc, old_head, cptr, cnext, new_node, cres, ccalls>>

NullPtr == Counted(0, CNull)
NoNode == [data |-> CNone, internal_count |-> 0, next |-> NullPtr]

CInit ==
    /\ chead = NullPtr
    /\ cnode = [n \in CNodes |-> NoNode]
    /\ calloc = {}
    /\ cpc = [t \in CThreads |-> "idle"]
    /\ old_head = [t \in CThreads |-> NullPtr]
    /\ cptr = [t \in CThreads |-> CNull]
    /\ cnext = [t \in CThreads |-> NullPtr]
    /\ new_node = [t \in CThreads |-> CNull]
    /\ cres = [t \in CThreads |-> CNone]
    /\ ccalls = [t \in CThreads |-> 0]

CGoto(t, label) == cpc' = [cpc EXCEPT ![t] = label]

CCall(t, label) ==
    /\ cpc[t] = "idle" /\ ccalls[t] < CMaxCalls
    /\ ccalls' = [ccalls EXCEPT ![t] = @ + 1]
    /\ CGoto(t, label)

-----------------------------------------------------------------------------
\* push: a new node, linked to the head as loaded ...
CPush(t, v) ==
    /\ CCall(t, "push")
    /\ \E n \in CNodes \ calloc :
        /\ calloc' = calloc \cup {n}
        /\ cnode' = [cnode EXCEPT ![n] = [data |-> v, internal_count |-> 0, next |-> chead]]
        /\ new_node' = [new_node EXCEPT ![t] = n]
    /\ UNCHANGED <<chead, old_head, cptr, cnext, cres>>

\* ... becomes the head by a compare_exchange that writes next when it fails.
CPushCas(t) ==
    LET n == new_node[t] IN
    /\ cpc[t] = "push"
    /\ IF chead = cnode[n].next
       THEN /\ chead' = Counted(1, n)
            /\ new_node' = [new_node EXCEPT ![t] = CNull]
            /\ CGoto(t, "idle")
            /\ UNCHANGED cnode
       ELSE /\ cnode' = [cnode EXCEPT ![n].next = chead]
            /\ UNCHANGED <<chead, new_node, cpc>>
    /\ UNCHANGED <<calloc, old_head, cptr, cnext, cres, ccalls>>

-----------------------------------------------------------------------------
CPop(t) ==
    /\ CCall(t, "increase")
    /\ old_head' = [old_head EXCEPT ![t] = chead]
    /\ UNCHANGED <<chead, cnode, calloc, cptr, cnext, new_node, cres>>

\* One compare_exchange of increase_head_count.  On an empty stack pop returns, and
\* the count that it has added stays.
increase_head_count(t) ==
    LET new_counter == [old_head[t] EXCEPT !.external_count = @ + 1] IN
    /\ cpc[t] = "increase"
    /\ IF chead # old_head[t]
       THEN /\ old_head' = [old_head EXCEPT ![t] = chead]
            /\ UNCHANGED <<chead, cptr, cres, cpc>>
       ELSE /\ chead.external_count < CMaxCount
            /\ chead' = new_counter
            /\ cptr' = [cptr EXCEPT ![t] = new_counter.ptr]
            /\ IF new_counter.ptr = CNull
               THEN /\ cres' = [cres EXCEPT ![t] = CNone]
                    /\ old_head' = [old_head EXCEPT ![t] = NullPtr]
                    /\ CGoto(t, "idle")
               ELSE /\ old_head' = [old_head EXCEPT ![t] = new_counter]
                    /\ CGoto(t, "next")
                    /\ UNCHANGED cres
    /\ UNCHANGED <<cnode, calloc, cnext, new_node, ccalls>>

\* The argument ptr->next is read ...
ReadNext(t) ==
    /\ cpc[t] = "next"
    /\ cnext' = [cnext EXCEPT ![t] = cnode[cptr[t]].next]
    /\ CGoto(t, "cas")
    /\ UNCHANGED <<chead, cnode, calloc, old_head, cptr, new_node, cres, ccalls>>

\* ... and made the head, or the node is left alone.
CPopCas(t) ==
    /\ cpc[t] = "cas"
    /\ IF chead = old_head[t]
       THEN chead' = cnext[t] /\ CGoto(t, "swap") /\ UNCHANGED old_head
       ELSE old_head' = [old_head EXCEPT ![t] = chead] /\ CGoto(t, "release") /\ UNCHANGED chead
    /\ cnext' = [cnext EXCEPT ![t] = NullPtr]
    /\ UNCHANGED <<cnode, calloc, cptr, new_node, cres, ccalls>>

SwapData(t) ==
    /\ cpc[t] = "swap"
    /\ cres' = [cres EXCEPT ![t] = cnode[cptr[t]].data]
    /\ cnode' = [cnode EXCEPT ![cptr[t]].data = CNone]
    /\ CGoto(t, "count")
    /\ UNCHANGED <<chead, calloc, old_head, cptr, cnext, new_node, ccalls>>

\* internal_count.fetch_add(n) of the node that t has in hand; it is deleted when
\* that makes the count zero.
AddCount(t, n) ==
    LET sum == cnode[cptr[t]].internal_count + n IN
    /\ cnode' = [cnode EXCEPT ![cptr[t]] = IF sum = 0 THEN NoNode ELSE [@ EXCEPT !.internal_count = sum]]
    /\ calloc' = IF sum = 0 THEN calloc \ {cptr[t]} ELSE calloc
    /\ cptr' = [cptr EXCEPT ![t] = CNull]

\* Mutant: the reference of the stack itself is not taken off.
AddExternalOne(t) ==
    /\ cpc[t] = "count"
    /\ AddCount(t, old_head[t].external_count - 1)
    /\ old_head' = [old_head EXCEPT ![t] = NullPtr]
    /\ CGoto(t, "idle")
    /\ UNCHANGED <<chead, cnext, new_node, cres, ccalls>>

\* The pop that has unlinked the node adds the other references that were counted,
\* without its own and that of the stack.
AddExternal(t) ==
    /\ cpc[t] = "count"
    /\ AddCount(t, old_head[t].external_count - 2)
    /\ old_head' = [old_head EXCEPT ![t] = NullPtr]
    /\ CGoto(t, "idle")
    /\ UNCHANGED <<chead, cnext, new_node, cres, ccalls>>

\* A pop that was too late gives its reference back and tries again.
ReleaseNode(t) ==
    /\ cpc[t] = "release"
    /\ AddCount(t, -1)
    /\ CGoto(t, "increase")
    /\ UNCHANGED <<chead, old_head, cnext, new_node, cres, ccalls>>

-----------------------------------------------------------------------------
CStep(t) ==
    \/ CPushCas(t)
    \/ increase_head_count(t) \/ ReadNext(t) \/ CPopCas(t) \/ SwapData(t)
    \/ AddExternal(t) \/ ReleaseNode(t)

CNext == \E t \in CThreads : CStep(t) \/ CPop(t) \/ \E v \in CValues : CPush(t, v)

CSpec == CInit /\ [][CNext]_cVars

-----------------------------------------------------------------------------
\* The nodes of the stack, from the head on.
CLinks == [n \in CNodes |-> cnode[n].next.ptr]
CChain == ListFrom(chead.ptr, CLinks, CNull, CNodes, Cardinality(CNodes))

\* The nodes that threads may touch: the one that a pop has counted itself on, and the
\* one that a push brings.
CHeld == ({cptr[t] : t \in CThreads} \cup {new_node[t] : t \in CThreads}) \ {CNull}

\* Every node that can be reached from the head or that a thread has in hand is
\* alive, and the others have been deleted: neither use after delete, nor a second
\* delete, nor a leak (dataStructures.hpp:95, :102).
StackCounts ==
    /\ Ends(chead.ptr, CLinks, CNull, CNodes, Cardinality(CNodes))
    /\ calloc = ToSet(CChain) \cup CHeld

CContents == LET c == CChain IN [i \in DOMAIN c |-> cnode[c[i]].data]

CTaken == [t \in CThreads |-> IF cpc[t] = "swap" THEN cnode[cptr[t]].data ELSE cres[t]]

CLifo == INSTANCE BoundedStack WITH
    Threads <- CThreads, Values <- CValues, Capacity <- Cardinality(CNodes), NoValue <- CNone,
    stack <- CContents, taken <- CTaken

\* push and pop are atomic operations on a stack, with addresses that come back
\* while old copies of the head are about.
ImplementsCountedStack == CLifo!Spec
=============================================================================
