--------------------------- MODULE LockFreeStack ---------------------------
(***************************************************************************)
(* modern_cpp_core/data_structures/lock_free_stack.hpp: a stack of nodes   *)
(* of a fixed pool.  Two lists run through the pool, the stack and the     *)
(* free list, each with a tagged head.  Both operations take a node from   *)
(* one list and put it on the other: push from the free list to the stack, *)
(* pop from the stack to the free list.  One action per atomic access;     *)
(* atomics are sequentially consistent here.  A compare_exchange_weak that *)
(* fails for no reason reads again what it has read: it is no step at all. *)
(***************************************************************************)
EXTENDS Integers, Sequences, FiniteSets, LinkedLists

CONSTANTS
    Threads, Values,
    Capacity,       \* the template parameter
    TagModulus,     \* 2^32 for the uint32_t tag
    MaxOps,         \* bound: operations begun
    NoValue         \* std::nullopt

ASSUME CapacityAssumption == Capacity \in Nat \ {0}
ASSUME TagAssumption == TagModulus \in Nat \ {0}
ASSUME OpsAssumption == MaxOps \in Nat

Node == 0 .. Capacity - 1
kNullIndex == -1                    \* 0xFFFFFFFF
Index == Node \cup {kNullIndex}
List == {"m_head", "m_free_head"}
TaggedIndex == [index : Index, tag : 0 .. TagModulus - 1]
Nothing == [index |-> kNullIndex, tag |-> 0]    \* a local outside its scope

VARIABLES
    head,               \* m_head and m_free_head
    next, data,         \* the nodes of m_pool
    pc, op,             \* where each thread is, in push or in pop
    seen,               \* old_head or old_free_head of the running loop
    succ,               \* the next index read by a take
    node,               \* the node between the two lists
    arg, result,        \* the value to push, the value popped
    ops                 \* operations begun so far

pool == <<next, data>>
vars == <<head, pool, pc, op, seen, succ, node, arg, result, ops>>

From(t) == IF op[t] = "push" THEN "m_free_head" ELSE "m_head"
To(t) == IF op[t] = "push" THEN "m_head" ELSE "m_free_head"

Init ==
    /\ head = [m_head |-> [index |-> kNullIndex, tag |-> 0],
               m_free_head |-> [index |-> 0, tag |-> 0]]
    /\ next = [n \in Node |-> IF n = Capacity - 1 THEN kNullIndex ELSE n + 1]
    /\ data = [n \in Node |-> NoValue]
    /\ pc = [t \in Threads |-> "idle"]
    /\ op = [t \in Threads |-> "pop"]
    /\ seen = [t \in Threads |-> Nothing]
    /\ succ = [t \in Threads |-> kNullIndex]
    /\ node = [t \in Threads |-> kNullIndex]
    /\ arg = [t \in Threads |-> NoValue]
    /\ result = [t \in Threads |-> NoValue]
    /\ ops = 0

\* Mutant: the tag never changes.
SameTag(g) == g

NextTag(g) == (g + 1) % TagModulus

-----------------------------------------------------------------------------
BeginPush(t, v) ==
    /\ pc[t] = "idle"
    /\ ops < MaxOps
    /\ ops' = ops + 1
    /\ op' = [op EXCEPT ![t] = "push"]
    /\ arg' = [arg EXCEPT ![t] = v]
    /\ pc' = [pc EXCEPT ![t] = "take"]
    /\ UNCHANGED <<head, pool, seen, succ, node, result>>

BeginPop(t) ==
    /\ pc[t] = "idle"
    /\ ops < MaxOps
    /\ ops' = ops + 1
    /\ op' = [op EXCEPT ![t] = "pop"]
    /\ pc' = [pc EXCEPT ![t] = "take"]
    /\ UNCHANGED <<head, pool, seen, succ, node, arg, result>>

(* Taking a node off a list. *)

\* The head is read, first or by a compare_exchange that finds another one.  An empty free
\* list makes push return false, an empty stack makes pop return nullopt.
TakeLoad(t) ==
    LET h == head[From(t)] IN
    /\ pc[t] = "take" \/ (pc[t] = "takeCas" /\ h # seen[t])
    /\ seen' = [seen EXCEPT ![t] = IF h.index = kNullIndex THEN Nothing ELSE h]
    /\ pc' = [pc EXCEPT ![t] = IF h.index = kNullIndex THEN "idle" ELSE "takeNext"]
    /\ result' = [result EXCEPT ![t] =
           IF h.index = kNullIndex /\ op[t] = "pop" THEN NoValue ELSE @]
    /\ succ' = [succ EXCEPT ![t] = kNullIndex]
    /\ arg' = [arg EXCEPT ![t] = IF h.index = kNullIndex THEN NoValue ELSE @]
    /\ UNCHANGED <<head, pool, op, node, ops>>

TakeNext(t) ==
    /\ pc[t] = "takeNext"
    /\ succ' = [succ EXCEPT ![t] = next[seen[t].index]]
    /\ pc' = [pc EXCEPT ![t] = "takeCas"]
    /\ UNCHANGED <<head, pool, op, seen, node, arg, result, ops>>

TakeCas(t) ==
    /\ pc[t] = "takeCas"
    /\ head[From(t)] = seen[t]
    /\ head' = [head EXCEPT ![From(t)] = [index |-> succ[t], tag |-> NextTag(seen[t].tag)]]
    /\ node' = [node EXCEPT ![t] = seen[t].index]
    /\ pc' = [pc EXCEPT ![t] = "access"]
    /\ seen' = [seen EXCEPT ![t] = Nothing]
    /\ succ' = [succ EXCEPT ![t] = kNullIndex]
    /\ UNCHANGED <<pool, op, arg, result, ops>>

\* The node is private: push writes its data ...
WriteData(t) ==
    /\ pc[t] = "access" /\ op[t] = "push"
    /\ data' = [data EXCEPT ![node[t]] = arg[t]]
    /\ arg' = [arg EXCEPT ![t] = NoValue]
    /\ pc' = [pc EXCEPT ![t] = "put"]
    /\ UNCHANGED <<head, next, op, seen, succ, node, result, ops>>

\* ... pop moves it out and clears it.
ExtractData(t) ==
    /\ pc[t] = "access" /\ op[t] = "pop"
    /\ result' = [result EXCEPT ![t] = data[node[t]]]
    /\ data' = [data EXCEPT ![node[t]] = NoValue]
    /\ pc' = [pc EXCEPT ![t] = "put"]
    /\ UNCHANGED <<head, next, op, seen, succ, node, arg, ops>>

(* Putting the node on the other list. *)

\* Mutant: a retry does not link the node to the new head.
PutLoadOldLink(t) ==
    /\ pc[t] = "put" \/ (pc[t] = "putCas" /\ head[To(t)] # seen[t])
    /\ seen' = [seen EXCEPT ![t] = head[To(t)]]
    /\ pc' = [pc EXCEPT ![t] = IF @ = "put" THEN "putNext" ELSE "putCas"]
    /\ UNCHANGED <<head, pool, op, succ, node, arg, result, ops>>

\* Mutant: a retry still expects the old head.
PutLoadOldHead(t) ==
    /\ pc[t] = "put" \/ (pc[t] = "putCas" /\ head[To(t)] # seen[t])
    /\ seen' = [seen EXCEPT ![t] = IF pc[t] = "put" THEN head[To(t)] ELSE @]
    /\ pc' = [pc EXCEPT ![t] = "putNext"]
    /\ UNCHANGED <<head, pool, op, succ, node, arg, result, ops>>

\* The head is read, first or by a compare_exchange that finds another one.
PutLoad(t) ==
    /\ pc[t] = "put" \/ (pc[t] = "putCas" /\ head[To(t)] # seen[t])
    /\ seen' = [seen EXCEPT ![t] = head[To(t)]]
    /\ pc' = [pc EXCEPT ![t] = "putNext"]
    /\ UNCHANGED <<head, pool, op, succ, node, arg, result, ops>>

PutNext(t) ==
    /\ pc[t] = "putNext"
    /\ next' = [next EXCEPT ![node[t]] = seen[t].index]
    /\ pc' = [pc EXCEPT ![t] = "putCas"]
    /\ UNCHANGED <<head, data, op, seen, succ, node, arg, result, ops>>

PutCas(t) ==
    /\ pc[t] = "putCas"
    /\ head[To(t)] = seen[t]
    /\ head' = [head EXCEPT ![To(t)] = [index |-> node[t], tag |-> NextTag(seen[t].tag)]]
    /\ pc' = [pc EXCEPT ![t] = "idle"]
    /\ seen' = [seen EXCEPT ![t] = Nothing]
    /\ node' = [node EXCEPT ![t] = kNullIndex]
    /\ UNCHANGED <<pool, op, succ, arg, result, ops>>

-----------------------------------------------------------------------------
Step(t) ==
    \/ TakeLoad(t) \/ TakeNext(t) \/ TakeCas(t)
    \/ WriteData(t) \/ ExtractData(t)
    \/ PutLoad(t) \/ PutNext(t) \/ PutCas(t)

Begin(t) == BeginPop(t) \/ \E v \in Values : BeginPush(t, v)

\* The bound on operations is reached and all have returned.
Done ==
    /\ ops = MaxOps
    /\ \A t \in Threads : pc[t] = "idle"
    /\ UNCHANGED vars

Next == (\E t \in Threads : Step(t) \/ Begin(t)) \/ Done

Spec == Init /\ [][Next]_vars

\* Running threads proceed.
Fairness == \A t \in Threads : WF_vars(Step(t))

FairSpec == Spec /\ Fairness

-----------------------------------------------------------------------------
\* Types of m_head, m_free_head, m_pool and of the locals of push_impl and pop.
TypeOK ==
    /\ head \in [List -> TaggedIndex]
    /\ next \in [Node -> Index]
    /\ data \in [Node -> Values \cup {NoValue}]
    /\ pc \in [Threads -> {"idle", "take", "takeNext", "takeCas", "access",
                           "put", "putNext", "putCas"}]
    /\ op \in [Threads -> {"push", "pop"}]
    /\ seen \in [Threads -> TaggedIndex]
    /\ succ \in [Threads -> Index]
    /\ node \in [Threads -> Index]
    /\ arg \in [Threads -> Values \cup {NoValue}]
    /\ result \in [Threads -> Values \cup {NoValue}]
    /\ ops \in 0 .. MaxOps

\* The nodes of a list, the first one first.
Chain(l) == ListFrom(head[l].index, next, kNullIndex, Node, Capacity)
Nodes(l) == ToSet(Chain(l))

\* The node a thread has between the two lists.
Private(t) ==
    IF pc[t] \in {"access", "put", "putNext", "putCas"} THEN {node[t]} ELSE {}

\* Every node is in exactly one place, on the stack, on the free list or in one
\* thread's hands, and the lists have no cycle: no node leaks, is popped twice,
\* or has its data touched by two threads.
OnePlace ==
    /\ \A l \in List : Ends(head[l].index, next, kNullIndex, Node, Capacity)
    /\ Nodes("m_head") \cap Nodes("m_free_head") = {}
    /\ \A t \in Threads :
        /\ Private(t) \cap (Nodes("m_head") \cup Nodes("m_free_head")) = {}
        /\ \A u \in Threads \ {t} : Private(t) \cap Private(u) = {}
    /\ Node = Nodes("m_head") \cup Nodes("m_free_head") \cup UNION {Private(t) : t \in Threads}

\* The values on the stack, top first.
Contents == LET c == Chain("m_head") IN [i \in DOMAIN c |-> data[c[i]]]

\* What a pop has got since its compare_exchange succeeded.
Taken == [t \in Threads |->
    IF pc[t] = "access" /\ op[t] = "pop" THEN data[node[t]] ELSE result[t]]

Lifo == INSTANCE BoundedStack WITH stack <- Contents, taken <- Taken

\* push and pop are atomic operations on a stack: the value popped is the top at
\* the compare_exchange, also when the node was popped and pushed again meanwhile
\* (ABA), and nullopt is only returned for an empty stack.
ImplementsStack == Lifo!Spec

\* Every push and pop returns when finitely many others interfere: one loop only
\* repeats because another operation made progress.
OpsReturn == \A t \in Threads : pc[t] # "idle" ~> pc[t] = "idle"
=============================================================================
