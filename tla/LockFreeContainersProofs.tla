---------------------- MODULE LockFreeContainersProofs ----------------------
(***************************************************************************)
(* The containers without locks, for any number of threads, nodes and      *)
(* calls: the ring buffer has no data race and is a queue, every node of   *)
(* the tagged stack is in one place and the stack is linearizable as long  *)
(* as no tag comes back, split reference counts delete each node of their  *)
(* stack once and make it linearizable, and hazard pointers protect what   *)
(* they hold.                                                              *)
(*                                                                         *)
(* The ring buffer and the linked structures are separate systems: what is *)
(* proved of one says nothing of the variables of the other.               *)
(***************************************************************************)
EXTENDS LockFreeContainers, LockFreeQueue, CountedQueueProofs, FiniteSetTheorems, SequenceTheorems, TLAPS

-----------------------------------------------------------------------------
(* LockFreeStack: types and tags                                           *)

Holds(t) == pc[t] \in {"access", "put", "putNext", "putCas"}
Taking(t) == pc[t] \in {"takeNext", "takeCas"}
Putting(t) == pc[t] \in {"putNext", "putCas"}

\* Operations that have still to change the head of l.
Pending(l) ==
    {t \in Threads : pc[t] \in {"take", "takeNext", "takeCas"} \/ (Holds(t) /\ To(t) = l)}

\* Every operation changes a head once, so that a tag counts operations.
TagsCount ==
    \A l \in List : IsFiniteSet(Pending(l)) /\ head[l].tag + Cardinality(Pending(l)) <= ops

\* What a loop has read is at most as new as the head, and the tag tells whether it is.
Current(t, l) ==
    /\ seen[t].tag <= head[l].tag
    /\ seen[t].tag = head[l].tag => seen[t] = head[l]

StackLocals(t) ==
    /\ Holds(t) => node[t] \in Node
    /\ Taking(t) => seen[t].index \in Node /\ Current(t, From(t))
    /\ Putting(t) => Current(t, To(t))
    /\ op[t] = "push" /\ pc[t] \in {"take", "takeNext", "takeCas", "access"} => arg[t] \in Values

KInv == TypeOK /\ TagsCount /\ \A t \in Threads : StackLocals(t)

LEMMA NodeFacts == kNullIndex \notin Node /\ kNullIndex \in Index /\ Node \subseteq Index
BY DEF kNullIndex, Node, Index

LEMMA ListFacts ==
    ASSUME TypeOK, NEW t \in Threads
    PROVE  From(t) \in List /\ To(t) \in List /\ From(t) # To(t)
BY DEF From, To, List, TypeOK

\* A head that changes gets a new tag.
LEMMA TagGrows ==
    ASSUME KInv, MaxOps < TagModulus, NEW l \in List, NEW t \in Pending(l)
    PROVE  /\ NextTag(head[l].tag) = head[l].tag + 1
           /\ head[l].tag + 1 \in 0 .. TagModulus - 1
           /\ IsFiniteSet(Pending(l) \ {t})
           /\ head[l].tag + 1 + Cardinality(Pending(l) \ {t}) <= ops
<1>1. PICK c \in Nat : c = Cardinality(Pending(l))
    BY FS_CardinalityType DEF KInv, TagsCount
<1>2. /\ IsFiniteSet(Pending(l)) /\ head[l].tag + c <= ops /\ c # 0
    BY <1>1, FS_EmptySet DEF KInv, TagsCount
<1>3. IsFiniteSet(Pending(l) \ {t}) /\ Cardinality(Pending(l) \ {t}) = c - 1
    BY <1>1, <1>2, FS_RemoveElement
<1>4. PICK g \in 0 .. TagModulus - 1 : g = head[l].tag
    BY DEF KInv, TypeOK, TaggedIndex
<1>5. ops \in 0 .. MaxOps /\ TagModulus \in Nat \ {0} /\ MaxOps \in Nat
    BY TagAssumption, OpsAssumption DEF KInv, TypeOK
<1>6. g + 1 \in 0 .. TagModulus - 1
    BY <1>2, <1>4, <1>5
<1>7. (g + 1) % TagModulus = g + 1
    BY <1>5, <1>6
<1> QED BY <1>2, <1>3, <1>4, <1>5, <1>6, <1>7 DEF NextTag

LEMMA KInitInv == Init => KInv
<1> SUFFICES ASSUME Init PROVE KInv
    OBVIOUS
<1>1. TypeOK
    <2>1. 0 \in Node /\ 0 \in 0 .. TagModulus - 1 /\ 0 \in 0 .. MaxOps
        BY CapacityAssumption, TagAssumption, OpsAssumption DEF Node
    <2>2. head \in [List -> TaggedIndex]
        BY <2>1, NodeFacts DEF Init, List, TaggedIndex, Index
    <2>3. next \in [Node -> Index]
        BY CapacityAssumption DEF Init, Node, Index, kNullIndex
    <2>4. Nothing \in TaggedIndex
        BY <2>1, NodeFacts DEF Nothing, TaggedIndex
    <2> QED BY <2>1, <2>2, <2>3, <2>4, NodeFacts DEF Init, TypeOK
<1>2. TagsCount
    <2> SUFFICES ASSUME NEW l \in List
                 PROVE  IsFiniteSet(Pending(l)) /\ head[l].tag + Cardinality(Pending(l)) <= ops
        BY DEF TagsCount
    <2>1. Pending(l) = {}
        BY DEF Pending, Init, Holds
    <2>2. head[l].tag = 0 /\ ops = 0
        BY DEF Init, List
    <2> QED BY <2>1, <2>2, FS_EmptySet
<1>3. \A t \in Threads : StackLocals(t)
    BY DEF Init, StackLocals, Holds, Taking, Putting
<1> QED BY <1>1, <1>2, <1>3 DEF KInv

\* Calls that begin or end.
LEMMA KBegin ==
    ASSUME KInv, NEW t \in Threads, Begin(t)
    PROVE  KInv'
<1>1. /\ pc[t] = "idle" /\ pc' = [pc EXCEPT ![t] = "take"]
      /\ op' \in [Threads -> {"push", "pop"}] /\ \A u \in Threads \ {t} : op'[u] = op[u]
      /\ ops' = ops + 1 /\ ops < MaxOps
      /\ UNCHANGED <<head, next, data, seen, succ, node, result>>
    BY DEF Begin, BeginPush, BeginPop, KInv, TypeOK, pool
<1>2. /\ arg' \in [Threads -> Values \cup {NoValue}] /\ \A u \in Threads \ {t} : arg'[u] = arg[u]
      /\ op'[t] = "push" => arg'[t] \in Values
    BY DEF Begin, BeginPush, BeginPop, KInv, TypeOK
<1>3. TypeOK'
    <2>1. ops' \in 0 .. MaxOps
        BY <1>1, OpsAssumption DEF KInv, TypeOK
    <2> QED BY <1>1, <1>2, <2>1 DEF KInv, TypeOK
<1>4. TagsCount'
    <2> SUFFICES ASSUME NEW l \in List
                 PROVE  IsFiniteSet(Pending(l)') /\ head'[l].tag + Cardinality(Pending(l)') <= ops'
        BY DEF TagsCount
    <2>1. Pending(l)' = Pending(l) \cup {t} /\ t \notin Pending(l)
        BY <1>1 DEF Pending, KInv, TypeOK, Holds, To
    <2>2. PICK c \in Nat : c = Cardinality(Pending(l))
        BY FS_CardinalityType DEF KInv, TagsCount
    <2>3. IsFiniteSet(Pending(l)) /\ head[l].tag + c <= ops
        BY <2>2 DEF KInv, TagsCount
    <2>4. IsFiniteSet(Pending(l)') /\ Cardinality(Pending(l)') = c + 1
        BY <2>1, <2>2, <2>3, FS_AddElement
    <2>5. PICK g \in Nat : g = head[l].tag
        BY TagAssumption DEF KInv, TypeOK, TaggedIndex
    <2> QED BY <2>3, <2>4, <2>5, <1>1 DEF KInv, TypeOK
<1>5. ASSUME NEW u \in Threads PROVE StackLocals(u)'
    BY <1>1, <1>2 DEF StackLocals, KInv, TypeOK, Holds, Taking, Putting, Current, From, To
<1> QED BY <1>3, <1>4, <1>5 DEF KInv

\* Types and the nodes in hand, for every step of push_impl and pop.
LEMMA KTypes ==
    ASSUME KInv, NEW t \in Threads, Step(t)
    PROVE  TypeOK'
<1> USE DEF KInv, TypeOK
<1>1. CASE TakeLoad(t)
    <2>1. head[From(t)] \in TaggedIndex /\ Nothing \in TaggedIndex
        BY ListFacts, NodeFacts, TagAssumption DEF Nothing, TaggedIndex
    <2> QED BY <1>1, <2>1, NodeFacts DEF TakeLoad, pool
<1>2. CASE TakeNext(t)
    <2>1. seen[t].index \in Node
        BY <1>2 DEF TakeNext, StackLocals, Taking
    <2> QED BY <1>2, <2>1 DEF TakeNext, pool
<1>3. CASE TakeCas(t)
    <2>1. seen[t] \in TaggedIndex /\ seen[t].index \in Node /\ succ[t] \in Index
        BY <1>3 DEF TakeCas, StackLocals, Taking
    <2>2. NextTag(seen[t].tag) \in 0 .. TagModulus - 1
        BY <2>1, TagAssumption DEF NextTag, TaggedIndex
    <2>3. [index |-> succ[t], tag |-> NextTag(seen[t].tag)] \in TaggedIndex /\ Nothing \in TaggedIndex
        BY <2>1, <2>2, NodeFacts, TagAssumption DEF Nothing, TaggedIndex
    <2> QED BY <1>3, <2>1, <2>3, NodeFacts, ListFacts DEF TakeCas, pool
<1>4. CASE WriteData(t)
    <2>1. node[t] \in Node
        BY <1>4 DEF WriteData, StackLocals, Holds
    <2> QED BY <1>4, <2>1 DEF WriteData
<1>5. CASE ExtractData(t)
    <2>1. node[t] \in Node
        BY <1>5 DEF ExtractData, StackLocals, Holds
    <2> QED BY <1>5, <2>1 DEF ExtractData
<1>6. CASE PutLoad(t)
    BY <1>6, ListFacts DEF PutLoad, pool
<1>7. CASE PutNext(t)
    <2>1. seen[t].index \in Index
        BY DEF TaggedIndex
    <2> QED BY <1>7, <2>1 DEF PutNext
<1>8. CASE PutCas(t)
    <2>1. seen[t] \in TaggedIndex /\ node[t] \in Node
        BY <1>8 DEF PutCas, StackLocals, Holds
    <2>2. NextTag(seen[t].tag) \in 0 .. TagModulus - 1
        BY <2>1, TagAssumption DEF NextTag, TaggedIndex
    <2>3. [index |-> node[t], tag |-> NextTag(seen[t].tag)] \in TaggedIndex /\ Nothing \in TaggedIndex
        BY <2>1, <2>2, NodeFacts, TagAssumption DEF Nothing, TaggedIndex
    <2> QED BY <1>8, <2>1, <2>3, NodeFacts, ListFacts DEF PutCas, pool
<1> QED BY <1>1, <1>2, <1>3, <1>4, <1>5, <1>6, <1>7, <1>8 DEF Step

\* Steps that leave the heads alone.
LEMMA KQuiet ==
    ASSUME KInv, NEW t \in Threads, UNCHANGED <<head, op, ops>>,
           \A u \in Threads \ {t} : pc'[u] = pc[u],
           \A l \in List : t \in Pending(l)' => t \in Pending(l)
    PROVE  TagsCount'
<1> SUFFICES ASSUME NEW l \in List
             PROVE  IsFiniteSet(Pending(l)') /\ head'[l].tag + Cardinality(Pending(l)') <= ops'
    BY DEF TagsCount
<1>1. Pending(l)' \subseteq Pending(l)
    <2> SUFFICES ASSUME NEW u \in Pending(l)', u # t PROVE u \in Pending(l)
        OBVIOUS
    <2>1. u \in Threads /\ pc'[u] = pc[u] /\ op'[u] = op[u]
        BY DEF Pending
    <2> QED BY <2>1 DEF Pending, Holds, To
<1>2. IsFiniteSet(Pending(l)) /\ head[l].tag + Cardinality(Pending(l)) <= ops
    BY DEF KInv, TagsCount
<1>3. /\ IsFiniteSet(Pending(l)') /\ Cardinality(Pending(l)') <= Cardinality(Pending(l))
      /\ Cardinality(Pending(l)') \in Nat /\ Cardinality(Pending(l)) \in Nat
    BY <1>1, <1>2, FS_Subset, FS_CardinalityType
<1>4. PICK g \in Nat : g = head[l].tag
    BY TagAssumption DEF KInv, TypeOK, TaggedIndex
<1> QED BY <1>2, <1>3, <1>4 DEF KInv, TypeOK

\* A compare_exchange that succeeds on l.
LEMMA KSwap ==
    ASSUME KInv, MaxOps < TagModulus, NEW t \in Threads, NEW l \in List,
           seen[t] = head[l], t \in Pending(l), t \notin Pending(l)',
           \A k \in List \ {l} : head'[k] = head[k] /\ (t \in Pending(k)' => t \in Pending(k)),
           head'[l].tag = NextTag(seen[t].tag),
           UNCHANGED <<op, ops>>, \A u \in Threads \ {t} : pc'[u] = pc[u]
    PROVE  /\ TagsCount'
           /\ head'[l].tag = head[l].tag + 1
           /\ \A u \in Threads \ {t}, k \in List : seen'[u] = seen[u] /\ Current(u, k) => Current(u, k)'
<1>1. head'[l].tag = head[l].tag + 1
    BY TagGrows
<1>2. ASSUME NEW k \in List, NEW u \in Threads, u # t
      PROVE  u \in Pending(k)' <=> u \in Pending(k)
    BY <1>2 DEF Pending, Holds, To
<1>3. ASSUME NEW k \in List
      PROVE  IsFiniteSet(Pending(k)') /\ head'[k].tag + Cardinality(Pending(k)') <= ops'
    <2>1. CASE k = l
        <3>1. Pending(l)' = Pending(l) \ {t}
            <4>1. Pending(l)' \subseteq Threads /\ Pending(l) \subseteq Threads
                BY DEF Pending
            <4> QED BY <4>1, <1>2
        <3> QED BY <2>1, <3>1, <1>1, TagGrows
    <2>2. CASE k # l
        <3>1. Pending(k)' \subseteq Pending(k)
            <4>1. Pending(k)' \subseteq Threads
                BY DEF Pending
            <4> QED BY <4>1, <1>2, <2>2
        <3>2. IsFiniteSet(Pending(k)) /\ head[k].tag + Cardinality(Pending(k)) <= ops
            BY DEF KInv, TagsCount
        <3>3. /\ IsFiniteSet(Pending(k)') /\ Cardinality(Pending(k)') <= Cardinality(Pending(k))
              /\ Cardinality(Pending(k)') \in Nat /\ Cardinality(Pending(k)) \in Nat
            BY <3>1, <3>2, FS_Subset, FS_CardinalityType
        <3>4. PICK g \in Nat : g = head[k].tag
            BY TagAssumption DEF KInv, TypeOK, TaggedIndex
        <3> QED BY <2>2, <3>2, <3>3, <3>4 DEF KInv, TypeOK
    <2> QED BY <2>1, <2>2
<1>4. ASSUME NEW u \in Threads \ {t}, NEW k \in List, seen'[u] = seen[u], Current(u, k)
      PROVE  Current(u, k)'
    <2>1. PICK g \in Nat : g = head[k].tag
        BY TagAssumption DEF KInv, TypeOK, TaggedIndex
    <2>2. PICK s \in Nat : s = seen[u].tag
        BY TagAssumption DEF KInv, TypeOK, TaggedIndex
    <2>3. CASE k = l
        <3>1. s <= g /\ head'[k].tag = g + 1
            BY <2>1, <2>2, <2>3, <1>1, <1>4 DEF Current
        <3>2. s <= g + 1 /\ s # g + 1
            BY <3>1
        <3> QED BY <3>1, <3>2, <2>2, <1>4 DEF Current
    <2>4. CASE k # l
        BY <2>4, <1>4 DEF Current
    <2> QED BY <2>3, <2>4
<1> QED BY <1>1, <1>3, <1>4 DEF TagsCount

LEMMA KStep ==
    ASSUME KInv, MaxOps < TagModulus, NEW t \in Threads, Step(t)
    PROVE  KInv'
<1>1. TypeOK'
    BY KTypes
<1>f. From(t) \in List /\ To(t) \in List /\ From(t) # To(t)
    BY ListFacts DEF KInv
<1>2. CASE TakeLoad(t)
    <2>1. /\ UNCHANGED <<head, op, ops, node>> /\ pc[t] \in {"take", "takeCas"}
          /\ pc'[t] \in {"idle", "takeNext"}
          /\ \A u \in Threads \ {t} : pc'[u] = pc[u] /\ seen'[u] = seen[u] /\ arg'[u] = arg[u]
          /\ pc'[t] = "takeNext" => /\ head[From(t)].index # kNullIndex /\ seen'[t] = head[From(t)]
                                    /\ arg'[t] = arg[t]
        BY <1>2 DEF TakeLoad, KInv, TypeOK
    <2>2. \A l \in List : t \in Pending(l)' => t \in Pending(l)
        BY <2>1 DEF Pending
    <2>3. TagsCount'
        BY <2>1, <2>2, KQuiet
    <2>4. ASSUME NEW u \in Threads PROVE StackLocals(u)'
        <3>1. CASE u # t
            BY <3>1, <2>1 DEF StackLocals, KInv, Holds, Taking, Putting, Current, From, To
        <3>2. CASE u = t
            <4>1. pc'[t] = "takeNext" => head[From(t)].index \in Node
                BY <2>1, <1>f DEF KInv, TypeOK, TaggedIndex, Index
            <4>2. pc'[t] = "takeNext" => head[From(t)].tag <= head[From(t)].tag
                BY <1>f, TagAssumption DEF KInv, TypeOK, TaggedIndex
            <4> QED BY <3>2, <4>1, <4>2, <2>1 DEF StackLocals, KInv, Holds, Taking, Putting, Current, From, To
        <3> QED BY <3>1, <3>2
    <2> QED BY <1>1, <2>3, <2>4 DEF KInv
<1>3. CASE TakeNext(t) \/ WriteData(t) \/ ExtractData(t) \/ PutNext(t)
    <2>1. /\ UNCHANGED <<head, op, ops, node, seen>>
          /\ \A u \in Threads \ {t} : pc'[u] = pc[u] /\ arg'[u] = arg[u]
          /\ \/ pc[t] = "takeNext" /\ pc'[t] = "takeCas" /\ arg'[t] = arg[t]
             \/ pc[t] = "access" /\ pc'[t] = "put"
             \/ pc[t] = "putNext" /\ pc'[t] = "putCas"
        BY <1>3 DEF TakeNext, WriteData, ExtractData, PutNext, KInv, TypeOK
    <2>2. \A l \in List : t \in Pending(l)' => t \in Pending(l)
        BY <2>1 DEF Pending, Holds, To
    <2>3. TagsCount'
        BY <2>1, <2>2, KQuiet
    <2>4. ASSUME NEW u \in Threads PROVE StackLocals(u)'
        BY <2>1 DEF StackLocals, KInv, Holds, Taking, Putting, Current, From, To
    <2> QED BY <1>1, <2>3, <2>4 DEF KInv
<1>4. CASE PutLoad(t)
    <2>1. /\ UNCHANGED <<head, op, ops, node, arg>> /\ pc[t] \in {"put", "putCas"}
          /\ pc'[t] = "putNext" /\ seen'[t] = head[To(t)]
          /\ \A u \in Threads \ {t} : pc'[u] = pc[u] /\ seen'[u] = seen[u]
        BY <1>4 DEF PutLoad, KInv, TypeOK
    <2>2. \A l \in List : t \in Pending(l)' => t \in Pending(l)
        BY <2>1 DEF Pending, Holds, To
    <2>3. TagsCount'
        BY <2>1, <2>2, KQuiet
    <2>4. ASSUME NEW u \in Threads PROVE StackLocals(u)'
        <3>1. CASE u # t
            BY <3>1, <2>1 DEF StackLocals, KInv, Holds, Taking, Putting, Current, From, To
        <3>2. CASE u = t
            <4>1. head[To(t)].tag <= head[To(t)].tag
                BY <1>f, TagAssumption DEF KInv, TypeOK, TaggedIndex
            <4> QED BY <3>2, <4>1, <2>1 DEF StackLocals, KInv, Holds, Taking, Putting, Current, From, To
        <3> QED BY <3>1, <3>2
    <2> QED BY <1>1, <2>3, <2>4 DEF KInv
<1>5. CASE TakeCas(t)
    <2>1. /\ UNCHANGED <<op, ops, arg>> /\ pc[t] = "takeCas" /\ pc'[t] = "access"
          /\ seen[t] = head[From(t)] /\ node'[t] = seen[t].index /\ seen[t].index \in Node
          /\ head'[From(t)].tag = NextTag(seen[t].tag)
          /\ \A k \in List \ {From(t)} : head'[k] = head[k]
          /\ \A u \in Threads \ {t} : pc'[u] = pc[u] /\ seen'[u] = seen[u] /\ node'[u] = node[u]
        BY <1>5, <1>f DEF TakeCas, KInv, TypeOK, StackLocals, Taking
    <2>l. PICK l \in List : l = From(t)
        BY <1>f
    <2>2. t \in Pending(l) /\ t \notin Pending(l)'
        <3>1. To(t)' = To(t) /\ To(t) # l
            BY <2>1, <2>l, <1>f DEF To
        <3> QED BY <2>1, <3>1 DEF Pending, Holds
    <2>3. \A k \in List : t \in Pending(k)' => t \in Pending(k)
        BY <2>1 DEF Pending
    <2>4. /\ TagsCount'
          /\ \A u \in Threads \ {t}, k \in List : seen'[u] = seen[u] /\ Current(u, k) => Current(u, k)'
        BY <2>1, <2>2, <2>3, <2>l, KSwap
    <2>5. ASSUME NEW u \in Threads PROVE StackLocals(u)'
        <3>1. CASE u # t
            <4>1. From(u)' = From(u) /\ To(u)' = To(u) /\ From(u) \in List /\ To(u) \in List
                BY <2>1, ListFacts DEF KInv, From, To
            <4> QED BY <3>1, <2>1, <2>4, <4>1 DEF StackLocals, KInv, Holds, Taking, Putting
        <3>2. CASE u = t
            BY <3>2, <2>1 DEF StackLocals, KInv, Holds, Taking, Putting
        <3> QED BY <3>1, <3>2
    <2> QED BY <1>1, <2>4, <2>5 DEF KInv
<1>6. CASE PutCas(t)
    <2>1. /\ UNCHANGED <<op, ops, arg>> /\ pc[t] = "putCas" /\ pc'[t] = "idle"
          /\ seen[t] = head[To(t)] /\ head'[To(t)].tag = NextTag(seen[t].tag)
          /\ \A k \in List \ {To(t)} : head'[k] = head[k]
          /\ \A u \in Threads \ {t} : pc'[u] = pc[u] /\ seen'[u] = seen[u] /\ node'[u] = node[u]
        BY <1>6, <1>f DEF PutCas, KInv, TypeOK
    <2>2. t \in Pending(To(t)) /\ \A k \in List : t \notin Pending(k)'
        BY <2>1, <1>f DEF Pending, Holds
    <2>4. /\ TagsCount'
          /\ \A u \in Threads \ {t}, k \in List : seen'[u] = seen[u] /\ Current(u, k) => Current(u, k)'
        BY <2>1, <2>2, <1>f, KSwap
    <2>5. ASSUME NEW u \in Threads PROVE StackLocals(u)'
        <3>1. CASE u # t
            <4>1. From(u)' = From(u) /\ To(u)' = To(u) /\ From(u) \in List /\ To(u) \in List
                BY <2>1, ListFacts DEF KInv, From, To
            <4> QED BY <3>1, <2>1, <2>4, <4>1 DEF StackLocals, KInv, Holds, Taking, Putting
        <3>2. CASE u = t
            BY <3>2, <2>1 DEF StackLocals, KInv, Holds, Taking, Putting
        <3> QED BY <3>1, <3>2
    <2> QED BY <1>1, <2>4, <2>5 DEF KInv
<1> QED BY <1>2, <1>3, <1>4, <1>5, <1>6 DEF Step

LEMMA KNext ==
    ASSUME MaxOps < TagModulus
    PROVE  KInv /\ [Next]_vars => KInv'
<1> SUFFICES ASSUME KInv, [Next]_vars PROVE KInv'
    OBVIOUS
<1>1. CASE UNCHANGED vars
    <2>1. UNCHANGED <<head, next, data, pc, op, seen, succ, node, arg, result, ops>>
        BY <1>1 DEF vars, pool
    <2> QED BY <2>1 DEF KInv, TypeOK, TagsCount, Pending, StackLocals, Holds, Taking, Putting,
                        Current, From, To
<1> QED BY <1>1, KStep, KBegin DEF Next, Done

-----------------------------------------------------------------------------
(* LockFreeStack: the two lists                                            *)

\* q gives the nodes of the lists.  No node is in both, in one twice, or in the hands
\* of a thread and somewhere else.
Lists(q) ==
    \A l \in List : Linked(head[l].index, next, kNullIndex, q[l]) /\ Once(q[l])

Layout(q) ==
    /\ \A l, k \in List : \A n : In(q[l], n) /\ In(q[k], n) => l = k
    /\ \A t \in Threads, l \in List : Holds(t) => ~In(q[l], node[t])
    /\ \A t, u \in Threads : Holds(t) /\ Holds(u) /\ node[t] = node[u] => t = u
    /\ \A n \in Node : (\E l \in List : In(q[l], n)) \/ \E t \in Threads : Holds(t) /\ node[t] = n

\* What a compare_exchange is about to do is right if the head is the one that was read.
Links(t) ==
    /\ pc[t] = "takeCas" /\ seen[t] = head[From(t)] => succ[t] = next[seen[t].index]
    /\ pc[t] = "putCas" => next[node[t]] = seen[t].index
    /\ op[t] = "push" /\ pc[t] \in {"put", "putNext", "putCas"} => data[node[t]] \in Values

StackInv ==
    /\ KInv
    /\ \E q \in [List -> Seq(Node)] : Lists(q) /\ Layout(q)
    /\ \A t \in Threads : Links(t)

LEMMA StackInit == Init => StackInv
<1> SUFFICES ASSUME Init PROVE StackInv
    OBVIOUS
<1>1. PICK b : b = [i \in 1 .. Capacity |-> i - 1]
    OBVIOUS
<1>2. PICK q : q = [l \in List |-> IF l = "m_head" THEN <<>> ELSE b]
    OBVIOUS
<1>3. /\ b \in Seq(Node) /\ Len(b) = Capacity /\ DOMAIN b = 1 .. Capacity /\ b # <<>>
      /\ \A i \in 1 .. Capacity : b[i] = i - 1
    <2>1. b \in [1 .. Capacity -> Node]
        BY <1>1, CapacityAssumption DEF Node
    <2>2. b \in Seq(Node) /\ Len(b) = Capacity
        BY <2>1, CapacityAssumption
    <2>3. b # <<>>
        BY <2>2, CapacityAssumption, EmptySeq
    <2> QED BY <2>1, <2>2, <2>3, <1>1
<1>4. q \in [List -> Seq(Node)] /\ q["m_head"] = <<>> /\ q["m_free_head"] = b
    BY <1>2, <1>3 DEF List
<1>5. Lists(q)
    <2>1. Linked(head["m_head"].index, next, kNullIndex, <<>>) /\ Once(<<>>)
        BY EmptyIn DEF Init, Linked
    <2>2. Linked(0, next, kNullIndex, b)
        <3>1. ASSUME NEW i \in 1 .. Capacity
              PROVE  next[b[i]] = IF i = Len(b) THEN kNullIndex ELSE b[i + 1]
            <4>1. b[i] = i - 1 /\ i - 1 \in Node
                BY <1>3, CapacityAssumption DEF Node
            <4>2. next[i - 1] = IF i - 1 = Capacity - 1 THEN kNullIndex ELSE (i - 1) + 1
                BY <4>1 DEF Init
            <4>3. i # Capacity => b[i + 1] = i
                BY <1>3, CapacityAssumption
            <4> QED BY <4>1, <4>2, <4>3, <1>3, CapacityAssumption
        <3>2. b[1] = 0
            BY <1>3, CapacityAssumption
        <3> QED BY <3>1, <3>2, <1>3 DEF Linked
    <2>3. Once(b)
        BY <1>3, CapacityAssumption DEF Once
    <2>4. head["m_free_head"].index = 0
        BY DEF Init
    <2> QED BY <2>1, <2>2, <2>3, <2>4, <1>4 DEF Lists, List
<1>6. Layout(q)
    <2>1. \A n \in Node : In(b, n)
        <3> SUFFICES ASSUME NEW n \in Node PROVE In(b, n)
            OBVIOUS
        <3>1. n + 1 \in 1 .. Capacity /\ b[n + 1] = n
            BY <1>3, CapacityAssumption DEF Node
        <3> QED BY <3>1, <1>3 DEF In
    <2>2. \A t \in Threads : ~Holds(t)
        BY DEF Init, Holds
    <2> QED BY <2>1, <2>2, <1>4, EmptyIn DEF Layout, List
<1>7. \A t \in Threads : Links(t)
    BY DEF Init, Links
<1> QED BY <1>4, <1>5, <1>6, <1>7, KInitInv DEF StackInv

\* The head of a list that is not empty is one of its nodes.
LEMMA HeadListed ==
    ASSUME TypeOK, NEW q \in [List -> Seq(Node)], Lists(q), NEW l \in List, head[l].index # kNullIndex
    PROVE  q[l] # <<>> /\ Head(q[l]) = head[l].index /\ In(q[l], head[l].index)
<1>1. PICK s \in Seq(Node) : s = q[l]
    OBVIOUS
<1>2. PICK x : x = head[l].index
    OBVIOUS
<1>3. Linked(x, next, kNullIndex, s) /\ x # kNullIndex /\ kNullIndex \notin Node
    BY <1>1, <1>2, NodeFacts DEF Lists
<1>4. s # <<>> /\ Head(s) = x
    BY <1>3, ListPop, Zenon
<1> QED BY <1>1, <1>2, <1>4, TailIn

\* Steps that neither take a node off a list nor put one on it.
LEMMA StackQuiet ==
    ASSUME UNCHANGED <<head, next, node>>, \A u \in Threads : Holds(u)' <=> Holds(u),
           NEW q, Lists(q), Layout(q)
    PROVE  Lists(q)' /\ Layout(q)'
BY DEF Lists, Layout

LEMMA StackTake ==
    ASSUME StackInv, MaxOps < TagModulus, NEW t \in Threads, TakeCas(t),
           NEW q \in [List -> Seq(Node)], Lists(q), Layout(q),
           NEW l \in List, l = From(t), NEW p, p = [q EXCEPT ![l] = Tail(@)]
    PROVE  /\ p \in [List -> Seq(Node)] /\ Lists(p)' /\ Layout(p)'
           /\ q[l] # <<>> /\ node'[t] = Head(q[l])
<1>x. PICK x : x = seen[t].index
    OBVIOUS
<1>1. /\ pc[t] = "takeCas" /\ head[l] = seen[t] /\ x \in Node /\ head[l].index = x
      /\ succ[t] = next[x]
      /\ head' = [head EXCEPT ![l] = [index |-> succ[t], tag |-> NextTag(seen[t].tag)]]
      /\ node' = [node EXCEPT ![t] = x] /\ next' = next
      /\ pc' = [pc EXCEPT ![t] = "access"]
    BY <1>x DEF TakeCas, StackInv, Links, KInv, StackLocals, Taking, pool
<1>2. x # kNullIndex
    BY <1>1, NodeFacts
<1>3. q[l] \in Seq(Node) /\ q[l] # <<>> /\ Head(q[l]) = x /\ In(q[l], x)
    BY <1>1, <1>2, HeadListed DEF StackInv, KInv
<1>4. /\ Tail(q[l]) \in Seq(Node) /\ Once(q[l])
      /\ Linked(next[x], next, kNullIndex, Tail(q[l]))
    <2>1. PICK s \in Seq(Node) : s = q[l]
        BY <1>3
    <2>2. Linked(x, next, kNullIndex, s) /\ Once(s) /\ kNullIndex \notin Node
        BY <1>1, <2>1, NodeFacts DEF Lists
    <2>3. Linked(next[x], next, kNullIndex, Tail(s))
        BY <1>2, <2>2, ListPop, Zenon
    <2> QED BY <1>3, <2>1, <2>2, <2>3, TailIn
<1>5. Once(Tail(q[l])) /\ \A e : In(Tail(q[l]), e) <=> In(q[l], e) /\ e # x
    BY <1>3, <1>4, TailIn
<1>6. /\ p \in [List -> Seq(Node)] /\ p[l] = Tail(q[l])
      /\ \A k \in List : k # l => p[k] = q[k]
    BY <1>4
<1>7. \A k \in List : \A e : In(p[k], e) <=> In(q[k], e) /\ ~(k = l /\ e = x)
    BY <1>5, <1>6
<1>8. head'[l].index = next[x] /\ \A k \in List : k # l => head'[k] = head[k]
    BY <1>1 DEF StackInv, KInv, TypeOK
<1>9. Lists(p)'
    BY <1>1, <1>4, <1>5, <1>6, <1>8 DEF Lists
<1>10. /\ \A u \in Threads : Holds(u)' <=> Holds(u) \/ u = t
       /\ ~Holds(t) /\ node'[t] = x /\ \A u \in Threads : u # t => node'[u] = node[u]
    BY <1>1 DEF StackInv, KInv, TypeOK, Holds
<1>11. Layout(p)'
    <2>1. \A i, k \in List : \A n : In(p[i], n) /\ In(p[k], n) => i = k
        BY <1>7 DEF Layout
    <2>2. ASSUME NEW u \in Threads, NEW k \in List, Holds(u)' PROVE ~In(p[k], node'[u])
        <3>1. CASE u = t
            BY <3>1, <1>3, <1>7, <1>10 DEF Layout
        <3>2. CASE u # t
            BY <3>2, <2>2, <1>7, <1>10 DEF Layout
        <3> QED BY <3>1, <3>2
    <2>3. ASSUME NEW u \in Threads, NEW w \in Threads, Holds(u)', Holds(w)', node'[u] = node'[w]
          PROVE  u = w
        <3>1. \A v \in Threads : v # t /\ Holds(v) => node[v] # x
            BY <1>3 DEF Layout
        <3> QED BY <2>3, <3>1, <1>10 DEF Layout
    <2>4. ASSUME NEW n \in Node
          PROVE  (\E k \in List : In(p[k], n)) \/ \E u \in Threads : Holds(u)' /\ node'[u] = n
        <3>1. CASE n = x
            BY <3>1, <1>10
        <3>2. CASE n # x
            BY <3>2, <1>7, <1>10 DEF Layout
        <3> QED BY <3>1, <3>2
    <2> QED BY <2>1, <2>2, <2>3, <2>4 DEF Layout
<1> QED BY <1>3, <1>6, <1>9, <1>10, <1>11

LEMMA StackPut ==
    ASSUME StackInv, NEW t \in Threads, PutCas(t),
           NEW q \in [List -> Seq(Node)], Lists(q), Layout(q),
           NEW l \in List, l = To(t), NEW p, p = [q EXCEPT ![l] = <<node[t]>> \o @]
    PROVE  /\ p \in [List -> Seq(Node)] /\ Lists(p)' /\ Layout(p)'
           /\ node[t] \in Node
<1>x. PICK x : x = node[t]
    OBVIOUS
<1>1. /\ pc[t] = "putCas" /\ head[l] = seen[t] /\ x \in Node /\ next[x] = head[l].index
      /\ head' = [head EXCEPT ![l] = [index |-> x, tag |-> NextTag(seen[t].tag)]]
      /\ node' = [node EXCEPT ![t] = kNullIndex] /\ next' = next
      /\ pc' = [pc EXCEPT ![t] = "idle"]
    BY <1>x DEF PutCas, StackInv, Links, KInv, StackLocals, Holds, pool
<1>2. Holds(t) /\ \A k \in List : ~In(q[k], x)
    BY <1>x, <1>1 DEF Holds, Layout
<1>3. PICK s \in Seq(Node) : s = q[l]
    OBVIOUS
<1>4. Linked(next[x], next, kNullIndex, s) /\ Once(s) /\ ~In(s, x)
    BY <1>1, <1>2, <1>3 DEF Lists
<1>5. /\ <<x>> \o s \in Seq(Node) /\ Once(<<x>> \o s)
      /\ \A e : In(<<x>> \o s, e) <=> In(s, e) \/ e = x
    BY <1>1, <1>4, PushIn
<1>6. Linked(x, next, kNullIndex, <<x>> \o s)
    BY <1>1, <1>4, ListPush, Zenon
<1>7. /\ p \in [List -> Seq(Node)] /\ p[l] = <<x>> \o s
      /\ \A k \in List : k # l => p[k] = q[k]
    BY <1>3, <1>5, <1>x
<1>8. \A k \in List : \A e : In(p[k], e) <=> In(q[k], e) \/ (k = l /\ e = x)
    BY <1>3, <1>5, <1>7
<1>9. head'[l].index = x /\ \A k \in List : k # l => head'[k] = head[k]
    BY <1>1 DEF StackInv, KInv, TypeOK
<1>10. Lists(p)'
    BY <1>1, <1>5, <1>6, <1>7, <1>9 DEF Lists
<1>11. /\ \A u \in Threads : Holds(u)' <=> Holds(u) /\ u # t
       /\ \A u \in Threads : u # t => node'[u] = node[u]
    BY <1>1 DEF StackInv, KInv, TypeOK, Holds
<1>12. \A u \in Threads : u # t /\ Holds(u) => node[u] # x
    BY <1>x, <1>2 DEF Layout
<1>13. Layout(p)'
    <2>1. \A i, k \in List : \A n : In(p[i], n) /\ In(p[k], n) => i = k
        BY <1>2, <1>8 DEF Layout
    <2>2. \A u \in Threads, k \in List : Holds(u)' => ~In(p[k], node'[u])
        BY <1>8, <1>11, <1>12 DEF Layout
    <2>3. \A u, w \in Threads : Holds(u)' /\ Holds(w)' /\ node'[u] = node'[w] => u = w
        BY <1>11 DEF Layout
    <2>4. ASSUME NEW n \in Node
          PROVE  (\E k \in List : In(p[k], n)) \/ \E u \in Threads : Holds(u)' /\ node'[u] = n
        <3>1. CASE n = x
            BY <3>1, <1>8
        <3>2. CASE n # x
            BY <3>2, <1>x, <1>8, <1>11 DEF Layout
        <3> QED BY <3>1, <3>2
    <2> QED BY <2>1, <2>2, <2>3, <2>4 DEF Layout
<1> QED BY <1>x, <1>1, <1>7, <1>10, <1>13

\* A node that is written is in no list and in no other hands.
LEMMA StackLink ==
    ASSUME StackInv, NEW t \in Threads, PutNext(t),
           NEW q \in [List -> Seq(Node)], Lists(q), Layout(q)
    PROVE  Lists(q)' /\ Layout(q)'
<1>1. /\ Holds(t) /\ node[t] \in Node /\ next' = [next EXCEPT ![node[t]] = seen[t].index]
      /\ pc' = [pc EXCEPT ![t] = "putCas"] /\ UNCHANGED <<head, node>>
    BY DEF PutNext, Holds, StackInv, KInv, StackLocals
<1>2. \A n \in Node : n # node[t] => next'[n] = next[n]
    BY <1>1 DEF StackInv, KInv, TypeOK
<1>3. ASSUME NEW l \in List PROVE Linked(head[l].index, next', kNullIndex, q[l])
    <2>1. PICK s \in Seq(Node) : s = q[l]
        OBVIOUS
    <2>2. \A n : In(s, n) => n \in Node /\ n # node[t]
        <3>1. \A n : In(s, n) => n \in Node
            BY ElementOfSeq, LenProperties DEF In
        <3> QED BY <2>1, <3>1, <1>1 DEF Layout
    <2>3. \A n : In(s, n) => next'[n] = next[n]
        BY <1>2, <2>2
    <2>4. Linked(head[l].index, next, kNullIndex, s)
        BY <2>1 DEF Lists
    <2>5. Linked(head[l].index, next', kNullIndex, s)
        BY <2>3, <2>4, ListFrame, Zenon
    <2> QED BY <2>1, <2>5
<1>4. Lists(q)'
    BY <1>1, <1>3 DEF Lists
<1>5. \A u \in Threads : Holds(u)' <=> Holds(u)
    BY <1>1 DEF Holds, PutNext, StackInv, KInv, TypeOK
<1> QED BY <1>1, <1>4, <1>5 DEF Layout

\* After a compare_exchange that succeeds nobody else's copy of that head is current.
LEMMA OthersStale ==
    ASSUME StackInv, MaxOps < TagModulus, NEW t \in Threads, NEW l \in List, t \in Pending(l),
           head'[l].tag = NextTag(head[l].tag),
           NEW u \in Threads, Current(u, l)
    PROVE  seen[u] # head'[l]
<1>1. head'[l].tag = head[l].tag + 1
    BY TagGrows DEF StackInv
<1>2. PICK g \in Nat : g = head[l].tag
    BY TagAssumption DEF StackInv, KInv, TypeOK, TaggedIndex
<1>3. PICK s \in Nat : s = seen[u].tag
    BY TagAssumption DEF StackInv, KInv, TypeOK, TaggedIndex
<1>4. s <= g
    BY <1>2, <1>3 DEF Current
<1> QED BY <1>1, <1>2, <1>3, <1>4

\* Threads that a step does not concern keep what they are about to do.
LEMMA LinksOthers ==
    ASSUME StackInv, NEW u \in Threads,
           UNCHANGED <<pc[u], op[u], seen[u], succ[u], node[u]>>,
           pc[u] = "takeCas" /\ seen[u] = head'[From(u)]
              => seen[u] = head[From(u)] /\ next'[seen[u].index] = next[seen[u].index],
           Holds(u) => next'[node[u]] = next[node[u]] /\ data'[node[u]] = data[node[u]]
    PROVE  Links(u)'
<1>1. From(u)' = From(u)
    BY DEF From
<1>2. Links(u)
    BY DEF StackInv
<1>3. pc[u] = "takeCas" /\ seen[u] = head'[From(u)] => succ[u] = next'[seen[u].index]
    BY <1>2 DEF Links
<1>4. pc[u] = "putCas" => next'[node[u]] = seen[u].index
    BY <1>2 DEF Links, Holds
<1>5. op[u] = "push" /\ pc[u] \in {"put", "putNext", "putCas"} => data'[node[u]] \in Values
    BY <1>2 DEF Links, Holds
<1> QED BY <1>1, <1>3, <1>4, <1>5 DEF Links

LEMMA LinksStep ==
    ASSUME StackInv, MaxOps < TagModulus, NEW t \in Threads, Step(t), NEW u \in Threads
    PROVE  Links(u)'
<1>q. PICK q \in [List -> Seq(Node)] : Lists(q) /\ Layout(q)
    BY DEF StackInv
<1>t. TypeOK /\ From(u) \in List /\ From(t) \in List /\ To(t) \in List /\ KInv
    BY ListFacts DEF StackInv, KInv
<1>n. Holds(t) => node[t] \in Node
    BY DEF StackInv, KInv, StackLocals
<1>1. CASE TakeLoad(t) \/ PutLoad(t)
    <2>1. /\ UNCHANGED <<head, next, data, op, node>> /\ pc'[t] \in {"idle", "takeNext", "putNext"}
          /\ pc'[t] = "putNext" => Holds(t) /\ pc[t] \in {"put", "putCas"}
          /\ \A w \in Threads \ {t} : pc'[w] = pc[w] /\ seen'[w] = seen[w] /\ succ'[w] = succ[w]
        BY <1>1, <1>t DEF TakeLoad, PutLoad, pool, TypeOK, Holds
    <2>2. CASE u # t
        BY <2>1, <2>2, LinksOthers
    <2>3. CASE u = t
        BY <2>1, <2>3 DEF Links, StackInv
    <2> QED BY <2>2, <2>3
<1>2. CASE TakeNext(t)
    <2>1. /\ UNCHANGED <<head, next, data, op, node, seen>> /\ pc'[t] = "takeCas"
          /\ succ'[t] = next[seen[t].index]
          /\ \A w \in Threads \ {t} : pc'[w] = pc[w] /\ succ'[w] = succ[w]
        BY <1>2, <1>t DEF TakeNext, pool, TypeOK
    <2>2. CASE u # t
        BY <2>1, <2>2, LinksOthers
    <2>3. CASE u = t
        BY <2>1, <2>3 DEF Links
    <2> QED BY <2>2, <2>3
<1>3. CASE TakeCas(t) \/ PutCas(t)
    <2>l. PICK l \in List : l = IF pc[t] = "takeCas" THEN From(t) ELSE To(t)
        BY <1>t
    <2>1. /\ UNCHANGED <<next, data, op>> /\ pc'[t] \in {"idle", "access"}
          /\ t \in Pending(l) /\ head'[l].tag = NextTag(head[l].tag)
          /\ \A k \in List : k # l => head'[k] = head[k]
          /\ \A w \in Threads \ {t} : /\ pc'[w] = pc[w] /\ succ'[w] = succ[w]
                                      /\ seen'[w] = seen[w] /\ node'[w] = node[w]
        BY <1>3, <1>t, <2>l DEF TakeCas, PutCas, pool, TypeOK, Pending, Holds
    <2>2. CASE u # t
        <3>1. ASSUME pc[u] = "takeCas", seen[u] = head'[From(u)]
              PROVE  seen[u] = head[From(u)]
            <4>1. Current(u, From(u))
                BY <3>1, <1>t DEF KInv, StackLocals, Taking
            <4>2. From(u) # l
                BY <3>1, <4>1, <2>1, OthersStale
            <4> QED BY <3>1, <4>2, <2>1, <1>t
        <3> QED BY <2>1, <2>2, <3>1, LinksOthers
    <2>3. CASE u = t
        BY <2>1, <2>3 DEF Links
    <2> QED BY <2>2, <2>3
<1>4. CASE WriteData(t) \/ ExtractData(t)
    <2>1. /\ UNCHANGED <<head, next, op, node, seen, succ>> /\ Holds(t) /\ pc'[t] = "put"
          /\ \A w \in Threads \ {t} : pc'[w] = pc[w]
          /\ \A n \in Node : n # node[t] => data'[n] = data[n]
          /\ op[t] = "push" => data'[node[t]] \in Values
        BY <1>4, <1>t, <1>n DEF WriteData, ExtractData, TypeOK, Holds, KInv, StackLocals
    <2>2. CASE u # t
        <3>1. Holds(u) => node[u] \in Node /\ node[u] # node[t]
            BY <2>1, <2>2, <1>q DEF StackInv, KInv, StackLocals, Layout
        <3> QED BY <2>1, <2>2, <3>1, LinksOthers
    <2>3. CASE u = t
        BY <2>1, <2>3 DEF Links
    <2> QED BY <2>2, <2>3
<1>5. CASE PutNext(t)
    <2>1. /\ UNCHANGED <<head, data, op, node, seen, succ>> /\ Holds(t) /\ pc[t] = "putNext"
          /\ pc'[t] = "putCas" /\ next'[node[t]] = seen[t].index
          /\ \A w \in Threads \ {t} : pc'[w] = pc[w]
          /\ \A n \in Node : n # node[t] => next'[n] = next[n]
        BY <1>5, <1>t, <1>n DEF PutNext, TypeOK, Holds
    <2>2. CASE u # t
        <3>1. Holds(u) => node[u] \in Node /\ node[u] # node[t]
            BY <2>1, <2>2, <1>q DEF StackInv, KInv, StackLocals, Layout
        <3>2. ASSUME pc[u] = "takeCas", seen[u] = head[From(u)]
              PROVE  next'[seen[u].index] = next[seen[u].index]
            <4>1. head[From(u)].index \in Node
                BY <3>2, <1>t DEF KInv, StackLocals, Taking
            <4>2. In(q[From(u)], head[From(u)].index)
                BY <4>1, <1>q, <1>t, NodeFacts, HeadListed
            <4>3. head[From(u)].index # node[t]
                BY <4>2, <2>1, <1>q, <1>t DEF Layout
            <4> QED BY <3>2, <4>1, <4>3, <2>1
        <3> QED BY <2>1, <2>2, <3>1, <3>2, LinksOthers
    <2>3. CASE u = t
        BY <2>1, <2>3 DEF Links, StackInv
    <2> QED BY <2>2, <2>3
<1> QED BY <1>1, <1>2, <1>3, <1>4, <1>5 DEF Step

LEMMA StackNext ==
    ASSUME MaxOps < TagModulus
    PROVE  StackInv /\ [Next]_vars => StackInv'
<1> SUFFICES ASSUME StackInv, [Next]_vars PROVE StackInv'
    OBVIOUS
<1>k. KInv'
    BY KNext DEF StackInv
<1>q. PICK q \in [List -> Seq(Node)] : Lists(q) /\ Layout(q)
    BY DEF StackInv
<1>1. CASE UNCHANGED vars
    <2>1. UNCHANGED <<head, next, data, pc, op, seen, succ, node>>
        BY <1>1 DEF vars, pool
    <2>2. Lists(q)' /\ Layout(q)'
        BY <2>1, <1>q, StackQuiet DEF Holds
    <2>3. \A t \in Threads : Links(t)'
        BY <2>1 DEF StackInv, Links, From
    <2> QED BY <2>2, <2>3, <1>k, <1>q DEF StackInv
<1>2. ASSUME NEW t \in Threads, Begin(t) PROVE StackInv'
    <2>1. /\ UNCHANGED <<head, next, data, seen, succ, node>> /\ pc'[t] = "take" /\ pc[t] = "idle"
          /\ \A w \in Threads \ {t} : pc'[w] = pc[w] /\ op'[w] = op[w]
        BY <1>2 DEF Begin, BeginPush, BeginPop, pool, StackInv, KInv, TypeOK
    <2>2. \A w \in Threads : Holds(w)' <=> Holds(w)
        BY <2>1 DEF Holds
    <2>3. Lists(q)' /\ Layout(q)'
        BY <2>1, <2>2, <1>q, StackQuiet
    <2>4. \A u \in Threads : Links(u)'
        <3> SUFFICES ASSUME NEW u \in Threads PROVE Links(u)'
            OBVIOUS
        <3>1. CASE u = t
            BY <2>1, <3>1 DEF Links
        <3>2. CASE u # t
            BY <2>1, <3>2, LinksOthers
        <3> QED BY <3>1, <3>2
    <2> QED BY <2>3, <2>4, <1>k, <1>q DEF StackInv
<1>3. ASSUME NEW t \in Threads, Step(t) PROVE StackInv'
    <2>1. \A u \in Threads : Links(u)'
        BY <1>3, LinksStep
    <2>t. TypeOK /\ From(t) \in List /\ To(t) \in List
        BY ListFacts DEF StackInv, KInv
    <2>2. CASE TakeCas(t)
        <3>1. PICK l \in List : l = From(t)
            BY <2>t
        <3>2. PICK p : p = [q EXCEPT ![l] = Tail(@)]
            OBVIOUS
        <3>3. p \in [List -> Seq(Node)] /\ Lists(p)' /\ Layout(p)'
            BY <2>2, <3>1, <3>2, <1>q, StackTake
        <3> QED BY <3>3, <2>1, <1>k DEF StackInv
    <2>3. CASE PutCas(t)
        <3>1. PICK l \in List : l = To(t)
            BY <2>t
        <3>2. PICK p : p = [q EXCEPT ![l] = <<node[t]>> \o @]
            OBVIOUS
        <3>3. p \in [List -> Seq(Node)] /\ Lists(p)' /\ Layout(p)'
            BY <2>3, <3>1, <3>2, <1>q, StackPut
        <3> QED BY <3>3, <2>1, <1>k DEF StackInv
    <2>4. CASE PutNext(t)
        <3>1. Lists(q)' /\ Layout(q)'
            BY <2>4, <1>q, StackLink
        <3> QED BY <3>1, <2>1, <1>k, <1>q DEF StackInv
    <2>5. CASE TakeLoad(t) \/ TakeNext(t) \/ WriteData(t) \/ ExtractData(t) \/ PutLoad(t)
        <3>1. /\ UNCHANGED <<head, next, node>>
              /\ \A w \in Threads : Holds(w)' <=> Holds(w)
            BY <2>5, <2>t DEF TakeLoad, TakeNext, WriteData, ExtractData, PutLoad, pool, Holds, TypeOK
        <3>2. Lists(q)' /\ Layout(q)'
            BY <3>1, <1>q, StackQuiet
        <3> QED BY <3>2, <2>1, <1>k, <1>q DEF StackInv
    <2> QED BY <1>3, <2>2, <2>3, <2>4, <2>5 DEF Step
<1> QED BY <1>1, <1>2, <1>3 DEF Next, Done

\* Where the invariant finds a list, OnePlace and Contents find the same.
LEMMA ChainIs ==
    ASSUME TypeOK, NEW q \in [List -> Seq(Node)], Lists(q), NEW l \in List
    PROVE  /\ Ends(head[l].index, next, kNullIndex, Node, Capacity)
           /\ Chain(l) = q[l] /\ Len(q[l]) <= Capacity
<1>1. PICK s \in Seq(Node) : s = q[l]
    OBVIOUS
<1>2. PICK x : x = head[l].index
    OBVIOUS
<1>3. Linked(x, next, kNullIndex, s) /\ Once(s) /\ kNullIndex \notin Node
    BY <1>1, <1>2, NodeFacts DEF Lists
<1>4. IsFiniteSet(Node) /\ Cardinality(Node) = Capacity
    <2>1. Capacity - 1 \in Int /\ 0 \in Int /\ ~(0 > Capacity - 1)
        BY CapacityAssumption
    <2>2. /\ IsFiniteSet(0 .. Capacity - 1)
          /\ Cardinality(0 .. Capacity - 1) = (Capacity - 1) - 0 + 1
        BY <2>1, FS_Interval
    <2> QED BY <2>2, CapacityAssumption DEF Node
<1>5. Len(s) <= Capacity /\ Capacity \in Nat
    BY <1>3, <1>4, ListBound, CapacityAssumption
<1>6. Ends(x, next, kNullIndex, Node, Capacity) /\ ListFrom(x, next, kNullIndex, Node, Capacity) = s
    BY <1>3, <1>5, ListIs, Zenon
<1> QED BY <1>1, <1>2, <1>5, <1>6 DEF Chain

LEMMA StackPlaces == StackInv => OnePlace
<1> SUFFICES ASSUME StackInv PROVE OnePlace
    OBVIOUS
<1>q. PICK q \in [List -> Seq(Node)] : Lists(q) /\ Layout(q)
    BY DEF StackInv
<1>1. \A l \in List : Ends(head[l].index, next, kNullIndex, Node, Capacity) /\ Chain(l) = q[l]
    BY <1>q, ChainIs DEF StackInv, KInv
<1>2. \A l \in List : \A n : n \in Nodes(l) <=> In(q[l], n)
    BY <1>1 DEF Nodes, ToSet, In
<1>3. "m_head" \in List /\ "m_free_head" \in List /\ "m_head" # "m_free_head"
    BY DEF List
<1>4. \A t \in Threads : \A n : n \in Private(t) <=> Holds(t) /\ n = node[t]
    BY DEF Private, Holds
<1>5. Nodes("m_head") \cap Nodes("m_free_head") = {}
    BY <1>q, <1>2, <1>3 DEF Layout
<1>6. ASSUME NEW t \in Threads
      PROVE  /\ Private(t) \cap (Nodes("m_head") \cup Nodes("m_free_head")) = {}
             /\ \A u \in Threads \ {t} : Private(t) \cap Private(u) = {}
    <2>1. \A n : n \in Private(t) => n \notin Nodes("m_head") /\ n \notin Nodes("m_free_head")
        BY <1>q, <1>2, <1>3, <1>4 DEF Layout
    <2>2. \A u \in Threads : \A n : n \in Private(t) /\ n \in Private(u) => t = u
        BY <1>q, <1>4 DEF Layout
    <2> QED BY <2>1, <2>2
<1>7. Node = Nodes("m_head") \cup Nodes("m_free_head") \cup UNION {Private(t) : t \in Threads}
    <2>1. ASSUME NEW n \in Node
          PROVE  n \in Nodes("m_head") \cup Nodes("m_free_head") \cup UNION {Private(t) : t \in Threads}
        <3>1. CASE \E l \in List : In(q[l], n)
            BY <3>1, <1>2 DEF List
        <3>2. CASE \E t \in Threads : Holds(t) /\ node[t] = n
            BY <3>2, <1>4
        <3> QED BY <3>1, <3>2, <1>q DEF Layout
    <2>2. \A l \in List : \A n : In(q[l], n) => n \in Node
        BY ElementOfSeq, LenProperties DEF In
    <2>3. \A t \in Threads : \A n : n \in Private(t) => n \in Node
        BY <1>4 DEF StackInv, KInv, StackLocals
    <2> QED BY <2>1, <2>2, <2>3, <1>2, <1>3
<1> QED BY <1>1, <1>5, <1>6, <1>7 DEF OnePlace

LEMMA StackInvHolds ==
    ASSUME MaxOps < TagModulus
    PROVE  Spec => []StackInv
BY StackInit, StackNext, PTL DEF Spec

\* Every node of the pool is on the stack, on the free list or in the hands of one push or
\* pop, for every capacity and any number of threads, as long as no tag comes back.
THEOREM NodeInOnePlace ==
    ASSUME MaxOps < TagModulus
    PROVE  Spec => []OnePlace
BY StackInvHolds, StackPlaces, PTL

-----------------------------------------------------------------------------
(* LockFreeStack implements the abstract stack                             *)


LEMMA NodesPush ==
    \A V : \A f \in [Node -> V] : \A s \in Seq(Node) : \A x \in Node :
        Image(f, <<x>> \o s) = <<f[x]>> \o Image(f, s)
BY ImagePushAll

\* What the abstract stack sees of a state.
ContentsFact ==
    \A q \in [List -> Seq(Node)] : Lists(q) =>
        Contents = Image(data, q["m_head"]) /\ Len(q["m_head"]) <= Capacity

LEMMA ContentsAre == TypeOK => ContentsFact
<1> SUFFICES ASSUME TypeOK, NEW q \in [List -> Seq(Node)], Lists(q)
             PROVE  Contents = Image(data, q["m_head"]) /\ Len(q["m_head"]) <= Capacity
    BY DEF ContentsFact
<1>1. Chain("m_head") = q["m_head"] /\ Len(q["m_head"]) <= Capacity
    BY ChainIs DEF List
<1> QED BY <1>1 DEF Contents, Image

LEMMA LifoInit == Init => Lifo!Init
<1> SUFFICES ASSUME Init PROVE Lifo!Init
    OBVIOUS
<1>1. StackInv
    BY StackInit
<1>2. PICK q \in [List -> Seq(Node)] : Lists(q)
    BY <1>1 DEF StackInv
<1>3. q["m_head"] = <<>>
    <2>1. PICK s \in Seq(Node) : s = q["m_head"]
        BY DEF List
    <2>2. Linked(kNullIndex, next, kNullIndex, s)
        BY <1>2, <2>1 DEF Lists, List, Init
    <2>3. s # <<>> => s[1] \in Node
        BY EmptySeq, LenProperties, ElementOfSeq
    <2> QED BY <2>1, <2>2, <2>3, NodeFacts DEF Linked
<1>4. Contents = Image(data, q["m_head"])
    BY <1>1, <1>2, ContentsAre DEF ContentsFact, StackInv, KInv
<1>5. Image(data, <<>>) = <<>>
    <2>1. data \in [Node -> Values \cup {NoValue}] /\ <<>> \in Seq(Node)
        BY <1>1 DEF StackInv, KInv, TypeOK
    <2> QED BY <2>1, ImageFacts
<1>6. Taken = [t \in Threads |-> NoValue]
    BY DEF Taken, Init
<1> QED BY <1>3, <1>4, <1>5, <1>6 DEF Lifo!Init

LEMMA LifoNext ==
    ASSUME MaxOps < TagModulus
    PROVE  StackInv /\ StackInv' /\ [Next]_vars => [Lifo!Next]_(Lifo!vars)
<1> SUFFICES ASSUME StackInv, StackInv', [Next]_vars PROVE [Lifo!Next]_(Lifo!vars)
    OBVIOUS
<1>t. TypeOK /\ TypeOK' /\ \A u \in Threads : Holds(u) => node[u] \in Node
    BY DEF StackInv, KInv, StackLocals
<1>c. ContentsFact /\ ContentsFact'
    BY <1>t, ContentsAre, PTL
<1>q. PICK q \in [List -> Seq(Node)] : Lists(q) /\ Layout(q)
    BY DEF StackInv
<1>a. PICK a \in Seq(Node) : a = q["m_head"]
    BY DEF List
<1>v. PICK V : V = Values \cup {NoValue}
    OBVIOUS
<1>d. data \in [Node -> V] /\ data' \in [Node -> V] /\ "m_head" \in List
    BY <1>t, <1>v DEF TypeOK, List
<1>f. PICK f \in [Node -> V], g \in [Node -> V] : f = data /\ g = data'
    BY <1>d
<1>i. Len(Image(f, a)) = Len(a) /\ (Image(f, a) = <<>> <=> a = <<>>)
    <2>1. PICK u \in Seq(V) : u = Image(f, a)
        BY ImageFacts
    <2>2. Len(u) = Len(a) /\ (u = <<>> <=> a = <<>>)
        BY <2>1, ImageFacts
    <2> QED BY <2>1, <2>2, Zenon
<1>h. \A x \in Node : Image(f, <<x>> \o a) = <<f[x]>> \o Image(f, a)
    BY NodesPush, Zenon
<1>1. Contents = Image(data, a) /\ Len(a) <= Capacity
    BY <1>a, <1>c, <1>q DEF ContentsFact
<1>2. ASSUME NEW p \in [List -> Seq(Node)], Lists(p)'
      PROVE  Contents' = Image(data', p["m_head"]) /\ Len(p["m_head"]) <= Capacity
    BY <1>c, <1>2 DEF ContentsFact
<1>3. ASSUME NEW p \in [List -> Seq(Node)], Lists(p)', p["m_head"] = a,
             \A n : In(a, n) => data'[n] = data[n]
      PROVE  Contents' = Contents
    <2>1. Image(f, a) = Image(g, a)
        <3>1. \A n : In(a, n) => f[n] = g[n]
            BY <1>3, <1>f
        <3> QED BY <3>1, ImageFrame, Zenon
    <2> QED BY <2>1, <1>1, <1>2, <1>3, <1>f
<1>4. CASE UNCHANGED vars
    <2>1. UNCHANGED <<head, next, data, pc, op, node, result>>
        BY <1>4 DEF vars, pool
    <2>2. Lists(q)'
        BY <2>1, <1>q DEF Lists
    <2>3. Contents' = Contents
        BY <2>1, <2>2, <1>3, <1>a
    <2>4. Taken' = Taken
        BY <2>1 DEF Taken
    <2> QED BY <2>3, <2>4 DEF Lifo!vars
<1>5. ASSUME NEW t \in Threads, Begin(t) PROVE UNCHANGED Lifo!vars
    <2>1. /\ UNCHANGED <<head, next, data, node, result>> /\ pc'[t] = "take" /\ pc[t] = "idle"
          /\ \A w \in Threads \ {t} : pc'[w] = pc[w] /\ op'[w] = op[w]
        BY <1>5, <1>t DEF Begin, BeginPush, BeginPop, pool, TypeOK
    <2>2. Lists(q)'
        BY <2>1, <1>q DEF Lists
    <2>3. Contents' = Contents
        BY <2>1, <2>2, <1>3, <1>a
    <2>4. Taken' = Taken
        BY <2>1 DEF Taken
    <2> QED BY <2>3, <2>4 DEF Lifo!vars
<1>6. ASSUME NEW t \in Threads, TakeLoad(t) PROVE [Lifo!Next]_(Lifo!vars)
    <2>1. /\ UNCHANGED <<head, next, data, node, op>>
          /\ pc[t] \in {"take", "takeCas"} /\ pc'[t] \in {"idle", "takeNext"}
          /\ \A w \in Threads \ {t} : pc'[w] = pc[w] /\ result'[w] = result[w]
          /\ result'[t] = IF head[From(t)].index = kNullIndex /\ op[t] = "pop" THEN NoValue ELSE result[t]
        BY <1>6, <1>t DEF TakeLoad, pool, TypeOK
    <2>2. Lists(q)'
        BY <2>1, <1>q DEF Lists
    <2>3. Contents' = Contents
        BY <2>1, <2>2, <1>3, <1>a
    <2>4. CASE head[From(t)].index = kNullIndex /\ op[t] = "pop"
        <3>1. a = <<>>
            <4>1. Linked(kNullIndex, next, kNullIndex, a)
                BY <2>4, <1>a, <1>q DEF Lists, From, List
            <4>2. a # <<>> => a[1] \in Node
                BY EmptySeq, LenProperties, ElementOfSeq
            <4> QED BY <4>1, <4>2, NodeFacts DEF Linked
        <3>2. Contents = <<>>
            BY <3>1, <1>1, <1>d, ImageFacts
        <3>3. Taken' = [Taken EXCEPT ![t] = NoValue]
            BY <2>1, <2>4 DEF Taken
        <3> QED BY <2>3, <3>2, <3>3 DEF Lifo!Next, Lifo!PopEmpty
    <2>5. CASE ~(head[From(t)].index = kNullIndex /\ op[t] = "pop")
        <3>1. Taken' = Taken
            BY <2>1, <2>5 DEF Taken
        <3> QED BY <2>3, <3>1 DEF Lifo!vars
    <2> QED BY <2>4, <2>5
<1>7. ASSUME NEW t \in Threads, TakeNext(t) \/ PutLoad(t) PROVE UNCHANGED Lifo!vars
    <2>1. /\ UNCHANGED <<head, next, data, node, op, result>>
          /\ pc[t] # "access" /\ pc'[t] # "access"
          /\ \A w \in Threads \ {t} : pc'[w] = pc[w]
        BY <1>7, <1>t DEF TakeNext, PutLoad, pool, TypeOK
    <2>2. Lists(q)'
        BY <2>1, <1>q DEF Lists
    <2>3. Contents' = Contents
        BY <2>1, <2>2, <1>3, <1>a
    <2>4. Taken' = Taken
        BY <2>1 DEF Taken
    <2> QED BY <2>3, <2>4 DEF Lifo!vars
<1>8. ASSUME NEW t \in Threads, PutNext(t) PROVE UNCHANGED Lifo!vars
    <2>1. /\ UNCHANGED <<data, node, op, result>>
          /\ pc[t] # "access" /\ pc'[t] # "access"
          /\ \A w \in Threads \ {t} : pc'[w] = pc[w]
        BY <1>8, <1>t DEF PutNext, TypeOK
    <2>2. Lists(q)'
        BY <1>8, <1>q, StackLink
    <2>3. Contents' = Contents
        BY <2>1, <2>2, <1>3, <1>a
    <2>4. Taken' = Taken
        BY <2>1 DEF Taken
    <2> QED BY <2>3, <2>4 DEF Lifo!vars
<1>9. ASSUME NEW t \in Threads, WriteData(t) \/ ExtractData(t) PROVE UNCHANGED Lifo!vars
    <2>1. /\ UNCHANGED <<head, next, node, op>> /\ pc[t] = "access" /\ pc'[t] = "put" /\ Holds(t)
          /\ \A w \in Threads \ {t} : pc'[w] = pc[w] /\ result'[w] = result[w]
          /\ \A n \in Node : n # node[t] => data'[n] = data[n]
          /\ result'[t] = IF op[t] = "pop" THEN data[node[t]] ELSE result[t]
        BY <1>9, <1>t DEF WriteData, ExtractData, TypeOK, Holds
    <2>2. Lists(q)'
        BY <2>1, <1>q DEF Lists
    <2>3. \A n : In(a, n) => n \in Node /\ n # node[t]
        <3>1. \A n : In(a, n) => n \in Node
            BY ElementOfSeq, LenProperties DEF In
        <3> QED BY <3>1, <2>1, <1>a, <1>d, <1>q DEF Layout
    <2>4. Contents' = Contents
        BY <2>1, <2>2, <2>3, <1>3, <1>a
    <2>5. \A u \in Threads \ {t} : Holds(u) => data'[node[u]] = data[node[u]]
        BY <2>1, <1>t, <1>q DEF Layout
    <2>6. Taken' = Taken
        BY <2>1, <2>5 DEF Taken, Holds
    <2> QED BY <2>4, <2>6 DEF Lifo!vars
<1>10. ASSUME NEW t \in Threads, TakeCas(t) PROVE [Lifo!Next]_(Lifo!vars)
    <2>l. PICK l \in List : l = From(t)
        BY <1>t, ListFacts
    <2>p. PICK p : p = [q EXCEPT ![l] = Tail(@)]
        OBVIOUS
    <2>1. /\ p \in [List -> Seq(Node)] /\ Lists(p)' /\ q[l] # <<>> /\ node'[t] = Head(q[l])
        BY <1>10, <1>q, <2>l, <2>p, StackTake
    <2>2. /\ UNCHANGED <<data, op, result>> /\ pc[t] = "takeCas" /\ pc'[t] = "access"
          /\ \A w \in Threads \ {t} : pc'[w] = pc[w] /\ node'[w] = node[w]
        BY <1>10, <1>t DEF TakeCas, pool, TypeOK
    <2>3. CASE op[t] = "pop"
        <3>1. l = "m_head" /\ a # <<>> /\ p["m_head"] = Tail(a) /\ node'[t] = Head(a)
            BY <2>3, <2>l, <2>p, <2>1, <1>a DEF From
        <3>2. Contents' = Image(data, Tail(a))
            BY <1>2, <2>1, <2>2, <3>1
        <3>3. Image(data, Tail(a)) = Tail(Image(data, a)) /\ Head(Image(data, a)) = data[Head(a)]
            BY <1>d, <3>1, ImageTail
        <3>4. Image(data, a) # <<>>
            BY <1>f, <1>i, <3>1
        <3>5. Taken' = [Taken EXCEPT ![t] = data[Head(a)]]
            BY <2>2, <2>3, <3>1 DEF Taken
        <3> QED BY <1>1, <3>2, <3>3, <3>4, <3>5 DEF Lifo!Next, Lifo!Pop
    <2>4. CASE op[t] # "pop"
        <3>1. l # "m_head" /\ p["m_head"] = a
            BY <2>4, <2>l, <2>p, <1>a, <1>d, <1>t DEF From, TypeOK
        <3>2. Contents' = Contents
            BY <1>3, <2>1, <2>2, <3>1
        <3>3. Taken' = Taken
            BY <2>2, <2>4 DEF Taken
        <3> QED BY <3>2, <3>3 DEF Lifo!vars
    <2> QED BY <2>3, <2>4
<1>11. ASSUME NEW t \in Threads, PutCas(t) PROVE [Lifo!Next]_(Lifo!vars)
    <2>l. PICK l \in List : l = To(t)
        BY <1>t, ListFacts
    <2>p. PICK p : p = [q EXCEPT ![l] = <<node[t]>> \o @]
        OBVIOUS
    <2>1. p \in [List -> Seq(Node)] /\ Lists(p)' /\ node[t] \in Node
        BY <1>11, <1>q, <2>l, <2>p, StackPut
    <2>2. /\ UNCHANGED <<data, op, result>> /\ pc[t] = "putCas" /\ pc'[t] = "idle"
          /\ \A w \in Threads \ {t} : pc'[w] = pc[w] /\ node'[w] = node[w]
        BY <1>11, <1>t DEF PutCas, pool, TypeOK
    <2>3. Taken' = Taken
        BY <2>2 DEF Taken
    <2>4. CASE op[t] = "push"
        <3>x. PICK x \in Node : x = node[t]
            BY <2>1
        <3>1. p["m_head"] = <<x>> \o a /\ data[x] \in Values
            BY <2>4, <2>l, <2>p, <2>2, <1>a, <1>d, <3>x DEF To, StackInv, Links
        <3>2. Contents' = Image(data, <<x>> \o a) /\ Len(<<x>> \o a) <= Capacity
            BY <1>2, <2>1, <2>2, <3>1
        <3>3. Image(data, <<x>> \o a) = <<data[x]>> \o Image(data, a)
            <4>1. Image(f, <<x>> \o a) = <<f[x]>> \o Image(f, a)
                BY <1>h
            <4> QED BY <4>1, <1>f
        <3>4. Len(Image(data, a)) < Capacity
            <4>1. Len(<<x>> \o a) = 1 + Len(a) /\ Len(a) \in Nat
                BY PushIn, LenProperties
            <4> QED BY <4>1, <3>2, <1>f, <1>i, CapacityAssumption
        <3> QED BY <1>1, <2>3, <3>1, <3>2, <3>3, <3>4 DEF Lifo!Next, Lifo!Push
    <2>5. CASE op[t] # "push"
        <3>1. p["m_head"] = a
            BY <2>5, <2>l, <2>p, <1>a, <1>d, <1>t DEF To, TypeOK
        <3>2. Contents' = Contents
            BY <1>3, <2>1, <2>2, <3>1
        <3> QED BY <2>3, <3>2 DEF Lifo!vars
    <2> QED BY <2>4, <2>5
<1> QED BY <1>4, <1>5, <1>6, <1>7, <1>8, <1>9, <1>10, <1>11 DEF Next, Step, Done

\* push and pop of LockFreeStack take effect at one of their accesses, on the stack of values,
\* whatever was popped, freed and pushed again between a load and its compare_exchange.
THEOREM StackRefinement ==
    ASSUME MaxOps < TagModulus
    PROVE  Spec => ImplementsStack
BY StackInvHolds, LifoInit, LifoNext, PTL DEF Spec, ImplementsStack, Lifo!Spec

-----------------------------------------------------------------------------
(* CountedStack: the invariant                                             *)

CLabel == {"idle", "push", "increase", "next", "cas", "swap", "count", "release"}
CAddress == CNodes \cup {CNull}
CPointer == [external_count : Int, ptr : CAddress]

CTypeOK ==
    /\ chead \in CPointer
    /\ cnode \in [CNodes -> [data : CValues \cup {CNone}, internal_count : Int, next : CPointer]]
    /\ calloc \in SUBSET CNodes
    /\ cpc \in [CThreads -> CLabel]
    /\ old_head \in [CThreads -> CPointer]
    /\ cptr \in [CThreads -> CAddress]
    /\ cnext \in [CThreads -> CPointer]
    /\ new_node \in [CThreads -> CAddress]
    /\ cres \in [CThreads -> CValues \cup {CNone}]

Counting(t) == cpc[t] \in {"next", "cas", "release"}
Won(t) == cpc[t] \in {"swap", "count"}

\* The pops that have counted themselves on a node and have not given that back.
Refs(n) == {t \in CThreads : Counting(t) /\ cptr[t] = n}

\* What the pointer to a node on the stack says: the stack's own reference, those, and
\* the ones that were given back.
Count(n) == 1 + Cardinality(Refs(n)) - cnode[n].internal_count
Link(p) == p.ptr # CNull => p.external_count = Count(p.ptr)

\* The node that a thread alone has: a push its new one, a pop the one that it has unlinked.
Own(t) == IF Won(t) THEN cptr[t] ELSE new_node[t]

CLocals(t) ==
    /\ cptr[t] # CNull <=> Counting(t) \/ Won(t)
    /\ new_node[t] # CNull <=> cpc[t] = "push"
    /\ cpc[t] \in {"next", "cas"} => old_head[t].ptr = cptr[t]
    /\ cpc[t] = "cas" => cnext[t] = cnode[cptr[t]].next
    /\ Counting(t) => cptr[t] \in calloc

COwner(t) ==
    /\ Won(t) => /\ cnode[cptr[t]].internal_count <= 0
                 /\ old_head[t].external_count = Count(cptr[t]) + 1
    /\ cpc[t] = "push" => /\ cnode[new_node[t]].internal_count = 0
                          /\ Refs(new_node[t]) = {}
                          /\ cnode[new_node[t]].data \in CValues

CListed(n) == n \in calloc /\ cnode[n].internal_count <= 0 /\ Link(cnode[n].next)

\* A node that nobody owns any more waits for the pops that have it in hand.
CSpent(n) == cnode[n].internal_count = Cardinality(Refs(n)) /\ Refs(n) # {}

CShape(q) ==
    /\ Linked(chead.ptr, CLinks, CNull, q) /\ Once(q)
    /\ \A n : In(q, n) => CListed(n)
    /\ \A t \in CThreads : Own(t) # CNull =>
            /\ Own(t) \in calloc /\ ~In(q, Own(t))
            /\ \A u \in CThreads : Own(u) = Own(t) => u = t
    /\ \A n \in calloc : In(q, n) \/ (\E t \in CThreads : Own(t) = n) \/ CSpent(n)

CInv ==
    /\ CTypeOK
    /\ Link(chead)
    /\ \A n \in CNodes : IsFiniteSet(Refs(n))
    /\ \A t \in CThreads : CLocals(t) /\ COwner(t)
    /\ \E q \in Seq(CNodes) : CShape(q)

LEMMA CNodeFacts == CNull \notin CNodes /\ CNodes \subseteq CAddress /\ CNull \in CAddress
BY CNullAssumption DEF CAddress

LEMMA CInitInv == CInit => CInv
<1> SUFFICES ASSUME CInit PROVE CInv
    OBVIOUS
<1>1. CTypeOK
    <2>1. NullPtr \in CPointer
        BY DEF NullPtr, Counted, CPointer, CAddress
    <2> QED BY <2>1 DEF CInit, CTypeOK, NoNode, CAddress, CLabel
<1>2. \A t \in CThreads : ~Counting(t) /\ ~Won(t) /\ Own(t) = CNull
    BY DEF CInit, Counting, Won, Own
<1>3. \A n \in CNodes : Refs(n) = {} /\ IsFiniteSet(Refs(n))
    <2>1. \A n \in CNodes : Refs(n) = {}
        BY <1>2 DEF Refs
    <2> QED BY <2>1, FS_EmptySet
<1>4. Link(chead)
    BY DEF Link, CInit, NullPtr, Counted
<1>5. \A t \in CThreads : CLocals(t) /\ COwner(t)
    BY <1>2 DEF CInit, CLocals, COwner
<1>6. CShape(<<>>)
    <2>1. Linked(chead.ptr, CLinks, CNull, <<>>)
        BY DEF Linked, CInit, NullPtr, Counted
    <2> QED BY <2>1, <1>2, EmptyIn DEF CShape, CInit
<1>7. <<>> \in Seq(CNodes)
    OBVIOUS
<1> QED BY <1>1, <1>3, <1>4, <1>5, <1>6, <1>7 DEF CInv

\* Only the locals of t change.
OthersStay(t) ==
    \A u \in CThreads \ {t} :
        /\ cpc'[u] = cpc[u] /\ cptr'[u] = cptr[u] /\ new_node'[u] = new_node[u]
        /\ old_head'[u] = old_head[u] /\ cnext'[u] = cnext[u]

LEMMA OthersFacts ==
    ASSUME NEW t \in CThreads, OthersStay(t), NEW u \in CThreads \ {t}
    PROVE  /\ (Counting(u)' <=> Counting(u)) /\ (Won(u)' <=> Won(u)) /\ Own(u)' = Own(u)
BY DEF OthersStay, Counting, Won, Own

\* What a step of t does to the pops that are counted on a node.
LEMMA RefsStep ==
    ASSUME NEW t \in CThreads, OthersStay(t), NEW n
    PROVE  /\ (Counting(t)' /\ cptr'[t] = n) => Refs(n)' = Refs(n) \cup {t}
           /\ ~(Counting(t)' /\ cptr'[t] = n) => Refs(n)' = Refs(n) \ {t}
<1>1. \A u \in CThreads \ {t} : u \in Refs(n)' <=> u \in Refs(n)
    BY OthersFacts DEF Refs, OthersStay
<1>2. t \in Refs(n)' <=> Counting(t)' /\ cptr'[t] = n
    BY DEF Refs
<1>3. Refs(n) \subseteq CThreads /\ Refs(n)' \subseteq CThreads
    BY DEF Refs
<1> QED BY <1>1, <1>2, <1>3

\* The counts of the nodes that a step leaves alone.
Untouched(n) == cnode'[n] = cnode[n] /\ Refs(n)' = Refs(n)

LEMMA UntouchedCount ==
    ASSUME NEW n, Untouched(n)
    PROVE  Count(n)' = Count(n) /\ (CSpent(n) => CSpent(n)')
BY DEF Untouched, Count, CSpent

\* A thread whose count is on a node, or that has one alone, has an address in hand.
LEMMA CHands ==
    ASSUME CTypeOK, NEW t \in CThreads, CLocals(t)
    PROVE  /\ Counting(t) \/ Won(t) => cptr[t] \in CNodes
           /\ cpc[t] = "push" => new_node[t] \in CNodes
           /\ Own(t) # CNull => Own(t) \in CNodes /\ (Won(t) \/ cpc[t] = "push")
           /\ Won(t) => Own(t) = cptr[t] /\ Own(t) # CNull
           /\ cpc[t] = "push" => Own(t) = new_node[t] /\ Own(t) # CNull
BY CNodeFacts DEF CTypeOK, CLocals, CAddress, Own, Won, Counting

LEMMA CTypes ==
    ASSUME CTypeOK, NEW t \in CThreads, CLocals(t),
           CStep(t) \/ CPop(t) \/ \E v \in CValues : CPush(t, v)
    PROVE  CTypeOK'
<1> DEFINE N == [data : CValues \cup {CNone}, internal_count : Int, next : CPointer]
<1>h. /\ Counting(t) \/ Won(t) => cptr[t] \in CNodes
      /\ cpc[t] = "push" => new_node[t] \in CNodes
    BY CHands
<1>p. NullPtr \in CPointer /\ CNull \in CAddress /\ \A n \in CNodes : Counted(1, n) \in CPointer
    BY DEF NullPtr, Counted, CPointer, CAddress
<1>n. NoNode \in N
    BY <1>p DEF NoNode
<1>l. CLabel = {"idle", "push", "increase", "next", "cas", "swap", "count", "release"}
    BY DEF CLabel
<1>a. CNodes \subseteq CAddress
    BY CNodeFacts
<1>1. ASSUME NEW v \in CValues, CPush(t, v) PROVE CTypeOK'
    <2>1. PICK n \in CNodes \ calloc :
            /\ calloc' = calloc \cup {n}
            /\ cnode' = [cnode EXCEPT ![n] = [data |-> v, internal_count |-> 0, next |-> chead]]
            /\ new_node' = [new_node EXCEPT ![t] = n]
        BY <1>1 DEF CPush
    <2>2. [data |-> v, internal_count |-> 0, next |-> chead] \in N
        BY DEF CTypeOK
    <2>3. cnode' \in [CNodes -> N]
        BY <2>1, <2>2 DEF CTypeOK
    <2> QED BY <1>1, <2>1, <2>3, <1>l, <1>a DEF CPush, CTypeOK, CCall, CGoto
<1>2. ASSUME CPushCas(t) PROVE CTypeOK'
    <2>1. cnode' \in [CNodes -> N]
        BY <1>2, <1>h DEF CPushCas, CTypeOK
    <2>2. chead' \in CPointer
        BY <1>2, <1>h, <1>p DEF CPushCas, CTypeOK
    <2> QED BY <1>2, <2>1, <2>2, <1>l, <1>p DEF CPushCas, CTypeOK, CGoto
<1>3. ASSUME CPop(t) PROVE CTypeOK'
    BY <1>3, <1>l DEF CPop, CTypeOK, CCall, CGoto
<1>4. ASSUME increase_head_count(t) PROVE CTypeOK'
    <2>1. PICK c : c = [old_head[t] EXCEPT !.external_count = @ + 1]
        OBVIOUS
    <2>2. c \in CPointer /\ c.ptr \in CAddress
        BY <2>1 DEF CTypeOK, CPointer
    <2>3. /\ chead' \in {chead, c} /\ cptr' \in {cptr, [cptr EXCEPT ![t] = c.ptr]}
          /\ cres' \in {cres, [cres EXCEPT ![t] = CNone]}
          /\ \E x \in {chead, c, NullPtr} : old_head' = [old_head EXCEPT ![t] = x]
          /\ \E x \in {"increase", "idle", "next"} : cpc' = [cpc EXCEPT ![t] = x]
          /\ UNCHANGED <<cnode, calloc, cnext, new_node>>
        <3>1. cpc = [cpc EXCEPT ![t] = "increase"]
            BY <1>4 DEF increase_head_count, CTypeOK
        <3> QED BY <1>4, <2>1, <3>1 DEF increase_head_count, CGoto
    <2> QED BY <2>2, <2>3, <1>l, <1>p DEF CTypeOK
<1>5. ASSUME ReadNext(t) PROVE CTypeOK'
    <2>1. cnode[cptr[t]].next \in CPointer
        BY <1>5, <1>h DEF ReadNext, Counting, CTypeOK
    <2> QED BY <1>5, <2>1, <1>l DEF ReadNext, CTypeOK, CGoto
<1>6. ASSUME CPopCas(t) PROVE CTypeOK'
    <2>1. chead' \in CPointer /\ old_head' \in [CThreads -> CPointer]
        BY <1>6 DEF CPopCas, CTypeOK
    <2> QED BY <1>6, <2>1, <1>l, <1>p DEF CPopCas, CTypeOK, CGoto
<1>7. ASSUME SwapData(t) PROVE CTypeOK'
    <2>1. cnode' \in [CNodes -> N] /\ cnode[cptr[t]].data \in CValues \cup {CNone}
        BY <1>7, <1>h DEF SwapData, CTypeOK, Won
    <2> QED BY <1>7, <2>1, <1>l DEF SwapData, CTypeOK, CGoto
<1>8. ASSUME NEW k \in Int, AddCount(t, k), Counting(t) \/ Won(t)
      PROVE  /\ cnode' \in [CNodes -> N] /\ calloc' \in SUBSET CNodes
             /\ cptr' \in [CThreads -> CAddress]
    <2>1. PICK x \in CNodes : x = cptr[t]
        BY <1>8, <1>h
    <2>2. PICK r : r = IF cnode[x].internal_count + k = 0 THEN NoNode
                       ELSE [cnode[x] EXCEPT !.internal_count = cnode[x].internal_count + k]
        OBVIOUS
    <2>3. cnode[x] \in N
        BY DEF CTypeOK
    <2>4. r \in N
        BY <2>2, <2>3, <1>n
    <2>5. cnode' = [cnode EXCEPT ![x] = r]
        BY <1>8, <2>1, <2>2 DEF AddCount
    <2>6. cnode' \in [CNodes -> N]
        BY <2>4, <2>5 DEF CTypeOK
    <2> QED BY <1>8, <2>6, <1>p DEF AddCount, CTypeOK
<1>9. ASSUME AddExternal(t) PROVE CTypeOK'
    <2>1. old_head[t].external_count - 2 \in Int
        BY DEF CTypeOK, CPointer
    <2>2. AddCount(t, old_head[t].external_count - 2) /\ Won(t)
        BY <1>9 DEF AddExternal, Won
    <2>3. /\ cnode' \in [CNodes -> N] /\ calloc' \in SUBSET CNodes
          /\ cptr' \in [CThreads -> CAddress]
        BY <1>8, <2>1, <2>2
    <2> QED BY <1>9, <2>3, <1>l, <1>p DEF AddExternal, CTypeOK, CGoto
<1>10. ASSUME ReleaseNode(t) PROVE CTypeOK'
    <2>1. AddCount(t, -1) /\ Counting(t)
        BY <1>10 DEF ReleaseNode, Counting
    <2>2. -1 \in Int
        OBVIOUS
    <2>3. /\ cnode' \in [CNodes -> N] /\ calloc' \in SUBSET CNodes
          /\ cptr' \in [CThreads -> CAddress]
        BY <1>8, <2>1, <2>2
    <2> QED BY <1>10, <2>3, <1>l DEF ReleaseNode, CTypeOK, CGoto
<1> QED BY <1>1, <1>2, <1>3, <1>4, <1>5, <1>6, <1>7, <1>9, <1>10 DEF CStep

\* The first node of the stack, and what is behind it.
LEMMA CHead ==
    ASSUME CTypeOK, NEW q \in Seq(CNodes), CShape(q), chead.ptr # CNull
    PROVE  /\ chead.ptr \in CNodes /\ q # <<>> /\ Head(q) = chead.ptr /\ In(q, chead.ptr)
           /\ Tail(q) \in Seq(CNodes) /\ Once(Tail(q))
           /\ Linked(CLinks[chead.ptr], CLinks, CNull, Tail(q))
           /\ \A e : In(Tail(q), e) <=> In(q, e) /\ e # chead.ptr
<1>1. PICK h : h = chead.ptr
    OBVIOUS
<1>2. PICK links : links = CLinks
    OBVIOUS
<1>3. Linked(h, links, CNull, q) /\ h # CNull /\ CNull \notin CNodes /\ Once(q)
    BY <1>1, <1>2, CNodeFacts DEF CShape
<1>4. q # <<>> /\ Head(q) = h /\ Linked(links[h], links, CNull, Tail(q))
    BY <1>3, ListPop, Zenon
<1>5. /\ Head(q) \in CNodes /\ Tail(q) \in Seq(CNodes) /\ In(q, Head(q))
      /\ Once(Tail(q)) /\ \A e : In(Tail(q), e) <=> In(q, e) /\ e # Head(q)
    BY <1>3, <1>4, TailIn
<1> QED BY <1>1, <1>2, <1>4, <1>5

\* No node of the stack points to the first one.
LEMMA CNextNotHead ==
    ASSUME CTypeOK, NEW q \in Seq(CNodes), CShape(q), NEW n, In(q, n), cnode[n].next.ptr # CNull
    PROVE  n \in CNodes /\ cnode[n].next.ptr # chead.ptr /\ In(q, cnode[n].next.ptr)
<1>1. PICK i \in DOMAIN q : q[i] = n
    BY DEF In
<1>2. PICK k \in Nat : k = Len(q)
    BY LenProperties
<1>3. DOMAIN q = 1 .. k /\ (q = <<>> <=> k = 0) /\ n \in CNodes
    BY <1>1, <1>2, LenProperties, EmptySeq, ElementOfSeq
<1>4. CLinks[n] = cnode[n].next.ptr
    BY <1>3 DEF CLinks
<1>5. CLinks[q[i]] = IF i = k THEN CNull ELSE q[i + 1]
    BY <1>2, <1>3 DEF CShape, Linked
<1>6. i # k /\ cnode[n].next.ptr = q[i + 1] /\ i + 1 \in 1 .. k /\ i + 1 # 1
    BY <1>1, <1>3, <1>4, <1>5
<1>7. chead.ptr = q[1] /\ 1 \in 1 .. k
    BY <1>1, <1>3 DEF CShape, Linked
<1> QED BY <1>3, <1>6, <1>7 DEF CShape, Once, In

LEMMA InNodes ==
    ASSUME NEW q \in Seq(CNodes), NEW n, In(q, n)
    PROVE  n \in CNodes
BY ElementOfSeq, LenProperties DEF In

\* A step of t that touches at most one node, as the other threads see it.
LEMMA COthers ==
    ASSUME CInv, NEW t \in CThreads, OthersStay(t), NEW x,
           \A n \in CNodes : n # x => Untouched(n) /\ (n \in calloc' <=> n \in calloc),
           \A u \in CThreads \ {t} : Counting(u) /\ cptr[u] = x =>
                x \in calloc' /\ cnode'[x].next = cnode[x].next,
           \A u \in CThreads \ {t} : Own(u) # CNull /\ Own(u) = x => COwner(u)',
           NEW u \in CThreads \ {t}
    PROVE  CLocals(u)' /\ COwner(u)'
<1>t. CTypeOK /\ CLocals(u) /\ COwner(u)
    BY DEF CInv
<1>c. \A n \in CNodes : n # x => Count(n)' = Count(n)
    BY UntouchedCount
<1>1. /\ cpc'[u] = cpc[u] /\ cptr'[u] = cptr[u] /\ new_node'[u] = new_node[u]
      /\ old_head'[u] = old_head[u] /\ cnext'[u] = cnext[u]
      /\ (Counting(u)' <=> Counting(u)) /\ (Won(u)' <=> Won(u)) /\ Own(u)' = Own(u)
    BY OthersFacts DEF OthersStay
<1>h. /\ Counting(u) \/ Won(u) => cptr[u] \in CNodes
      /\ cpc[u] = "push" => new_node[u] \in CNodes
      /\ Won(u) => Own(u) = cptr[u] /\ Own(u) # CNull
      /\ cpc[u] = "push" => Own(u) = new_node[u] /\ Own(u) # CNull
    BY <1>t, CHands
<1>2. Counting(u) => cptr[u] \in calloc' /\ cnode'[cptr[u]].next = cnode[cptr[u]].next
    BY <1>t, <1>h DEF Untouched, CLocals
<1>3. CLocals(u)'
    <2>1. cpc[u] = "cas" => Counting(u)
        BY DEF Counting
    <2> QED BY <1>1, <1>2, <2>1, <1>t DEF CLocals
<1>4. ASSUME Own(u) # x PROVE COwner(u)'
    <2>c. PICK c : c = cptr[u]
        OBVIOUS
    <2>n. PICK n : n = new_node[u]
        OBVIOUS
    <2>1. Won(u) => Untouched(c) /\ Count(c)' = Count(c)
        BY <2>c, <1>h, <1>4, <1>c
    <2>2. cpc[u] = "push" => Untouched(n)
        BY <2>n, <1>h, <1>4
    <2>3. COwner(u)
        BY <1>t
    <2>4. Won(u) => /\ cnode'[c].internal_count <= 0
                    /\ old_head[u].external_count = Count(c)' + 1
        BY <2>c, <2>1, <2>3 DEF COwner, Untouched
    <2>5. cpc[u] = "push" => /\ cnode'[n].internal_count = 0 /\ Refs(n)' = {}
                             /\ cnode'[n].data \in CValues
        BY <2>n, <2>2, <2>3 DEF COwner, Untouched
    <2>6. c = cptr'[u] /\ n = new_node'[u]
        BY <2>c, <2>n, <1>1
    <2> QED BY <1>1, <2>4, <2>5, <2>6 DEF COwner
<1>5. ASSUME Own(u) = CNull PROVE COwner(u)'
    BY <1>5, <1>1, <1>h DEF COwner
<1> QED BY <1>3, <1>4, <1>5

\* A step of t that leaves the list as it is and touches at most one node.
LEMMA CQuiet ==
    ASSUME CInv, CTypeOK', NEW t \in CThreads, OthersStay(t), NEW q \in Seq(CNodes), CShape(q),
           chead'.ptr = chead.ptr, Link(chead)', CLocals(t)', COwner(t)',
           NEW x \in CAddress,
           \A n \in CNodes : n # x => Untouched(n) /\ (n \in calloc' <=> n \in calloc),
           IsFiniteSet(Refs(x)'),
           In(q, x) => /\ x \in calloc' /\ cnode'[x].internal_count <= 0
                       /\ cnode'[x].next = cnode[x].next
                       /\ x # chead.ptr => Count(x)' = Count(x),
           \A u \in CThreads \ {t} : Counting(u) /\ cptr[u] = x =>
                x \in calloc' /\ cnode'[x].next = cnode[x].next,
           \A u \in CThreads \ {t} : Own(u) # CNull /\ Own(u) = x => x \in calloc' /\ COwner(u)',
           Own(t) \in {CNull, x}, Own(t)' \in {CNull, x},
           Own(t)' # CNull => /\ x \in calloc' /\ ~In(q, x)
                              /\ \A u \in CThreads \ {t} : Own(u) # x,
           x \in calloc' => In(q, x) \/ (\E u \in CThreads : Own(u)' = x) \/ CSpent(x)'
    PROVE  CInv' /\ CShape(q)'
<1>t. CTypeOK /\ Link(chead) /\ \A u \in CThreads : CLocals(u) /\ COwner(u)
    BY DEF CInv
<1>l. CLinks' = [n \in CNodes |-> cnode'[n].next.ptr] /\ CLinks = [n \in CNodes |-> cnode[n].next.ptr]
    BY DEF CLinks
<1>1. \A n \in CNodes : IsFiniteSet(Refs(n)')
    BY DEF CInv, Untouched
<1>2. \A n \in CNodes : n # x => Count(n)' = Count(n) /\ (CSpent(n) => CSpent(n)')
    BY UntouchedCount
<1>3. ASSUME NEW p \in CPointer, Link(p), p.ptr # CNull => In(q, p.ptr) /\ p.ptr # chead.ptr
      PROVE  Link(p)'
    <2>1. p.ptr # CNull => Count(p.ptr)' = Count(p.ptr)
        BY <1>2, <1>3, InNodes
    <2> QED BY <1>3, <2>1 DEF Link
<1>4. \A n : In(q, n) => CListed(n)' /\ CLinks'[n] = CLinks[n]
    <2> SUFFICES ASSUME NEW n, In(q, n) PROVE CListed(n)' /\ CLinks'[n] = CLinks[n]
        OBVIOUS
    <2>1. n \in CNodes /\ CListed(n)
        BY InNodes DEF CShape
    <2>2. cnode'[n].next = cnode[n].next /\ n \in calloc' /\ cnode'[n].internal_count <= 0
        BY <2>1 DEF Untouched, CListed
    <2>3. PICK p \in CPointer : p = cnode[n].next
        BY <2>1, <1>t DEF CTypeOK
    <2>4. Link(p)'
        BY <1>3, <1>t, <2>1, <2>3, CNextNotHead DEF CListed
    <2> QED BY <2>1, <2>2, <2>3, <2>4, <1>l DEF CListed, Link
<1>5. ASSUME NEW u \in CThreads PROVE CLocals(u)' /\ COwner(u)'
    <2> SUFFICES ASSUME u # t PROVE CLocals(u)' /\ COwner(u)'
        OBVIOUS
    <2> QED BY COthers
<1>6. Linked(chead.ptr, CLinks, CNull, q)' /\ Once(q)
    <2>1. PICK h, links, other : h = chead.ptr /\ links = CLinks /\ other = CLinks'
        OBVIOUS
    <2>2. Linked(h, links, CNull, q) /\ \A n : In(q, n) => other[n] = links[n]
        BY <1>4, <2>1 DEF CShape
    <2>3. Linked(h, other, CNull, q)
        BY <2>2, ListFrame, Zenon
    <2> QED BY <2>1, <2>3 DEF CShape
<1>7. ASSUME NEW u \in CThreads, Own(u)' # CNull
      PROVE  /\ Own(u)' \in calloc' /\ ~In(q, Own(u)')
             /\ \A w \in CThreads : Own(w)' = Own(u)' => w = u
    <2>1. \A w \in CThreads \ {t} : Own(w)' = Own(w)
        BY OthersFacts
    <2>2. CASE u = t
        BY <2>1, <2>2, <1>7
    <2>3. CASE u # t
        <3>1. Own(u) # CNull /\ Own(u) \in CNodes
            BY <2>1, <2>3, <1>7, <1>t, CHands
        <3>2. Own(u) \in calloc /\ ~In(q, Own(u)) /\ \A w \in CThreads : Own(w) = Own(u) => w = u
            BY <3>1 DEF CShape
        <3>3. Own(u) \in calloc'
            BY <3>1, <3>2, <2>3
        <3>4. Own(t)' # Own(u)
            BY <3>1, <2>1, <2>3
        <3> QED BY <2>1, <2>3, <3>2, <3>3, <3>4
    <2> QED BY <2>2, <2>3
<1>8. ASSUME NEW n \in calloc'
      PROVE  In(q, n) \/ (\E u \in CThreads : Own(u)' = n) \/ CSpent(n)'
    <2>1. CASE n = x
        BY <2>1
    <2>2. CASE n # x
        <3>1. n \in CNodes /\ n \in calloc /\ n # CNull
            BY <2>2, <1>8, CNodeFacts DEF CTypeOK
        <3>2. In(q, n) \/ (\E u \in CThreads : Own(u) = n) \/ CSpent(n)
            BY <3>1 DEF CShape
        <3>3. \A u \in CThreads : Own(u) = n => u # t /\ Own(u)' = n
            BY <3>1, <2>2, OthersFacts
        <3> QED BY <3>1, <3>2, <3>3, <2>2, <1>2
    <2> QED BY <2>1, <2>2
<1>9. CShape(q)'
    BY <1>4, <1>6, <1>7, <1>8 DEF CShape
<1> QED BY <1>1, <1>5, <1>9 DEF CInv

LEMMA RefsSame ==
    ASSUME NEW t \in CThreads, OthersStay(t), Counting(t)' <=> Counting(t),
           Counting(t) => cptr'[t] = cptr[t], NEW n
    PROVE  Refs(n)' = Refs(n)
<1>1. t \in Refs(n) <=> Counting(t) /\ cptr[t] = n
    BY DEF Refs
<1>2. CASE Counting(t)' /\ cptr'[t] = n
    BY <1>1, <1>2, RefsStep
<1>3. CASE ~(Counting(t)' /\ cptr'[t] = n)
    BY <1>1, <1>3, RefsStep
<1> QED BY <1>2, <1>3

\* Threads have nothing of a node that is not allocated.
LEMMA CFresh ==
    ASSUME CInv, NEW q \in Seq(CNodes), CShape(q), NEW n \in CNodes \ calloc
    PROVE  Refs(n) = {} /\ ~In(q, n) /\ \A u \in CThreads : Own(u) # n
<1>1. \A u \in CThreads : Counting(u) => cptr[u] # n
    BY DEF CInv, CLocals
<1>2. n # CNull
    BY CNodeFacts
<1> QED BY <1>1, <1>2 DEF Refs, CShape, CListed

LEMMA CPushInv ==
    ASSUME CInv, CTypeOK', NEW t \in CThreads, NEW v \in CValues, CPush(t, v),
           NEW q \in Seq(CNodes), CShape(q)
    PROVE  CInv' /\ CShape(q)'
<1>t. CTypeOK /\ Link(chead) /\ CLocals(t)
    BY DEF CInv
<1>1. PICK x \in CNodes \ calloc :
        /\ calloc' = calloc \cup {x}
        /\ cnode' = [cnode EXCEPT ![x] = [data |-> v, internal_count |-> 0, next |-> chead]]
        /\ new_node' = [new_node EXCEPT ![t] = x]
    BY DEF CPush
<1>2. /\ cpc[t] = "idle" /\ cpc'[t] = "push" /\ cptr'[t] = cptr[t] /\ new_node'[t] = x
      /\ chead' = chead /\ OthersStay(t)
      /\ cnode'[x].internal_count = 0 /\ cnode'[x].data = v
    BY <1>1, <1>t DEF CPush, CCall, CGoto, CTypeOK, OthersStay
<1>3. Refs(x) = {} /\ ~In(q, x) /\ (\A u \in CThreads : Own(u) # x) /\ x # CNull /\ x \in CAddress
    BY CFresh, CNodeFacts
<1>4. ~Counting(t) /\ ~Counting(t)' /\ ~Won(t)' /\ Own(t) = CNull /\ Own(t)' = x
    BY <1>2, <1>t DEF Counting, Won, Own, CLocals
<1>5. \A n : Refs(n)' = Refs(n)
    BY <1>2, <1>4, RefsSame
<1>6. \A n \in CNodes : n # x => Untouched(n) /\ (n \in calloc' <=> n \in calloc)
    BY <1>1, <1>5, <1>t DEF Untouched, CTypeOK
<1>7. Link(chead)'
    <2>1. PICK h : h = chead.ptr
        OBVIOUS
    <2>2. h # CNull => h \in CNodes /\ h # x
        BY <2>1, <1>3, CHead, <1>t
    <2>3. h # CNull => Count(h)' = Count(h)
        BY <2>2, <1>6, UntouchedCount
    <2> QED BY <1>2, <1>t, <2>1, <2>3 DEF Link
<1>8. CLocals(t)' /\ COwner(t)'
    <2>1. cptr[t] = CNull
        BY <1>2, <1>t DEF CLocals, Counting, Won
    <2>2. CLocals(t)'
        BY <2>1, <1>2, <1>3, <1>4 DEF CLocals
    <2>3. Refs(x)' = {}
        BY <1>3, <1>5
    <2>4. COwner(t)'
        BY <1>2, <1>4, <2>3 DEF COwner
    <2> QED BY <2>2, <2>4
<1>9. \A u \in CThreads : Counting(u) => cptr[u] # x
    BY <1>3 DEF Refs
<1>10. IsFiniteSet(Refs(x)') /\ x \in calloc'
    BY <1>1, <1>3, <1>5, FS_EmptySet
<1> QED BY <1>2, <1>3, <1>4, <1>6, <1>7, <1>8, <1>9, <1>10, CQuiet

\* Steps of a thread on its own locals.
LEMMA CLocalInv ==
    ASSUME CInv, CTypeOK', NEW t \in CThreads, OthersStay(t), UNCHANGED <<cnode, calloc>>,
           chead'.ptr = chead.ptr, chead.ptr # CNull => chead' = chead,
           Counting(t)' <=> Counting(t), Counting(t) => cptr'[t] = cptr[t],
           CLocals(t)', Own(t) = CNull, Own(t)' = CNull,
           NEW q \in Seq(CNodes), CShape(q)
    PROVE  CInv' /\ CShape(q)'
<1>t. CTypeOK /\ Link(chead)
    BY DEF CInv
<1>1. \A n : Refs(n)' = Refs(n)
    BY RefsSame
<1>2. \A n : Untouched(n)
    BY <1>1 DEF Untouched
<1>3. Link(chead)'
    <2>1. PICK h : h = chead.ptr
        OBVIOUS
    <2>2. Count(h)' = Count(h)
        BY <1>2, UntouchedCount
    <2> QED BY <1>t, <2>1, <2>2 DEF Link
<1>4. COwner(t)'
    <2>1. ~Won(t)' /\ cpc'[t] # "push"
        BY DEF CLocals, Own
    <2> QED BY <2>1 DEF COwner
<1>5. ~In(q, CNull) /\ CNull \notin calloc' /\ CNull \in CAddress
    BY InNodes, CNodeFacts, <1>t DEF CTypeOK
<1>6. \A u \in CThreads : Counting(u) => cptr[u] # CNull
    BY DEF CInv, CLocals
<1>7. IsFiniteSet(Refs(CNull)')
    <2>1. Refs(CNull) = {}
        BY <1>6 DEF Refs
    <2> QED BY <2>1, <1>1, FS_EmptySet
<1> QED BY <1>2, <1>3, <1>4, <1>5, <1>6, <1>7, CQuiet

LEMMA CPushFails ==
    ASSUME CInv, CTypeOK', NEW t \in CThreads, CPushCas(t), chead # cnode[new_node[t]].next,
           NEW q \in Seq(CNodes), CShape(q)
    PROVE  CInv' /\ CShape(q)'
<1>t. CTypeOK /\ Link(chead) /\ CLocals(t) /\ COwner(t)
    BY DEF CInv
<1>1. PICK x \in CNodes : x = new_node[t]
    BY <1>t, CHands DEF CPushCas
<1>2. /\ cpc[t] = "push" /\ cnode' = [cnode EXCEPT ![x].next = chead]
      /\ UNCHANGED <<chead, new_node, cpc, calloc, old_head, cptr, cnext>>
    BY <1>1 DEF CPushCas
<1>3. /\ cnode'[x].internal_count = 0 /\ cnode'[x].data \in CValues /\ cnode'[x].next = chead
      /\ \A n \in CNodes : n # x => cnode'[n] = cnode[n]
    BY <1>1, <1>2, <1>t DEF CTypeOK, COwner
<1>4. OthersStay(t) /\ ~Counting(t) /\ ~Won(t) /\ ~Counting(t)' /\ ~Won(t)'
    BY <1>2 DEF OthersStay, Counting, Won
<1>5. Own(t) = x /\ Own(t)' = x /\ x # CNull /\ x \in CAddress
    BY <1>1, <1>2, <1>4, CNodeFacts DEF Own
<1>6. x \in calloc /\ ~In(q, x) /\ \A u \in CThreads : Own(u) = x => u = t
    BY <1>5 DEF CShape
<1>7. \A n : Refs(n)' = Refs(n)
    BY <1>2, <1>4, RefsSame
<1>8. Refs(x) = {}
    BY <1>t, <1>1, <1>2 DEF COwner
<1>9. \A n \in CNodes : n # x => Untouched(n)
    BY <1>3, <1>7 DEF Untouched
<1>10. Link(chead)'
    <2>1. PICK h : h = chead.ptr
        OBVIOUS
    <2>2. h # CNull => h \in CNodes /\ h # x
        BY <2>1, <1>6, CHead, <1>t
    <2>3. h # CNull => Count(h)' = Count(h)
        BY <2>2, <1>9, UntouchedCount
    <2> QED BY <1>2, <1>t, <2>1, <2>3 DEF Link
<1>11. CLocals(t)'
    BY <1>2, <1>4, <1>t DEF CLocals
<1>12. COwner(t)'
    <2>1. Refs(x)' = {} /\ new_node'[t] = x
        BY <1>1, <1>2, <1>7, <1>8
    <2> QED BY <1>3, <1>4, <2>1 DEF COwner
<1>13. \A u \in CThreads : Counting(u) => cptr[u] # x
    BY <1>8 DEF Refs
<1>14. IsFiniteSet(Refs(x)')
    BY <1>7, <1>8, FS_EmptySet
<1> QED BY <1>2, <1>4, <1>5, <1>6, <1>9, <1>10, <1>11, <1>12, <1>13, <1>14, CQuiet

LEMMA CPushDone ==
    ASSUME CInv, CTypeOK', NEW t \in CThreads, CPushCas(t), chead = cnode[new_node[t]].next,
           NEW q \in Seq(CNodes), CShape(q),
           NEW p, p = <<new_node[t]>> \o q
    PROVE  new_node[t] \in CNodes /\ p \in Seq(CNodes) /\ CInv' /\ CShape(p)'
<1>t. CTypeOK /\ Link(chead) /\ CLocals(t) /\ COwner(t)
    BY DEF CInv
<1>1. PICK x \in CNodes : x = new_node[t]
    BY <1>t, CHands DEF CPushCas
<1>2. /\ cpc[t] = "push" /\ chead' = Counted(1, x) /\ cpc' = [cpc EXCEPT ![t] = "idle"]
      /\ new_node' = [new_node EXCEPT ![t] = CNull]
      /\ UNCHANGED <<cnode, calloc, old_head, cptr, cnext>>
    BY <1>1 DEF CPushCas, CGoto
<1>3. /\ OthersStay(t) /\ cpc'[t] = "idle" /\ cptr'[t] = cptr[t] /\ new_node'[t] = CNull
      /\ chead'.ptr = x /\ chead'.external_count = 1
    BY <1>2, <1>t DEF CTypeOK, OthersStay, Counted
<1>4. ~Counting(t) /\ ~Won(t) /\ ~Counting(t)' /\ ~Won(t)'
    BY <1>2, <1>3 DEF Counting, Won
<1>5. Own(t) = x /\ Own(t)' = CNull /\ x # CNull
    BY <1>1, <1>3, <1>4, CNodeFacts DEF Own
<1>6. x \in calloc /\ ~In(q, x) /\ \A u \in CThreads : Own(u) = x => u = t
    BY <1>5 DEF CShape
<1>7. \A n : Untouched(n)
    BY <1>2, <1>3, <1>4, RefsSame DEF Untouched
<1>8. Refs(x) = {} /\ cnode[x].internal_count = 0
    BY <1>t, <1>1, <1>2 DEF COwner
<1>9. \A n : Count(n)' = Count(n) /\ (CSpent(n) => CSpent(n)')
    BY <1>7, UntouchedCount
<1>10. Link(chead)'
    <2>1. Count(x)' = 1
        <3>1. Count(x) = 1
            BY <1>8, FS_EmptySet DEF Count
        <3> QED BY <3>1, <1>9
    <2> QED BY <1>3, <2>1 DEF Link
<1>11. \A n \in CNodes : IsFiniteSet(Refs(n)')
    BY <1>7 DEF CInv, Untouched
<1>12. ASSUME NEW u \in CThreads PROVE CLocals(u)' /\ COwner(u)'
    <2>1. CASE u = t
        <3>1. cptr[t] = CNull
            BY <1>4, <1>t DEF CLocals
        <3>2. CLocals(t)'
            BY <3>1, <1>3, <1>4 DEF CLocals
        <3>3. COwner(t)'
            BY <1>3, <1>4 DEF COwner
        <3> QED BY <2>1, <3>2, <3>3
    <2>2. CASE u # t
        <3>1. \A w \in CThreads \ {t} : Own(w) # x
            BY <1>6
        <3>2. \A w \in CThreads : Counting(w) => cptr[w] # x
            BY <1>8 DEF Refs
        <3> QED BY <2>2, <3>1, <3>2, <1>2, <1>3, <1>7, COthers
    <2> QED BY <2>1, <2>2
<1>13. p \in Seq(CNodes) /\ Once(p) /\ \A n : In(p, n) <=> In(q, n) \/ n = x
    <2>1. PICK r : r = <<x>> \o q
        OBVIOUS
    <2>2. r \in Seq(CNodes) /\ Once(r) /\ \A n : In(r, n) <=> In(q, n) \/ n = x
        BY <2>1, <1>6, PushIn DEF CShape
    <2> QED BY <1>1, <2>1, <2>2
<1>14. Linked(chead.ptr, CLinks, CNull, p)'
    <2>1. CLinks' = CLinks /\ CLinks[x] = chead.ptr
        BY <1>1, <1>2 DEF CLinks
    <2>2. PICK links : links = CLinks
        OBVIOUS
    <2>3. Linked(links[x], links, CNull, q)
        BY <2>1, <2>2 DEF CShape
    <2>4. Linked(x, links, CNull, <<x>> \o q)
        BY <2>3, ListPush, Zenon
    <2> QED BY <2>1, <2>2, <2>4, <1>1, <1>3
<1>15. \A n : In(p, n) => CListed(n)'
    <2> SUFFICES ASSUME NEW n, In(p, n) PROVE CListed(n)'
        OBVIOUS
    <2>1. n \in CNodes
        BY <1>13, InNodes
    <2>2. n \in calloc /\ cnode[n].internal_count <= 0 /\ Link(cnode[n].next)
        <3>1. CASE n = x
            BY <3>1, <1>1, <1>6, <1>8, <1>t
        <3>2. CASE n # x
            BY <3>2, <1>13 DEF CShape, CListed
        <3> QED BY <3>1, <3>2
    <2>3. PICK r : r = cnode[n].next
        OBVIOUS
    <2>4. Link(r)'
        BY <2>2, <2>3, <1>9 DEF Link
    <2> QED BY <2>2, <2>3, <2>4, <1>2 DEF CListed, Link
<1>16. ASSUME NEW u \in CThreads, Own(u)' # CNull
       PROVE  /\ Own(u)' \in calloc' /\ ~In(p, Own(u)')
              /\ \A w \in CThreads : Own(w)' = Own(u)' => w = u
    <2>1. \A w \in CThreads \ {t} : Own(w)' = Own(w)
        BY <1>3, OthersFacts
    <2>2. u # t /\ Own(u) # CNull
        BY <2>1, <1>5, <1>16
    <2>3. Own(u) \in calloc /\ ~In(q, Own(u)) /\ \A w \in CThreads : Own(w) = Own(u) => w = u
        BY <2>2 DEF CShape
    <2>4. Own(u) # x
        BY <1>6, <2>2
    <2> QED BY <2>1, <2>2, <2>3, <2>4, <1>2, <1>5, <1>13
<1>17. ASSUME NEW n \in calloc'
       PROVE  In(p, n) \/ (\E u \in CThreads : Own(u)' = n) \/ CSpent(n)'
    <2>1. In(q, n) \/ (\E u \in CThreads : Own(u) = n) \/ CSpent(n)
        BY <1>2, <1>17 DEF CShape
    <2>2. \A u \in CThreads : Own(u) = n => n = x \/ Own(u)' = n
        BY <1>3, <1>5, OthersFacts
    <2> QED BY <2>1, <2>2, <1>9, <1>13
<1>18. CShape(p)'
    BY <1>13, <1>14, <1>15, <1>16, <1>17 DEF CShape
<1> QED BY <1>1, <1>10, <1>11, <1>12, <1>13, <1>18 DEF CInv

LEMMA CPopInv ==
    ASSUME CInv, CTypeOK', NEW t \in CThreads, CPop(t), NEW q \in Seq(CNodes), CShape(q)
    PROVE  CInv' /\ CShape(q)'
<1>1. CTypeOK /\ CLocals(t)
    BY DEF CInv
<1>2. /\ UNCHANGED <<chead, cnode, calloc, cptr, new_node>> /\ OthersStay(t)
      /\ cpc[t] = "idle" /\ cpc'[t] = "increase"
    BY <1>1 DEF CPop, CCall, CGoto, CTypeOK, OthersStay
<1>3. ~Counting(t) /\ ~Won(t) /\ ~Counting(t)' /\ ~Won(t)'
    BY <1>2 DEF Counting, Won
<1>4. CLocals(t)' /\ Own(t) = CNull /\ Own(t)' = CNull
    BY <1>1, <1>2, <1>3 DEF CLocals, Own
<1> QED BY <1>2, <1>3, <1>4, CLocalInv

\* A step of increase_head_count that leaves the thread without a node.
LEMMA CIncreaseNothing ==
    ASSUME CInv, CTypeOK', NEW t \in CThreads, increase_head_count(t),
           chead # old_head[t] \/ chead.ptr = CNull,
           NEW q \in Seq(CNodes), CShape(q)
    PROVE  CInv' /\ CShape(q)'
<1>1. CTypeOK /\ CLocals(t)
    BY DEF CInv
<1>2. PICK c : c = [old_head[t] EXCEPT !.external_count = @ + 1]
    OBVIOUS
<1>3. c.ptr = old_head[t].ptr
    BY <1>1, <1>2 DEF CTypeOK, CPointer
<1>4. cpc[t] = "increase"
    BY DEF increase_head_count
<1>5. cptr[t] = CNull /\ new_node[t] = CNull
    BY <1>1, <1>4 DEF CLocals, Counting, Won
<1>6. /\ UNCHANGED <<cnode, calloc, new_node>> /\ OthersStay(t)
      /\ cpc'[t] \in {"increase", "idle"} /\ cptr'[t] = CNull
      /\ chead'.ptr = chead.ptr /\ (chead.ptr # CNull => chead' = chead)
    <2>1. CASE chead # old_head[t]
        <3>1. /\ old_head' = [old_head EXCEPT ![t] = chead]
              /\ UNCHANGED <<chead, cptr, cpc, cnode, calloc, cnext, new_node>>
            BY <2>1 DEF increase_head_count
        <3> QED BY <3>1, <1>1, <1>4, <1>5 DEF OthersStay, CTypeOK
    <2>2. CASE chead = old_head[t]
        <3>1. chead.ptr = CNull /\ c.ptr = CNull
            BY <2>2, <1>3
        <3>2. /\ chead' = c /\ cptr' = [cptr EXCEPT ![t] = c.ptr]
              /\ old_head' = [old_head EXCEPT ![t] = NullPtr]
              /\ cpc' = [cpc EXCEPT ![t] = "idle"]
              /\ UNCHANGED <<cnode, calloc, cnext, new_node>>
            BY <2>2, <3>1, <1>2 DEF increase_head_count, CGoto
        <3> QED BY <2>2, <3>1, <3>2, <1>1 DEF OthersStay, CTypeOK
    <2> QED BY <2>1, <2>2
<1>7. ~Counting(t) /\ ~Won(t) /\ ~Counting(t)' /\ ~Won(t)'
    BY <1>4, <1>6 DEF Counting, Won
<1>8. CLocals(t)' /\ Own(t) = CNull /\ Own(t)' = CNull
    BY <1>1, <1>5, <1>6, <1>7 DEF CLocals, Own
<1> QED BY <1>6, <1>7, <1>8, CLocalInv

LEMMA CIncreaseCounts ==
    ASSUME CInv, CTypeOK', NEW t \in CThreads, increase_head_count(t),
           chead = old_head[t], chead.ptr # CNull,
           NEW q \in Seq(CNodes), CShape(q)
    PROVE  CInv' /\ CShape(q)'
<1>t. CTypeOK /\ CLocals(t) /\ Link(chead)
    BY DEF CInv
<1>1. PICK x \in CNodes : x = chead.ptr
    BY <1>t, CHead
<1>2. PICK c : c = [old_head[t] EXCEPT !.external_count = @ + 1]
    OBVIOUS
<1>3. c.ptr = x /\ c.external_count = chead.external_count + 1
    BY <1>t, <1>1, <1>2 DEF CTypeOK, CPointer
<1>4. /\ chead' = c /\ cptr' = [cptr EXCEPT ![t] = c.ptr]
      /\ old_head' = [old_head EXCEPT ![t] = c] /\ cpc' = [cpc EXCEPT ![t] = "next"]
      /\ UNCHANGED <<cnode, calloc, cnext, new_node>> /\ cpc[t] = "increase"
    BY <1>1, <1>2, <1>3, CNodeFacts DEF increase_head_count, CGoto
<1>5. /\ OthersStay(t) /\ cpc'[t] = "next" /\ cptr'[t] = x /\ old_head'[t] = c
      /\ new_node'[t] = new_node[t]
    BY <1>3, <1>4, <1>t DEF OthersStay, CTypeOK
<1>6. ~Counting(t) /\ ~Won(t) /\ Counting(t)' /\ ~Won(t)'
    BY <1>4, <1>5 DEF Counting, Won
<1>7. new_node[t] = CNull /\ Own(t) = CNull /\ Own(t)' = CNull
    BY <1>t, <1>4, <1>5, <1>6 DEF CLocals, Own
<1>8. t \notin Refs(x) /\ IsFiniteSet(Refs(x)) /\ Refs(x)' = Refs(x) \cup {t}
    BY <1>5, <1>6, RefsStep DEF Refs, CInv
<1>9. \A n \in CNodes : n # x => Refs(n)' = Refs(n)
    <2> SUFFICES ASSUME NEW n \in CNodes, n # x PROVE Refs(n)' = Refs(n)
        OBVIOUS
    <2>1. Refs(n)' = Refs(n) \ {t}
        BY <1>5, RefsStep
    <2> QED BY <2>1, <1>6 DEF Refs
<1>10. IsFiniteSet(Refs(x)') /\ Cardinality(Refs(x)') = Cardinality(Refs(x)) + 1 /\ Cardinality(Refs(x)) \in Nat
    BY <1>8, FS_AddElement, FS_CardinalityType
<1>11. In(q, x) /\ CListed(x)
    BY <1>t, <1>1, CHead DEF CShape
<1>12. Link(chead)'
    <2>1. cnode'[x].internal_count = cnode[x].internal_count /\ cnode[x].internal_count \in Int
        BY <1>4, <1>t DEF CTypeOK
    <2>2. Count(x)' = Count(x) + 1
        BY <1>10, <2>1 DEF Count
    <2>3. chead.external_count = Count(x)
        BY <1>t, <1>1 DEF Link
    <2> QED BY <2>2, <2>3, <1>3, <1>4 DEF Link
<1>13. CLocals(t)'
    <2>1. x \in calloc' /\ x # CNull
        BY <1>4, <1>11, CNodeFacts DEF CListed
    <2> QED BY <2>1, <1>3, <1>5, <1>6, <1>7 DEF CLocals
<1>14. COwner(t)'
    BY <1>5, <1>6 DEF COwner
<1>15. \A u \in CThreads : Own(u) # CNull => Own(u) # x
    BY <1>11 DEF CShape
<1>16. \A n \in CNodes : n # x => Untouched(n) /\ (n \in calloc' <=> n \in calloc)
    BY <1>4, <1>9 DEF Untouched
<1>17. x \in calloc' /\ cnode'[x] = cnode[x] /\ x \in CAddress /\ chead'.ptr = chead.ptr
    BY <1>1, <1>3, <1>4, <1>11, CNodeFacts DEF CListed
<1> QED BY <1>1, <1>5, <1>7, <1>10, <1>11, <1>12, <1>13, <1>14, <1>15, <1>16, <1>17, CQuiet DEF CListed

LEMMA CReadNextInv ==
    ASSUME CInv, CTypeOK', NEW t \in CThreads, ReadNext(t), NEW q \in Seq(CNodes), CShape(q)
    PROVE  CInv' /\ CShape(q)'
<1>1. CTypeOK /\ CLocals(t)
    BY DEF CInv
<1>2. /\ UNCHANGED <<chead, cnode, calloc, cptr, new_node, old_head>> /\ OthersStay(t)
      /\ cpc[t] = "next" /\ cpc'[t] = "cas" /\ cnext'[t] = cnode[cptr[t]].next
    BY <1>1 DEF ReadNext, CGoto, CTypeOK, OthersStay
<1>3. Counting(t) /\ ~Won(t) /\ Counting(t)' /\ ~Won(t)'
    BY <1>2 DEF Counting, Won
<1>4. CLocals(t)' /\ Own(t) = CNull /\ Own(t)' = CNull
    BY <1>1, <1>2, <1>3 DEF CLocals, Own
<1> QED BY <1>2, <1>3, <1>4, CLocalInv

LEMMA CPopFails ==
    ASSUME CInv, CTypeOK', NEW t \in CThreads, CPopCas(t), chead # old_head[t],
           NEW q \in Seq(CNodes), CShape(q)
    PROVE  CInv' /\ CShape(q)'
<1>1. CTypeOK /\ CLocals(t)
    BY DEF CInv
<1>2. /\ UNCHANGED <<chead, cnode, calloc, cptr, new_node>> /\ OthersStay(t)
      /\ cpc[t] = "cas" /\ cpc'[t] = "release"
    BY <1>1 DEF CPopCas, CGoto, CTypeOK, OthersStay
<1>3. Counting(t) /\ ~Won(t) /\ Counting(t)' /\ ~Won(t)'
    BY <1>2 DEF Counting, Won
<1>4. CLocals(t)' /\ Own(t) = CNull /\ Own(t)' = CNull
    BY <1>1, <1>2, <1>3 DEF CLocals, Own
<1> QED BY <1>2, <1>3, <1>4, CLocalInv

LEMMA CPopDone ==
    ASSUME CInv, CTypeOK', NEW t \in CThreads, CPopCas(t), chead = old_head[t],
           NEW q \in Seq(CNodes), CShape(q)
    PROVE  /\ q # <<>> /\ Head(q) = cptr[t] /\ Tail(q) \in Seq(CNodes)
           /\ CInv' /\ CShape(Tail(q))'
<1>t. CTypeOK /\ CLocals(t) /\ Link(chead)
    BY DEF CInv
<1>1. cpc[t] = "cas" /\ Counting(t) /\ ~Won(t)
    BY DEF CPopCas, Counting, Won
<1>2. PICK x \in CNodes : x = cptr[t]
    BY <1>t, <1>1, CHands
<1>3. chead.ptr = x /\ chead.ptr # CNull /\ cnext[t] = cnode[x].next
    BY <1>t, <1>1, <1>2, CNodeFacts DEF CLocals
<1>p. PICK p : p = Tail(q)
    OBVIOUS
<1>4. /\ q # <<>> /\ Head(q) = x /\ In(q, x)
      /\ p \in Seq(CNodes) /\ Once(p) /\ Linked(CLinks[x], CLinks, CNull, p)
      /\ \A e : In(p, e) <=> In(q, e) /\ e # x
    BY <1>t, <1>3, <1>p, CHead
<1>5. /\ chead' = cnode[x].next /\ cpc' = [cpc EXCEPT ![t] = "swap"]
      /\ cnext' = [cnext EXCEPT ![t] = NullPtr]
      /\ UNCHANGED <<old_head, cnode, calloc, cptr, new_node>>
    BY <1>3 DEF CPopCas, CGoto
<1>6. OthersStay(t) /\ cpc'[t] = "swap" /\ cptr'[t] = x /\ old_head'[t] = old_head[t]
    BY <1>2, <1>5, <1>t DEF OthersStay, CTypeOK
<1>7. ~Counting(t)' /\ Won(t)' /\ Own(t)' = x /\ Own(t) = CNull /\ x # CNull
    BY <1>t, <1>1, <1>6, CNodeFacts DEF Counting, Won, Own, CLocals
<1>8. t \in Refs(x) /\ IsFiniteSet(Refs(x)) /\ Refs(x)' = Refs(x) \ {t}
    BY <1>1, <1>2, <1>6, <1>7, RefsStep DEF Refs, CInv
<1>9. \A n \in CNodes : n # x => Refs(n)' = Refs(n)
    <2> SUFFICES ASSUME NEW n \in CNodes, n # x PROVE Refs(n)' = Refs(n)
        OBVIOUS
    <2>1. Refs(n)' = Refs(n) \ {t}
        BY <1>6, <1>7, RefsStep
    <2> QED BY <2>1, <1>2 DEF Refs
<1>10. IsFiniteSet(Refs(x)') /\ Cardinality(Refs(x)') = Cardinality(Refs(x)) - 1 /\ Cardinality(Refs(x)) \in Nat
    BY <1>8, FS_RemoveElement, FS_CardinalityType
<1>11. \A n \in CNodes : n # x => Untouched(n)
    BY <1>5, <1>9 DEF Untouched
<1>12. \A n \in CNodes : n # x => Count(n)' = Count(n) /\ (CSpent(n) => CSpent(n)')
    BY <1>11, UntouchedCount
<1>13. Count(x)' = Count(x) - 1 /\ Count(x) \in Int
    <2>1. cnode'[x].internal_count = cnode[x].internal_count /\ cnode[x].internal_count \in Int
        BY <1>5, <1>t DEF CTypeOK
    <2> QED BY <1>10, <2>1 DEF Count
<1>14. CListed(x)
    BY <1>4 DEF CShape
\* Pointers of the list that are left do not point to x.
<1>15. ASSUME NEW n \in CNodes, In(q, n) PROVE Link(cnode[n].next)'
    <2>1. PICK r : r = cnode[n].next
        OBVIOUS
    <2>2. Link(r) /\ r.ptr # x /\ (r.ptr # CNull => r.ptr \in CNodes)
        <3>1. Link(r)
            BY <1>15, <2>1 DEF CShape, CListed
        <3>2. r.ptr \in CAddress
            BY <1>15, <2>1, <1>t DEF CTypeOK, CPointer
        <3>3. r.ptr # CNull => r.ptr # x
            BY <1>3, <1>15, <2>1, <1>t, CNextNotHead
        <3> QED BY <3>1, <3>2, <3>3, <1>7 DEF CAddress
    <2>3. Link(r)'
        BY <2>2, <1>12 DEF Link
    <2>4. cnode'[n].next = r
        BY <2>1, <1>5
    <2> QED BY <2>3, <2>4 DEF Link
<1>16. Link(chead)'
    <2>1. Link(cnode[x].next)'
        BY <1>4, <1>15
    <2> QED BY <2>1, <1>5 DEF Link
<1>17. \A n \in CNodes : IsFiniteSet(Refs(n)')
    BY <1>9, <1>10 DEF CInv
<1>18. ASSUME NEW u \in CThreads PROVE CLocals(u)' /\ COwner(u)'
    <2>1. CASE u = t
        <3>1. new_node'[t] = CNull
            BY <1>t, <1>1, <1>5 DEF CLocals
        <3>2. CLocals(t)'
            BY <3>1, <1>6, <1>7 DEF CLocals
        <3>3. old_head[t].external_count = Count(x)' + 1 /\ cnode'[x].internal_count <= 0
            BY <1>t, <1>3, <1>5, <1>13, <1>14 DEF Link, CListed
        <3>4. COwner(t)'
            BY <3>3, <1>6 DEF COwner
        <3> QED BY <2>1, <3>2, <3>4
    <2>2. CASE u # t
        <3>1. \A w \in CThreads : Own(w) # CNull => Own(w) # x
            BY <1>4 DEF CShape
        <3>2. x \in calloc' /\ cnode'[x].next = cnode[x].next /\ calloc' = calloc
            BY <1>5, <1>14 DEF CListed
        <3> QED BY <2>2, <3>1, <3>2, <1>6, <1>11, COthers
    <2> QED BY <2>1, <2>2
<1>19. Linked(chead.ptr, CLinks, CNull, p)'
    <2>1. CLinks' = CLinks /\ CLinks[x] = chead'.ptr
        BY <1>5 DEF CLinks
    <2> QED BY <2>1, <1>4
<1>20. \A n : In(p, n) => CListed(n)'
    <2> SUFFICES ASSUME NEW n, In(p, n) PROVE CListed(n)'
        OBVIOUS
    <2>1. n \in CNodes /\ In(q, n)
        BY <1>4, InNodes
    <2>2. n \in calloc /\ cnode[n].internal_count <= 0
        BY <2>1 DEF CShape, CListed
    <2>3. Link(cnode[n].next)'
        BY <2>1, <1>15
    <2> QED BY <2>2, <2>3, <1>5 DEF CListed
<1>21. ASSUME NEW u \in CThreads, Own(u)' # CNull
       PROVE  /\ Own(u)' \in calloc' /\ ~In(p, Own(u)')
              /\ \A w \in CThreads : Own(w)' = Own(u)' => w = u
    <2>1. \A w \in CThreads \ {t} : Own(w)' = Own(w)
        BY <1>6, OthersFacts
    <2>2. \A w \in CThreads : Own(w) # CNull => Own(w) # x
        BY <1>4 DEF CShape
    <2>3. CASE u = t
        <3>1. x \in calloc' /\ ~In(p, x)
            BY <1>4, <1>5, <1>14 DEF CListed
        <3>2. \A w \in CThreads \ {t} : Own(w)' # x
            BY <2>1, <2>2, <1>7
        <3> QED BY <2>3, <3>1, <3>2, <1>7
    <2>4. CASE u # t
        <3>1. Own(u) # CNull
            BY <2>1, <2>4, <1>21
        <3>2. Own(u) \in calloc /\ ~In(q, Own(u)) /\ \A w \in CThreads : Own(w) = Own(u) => w = u
            BY <3>1 DEF CShape
        <3> QED BY <3>1, <3>2, <2>1, <2>2, <2>4, <1>4, <1>5, <1>7
    <2> QED BY <2>3, <2>4
<1>22. ASSUME NEW n \in calloc'
       PROVE  In(p, n) \/ (\E u \in CThreads : Own(u)' = n) \/ CSpent(n)'
    <2>1. n \in CNodes /\ n # CNull
        BY <1>5, <1>22, <1>t, CNodeFacts DEF CTypeOK
    <2>2. In(q, n) \/ (\E u \in CThreads : Own(u) = n) \/ CSpent(n)
        BY <1>5, <1>22 DEF CShape
    <2>3. \A u \in CThreads : Own(u) = n => Own(u)' = n
        BY <1>6, <1>7, <2>1, OthersFacts
    <2>4. n # x /\ CSpent(n) => CSpent(n)'
        BY <2>1, <1>12
    <2> QED BY <2>2, <2>3, <2>4, <1>4, <1>7
<1>23. CShape(p)'
    BY <1>4, <1>19, <1>20, <1>21, <1>22 DEF CShape
<1>24. CInv'
    BY <1>4, <1>16, <1>17, <1>18, <1>23 DEF CInv
<1>25. CShape(Tail(q))'
    <2>1. CShape(p)'
        BY <1>23
    <2> QED BY <2>1, <1>p
<1> QED BY <1>2, <1>4, <1>24, <1>25, <1>p

LEMMA CHeadStays ==
    ASSUME CInv, NEW q \in Seq(CNodes), CShape(q), NEW x, ~In(q, x), chead' = chead,
           \A n \in CNodes : n # x => Untouched(n)
    PROVE  Link(chead)'
<1>1. PICK h : h = chead.ptr
    OBVIOUS
<1>2. h # CNull => h \in CNodes /\ h # x
    BY <1>1, CHead DEF CInv
<1>3. h # CNull => Count(h)' = Count(h)
    BY <1>2, UntouchedCount
<1> QED BY <1>1, <1>3 DEF Link, CInv

LEMMA CSwapInv ==
    ASSUME CInv, CTypeOK', NEW t \in CThreads, SwapData(t), NEW q \in Seq(CNodes), CShape(q)
    PROVE  CInv' /\ CShape(q)'
<1>t. CTypeOK /\ CLocals(t) /\ COwner(t)
    BY DEF CInv
<1>1. cpc[t] = "swap" /\ Won(t) /\ ~Counting(t)
    BY DEF SwapData, Won, Counting
<1>2. PICK x \in CNodes : x = cptr[t]
    BY <1>t, <1>1, CHands
<1>3. /\ cnode' = [cnode EXCEPT ![x].data = CNone] /\ cpc' = [cpc EXCEPT ![t] = "count"]
      /\ UNCHANGED <<chead, calloc, old_head, cptr, cnext, new_node>>
    BY <1>2 DEF SwapData, CGoto
<1>4. /\ cnode'[x].internal_count = cnode[x].internal_count /\ cnode'[x].next = cnode[x].next
      /\ \A n \in CNodes : n # x => cnode'[n] = cnode[n]
    BY <1>3, <1>t DEF CTypeOK
<1>5. OthersStay(t) /\ cpc'[t] = "count"
    BY <1>3, <1>t DEF OthersStay, CTypeOK
<1>6. Won(t)' /\ ~Counting(t)' /\ Own(t) = x /\ Own(t)' = x /\ x # CNull /\ x \in CAddress
    BY <1>1, <1>2, <1>3, <1>5, CNodeFacts DEF Won, Counting, Own
<1>7. x \in calloc /\ ~In(q, x) /\ \A u \in CThreads : Own(u) = x => u = t
    BY <1>6 DEF CShape
<1>8. \A n : Refs(n)' = Refs(n)
    BY <1>1, <1>5, <1>6, RefsSame
<1>9. \A n \in CNodes : n # x => Untouched(n)
    BY <1>4, <1>8 DEF Untouched
<1>10. Link(chead)'
    BY <1>3, <1>7, <1>9, CHeadStays
<1>11. CLocals(t)'
    BY <1>t, <1>1, <1>3, <1>5, <1>6 DEF CLocals
<1>12. COwner(t)'
    <2>1. Count(x)' = Count(x)
        BY <1>4, <1>8 DEF Count
    <2>2. cnode'[x].internal_count <= 0 /\ old_head[t].external_count = Count(x)' + 1
        BY <1>t, <1>1, <1>2, <1>4, <2>1 DEF COwner
    <2> QED BY <2>2, <1>2, <1>3, <1>5 DEF COwner
<1>13. IsFiniteSet(Refs(x)')
    BY <1>8 DEF CInv
<1> QED BY <1>3, <1>4, <1>5, <1>6, <1>7, <1>9, <1>10, <1>11, <1>12, <1>13, CQuiet

\* The count of the node that t has in hand after a change by k.
LEMMA CAddFacts ==
    ASSUME CTypeOK, NEW t \in CThreads, NEW k \in Int, AddCount(t, k), NEW x \in CNodes, x = cptr[t],
           NEW sum, sum = cnode[x].internal_count + k
    PROVE  /\ cptr' = [cptr EXCEPT ![t] = CNull]
           /\ \A n \in CNodes : n # x => cnode'[n] = cnode[n] /\ (n \in calloc' <=> n \in calloc)
           /\ sum = 0 => x \notin calloc'
           /\ sum # 0 => /\ calloc' = calloc /\ cnode'[x].internal_count = sum
                         /\ cnode'[x].next = cnode[x].next /\ cnode'[x].data = cnode[x].data
<1>1. /\ cptr' = [cptr EXCEPT ![t] = CNull]
      /\ calloc' = IF sum = 0 THEN calloc \ {x} ELSE calloc
      /\ \A n \in CNodes : n # x => cnode'[n] = cnode[n]
    BY DEF AddCount, CTypeOK
<1>2. ASSUME sum # 0 PROVE cnode' = [cnode EXCEPT ![x] = [cnode[x] EXCEPT !.internal_count = sum]]
    BY <1>2 DEF AddCount
<1>3. ASSUME sum # 0
      PROVE  /\ cnode'[x].internal_count = sum
             /\ cnode'[x].next = cnode[x].next /\ cnode'[x].data = cnode[x].data
    BY <1>2, <1>3 DEF CTypeOK
<1> QED BY <1>1, <1>3

LEMMA CAddExternalInv ==
    ASSUME CInv, CTypeOK', NEW t \in CThreads, AddExternal(t), NEW q \in Seq(CNodes), CShape(q)
    PROVE  CInv' /\ CShape(q)'
<1>t. CTypeOK /\ CLocals(t) /\ COwner(t)
    BY DEF CInv
<1>1. cpc[t] = "count" /\ Won(t) /\ ~Counting(t)
    BY DEF AddExternal, Won, Counting
<1>2. PICK x \in CNodes : x = cptr[t]
    BY <1>t, <1>1, CHands
<1>3. PICK k \in Int : k = old_head[t].external_count - 2
    BY <1>t DEF CTypeOK, CPointer
<1>4. PICK sum : sum = cnode[x].internal_count + k
    OBVIOUS
<1>5. IsFiniteSet(Refs(x)) /\ Cardinality(Refs(x)) \in Nat
    BY FS_CardinalityType DEF CInv
<1>6. sum = Cardinality(Refs(x))
    <2>1. old_head[t].external_count = Count(x) + 1 /\ cnode[x].internal_count \in Int
        BY <1>t, <1>1, <1>2 DEF COwner, CTypeOK
    <2> QED BY <2>1, <1>3, <1>4, <1>5 DEF Count
<1>7. /\ AddCount(t, k) /\ cpc' = [cpc EXCEPT ![t] = "idle"]
      /\ old_head' = [old_head EXCEPT ![t] = NullPtr]
      /\ UNCHANGED <<chead, cnext, new_node>>
    BY <1>3 DEF AddExternal, CGoto
<1>8. /\ cptr' = [cptr EXCEPT ![t] = CNull]
      /\ \A n \in CNodes : n # x => cnode'[n] = cnode[n] /\ (n \in calloc' <=> n \in calloc)
      /\ sum = 0 => x \notin calloc'
      /\ sum # 0 => /\ calloc' = calloc /\ cnode'[x].internal_count = sum
                    /\ cnode'[x].next = cnode[x].next
    BY <1>t, <1>2, <1>4, <1>7, CAddFacts
<1>9. OthersStay(t) /\ cpc'[t] = "idle" /\ cptr'[t] = CNull
    BY <1>7, <1>8, <1>t DEF OthersStay, CTypeOK
<1>10. new_node[t] = CNull /\ new_node'[t] = CNull
    BY <1>t, <1>1, <1>7 DEF CLocals
<1>11. /\ ~Won(t)' /\ ~Counting(t)' /\ Own(t) = x /\ Own(t)' = CNull
       /\ x # CNull /\ x \in CAddress
    BY <1>1, <1>2, <1>9, <1>10, CNodeFacts DEF Won, Counting, Own
<1>12. x \in calloc /\ ~In(q, x) /\ \A u \in CThreads : Own(u) = x => u = t
    BY <1>11 DEF CShape
<1>13. \A n : Refs(n)' = Refs(n)
    BY <1>1, <1>9, <1>11, RefsSame
<1>14. \A n \in CNodes : n # x => Untouched(n)
    BY <1>8, <1>13 DEF Untouched
<1>15. Link(chead)'
    BY <1>7, <1>12, <1>14, CHeadStays
<1>16. CLocals(t)' /\ COwner(t)'
    BY <1>9, <1>10, <1>11 DEF CLocals, COwner
<1>17. sum = 0 => Refs(x) = {}
    BY <1>5, <1>6, FS_EmptySet
<1>18. \A u \in CThreads \ {t} : Counting(u) /\ cptr[u] = x =>
            x \in calloc' /\ cnode'[x].next = cnode[x].next
    BY <1>8, <1>12, <1>17 DEF Refs
<1>19. x \in calloc' => CSpent(x)'
    <2> SUFFICES ASSUME x \in calloc' PROVE CSpent(x)'
        OBVIOUS
    <2>1. sum # 0 /\ cnode'[x].internal_count = sum
        BY <1>8
    <2>2. Refs(x) # {}
        BY <2>1, <1>6, FS_EmptySet
    <2> QED BY <2>1, <2>2, <1>6, <1>13 DEF CSpent
<1>20. IsFiniteSet(Refs(x)')
    BY <1>5, <1>13
<1>21. \A u \in CThreads \ {t} : Own(u) # x
    BY <1>12
<1> QED BY <1>7, <1>8, <1>9, <1>11, <1>12, <1>14, <1>15, <1>16, <1>18, <1>19, <1>20, <1>21, CQuiet

LEMMA CReleaseInv ==
    ASSUME CInv, CTypeOK', NEW t \in CThreads, ReleaseNode(t), NEW q \in Seq(CNodes), CShape(q)
    PROVE  CInv' /\ CShape(q)'
<1>t. CTypeOK /\ CLocals(t) /\ Link(chead)
    BY DEF CInv
<1>1. cpc[t] = "release" /\ ~Won(t) /\ Counting(t)
    BY DEF ReleaseNode, Won, Counting
<1>2. PICK x \in CNodes : x = cptr[t]
    BY <1>t, <1>1, CHands
<1>3. PICK i \in Int : i = cnode[x].internal_count
    BY <1>t DEF CTypeOK
<1>4. PICK k \in Int : k = -1
    OBVIOUS
<1>5. PICK sum \in Int : sum = i + k
    OBVIOUS
<1>6. AddCount(t, k) /\ cpc' = [cpc EXCEPT ![t] = "increase"] /\ UNCHANGED <<chead, old_head, cnext, new_node>>
    BY <1>4 DEF ReleaseNode, CGoto
<1>7. /\ cptr' = [cptr EXCEPT ![t] = CNull]
      /\ \A n \in CNodes : n # x => cnode'[n] = cnode[n] /\ (n \in calloc' <=> n \in calloc)
      /\ sum = 0 => x \notin calloc'
      /\ sum # 0 => /\ calloc' = calloc /\ cnode'[x].internal_count = sum
                    /\ cnode'[x].next = cnode[x].next
    BY <1>t, <1>2, <1>3, <1>5, <1>6, CAddFacts
<1>8. OthersStay(t) /\ cpc'[t] = "increase" /\ cptr'[t] = CNull
    BY <1>6, <1>7, <1>t DEF OthersStay, CTypeOK
<1>9. new_node[t] = CNull /\ new_node'[t] = CNull
    BY <1>t, <1>1, <1>6 DEF CLocals
<1>10. /\ ~Won(t)' /\ ~Counting(t)' /\ Own(t) = CNull /\ Own(t)' = CNull
       /\ x # CNull /\ x \in CAddress /\ x \in calloc
    BY <1>t, <1>1, <1>2, <1>8, <1>9, CNodeFacts DEF Won, Counting, Own, CLocals
<1>11. t \in Refs(x) /\ IsFiniteSet(Refs(x)) /\ Refs(x)' = Refs(x) \ {t}
    <2>1. t \in Refs(x)
        BY <1>1, <1>2 DEF Refs
    <2>2. IsFiniteSet(Refs(x))
        BY DEF CInv
    <2>3. Refs(x)' = Refs(x) \ {t}
        BY <1>8, <1>10, RefsStep
    <2> QED BY <2>1, <2>2, <2>3
<1>12. \A n \in CNodes : n # x => Refs(n)' = Refs(n)
    <2> SUFFICES ASSUME NEW n \in CNodes, n # x PROVE Refs(n)' = Refs(n)
        OBVIOUS
    <2>1. Refs(n)' = Refs(n) \ {t}
        BY <1>8, <1>10, RefsStep
    <2> QED BY <2>1, <1>2 DEF Refs
<1>13. PICK c \in Nat : c = Cardinality(Refs(x))
    BY <1>11, FS_CardinalityType
<1>14. IsFiniteSet(Refs(x)') /\ Cardinality(Refs(x)') = c - 1
    BY <1>11, <1>13, FS_RemoveElement
<1>15. \A n \in CNodes : n # x => Untouched(n)
    BY <1>7, <1>12 DEF Untouched
\* As long as the node is on the stack or was not left by the pop that unlinked it, the
\* reference that is given back is counted in the node.
<1>16. ASSUME i <= 0
       PROVE  /\ sum # 0 /\ x \in calloc' /\ cnode'[x].internal_count <= 0
              /\ cnode'[x].next = cnode[x].next /\ Count(x)' = Count(x)
    <2>1. sum = i - 1 /\ sum # 0 /\ sum <= 0
        BY <1>3, <1>4, <1>5, <1>16
    <2>2. cnode'[x].internal_count = i - 1 /\ cnode'[x].next = cnode[x].next /\ x \in calloc'
        BY <1>7, <1>10, <2>1
    <2>3. Count(x)' = 1 + (c - 1) - (i - 1)
        BY <1>14, <2>2 DEF Count
    <2>4. Count(x) = 1 + c - i
        BY <1>3, <1>13 DEF Count
    <2>5. 1 + (c - 1) - (i - 1) = 1 + c - i
        <3>1. \A a \in Int : \A b \in Int : 1 + (a - 1) - (b - 1) = 1 + a - b
            OBVIOUS
        <3>2. c \in Int /\ i \in Int
            OBVIOUS
        <3> QED BY <3>1, <3>2
    <2>6. cnode'[x].internal_count <= 0
        BY <2>1, <2>2
    <2> QED BY <2>1, <2>2, <2>3, <2>4, <2>5, <2>6
<1>17. In(q, x) => i <= 0
    BY <1>3 DEF CShape, CListed
<1>18. ASSUME NEW u \in CThreads \ {t}, Own(u) # CNull, Own(u) = x
       PROVE  i <= 0 /\ Won(u) /\ cptr[u] = x
    <2>1. CLocals(u) /\ COwner(u)
        BY DEF CInv
    <2>2. cpc[u] = "push" => Own(u) = new_node[u]
        BY <1>t, <2>1, CHands
    <2>3. cpc[u] # "push"
        BY <1>11, <1>18, <2>1, <2>2 DEF COwner
    <2>4. Won(u) /\ cptr[u] = x
        BY <1>t, <1>18, <2>1, <2>3, CHands
    <2> QED BY <1>3, <2>1, <2>4 DEF COwner
<1>19. ASSUME NEW u \in CThreads \ {t}, Own(u) # CNull, Own(u) = x
       PROVE  x \in calloc' /\ COwner(u)'
    <2>1. i <= 0 /\ Won(u) /\ cptr[u] = x
        BY <1>18, <1>19
    <2>2. /\ x \in calloc' /\ cnode'[x].internal_count <= 0 /\ Count(x)' = Count(x)
        BY <1>16, <2>1
    <2>3. cpc'[u] = cpc[u] /\ cptr'[u] = x /\ old_head'[u] = old_head[u] /\ (Won(u)' <=> Won(u))
        BY <1>8, <2>1, OthersFacts DEF OthersStay
    <2>4. old_head[u].external_count = Count(x) + 1
        BY <2>1 DEF CInv, COwner
    <2>5. cpc'[u] # "push"
        BY <2>1, <2>3 DEF Won
    <2> QED BY <2>2, <2>3, <2>4, <2>5 DEF COwner
<1>20. In(q, x) \/ (\E u \in CThreads \ {t} : Own(u) = x) \/ i = c
    <2>1. In(q, x) \/ (\E u \in CThreads : Own(u) = x) \/ CSpent(x)
        BY <1>10 DEF CShape
    <2> QED BY <2>1, <1>3, <1>10, <1>13 DEF CSpent
<1>21. i <= 0 \/ i = c
    BY <1>10, <1>17, <1>18, <1>20
<1>22. ASSUME i = c PROVE sum = 0 => Refs(x)' = {}
    BY <1>4, <1>5, <1>13, <1>14, <1>22, FS_EmptySet
<1>23. ASSUME NEW u \in CThreads \ {t}, Counting(u), cptr[u] = x
       PROVE  x \in calloc' /\ cnode'[x].next = cnode[x].next
    <2>1. u \in Refs(x)'
        BY <1>11, <1>23 DEF Refs
    <2>2. sum # 0
        BY <2>1, <1>16, <1>21, <1>22
    <2> QED BY <2>2, <1>7, <1>10
<1>24. x \in calloc' => In(q, x) \/ (\E u \in CThreads : Own(u)' = x) \/ CSpent(x)'
    <2> SUFFICES ASSUME x \in calloc', ~In(q, x), ~(\E u \in CThreads : Own(u)' = x)
                 PROVE  CSpent(x)'
        OBVIOUS
    <2>1. \A u \in CThreads \ {t} : Own(u) # x
        BY <1>8, OthersFacts
    <2>2. i = c
        BY <2>1, <1>20
    <2>3. sum # 0 /\ cnode'[x].internal_count = sum
        BY <1>7
    <2>4. sum = c - 1
        BY <2>2, <1>4, <1>5, <1>13
    <2>5. cnode'[x].internal_count = Cardinality(Refs(x)')
        BY <2>3, <2>4, <1>14
    <2>6. Refs(x)' # {}
        BY <2>3, <2>4, <1>14, FS_EmptySet
    <2> QED BY <2>5, <2>6 DEF CSpent
<1>25. Link(chead)'
    <2>1. PICK h : h = chead.ptr
        OBVIOUS
    <2>2. h # CNull => h \in CNodes /\ In(q, h)
        BY <2>1, CHead, <1>t
    <2>3. h # CNull /\ h # x => Count(h)' = Count(h)
        BY <2>2, <1>15, UntouchedCount
    <2>4. h # CNull /\ h = x => Count(h)' = Count(h)
        BY <2>2, <1>16, <1>17
    <2> QED BY <1>6, <1>t, <2>1, <2>3, <2>4 DEF Link
<1>26. CLocals(t)' /\ COwner(t)'
    BY <1>8, <1>9, <1>10 DEF CLocals, COwner
<1>27. In(q, x) => /\ x \in calloc' /\ cnode'[x].internal_count <= 0
                   /\ cnode'[x].next = cnode[x].next /\ Count(x)' = Count(x)
    BY <1>16, <1>17
<1> QED BY <1>6, <1>7, <1>8, <1>10, <1>14, <1>15, <1>19, <1>23, <1>24, <1>25, <1>26, <1>27, CQuiet

\* The steps that leave the list of nodes as it is.
CListStays(t) ==
    \/ \E v \in CValues : CPush(t, v)
    \/ CPushCas(t) /\ chead # cnode[new_node[t]].next
    \/ CPop(t) \/ increase_head_count(t) \/ ReadNext(t)
    \/ CPopCas(t) /\ chead # old_head[t]
    \/ SwapData(t) \/ AddExternal(t) \/ ReleaseNode(t)

LEMMA CStays ==
    ASSUME CInv, CTypeOK', NEW t \in CThreads, CListStays(t), NEW q \in Seq(CNodes), CShape(q)
    PROVE  CInv' /\ CShape(q)'
<1>1. ASSUME increase_head_count(t) PROVE CInv' /\ CShape(q)'
    <2>1. CASE chead # old_head[t] \/ chead.ptr = CNull
        BY <1>1, <2>1, CIncreaseNothing
    <2>2. CASE chead = old_head[t] /\ chead.ptr # CNull
        BY <1>1, <2>2, CIncreaseCounts
    <2> QED BY <2>1, <2>2
<1> QED BY <1>1, CPushInv, CPushFails, CPopInv, CReadNextInv, CPopFails, CSwapInv,
           CAddExternalInv, CReleaseInv DEF CListStays

LEMMA CNextInv == CInv /\ [CNext]_cVars => CInv'
<1> SUFFICES ASSUME CInv, [CNext]_cVars PROVE CInv'
    OBVIOUS
<1>1. PICK q \in Seq(CNodes) : CShape(q)
    BY DEF CInv
<1>2. CASE UNCHANGED cVars
    <2>1. /\ UNCHANGED <<chead, cnode, calloc, cpc, old_head, cptr, cnext, new_node, cres>>
          /\ CLinks' = CLinks
        BY <1>2 DEF cVars, CLinks
    <2>2. CTypeOK'
        BY <2>1 DEF CInv, CTypeOK
    <2>3. \A u \in CThreads : (Counting(u)' <=> Counting(u)) /\ (Won(u)' <=> Won(u)) /\ Own(u)' = Own(u)
        BY <2>1 DEF Counting, Won, Own
    <2>4. \A n : Refs(n)' = Refs(n) /\ Count(n)' = Count(n)
        <3>1. \A n : Refs(n)' = Refs(n)
            BY <2>1, <2>3 DEF Refs
        <3> QED BY <2>1, <3>1 DEF Count
    <2>5. Link(chead)' /\ \A n : Link(cnode[n].next) => Link(cnode[n].next)'
        BY <2>1, <2>4 DEF Link, CInv
    <2>6. \A u \in CThreads : CLocals(u)' /\ COwner(u)'
        <3> SUFFICES ASSUME NEW u \in CThreads PROVE CLocals(u)' /\ COwner(u)'
            OBVIOUS
        <3>1. CLocals(u) /\ COwner(u)
            BY DEF CInv
        <3>2. CLocals(u)'
            BY <2>1, <2>3, <3>1 DEF CLocals
        <3>3. COwner(u)'
            BY <2>1, <2>3, <2>4, <3>1 DEF COwner
        <3> QED BY <3>2, <3>3
    <2>7. CShape(q)'
        BY <1>1, <2>1, <2>3, <2>4, <2>5 DEF CShape, CListed, CSpent
    <2> QED BY <2>2, <2>4, <2>5, <2>6, <2>7 DEF CInv
<1>3. ASSUME NEW t \in CThreads, CStep(t) \/ CPop(t) \/ \E v \in CValues : CPush(t, v)
      PROVE  CInv'
    <2>1. CTypeOK'
        BY <1>3, CTypes DEF CInv
    <2>2. CASE CListStays(t)
        BY <1>1, <2>1, <2>2, CStays
    <2>3. CASE CPushCas(t) /\ chead = cnode[new_node[t]].next
        BY <1>1, <2>1, <2>3, CPushDone
    <2>4. CASE CPopCas(t) /\ chead = old_head[t]
        BY <1>1, <2>1, <2>4, CPopDone
    <2> QED BY <1>3, <2>2, <2>3, <2>4 DEF CStep, CListStays
<1> QED BY <1>2, <1>3 DEF CNext

LEMMA CInvHolds == CSpec => []CInv
BY CInitInv, CNextInv, PTL DEF CSpec


-----------------------------------------------------------------------------
(* CountedStack: its theorems                                              *)

\* Where the invariant finds a list, StackCounts and CContents find the same.
LEMMA CChainIs ==
    ASSUME CTypeOK, NEW q \in Seq(CNodes), CShape(q)
    PROVE  /\ Ends(chead.ptr, CLinks, CNull, CNodes, Cardinality(CNodes))
           /\ CChain = q /\ Len(q) <= Cardinality(CNodes)
<1>1. PICK h, links : h = chead.ptr /\ links = CLinks
    OBVIOUS
<1>2. PICK n \in Nat : n = Cardinality(CNodes)
    BY CNodesAssumption, FS_CardinalityType
<1>3. Linked(h, links, CNull, q) /\ CNull \notin CNodes
    BY <1>1, CNodeFacts DEF CShape
<1>4. Len(q) <= n
    BY <1>2, CNodesAssumption, ListBound DEF CShape
<1>5. Ends(h, links, CNull, CNodes, n) /\ ListFrom(h, links, CNull, CNodes, n) = q
    BY <1>3, <1>4, ListIs
<1> QED BY <1>1, <1>2, <1>4, <1>5 DEF CChain

LEMMA CountsFollow == CInv => StackCounts
<1> SUFFICES ASSUME CInv PROVE StackCounts
    OBVIOUS
<1>t. CTypeOK /\ \A t \in CThreads : CLocals(t)
    BY DEF CInv
<1>1. PICK q \in Seq(CNodes) : CShape(q)
    BY DEF CInv
<1>2. /\ Ends(chead.ptr, CLinks, CNull, CNodes, Cardinality(CNodes)) /\ CChain = q
    BY <1>t, <1>1, CChainIs
<1>3. \A n : n \in ToSet(CChain) <=> In(q, n)
    BY <1>2 DEF ToSet, In
<1>4. \A n : n \in CHeld <=> n # CNull /\ \E t \in CThreads : cptr[t] = n \/ new_node[t] = n
    BY DEF CHeld
<1>5. ASSUME NEW n \in calloc PROVE In(q, n) \/ n \in CHeld
    <2>1. n # CNull
        BY <1>t, CNodeFacts DEF CTypeOK
    <2>2. \A t \in CThreads : Own(t) = n => n \in CHeld
        BY <2>1, <1>4 DEF Own
    <2>3. CSpent(n) => n \in CHeld
        <3> SUFFICES ASSUME CSpent(n) PROVE n \in CHeld
            OBVIOUS
        <3>1. PICK t \in CThreads : t \in Refs(n)
            BY DEF CSpent, Refs
        <3> QED BY <3>1, <2>1, <1>4 DEF Refs
    <2> QED BY <2>2, <2>3, <1>1 DEF CShape
<1>6. ASSUME NEW n, In(q, n) PROVE n \in calloc
    BY <1>1, <1>6 DEF CShape, CListed
<1>7. ASSUME NEW n \in CHeld PROVE n \in calloc
    <2>1. PICK t \in CThreads : n # CNull /\ (cptr[t] = n \/ new_node[t] = n)
        BY <1>4
    <2>2. CLocals(t)
        BY <1>t
    <2>3. /\ Won(t) => Own(t) = cptr[t] /\ Own(t) # CNull
          /\ cpc[t] = "push" => Own(t) = new_node[t] /\ Own(t) # CNull
        BY <1>t, <2>2, CHands
    <2>4. Own(t) # CNull => Own(t) \in calloc
        BY <1>1 DEF CShape
    <2> QED BY <2>1, <2>2, <2>3, <2>4 DEF CLocals
<1> QED BY <1>2, <1>3, <1>5, <1>6, <1>7 DEF StackCounts

\* The split reference counts of lock_free_stack: the nodes that are not deleted are at every
\* moment those that the head leads to or a thread has in hand, for any number of threads,
\* nodes and calls.
THEOREM NodesCounted == CSpec => []StackCounts
BY CInvHolds, CountsFollow, PTL

-----------------------------------------------------------------------------
LEMMA CNodesPush ==
    \A V : \A f \in [CNodes -> V] : \A s \in Seq(CNodes) : \A x \in CNodes :
        Image(f, <<x>> \o s) = <<f[x]>> \o Image(f, s)
BY ImagePushAll

CData == [n \in CNodes |-> cnode[n].data]

CContentsFact ==
    \A q \in Seq(CNodes) : CShape(q) =>
        CContents = Image(CData, q) /\ Len(q) <= Cardinality(CNodes)

LEMMA CContentsAre == CTypeOK => CContentsFact
<1> SUFFICES ASSUME CTypeOK, NEW q \in Seq(CNodes), CShape(q)
             PROVE  CContents = Image(CData, q) /\ Len(q) <= Cardinality(CNodes)
    BY DEF CContentsFact
<1>1. CChain = q /\ Len(q) <= Cardinality(CNodes)
    BY CChainIs
<1>2. \A i \in DOMAIN q : q[i] \in CNodes
    BY ElementOfSeq, LenProperties
<1>3. \A i \in DOMAIN q : CData[q[i]] = cnode[q[i]].data
    BY <1>2 DEF CData
<1> QED BY <1>1, <1>3 DEF CContents, Image

\* A step of t changes the data neither of a node on the stack nor of one that another
\* thread has alone.
LEMMA CDataStays ==
    ASSUME CInv, NEW t \in CThreads, CListStays(t), NEW q \in Seq(CNodes), CShape(q),
           NEW n \in CNodes, In(q, n) \/ \E u \in CThreads \ {t} : Own(u) = n
    PROVE  cnode'[n].data = cnode[n].data
<1>t. CTypeOK /\ \A u \in CThreads : CLocals(u) /\ COwner(u)
    BY DEF CInv
<1>1. n \in calloc /\ Own(t) # n /\ cnode[n].internal_count <= 0
    <2>1. n # CNull
        BY CNodeFacts
    <2>2. CASE In(q, n)
        BY <2>1, <2>2 DEF CShape, CListed
    <2>3. CASE \E u \in CThreads \ {t} : Own(u) = n
        <3>1. PICK u \in CThreads \ {t} : Own(u) = n
            BY <2>3
        <3>2. Won(u) \/ cpc[u] = "push"
            BY <2>1, <3>1, <1>t, CHands
        <3>3. CLocals(u) /\ COwner(u)
            BY <1>t
        <3>4. Won(u) => cnode[n].internal_count <= 0
            BY <3>1, <3>3, <1>t, CHands DEF COwner
        <3>5. cpc[u] = "push" => cnode[n].internal_count = 0
            BY <3>1, <3>3, <1>t, CHands DEF COwner
        <3> QED BY <2>1, <3>1, <3>2, <3>4, <3>5 DEF CShape
    <2> QED BY <2>2, <2>3
<1>h. /\ Counting(t) \/ Won(t) => cptr[t] \in CNodes
      /\ Won(t) => Own(t) = cptr[t]
      /\ cpc[t] = "push" => new_node[t] \in CNodes
    BY <1>t, CHands
<1>2. ASSUME NEW v \in CValues, CPush(t, v) PROVE cnode'[n] = cnode[n]
    BY <1>1, <1>2, <1>t DEF CPush, CTypeOK
<1>3. ASSUME CPushCas(t), chead # cnode[new_node[t]].next PROVE cnode'[n].data = cnode[n].data
    <2>1. PICK x \in CNodes : x = new_node[t]
        BY <1>3, <1>h DEF CPushCas
    <2>2. cnode' = [cnode EXCEPT ![x].next = chead]
        BY <1>3, <2>1 DEF CPushCas
    <2> QED BY <2>2, <1>t DEF CTypeOK
<1>4. ASSUME CPop(t) \/ increase_head_count(t) \/ ReadNext(t) \/ CPopCas(t) PROVE cnode'[n] = cnode[n]
    BY <1>4 DEF CPop, increase_head_count, ReadNext, CPopCas
<1>5. ASSUME SwapData(t) PROVE cnode'[n] = cnode[n]
    <2>1. Won(t)
        BY <1>5 DEF SwapData, Won
    <2> QED BY <2>1, <1>1, <1>5, <1>h, <1>t DEF SwapData, CTypeOK
<1>6. ASSUME AddExternal(t) PROVE cnode'[n] = cnode[n]
    <2>1. Won(t) /\ cptr[t] # n
        BY <1>1, <1>6, <1>h DEF AddExternal, Won
    <2> QED BY <2>1, <1>6, <1>t DEF AddExternal, AddCount, CTypeOK
<1>7. ASSUME ReleaseNode(t) PROVE cnode'[n].data = cnode[n].data
    <2>1. Counting(t)
        BY <1>7 DEF ReleaseNode, Counting
    <2>2. PICK x \in CNodes : x = cptr[t]
        BY <2>1, <1>h
    <2>3. PICK k \in Int : k = -1
        OBVIOUS
    <2>4. PICK sum : sum = cnode[x].internal_count + k
        OBVIOUS
    <2>5. AddCount(t, k)
        BY <1>7, <2>3 DEF ReleaseNode
    <2>6. /\ n # x => cnode'[n] = cnode[n]
          /\ sum # 0 => cnode'[x].data = cnode[x].data
        BY <2>2, <2>4, <2>5, <1>t, CAddFacts
    <2>7. n = x => sum # 0
        BY <1>1, <2>3, <2>4, <1>t DEF CTypeOK
    <2> QED BY <2>6, <2>7
<1> QED BY <1>2, <1>3, <1>4, <1>5, <1>6, <1>7 DEF CListStays

LEMMA CLifoInit == CInit => CLifo!Init
<1> SUFFICES ASSUME CInit PROVE CLifo!Init
    OBVIOUS
<1>1. CInv
    BY CInitInv
<1>2. PICK q \in Seq(CNodes) : CShape(q)
    BY <1>1 DEF CInv
<1>3. q = <<>>
    <2>1. Linked(CNull, CLinks, CNull, q)
        BY <1>2 DEF CShape, CInit, NullPtr, Counted
    <2>2. q # <<>> => q[1] \in CNodes
        BY EmptySeq, LenProperties, ElementOfSeq
    <2> QED BY <2>1, <2>2, CNodeFacts DEF Linked
<1>4. CContents = Image(CData, q)
    BY <1>1, <1>2, CContentsAre DEF CContentsFact, CInv
<1>5. Image(CData, <<>>) = <<>>
    <2>1. CData \in [CNodes -> CValues \cup {CNone}] /\ <<>> \in Seq(CNodes)
        BY <1>1 DEF CInv, CTypeOK, CData
    <2> QED BY <2>1, ImageFacts
<1>6. CTaken = [t \in CThreads |-> CNone]
    BY DEF CTaken, CInit
<1> QED BY <1>3, <1>4, <1>5, <1>6 DEF CLifo!Init

\* What the pops of the others return is not affected by a step of t.
LEMMA COthersTaken ==
    ASSUME CInv, NEW t \in CThreads, OthersStay(t), NEW q \in Seq(CNodes), CShape(q),
           \A n \in CNodes : (\E u \in CThreads \ {t} : Own(u) = n) => cnode'[n].data = cnode[n].data,
           \A u \in CThreads \ {t} : cres'[u] = cres[u],
           NEW u \in CThreads \ {t}
    PROVE  CTaken'[u] = CTaken[u]
<1>1. cpc'[u] = cpc[u] /\ cptr'[u] = cptr[u] /\ cres'[u] = cres[u]
    BY DEF OthersStay
<1>2. CTypeOK /\ CLocals(u)
    BY DEF CInv
<1>3. cpc[u] = "swap" => cnode'[cptr[u]].data = cnode[cptr[u]].data
    <2>1. cpc[u] = "swap" => Own(u) = cptr[u] /\ cptr[u] \in CNodes
        BY <1>2, CHands DEF Won
    <2> QED BY <2>1
<1> QED BY <1>1, <1>3 DEF CTaken

LEMMA COthersStay ==
    ASSUME CTypeOK, NEW t \in CThreads, CStep(t) \/ CPop(t) \/ \E v \in CValues : CPush(t, v)
    PROVE  OthersStay(t) /\ \A u \in CThreads \ {t} : cres'[u] = cres[u]
BY DEF CTypeOK, CStep, CPop, CPush, CPushCas, increase_head_count, ReadNext, CPopCas, SwapData,
       AddExternal, ReleaseNode, AddCount, CCall, CGoto, OthersStay

\* What a step that leaves the list as it is means for the result of its own thread.
LEMMA CTakenStays ==
    ASSUME CTypeOK, NEW t \in CThreads, CListStays(t),
           ~(increase_head_count(t) /\ chead = old_head[t] /\ chead.ptr = CNull)
    PROVE  CTaken'[t] = CTaken[t]
<1>1. CTaken[t] = (IF cpc[t] = "swap" THEN cnode[cptr[t]].data ELSE cres[t])
    BY DEF CTaken
<1>2. CTaken'[t] = (IF cpc'[t] = "swap" THEN cnode'[cptr'[t]].data ELSE cres'[t])
    BY DEF CTaken
<1>3. ASSUME SwapData(t) PROVE CTaken'[t] = CTaken[t]
    <2>1. cpc[t] = "swap" /\ cpc'[t] = "count" /\ cres'[t] = cnode[cptr[t]].data
        BY <1>3 DEF SwapData, CGoto, CTypeOK
    <2> QED BY <2>1, <1>1, <1>2
<1>4. ASSUME increase_head_count(t) PROVE CTaken'[t] = CTaken[t]
    <2>1. PICK c : c = [old_head[t] EXCEPT !.external_count = @ + 1]
        OBVIOUS
    <2>2. c.ptr = old_head[t].ptr
        BY <2>1 DEF CTypeOK, CPointer
    <2>3. cpc[t] = "increase" /\ cpc'[t] # "swap" /\ cres'[t] = cres[t]
        <3>1. CASE chead # old_head[t]
            BY <1>4, <3>1 DEF increase_head_count, CTypeOK
        <3>2. CASE chead = old_head[t]
            <4>1. c.ptr # CNull
                BY <1>4, <2>2, <3>2
            <4> QED BY <1>4, <2>1, <3>2, <4>1 DEF increase_head_count, CTypeOK, CGoto
        <3> QED BY <3>1, <3>2
    <2> QED BY <2>3, <1>1, <1>2
<1>5. ASSUME CListStays(t), ~SwapData(t), ~increase_head_count(t)
      PROVE  cpc[t] # "swap" /\ cpc'[t] # "swap" /\ cres'[t] = cres[t]
    BY <1>5 DEF CListStays, CPush, CPushCas, CPop, ReadNext, CPopCas, AddExternal, ReleaseNode,
                CCall, CGoto, CTypeOK
<1> QED BY <1>1, <1>2, <1>3, <1>4, <1>5

LEMMA CLifoNext == CInv /\ CInv' /\ [CNext]_cVars => [CLifo!Next]_(CLifo!vars)
<1> SUFFICES ASSUME CInv, CInv', [CNext]_cVars PROVE [CLifo!Next]_(CLifo!vars)
    OBVIOUS
<1>t. CTypeOK /\ CTypeOK' /\ \A u \in CThreads : CLocals(u) /\ COwner(u)
    BY DEF CInv
<1>c. CContentsFact /\ CContentsFact'
    BY <1>t, CContentsAre, PTL
<1>q. PICK q \in Seq(CNodes) : CShape(q)
    BY DEF CInv
<1>v. PICK V : V = CValues \cup {CNone}
    OBVIOUS
<1>d. CData \in [CNodes -> V] /\ CData' \in [CNodes -> V]
    BY <1>t, <1>v DEF CTypeOK, CData
<1>f. PICK f \in [CNodes -> V], g \in [CNodes -> V] : f = CData /\ g = CData'
    BY <1>d
<1>e. \A n \in CNodes : f[n] = cnode[n].data /\ g[n] = cnode'[n].data
    BY <1>f DEF CData
<1>k. PICK size \in Nat : size = Cardinality(CNodes)
    BY CNodesAssumption, FS_CardinalityType
<1>i. Len(Image(f, q)) = Len(q) /\ (Image(f, q) = <<>> <=> q = <<>>)
    <2>1. PICK u \in Seq(V) : u = Image(f, q)
        BY ImageFacts
    <2>2. Len(u) = Len(q) /\ (u = <<>> <=> q = <<>>)
        BY <2>1, ImageFacts
    <2> QED BY <2>1, <2>2, Zenon
<1>h. \A x \in CNodes : Image(f, <<x>> \o q) = <<f[x]>> \o Image(f, q)
    BY CNodesPush, Zenon
<1>1. CContents = Image(f, q) /\ Len(q) <= size
    BY <1>c, <1>f, <1>k, <1>q DEF CContentsFact
<1>2. ASSUME NEW p \in Seq(CNodes), CShape(p)'
      PROVE  CContents' = Image(g, p) /\ Len(p) <= size
    BY <1>c, <1>f, <1>k, <1>2 DEF CContentsFact
<1>3. CASE UNCHANGED cVars
    <2>1. UNCHANGED <<chead, cnode, cpc, cptr, cres>> /\ CLinks' = CLinks
        BY <1>3 DEF cVars, CLinks
    <2>2. CContents' = CContents
        BY <2>1 DEF CContents, CChain
    <2>3. CTaken' = CTaken
        BY <2>1 DEF CTaken
    <2> QED BY <2>2, <2>3 DEF CLifo!vars
<1>4. ASSUME NEW t \in CThreads, CStep(t) \/ CPop(t) \/ \E v \in CValues : CPush(t, v)
      PROVE  [CLifo!Next]_(CLifo!vars)
    <2>o. OthersStay(t) /\ \A u \in CThreads \ {t} : cres'[u] = cres[u]
        BY <1>4, <1>t, COthersStay
    <2>m. /\ CTaken = [u \in CThreads |-> CTaken[u]]
          /\ CTaken' = [u \in CThreads |-> CTaken'[u]]
        BY DEF CTaken
    <2>1. CASE CListStays(t)
        <3>1. CShape(q)'
            BY <1>q, <1>t, <2>1, CStays
        <3>2. \A n \in CNodes : In(q, n) \/ (\E u \in CThreads \ {t} : Own(u) = n) =>
                    cnode'[n].data = cnode[n].data
            BY <1>q, <2>1, CDataStays
        <3>3. Image(f, q) = Image(g, q)
            <4>1. \A n : In(q, n) => f[n] = g[n]
                BY <3>2, <1>e, InNodes
            <4> QED BY <4>1, ImageFrame, Zenon
        <3>4. CContents' = CContents
            BY <1>1, <1>2, <3>1, <3>3
        <3>5. \A u \in CThreads \ {t} : CTaken'[u] = CTaken[u]
            BY <1>q, <2>o, <3>2, COthersTaken
        <3>6. CASE increase_head_count(t) /\ chead = old_head[t] /\ chead.ptr = CNull
            <4>1. q = <<>>
                <5>1. q # <<>> => q[1] \in CNodes
                    BY EmptySeq, LenProperties, ElementOfSeq
                <5> QED BY <5>1, <3>6, <1>q, CNodeFacts DEF CShape, Linked
            <4>2. CContents = <<>>
                BY <4>1, <1>1, <1>i
            <4>3. PICK c : c = [old_head[t] EXCEPT !.external_count = @ + 1]
                OBVIOUS
            <4>4. c.ptr = CNull
                BY <3>6, <4>3, <1>t DEF CTypeOK, CPointer
            <4>5. cpc'[t] = "idle" /\ cres'[t] = CNone
                BY <3>6, <4>3, <4>4, <1>t DEF increase_head_count, CTypeOK, CGoto
            <4>6. CTaken'[t] = CNone
                BY <4>5 DEF CTaken
            <4>7. CTaken' = [CTaken EXCEPT ![t] = CNone]
                BY <2>m, <3>5, <4>6
            <4> QED BY <3>4, <4>2, <4>7 DEF CLifo!Next, CLifo!PopEmpty
        <3>7. CASE ~(increase_head_count(t) /\ chead = old_head[t] /\ chead.ptr = CNull)
            <4>1. CTaken'[t] = CTaken[t]
                BY <1>t, <2>1, <3>7, CTakenStays
            <4>2. CTaken' = CTaken
                BY <2>m, <3>5, <4>1
            <4> QED BY <3>4, <4>2 DEF CLifo!vars
        <3> QED BY <3>6, <3>7
    <2>2. CASE CPushCas(t) /\ chead = cnode[new_node[t]].next
        <3>x. PICK x \in CNodes : x = new_node[t]
            BY <1>t, <2>2, CHands DEF CPushCas
        <3>1. cpc[t] = "push" /\ cpc'[t] = "idle" /\ cnode' = cnode /\ cres' = cres
            BY <2>2, <1>t DEF CPushCas, CGoto, CTypeOK
        <3>2. CTaken' = CTaken
            <4>1. \A u \in CThreads \ {t} : CTaken'[u] = CTaken[u]
                BY <1>q, <2>o, <3>1, COthersTaken
            <4>2. CTaken'[t] = CTaken[t]
                BY <3>1 DEF CTaken
            <4> QED BY <2>m, <4>1, <4>2
        <3>3. PICK p \in Seq(CNodes) : p = <<x>> \o q
            BY PushIn
        <3>4. CShape(p)'
            BY <1>q, <1>t, <2>2, <3>x, <3>3, CPushDone
        <3>5. f = g /\ f[x] \in CValues
            <4>1. CData' = CData
                BY <3>1 DEF CData
            <4>2. COwner(t)
                BY <1>t
            <4> QED BY <4>1, <4>2, <3>1, <3>x, <1>e, <1>f DEF COwner
        <3>6. CContents' = <<f[x]>> \o CContents /\ Len(p) <= size
            BY <1>h, <1>1, <1>2, <3>3, <3>4, <3>5
        <3>7. Len(CContents) < Cardinality(CNodes)
            <4>1. Len(p) = 1 + Len(q) /\ Len(q) \in Nat
                BY <3>3, PushIn, LenProperties
            <4> QED BY <4>1, <3>6, <1>1, <1>i, <1>k
        <3> QED BY <3>2, <3>5, <3>6, <3>7 DEF CLifo!Next, CLifo!Push
    <2>3. CASE CPopCas(t) /\ chead = old_head[t]
        <3>1. cpc'[t] = "swap" /\ cptr' = cptr /\ cnode' = cnode /\ cres' = cres
            BY <2>3, <1>t DEF CPopCas, CGoto, CTypeOK
        <3>2. q # <<>> /\ Head(q) = cptr[t] /\ Tail(q) \in Seq(CNodes) /\ CShape(Tail(q))'
            BY <1>q, <1>t, <2>3, CPopDone
        <3>3. f = g
            <4>1. CData' = CData
                BY <3>1 DEF CData
            <4> QED BY <4>1, <1>f
        <3>4. Image(f, Tail(q)) = Tail(Image(f, q)) /\ Head(Image(f, q)) = f[Head(q)]
            BY <3>2, ImageTail
        <3>5. CContents' = Tail(CContents) /\ CContents # <<>> /\ Head(CContents) = f[cptr[t]]
            <4>1. PICK p \in Seq(CNodes) : p = Tail(q)
                BY <3>2
            <4>2. CShape(p)'
                BY <3>2, <4>1
            <4>3. CContents' = Image(f, p)
                BY <4>2, <1>2, <3>3
            <4> QED BY <4>1, <4>3, <3>2, <3>4, <1>1, <1>i
        <3>6. CTaken' = [CTaken EXCEPT ![t] = Head(CContents)]
            <4>1. \A u \in CThreads \ {t} : CTaken'[u] = CTaken[u]
                BY <1>q, <2>o, <3>1, COthersTaken
            <4>2. cptr[t] \in CNodes
                BY <3>2, TailIn
            <4>3. CTaken'[t] = f[cptr[t]]
                BY <3>1, <4>2, <1>e DEF CTaken
            <4> QED BY <2>m, <3>5, <4>1, <4>3
        <3> QED BY <3>5, <3>6 DEF CLifo!Next, CLifo!Pop
    <2> QED BY <1>4, <2>1, <2>2, <2>3 DEF CStep, CListStays
<1> QED BY <1>3, <1>4 DEF CNext

\* push and pop of lock_free_stack take effect at one of their compare_exchanges, on the stack
\* of values: a count that has come back with the same address is that of the same node.
THEOREM CountedStackRefinement == CSpec => ImplementsCountedStack
BY CInvHolds, CLifoInit, CLifoNext, PTL DEF CSpec, ImplementsCountedStack, CLifo!Spec

-----------------------------------------------------------------------------
(* HazardPointers                                                          *)

HLabel == {"idle", "acquire", "load", "publish", "validate", "use", "clear", "exit",
           "retire", "scan", "keep", "delete"}

HTypeOK ==
    /\ id \in [Slot -> HThreads \cup {HNull}]
    /\ pointer \in [Slot -> HObjects \cup {HNull}]
    /\ m_hp \in [HThreads -> Slot \cup {NoSlot}]
    /\ g_nodes_to_reclaim \in Seq(HObjects)
    /\ shared \in HObjects \cup {HNull}
    /\ live \in SUBSET HObjects
    /\ hpc \in [HThreads -> HLabel]
    /\ slot_i \in [HThreads -> Slot]
    /\ object \in [HThreads -> HObjects \cup {HNull}]
    /\ current \in [HThreads -> Seq(HObjects)]

Reading(t) == hpc[t] \in {"load", "publish", "validate", "use", "clear", "exit"}
Reclaiming(t) == hpc[t] \in {"scan", "keep", "delete"}

\* What each thread has where it is: a reader owns a slot and, once it has published, has
\* its object there; a writer that reclaims has objects to look at.
HPlace(t) ==
    /\ m_hp[t] # NoSlot => id[m_hp[t]] = t
    /\ Reading(t) => m_hp[t] # NoSlot
    /\ hpc[t] \in {"publish", "validate", "use", "retire"} => object[t] # HNull
    /\ hpc[t] \in {"validate", "use"} => pointer[m_hp[t]] = object[t]
    /\ hpc[t] \notin {"acquire", "scan"} => slot_i[t] = 1
    /\ Reclaiming(t) <=> current[t] # <<>>

\* The scan for an object that is in use has not passed the slot of its user.
Ahead(t, u) ==
    hpc[u] = "use" /\ Reclaiming(t) /\ object[u] = Head(current[t]) =>
        hpc[t] = "keep" \/ (hpc[t] = "scan" /\ slot_i[t] <= m_hp[u])

\* Is o in the list of retired objects, or in the part of it that t still has to look at?
Listed(o) == \E i \in DOMAIN g_nodes_to_reclaim : g_nodes_to_reclaim[i] = o
Has(t, o) == \E i \in DOMAIN current[t] : current[t][i] = o

\* No two places have the same object.
Apart ==
    /\ \A i, j \in DOMAIN g_nodes_to_reclaim :
        g_nodes_to_reclaim[i] = g_nodes_to_reclaim[j] => i = j
    /\ \A t \in HThreads : \A i, j \in DOMAIN current[t] : current[t][i] = current[t][j] => i = j
    /\ \A o : \A t \in HThreads :
        Has(t, o) => /\ ~Listed(o) /\ o # shared
                     /\ \A u \in HThreads : Has(u, o) => u = t
    /\ ~Listed(shared)
    /\ \A t \in HThreads : hpc[t] = "retire" =>
        /\ object[t] # shared /\ ~Listed(object[t])
        /\ \A u \in HThreads : ~Has(u, object[t])
        /\ \A u \in HThreads : hpc[u] = "retire" /\ object[u] = object[t] => u = t

\* Is o in one of the places?
Kept(o) ==
    \/ shared = o
    \/ Listed(o)
    \/ \E t \in HThreads : hpc[t] = "retire" /\ object[t] = o
    \/ \E t \in HThreads : Has(t, o)

\* What is not deleted is kept in one place.
Owned == Apart /\ \A o \in HObjects : o \in live <=> Kept(o)

HInv ==
    /\ HTypeOK
    /\ \A t \in HThreads : HPlace(t)
    /\ \A t, u \in HThreads : Ahead(t, u)
    /\ \A t \in HThreads : hpc[t] = "use" => object[t] \in live
    /\ Owned

-----------------------------------------------------------------------------
LEMMA SlotFacts ==
    /\ NoSlot \notin Slot /\ 1 \in Slot /\ kMaxHazardPointers \in Slot
    /\ \A s \in Slot : s \in Nat /\ 1 <= s /\ s <= kMaxHazardPointers
    /\ \A s \in Slot : s # kMaxHazardPointers => s + 1 \in Slot
BY HazardAssumption DEF Slot, NoSlot

LEMMA HInitInv == HInit => HInv
<1> SUFFICES ASSUME HInit PROVE HInv
    OBVIOUS
<1> USE DEF HInit
<1>1. HTypeOK
    BY SlotFacts DEF HTypeOK, HLabel
<1>2. \A t \in HThreads : HPlace(t)
    BY DEF HPlace, Reading, Reclaiming
<1>3. \A t, u \in HThreads : Ahead(t, u)
    BY DEF Ahead
<1>4. Owned
    BY HNullAssumption DEF Owned, Apart, Kept, Listed, Has
<1> QED BY <1>1, <1>2, <1>3, <1>4 DEF HInv

\* Steps that do not concern where objects are kept.
LEMMA PlacesUntouched ==
    ASSUME HInv, NEW t \in HThreads, UNCHANGED <<shared, g_nodes_to_reclaim, live, current>>,
           \A u \in HThreads : u # t => hpc'[u] = hpc[u] /\ object'[u] = object[u],
           hpc[t] # "retire", hpc'[t] # "retire"
    PROVE  Owned'
<1>1. \A u \in HThreads : /\ hpc'[u] = "retire" <=> hpc[u] = "retire"
                          /\ hpc[u] = "retire" => object'[u] = object[u]
    OBVIOUS
<1>2. \A o : (Listed(o)' <=> Listed(o)) /\ \A u \in HThreads : Has(u, o)' <=> Has(u, o)
    BY DEF Listed, Has
<1>3. Apart'
    BY <1>1, <1>2 DEF HInv, Owned, Apart
<1>4. \A o : Kept(o)' <=> Kept(o)
    BY <1>1, <1>2 DEF Kept
<1> QED BY <1>3, <1>4 DEF HInv, Owned

\* A slot has one owner.
LEMMA OwnSlot ==
    ASSUME HInv, NEW t \in HThreads, NEW u \in HThreads, t # u, m_hp[t] # NoSlot
    PROVE  m_hp[u] # m_hp[t]
BY DEF HInv, HPlace

\* The steps of a reader other than Validate and try_acquire.
LEMMA ReaderInv ==
    ASSUME HInv, NEW t \in HThreads,
           ReadBegin(t) \/ Load(t) \/ Publish(t) \/ ReadEnd(t) \/ ExitClear(t) \/ ExitRelease(t)
    PROVE  HInv'
<1> USE DEF HGoto, ReadBegin, Load, Publish, ReadEnd, ExitClear, ExitRelease
<1>1. /\ UNCHANGED <<g_nodes_to_reclaim, shared, live, slot_i, current>>
      /\ hpc'[t] \in HLabel /\ hpc'[t] \notin {"retire", "use", "scan", "keep", "delete"}
      /\ hpc' = [hpc EXCEPT ![t] = hpc'[t]]
      /\ hpc[t] \notin {"retire", "scan", "keep", "delete"}
      /\ object'[t] \in HObjects \cup {HNull}
      /\ object' = [object EXCEPT ![t] = object'[t]]
    <2>1. CASE ReadBegin(t)
        BY <2>1 DEF HInv, HTypeOK, HLabel
    <2>2. CASE Load(t)
        BY <2>2 DEF HInv, HTypeOK, HLabel
    <2>3. CASE Publish(t) \/ ReadEnd(t) \/ ExitClear(t) \/ ExitRelease(t)
        BY <2>3 DEF HInv, HTypeOK, HLabel
    <2> QED BY <2>1, <2>2, <2>3
<1>2. \A u \in HThreads : u # t => hpc'[u] = hpc[u] /\ object'[u] = object[u]
    BY <1>1 DEF HInv, HTypeOK
<1>3. Reading(t) => m_hp[t] \in Slot
    BY DEF HInv, HTypeOK, HPlace
<1>4. HTypeOK'
    BY <1>1, <1>3, SlotFacts DEF HInv, HTypeOK, Reading
<1>5. \A u \in HThreads : u # t => HPlace(u)'
    <2> SUFFICES ASSUME NEW u \in HThreads, u # t PROVE HPlace(u)'
        OBVIOUS
    <2>1. m_hp'[u] = m_hp[u]
        BY DEF HInv, HTypeOK
    <2>2. m_hp[u] # NoSlot => id'[m_hp[u]] = id[m_hp[u]] /\ pointer'[m_hp[u]] = pointer[m_hp[u]]
        BY <1>3, OwnSlot DEF HInv, HTypeOK, Reading
    <2> QED BY <1>1, <1>2, <2>1, <2>2 DEF HInv, HPlace, Reading, Reclaiming
<1>6. HPlace(t)'
    <2>1. CASE ReadBegin(t)
        BY <1>1, <2>1 DEF HInv, HTypeOK, HPlace, Reading, Reclaiming
    <2>2. CASE Load(t)
        BY <1>1, <2>2 DEF HInv, HTypeOK, HPlace, Reading, Reclaiming
    <2>3. CASE Publish(t)
        BY <1>1, <1>3, <2>3 DEF HInv, HTypeOK, HPlace, Reading, Reclaiming
    <2>4. CASE ReadEnd(t)
        BY <1>1, <2>4 DEF HInv, HTypeOK, HPlace, Reading, Reclaiming
    <2>5. CASE ExitClear(t)
        BY <1>1, <2>5 DEF HInv, HTypeOK, HPlace, Reading, Reclaiming
    <2>6. CASE ExitRelease(t)
        BY <1>1, <2>6 DEF HInv, HTypeOK, HPlace, Reading, Reclaiming
    <2> QED BY <2>1, <2>2, <2>3, <2>4, <2>5, <2>6
<1>7. \A u, v \in HThreads : Ahead(u, v)'
    <2>1. \A v \in HThreads : hpc'[v] = "use" => hpc[v] = "use" /\ object'[v] = object[v] /\ m_hp'[v] = m_hp[v]
        BY <1>1, <1>2 DEF HInv, HTypeOK
    <2>2. \A u \in HThreads : Reclaiming(u)' => hpc'[u] = hpc[u]
        BY <1>1, <1>2 DEF Reclaiming
    <2> QED BY <1>1, <2>1, <2>2 DEF HInv, Ahead, Reclaiming
<1>8. \A u \in HThreads : hpc'[u] = "use" => object'[u] \in live'
    BY <1>1, <1>2 DEF HInv
<1>9. Owned'
    BY <1>1, <1>2, PlacesUntouched
<1> QED BY <1>4, <1>5, <1>6, <1>7, <1>8, <1>9 DEF HInv

LEMMA AcquireInv ==
    ASSUME HInv, NEW t \in HThreads, try_acquire(t)
    PROVE  HInv'
<1> DEFINE s == slot_i[t]
<1>1. /\ UNCHANGED <<pointer, g_nodes_to_reclaim, shared, live, object, current>>
      /\ hpc[t] = "acquire" /\ hpc'[t] \in {"idle", "acquire", "load"}
      /\ \A u \in HThreads : u # t => hpc'[u] = hpc[u] /\ slot_i'[u] = slot_i[u] /\ m_hp'[u] = m_hp[u]
      /\ hpc' \in [HThreads -> HLabel]
    BY DEF try_acquire, HGoto, HInv, HTypeOK, HLabel
<1>2. s \in Slot
    BY DEF HInv, HTypeOK
<1>3. HTypeOK'
    BY <1>1, <1>2, SlotFacts DEF HInv, HTypeOK, try_acquire
<1>4. \A u \in HThreads : HPlace(u)'
    <2>1. HPlace(t)'
        <3>1. CASE id[s] = HNull
            <4>1. m_hp'[t] = s /\ id'[s] = t /\ hpc'[t] = "load" /\ slot_i'[t] = 1
                BY <1>2, <3>1 DEF try_acquire, HGoto, HInv, HTypeOK
            <4> QED BY <1>1, <1>2, <4>1, SlotFacts DEF HInv, HPlace, Reading, Reclaiming
        <3>2. CASE id[s] # HNull
            <4>1. m_hp'[t] = m_hp[t] /\ id' = id
                BY <3>2 DEF try_acquire
            <4>2. (hpc'[t] = "idle" /\ slot_i'[t] = 1) \/ hpc'[t] = "acquire"
                BY <3>2 DEF try_acquire, HGoto, HInv, HTypeOK
            <4> QED BY <1>1, <4>1, <4>2 DEF HInv, HPlace, Reading, Reclaiming
        <3> QED BY <3>1, <3>2
    <2>2. \A u \in HThreads : u # t /\ m_hp[u] # NoSlot => id'[m_hp[u]] = id[m_hp[u]]
        BY <1>2, HNullAssumption DEF HInv, HTypeOK, HPlace, try_acquire
    <2> QED BY <1>1, <2>1, <2>2 DEF HInv, HPlace, Reading, Reclaiming
<1>5. \A u, v \in HThreads : Ahead(u, v)'
    <2>1. \A v \in HThreads : hpc'[v] = "use" => v # t
        BY <1>1
    <2>2. \A u \in HThreads : Reclaiming(u)' => u # t
        BY <1>1 DEF Reclaiming
    <2> QED BY <1>1, <2>1, <2>2 DEF HInv, Ahead, Reclaiming
<1>6. \A u \in HThreads : hpc'[u] = "use" => object'[u] \in live'
    BY <1>1 DEF HInv
<1>7. Owned'
    BY <1>1, PlacesUntouched
<1> QED BY <1>3, <1>4, <1>5, <1>6, <1>7 DEF HInv

\* What a reader finds shared after it has published it is not being scanned for.
LEMMA ValidateInv ==
    ASSUME HInv, NEW t \in HThreads, Validate(t)
    PROVE  HInv'
<1>1. /\ UNCHANGED <<id, pointer, m_hp, g_nodes_to_reclaim, shared, live, slot_i, current>>
      /\ hpc[t] = "validate" /\ hpc'[t] \in {"use", "clear", "publish"}
      /\ hpc'[t] = "use" => shared = object[t]
      /\ hpc'[t] = "publish" => shared # HNull
      /\ object'[t] = shared
      /\ \A u \in HThreads : u # t => hpc'[u] = hpc[u] /\ object'[u] = object[u]
    BY DEF Validate, HGoto, HInv, HTypeOK
<1>2. HTypeOK'
    BY <1>1 DEF HInv, HTypeOK, HLabel, Validate, HGoto
<1>3. \A u \in HThreads : HPlace(u)'
    BY <1>1 DEF HInv, HPlace, Reading, Reclaiming
<1>4. \A u, v \in HThreads : Ahead(u, v)'
    <2> SUFFICES ASSUME NEW u \in HThreads, NEW v \in HThreads PROVE Ahead(u, v)'
        OBVIOUS
    <2>1. Reclaiming(u)' => u # t
        BY <1>1 DEF Reclaiming
    <2>2. CASE v # t
        BY <1>1, <2>1, <2>2 DEF HInv, Ahead, Reclaiming
    <2>3. CASE v = t
        <3>1. Reclaiming(u) => current[u] \in Seq(HObjects) /\ current[u] # <<>>
            BY DEF HInv, HTypeOK, HPlace
        <3>2. Reclaiming(u) => Head(current[u]) = current[u][1] /\ 1 \in DOMAIN current[u]
            BY <3>1
        <3>3. Reclaiming(u) => Has(u, Head(current[u]))
            BY <3>2 DEF Has
        <3> QED BY <1>1, <2>1, <2>3, <3>3 DEF Ahead, Reclaiming, HInv, Owned, Apart
    <2> QED BY <2>2, <2>3
<1>5. \A u \in HThreads : hpc'[u] = "use" => object'[u] \in live'
    <2>1. hpc'[t] = "use" => shared \in HObjects /\ Kept(shared)
        BY <1>1 DEF HInv, HTypeOK, HPlace, Kept
    <2> QED BY <1>1, <2>1 DEF HInv, Owned
<1>6. Owned'
    BY <1>1, PlacesUntouched
<1> QED BY <1>2, <1>3, <1>4, <1>5, <1>6 DEF HInv

-----------------------------------------------------------------------------
(* The writers. *)

\* The new object was in no place, the one it replaces changes places.
LEMMA ReplaceInv ==
    ASSUME HInv, NEW t \in HThreads, Replace(t)
    PROVE  HInv'
<1>0. PICK o \in (HObjects \ live) \cup {HNull} :
        o # shared /\ shared' = o /\ live' = live \cup ({o} \ {HNull})
    BY DEF Replace
<1>1. /\ UNCHANGED <<id, pointer, m_hp, g_nodes_to_reclaim, slot_i, current>>
      /\ hpc[t] = "idle" /\ hpc'[t] = (IF shared = HNull THEN "idle" ELSE "retire")
      /\ object'[t] = shared
      /\ \A u \in HThreads : u # t => hpc'[u] = hpc[u] /\ object'[u] = object[u]
    BY DEF Replace, HGoto, HInv, HTypeOK
<1>2. HTypeOK'
    BY <1>0 DEF HInv, HTypeOK, HLabel, Replace, HGoto
<1>3. \A u \in HThreads : HPlace(u)'
    BY <1>1 DEF HInv, HPlace, Reading, Reclaiming
<1>4. \A u, v \in HThreads : Ahead(u, v)'
    <2>1. \A u \in HThreads : Reclaiming(u)' \/ hpc'[u] = "use" => u # t
        BY <1>1 DEF Reclaiming
    <2> QED BY <1>1, <2>1 DEF HInv, Ahead, Reclaiming
<1>5. \A u \in HThreads : hpc'[u] = "use" => object'[u] \in live'
    BY <1>0, <1>1 DEF HInv
<1>6. o # HNull => o \in HObjects /\ ~Kept(o)
    BY <1>0 DEF HInv, Owned
<1>7. \A p : (Listed(p)' <=> Listed(p)) /\ \A u \in HThreads : Has(u, p)' <=> Has(u, p)
    BY <1>1 DEF Listed, Has
<1>8. /\ ~Listed(o) /\ \A u \in HThreads : ~Has(u, o)
      /\ \A u \in HThreads : hpc[u] = "retire" => object[u] # o
    <2>1. CASE o = HNull
        BY <2>1, HNullAssumption DEF HInv, HTypeOK, HPlace, Listed, Has
    <2>2. CASE o # HNull
        BY <1>6, <2>2 DEF Kept
    <2> QED BY <2>1, <2>2
<1>9. Apart'
    <2>1. \A p : \A u \in HThreads : Has(u, p) => ~Listed(p) /\ p # o /\ \A v \in HThreads : Has(v, p) => v = u
        BY <1>8 DEF HInv, Owned, Apart
    <2>2. ASSUME NEW u \in HThreads, hpc'[u] = "retire"
          PROVE  /\ object'[u] # o /\ ~Listed(object'[u])
                 /\ \A v \in HThreads : ~Has(v, object'[u])
                 /\ \A v \in HThreads : hpc'[v] = "retire" /\ object'[v] = object'[u] => v = u
        <3>1. CASE u = t
            BY <1>0, <1>1, <3>1 DEF HInv, Owned, Apart
        <3>2. CASE u # t
            BY <1>1, <1>8, <2>2, <3>2 DEF HInv, Owned, Apart
        <3> QED BY <3>1, <3>2
    <2>3. /\ \A i, j \in DOMAIN g_nodes_to_reclaim :
                g_nodes_to_reclaim[i] = g_nodes_to_reclaim[j] => i = j
          /\ \A u \in HThreads : \A i, j \in DOMAIN current[u] : current[u][i] = current[u][j] => i = j
        BY DEF HInv, Owned, Apart
    <2> QED BY <1>0, <1>1, <1>7, <1>8, <2>1, <2>2, <2>3 DEF Apart
<1>10. ASSUME NEW p \in HObjects PROVE p \in live' <=> Kept(p)'
    <2>1. p \in live' <=> p \in live \/ p = o
        BY <1>0, HNullAssumption
    <2>2. CASE p = o
        BY <1>0, <2>1, <2>2 DEF Kept
    <2>3. CASE p # o
        <3>1. (\E u \in HThreads : hpc'[u] = "retire" /\ object'[u] = p)
              <=> (shared = p \/ \E u \in HThreads : hpc[u] = "retire" /\ object[u] = p)
            BY <1>1, HNullAssumption
        <3>2. Kept(p)' <=> Kept(p)
            BY <1>0, <1>7, <2>3, <3>1 DEF Kept
        <3> QED BY <2>1, <2>3, <3>2 DEF HInv, Owned
    <2> QED BY <2>2, <2>3
<1> QED BY <1>2, <1>3, <1>4, <1>5, <1>9, <1>10 DEF HInv, Owned

\* The entries of the list after one was put in front.
LEMMA ListAfterAdd ==
    ASSUME HTypeOK, NEW o \in HObjects, add_to_reclaim_list(o)
    PROVE  /\ g_nodes_to_reclaim' \in Seq(HObjects)
           /\ DOMAIN g_nodes_to_reclaim = 1 .. Len(g_nodes_to_reclaim)
           /\ DOMAIN g_nodes_to_reclaim' = 1 .. Len(g_nodes_to_reclaim) + 1
           /\ Len(g_nodes_to_reclaim) \in Nat
           /\ g_nodes_to_reclaim'[1] = o
           /\ \A i \in 1 .. Len(g_nodes_to_reclaim) : g_nodes_to_reclaim'[i + 1] = g_nodes_to_reclaim[i]
BY DEF HTypeOK, add_to_reclaim_list

\* An entry of the list afterwards is the new one or one from before, and all stay.
LEMMA EntriesAfterAdd ==
    ASSUME HInv, NEW o \in HObjects, add_to_reclaim_list(o), ~Listed(o)
    PROVE  /\ g_nodes_to_reclaim' \in Seq(HObjects)
           /\ \A p : Listed(p)' <=> p = o \/ Listed(p)
           /\ \A i, j \in DOMAIN g_nodes_to_reclaim' :
                g_nodes_to_reclaim'[i] = g_nodes_to_reclaim'[j] => i = j
<1> DEFINE n == Len(g_nodes_to_reclaim)
<1>1. /\ g_nodes_to_reclaim' \in Seq(HObjects)
      /\ DOMAIN g_nodes_to_reclaim = 1 .. n
      /\ DOMAIN g_nodes_to_reclaim' = 1 .. n + 1
      /\ n \in Nat
      /\ g_nodes_to_reclaim'[1] = o
      /\ \A i \in 1 .. n : g_nodes_to_reclaim'[i + 1] = g_nodes_to_reclaim[i]
    BY ListAfterAdd DEF HInv
<1> HIDE DEF n
<1>2. \A i \in 1 .. n + 1 : i # 1 => i - 1 \in 1 .. n /\ g_nodes_to_reclaim'[i] = g_nodes_to_reclaim[i - 1]
    <2> SUFFICES ASSUME NEW i \in 1 .. n + 1, i # 1
                 PROVE  i - 1 \in 1 .. n /\ g_nodes_to_reclaim'[i] = g_nodes_to_reclaim[i - 1]
        OBVIOUS
    <2>1. i - 1 \in 1 .. n /\ (i - 1) + 1 = i
        BY <1>1
    <2> QED BY <1>1, <2>1
<1>3. \A i \in 1 .. n : i + 1 \in 1 .. n + 1
    BY <1>1
<1>4. \A p : Listed(p)' <=> p = o \/ Listed(p)
    <2>1. 1 \in 1 .. n + 1
        BY <1>1
    <2>2. ASSUME NEW i \in 1 .. n + 1
          PROVE  g_nodes_to_reclaim'[i] = o \/ \E k \in 1 .. n : g_nodes_to_reclaim[k] = g_nodes_to_reclaim'[i]
        BY <1>1, <1>2
    <2>3. ASSUME NEW k \in 1 .. n
          PROVE  \E i \in 1 .. n + 1 : g_nodes_to_reclaim'[i] = g_nodes_to_reclaim[k]
        BY <1>1, <1>3
    <2>4. \E i \in DOMAIN g_nodes_to_reclaim' : g_nodes_to_reclaim'[i] = o
        BY <1>1, <2>1
    <2>5. /\ \A i \in DOMAIN g_nodes_to_reclaim' :
                \/ g_nodes_to_reclaim'[i] = o
                \/ \E k \in DOMAIN g_nodes_to_reclaim : g_nodes_to_reclaim[k] = g_nodes_to_reclaim'[i]
          /\ \A k \in DOMAIN g_nodes_to_reclaim :
                \E i \in DOMAIN g_nodes_to_reclaim' : g_nodes_to_reclaim'[i] = g_nodes_to_reclaim[k]
        BY <1>1, <2>2, <2>3
    <2> QED BY <2>4, <2>5, Zenon DEF Listed
<1>5. ASSUME NEW i \in 1 .. n + 1, NEW j \in 1 .. n + 1, g_nodes_to_reclaim'[i] = g_nodes_to_reclaim'[j]
      PROVE  i = j
    <2>1. CASE i # 1 /\ j # 1
        <3>1. \A a, b \in 1 .. n : g_nodes_to_reclaim[a] = g_nodes_to_reclaim[b] => a = b
            BY <1>1 DEF HInv, Owned, Apart
        <3>2. i - 1 = j - 1
            BY <1>2, <1>5, <2>1, <3>1
        <3> QED BY <1>1, <3>2
    <2>2. \A k \in 1 .. n + 1 : k # 1 => g_nodes_to_reclaim'[k] # o
        BY <1>1, <1>2 DEF Listed
    <2> QED BY <1>1, <1>5, <2>1, <2>2
<1> QED BY <1>1, <1>4, <1>5

LEMMA RetireInv ==
    ASSUME HInv, NEW t \in HThreads, reclaim_later(t)
    PROVE  HInv'
<1>1. /\ UNCHANGED <<id, pointer, m_hp, shared, live, slot_i, current>>
      /\ hpc[t] = "retire" /\ hpc'[t] = "idle" /\ object'[t] = HNull
      /\ \A u \in HThreads : u # t => hpc'[u] = hpc[u] /\ object'[u] = object[u]
      /\ object[t] \in HObjects /\ add_to_reclaim_list(object[t])
    BY DEF reclaim_later, HGoto, HInv, HTypeOK, HPlace
<1>2. ~Listed(object[t])
    BY <1>1 DEF HInv, Owned, Apart
<1>3. HTypeOK'
    BY <1>1, <1>2, EntriesAfterAdd DEF HInv, HTypeOK, HLabel, reclaim_later, HGoto
<1>4. \A u \in HThreads : HPlace(u)'
    BY <1>1 DEF HInv, HPlace, Reading, Reclaiming
<1>5. \A u, v \in HThreads : Ahead(u, v)'
    <2>1. \A u \in HThreads : Reclaiming(u)' \/ hpc'[u] = "use" => u # t
        BY <1>1 DEF Reclaiming
    <2> QED BY <1>1, <2>1 DEF HInv, Ahead, Reclaiming
<1>6. \A u \in HThreads : hpc'[u] = "use" => object'[u] \in live'
    BY <1>1 DEF HInv
<1>7. /\ \A p : Listed(p)' <=> p = object[t] \/ Listed(p)
      /\ \A p : \A u \in HThreads : Has(u, p)' <=> Has(u, p)
      /\ \A i, j \in DOMAIN g_nodes_to_reclaim' :
            g_nodes_to_reclaim'[i] = g_nodes_to_reclaim'[j] => i = j
    BY <1>1, <1>2, EntriesAfterAdd DEF Has
<1>8. Apart'
    BY <1>1, <1>7 DEF HInv, Owned, Apart
<1>9. \A p : Kept(p)' <=> Kept(p)
    BY <1>1, <1>7 DEF Kept
<1> QED BY <1>1, <1>3, <1>4, <1>5, <1>6, <1>8, <1>9 DEF HInv, Owned

LEMMA TakeListInv ==
    ASSUME HInv, NEW t \in HThreads, TakeList(t)
    PROVE  HInv'
<1>1. /\ UNCHANGED <<id, pointer, m_hp, shared, live, slot_i, object>>
      /\ hpc[t] = "idle" /\ hpc'[t] = "scan" /\ slot_i[t] = 1
      /\ current[t] = <<>> /\ current'[t] = g_nodes_to_reclaim /\ g_nodes_to_reclaim' = <<>>
      /\ g_nodes_to_reclaim # <<>>
      /\ \A u \in HThreads : u # t => hpc'[u] = hpc[u] /\ current'[u] = current[u]
    BY DEF TakeList, HGoto, HInv, HTypeOK, HPlace, Reclaiming
<1>2. HTypeOK'
    BY DEF TakeList, HGoto, HInv, HTypeOK, HLabel
<1>3. \A u \in HThreads : HPlace(u)'
    BY <1>1 DEF HInv, HPlace, Reading, Reclaiming
<1>4. \A u, v \in HThreads : Ahead(u, v)'
    <2>1. \A v \in HThreads : hpc[v] = "use" => 1 <= m_hp[v]
        BY SlotFacts DEF HInv, HTypeOK, HPlace, Reading
    <2> QED BY <1>1, <2>1 DEF HInv, Ahead, Reclaiming
<1>5. \A u \in HThreads : hpc'[u] = "use" => object'[u] \in live'
    BY <1>1 DEF HInv
<1>6. \A p : /\ ~Listed(p)' /\ ~Has(t, p)
             /\ Has(t, p)' <=> Listed(p)
             /\ \A u \in HThreads : u # t => (Has(u, p)' <=> Has(u, p))
    BY <1>1 DEF Listed, Has
<1>7. Apart'
    <2>1. \A u \in HThreads : \A i, j \in DOMAIN current'[u] : current'[u][i] = current'[u][j] => i = j
        BY <1>1 DEF HInv, Owned, Apart
    <2>2. \A p : \A u \in HThreads : Has(u, p)' => p # shared /\ \A v \in HThreads : Has(v, p)' => v = u
        BY <1>6 DEF HInv, Owned, Apart
    <2>3. \A u \in HThreads : hpc[u] = "retire" => \A v \in HThreads : ~Has(v, object[u])'
        BY <1>1, <1>6 DEF HInv, Owned, Apart
    <2>4. \A u \in HThreads : hpc'[u] = "retire" <=> hpc[u] = "retire"
        BY <1>1
    <2> QED BY <1>1, <1>6, <2>1, <2>2, <2>3, <2>4 DEF HInv, Owned, Apart
<1>8. ASSUME NEW p PROVE Kept(p)' <=> Kept(p)
    <2>1. (\E u \in HThreads : Has(u, p)') <=> Listed(p) \/ \E u \in HThreads : Has(u, p)
        BY <1>6
    <2>2. \A u \in HThreads : hpc'[u] = "retire" <=> hpc[u] = "retire"
        BY <1>1
    <2> QED BY <1>1, <1>6, <2>1, <2>2 DEF Kept
<1> QED BY <1>1, <1>2, <1>3, <1>4, <1>5, <1>7, <1>8 DEF HInv, Owned

\* One load of the scan: the slot of a user of the object is found, or is still ahead.
LEMMA ScanInv ==
    ASSUME HInv, NEW t \in HThreads, outstanding_hazard_pointers_for(t)
    PROVE  HInv'
<1> DEFINE s == slot_i[t]
           found == pointer[s] = Head(current[t])
<1>1. /\ UNCHANGED <<id, pointer, m_hp, g_nodes_to_reclaim, shared, live, object, current>>
      /\ hpc[t] = "scan" /\ hpc'[t] \in {"keep", "delete", "scan"}
      /\ \A u \in HThreads : u # t => hpc'[u] = hpc[u] /\ slot_i'[u] = slot_i[u]
    BY DEF outstanding_hazard_pointers_for, HGoto, HInv, HTypeOK
<1>2. /\ found => hpc'[t] = "keep" /\ slot_i'[t] = 1
      /\ ~found /\ s = kMaxHazardPointers => hpc'[t] = "delete" /\ slot_i'[t] = 1
      /\ ~found /\ s # kMaxHazardPointers => hpc'[t] = "scan" /\ slot_i'[t] = s + 1
    BY DEF outstanding_hazard_pointers_for, HGoto, HInv, HTypeOK
<1>3. s \in Slot
    BY DEF HInv, HTypeOK
<1>4. HTypeOK'
    <2>1. slot_i'[t] \in Slot
        BY <1>2, <1>3, SlotFacts
    <2>2. slot_i' \in [HThreads -> Slot] /\ hpc' \in [HThreads -> HLabel]
        BY <1>1, <2>1 DEF outstanding_hazard_pointers_for, HGoto, HInv, HTypeOK, HLabel
    <2> QED BY <1>1, <2>2 DEF HInv, HTypeOK
<1>5. \A u \in HThreads : HPlace(u)'
    BY <1>1, <1>2 DEF HInv, HPlace, Reading, Reclaiming
<1>6. \A u, v \in HThreads : Ahead(u, v)'
    <2> SUFFICES ASSUME NEW u \in HThreads, NEW v \in HThreads, hpc'[v] = "use", Reclaiming(u)',
                        object'[v] = Head(current'[u])
                 PROVE  hpc'[u] = "keep" \/ (hpc'[u] = "scan" /\ slot_i'[u] <= m_hp'[v])
        BY DEF Ahead
    <2>1. hpc[v] = "use" /\ object[v] = Head(current[u]) /\ v # t
        BY <1>1
    <2>2. CASE u # t
        BY <1>1, <2>1, <2>2 DEF HInv, Ahead, Reclaiming
    <2>3. CASE u = t
        <3>1. s <= m_hp[v] /\ pointer[m_hp[v]] = object[v] /\ m_hp[v] \in Slot
            BY <1>1, <2>1, <2>3 DEF HInv, HTypeOK, HPlace, Reading, Ahead, Reclaiming
        <3>2. CASE found
            BY <1>2, <2>3, <3>2
        <3>3. CASE ~found
            <4>1. s # m_hp[v]
                BY <2>1, <2>3, <3>1, <3>3
            <4>2. s + 1 <= m_hp[v] /\ s # kMaxHazardPointers
                BY <1>3, <3>1, <4>1, SlotFacts
            <4> QED BY <1>1, <1>2, <2>3, <3>3, <4>2
        <3> QED BY <3>2, <3>3
    <2> QED BY <2>2, <2>3
<1>7. \A u \in HThreads : hpc'[u] = "use" => object'[u] \in live'
    BY <1>1 DEF HInv
<1>8. Owned'
    BY <1>1, PlacesUntouched
<1> QED BY <1>4, <1>5, <1>6, <1>7, <1>8 DEF HInv

\* The objects left when the first one has been dealt with.
LEMMA AfterFirst ==
    ASSUME HInv, NEW t \in HThreads, Reclaiming(t), NextToReclaim(t)
    PROVE  /\ current' \in [HThreads -> Seq(HObjects)]
           /\ \A u \in HThreads : u # t => current'[u] = current[u] /\ hpc'[u] = hpc[u]
           /\ hpc'[t] = IF current'[t] = <<>> THEN "idle" ELSE "scan"
           /\ hpc' \in [HThreads -> HLabel]
           /\ Has(t, Head(current[t])) /\ Head(current[t]) \in HObjects
           /\ \A i, j \in DOMAIN current'[t] : current'[t][i] = current'[t][j] => i = j
           /\ \A p : Has(t, p)' <=> p # Head(current[t]) /\ Has(t, p)
<1> DEFINE c == current[t]
           n == Len(c)
<1>1. c \in Seq(HObjects) /\ c # <<>> /\ current'[t] = Tail(c)
    BY DEF HInv, HTypeOK, HPlace, NextToReclaim
<1>2. /\ n \in Nat /\ n >= 1 /\ DOMAIN c = 1 .. n /\ Head(c) = c[1] /\ c[1] \in HObjects
      /\ Tail(c) \in Seq(HObjects) /\ DOMAIN Tail(c) = 1 .. n - 1
      /\ \A i \in 1 .. n - 1 : Tail(c)[i] = c[i + 1] /\ i + 1 \in 1 .. n
    <2>1. /\ Tail(c) \in Seq(HObjects) /\ Len(Tail(c)) = n - 1
          /\ \A i \in 1 .. Len(Tail(c)) : Tail(c)[i] = c[i + 1]
        BY <1>1, HeadTailProperties
    <2>2. n \in Nat /\ n >= 1 /\ DOMAIN c = 1 .. n /\ Head(c) = c[1] /\ c[1] \in HObjects
        BY <1>1
    <2>3. DOMAIN Tail(c) = 1 .. n - 1
        BY <2>1
    <2>4. \A i \in 1 .. n - 1 : i + 1 \in 1 .. n
        BY <2>2
    <2> QED BY <2>1, <2>2, <2>3, <2>4
<1>3. \A i, j \in 1 .. n : c[i] = c[j] => i = j
    BY <1>2 DEF HInv, Owned, Apart
<1>4. /\ current' \in [HThreads -> Seq(HObjects)]
      /\ \A u \in HThreads : u # t => current'[u] = current[u] /\ hpc'[u] = hpc[u]
      /\ hpc'[t] = IF current'[t] = <<>> THEN "idle" ELSE "scan"
      /\ hpc' \in [HThreads -> HLabel]
    BY <1>1, <1>2 DEF HInv, HTypeOK, NextToReclaim, HGoto, HLabel
<1>5. (\E i \in DOMAIN c : c[i] = Head(c)) /\ Head(c) \in HObjects
    BY <1>2
<1>6. ASSUME NEW i \in 1 .. n - 1, NEW j \in 1 .. n - 1, Tail(c)[i] = Tail(c)[j] PROVE i = j
    <2>1. i + 1 = j + 1
        BY <1>2, <1>3, <1>6
    <2> QED BY <1>2, <2>1
<1>7. \A i \in 1 .. n - 1 : Tail(c)[i] # Head(c) /\ \E k \in 1 .. n : c[k] = Tail(c)[i]
    <2> SUFFICES ASSUME NEW i \in 1 .. n - 1
                 PROVE  Tail(c)[i] # Head(c) /\ \E k \in 1 .. n : c[k] = Tail(c)[i]
        OBVIOUS
    <2>1. i + 1 \in 1 .. n /\ i + 1 # 1 /\ 1 \in 1 .. n
        BY <1>2
    <2> QED BY <1>2, <1>3, <2>1
<1>8. \A k \in 1 .. n : c[k] # Head(c) => \E i \in 1 .. n - 1 : Tail(c)[i] = c[k]
    <2> SUFFICES ASSUME NEW k \in 1 .. n, c[k] # Head(c)
                 PROVE  \E i \in 1 .. n - 1 : Tail(c)[i] = c[k]
        OBVIOUS
    <2>1. k # 1
        BY <1>2
    <2>2. k - 1 \in 1 .. n - 1 /\ (k - 1) + 1 = k
        BY <1>2, <2>1
    <2> QED BY <1>2, <2>2
<1> HIDE DEF c, n
<1>9. \A p : (\E i \in 1 .. n - 1 : Tail(c)[i] = p)
             <=> (p # Head(c) /\ \E i \in 1 .. n : c[i] = p)
    BY <1>7, <1>8, Zenon
<1>10. \A p : Has(t, p)' <=> p # Head(c) /\ Has(t, p)
    BY <1>1, <1>2, <1>9 DEF c, Has
<1>11. \A i, j \in DOMAIN current'[t] : current'[t][i] = current'[t][j] => i = j
    BY <1>1, <1>2, <1>6
<1> QED BY <1>4, <1>5, <1>10, <1>11 DEF c, Has

\* What a first object that was put back or deleted leaves as it was.
LEMMA AfterFirstInv ==
    ASSUME HInv, NEW t \in HThreads, hpc[t] \in {"keep", "delete"}, NextToReclaim(t),
           UNCHANGED <<id, pointer, m_hp, shared, slot_i, object>>
    PROVE  /\ \A u \in HThreads : HPlace(u)'
           /\ \A u, v \in HThreads : Ahead(u, v)'
<1>0. Reclaiming(t)
    BY DEF Reclaiming
<1>1. /\ \A u \in HThreads : u # t => current'[u] = current[u] /\ hpc'[u] = hpc[u]
      /\ hpc'[t] = IF current'[t] = <<>> THEN "idle" ELSE "scan"
    BY <1>0, AfterFirst
<1>2. slot_i[t] = 1
    BY DEF HInv, HPlace
<1>3. \A u \in HThreads : HPlace(u)'
    BY <1>1, <1>2 DEF HInv, HPlace, Reading, Reclaiming
<1>4. \A v \in HThreads : hpc[v] = "use" => 1 <= m_hp[v]
    BY SlotFacts DEF HInv, HTypeOK, HPlace, Reading
<1>5. \A u, v \in HThreads : Ahead(u, v)'
    BY <1>1, <1>2, <1>4 DEF HInv, Ahead, Reclaiming
<1> QED BY <1>3, <1>5

LEMMA KeepInv ==
    ASSUME HInv, NEW t \in HThreads, KeepNode(t)
    PROVE  HInv'
<1> DEFINE o == Head(current[t])
<1>1. /\ UNCHANGED <<id, pointer, m_hp, shared, live, slot_i, object>>
      /\ hpc[t] = "keep" /\ NextToReclaim(t) /\ add_to_reclaim_list(o) /\ Reclaiming(t)
    BY DEF KeepNode, Reclaiming
<1>2. /\ current' \in [HThreads -> Seq(HObjects)]
      /\ \A u \in HThreads : u # t => current'[u] = current[u] /\ hpc'[u] = hpc[u]
      /\ hpc'[t] \in {"idle", "scan"}
      /\ hpc' \in [HThreads -> HLabel]
      /\ Has(t, o) /\ o \in HObjects
      /\ \A i, j \in DOMAIN current'[t] : current'[t][i] = current'[t][j] => i = j
      /\ \A p : Has(t, p)' <=> p # o /\ Has(t, p)
    BY <1>1, AfterFirst
<1>3. ~Listed(o)
    BY <1>2 DEF HInv, Owned, Apart
<1>4. /\ g_nodes_to_reclaim' \in Seq(HObjects)
      /\ \A p : Listed(p)' <=> p = o \/ Listed(p)
      /\ \A i, j \in DOMAIN g_nodes_to_reclaim' :
            g_nodes_to_reclaim'[i] = g_nodes_to_reclaim'[j] => i = j
    BY <1>1, <1>2, <1>3, EntriesAfterAdd
<1> HIDE DEF o
<1>5. HTypeOK'
    BY <1>1, <1>2, <1>4 DEF HInv, HTypeOK
<1>6. (\A u \in HThreads : HPlace(u)') /\ (\A u, v \in HThreads : Ahead(u, v)')
    BY <1>1, AfterFirstInv
<1>7. \A u \in HThreads : hpc'[u] = "use" => object'[u] \in live'
    BY <1>1, <1>2 DEF HInv
<1>8. \A p : \A u \in HThreads : u # t => (Has(u, p)' <=> Has(u, p))
    BY <1>2 DEF Has
<1>9. \A u \in HThreads : hpc'[u] = "retire" <=> hpc[u] = "retire"
    BY <1>1, <1>2
<1>10. Apart'
    <2>1. \A p : \A u \in HThreads : Has(u, p)' =>
            ~Listed(p)' /\ p # shared /\ \A v \in HThreads : Has(v, p)' => v = u
        BY <1>2, <1>4, <1>8 DEF HInv, Owned, Apart
    <2>2. ASSUME NEW u \in HThreads, hpc[u] = "retire"
          PROVE  /\ object[u] # shared /\ ~Listed(object[u])'
                 /\ \A v \in HThreads : ~Has(v, object[u])'
        BY <1>1, <1>2, <1>4, <1>8, <2>2 DEF HInv, Owned, Apart
    <2>3. ~Listed(shared)'
        BY <1>2, <1>4, <1>1 DEF HInv, Owned, Apart
    <2>4. \A u \in HThreads : \A i, j \in DOMAIN current'[u] : current'[u][i] = current'[u][j] => i = j
        BY <1>2 DEF HInv, Owned, Apart
    <2> QED BY <1>1, <1>4, <1>9, <2>1, <2>2, <2>3, <2>4 DEF HInv, Owned, Apart
<1>11. \A p : Kept(p)' <=> Kept(p)
    BY <1>1, <1>2, <1>4, <1>8, <1>9 DEF Kept
<1> QED BY <1>1, <1>5, <1>6, <1>7, <1>10, <1>11 DEF HInv, Owned

\* The object deleted is in use by nobody: a user's slot would have been found.
LEMMA DeleteNodeInv ==
    ASSUME HInv, NEW t \in HThreads, DeleteNode(t)
    PROVE  HInv'
<1> DEFINE o == Head(current[t])
<1>1. /\ UNCHANGED <<id, pointer, m_hp, g_nodes_to_reclaim, shared, slot_i, object>>
      /\ hpc[t] = "delete" /\ NextToReclaim(t) /\ live' = live \ {o} /\ Reclaiming(t)
    BY DEF DeleteNode, Reclaiming
<1>2. /\ current' \in [HThreads -> Seq(HObjects)]
      /\ \A u \in HThreads : u # t => current'[u] = current[u] /\ hpc'[u] = hpc[u]
      /\ hpc'[t] \in {"idle", "scan"}
      /\ hpc' \in [HThreads -> HLabel]
      /\ Has(t, o) /\ o \in HObjects
      /\ \A i, j \in DOMAIN current'[t] : current'[t][i] = current'[t][j] => i = j
      /\ \A p : Has(t, p)' <=> p # o /\ Has(t, p)
    BY <1>1, AfterFirst
<1>3. \A u \in HThreads : hpc[u] = "use" => object[u] # o
    BY <1>1 DEF HInv, Ahead
<1> HIDE DEF o
<1>4. HTypeOK'
    BY <1>1, <1>2 DEF HInv, HTypeOK
<1>5. (\A u \in HThreads : HPlace(u)') /\ (\A u, v \in HThreads : Ahead(u, v)')
    BY <1>1, AfterFirstInv
<1>6. \A u \in HThreads : hpc'[u] = "use" => object'[u] \in live'
    BY <1>1, <1>2, <1>3 DEF HInv
<1>7. \A p : /\ Listed(p)' <=> Listed(p)
             /\ \A u \in HThreads : u # t => (Has(u, p)' <=> Has(u, p))
    BY <1>1, <1>2 DEF Has, Listed
<1>8. \A u \in HThreads : hpc'[u] = "retire" <=> hpc[u] = "retire"
    BY <1>1, <1>2
<1>9. Apart'
    <2>1. \A p : \A u \in HThreads : Has(u, p)' => Has(u, p)
        BY <1>2, <1>7
    <2>2. \A u \in HThreads : \A i, j \in DOMAIN current'[u] : current'[u][i] = current'[u][j] => i = j
        BY <1>2 DEF HInv, Owned, Apart
    <2>3. \A p : \A u \in HThreads : Has(u, p)' =>
            ~Listed(p)' /\ p # shared /\ \A v \in HThreads : Has(v, p)' => v = u
        BY <1>7, <2>1 DEF HInv, Owned, Apart
    <2>4. \A u \in HThreads : hpc[u] = "retire" =>
            ~Listed(object[u])' /\ \A v \in HThreads : ~Has(v, object[u])'
        BY <1>1, <1>7, <2>1 DEF HInv, Owned, Apart
    <2> QED BY <1>1, <1>7, <1>8, <2>2, <2>3, <2>4 DEF HInv, Owned, Apart
<1>10. ASSUME NEW p PROVE Kept(p)' <=> p # o /\ Kept(p)
    <2>1. shared # o /\ ~Listed(o) /\ (\A u \in HThreads : Has(u, o) => u = t)
          /\ \A u \in HThreads : hpc[u] = "retire" => object[u] # o
        BY <1>2 DEF HInv, Owned, Apart
    <2>2. (\E u \in HThreads : Has(u, p)') <=> p # o /\ \E u \in HThreads : Has(u, p)
        BY <1>2, <1>7, <2>1
    <2> QED BY <1>1, <1>7, <1>8, <2>1, <2>2 DEF Kept
<1> QED BY <1>1, <1>4, <1>5, <1>6, <1>9, <1>10 DEF HInv, Owned

LEMMA HNextInv == HInv /\ [HNext]_hVars => HInv'
<1> SUFFICES ASSUME HInv, [HNext]_hVars PROVE HInv'
    OBVIOUS
<1>1. CASE UNCHANGED hVars
    <2>1. HTypeOK' /\ (\A t \in HThreads : HPlace(t)') /\ (\A t, u \in HThreads : Ahead(t, u)')
        BY <1>1 DEF hVars, HInv, HTypeOK, HPlace, Reading, Reclaiming, Ahead
    <2>2. Owned' /\ \A t \in HThreads : hpc'[t] = "use" => object'[t] \in live'
        BY <1>1 DEF hVars, HInv, Owned, Apart, Kept, Listed, Has
    <2> QED BY <2>1, <2>2 DEF HInv
<1>2. CASE HNext
    BY <1>2, ReaderInv, AcquireInv, ValidateInv, ReplaceInv, RetireInv, TakeListInv, ScanInv,
       KeepInv, DeleteNodeInv
    DEF HNext, HStep
<1> QED BY <1>1, <1>2

\* An object in one place counts once, and one that is deleted not at all.
LEMMA OneHPlace ==
    ASSUME HInv, NEW o \in HObjects
    PROVE  Cardinality(HPlaces(o)) = IF o \in live THEN 1 ELSE 0
<1>a. \A p \in HPlaces(o) :
        \/ p = <<"shared">> /\ shared = o
        \/ \E i \in DOMAIN g_nodes_to_reclaim : g_nodes_to_reclaim[i] = o /\ p = <<"list", i>>
        \/ \E t \in HThreads : hpc[t] = "retire" /\ object[t] = o /\ p = <<"retire", t>>
        \/ \E t \in HThreads : \E i \in DOMAIN current[t] :
                current[t][i] = o /\ p = <<"current", t, i>>
    BY DEF HPlaces
<1>b. shared = o => <<"shared">> \in HPlaces(o)
    BY DEF HPlaces
<1>c. \A i \in DOMAIN g_nodes_to_reclaim : g_nodes_to_reclaim[i] = o => <<"list", i>> \in HPlaces(o)
    BY DEF HPlaces
<1>d. \A t \in HThreads : hpc[t] = "retire" /\ object[t] = o => <<"retire", t>> \in HPlaces(o)
    BY DEF HPlaces
<1>e. \A t \in HThreads : \A i \in DOMAIN current[t] :
        current[t][i] = o => <<"current", t, i>> \in HPlaces(o)
    BY DEF HPlaces
<1>1. CASE ~Kept(o)
    <2>1. HPlaces(o) = {}
        BY <1>a, <1>1 DEF Kept, Listed, Has
    <2> QED BY <1>1, <2>1, FS_EmptySet DEF HInv, Owned
<1>2. CASE Kept(o)
    <2>1. ASSUME shared = o PROVE HPlaces(o) = {<<"shared">>}
        BY <1>a, <1>b, <2>1 DEF HInv, Owned, Apart, Listed, Has
    <2>2. ASSUME NEW i \in DOMAIN g_nodes_to_reclaim, g_nodes_to_reclaim[i] = o
          PROVE  HPlaces(o) = {<<"list", i>>}
        BY <1>a, <1>c, <2>2 DEF HInv, Owned, Apart, Listed, Has
    <2>3. ASSUME NEW t \in HThreads, hpc[t] = "retire", object[t] = o
          PROVE  HPlaces(o) = {<<"retire", t>>}
        BY <1>a, <1>d, <2>3 DEF HInv, Owned, Apart, Listed, Has
    <2>4. ASSUME NEW t \in HThreads, NEW i \in DOMAIN current[t], current[t][i] = o
          PROVE  HPlaces(o) = {<<"current", t, i>>}
        BY <1>a, <1>e, <2>4 DEF HInv, Owned, Apart, Listed, Has
    <2>5. \E p : HPlaces(o) = {p}
        BY <1>2, <2>1, <2>2, <2>3, <2>4 DEF Kept, Listed, Has
    <2> QED BY <1>2, <2>5, FS_Singleton DEF HInv, Owned
<1> QED BY <1>1, <1>2

\* No object is deleted while a reader uses it, twice, or never.
THEOREM Protected == HSpec => []HazardProtects
<1>1. HInv => HazardProtects
    BY OneHPlace DEF HInv, HazardProtects
<1> QED BY <1>1, HInitInv, HNextInv, PTL DEF HSpec


-----------------------------------------------------------------------------
(* LockFreeQueue                                                           *)
(*                                                                         *)
(* The inductive invariant orders the indices around the ring: what the    *)
(* producer saw of the head, the head, what the consumer saw of the tail,  *)
(* the tail.                                                               *)

\* The order of the four indices around the ring.
Ring ==
    /\ Dist(seenHead, m_head) + Dist(m_head, m_tail) = Dist(seenHead, m_tail)
    /\ Dist(m_head, seenTail) + Dist(seenTail, m_tail) = Dist(m_head, m_tail)

\* What each thread knows at its place in push or pop.
RingLocals ==
    /\ pushPc # "idle" => current_tail = m_tail /\ pushed \in RingValues
    /\ pushPc \in {"write", "store"} => Succ(m_tail) # seenHead
    /\ pushPc = "store" => m_buffer[m_tail] = pushed
    /\ popPc # "idle" => current_head = m_head
    /\ popPc \in {"move", "store"} => m_head # seenTail
    /\ popPc = "store" => value \in RingValues

\* The cells from the head up to the tail hold values.
RingFilled ==
    \A i \in RingIndex :
        Dist(m_head, i) < Dist(m_head, m_tail) /\ ~(i = m_head /\ popPc = "store")
            => m_buffer[i] \in RingValues

RingInv == RingTypeOK /\ Ring /\ RingLocals /\ RingFilled

-----------------------------------------------------------------------------
(* Arithmetic of the ring *)

\* Below the modulus, % is the identity.
LEMMA ModSmall ==
    ASSUME NEW k \in Nat \ {0}, NEW x \in 0 .. (k - 1)
    PROVE  x % k = x
BY SMT

\* One turn of the ring above the modulus, % subtracts it.
LEMMA ModWrap ==
    ASSUME NEW k \in Nat \ {0}, NEW x \in k .. (k + k - 1)
    PROVE  x % k = x - k
BY SMT

\* The index after i, without the modulus of push and pop.
LEMMA SuccIs ==
    ASSUME NEW i \in RingIndex
    PROVE  /\ Succ(i) = IF i = RingCapacity THEN 0 ELSE i + 1
           /\ Succ(i) \in RingIndex
<1>1. CASE i = RingCapacity
    <2>1. (i + 1) % kRealCapacity = 0
        BY <1>1, RingAssumption, ModWrap, SMT DEF RingIndex, kRealCapacity
    <2> QED BY <1>1, <2>1, RingAssumption DEF Succ, RingIndex
<1>2. CASE i # RingCapacity
    <2>1. (i + 1) % kRealCapacity = i + 1
        BY <1>2, RingAssumption, ModSmall, SMT DEF RingIndex, kRealCapacity
    <2> QED BY <1>2, <2>1, RingAssumption DEF Succ, RingIndex
<1> QED BY <1>1, <1>2

\* Distances stay within the ring, and are zero only between equal indices.
LEMMA DistRange ==
    ASSUME NEW a \in RingIndex, NEW b \in RingIndex
    PROVE  /\ Dist(a, b) \in 0 .. RingCapacity
           /\ Dist(a, b) = 0 <=> a = b
BY RingAssumption, SMT DEF Dist, RingIndex, kRealCapacity

-----------------------------------------------------------------------------
\* The constructor leaves an empty ring, and nobody in push or pop.
LEMMA RingInitInv == RingInit => RingInv
BY RingAssumption, SMT DEF RingInit, RingInv, RingTypeOK, Ring, RingLocals, RingFilled, Dist, RingIndex, kRealCapacity

\* Every access that push or pop makes to the ring keeps the invariant.
LEMMA RingNextInv == RingInv /\ [RingNext]_ringVars => RingInv'
<1> SUFFICES ASSUME RingInv, [RingNext]_ringVars PROVE RingInv'
    OBVIOUS
<1> USE RingAssumption, RingNoneAssumption
<1>1. ASSUME NEW v \in RingValues, PushBegin(v) PROVE RingInv'
    BY <1>1 DEF PushBegin, RingInv, RingTypeOK, Ring, RingLocals, RingFilled, Dist, Succ, consumer
<1>2. ASSUME NEW h \in RingIndex, PushLoadHead(h) PROVE RingInv'
    <2> USE <1>2 DEF PushLoadHead, consumer
    <2>1. RingTypeOK'
        BY DEF RingInv, RingTypeOK
    <2>2. Ring'
        BY SMT DEF RingInv, RingTypeOK, Ring, Dist, RingIndex, Observable, kRealCapacity
    <2>3. RingLocals'
        BY DEF RingInv, RingTypeOK, RingLocals, Succ
    <2>4. RingFilled'
        BY DEF RingInv, RingFilled, Dist
    <2> QED BY <2>1, <2>2, <2>3, <2>4 DEF RingInv
<1>3. ASSUME PushWrite PROVE RingInv'
    <2> USE <1>3 DEF PushWrite, consumer
    <2>1. RingTypeOK' /\ Ring'
        BY DEF RingInv, RingTypeOK, Ring, RingLocals, Dist
    <2>2. RingLocals'
        BY DEF RingInv, RingTypeOK, RingLocals, Succ
    <2>3. RingFilled'
        BY DEF RingInv, RingTypeOK, RingLocals, RingFilled, Dist
    <2> QED BY <2>1, <2>2, <2>3 DEF RingInv
<1>4. ASSUME PushStore PROVE RingInv'
    <2> USE <1>4 DEF PushStore, consumer
    <2>1. m_tail \in RingIndex /\ m_tail' = Succ(m_tail) /\ Succ(m_tail) # seenHead
        BY DEF RingInv, RingTypeOK, RingLocals
    <2>2. m_tail' \in RingIndex /\ m_tail' = IF m_tail = RingCapacity THEN 0 ELSE m_tail + 1
        BY <2>1, SuccIs
    <2>3. RingTypeOK'
        BY <2>2 DEF RingInv, RingTypeOK
    <2>4. Ring'
        BY <2>1, <2>2, SMT DEF RingInv, RingTypeOK, Ring, Dist, RingIndex, kRealCapacity
    <2>5. RingLocals'
        BY DEF RingInv, RingLocals
    <2>6. RingFilled'
        <3> SUFFICES ASSUME NEW i \in RingIndex,
                            Dist(m_head, i) < Dist(m_head, m_tail'),
                            ~(i = m_head /\ popPc = "store")
                     PROVE  m_buffer[i] \in RingValues
            BY DEF RingFilled, Dist
        <3>1. i = m_tail \/ Dist(m_head, i) < Dist(m_head, m_tail)
            BY <2>1, <2>2, SMT DEF RingInv, RingTypeOK, Ring, Dist, RingIndex, kRealCapacity
        <3>2. CASE i = m_tail
            BY <3>2 DEF RingInv, RingLocals
        <3> QED BY <3>1, <3>2 DEF RingInv, RingFilled
    <2> QED BY <2>3, <2>4, <2>5, <2>6 DEF RingInv
<1>5. ASSUME PopBegin PROVE RingInv'
    BY <1>5 DEF PopBegin, RingInv, RingTypeOK, Ring, RingLocals, RingFilled, Dist, Succ, producer
<1>6. ASSUME NEW t \in RingIndex, PopLoadTail(t) PROVE RingInv'
    <2> USE <1>6 DEF PopLoadTail, producer
    <2>1. RingTypeOK'
        BY DEF RingInv, RingTypeOK
    <2>2. Ring'
        BY SMT DEF RingInv, RingTypeOK, Ring, Dist, RingIndex, Observable, kRealCapacity
    <2>3. RingLocals'
        BY DEF RingInv, RingTypeOK, RingLocals, Succ
    <2>4. RingFilled'
        BY DEF RingInv, RingFilled, Dist
    <2> QED BY <2>1, <2>2, <2>3, <2>4 DEF RingInv
<1>7. ASSUME PopMove PROVE RingInv'
    <2> USE <1>7 DEF PopMove, producer
    <2>1. m_head # m_tail
        BY SMT DEF RingInv, RingTypeOK, Ring, RingLocals, Dist, RingIndex, kRealCapacity
    <2>2. m_buffer[m_head] \in RingValues
        BY <2>1, SMT DEF RingInv, RingTypeOK, RingFilled, RingIndex, Dist, kRealCapacity
    <2>3. RingTypeOK' /\ Ring'
        BY DEF RingInv, RingTypeOK, Ring, RingLocals, Dist
    <2>4. RingLocals'
        BY <2>1, <2>2 DEF RingInv, RingTypeOK, RingLocals, Succ
    <2>5. RingFilled'
        BY DEF RingInv, RingTypeOK, RingLocals, RingFilled, Dist
    <2> QED BY <2>3, <2>4, <2>5 DEF RingInv
<1>8. ASSUME PopStore PROVE RingInv'
    <2> USE <1>8 DEF PopStore, producer
    <2>1. m_head \in RingIndex /\ m_head' = Succ(m_head) /\ m_head # seenTail
        BY DEF RingInv, RingTypeOK, RingLocals
    <2>2. m_head' \in RingIndex /\ m_head' = IF m_head = RingCapacity THEN 0 ELSE m_head + 1
        BY <2>1, SuccIs
    <2>3. RingTypeOK'
        BY <2>2 DEF RingInv, RingTypeOK
    <2>4. Ring'
        BY <2>1, <2>2, SMT DEF RingInv, RingTypeOK, Ring, Dist, RingIndex, kRealCapacity
    <2>5. RingLocals'
        BY DEF RingInv, RingLocals, Succ
    <2>6. RingFilled'
        <3> SUFFICES ASSUME NEW i \in RingIndex,
                            Dist(m_head', i) < Dist(m_head', m_tail)
                     PROVE  m_buffer[i] \in RingValues
            BY DEF RingFilled, Dist
        <3>1. i # m_head /\ Dist(m_head, i) < Dist(m_head, m_tail)
            BY <2>1, <2>2, SMT DEF RingInv, RingTypeOK, Ring, Dist, RingIndex, kRealCapacity
        <3> QED BY <3>1 DEF RingInv, RingFilled
    <2> QED BY <2>3, <2>4, <2>5, <2>6 DEF RingInv
<1>9. ASSUME UNCHANGED ringVars PROVE RingInv'
    BY <1>9 DEF ringVars, producer, consumer, RingInv, RingTypeOK, Ring, RingLocals, RingFilled, Dist, Succ
<1> QED
    BY <1>1, <1>2, <1>3, <1>4, <1>5, <1>6, <1>7, <1>8, <1>9 DEF RingNext, Push, Pop

\* The invariant holds in every reachable state.
THEOREM RingInvHolds == RingSpec => []RingInv
BY RingInitInv, RingNextInv, PTL DEF RingSpec

\* Types are kept by every interleaving of push and pop.
THEOREM RingTypes == RingSpec => []RingTypeOK
<1>1. RingInv => RingTypeOK
    BY DEF RingInv
<1> QED BY <1>1, RingInvHolds, PTL

\* push never writes a cell while pop moves out of it.
THEOREM RaceFree == RingSpec => []NoDataRace
<1>1. RingInv => NoDataRace
    <2> SUFFICES ASSUME RingInv, pushPc = "write", popPc = "move", current_tail = current_head
                 PROVE  FALSE
        BY DEF NoDataRace
    <2>1. m_tail = m_head /\ m_head # seenTail
        BY DEF RingInv, RingLocals
    <2> QED
        BY <2>1, RingAssumption, SMT DEF RingInv, RingTypeOK, Ring, Dist, RingIndex, kRealCapacity
<1> QED BY <1>1, RingInvHolds, PTL

-----------------------------------------------------------------------------
(* LockFreeQueue implements BoundedFifo                                    *)

\* The cell of the i-th queued value.
CellAt(h, i) == (h + i - 1) % kRealCapacity
Cell(i) == CellAt(m_head, i)

\* The cell of the i-th value lies i - 1 cells behind the head.
LEMMA CellIs ==
    ASSUME NEW h \in RingIndex, NEW i \in 1 .. RingCapacity
    PROVE  CellAt(h, i) \in RingIndex /\ Dist(h, CellAt(h, i)) = i - 1
<1> USE RingAssumption
<1> DEFINE x == h + i - 1
<1>1. x \in Nat /\ x < kRealCapacity + kRealCapacity /\ kRealCapacity \in Nat \ {0}
    BY SMT DEF RingIndex, kRealCapacity
<1>2. CASE x < kRealCapacity
    <2>1. x % kRealCapacity = x
        <3> HIDE DEF x
        <3> QED BY <1>1, <1>2, ModSmall, SMT
    <2> QED BY <1>1, <1>2, <2>1, SMT DEF CellAt, Dist, RingIndex, kRealCapacity
<1>3. CASE ~(x < kRealCapacity)
    <2>1. x % kRealCapacity = x - kRealCapacity
        <3> HIDE DEF x
        <3> QED BY <1>1, <1>3, ModWrap, SMT
    <2> QED BY <1>1, <1>3, <2>1, SMT DEF CellAt, Dist, RingIndex, kRealCapacity
<1> QED BY <1>2, <1>3

\* The queued values form a sequence as long as the head is behind the tail.
RingContentsOK ==
    /\ RingContents \in Seq(RingValues)
    /\ Len(RingContents) = Dist(m_head, m_tail)

\* So the cells from m_head up to m_tail hold a queue of values.
LEMMA RingContentsSeq == RingInv => RingContentsOK
<1> HAVE RingInv
<1> DEFINE n == Dist(m_head, m_tail)
<1>1. n \in Nat
    BY DistRange, RingAssumption, SMT DEF RingInv, RingTypeOK
<1>2. ASSUME NEW i \in 1 .. n PROVE RingContents[i] \in RingValues
    <2>1. Cell(i) \in RingIndex /\ Dist(m_head, Cell(i)) = i - 1
        <3>1. m_head \in RingIndex /\ m_tail \in RingIndex
            BY DEF RingInv, RingTypeOK
        <3>2. i \in 1 .. RingCapacity
            BY <3>1, DistRange, RingAssumption, SMT
        <3> QED BY <3>1, <3>2, CellIs DEF Cell
    <2>2. RingContents[i] = IF i = 1 /\ popPc = "store" THEN value ELSE m_buffer[Cell(i)]
        BY DEF RingContents, Cell, CellAt
    <2>3. CASE i = 1 /\ popPc = "store"
        BY <2>2, <2>3 DEF RingInv, RingLocals
    <2>4. CASE ~(i = 1 /\ popPc = "store")
        <3>1. ~(Cell(i) = m_head /\ popPc = "store")
            BY <1>1, <2>1, <2>4, DistRange, SMT DEF RingInv, RingTypeOK
        <3>2. Dist(m_head, Cell(i)) < Dist(m_head, m_tail)
            BY <1>1, <2>1, SMT
        <3> QED BY <2>1, <2>2, <2>4, <3>1, <3>2 DEF RingInv, RingFilled
    <2> QED BY <2>3, <2>4
<1>3. RingContents \in [1 .. n -> RingValues]
    BY <1>2 DEF RingContents
<1> HIDE DEF n
<1>4. RingContents \in Seq(RingValues) /\ Len(RingContents) = n
    BY <1>1, <1>3
<1> QED BY <1>4 DEF n, RingContentsOK

\* A step of push or pop is a step of the abstract queue or leaves it alone.
LEMMA RingNextFifo == RingInv /\ RingInv' /\ [RingNext]_ringVars => [Fifo!Next]_(Fifo!vars)
<1> SUFFICES ASSUME RingInv, RingInv', [RingNext]_ringVars PROVE [Fifo!Next]_(Fifo!vars)
    OBVIOUS
<1> USE RingAssumption
<1> DEFINE n == Dist(m_head, m_tail)
<1>0. /\ n \in Nat
      /\ \A i \in 1 .. n : Cell(i) \in RingIndex /\ Dist(m_head, Cell(i)) = i - 1
    BY CellIs, DistRange, SMT DEF RingInv, RingTypeOK, Cell
<1>c. RingContentsOK /\ RingContentsOK'
    BY RingContentsSeq, PTL
<1>1. ASSUME UNCHANGED <<m_buffer, m_head, m_tail, value, out>>, popPc = "store" <=> popPc' = "store"
      PROVE  UNCHANGED Fifo!vars
    BY <1>1 DEF Fifo!vars, RingContents, Dist
<1>2. ASSUME PushWrite PROVE UNCHANGED Fifo!vars
    <2> USE <1>2 DEF PushWrite, consumer
    <2>1. \A i \in 1 .. n : Cell(i) # m_tail
        BY <1>0, SMT
    <2>2. \A i \in 1 .. n : m_buffer'[Cell(i)] = m_buffer[Cell(i)]
        BY <1>0, <2>1 DEF RingInv, RingTypeOK, RingLocals
    <2>3. RingContents' = RingContents
        BY <2>2 DEF RingContents, Cell, CellAt, Dist
    <2> QED BY <2>3 DEF Fifo!vars
<1>3. ASSUME PopMove PROVE UNCHANGED Fifo!vars
    <2> USE <1>3 DEF PopMove, producer
    <2>1. \A i \in 1 .. n : i # 1 => Cell(i) # m_head
        BY <1>0, DistRange, SMT DEF RingInv, RingTypeOK
    <2>2. \A i \in 1 .. n : i # 1 => m_buffer'[Cell(i)] = m_buffer[Cell(i)]
        BY <1>0, <2>1 DEF RingInv, RingTypeOK, RingLocals
    <2>3. 1 \in 1 .. n => value' = m_buffer[Cell(1)]
        <3>1. 1 \in 1 .. n => Cell(1) = m_head
            BY <1>0, DistRange, SMT DEF RingInv, RingTypeOK
        <3> QED BY <3>1 DEF RingInv, RingLocals
    <2>4. RingContents' = RingContents
        BY <2>2, <2>3 DEF RingContents, Cell, CellAt, Dist
    <2> QED BY <2>4 DEF Fifo!vars
<1>4. ASSUME PushStore PROVE Fifo!Push(pushed) /\ pushed \in RingValues
    <2> USE <1>4 DEF PushStore, consumer
    <2>1. m_tail \in RingIndex /\ m_tail' = Succ(m_tail) /\ Succ(m_tail) # seenHead /\ pushed \in RingValues
        BY DEF RingInv, RingTypeOK, RingLocals
    <2>2. m_tail' \in RingIndex /\ m_tail' = IF m_tail = RingCapacity THEN 0 ELSE m_tail + 1
        BY <2>1, SuccIs
    <2>3. n < RingCapacity /\ Dist(m_head, m_tail') = n + 1
        BY <2>1, <2>2, SMT DEF RingInv, RingTypeOK, Ring, Dist, RingIndex, kRealCapacity
    <2>4. RingContents' = Append(RingContents, pushed)
        <3>1. Dist(m_head, m_tail)' = n + 1
            BY <2>3 DEF Dist
        <3>2. RingContents' \in Seq(RingValues) /\ Len(RingContents)' = Dist(m_head, m_tail)'
            BY <1>c DEF RingContentsOK
        <3>3. RingContents \in Seq(RingValues) /\ Len(RingContents) = n
            BY <1>c DEF RingContentsOK
        <3>4. ASSUME NEW i \in 1 .. n PROVE RingContents'[i] = RingContents[i]
            BY <1>0, <3>1, SMT DEF RingContents
        <3>5. RingContents'[n + 1] = pushed
            <4>1. ~(n + 1 = 1 /\ popPc = "store")
                BY SMT DEF RingInv, RingTypeOK, Ring, RingLocals, Dist, RingIndex, kRealCapacity
            <4>2. n + 1 \in 1 .. Dist(m_head, m_tail)'
                BY <1>0, <3>1, SMT
            <4>3. Cell(n + 1) \in RingIndex /\ Dist(m_head, Cell(n + 1)) = n
                BY <1>0, <2>3, CellIs, SMT DEF RingInv, RingTypeOK, Cell
            <4>4. Cell(n + 1) = m_tail
                BY <4>3, SMT DEF RingInv, RingTypeOK, Dist, RingIndex, kRealCapacity
            <4> QED BY <4>1, <4>2, <4>4 DEF RingContents, Cell, CellAt, RingInv, RingLocals
        <3> HIDE DEF n
        <3> QED BY <1>0, <3>1, <3>2, <3>3, <3>4, <3>5, SMT
    <2> QED BY <2>1, <2>3, <2>4, <1>c DEF Fifo!Push, RingContentsOK
<1>5. ASSUME PopStore PROVE Fifo!Pop
    <2> USE <1>5 DEF PopStore, producer
    <2>1. m_head \in RingIndex /\ m_head' = Succ(m_head) /\ m_head # seenTail
        BY DEF RingInv, RingTypeOK, RingLocals
    <2>2. m_head' \in RingIndex /\ m_head' = IF m_head = RingCapacity THEN 0 ELSE m_head + 1
        BY <2>1, SuccIs
    <2>3. n > 0 /\ Dist(m_head, m_tail)' = n - 1
        BY <2>1, <2>2, SMT DEF RingInv, RingTypeOK, Ring, Dist, RingIndex, kRealCapacity
    <2>4. RingContents \in Seq(RingValues) /\ Len(RingContents) = n
        BY <1>c DEF RingContentsOK
    <2>5. out' = Head(RingContents)
        BY <1>0, <2>3, <2>4, SMT DEF RingContents
    <2>6. RingContents' = Tail(RingContents)
        <3>1. RingContents' \in Seq(RingValues) /\ Len(RingContents)' = Dist(m_head, m_tail)'
            BY <1>c DEF RingContentsOK
        <3>2. ASSUME NEW i \in 1 .. (n - 1) PROVE RingContents'[i] = RingContents[i + 1]
            <4>1. CellAt(m_head', i) = Cell(i + 1)
                <5>1. /\ CellAt(m_head', i) \in RingIndex /\ Dist(m_head', CellAt(m_head', i)) = i - 1
                      /\ Cell(i + 1) \in RingIndex /\ Dist(m_head, Cell(i + 1)) = i
                    BY <1>0, <2>2, CellIs, DistRange, SMT DEF RingInv, RingTypeOK
                <5> QED BY <2>1, <2>2, <5>1, SMT DEF Dist, RingIndex, kRealCapacity
            <4>2. RingContents'[i] = m_buffer[CellAt(m_head', i)]
                BY <1>0, <2>3, SMT DEF RingContents, CellAt
            <4>3. RingContents[i + 1] = m_buffer[Cell(i + 1)]
                BY <1>0, SMT DEF RingContents, Cell, CellAt
            <4> QED BY <4>1, <4>2, <4>3
        <3> HIDE DEF n
        <3> QED BY <1>0, <2>3, <2>4, <3>1, <3>2, SMT
    <2>7. RingContents # <<>>
        BY <2>3, <2>4, <1>0, SMT
    <2> QED BY <2>5, <2>6, <2>7 DEF Fifo!Pop
<1> QED
    BY <1>1, <1>2, <1>3, <1>4, <1>5
    DEF RingNext, Push, Pop, PushBegin, PushLoadHead, PopBegin, PopLoadTail, ringVars,
        producer, consumer, Fifo!Next

\* Every behaviour of the queue is one of the bounded FIFO queue.
THEOREM RingRefinement == RingSpec => ImplementsFifo
<1>1. RingInit => Fifo!Init
    BY RingAssumption, SMT DEF RingInit, Fifo!Init, RingContents, Dist
<1> QED BY <1>1, RingInvHolds, RingNextFifo, PTL DEF RingSpec, ImplementsFifo, Fifo!Spec

-----------------------------------------------------------------------------
(* The linked structures together                                          *)

\* Each structure runs as it does alone, or not at all.
LEMMA EachRuns == SpecContainers => Spec /\ HSpec /\ CSpec /\ QSpec
<1>1. InitContainers => Init /\ HInit /\ CInit /\ QInit
    BY DEF InitContainers
<1>2. [NextContainers]_containerVars =>
          [Next]_vars /\ [HNext]_hVars /\ [CNext]_cVars /\ [QNext]_qVars
    BY DEF NextContainers, containerVars
<1> QED BY <1>1, <1>2, PTL DEF SpecContainers, Spec, HSpec, CSpec, QSpec

\* Split reference counts delete each node of the stack and of the queue once, when
\* nobody has it in hand or can still get it.
THEOREM CountsKept == SpecContainers => []CountsProtect
<1>1. StackCounts /\ QueueCounts => CountsProtect
    BY DEF CountsProtect
<1> QED BY <1>1, EachRuns, NodesCounted, QueueNodesCounted, PTL

\* All three linked structures are what they stand for, in spite of copies of a head or a
\* tail that are older than the memory they point to, as long as no tag comes back.
THEOREM AbstractImplemented ==
    ASSUME MaxOps < TagModulus
    PROVE  SpecContainers => ImplementAbstract
BY EachRuns, StackRefinement, CountedStackRefinement, CountedQueueRefinement, PTL DEF ImplementAbstract
=============================================================================
