----------------------- MODULE LockedContainersProofs -----------------------
(***************************************************************************)
(* What the containers with locks promise, for any number of threads,      *)
(* keys, buckets, nodes and calls.                                         *)
(***************************************************************************)
EXTENDS LockedContainers, FiniteSetTheorems, SequenceTheorems, TLAPS

-----------------------------------------------------------------------------
(* LookupTable: get_map returns a state of the table.                      *)

TTypeOK ==
    /\ data \in [Keys -> TValues \cup {TNone}]
    /\ tpc \in [TThreads -> {"idle", "lock", "copy", "return"}]
    /\ locks \in [TThreads -> SUBSET Bucket]
    /\ next_bucket \in [TThreads -> 0 .. num_buckets]
    /\ res \in [TThreads -> [Keys -> TValues \cup {TNone}]]

\* A get_map holds the buckets below its index while it locks, then all of them.
BucketsHeld ==
    \A t \in TThreads :
        /\ tpc[t] = "idle" => locks[t] = {}
        /\ tpc[t] = "lock" => locks[t] = 0 .. next_bucket[t] - 1
        /\ tpc[t] \in {"lock", "copy"} => next_bucket[t] \in Bucket
        /\ tpc[t] \in {"copy", "return"} => locks[t] = Bucket

\* The buckets below the index have been copied as they still are.
BucketsCopied ==
    \A t \in TThreads, k \in Keys :
        \/ tpc[t] = "return"
        \/ tpc[t] = "copy" /\ get_bucket(k) < next_bucket[t]
        => res[t][k] = data[k]

TInv == TTypeOK /\ BucketsHeld /\ BucketsCopied

\* A key belongs to a bucket of the table.
LEMMA BucketOfKey == \A k \in Keys : get_bucket(k) \in Bucket
BY BucketsAssumption DEF get_bucket, Bucket

\* The loop index comes back to zero behind the last bucket only.
LEMMA NextBucket ==
    ASSUME NEW b \in Bucket
    PROVE  (b + 1) % num_buckets = IF b = num_buckets - 1 THEN 0 ELSE b + 1
<1>1. num_buckets \in Nat /\ num_buckets > 0 /\ b \in Nat /\ b < num_buckets
    BY BucketsAssumption DEF Bucket
<1>2. CASE b = num_buckets - 1
    BY <1>1, <1>2
<1>3. CASE b # num_buckets - 1
    BY <1>1, <1>3
<1> QED BY <1>2, <1>3

LEMMA TInitInv == TInit => TInv
BY BucketsAssumption
DEF TInit, EmptyMap, TInv, TTypeOK, BucketsHeld, BucketsCopied, Bucket

\* Every operation on the table keeps the invariant.
LEMMA TNextInv == TInv /\ [TNext]_tVars => TInv'
<1> SUFFICES ASSUME TInv, [TNext]_tVars PROVE TInv'
    OBVIOUS
<1> USE DEF TInv
<1>1. ASSUME NEW t \in TThreads, NEW k \in Keys, value_for(t, k) PROVE TInv'
    <2> USE <1>1 DEF value_for, TCall, EmptyMap
    <2>1. TTypeOK'
        BY DEF TTypeOK
    <2>2. BucketsHeld'
        BY DEF BucketsHeld
    <2>3. BucketsCopied'
        BY DEF BucketsCopied, TTypeOK
    <2> QED BY <2>1, <2>2, <2>3
<1>2. ASSUME NEW t \in TThreads, NEW k \in Keys, NEW v \in TValues \cup {TNone},
             TCall(t), Unlocked(get_bucket(k)), data' = [data EXCEPT ![k] = v],
             UNCHANGED <<tpc, locks, next_bucket, res>>
      PROVE  TInv'
    <2> USE <1>2
    <2>1. TTypeOK' /\ BucketsHeld'
        BY DEF TTypeOK, BucketsHeld
    <2>2. \A u \in TThreads : tpc[u] \notin {"copy", "return"}
        BY BucketOfKey DEF Unlocked, BucketsHeld
    <2> QED BY <2>1, <2>2 DEF BucketsCopied
<1>3. ASSUME NEW t \in TThreads, MapBegin(t) PROVE TInv'
    <2> USE <1>3, BucketsAssumption DEF MapBegin, TCall, EmptyMap
    <2>1. TTypeOK'
        BY DEF TTypeOK
    <2>2. BucketsHeld'
        BY DEF BucketsHeld, TTypeOK, Bucket
    <2>3. BucketsCopied'
        BY DEF BucketsCopied, TTypeOK
    <2> QED BY <2>1, <2>2, <2>3
<1>4. ASSUME NEW t \in TThreads, MapLock(t) PROVE TInv'
    <2> USE <1>4, BucketsAssumption DEF MapLock
    <2>1. /\ next_bucket[t] \in Bucket
          /\ next_bucket'[t] = IF next_bucket[t] = num_buckets - 1 THEN 0 ELSE next_bucket[t] + 1
        BY NextBucket DEF TTypeOK, BucketsHeld
    <2>2. TTypeOK'
        BY <2>1 DEF TTypeOK, Bucket
    <2>3. BucketsHeld'
        <3>1. locks'[t] = 0 .. next_bucket[t]
            BY <2>1 DEF BucketsHeld, TTypeOK, Bucket
        <3>2. CASE next_bucket[t] = num_buckets - 1
            <4>1. tpc'[t] = "copy" /\ next_bucket'[t] = 0 /\ locks'[t] = Bucket
                BY <2>1, <3>1, <3>2 DEF TTypeOK, Bucket
            <4> QED BY <4>1 DEF BucketsHeld, TTypeOK, Bucket
        <3>3. CASE next_bucket[t] # num_buckets - 1
            <4>1. /\ tpc'[t] = "lock" /\ next_bucket'[t] \in Bucket
                  /\ locks'[t] = 0 .. next_bucket'[t] - 1
                BY <2>1, <3>1, <3>3 DEF TTypeOK, Bucket
            <4> QED BY <4>1 DEF BucketsHeld, TTypeOK
        <3> QED BY <3>2, <3>3
    <2>4. BucketsCopied'
        BY <2>1, BucketOfKey DEF BucketsCopied, TTypeOK, Bucket
    <2> QED BY <2>2, <2>3, <2>4
<1>5. ASSUME NEW t \in TThreads, MapCopy(t) PROVE TInv'
    <2> USE <1>5, BucketsAssumption DEF MapCopy
    <2>1. next_bucket[t] \in Bucket /\ next_bucket'[t] = next_bucket[t] + 1
        BY DEF TTypeOK, BucketsHeld
    <2>2. TTypeOK'
        BY <2>1 DEF TTypeOK, Bucket
    <2>3. BucketsHeld'
        BY <2>1 DEF BucketsHeld, TTypeOK, Bucket
    <2>4. BucketsCopied'
        BY <2>1, BucketOfKey DEF BucketsCopied, TTypeOK, Bucket
    <2> QED BY <2>2, <2>3, <2>4
<1>6. ASSUME NEW t \in TThreads, MapReturn(t) PROVE TInv'
    BY <1>6 DEF MapReturn, TTypeOK, BucketsHeld, BucketsCopied
<1>7. ASSUME UNCHANGED tVars PROVE TInv'
    BY <1>7 DEF tVars, TTypeOK, BucketsHeld, BucketsCopied
<1> QED
    BY <1>1, <1>2, <1>3, <1>4, <1>5, <1>6, <1>7
    DEF TNext, MapStep, add_or_update_mapping, remove_mapping

\* get_map returns what the table holds at that moment, though other threads change
\* buckets before and behind the one being copied (dataStructures.hpp:407).
THEOREM Snapshot == TSpec => []SnapshotIsState
<1>1. TInv => SnapshotIsState
    <2> SUFFICES ASSUME TInv, NEW t \in TThreads, tpc[t] = "return" PROVE res[t] = data
        BY DEF SnapshotIsState
    <2>1. \A k \in Keys : res[t][k] = data[k]
        BY DEF TInv, BucketsCopied
    <2> QED BY <2>1 DEF TInv, TTypeOK
<1> QED BY <1>1, TInitInv, TNextInv, PTL DEF TSpec

-----------------------------------------------------------------------------
(* ThreadSafeQueue: the semaphore counts the elements.                     *)

Popping == {c \in Consumers : pc[c] = "pop"}
Releasing == {p \in Producers : pc[p] = "release"}

\* Only finitely many calls are in progress, and without mixing try_pop and wait_and_pop
\* there is no permit in the hands of a consumer that polls.
Calls ==
    /\ IsFiniteSet(Popping) /\ IsFiniteSet(Releasing)
    /\ style \in IF Mixed THEN {"mixed"} ELSE {"blocking", "polling"}
    /\ style = "polling" => Popping = {}

SemInv == TypeOK /\ Calls /\ PermitPerElement /\ (~Mixed => WaitReturnsElement)

LEMMA SemInitInv == Init => SemInv
<1> SUFFICES ASSUME Init PROVE SemInv
    OBVIOUS
<1> USE DEF Init
<1>1. Popping = {} /\ Releasing = {}
    BY DEF Popping, Releasing
<1>2. TypeOK
    BY PushesAssumption, MixedAssumption DEF TypeOK
<1>3. Calls
    BY <1>1, FS_EmptySet DEF Calls
<1>4. PermitPerElement
    <2>1. Cardinality(Popping) = 0 /\ Cardinality(Releasing) = 0 /\ Len(m_queue) = 0
        BY <1>1, FS_EmptySet
    <2>2. Len(m_queue) = m_sem + Cardinality(Popping) + Cardinality(Releasing)
        BY <2>1
    <2> QED BY <2>2 DEF PermitPerElement, Popping, Releasing
<1> QED BY <1>2, <1>3, <1>4 DEF SemInv, WaitReturnsElement

\* A permit is a natural number of calls: what PermitPerElement adds up.
LEMMA PermitCount ==
    ASSUME Calls
    PROVE  /\ Cardinality(Popping) \in Nat /\ Cardinality(Releasing) \in Nat
           /\ \A c \in Popping : Cardinality(Popping) > 0
BY FS_CardinalityType, FS_EmptySet DEF Calls

\* A consumer that has acquired a permit finds an element.
LEMMA PermitIsElement ==
    ASSUME SemInv, ~Mixed, NEW c \in Consumers, pc[c] = "pop"
    PROVE  m_queue # <<>>
<1>1. c \in Popping /\ style = "blocking"
    BY DEF SemInv, Calls, Popping
<1>2. Len(m_queue) = m_sem + Cardinality(Popping) + Cardinality(Releasing)
    BY <1>1 DEF SemInv, PermitPerElement, Popping, Releasing
<1>3. Len(m_queue) > 0
    BY <1>1, <1>2, PermitCount DEF SemInv, TypeOK
<1> QED BY <1>3

\* Every step of push, try_pop and wait_and_pop keeps the invariant.
LEMMA SemNextInv == SemInv /\ [Next]_vars => SemInv'
<1> SUFFICES ASSUME SemInv, [Next]_vars PROVE SemInv'
    OBVIOUS
<1>p. /\ Cardinality(Popping) \in Nat /\ Cardinality(Releasing) \in Nat
      /\ IsFiniteSet(Popping) /\ IsFiniteSet(Releasing)
      /\ style = "blocking" =>
            Len(m_queue) = m_sem + Cardinality(Popping) + Cardinality(Releasing)
    BY PermitCount DEF SemInv, Calls, PermitPerElement, Popping, Releasing
<1>q. ASSUME style' = "blocking" =>
                Len(m_queue') = m_sem' + Cardinality(Popping') + Cardinality(Releasing')
      PROVE  PermitPerElement'
    BY <1>q DEF PermitPerElement, Popping, Releasing
<1>1. ASSUME NEW p \in Producers, Push(p) PROVE SemInv'
    <2> USE <1>1 DEF Push
    <2>0. <<p, pushed[p] + 1>> \in Element /\ pushed[p] + 1 \in 0 .. MaxPushes
        BY PushesAssumption DEF SemInv, TypeOK, Element
    <2>1. TypeOK'
        BY <2>0 DEF SemInv, TypeOK
    <2>2. Popping' = Popping /\ Releasing' = Releasing \cup {p} /\ p \notin Releasing
        BY DEF SemInv, TypeOK, Popping, Releasing
    <2>3. IsFiniteSet(Releasing') /\ Cardinality(Releasing') = Cardinality(Releasing) + 1
        BY <1>p, <2>2, FS_AddElement
    <2>4. Len(m_queue') = Len(m_queue) + 1 /\ Len(m_queue) \in Nat
        BY <2>0 DEF SemInv, TypeOK
    <2>5. PermitPerElement'
        <3>1. m_sem \in Nat /\ m_sem' = m_sem /\ style' = style
            BY DEF SemInv, TypeOK
        <3> HIDE <1>1 DEF Push
        <3>2. style' = "blocking" =>
                Len(m_queue') = m_sem' + Cardinality(Popping') + Cardinality(Releasing')
            BY <1>p, <2>2, <2>3, <2>4, <3>1
        <3> QED BY <1>q, <3>2
    <2> QED BY <1>p, <2>1, <2>2, <2>3, <2>5 DEF SemInv, Calls, WaitReturnsElement
<1>2. ASSUME NEW p \in Producers, Release(p) PROVE SemInv'
    <2> USE <1>2 DEF Release
    <2>1. TypeOK'
        BY DEF SemInv, TypeOK
    <2>2. Popping' = Popping /\ Releasing' = Releasing \ {p} /\ p \in Releasing
        BY DEF SemInv, TypeOK, Popping, Releasing
    <2>3. IsFiniteSet(Releasing') /\ Cardinality(Releasing') = Cardinality(Releasing) - 1
        BY <1>p, <2>2, FS_RemoveElement
    <2>4. PermitPerElement'
        BY <1>p, <1>q, <2>2, <2>3 DEF SemInv, TypeOK
    <2> QED BY <1>p, <2>1, <2>2, <2>3, <2>4 DEF SemInv, Calls, WaitReturnsElement
<1>3. ASSUME NEW c \in Consumers, TryPop(c) PROVE SemInv'
    <2> USE <1>3 DEF TryPop, Return
    <2>1. m_queue # <<>> => Head(m_queue) \in Element /\ Tail(m_queue) \in Seq(Element)
        BY HeadTailProperties DEF SemInv, TypeOK
    <2>2. /\ m_queue' \in Seq(Element)
          /\ result' \in [Consumers -> Element \cup {NoElement, Garbage}]
          /\ delivered' \in SUBSET (Element \cup {Garbage})
          /\ Garbage \in delivered' => Garbage \in delivered
        BY <2>1, NotElements DEF SemInv, TypeOK
    <2>3. TypeOK'
        BY <2>2 DEF SemInv, TypeOK
    <2>4. Popping' = Popping /\ Releasing' = Releasing /\ style' # "blocking"
        BY DEF Popping, Releasing
    <2> QED BY <1>p, <1>q, <2>2, <2>3, <2>4 DEF SemInv, Calls, WaitReturnsElement
<1>4. ASSUME NEW c \in Consumers, Acquire(c) PROVE SemInv'
    <2> USE <1>4 DEF Acquire
    <2>1. TypeOK'
        BY DEF SemInv, TypeOK
    <2>2. Popping' = Popping \cup {c} /\ Releasing' = Releasing /\ c \notin Popping
        BY DEF SemInv, TypeOK, Popping, Releasing
    <2>3. IsFiniteSet(Popping') /\ Cardinality(Popping') = Cardinality(Popping) + 1
        BY <1>p, <2>2, FS_AddElement
    <2>4. PermitPerElement'
        BY <1>p, <1>q, <2>2, <2>3 DEF SemInv, TypeOK
    <2> QED BY <1>p, <2>1, <2>2, <2>3, <2>4 DEF SemInv, Calls, WaitReturnsElement
<1>5. ASSUME NEW c \in Consumers, WaitPop(c) PROVE SemInv'
    <2>0. ~Mixed => m_queue # <<>>
        BY <1>5, PermitIsElement DEF WaitPop
    <2> USE <1>5 DEF WaitPop, Return
    <2>1. m_queue # <<>> =>
            /\ Head(m_queue) \in Element /\ Tail(m_queue) \in Seq(Element)
            /\ Len(Tail(m_queue)) = Len(m_queue) - 1
        BY HeadTailProperties DEF SemInv, TypeOK
    <2>2. /\ m_queue' \in Seq(Element)
          /\ result' \in [Consumers -> Element \cup {NoElement, Garbage}]
          /\ delivered' \in SUBSET (Element \cup {Garbage})
          /\ m_queue # <<>> => (Garbage \in delivered' => Garbage \in delivered)
        BY <2>1, NotElements DEF SemInv, TypeOK
    <2>3. TypeOK'
        BY <2>2 DEF SemInv, TypeOK
    <2>4. Popping' = Popping \ {c} /\ Releasing' = Releasing /\ c \in Popping
        BY DEF SemInv, TypeOK, Popping, Releasing
    <2>5. IsFiniteSet(Popping') /\ Cardinality(Popping') = Cardinality(Popping) - 1
        BY <1>p, <2>4, FS_RemoveElement
    <2>6. style' = "blocking" => ~Mixed /\ style = "blocking"
        BY DEF SemInv, Calls
    <2>7. style' = "blocking" => Len(m_queue') = Len(m_queue) - 1
        BY <2>0, <2>1, <2>6
    <2>8. PermitPerElement'
        <3>1. m_sem \in Nat /\ m_sem' = m_sem
            BY DEF SemInv, TypeOK
        <3> HIDE <1>5 DEF WaitPop, Return
        <3>2. style' = "blocking" =>
                Len(m_queue') = m_sem' + Cardinality(Popping') + Cardinality(Releasing')
            BY <1>p, <2>4, <2>5, <2>6, <2>7, <3>1
        <3> QED BY <1>q, <3>2
    <2> QED BY <1>p, <2>0, <2>2, <2>3, <2>4, <2>5, <2>8 DEF SemInv, Calls, WaitReturnsElement
<1>6. ASSUME UNCHANGED vars PROVE SemInv'
    BY <1>6
    DEF vars, SemInv, TypeOK, Calls, Popping, Releasing, PermitPerElement, WaitReturnsElement
<1> QED BY <1>1, <1>2, <1>3, <1>4, <1>5, <1>6 DEF Next, Produce, Consume

\* The invariant holds in every reachable state.
THEOREM SemInvHolds == Spec => []SemInv
BY SemInitInv, SemNextInv, PTL DEF Spec

\* The semaphore never counts more or fewer permits than there are elements.
THEOREM Permits == Spec => []PermitPerElement
<1>1. SemInv => PermitPerElement
    BY DEF SemInv
<1> QED BY <1>1, SemInvHolds, PTL

\* Where the consumers of a queue all use wait_and_pop, or all use try_pop, none takes the
\* front of an empty queue.  (The run thread_safe_queue_mixed shows what mixing them does.)
THEOREM WaitFindsElement ==
    ASSUME ~Mixed
    PROVE  Spec => []WaitReturnsElement
<1>1. SemInv => WaitReturnsElement
    BY DEF SemInv
<1> QED BY <1>1, SemInvHolds, PTL

-----------------------------------------------------------------------------
(* HandOverHandList: the nodes in the list are those pushed and not yet    *)
(* unlinked, newest first.                                                 *)

\* The nodes in the list: allocated, and neither destroyed nor about to be.
In ==
    {n \in Node :
        /\ n <= Len(ldata) /\ n \notin freed
        /\ \A t \in LThreads : lpc[t] = "delete" => ahead[t] # n}

\* Does m come behind n in the list?
Behind(n, m) == n = head \/ m < n

LTypeOK ==
    /\ ldata \in Seq(LValues) /\ Len(ldata) <= MaxNodes
    /\ next \in [{head} \cup Node -> Node \cup {Null}]
    /\ freed \in SUBSET (1 .. Len(ldata))
    /\ lpc \in [LThreads -> {"idle", "stand", "both", "delete"}]
    /\ op \in [LThreads -> {"none", "for_each", "find_first_if", "remove_if"}]
    /\ pred \in [LThreads -> SUBSET LValues]
    /\ current \in [LThreads -> {head} \cup Node]
    /\ ahead \in [LThreads -> Node \cup {Null}]
    /\ staying \in [LThreads -> SUBSET (1 .. Len(ldata))]
    /\ visited \in [LThreads -> Seq(Node)]

\* A next pointer leads to the next node in the list, or is null behind the last one.
Ordered ==
    \A n \in {head} \cup In :
        /\ next[n] # Null => next[n] \in In /\ Behind(n, next[n])
        /\ \A m \in In : Behind(n, m) => next[n] # Null /\ m <= next[n]

\* A traversal stands on nodes of the list; a node it unlinked is its own.
Standing ==
    \A t \in LThreads :
        /\ lpc[t] # "idle" => current[t] \in {head} \cup In
        /\ lpc[t] = "both" => ahead[t] \in In /\ next[current[t]] = ahead[t]
        /\ lpc[t] = "delete" => /\ ahead[t] \in 1 .. Len(ldata) /\ ahead[t] \notin freed
                                /\ \A u \in LThreads : lpc[u] = "delete" /\ ahead[u] = ahead[t] => u = t

\* No mutex is held twice.
Exclusion == \A t, u \in LThreads : t # u => Locked(t) \cap Locked(u) = {}

\* What a traversal was asked about and is done with.
Done(t, n) ==
    /\ \E i \in DOMAIN visited[t] : visited[t][i] = n
    /\ op[t] = "for_each" \/ ldata[n] \notin pred[t]

\* The nodes behind the current one were not examined; those that stayed lie behind it,
\* or have been examined.
Progress ==
    \A t \in LThreads :
        /\ IsInjective(visited[t])
        /\ lpc[t] = "idle" => \A n \in staying[t] : Done(t, n)
        /\ lpc[t] # "idle" =>
            /\ \A n \in In : Behind(current[t], n) =>
                    \A i \in DOMAIN visited[t] : n < visited[t][i]
            /\ \A n \in staying[t] : n \in In /\ (Behind(current[t], n) \/ Done(t, n))

LInv == LTypeOK /\ Ordered /\ Standing /\ Exclusion /\ Progress

\* A null pointer is no node, and neither is the dummy node.
LEMMA NodeFacts ==
    /\ Null \in Nat /\ Null \notin Node /\ head \notin Node /\ head # Null /\ head \in Nat
    /\ \A n \in Node : n \in Nat /\ n >= 1 /\ n <= MaxNodes
BY NodesAssumption DEF Null, Node, head

LEMMA LInitInv == LInit => LInv
<1> SUFFICES ASSUME LInit PROVE LInv
    OBVIOUS
<1> USE DEF LInit
<1>1. In = {}
    BY NodeFacts DEF In
<1>2. LTypeOK
    BY NodeFacts, NodesAssumption DEF LTypeOK
<1>3. Ordered
    BY <1>1, NodeFacts DEF Ordered
<1>4. Standing /\ Exclusion
    BY DEF Standing, Exclusion, Locked
<1>5. Progress
    BY DEF Progress, IsInjective
<1> QED BY <1>2, <1>3, <1>4, <1>5 DEF LInv

\* What the locks of two traversals tell of where they stand.
LEMMA Apart ==
    ASSUME LInv, NEW t \in LThreads, NEW u \in LThreads, t # u
    PROVE  /\ lpc[t] # "idle" /\ lpc[u] # "idle" => current[t] # current[u]
           /\ lpc[t] = "both" /\ lpc[u] # "idle" => ahead[t] # current[u]
           /\ lpc[t] = "both" /\ lpc[u] = "both" => ahead[t] # ahead[u]
<1>1. \A v \in LThreads : lpc[v] # "idle" => current[v] \in Locked(v)
    BY DEF LInv, LTypeOK, Locked
<1>2. \A v \in LThreads : lpc[v] = "both" => ahead[v] \in Locked(v)
    BY DEF LInv, LTypeOK, Locked
<1> QED BY <1>1, <1>2 DEF LInv, Exclusion

\* Only nodes of the list can be reached from the dummy node.
LEMMA LinkedIn == ASSUME LInv PROVE Linked \subseteq In
<1> DEFINE S == {head} \cup In
<1>1. S \in SUBSET ({head} \cup Node)
    BY DEF In
<1>2. \A m \in S : next[m] # Null => next[m] \in S
    BY DEF LInv, Ordered
<1> QED BY <1>1, <1>2, NodeFacts DEF Linked, LInv

\* push_front makes a node that is behind no other.
LEMMA PushFrontInv ==
    ASSUME LInv, NEW t \in LThreads, NEW v \in LValues, push_front(t, v)
    PROVE  LInv'
<1> DEFINE new == Len(ldata) + 1
<1>1. /\ new \in Node /\ new \notin In /\ Len(ldata) \in Nat
      /\ \A n \in In : n < new
    BY NodeFacts, NodesAssumption DEF LInv, LTypeOK, In, push_front, Node
<1>2. /\ Len(ldata') = new
      /\ \A n \in 1 .. Len(ldata) : ldata'[n] = ldata[n]
      /\ ldata' \in Seq(LValues)
    BY DEF LInv, LTypeOK, push_front
<1>3. In' = In \cup {new}
    <2>1. new \notin freed /\ \A u \in LThreads : lpc[u] = "delete" => ahead[u] # new
        BY <1>1 DEF LInv, LTypeOK, Standing
    <2> QED BY <1>1, <1>2, <2>1 DEF In, push_front, Node
<1>4. /\ next'[new] = next[head] /\ next'[head] = new
      /\ \A n \in Node : n # new => next'[n] = next[n]
      /\ next' \in [{head} \cup Node -> Node \cup {Null}]
    BY <1>1, NodeFacts DEF LInv, LTypeOK, push_front
<1>5. \A u \in LThreads : lpc[u] # "idle" => current[u] # head
    BY DEF push_front, MutexOfFree, Locked, LInv, LTypeOK
<1>6. UNCHANGED <<freed, lpc, op, pred, current, ahead, staying, visited>>
    BY DEF push_front
<1>7. LTypeOK'
    <2>1. 1 .. Len(ldata) \subseteq 1 .. Len(ldata')
        BY <1>1, <1>2
    <2>2. Len(ldata') <= MaxNodes
        BY <1>1, <1>2 DEF Node
    <2> QED BY <1>2, <1>4, <1>6, <2>1, <2>2 DEF LInv, LTypeOK
<1>8. Ordered'
    <2> SUFFICES ASSUME NEW n \in {head} \cup In'
                 PROVE  /\ next'[n] # Null => next'[n] \in In' /\ Behind(n, next'[n])
                        /\ \A m \in In' : Behind(n, m) => next'[n] # Null /\ m <= next'[n]
        BY DEF Ordered, Behind
    <2> USE NodeFacts DEF Behind
    <2>1. CASE n = head
        BY <1>1, <1>3, <1>4, <2>1 DEF In
    <2>2. CASE n = new
        BY <1>1, <1>3, <1>4, <2>2 DEF LInv, Ordered, In
    <2>3. CASE n \in In
        BY <1>1, <1>3, <1>4, <2>3 DEF LInv, Ordered, In
    <2> QED BY <1>3, <2>1, <2>2, <2>3
<1>9. Standing'
    <2>1. \A u \in LThreads : lpc[u] # "idle" => next'[current[u]] = next[current[u]]
        BY <1>1, <1>4, <1>5 DEF LInv, Standing, In
    <2> QED BY <1>1, <1>2, <1>3, <1>6, <2>1 DEF LInv, Standing
<1>10. Exclusion'
    BY <1>6 DEF LInv, Exclusion, Locked
<1>11. Progress'
    <2>1. \A u \in LThreads : lpc[u] # "idle" => ~Behind(current[u], new)
        BY <1>1, <1>5 DEF LInv, Standing, Behind, In, Node
    <2>2. \A u \in LThreads : \A n \in staying[u] : Done(u, n) => Done(u, n)'
        BY <1>2, <1>6 DEF LInv, LTypeOK, Done
    <2>3. \A u \in LThreads : \A n \in In' : lpc[u] # "idle" /\ Behind(current[u], n) => n \in In
        BY <1>3, <2>1
    <2> QED BY <1>3, <1>6, <2>2, <2>3 DEF LInv, Progress, Behind
<1> QED BY <1>7, <1>8, <1>9, <1>10, <1>11 DEF LInv

\* A traversal that begins has every node of the list behind it.
LEMMA BeginInv ==
    ASSUME LInv, NEW t \in LThreads, NEW p \in SUBSET LValues,
           NEW f \in {"for_each", "find_first_if", "remove_if"}, Begin(t, f, p)
    PROVE  LInv'
<1> USE DEF Begin, LGoto, list
<1>1. In' = In
    BY DEF In, LInv, LTypeOK
<1>2. /\ lpc'[t] = "stand" /\ current'[t] = head /\ visited'[t] = <<>> /\ staying'[t] \subseteq In
      /\ \A u \in LThreads : u # t => /\ lpc'[u] = lpc[u] /\ current'[u] = current[u]
                                      /\ visited'[u] = visited[u] /\ staying'[u] = staying[u]
                                      /\ op'[u] = op[u] /\ pred'[u] = pred[u]
    BY LinkedIn DEF LInv, LTypeOK
<1>3. In \subseteq 1 .. Len(ldata)
    BY DEF In, LInv, LTypeOK, Node
<1>4. LTypeOK'
    <2>1. Linked \in SUBSET (1 .. Len(ldata))
        BY <1>3, LinkedIn
    <2> QED BY <2>1 DEF LInv, LTypeOK
<1>5. Ordered'
    BY <1>1 DEF LInv, Ordered, Behind
<1>6. Standing'
    BY <1>1, <1>2 DEF LInv, Standing
<1>7. Exclusion'
    <2>1. Locked(t)' = {head} /\ \A u \in LThreads : u # t => Locked(u)' = Locked(u)
        BY <1>2 DEF Locked
    <2> QED BY <2>1 DEF LInv, Exclusion, MutexOfFree
<1>8. Progress'
    <2>1. \A u \in LThreads : u # t => \A n : Done(u, n) => Done(u, n)'
        BY <1>2 DEF Done
    <2> QED BY <1>1, <1>2, <2>1 DEF LInv, Progress, Behind, IsInjective
<1> QED BY <1>4, <1>5, <1>6, <1>7, <1>8 DEF LInv

\* The lock of the node ahead does not move the traversal.
LEMMA LockNextInv ==
    ASSUME LInv, NEW t \in LThreads, LockNext(t)
    PROVE  LInv'
<1> USE DEF LockNext, LGoto, list
<1>1. In' = In
    BY DEF In, LInv, LTypeOK
<1>2. next[current[t]] \in In
    BY DEF LInv, Standing, Ordered
<1>3. LTypeOK'
    BY <1>2 DEF LInv, LTypeOK, In
<1>4. Ordered'
    BY <1>1 DEF LInv, Ordered, Behind
<1>5. Standing'
    BY <1>1, <1>2 DEF LInv, LTypeOK, Standing
<1>6. Exclusion'
    <2>1. /\ Locked(t)' = Locked(t) \cup {next[current[t]]}
          /\ \A u \in LThreads : u # t => Locked(u)' = Locked(u)
        BY DEF LInv, LTypeOK, Locked
    <2> QED BY <2>1 DEF LInv, Exclusion, MutexOfFree
<1>7. Progress'
    BY <1>1 DEF LInv, LTypeOK, Progress, Behind, Done
<1> QED BY <1>3, <1>4, <1>5, <1>6, <1>7 DEF LInv

\* What a traversal with both locks has ahead of it was not examined before.
LEMMA Examined ==
    ASSUME LInv, NEW t \in LThreads, lpc[t] = "both", Examine(t)
    PROVE  /\ ahead[t] \in In /\ Behind(current[t], ahead[t])
           /\ visited' \in [LThreads -> Seq(Node)]
           /\ IsInjective(visited'[t])
           /\ \A u \in LThreads : u # t => visited'[u] = visited[u]
           /\ \A n : (\E i \in DOMAIN visited'[t] : visited'[t][i] = n)
                     <=> (n = ahead[t] \/ \E i \in DOMAIN visited[t] : visited[t][i] = n)
           /\ \A n \in In : Behind(current[t], n) =>
                n = ahead[t] \/ (n < ahead[t] /\ \A i \in DOMAIN visited'[t] : n < visited'[t][i])
<1>1. ahead[t] \in In /\ Behind(current[t], ahead[t])
    BY NodeFacts DEF LInv, Standing, Ordered, In
<1>2. visited[t] \in Seq(Node) /\ visited'[t] = Append(visited[t], ahead[t]) /\ ahead[t] \in Node
    BY <1>1 DEF LInv, LTypeOK, Examine, In
<1>3. /\ DOMAIN visited[t] = 1 .. Len(visited[t]) /\ DOMAIN visited'[t] = 1 .. Len(visited[t]) + 1
      /\ visited'[t][Len(visited[t]) + 1] = ahead[t] /\ Len(visited[t]) \in Nat
      /\ \A i \in 1 .. Len(visited[t]) : visited'[t][i] = visited[t][i] /\ visited[t][i] \in Node
    BY <1>2
<1>4. \A i \in DOMAIN visited[t] : ahead[t] < visited[t][i]
    BY <1>1 DEF LInv, Progress
<1>5. /\ visited' \in [LThreads -> Seq(Node)]
      /\ \A u \in LThreads : u # t => visited'[u] = visited[u]
    BY <1>2 DEF LInv, LTypeOK, Examine
<1>6. IsInjective(visited'[t])
    <2>1. \A i, j \in 1 .. Len(visited[t]) : visited[t][i] = visited[t][j] => i = j
        BY <1>3 DEF LInv, Progress, IsInjective
    <2>2. ahead[t] \in Nat BY <1>2, NodeFacts
    <2>3. \A i \in 1 .. Len(visited[t]) : visited'[t][i] # ahead[t]
        BY <1>3, <1>4, <2>2, NodeFacts
    <2>4. ASSUME NEW i \in 1 .. Len(visited[t]) + 1, NEW j \in 1 .. Len(visited[t]) + 1,
                 visited'[t][i] = visited'[t][j]
          PROVE  i = j
        BY <1>3, <2>1, <2>3, <2>4
    <2> QED BY <1>3, <2>4 DEF IsInjective
<1>7. \A n : (\E i \in DOMAIN visited'[t] : visited'[t][i] = n)
             <=> (n = ahead[t] \/ \E i \in DOMAIN visited[t] : visited[t][i] = n)
    BY <1>3
<1>8. ASSUME NEW n \in In, Behind(current[t], n), n # ahead[t]
      PROVE  n < ahead[t] /\ \A i \in DOMAIN visited'[t] : n < visited'[t][i]
    <2>1. n <= ahead[t] /\ \A i \in DOMAIN visited[t] : n < visited[t][i]
        BY <1>8 DEF LInv, Standing, Ordered, Progress
    <2>2. n < ahead[t]
        BY <1>2, <1>8, <2>1, NodeFacts DEF In
    <2> QED BY <1>3, <2>1, <2>2
<1> QED BY <1>1, <1>5, <1>6, <1>7, <1>8

\* The step onto the node ahead.
LEMMA StepOnInv ==
    ASSUME LInv, NEW t \in LThreads, StepOn(t)
    PROVE  LInv'
<1> USE DEF StepOn, LGoto, list
<1>1. In' = In
    BY DEF In, LInv, LTypeOK
<1>2. ahead[t] \in In /\ next[current[t]] = ahead[t]
    BY DEF LInv, Standing
<1>3. LTypeOK'
    BY <1>2, Examined DEF LInv, LTypeOK, In
<1>4. Ordered'
    BY <1>1 DEF LInv, Ordered, Behind
<1>5. Standing'
    BY <1>1, <1>2 DEF LInv, LTypeOK, Standing
<1>6. Exclusion'
    <2>1. Locked(t)' \subseteq Locked(t) /\ \A u \in LThreads : u # t => Locked(u)' = Locked(u)
        BY DEF LInv, LTypeOK, Locked
    <2> QED BY <2>1 DEF LInv, Exclusion
<1>7. Progress'
    <2>1. ASSUME NEW u \in LThreads, u # t
          PROVE  /\ visited'[u] = visited[u] /\ lpc'[u] = lpc[u] /\ current'[u] = current[u]
                 /\ \A n : Done(u, n) => Done(u, n)'
        BY <2>1, Examined DEF Done, LInv, LTypeOK
    <2>2. lpc'[t] = "stand" /\ current'[t] = ahead[t] /\ staying' = staying
        BY DEF LInv, LTypeOK
    <2>3. \A n \in In : Behind(ahead[t], n) =>
            /\ Behind(current[t], n) /\ n # ahead[t]
        BY Examined, <1>2, NodeFacts DEF Behind, In, LInv, Standing, Node
    <2>4. \A n \in In : Behind(ahead[t], n) => \A i \in DOMAIN visited'[t] : n < visited'[t][i]
        BY <2>3, Examined
    <2>5. ASSUME NEW n \in staying[t]
          PROVE  n \in In /\ (Behind(ahead[t], n) \/ Done(t, n)')
        <3>1. n \in In /\ (Behind(current[t], n) \/ Done(t, n))
            BY DEF LInv, Progress
        <3>2. CASE Done(t, n)
            BY <3>1, <3>2, Examined DEF Done
        <3>3. CASE Behind(current[t], n) /\ n # ahead[t]
            BY <3>1, <3>3, Examined DEF Behind
        <3>4. CASE n = ahead[t]
            <4>1. \E i \in DOMAIN visited'[t] : visited'[t][i] = n
                BY <3>4, Examined
            <4>2. op'[t] = "for_each" \/ ldata'[n] \notin pred'[t]
                BY <3>4 DEF Matches
            <4> QED BY <3>1, <4>1, <4>2 DEF Done
        <3> QED BY <3>1, <3>2, <3>3, <3>4
    <2>6. \A u \in LThreads : IsInjective(visited'[u])
        BY <2>1, Examined DEF LInv, Progress
    <2>7. ASSUME NEW u \in LThreads, u # t
          PROVE  /\ lpc'[u] = "idle" => \A n \in staying'[u] : Done(u, n)'
                 /\ lpc'[u] # "idle" =>
                    /\ \A n \in In' : Behind(current'[u], n) =>
                            \A i \in DOMAIN visited'[u] : n < visited'[u][i]
                    /\ \A n \in staying'[u] : n \in In' /\ (Behind(current'[u], n) \/ Done(u, n)')
        BY <1>1, <2>1, <2>2, <2>7 DEF LInv, Progress
    <2> HIDE DEF StepOn
    <2> QED BY <1>1, <2>2, <2>4, <2>5, <2>6, <2>7 DEF Progress, Behind
<1> QED BY <1>3, <1>4, <1>5, <1>6, <1>7 DEF LInv

\* find_first_if returns.
LEMMA FoundInv ==
    ASSUME LInv, NEW t \in LThreads, Found(t)
    PROVE  LInv'
<1> USE DEF Found, LGoto, list
<1>1. In' = In
    BY DEF In, LInv, LTypeOK
<1>2. LTypeOK'
    BY Examined DEF LInv, LTypeOK
<1>3. Ordered'
    BY <1>1 DEF LInv, Ordered, Behind
<1>4. Standing'
    BY <1>1 DEF LInv, LTypeOK, Standing
<1>5. Exclusion'
    BY DEF LInv, LTypeOK, Exclusion, Locked
<1>6. Progress'
    <2>1. ASSUME NEW u \in LThreads, u # t
          PROVE  /\ visited'[u] = visited[u] /\ lpc'[u] = lpc[u] /\ current'[u] = current[u]
                 /\ staying'[u] = staying[u] /\ \A n : Done(u, n) => Done(u, n)'
        BY <2>1, Examined DEF Done, LInv, LTypeOK
    <2>2. lpc'[t] = "idle" /\ staying'[t] = {} /\ IsInjective(visited'[t])
        BY Examined DEF LInv, LTypeOK
    <2> QED BY <1>1, <2>1, <2>2 DEF LInv, Progress, Behind
<1> QED BY <1>2, <1>3, <1>4, <1>5, <1>6 DEF LInv

\* remove_if takes the node ahead out of the list.
LEMMA UnlinkInv ==
    ASSUME LInv, NEW t \in LThreads, Unlink(t)
    PROVE  LInv'
<1> DEFINE n == ahead[t]
           c == current[t]
<1>1. /\ n \in In /\ Behind(c, n) /\ next[c] = n /\ c \in {head} \cup In /\ n # c
      /\ n \in Node /\ n \notin freed /\ n \in 1 .. Len(ldata)
      /\ \A u \in LThreads : lpc[u] = "delete" => ahead[u] # n
    <2>1. n \in In /\ Behind(c, n) /\ next[c] = n /\ c \in {head} \cup In
        BY Examined DEF LInv, Standing, Unlink
    <2>2. n \in Node /\ n \notin freed /\ \A u \in LThreads : lpc[u] = "delete" => ahead[u] # n
        BY <2>1 DEF In
    <2>3. n \in 1 .. Len(ldata) /\ n # c
        BY <2>1, <2>2, NodeFacts DEF In, Behind, LInv, LTypeOK
    <2> QED BY <2>1, <2>2, <2>3
<1>2. /\ lpc'[t] = "delete" /\ ahead' = ahead /\ current' = current /\ op' = op /\ pred' = pred
      /\ ldata' = ldata /\ freed' = freed
      /\ \A u \in LThreads : u # t => lpc'[u] = lpc[u]
      /\ \A u \in LThreads : staying'[u] = staying[u] \ {n}
      /\ lpc' \in [LThreads -> {"idle", "stand", "both", "delete"}]
      /\ staying' \in [LThreads -> SUBSET (1 .. Len(ldata))]
    BY DEF LInv, LTypeOK, Unlink, LGoto
<1>3. In' = In \ {n}
    BY <1>1, <1>2 DEF In, Unlink
<1>4. /\ next'[c] = next[n] /\ \A m \in {head} \cup Node : m # c /\ m # n => next'[m] = next[m]
      /\ next' \in [{head} \cup Node -> Node \cup {Null}]
    BY <1>1, NodeFacts DEF LInv, LTypeOK, Unlink
<1>5. LTypeOK'
    BY <1>2, <1>4, Examined DEF LInv, LTypeOK, Unlink
<1>6. Ordered'
    <2> SUFFICES ASSUME NEW a \in {head} \cup In'
                 PROVE  /\ next'[a] # Null => next'[a] \in In' /\ Behind(a, next'[a])
                        /\ \A m \in In' : Behind(a, m) => next'[a] # Null /\ m <= next'[a]
        BY DEF Ordered, Behind
    <2>0. /\ \A m \in In : m \in Node /\ m \in Nat /\ m # head
          /\ a # n /\ a \in {head} \cup In /\ head \in Nat
        BY <1>1, <1>3, NodeFacts DEF In
    <2>1. CASE a = c
        <3>1. /\ next[n] # Null => next[n] \in In /\ next[n] < n
              /\ \A m \in In : m < n => next[n] # Null /\ m <= next[n]
            BY <1>1, <2>0 DEF LInv, Ordered, Behind
        <3>2. \A m \in In : Behind(c, m) /\ m # n => m < n
            BY <1>1, <2>0 DEF LInv, Ordered
        <3>3. \A m \in In : m < n => Behind(c, m)
            BY <1>1, <2>0 DEF Behind
        <3> QED BY <1>1, <1>3, <1>4, <2>0, <2>1, <3>1, <3>2, <3>3
    <2>2. CASE a # c
        <3>1. next'[a] = next[a]
            BY <1>4, <2>0, <2>2
        <3>2. next[a] # n
            <4> SUFFICES ASSUME next[a] = n PROVE FALSE
                OBVIOUS
            <4>1. Behind(a, c) /\ c # head => c <= n
                BY <1>1, <2>0 DEF LInv, Ordered
            <4>2. Behind(c, a) /\ a # head => a <= n
                BY <1>1, <2>0 DEF LInv, Ordered
            <4>3. Behind(a, n) /\ n \in Node
                BY <1>1, <2>0, NodeFacts DEF LInv, Ordered
            <4> QED BY <1>1, <2>0, <2>2, <4>1, <4>2, <4>3 DEF Behind
        <3> QED BY <1>3, <2>0, <3>1, <3>2 DEF LInv, Ordered
    <2> QED BY <2>1, <2>2
<1>7. ASSUME NEW u \in LThreads, u # t
      PROVE  /\ lpc[u] # "idle" => current[u] # c /\ current[u] # n
             /\ lpc[u] = "both" => ahead[u] # n
    BY <1>7, Apart DEF Unlink
<1>8. Standing'
    <2>1. \A u \in LThreads : u # t /\ lpc[u] # "idle" => next'[current[u]] = next[current[u]]
        BY <1>4, <1>7 DEF LInv, LTypeOK
    <2>2. c \in {head} \cup In' /\ n \in 1 .. Len(ldata')
        BY <1>1, <1>2, <1>3
    <2> QED BY <1>1, <1>2, <1>3, <1>7, <2>1, <2>2 DEF LInv, Standing
<1>9. Exclusion'
    <2>1. Locked(t)' \subseteq Locked(t)
        BY <1>2 DEF Unlink, Locked
    <2>2. \A u \in LThreads : u # t => Locked(u)' = Locked(u)
        BY <1>2 DEF Locked
    <2> QED BY <2>1, <2>2 DEF LInv, Exclusion
<1>10. Progress'
    <2>0. \A u \in LThreads : IsInjective(visited'[u])
        BY Examined DEF Unlink, LInv, Progress
    <2>1. ASSUME NEW u \in LThreads, u # t
          PROVE  visited'[u] = visited[u] /\ \A m : Done(u, m) => Done(u, m)'
        BY <1>2, <2>1, Examined DEF Unlink, Done
    <2>2. \A m : Done(t, m) => Done(t, m)'
        BY <1>2, Examined DEF Unlink, Done
    <2>3. \A m \in In' : Behind(c, m) => \A i \in DOMAIN visited'[t] : m < visited'[t][i]
        BY <1>3, Examined DEF Unlink
    <2>4. \A m \in staying'[t] : m \in In' /\ (Behind(c, m) \/ Done(t, m)')
        BY <1>2, <1>3, <2>2 DEF LInv, Progress, Unlink
    <2>5. ASSUME NEW u \in LThreads, u # t
          PROVE  /\ lpc'[u] = "idle" => \A m \in staying'[u] : Done(u, m)'
                 /\ lpc'[u] # "idle" =>
                    /\ \A m \in In' : Behind(current'[u], m) =>
                            \A i \in DOMAIN visited'[u] : m < visited'[u][i]
                    /\ \A m \in staying'[u] : m \in In' /\ (Behind(current'[u], m) \/ Done(u, m)')
        BY <1>2, <1>3, <2>1, <2>5 DEF LInv, Progress
    <2> QED BY <1>2, <2>0, <2>3, <2>4, <2>5 DEF Progress, Behind
<1> QED BY <1>5, <1>6, <1>8, <1>9, <1>10 DEF LInv

\* The node that is destroyed left the list when it was unlinked.
LEMMA DeleteInv ==
    ASSUME LInv, NEW t \in LThreads, Delete(t)
    PROVE  LInv'
<1> USE DEF Delete, LGoto
<1>1. ahead[t] \in 1 .. Len(ldata) /\ lpc'[t] = "stand"
      /\ \A u \in LThreads : u # t => lpc'[u] = lpc[u] /\ ahead'[u] = ahead[u]
    BY DEF LInv, LTypeOK, Standing
<1>2. In' = In
    BY <1>1 DEF In
<1>3. LTypeOK'
    BY <1>1 DEF LInv, LTypeOK
<1>4. Ordered'
    BY <1>2 DEF LInv, Ordered, Behind
<1>5. Standing'
    BY <1>1, <1>2 DEF LInv, Standing
<1>6. Exclusion'
    <2>1. Locked(t)' \subseteq Locked(t) /\ \A u \in LThreads : u # t => Locked(u)' = Locked(u)
        BY <1>1 DEF Locked
    <2> QED BY <2>1 DEF LInv, Exclusion
<1>7. Progress'
    BY <1>1, <1>2 DEF LInv, Progress, Behind, Done
<1> QED BY <1>3, <1>4, <1>5, <1>6, <1>7 DEF LInv

\* A traversal that finds no next node has nothing behind it.
LEMMA EndInv ==
    ASSUME LInv, NEW t \in LThreads, End(t)
    PROVE  LInv'
<1> USE DEF End, LGoto, list
<1>1. lpc'[t] = "idle" /\ \A u \in LThreads : u # t => lpc'[u] = lpc[u]
    BY DEF LInv, LTypeOK
<1>2. In' = In
    BY <1>1 DEF In
<1>3. LTypeOK'
    BY DEF LInv, LTypeOK
<1>4. Ordered'
    BY <1>2 DEF LInv, Ordered, Behind
<1>5. Standing'
    BY <1>1, <1>2 DEF LInv, Standing
<1>6. Exclusion'
    <2>1. Locked(t)' = {} /\ \A u \in LThreads : u # t => Locked(u)' = Locked(u)
        BY <1>1 DEF Locked
    <2> QED BY <2>1 DEF LInv, Exclusion
<1>7. Progress'
    <2>1. \A n \in In : ~Behind(current[t], n)
        BY DEF LInv, Standing, Ordered
    <2> QED BY <1>1, <1>2, <2>1 DEF LInv, Progress, Behind, Done
<1> QED BY <1>3, <1>4, <1>5, <1>6, <1>7 DEF LInv

LEMMA LNextInv == LInv /\ [LNext]_lVars => LInv'
<1> SUFFICES ASSUME LInv, [LNext]_lVars PROVE LInv'
    OBVIOUS
<1>1. CASE UNCHANGED lVars
    <2>1. In' = In
        BY <1>1 DEF lVars, In
    <2>2. LTypeOK' /\ Standing' /\ Exclusion'
        BY <1>1, <2>1 DEF lVars, LInv, LTypeOK, Standing, Exclusion, Locked
    <2>3. Ordered' /\ Progress'
        BY <1>1, <2>1 DEF lVars, LInv, Ordered, Progress, Behind, Done
    <2> QED BY <2>2, <2>3 DEF LInv
<1>2. CASE LNext
    <2>1. ASSUME NEW t \in LThreads, NEW f \in {"find_first_if", "remove_if"}, NEW v \in LValues,
                 Begin(t, f, {v})
          PROVE  LInv'
        BY <2>1, BeginInv
    <2>2. ASSUME NEW t \in LThreads, Begin(t, "for_each", {}) PROVE LInv'
        BY <2>2, BeginInv
    <2> QED BY <1>2, <2>1, <2>2, PushFrontInv, LockNextInv, StepOnInv, FoundInv, UnlinkInv,
               DeleteInv, EndInv
            DEF LNext, Traverse
<1> QED BY <1>1, <1>2

\* No traversal touches, and none destroys again, a node that remove_if has destroyed.
THEOREM FreedUntouched == LSpec => []NoFreedNode
<1>1. LInv => NoFreedNode
    <2> SUFFICES ASSUME LInv, NEW t \in LThreads
                 PROVE  /\ lpc[t] # "idle" => current[t] \notin freed
                        /\ lpc[t] \in {"both", "delete"} => ahead[t] \notin freed
                        /\ lpc[t] = "stand" => next[current[t]] \notin freed
        BY DEF NoFreedNode
    <2>1. head \notin freed /\ Null \notin freed /\ In \cap freed = {}
        BY NodesAssumption DEF LInv, LTypeOK, In, head, Null
    <2> QED BY <2>1, NodeFacts DEF LInv, LTypeOK, Standing, Ordered
<1> QED BY <1>1, LInitInv, LNextInv, PTL DEF LSpec

\* A traversal examines once, and misses none of, the nodes that stay in the list while
\* it is on its way, and none that stays matches a remove_if or a find_first_if that
\* returned null.
THEOREM AllStayersVisited == LSpec => []StayersVisited
<1>1. LInv => StayersVisited
    BY DEF LInv, Progress, StayersVisited, Done, ToSet
<1> QED BY <1>1, LInitInv, LNextInv, PTL DEF LSpec

-----------------------------------------------------------------------------
(* LockedQueue: an atomic first in, first out queue.                       *)

QLabel == {"idle", "link", "notify", "test", "pop", "block", "gone"}

QTypeOK ==
    /\ chain \in Seq(QElement \cup {QNothing}) /\ Len(chain) >= 1
    /\ qpc \in [QProducers \cup QConsumers -> QLabel]
    /\ qpushed \in [QProducers -> 0 .. QMaxPushes]

\* In front of the last node are elements that were pushed, none of them twice.
Chained ==
    /\ \A i \in 1 .. Len(chain) - 1 : chain[i] \in QElement
    /\ \A i, j \in 1 .. Len(chain) : chain[i] = chain[j] => i = j
    /\ \A i \in 1 .. Len(chain) : chain[i] \in QElement => chain[i][2] <= qpushed[chain[i][1]]

\* One push at a time holds the tail's mutex, one pop the head's; data goes into the last
\* node before the new one is behind it, and a pop has found an element.
OneAtEachEnd ==
    /\ \A p \in QProducers : qpc[p] = "link" =>
        /\ chain[Len(chain)] \in QElement
        /\ \A r \in QProducers : qpc[r] = "link" => r = p
    /\ \A c \in QConsumers : qpc[c] = "pop" =>
        /\ Len(chain) > 1
        /\ \A d \in QConsumers : qpc[d] \in {"pop", "block"} => d = c

QInv == QTypeOK /\ Chained /\ OneAtEachEnd

LEMMA QInitInv == QInit => QInv
<1> SUFFICES ASSUME QInit PROVE QInv
    OBVIOUS
<1>1. /\ chain = <<QNothing>> /\ qpushed = [p \in QProducers |-> 0]
      /\ qpc = [t \in QProducers \cup QConsumers |-> "idle"]
    BY DEF QInit
<1>2. Len(chain) = 1 /\ chain \in Seq(QElement \cup {QNothing}) /\ chain[1] = QNothing
    BY <1>1
<1> QED BY <1>1, <1>2, QPushesAssumption, QNothingAssumption
    DEF QInv, QTypeOK, QLabel, Chained, OneAtEachEnd

\* The steps that neither change the list nor lead to a push or a pop.
LEMMA ListUntouched ==
    ASSUME QInv, NEW t \in QProducers \cup QConsumers, NEW l \in QLabel, l \notin {"link", "pop"},
           qpc' = [qpc EXCEPT ![t] = l], chain' = chain, qpushed' = qpushed,
           l = "block" => ~PopLocked
    PROVE  QInv'
<1>1. QTypeOK'
    BY DEF QInv, QTypeOK
<1>2. Chained'
    BY DEF QInv, Chained
<1>3. OneAtEachEnd'
    BY DEF QInv, QTypeOK, OneAtEachEnd, PopLocked
<1> QED BY <1>1, <1>2, <1>3 DEF QInv

\* notify_one leaves the list alone.
LEMMA NotifyOnly ==
    ASSUME NEW p \in QProducers, PushNotify(p)
    PROVE  /\ qpc' = [qpc EXCEPT ![p] = "idle"]
           /\ chain' = chain /\ qpushed' = qpushed /\ newest' = newest
BY Zenon DEF PushNotify, QGoto

LEMMA ThrowOnly ==
    ASSUME NEW c \in QConsumers, PopThrows(c)
    PROVE  /\ qpc' = [qpc EXCEPT ![c] = "gone"]
           /\ chain' = chain /\ qpushed' = qpushed /\ newest' = newest
BY Zenon DEF PopThrows, QGoto

LEMMA PushDataInv ==
    ASSUME QInv, NEW p \in QProducers, PushData(p)
    PROVE  QInv'
<1> DEFINE e == <<p, qpushed[p] + 1>>
           n == Len(chain)
<1>1. /\ qpushed[p] \in Nat /\ qpushed'[p] = qpushed[p] + 1 /\ qpushed[p] + 1 \in 0 .. QMaxPushes
      /\ \A r \in QProducers : r # p => qpushed'[r] = qpushed[r]
      /\ e \in QElement /\ n \in Nat /\ n >= 1
    BY QPushesAssumption DEF QInv, QTypeOK, PushData, QElement
<1>2. /\ chain' \in Seq(QElement \cup {QNothing}) /\ Len(chain') = n
      /\ chain'[n] = e /\ \A i \in 1 .. n : i # n => chain'[i] = chain[i]
    BY <1>1 DEF QInv, QTypeOK, PushData
<1>3. QTypeOK'
    BY <1>1, <1>2 DEF QInv, QTypeOK, PushData, QGoto, QLabel
<1>4. \A i \in 1 .. n : chain[i] # e
    <2>1. \A i \in 1 .. n : chain[i] = e => e[2] <= qpushed[e[1]]
        BY <1>1 DEF QInv, Chained
    <2> QED BY <1>1, <2>1
<1>5. Chained'
    <2>1. \A i \in 1 .. Len(chain') - 1 : chain'[i] \in QElement
        BY <1>1, <1>2 DEF QInv, Chained
    <2>2. \A i, j \in 1 .. Len(chain') : chain'[i] = chain'[j] => i = j
        BY <1>2, <1>4 DEF QInv, Chained
    <2>3. ASSUME NEW i \in 1 .. n, chain'[i] \in QElement
          PROVE  chain'[i][2] <= qpushed'[chain'[i][1]]
        <3>1. CASE i = n
            BY <1>1, <1>2, <3>1
        <3>2. CASE i # n
            <4>1. chain'[i] = chain[i] /\ chain[i][2] <= qpushed[chain[i][1]]
                BY <1>2, <2>3, <3>2 DEF QInv, Chained
            <4>2. chain[i][1] \in QProducers /\ chain[i][2] \in Nat
                BY <2>3, <4>1, QPushesAssumption DEF QElement
            <4>3. \A r \in QProducers :
                    /\ qpushed[r] \in Nat /\ qpushed'[r] \in Nat
                    /\ qpushed[r] <= qpushed'[r]
                BY <1>1, <1>3, QPushesAssumption DEF QInv, QTypeOK
            <4> QED BY <4>1, <4>2, <4>3
        <3> QED BY <3>1, <3>2
    <2> QED BY <1>2, <2>1, <2>2, <2>3 DEF Chained
<1>6. OneAtEachEnd'
    BY <1>1, <1>2 DEF QInv, QTypeOK, OneAtEachEnd, PushData, QGoto, TailFree, PushLocked
<1> QED BY <1>3, <1>5, <1>6 DEF QInv

LEMMA PushLinkInv ==
    ASSUME QInv, NEW p \in QProducers, PushLink(p)
    PROVE  QInv'
<1> DEFINE n == Len(chain)
<1>1. /\ n \in Nat /\ n >= 1
      /\ chain' \in Seq(QElement \cup {QNothing}) /\ Len(chain') = n + 1
      /\ chain'[n + 1] = QNothing /\ \A i \in 1 .. n : chain'[i] = chain[i]
    BY DEF QInv, QTypeOK, PushLink
<1>2. QTypeOK'
    BY <1>1 DEF QInv, QTypeOK, PushLink, QGoto, QLabel
<1>3. \A i \in 1 .. n : chain[i] \in QElement
    BY <1>1 DEF QInv, Chained, OneAtEachEnd, PushLink
<1>4. Chained'
    <2>1. \A i \in 1 .. Len(chain') - 1 : chain'[i] \in QElement
        BY <1>1, <1>3
    <2>2. \A i, j \in 1 .. Len(chain') : chain'[i] = chain'[j] => i = j
        BY <1>1, <1>3, QNothingAssumption DEF QInv, Chained
    <2>3. \A i \in 1 .. Len(chain') : chain'[i] \in QElement => chain'[i][2] <= qpushed'[chain'[i][1]]
        BY <1>1, QNothingAssumption DEF QInv, Chained, PushLink
    <2> QED BY <2>1, <2>2, <2>3 DEF Chained
<1>5. OneAtEachEnd'
    BY <1>1 DEF QInv, QTypeOK, OneAtEachEnd, PushLink, QGoto
<1> QED BY <1>2, <1>4, <1>5 DEF QInv

LEMMA TestInv ==
    ASSUME QInv, NEW c \in QConsumers, Test(c)
    PROVE  QInv'
<1>1. chain' = chain /\ qpushed' = qpushed /\ ~PopLocked
    BY DEF Test, HeadFree
<1>2. CASE Len(chain) # 1 /\ qpc' = [qpc EXCEPT ![c] = "pop"]
    <2>1. QTypeOK' /\ Chained'
        BY <1>1, <1>2 DEF QInv, QTypeOK, QLabel, Chained
    <2>2. OneAtEachEnd'
        <3>0. Len(chain) > 1
            <4>1. Len(chain) \in Nat /\ Len(chain) >= 1
                BY DEF QInv, QTypeOK
            <4>2. \A k \in Nat : k >= 1 /\ k # 1 => k > 1
                OBVIOUS
            <4> QED BY <1>2, <4>1, <4>2
        <3>1. Len(chain) > 1 /\ \A d \in QConsumers : qpc[d] \notin {"pop", "block"}
            BY <1>1, <3>0 DEF PopLocked
        <3>2. /\ \A d \in QConsumers : qpc'[d] \in {"pop", "block"} => d = c
              /\ \A p \in QProducers : qpc'[p] = "link" => qpc[p] = "link"
            BY <1>2, <3>1 DEF QInv, QTypeOK
        <3> QED BY <1>1, <3>1, <3>2 DEF QInv, OneAtEachEnd
    <2> QED BY <2>1, <2>2 DEF QInv
<1>3. CASE qpc' = [qpc EXCEPT ![c] = "block"]
    BY <1>1, <1>3, ListUntouched DEF QLabel
<1>4. CASE qpc' = [qpc EXCEPT ![c] = "idle"]
    BY <1>1, <1>4, ListUntouched DEF QLabel
<1> QED BY <1>2, <1>3, <1>4 DEF Test, Decide, Empty, QGoto

LEMMA PopHeadInv ==
    ASSUME QInv, NEW c \in QConsumers, PopHead(c)
    PROVE  QInv'
<1> DEFINE n == Len(chain)
<1>1. /\ n \in Nat /\ n > 1
      /\ chain' \in Seq(QElement \cup {QNothing}) /\ Len(chain') = n - 1
      /\ \A i \in 1 .. n - 1 : chain'[i] = chain[i + 1]
    BY DEF QInv, QTypeOK, OneAtEachEnd, PopHead
<1>2. QTypeOK'
    BY <1>1 DEF QInv, QTypeOK, PopHead, QGoto, QLabel
<1>3. Chained'
    <2>1. \A i \in 1 .. Len(chain') - 1 : chain'[i] \in QElement
        BY <1>1 DEF QInv, Chained
    <2>2. \A i, j \in 1 .. Len(chain') : chain'[i] = chain'[j] => i = j
        <3> SUFFICES ASSUME NEW i \in 1 .. n - 1, NEW j \in 1 .. n - 1, chain[i + 1] = chain[j + 1]
                     PROVE  i = j
            BY <1>1
        <3>1. i + 1 \in 1 .. Len(chain) /\ j + 1 \in 1 .. Len(chain)
            BY <1>1
        <3>2. i + 1 = j + 1
            BY <3>1 DEF QInv, Chained
        <3> QED BY <1>1, <3>2
    <2>3. ASSUME NEW i \in 1 .. n - 1, chain[i + 1] \in QElement
          PROVE  chain[i + 1][2] <= qpushed[chain[i + 1][1]]
        <3>1. i + 1 \in 1 .. Len(chain)
            BY <1>1
        <3> QED BY <2>3, <3>1 DEF QInv, Chained
    <2>4. qpushed' = qpushed
        BY DEF PopHead
    <2> QED BY <1>1, <2>1, <2>2, <2>3, <2>4 DEF Chained
<1>4. chain'[Len(chain')] = chain[Len(chain)]
    BY <1>1
<1>5. OneAtEachEnd'
    BY <1>1, <1>4 DEF QInv, QTypeOK, OneAtEachEnd, PopHead, QGoto
<1> QED BY <1>2, <1>3, <1>5 DEF QInv

LEMMA QNextInv == QInv /\ [QNext]_qVars => QInv'
<1> SUFFICES ASSUME QInv, [QNext]_qVars PROVE QInv'
    OBVIOUS
<1>1. ASSUME NEW p \in QProducers, PushNotify(p) PROVE QInv'
    BY <1>1, NotifyOnly, ListUntouched DEF QLabel
<1>2. ASSUME NEW c \in QConsumers, NEW f \in PopCalls, CallPop(c, f) PROVE QInv'
    BY <1>2, ListUntouched DEF CallPop, QGoto, QLabel
<1>3. ASSUME NEW c \in QConsumers, Block(c) PROVE QInv'
    BY <1>3, ListUntouched DEF Block, QGoto, QLabel
<1>4. ASSUME NEW c \in QConsumers, PopThrows(c) PROVE QInv'
    BY <1>4, ThrowOnly, ListUntouched DEF QLabel
<1>5. ASSUME UNCHANGED <<chain, qpc, qpushed>> PROVE QInv'
    BY <1>5 DEF QInv, QTypeOK, Chained, OneAtEachEnd
<1>6. ASSUME NEW c \in QConsumers, WakeSpuriously(c) PROVE QInv'
    BY <1>5, <1>6 DEF WakeSpuriously
<1>7. UNCHANGED qVars => QInv'
    BY <1>5 DEF qVars
<1> QED BY <1>1, <1>2, <1>3, <1>4, <1>6, <1>7, PushDataInv, PushLinkInv, TestInv, PopHeadInv
        DEF QNext, QConsume

\* The chain without its last node is the queue that the threads see.
Visible == SubSeq(chain, 1, Len(chain) - 1)

LEMMA VisibleIs ==
    ASSUME QTypeOK
    PROVE  /\ Visible \in Seq(QElement \cup {QNothing}) /\ Len(Visible) = Len(chain) - 1
           /\ Len(chain) \in Nat
           /\ \A i \in 1 .. Len(chain) - 1 : Visible[i] = chain[i]
<1> DEFINE n == Len(chain)
<1>1. n \in Nat /\ n >= 1 /\ \A i \in 1 .. n - 1 : chain[i] \in QElement \cup {QNothing}
    BY DEF QTypeOK
<1>2. /\ SubSeq(chain, 1, n - 1) \in Seq(QElement \cup {QNothing})
      /\ Len(SubSeq(chain, 1, n - 1)) = IF 1 <= n - 1 THEN (n - 1) - 1 + 1 ELSE 0
      /\ \A i \in 1 .. (n - 1) - 1 + 1 : SubSeq(chain, 1, n - 1)[i] = chain[1 + i - 1]
    <2>1. 1 \in Int /\ n - 1 \in Int
        BY <1>1
    <2> QED BY <1>1, <2>1, SubSeqProperties
<1> HIDE DEF n
<1>3. /\ (n - 1) - 1 + 1 = n - 1 /\ (1 > n - 1 => n - 1 = 0)
      /\ \A i \in 1 .. n - 1 : 1 + i - 1 = i
    BY <1>1
<1>4. Len(Visible) = n - 1 /\ \A i \in 1 .. n - 1 : Visible[i] = chain[i]
    BY <1>1, <1>2, <1>3 DEF Visible, n
<1> QED BY <1>1, <1>2, <1>4 DEF Visible, n

\* There are no more elements in the chain than there are elements.
LEMMA RoomForPush ==
    ASSUME QInv, NEW p \in QProducers, qpc[p] = "link"
    PROVE  Len(Visible) < Cardinality(QElement)
<1> DEFINE n == Len(chain)
<1>1. IsFiniteSet(QElement)
    <2>1. IsFiniteSet(1 .. QMaxPushes)
        BY FS_Interval, QPushesAssumption
    <2> QED BY <2>1, FS_Product, QThreadsAssumption DEF QElement
<1>2. n \in Nat /\ n >= 1 /\ \A i \in 1 .. n : chain[i] \in QElement
    BY DEF QInv, QTypeOK, Chained, OneAtEachEnd
<1>3. chain \in Injection(1 .. n, QElement)
    BY <1>2 DEF QInv, QTypeOK, Chained, Injection, IsInjective
<1>4. Cardinality(1 .. n) <= Cardinality(QElement) /\ Cardinality(1 .. n) = n
    BY <1>1, <1>2, <1>3, FS_Injection, FS_Interval
<1> QED BY <1>1, <1>2, <1>4, VisibleIs, FS_CardinalityType DEF QInv

\* PushLink is the push, PopHead the pop; the other steps do not show.
LEMMA QNextFifo == QInv /\ QInv' /\ [QNext]_qVars => [Fifo!Next]_(Fifo!vars)
<1> SUFFICES ASSUME QInv, QInv', [QNext]_qVars PROVE [Fifo!Next]_(Fifo!vars)
    OBVIOUS
<1> DEFINE n == Len(chain)
<1>0. n \in Nat /\ n >= 1
    BY DEF QInv, QTypeOK
<1>1. ASSUME chain' = chain, newest' = newest PROVE UNCHANGED Fifo!vars
    BY <1>1 DEF Fifo!vars
<1>2. ASSUME NEW p \in QProducers, PushData(p) PROVE UNCHANGED Fifo!vars
    <2>1. newest' = newest /\ Len(chain') = n /\ \A i \in 1 .. n - 1 : chain'[i] = chain[i]
        BY <1>0, <1>2 DEF QInv, QTypeOK, PushData
    <2>2. /\ Len(Visible') = Len(Visible) /\ \A i \in 1 .. Len(Visible) : Visible'[i] = Visible[i]
          /\ Visible \in Seq(QElement \cup {QNothing}) /\ Visible' \in Seq(QElement \cup {QNothing})
        BY <1>0, <2>1, VisibleIs DEF QInv, Visible, QTypeOK
    <2>3. Visible' = Visible
        BY <2>2
    <2> QED BY <2>1, <2>3 DEF Fifo!vars, Visible
<1>3. ASSUME NEW p \in QProducers, PushLink(p) PROVE Fifo!Push(chain[n]) /\ chain[n] \in QElement
    <2>1. /\ newest' = newest /\ Len(chain') = n + 1 /\ chain[n] \in QElement
          /\ \A i \in 1 .. n : chain'[i] = chain[i]
        BY <1>0, <1>3 DEF QInv, QTypeOK, OneAtEachEnd, PushLink
    <2>2. /\ Visible' \in Seq(QElement \cup {QNothing}) /\ Len(Visible') = n
          /\ \A i \in 1 .. n : Visible'[i] = chain[i]
        BY <1>0, <2>1, VisibleIs DEF QInv, Visible, QTypeOK
    <2>3. /\ Visible \in Seq(QElement \cup {QNothing}) /\ Len(Visible) = n - 1
          /\ \A i \in 1 .. n - 1 : Visible[i] = chain[i]
        BY VisibleIs DEF QInv
    <2>4. Visible' = Append(Visible, chain[n])
        BY <1>0, <2>1, <2>2, <2>3
    <2> QED BY <1>3, <2>1, <2>4, RoomForPush DEF Fifo!Push, Visible, PushLink
<1>4. ASSUME NEW c \in QConsumers, PopHead(c) PROVE Fifo!Pop
    <2>1. /\ newest' = chain[1] /\ Len(chain') = n - 1 /\ n > 1
          /\ \A i \in 1 .. n - 1 : chain'[i] = chain[i + 1]
        BY <1>0, <1>4 DEF QInv, QTypeOK, OneAtEachEnd, PopHead
    <2>2. /\ Visible' \in Seq(QElement \cup {QNothing}) /\ Len(Visible') = n - 2
          /\ \A i \in 1 .. n - 2 : Visible'[i] = chain[i + 1]
        BY <1>0, <2>1, VisibleIs DEF QInv, Visible, QTypeOK
    <2>3. /\ Visible \in Seq(QElement \cup {QNothing}) /\ Len(Visible) = n - 1
          /\ \A i \in 1 .. n - 1 : Visible[i] = chain[i]
        BY VisibleIs DEF QInv
    <2>4. Visible # <<>> /\ Head(Visible) = chain[1]
        BY <1>0, <2>1, <2>3
    <2>5. /\ Tail(Visible) \in Seq(QElement \cup {QNothing}) /\ Len(Tail(Visible)) = n - 2
          /\ \A i \in 1 .. n - 2 : Tail(Visible)[i] = chain[i + 1]
        BY <1>0, <2>1, <2>3, <2>4, HeadTailProperties
    <2>6. Visible' = Tail(Visible)
        BY <1>0, <2>1, <2>2, <2>5
    <2> QED BY <2>1, <2>4, <2>6 DEF Fifo!Pop, Visible
<1>5. ASSUME NEW p \in QProducers, PushNotify(p) PROVE UNCHANGED Fifo!vars
    BY <1>1, <1>5, NotifyOnly
<1>6. ASSUME NEW c \in QConsumers, PopThrows(c) PROVE UNCHANGED Fifo!vars
    BY <1>1, <1>6, ThrowOnly
<1>7. ASSUME NEW c \in QConsumers,
             (\E f \in PopCalls : CallPop(c, f)) \/ Test(c) \/ Block(c) \/ WakeSpuriously(c)
      PROVE  UNCHANGED Fifo!vars
    BY <1>1, <1>7 DEF CallPop, Test, Block, WakeSpuriously
<1>8. UNCHANGED qVars => UNCHANGED Fifo!vars
    BY <1>1 DEF qVars
<1> QED BY <1>2, <1>3, <1>4, <1>5, <1>6, <1>7, <1>8 DEF QNext, QConsume, Fifo!Next

\* Both of the queues with locks implement the first in, first out queue: elements are
\* returned once each, in the order in which they became visible, and the dummy never.
THEOREM QueueRefinement == QSpec => ImplementsQueue
<1>1. QInit => Fifo!Init
    BY DEF QInit, Fifo!Init
<1> QED BY <1>1, QInitInv, QNextInv, QNextFifo, PTL DEF QSpec, ImplementsQueue, Fifo!Spec

-----------------------------------------------------------------------------
(* All of them in one program.                                             *)

\* A program that uses one of the containers keeps what each of them promises.
THEOREM ContainersKeepAll ==
    SpecContainers => /\ [](PermitPerElement /\ SnapshotIsState /\ NoFreedNode /\ StayersVisited)
                      /\ ImplementsQueue
<1>1. InitContainers => Init /\ QInit /\ TInit /\ LInit
    BY DEF InitContainers
<1>2. [NextContainers]_containerVars => [Next]_vars /\ [QNext]_qVars /\ [TNext]_tVars /\ [LNext]_lVars
    <2>1. UNCHANGED containerVars => UNCHANGED vars /\ UNCHANGED qVars /\ UNCHANGED tVars /\ UNCHANGED lVars
        BY DEF containerVars
    <2> QED BY <2>1, Zenon DEF NextContainers
<1>3. SpecContainers => Spec /\ QSpec /\ TSpec /\ LSpec
    BY <1>1, <1>2, PTL DEF SpecContainers, Spec, QSpec, TSpec, LSpec
<1> QED BY <1>3, Permits, QueueRefinement, Snapshot, FreedUntouched, AllStayersVisited, PTL
=============================================================================
