----------------------------- MODULE LookupTable -----------------------------
(***************************************************************************)
(* designLockBase/dataStructures.hpp: threadsafe_lookup_table, a map cut   *)
(* into buckets that have a std::shared_mutex each.  An operation on one   *)
(* key is one critical section of its bucket; get_map locks all buckets,   *)
(* one after the other, before it copies them.                             *)
(***************************************************************************)
EXTENDS Naturals, FiniteSets

CONSTANTS
    TThreads, Keys, TValues,
    TNone,          \* no value: the key is not in the table, or nothing was returned
    num_buckets,    \* the argument of the constructor
    hasher,         \* the hash of each key
    TMaxCalls       \* bound: calls of one thread

ASSUME BucketsAssumption == num_buckets \in Nat \ {0} /\ hasher \in [Keys -> Nat]
ASSUME TNoneAssumption == TNone \notin TValues
ASSUME TCallsAssumption == TMaxCalls \in Nat

Bucket == 0 .. num_buckets - 1

VARIABLES
    data,           \* the value of each key, over all buckets
    tpc,            \* place of each thread in get_map
    locks,          \* the buckets that each get_map has locked
    next_bucket,    \* i of its loop over the buckets
    res,            \* the map copied so far, or the answer of value_for
    tcalls          \* calls begun by each thread

tVars == <<data, tpc, locks, next_bucket, res, tcalls>>

EmptyMap == [k \in Keys |-> TNone]

TInit ==
    /\ data = EmptyMap
    /\ tpc = [t \in TThreads |-> "idle"]
    /\ locks = [t \in TThreads |-> {}]
    /\ next_bucket = [t \in TThreads |-> 0]
    /\ res = [t \in TThreads |-> EmptyMap]
    /\ tcalls = [t \in TThreads |-> 0]

get_bucket(k) == hasher[k] % num_buckets

Unlocked(b) == \A t \in TThreads : b \notin locks[t]

TCall(t) ==
    /\ tpc[t] = "idle" /\ tcalls[t] < TMaxCalls
    /\ tcalls' = [tcalls EXCEPT ![t] = @ + 1]

-----------------------------------------------------------------------------
\* A reader shares the bucket with other readers; it waits for a get_map.
value_for(t, k) ==
    /\ TCall(t)
    /\ Unlocked(get_bucket(k))
    /\ res' = [res EXCEPT ![t] = [EmptyMap EXCEPT ![k] = data[k]]]
    /\ UNCHANGED <<data, tpc, locks, next_bucket>>

\* The entry found is overwritten, or a new one appended.
add_or_update_mapping(t, k, v) ==
    /\ TCall(t)
    /\ Unlocked(get_bucket(k))
    /\ data' = [data EXCEPT ![k] = v]
    /\ UNCHANGED <<tpc, locks, next_bucket, res>>

remove_mapping(t, k) ==
    /\ TCall(t)
    /\ Unlocked(get_bucket(k))
    /\ data' = [data EXCEPT ![k] = TNone]
    /\ UNCHANGED <<tpc, locks, next_bucket, res>>

-----------------------------------------------------------------------------
\* get_map: the buckets are locked in ascending order ...
MapBegin(t) ==
    /\ TCall(t)
    /\ tpc' = [tpc EXCEPT ![t] = "lock"]
    /\ next_bucket' = [next_bucket EXCEPT ![t] = 0]
    /\ res' = [res EXCEPT ![t] = EmptyMap]
    /\ UNCHANGED <<data, locks>>

\* Mutant: the buckets are locked in no particular order.
MapLockAny(t) ==
    /\ tpc[t] = "lock"
    /\ \E b \in Bucket \ locks[t] :
        /\ Unlocked(b)
        /\ locks' = [locks EXCEPT ![t] = @ \cup {b}]
        /\ tpc' = [tpc EXCEPT ![t] = IF locks'[t] = Bucket THEN "copy" ELSE @]
    /\ UNCHANGED <<data, next_bucket, res, tcalls>>

\* Mutant: the lock of a bucket is given up for the next one.
MapLockOne(t) ==
    /\ tpc[t] = "lock"
    /\ Unlocked(next_bucket[t])
    /\ locks' = [locks EXCEPT ![t] = {next_bucket[t]}]
    /\ next_bucket' = [next_bucket EXCEPT ![t] = (@ + 1) % num_buckets]
    /\ tpc' = [tpc EXCEPT ![t] = IF next_bucket'[t] = 0 THEN "copy" ELSE @]
    /\ UNCHANGED <<data, res, tcalls>>

MapLock(t) ==
    /\ tpc[t] = "lock"
    /\ Unlocked(next_bucket[t])
    /\ locks' = [locks EXCEPT ![t] = @ \cup {next_bucket[t]}]
    /\ next_bucket' = [next_bucket EXCEPT ![t] = (@ + 1) % num_buckets]
    /\ tpc' = [tpc EXCEPT ![t] = IF next_bucket'[t] = 0 THEN "copy" ELSE @]
    /\ UNCHANGED <<data, res, tcalls>>

\* ... the buckets copied in the same order ...
MapCopy(t) ==
    /\ tpc[t] = "copy"
    /\ res' = [res EXCEPT ![t] =
                [k \in Keys |-> IF get_bucket(k) = next_bucket[t] THEN data[k] ELSE @[k]]]
    /\ next_bucket' = [next_bucket EXCEPT ![t] = @ + 1]
    /\ tpc' = [tpc EXCEPT ![t] = IF next_bucket'[t] = num_buckets THEN "return" ELSE @]
    /\ UNCHANGED <<data, locks, tcalls>>

\* ... and the locks released when it returns.
MapReturn(t) ==
    /\ tpc[t] = "return"
    /\ tpc' = [tpc EXCEPT ![t] = "idle"]
    /\ locks' = [locks EXCEPT ![t] = {}]
    /\ UNCHANGED <<data, res, next_bucket, tcalls>>

-----------------------------------------------------------------------------
MapStep(t) == MapLock(t) \/ MapCopy(t) \/ MapReturn(t)

TNext ==
    \E t \in TThreads :
        \/ \E k \in Keys : value_for(t, k) \/ remove_mapping(t, k)
        \/ \E k \in Keys, v \in TValues : add_or_update_mapping(t, k, v)
        \/ MapBegin(t) \/ MapStep(t)

TSpec == TInit /\ [][TNext]_tVars

-----------------------------------------------------------------------------
\* get_map returns a state of the whole table and no mixture of two, though other
\* threads change buckets on both sides of the one being copied: when it returns,
\* the copy is what the table holds (dataStructures.hpp:407).
SnapshotIsState == \A t \in TThreads : tpc[t] = "return" => res[t] = data

\* "To prevent cross-thread deadlocks, locks must be acquired in strict ascending
\* index order" (dataStructures.hpp:412): several get_map at once all return.
MapsReturn == \A t \in TThreads : (tpc[t] # "idle") ~> (tpc[t] = "idle")
=============================================================================
