-------------------------------- MODULE Rcu --------------------------------
(***************************************************************************)
(* modern_cpp_core/data_structures/rcu.hpp: epoch based RCU.  Threads open *)
(* and close scoped_rcu_readers, read an RcuPtr inside them, and update    *)
(* it: swap the pointer, wait for a grace period, delete the old object.   *)
(* Every domain has one RcuPtr.  One action per access to an atomic; the   *)
(* accesses that order readers against writers are seq_cst or acquire and  *)
(* release pairs, and are taken to interleave.                             *)
(***************************************************************************)
EXTENDS Integers, FiniteSets

CONSTANTS
    Threads,
    Domains,        \* the rcu_domain objects in use
    NumSlots,       \* kMaxRcuThreads
    MaxNest,        \* how many scoped_rcu_readers a thread may nest
    MaxObjects      \* bound: objects allocated for update

ASSUME DomainsAssumption == Domains # {}
ASSUME SlotsAssumption == NumSlots \in Nat \ {0}
ASSUME NestAssumption == MaxNest \in Nat \ {0}
ASSUME ObjectsAssumption == MaxObjects \in Nat

Slot == 0 .. NumSlots - 1
NoSlot == -1
Null == 0                       \* nullptr; objects are numbered from 1
Level == 1 .. MaxNest
AnyDomain == CHOOSE d \in Domains : TRUE       \* a local not yet assigned

VARIABLES
    globalEpoch,                \* m_global_epoch of each domain
    epoch, inUse,               \* the ThreadRecords of each domain
    ptr,                        \* RcuPtr::m_ptr of each domain
    ctxSlot, ctxDomain,         \* the thread_local RcuThreadContext
    depth, dom,                 \* open scoped_rcu_readers and their domains
    held,                       \* objects read inside each open reader
    pc, want, idx, myEpoch, old,\* a call in progress: its domain and locals
    objects, freed,             \* objects allocated so far, objects deleted
    waitingOn                   \* history: readers open when synchronize began

domainVars == <<globalEpoch, epoch, inUse>>
contextVars == <<ctxSlot, ctxDomain>>
readerVars == <<depth, dom, held>>
heapVars == <<objects, freed>>
vars == <<domainVars, ptr, contextVars, readerVars, pc, want, idx, myEpoch, old,
          heapVars, waitingOn>>

Init ==
    /\ globalEpoch = [d \in Domains |-> 1]
    /\ epoch = [d \in Domains |-> [s \in Slot |-> 0]]
    /\ inUse = [d \in Domains |-> [s \in Slot |-> FALSE]]
    /\ ptr = [d \in Domains |-> Null]
    /\ ctxSlot = [t \in Threads |-> NoSlot]
    /\ ctxDomain = [t \in Threads |-> AnyDomain]
    /\ depth = [t \in Threads |-> 0]
    /\ dom = [t \in Threads |-> [k \in Level |-> AnyDomain]]
    /\ held = [t \in Threads |-> [k \in Level |-> {}]]
    /\ pc = [t \in Threads |-> "run"]
    /\ want = [t \in Threads |-> AnyDomain]
    /\ idx = [t \in Threads |-> 0]
    /\ myEpoch = [t \in Threads |-> 0]
    /\ old = [t \in Threads |-> Null]
    /\ objects = 0 /\ freed = {}
    /\ waitingOn = [t \in Threads |-> {}]

-----------------------------------------------------------------------------
(* get_rcu_thread_context and register_thread: the first reader of a thread *)
(* registers it, with whichever domain that reader names.                   *)

\* The scoped_rcu_reader constructor: look up the thread_local context.
Enter(t, d) ==
    /\ pc[t] = "run"
    /\ depth[t] < MaxNest
    /\ want' = [want EXCEPT ![t] = d]
    /\ idx' = [idx EXCEPT ![t] = 0]
    /\ pc' = [pc EXCEPT ![t] = IF ctxSlot[t] = NoSlot THEN "register" ELSE "load"]
    /\ UNCHANGED <<domainVars, ptr, contextVars, readerVars, myEpoch, old, heapVars, waitingOn>>

\* compare_exchange_strong on in_use of record i succeeds ...
RegisterTake(t) ==
    /\ pc[t] = "register"
    /\ idx[t] < NumSlots
    /\ ~inUse[want[t]][idx[t]]
    /\ inUse' = [inUse EXCEPT ![want[t]][idx[t]] = TRUE]
    /\ pc' = [pc EXCEPT ![t] = "clear"]
    /\ UNCHANGED <<globalEpoch, epoch, ptr, contextVars, readerVars, want, idx, myEpoch, old, heapVars, waitingOn>>

\* ... or fails, and the next record is tried.
RegisterBusy(t) ==
    /\ pc[t] = "register"
    /\ idx[t] < NumSlots
    /\ inUse[want[t]][idx[t]]
    /\ idx' = [idx EXCEPT ![t] = @ + 1]
    /\ UNCHANGED <<domainVars, ptr, contextVars, readerVars, pc, want, myEpoch, old, heapVars, waitingOn>>

\* All records taken: the constructor throws and there is no reader.
RegisterThrow(t) ==
    /\ pc[t] = "register"
    /\ idx[t] = NumSlots
    /\ pc' = [pc EXCEPT ![t] = "run"]
    /\ UNCHANGED <<domainVars, ptr, contextVars, readerVars, want, idx, myEpoch, old, heapVars, waitingOn>>

RegisterClear(t) ==
    /\ pc[t] = "clear"
    /\ epoch' = [epoch EXCEPT ![want[t]][idx[t]] = 0]
    /\ ctxSlot' = [ctxSlot EXCEPT ![t] = idx[t]]
    /\ ctxDomain' = [ctxDomain EXCEPT ![t] = want[t]]
    /\ pc' = [pc EXCEPT ![t] = "load"]
    /\ UNCHANGED <<globalEpoch, inUse, ptr, readerVars, want, idx, myEpoch, old, heapVars, waitingOn>>

\* ~RcuThreadContext at thread exit: unregister_thread, its two stores.
ExitClear(t) ==
    /\ pc[t] = "run"
    /\ depth[t] = 0
    /\ ctxSlot[t] # NoSlot
    /\ epoch' = [epoch EXCEPT ![ctxDomain[t]][ctxSlot[t]] = 0]
    /\ pc' = [pc EXCEPT ![t] = "unregister"]
    /\ UNCHANGED <<globalEpoch, inUse, ptr, contextVars, readerVars, want, idx, myEpoch, old, heapVars, waitingOn>>

\* A thread started later takes the name of the one that ended.
ExitRelease(t) ==
    /\ pc[t] = "unregister"
    /\ inUse' = [inUse EXCEPT ![ctxDomain[t]][ctxSlot[t]] = FALSE]
    /\ ctxSlot' = [ctxSlot EXCEPT ![t] = NoSlot]
    /\ pc' = [pc EXCEPT ![t] = "run"]
    /\ UNCHANGED <<globalEpoch, epoch, ptr, ctxDomain, readerVars, want, idx, myEpoch, old, heapVars, waitingOn>>

-----------------------------------------------------------------------------
(* rcu_domain::lock and unlock, by scoped_rcu_reader; RcuPtr::read. *)

LockLoad(t) ==
    /\ pc[t] = "load"
    /\ myEpoch' = [myEpoch EXCEPT ![t] = globalEpoch[want[t]]]
    /\ pc' = [pc EXCEPT ![t] = "exchange"]
    /\ UNCHANGED <<domainVars, ptr, contextVars, readerVars, want, idx, old, heapVars, waitingOn>>

\* Mutant: the epoch is not published.
LockExchangeLost(t) ==
    LET k == depth[t] + 1 IN
    /\ pc[t] = "exchange"
    /\ depth' = [depth EXCEPT ![t] = k]
    /\ dom' = [dom EXCEPT ![t][k] = want[t]]
    /\ held' = [held EXCEPT ![t][k] = {}]
    /\ pc' = [pc EXCEPT ![t] = "run"]
    /\ myEpoch' = [myEpoch EXCEPT ![t] = 0]
    /\ UNCHANGED <<domainVars, ptr, contextVars, want, idx, old, heapVars, waitingOn>>

LockExchange(t) ==
    LET k == depth[t] + 1 IN
    /\ pc[t] = "exchange"
    /\ epoch' = [epoch EXCEPT ![want[t]][ctxSlot[t]] = myEpoch[t]]
    /\ depth' = [depth EXCEPT ![t] = k]
    /\ dom' = [dom EXCEPT ![t][k] = want[t]]
    /\ held' = [held EXCEPT ![t][k] = {}]
    /\ pc' = [pc EXCEPT ![t] = "run"]
    /\ myEpoch' = [myEpoch EXCEPT ![t] = 0]
    /\ UNCHANGED <<globalEpoch, inUse, ptr, contextVars, want, idx, old, heapVars, waitingOn>>

\* read() inside the k-th open reader; what it returns may be used until that one closes.
Read(t, k) ==
    /\ pc[t] = "run"
    /\ k <= depth[t]
    /\ ptr[dom[t][k]] # Null
    /\ held' = [held EXCEPT ![t][k] = @ \cup {ptr[dom[t][k]]}]
    /\ UNCHANGED <<domainVars, ptr, contextVars, depth, dom, pc, want, idx, myEpoch, old, heapVars, waitingOn>>

\* Mutant: the epoch is not cleared.
UnlockKeepsEpoch(t) ==
    LET k == depth[t] IN
    /\ pc[t] = "run"
    /\ k > 0
    /\ depth' = [depth EXCEPT ![t] = k - 1]
    /\ held' = [held EXCEPT ![t][k] = {}]
    /\ waitingOn' = [u \in Threads |-> waitingOn[u] \ {<<t, k>>}]
    /\ UNCHANGED <<domainVars, ptr, contextVars, dom, pc, want, idx, myEpoch, old, heapVars>>

\* ~scoped_rcu_reader of the innermost reader.
Unlock(t) ==
    LET k == depth[t] IN
    /\ pc[t] = "run"
    /\ k > 0
    /\ epoch' = [epoch EXCEPT ![dom[t][k]][ctxSlot[t]] = 0]
    /\ depth' = [depth EXCEPT ![t] = k - 1]
    /\ held' = [held EXCEPT ![t][k] = {}]
    /\ waitingOn' = [u \in Threads |-> waitingOn[u] \ {<<t, k>>}]
    /\ UNCHANGED <<globalEpoch, inUse, ptr, contextVars, dom, pc, want, idx, myEpoch, old, heapVars>>

-----------------------------------------------------------------------------
(* RcuPtr::update and rcu_domain::synchronize.  The caller is outside any  *)
(* reader (inside one, synchronize would wait for its own thread).         *)

\* Mutant: nothing is deleted when the new pointer is null.
UpdateSwapLeaks(t, d, fresh) ==
    /\ pc[t] = "run"
    /\ depth[t] = 0
    /\ fresh => objects < MaxObjects
    /\ objects' = IF fresh THEN objects + 1 ELSE objects
    /\ ptr' = [ptr EXCEPT ![d] = IF fresh THEN objects + 1 ELSE Null]
    /\ old' = [old EXCEPT ![t] = IF fresh THEN ptr[d] ELSE Null]
    /\ want' = [want EXCEPT ![t] = d]
    /\ pc' = [pc EXCEPT ![t] = IF ptr[d] = Null \/ ~fresh THEN "run" ELSE "advance"]
    /\ UNCHANGED <<domainVars, contextVars, readerVars, idx, myEpoch, freed, waitingOn>>

\* Exchange the pointer for a new object, or for nullptr.
UpdateSwap(t, d, fresh) ==
    /\ pc[t] = "run"
    /\ depth[t] = 0
    /\ fresh => objects < MaxObjects
    /\ objects' = IF fresh THEN objects + 1 ELSE objects
    /\ ptr' = [ptr EXCEPT ![d] = IF fresh THEN objects + 1 ELSE Null]
    /\ old' = [old EXCEPT ![t] = ptr[d]]
    /\ want' = [want EXCEPT ![t] = d]
    /\ pc' = [pc EXCEPT ![t] = IF ptr[d] = Null THEN "run" ELSE "advance"]
    /\ UNCHANGED <<domainVars, contextVars, readerVars, idx, myEpoch, freed, waitingOn>>

SyncAdvance(t) ==
    LET d == want[t] IN
    /\ pc[t] = "advance"
    /\ globalEpoch' = [globalEpoch EXCEPT ![d] = @ + 1]
    /\ myEpoch' = [myEpoch EXCEPT ![t] = globalEpoch[d] + 1]
    /\ idx' = [idx EXCEPT ![t] = 0]
    /\ pc' = [pc EXCEPT ![t] = "inUse"]
    /\ waitingOn' = [waitingOn EXCEPT ![t] =
           {r \in Threads \X Level : r[2] <= depth[r[1]] /\ dom[r[1]][r[2]] = d}]
    /\ UNCHANGED <<epoch, inUse, ptr, contextVars, readerVars, want, old, heapVars>>

\* Record i is in use: spin on its epoch.
SyncInUse(t) ==
    /\ pc[t] = "inUse"
    /\ idx[t] < NumSlots
    /\ inUse[want[t]][idx[t]]
    /\ pc' = [pc EXCEPT ![t] = "spin"]
    /\ UNCHANGED <<domainVars, ptr, contextVars, readerVars, want, idx, myEpoch, old, heapVars, waitingOn>>

\* It is not: skip it.
SyncSkip(t) ==
    /\ pc[t] = "inUse"
    /\ idx[t] < NumSlots
    /\ ~inUse[want[t]][idx[t]]
    /\ idx' = [idx EXCEPT ![t] = @ + 1]
    /\ UNCHANGED <<domainVars, ptr, contextVars, readerVars, pc, want, myEpoch, old, heapVars, waitingOn>>

\* Mutant: the epoch before the increment is good enough.
SyncSpinEarly(t) ==
    LET e == epoch[want[t]][idx[t]] IN
    /\ pc[t] = "spin"
    /\ e = 0 \/ e + 1 >= myEpoch[t]
    /\ idx' = [idx EXCEPT ![t] = @ + 1]
    /\ pc' = [pc EXCEPT ![t] = "inUse"]
    /\ UNCHANGED <<domainVars, ptr, contextVars, readerVars, want, myEpoch, old, heapVars, waitingOn>>

\* Leave the spin loop of record i; an iteration that yields changes nothing.
SyncSpin(t) ==
    LET e == epoch[want[t]][idx[t]] IN
    /\ pc[t] = "spin"
    /\ e = 0 \/ e >= myEpoch[t]
    /\ idx' = [idx EXCEPT ![t] = @ + 1]
    /\ pc' = [pc EXCEPT ![t] = "inUse"]
    /\ UNCHANGED <<domainVars, ptr, contextVars, readerVars, want, myEpoch, old, heapVars, waitingOn>>

\* synchronize has returned.
UpdateDelete(t) ==
    /\ pc[t] = "inUse"
    /\ idx[t] = NumSlots
    /\ freed' = freed \cup {old[t]}
    /\ old' = [old EXCEPT ![t] = Null]
    /\ pc' = [pc EXCEPT ![t] = "run"]
    /\ idx' = [idx EXCEPT ![t] = 0]
    /\ myEpoch' = [myEpoch EXCEPT ![t] = 0]
    /\ UNCHANGED <<domainVars, ptr, contextVars, readerVars, want, objects, waitingOn>>

-----------------------------------------------------------------------------
\* The steps of calls in progress.
Step(t) ==
    \/ RegisterTake(t) \/ RegisterBusy(t) \/ RegisterThrow(t) \/ RegisterClear(t)
    \/ ExitRelease(t)
    \/ LockLoad(t) \/ LockExchange(t)
    \/ SyncAdvance(t) \/ SyncInUse(t) \/ SyncSkip(t) \/ SyncSpin(t) \/ UpdateDelete(t)

\* What a thread may start.
Call(t) ==
    \/ \E d \in Domains : Enter(t, d)
    \/ \E k \in Level : Read(t, k)
    \/ Unlock(t)
    \/ ExitClear(t)
    \/ \E d \in Domains, fresh \in BOOLEAN : UpdateSwap(t, d, fresh)

Next == \E t \in Threads : Step(t) \/ Call(t)

Spec == Init /\ [][Next]_vars

\* Threads keep running, and a reader is closed some time.
Fairness == \A t \in Threads : WF_vars(Step(t)) /\ WF_vars(Unlock(t))

FairSpec == Spec /\ Fairness

-----------------------------------------------------------------------------
\* Types of the members of rcu_domain, RcuPtr and the thread contexts.
TypeOK ==
    /\ globalEpoch \in [Domains -> Nat \ {0}]
    /\ epoch \in [Domains -> [Slot -> Nat]]
    /\ inUse \in [Domains -> [Slot -> BOOLEAN]]
    /\ ptr \in [Domains -> Nat]
    /\ ctxSlot \in [Threads -> Slot \cup {NoSlot}]
    /\ ctxDomain \in [Threads -> Domains]
    /\ depth \in [Threads -> 0 .. MaxNest]
    /\ dom \in [Threads -> [Level -> Domains]]
    /\ held \in [Threads -> [Level -> SUBSET (Nat \ {Null})]]
    /\ pc \in [Threads -> {"run", "register", "clear", "load", "exchange", "unregister",
                           "advance", "inUse", "spin"}]
    /\ want \in [Threads -> Domains]
    /\ idx \in [Threads -> 0 .. NumSlots]
    /\ myEpoch \in [Threads -> Nat]
    /\ old \in [Threads -> Nat]
    /\ objects \in Nat
    /\ freed \in SUBSET (Nat \ {Null})
    /\ waitingOn \in [Threads -> SUBSET (Threads \X Level)]

\* synchronize returns only when every reader that was open when it began has
\* been closed (rcu.hpp:81).
GracePeriod ==
    \A t \in Threads : pc[t] = "inUse" /\ idx[t] = NumSlots => waitingOn[t] = {}

\* What read() returned inside a reader is not deleted before that reader closes.
NoUseAfterFree ==
    \A t \in Threads, k \in Level : held[t][k] \cap freed = {}

\* Of every object there is exactly one owner: the RcuPtr, an update that will
\* delete it, or nobody once it is deleted.  Nothing leaks, nothing is deleted twice.
OneOwner ==
    \A o \in 1 .. objects :
        Cardinality({d \in Domains : ptr[d] = o})
        + Cardinality({t \in Threads : old[t] = o})
        + (IF o \in freed THEN 1 ELSE 0) = 1

\* An update whose readers all close returns, however many new readers come.
UpdateReturns == \A t \in Threads : pc[t] = "advance" ~> pc[t] = "run"
=============================================================================
