----------------------------- MODULE RcuProofs -----------------------------
(***************************************************************************)
(* The grace period of Rcu, and with it the absence of uses after free,    *)
(* for any number of threads, records and objects.  Both hold for threads  *)
(* that do not nest readers and use one domain (Discipline); the run       *)
(* rcu_nested shows that the first condition cannot be dropped.            *)
(***************************************************************************)
EXTENDS Rcu, FiniteSetTheorems, TLAPS

Discipline == MaxNest = 1 /\ \A d, e \in Domains : d = e

\* The one domain, and its state.
D == AnyDomain
E(s) == epoch[D][s]

\* A thread owns a record from the successful compare_exchange on.
Owns(t, s) == ctxSlot[t] = s \/ (pc[t] = "clear" /\ idx[t] = s)

Syncing(t) == pc[t] \in {"inUse", "spin"}

\* Where each thread is: a reader is registered, a caller is outside readers.
Place(t) ==
    /\ want[t] = D /\ dom[t][1] = D /\ ctxDomain[t] = D
    /\ pc[t] # "run" => depth[t] = 0
    /\ pc[t] \in {"register", "clear"} => ctxSlot[t] = NoSlot
    /\ pc[t] \in {"load", "exchange", "unregister"} => ctxSlot[t] # NoSlot
    /\ pc[t] \in {"clear", "spin"} => idx[t] < NumSlots
    /\ depth[t] = 1 => ctxSlot[t] # NoSlot
    /\ depth[t] = 0 => held[t][1] = {}

Places == \A t \in Threads : Place(t)

\* A record with an owner is in use, and has no other owner.
Slots ==
    \A t \in Threads, s \in Slot :
        Owns(t, s) => inUse[D][s] /\ \A u \in Threads : Owns(u, s) => u = t

\* Epochs in the hands of readers are not newer than the domain's.
Epochs ==
    \A t \in Threads :
        /\ depth[t] = 1 => E(ctxSlot[t]) > 0 /\ E(ctxSlot[t]) <= globalEpoch[D]
        /\ pc[t] = "exchange" => myEpoch[t] > 0 /\ myEpoch[t] <= globalEpoch[D]

\* Objects have one owner; readers hold only objects not deleted.
Heap ==
    /\ freed \subseteq 1 .. objects
    /\ ptr[D] <= objects /\ ptr[D] \notin freed
    /\ \A t \in Threads :
        /\ old[t] <= objects
        /\ old[t] # Null <=> Syncing(t) \/ pc[t] = "advance"
        /\ old[t] \notin freed
        /\ old[t] # Null => ptr[D] # old[t]
        /\ \A u \in Threads : old[t] # Null /\ old[u] = old[t] => u = t
        /\ held[t][1] \subseteq (1 .. objects) \ freed

\* A reader that synchronize waits for, or that holds the object about to be
\* deleted, has an older epoch in a record synchronize has yet to pass.
Waits ==
    \A u, t \in Threads :
        Syncing(u) /\ (<<t, 1>> \in waitingOn[u] \/ old[u] \in held[t][1])
            => /\ depth[t] = 1
               /\ E(ctxSlot[t]) < myEpoch[u]
               /\ ctxSlot[t] >= idx[u]

IInv == TypeOK /\ Places /\ Slots /\ Epochs /\ Heap /\ Waits

-----------------------------------------------------------------------------
\* A new domain has no readers, no objects and no writer.
LEMMA InitIInv ==
    ASSUME Discipline
    PROVE  Init => IInv
<1> SUFFICES ASSUME Init PROVE IInv
    OBVIOUS
<1> USE DomainsAssumption, SlotsAssumption DEF Discipline, Init, Level, Slot, D, NoSlot, Null
<1>1. AnyDomain \in Domains
    BY DEF AnyDomain, D
<1>2. TypeOK
    BY <1>1 DEF TypeOK
<1>3. Places /\ Slots /\ Epochs /\ Heap /\ Waits
    BY <1>1 DEF Places, Place, Slots, Owns, Epochs, Heap, Waits, Syncing
<1> QED BY <1>2, <1>3 DEF IInv

\* A thread whose place in a reader and whose wait are not touched.
Same(u) ==
    /\ pc'[u] = pc[u] /\ depth'[u] = depth[u] /\ held'[u] = held[u]
    /\ ctxSlot'[u] = ctxSlot[u] /\ old'[u] = old[u]
    /\ myEpoch'[u] = myEpoch[u] /\ idx'[u] = idx[u]

\* Every access of a reader, a writer or a thread's registration keeps the invariant.
LEMMA NextIInv ==
    ASSUME Discipline
    PROVE  IInv /\ [Next]_vars => IInv'
<1> SUFFICES ASSUME IInv, [Next]_vars PROVE IInv'
    OBVIOUS
<1> USE DomainsAssumption, SlotsAssumption
    DEF IInv, domainVars, contextVars, readerVars, heapVars
<1>d. Domains = {D} /\ MaxNest = 1 /\ Level = {1} /\ D \in Domains
    BY DEF Discipline, D, AnyDomain, Level
\* Two threads share no record, so that of a reader is only written by itself.
<1>r. ASSUME NEW t \in Threads, NEW u \in Threads \ {t}, depth[u] = 1
      PROVE  ctxSlot[u] \in Slot /\ ~Owns(t, ctxSlot[u])
    BY <1>r DEF TypeOK, Places, Place, Slots, Owns
<1>e. ASSUME NEW t \in Threads,
             \A s \in Slot : Owns(t, s) \/ E(s)' = E(s),
             \A u \in Threads \ {t} : Same(u),
             depth'[t] = 1 => E(ctxSlot[t])' > 0 /\ E(ctxSlot[t])' <= globalEpoch'[D],
             pc'[t] # "exchange", globalEpoch' = globalEpoch
      PROVE  Epochs'
    BY <1>e, <1>r DEF Epochs, Same, E
\* A step of a thread that is outside readers, and not in synchronize after it.
<1>w. ASSUME NEW t \in Threads,
             depth[t] = 0 /\ ~Syncing(t)' /\ held'[t][1] = {},
             UNCHANGED waitingOn /\ \A s \in Slot : Owns(t, s) \/ E(s)' = E(s),
             \A u \in Threads \ {t} : Same(u)
      PROVE  Waits'
    <2> SUFFICES ASSUME NEW u \in Threads, NEW v \in Threads, Syncing(u)',
                        <<v, 1>> \in waitingOn'[u] \/ old'[u] \in held'[v][1]
                 PROVE  (depth[v] = 1 /\ E(ctxSlot[v]) < myEpoch[u] /\ ctxSlot[v] >= idx[u])'
        BY DEF Waits
    <2>1. u # t /\ Same(u) /\ Syncing(u)
        BY <1>w DEF Same, Syncing
    <2>2. v # t /\ Same(v)
        BY <1>w, <2>1 DEF Same, Waits
    <2>3. depth[v] = 1 /\ E(ctxSlot[v]) < myEpoch[u] /\ ctxSlot[v] >= idx[u]
        BY <1>w, <2>1, <2>2 DEF Same, Waits
    <2>4. ctxSlot[v] \in Slot /\ ~Owns(t, ctxSlot[v])
        BY <1>r, <2>2, <2>3
    <2>5. E(ctxSlot[v])' = E(ctxSlot[v])
        BY <1>w, <2>2, <2>4 DEF Same, E
    <2> QED BY <2>1, <2>2, <2>3, <2>5 DEF Same
<1>1. ASSUME NEW t \in Threads, NEW d \in Domains, Enter(t, d) PROVE IInv'
    <2> USE <1>1 DEF Enter
    <2>1. TypeOK'
        <3>1. want' \in [Threads -> Domains]
            BY <1>d DEF TypeOK, Places, Place, Slot, NoSlot, Null
        <3>2. idx' \in [Threads -> 0 .. NumSlots]
            BY <1>d DEF TypeOK, Places, Place, Slot, NoSlot, Null
        <3> QED BY <3>1, <3>2 DEF TypeOK
    <2>2. Places'
        BY <1>d DEF TypeOK, Places, Place, Slot, NoSlot, Null
    <2>3. Slots'
        BY <1>d DEF TypeOK, Places, Place, Slots, Owns, Slot, NoSlot, Null
    <2>4. Epochs'
        BY <1>d DEF TypeOK, Places, Place, Slots, Owns, Epochs, E, Slot, NoSlot, Null
    <2>5. Heap'
        BY <1>d DEF TypeOK, Places, Place, Heap, Syncing, Slot, NoSlot, Null
    <2>6. Waits'
        <3>1. depth[t] = 0 /\ ~Syncing(t)' /\ held'[t][1] = {}
            BY <1>d DEF TypeOK, Places, Place, Syncing, Slot, NoSlot
        <3>2. /\ UNCHANGED waitingOn
              /\ \A s \in Slot : Owns(t, s) \/ E(s)' = E(s)
            BY <1>d DEF TypeOK, Places, Place, Owns, E, Slot
        <3>3. \A u \in Threads \ {t} : Same(u)
            BY <1>d DEF TypeOK, Places, Place, Same
        <3> QED BY <1>w, <3>1, <3>2, <3>3
    <2> QED BY <2>1, <2>2, <2>3, <2>4, <2>5, <2>6
<1>2. ASSUME NEW t \in Threads, RegisterTake(t) PROVE IInv'
    <2> USE <1>2 DEF RegisterTake
    <2>1. TypeOK'
        BY <1>d DEF TypeOK, Places, Place, Slot, NoSlot, Null
    <2>2. Places'
        BY <1>d DEF TypeOK, Places, Place, Slot, NoSlot, Null
    <2>3. Slots'
        <3>1. \A u \in Threads, s \in Slot : Owns(u, s)' <=> Owns(u, s) \/ (u = t /\ s = idx[t])
            BY <1>d DEF TypeOK, Places, Place, Owns, Slot, NoSlot
        <3>2. \A s \in Slot : inUse'[D][s] <=> inUse[D][s] \/ s = idx[t]
            BY <1>d DEF TypeOK, Places, Place, Slot
        <3>3. idx[t] \in Slot /\ \A u \in Threads : ~Owns(u, idx[t])
            BY <1>d DEF TypeOK, Places, Place, Slots, Slot
        <3> QED BY <3>1, <3>2, <3>3 DEF Slots
    <2>4. Epochs'
        BY <1>d DEF TypeOK, Places, Place, Slots, Owns, Epochs, E, Slot, NoSlot, Null
    <2>5. Heap'
        BY <1>d DEF TypeOK, Places, Place, Heap, Syncing, Slot, NoSlot, Null
    <2>6. Waits'
        <3>1. depth[t] = 0 /\ ~Syncing(t)' /\ held'[t][1] = {}
            BY <1>d DEF TypeOK, Places, Place, Syncing, Slot, NoSlot
        <3>2. /\ UNCHANGED waitingOn
              /\ \A s \in Slot : Owns(t, s) \/ E(s)' = E(s)
            BY <1>d DEF TypeOK, Places, Place, Owns, E, Slot
        <3>3. \A u \in Threads \ {t} : Same(u)
            BY <1>d DEF TypeOK, Places, Place, Same
        <3> QED BY <1>w, <3>1, <3>2, <3>3
    <2> QED BY <2>1, <2>2, <2>3, <2>4, <2>5, <2>6
<1>3. ASSUME NEW t \in Threads, RegisterBusy(t) PROVE IInv'
    <2> USE <1>3 DEF RegisterBusy
    <2>1. TypeOK'
        <3>1. idx' \in [Threads -> 0 .. NumSlots]
            BY <1>d DEF TypeOK, Places, Place, Slot, NoSlot, Null
        <3> QED BY <3>1 DEF TypeOK
    <2>2. Places'
        BY <1>d DEF TypeOK, Places, Place, Slot, NoSlot, Null
    <2>3. Slots'
        BY <1>d DEF TypeOK, Places, Place, Slots, Owns, Slot, NoSlot, Null
    <2>4. Epochs'
        BY <1>d DEF TypeOK, Places, Place, Slots, Owns, Epochs, E, Slot, NoSlot, Null
    <2>5. Heap'
        BY <1>d DEF TypeOK, Places, Place, Heap, Syncing, Slot, NoSlot, Null
    <2>6. Waits'
        <3>1. depth[t] = 0 /\ ~Syncing(t)' /\ held'[t][1] = {}
            BY <1>d DEF TypeOK, Places, Place, Syncing, Slot, NoSlot
        <3>2. /\ UNCHANGED waitingOn
              /\ \A s \in Slot : Owns(t, s) \/ E(s)' = E(s)
            BY <1>d DEF TypeOK, Places, Place, Owns, E, Slot
        <3>3. \A u \in Threads \ {t} : Same(u)
            BY <1>d DEF TypeOK, Places, Place, Same
        <3> QED BY <1>w, <3>1, <3>2, <3>3
    <2> QED BY <2>1, <2>2, <2>3, <2>4, <2>5, <2>6
<1>4. ASSUME NEW t \in Threads, RegisterThrow(t) PROVE IInv'
    <2> USE <1>4 DEF RegisterThrow
    <2>1. TypeOK'
        BY <1>d DEF TypeOK, Places, Place, Slot, NoSlot, Null
    <2>2. Places'
        BY <1>d DEF TypeOK, Places, Place, Slot, NoSlot, Null
    <2>3. Slots'
        BY <1>d DEF TypeOK, Places, Place, Slots, Owns, Slot, NoSlot, Null
    <2>4. Epochs'
        BY <1>d DEF TypeOK, Places, Place, Slots, Owns, Epochs, E, Slot, NoSlot, Null
    <2>5. Heap'
        BY <1>d DEF TypeOK, Places, Place, Heap, Syncing, Slot, NoSlot, Null
    <2>6. Waits'
        <3>1. depth[t] = 0 /\ ~Syncing(t)' /\ held'[t][1] = {}
            BY <1>d DEF TypeOK, Places, Place, Syncing, Slot, NoSlot
        <3>2. /\ UNCHANGED waitingOn
              /\ \A s \in Slot : Owns(t, s) \/ E(s)' = E(s)
            BY <1>d DEF TypeOK, Places, Place, Owns, E, Slot
        <3>3. \A u \in Threads \ {t} : Same(u)
            BY <1>d DEF TypeOK, Places, Place, Same
        <3> QED BY <1>w, <3>1, <3>2, <3>3
    <2> QED BY <2>1, <2>2, <2>3, <2>4, <2>5, <2>6
<1>5. ASSUME NEW t \in Threads, RegisterClear(t) PROVE IInv'
    <2> USE <1>5 DEF RegisterClear
    <2>1. TypeOK'
        <3>1. epoch' \in [Domains -> [Slot -> Nat]]
            BY <1>d DEF TypeOK, Places, Place, Slot, NoSlot, Null
        <3>2. ctxSlot' \in [Threads -> Slot \cup {NoSlot}]
            BY <1>d DEF TypeOK, Places, Place, Slot, NoSlot, Null
        <3>3. ctxDomain' \in [Threads -> Domains]
            BY <1>d DEF TypeOK, Places, Place, Slot, NoSlot, Null
        <3> QED BY <3>1, <3>2, <3>3 DEF TypeOK
    <2>2. Places'
        BY <1>d DEF TypeOK, Places, Place, Slot, NoSlot, Null
    <2>3. Slots'
        <3>1. \A u \in Threads, s \in Slot : Owns(u, s)' <=> Owns(u, s)
            <4>1. ctxSlot[t] = NoSlot /\ ctxSlot'[t] = idx[t] /\ pc[t] = "clear" /\ pc'[t] = "load"
                BY DEF TypeOK, Places, Place
            <4>2. \A u \in Threads \ {t} : ctxSlot'[u] = ctxSlot[u] /\ pc'[u] = pc[u]
                BY DEF TypeOK
            <4> QED BY <4>1, <4>2 DEF Owns, Slot, NoSlot
        <3>2. \A s \in Slot : inUse'[D][s] <=> inUse[D][s]
            BY <1>d DEF TypeOK, Places, Place, Slot
        <3> QED BY <3>1, <3>2 DEF Slots
    <2>4. Epochs'
        <3>1. \A s \in Slot : Owns(t, s) \/ E(s)' = E(s)
            BY <1>d DEF TypeOK, Places, Place, Owns, E, Slot
        <3>2. \A u \in Threads \ {t} : Same(u)
            BY <1>d DEF TypeOK, Places, Place, Same
        <3>3. /\ depth'[t] = 1 => E(ctxSlot[t])' > 0 /\ E(ctxSlot[t])' <= globalEpoch'[D]
              /\ pc'[t] # "exchange"
            BY <1>d DEF TypeOK, Places, Place, Epochs, E, Slot, NoSlot
        <3> QED BY <1>e, <3>1, <3>2, <3>3
    <2>5. Heap'
        BY <1>d DEF TypeOK, Places, Place, Heap, Syncing, Slot, NoSlot, Null
    <2>6. Waits'
        <3>1. depth[t] = 0 /\ ~Syncing(t)' /\ held'[t][1] = {}
            BY <1>d DEF TypeOK, Places, Place, Syncing, Slot, NoSlot
        <3>2. /\ UNCHANGED waitingOn
              /\ \A s \in Slot : Owns(t, s) \/ E(s)' = E(s)
            BY <1>d DEF TypeOK, Places, Place, Owns, E, Slot
        <3>3. \A u \in Threads \ {t} : Same(u)
            BY <1>d DEF TypeOK, Places, Place, Same
        <3> QED BY <1>w, <3>1, <3>2, <3>3
    <2> QED BY <2>1, <2>2, <2>3, <2>4, <2>5, <2>6
<1>6. ASSUME NEW t \in Threads, ExitClear(t) PROVE IInv'
    <2> USE <1>6 DEF ExitClear
    <2>1. TypeOK'
        BY <1>d DEF TypeOK, Places, Place, Slot, NoSlot, Null
    <2>2. Places'
        BY <1>d DEF TypeOK, Places, Place, Slot, NoSlot, Null
    <2>3. Slots'
        BY <1>d DEF TypeOK, Places, Place, Slots, Owns, Slot, NoSlot, Null
    <2>4. Epochs'
        <3>1. \A s \in Slot : Owns(t, s) \/ E(s)' = E(s)
            BY <1>d DEF TypeOK, Places, Place, Owns, E, Slot
        <3>2. \A u \in Threads \ {t} : Same(u)
            BY <1>d DEF TypeOK, Places, Place, Same
        <3>3. /\ depth'[t] = 1 => E(ctxSlot[t])' > 0 /\ E(ctxSlot[t])' <= globalEpoch'[D]
              /\ pc'[t] # "exchange"
            BY <1>d DEF TypeOK, Places, Place, Epochs, E, Slot, NoSlot
        <3> QED BY <1>e, <3>1, <3>2, <3>3
    <2>5. Heap'
        BY <1>d DEF TypeOK, Places, Place, Heap, Syncing, Slot, NoSlot, Null
    <2>6. Waits'
        <3>1. depth[t] = 0 /\ ~Syncing(t)' /\ held'[t][1] = {}
            BY <1>d DEF TypeOK, Places, Place, Syncing, Slot, NoSlot
        <3>2. /\ UNCHANGED waitingOn
              /\ \A s \in Slot : Owns(t, s) \/ E(s)' = E(s)
            BY <1>d DEF TypeOK, Places, Place, Owns, E, Slot
        <3>3. \A u \in Threads \ {t} : Same(u)
            BY <1>d DEF TypeOK, Places, Place, Same
        <3> QED BY <1>w, <3>1, <3>2, <3>3
    <2> QED BY <2>1, <2>2, <2>3, <2>4, <2>5, <2>6
<1>7. ASSUME NEW t \in Threads, ExitRelease(t) PROVE IInv'
    <2> USE <1>7 DEF ExitRelease
    <2>1. TypeOK'
        BY <1>d DEF TypeOK, Places, Place, Slot, NoSlot, Null
    <2>2. Places'
        <3>1. Place(t)'
            BY <1>d DEF TypeOK, Places, Place, Slot, NoSlot
        <3>2. \A u \in Threads \ {t} : Place(u)'
            BY <1>d DEF TypeOK, Places, Place
        <3> QED BY <3>1, <3>2 DEF Places
    <2>3. Slots'
        <3>1. \A u \in Threads, s \in Slot : Owns(u, s)' <=> Owns(u, s) /\ u # t
            BY <1>d DEF TypeOK, Places, Place, Owns, Slot, NoSlot
        <3>2. \A s \in Slot : inUse'[D][s] <=> inUse[D][s] /\ s # ctxSlot[t]
            BY <1>d DEF TypeOK, Places, Place, Slot
        <3>3. ctxSlot[t] \in Slot /\ Owns(t, ctxSlot[t])
            BY <1>d DEF TypeOK, Places, Place, Owns
        <3> QED BY <3>1, <3>2, <3>3 DEF Slots
    <2>4. Epochs'
        <3>1. \A s \in Slot : Owns(t, s) \/ E(s)' = E(s)
            BY <1>d DEF TypeOK, Places, Place, Owns, E, Slot
        <3>2. \A u \in Threads \ {t} : Same(u)
            BY <1>d DEF TypeOK, Places, Place, Same
        <3>3. /\ depth'[t] = 1 => E(ctxSlot[t])' > 0 /\ E(ctxSlot[t])' <= globalEpoch'[D]
              /\ pc'[t] # "exchange"
            BY <1>d DEF TypeOK, Places, Place, Epochs, E, Slot, NoSlot
        <3> QED BY <1>e, <3>1, <3>2, <3>3
    <2>5. Heap'
        BY <1>d DEF TypeOK, Places, Place, Heap, Syncing, Slot, NoSlot, Null
    <2>6. Waits'
        <3>1. depth[t] = 0 /\ ~Syncing(t)' /\ held'[t][1] = {}
            BY <1>d DEF TypeOK, Places, Place, Syncing, Slot, NoSlot
        <3>2. /\ UNCHANGED waitingOn
              /\ \A s \in Slot : Owns(t, s) \/ E(s)' = E(s)
            BY <1>d DEF TypeOK, Places, Place, Owns, E, Slot
        <3>3. \A u \in Threads \ {t} : Same(u)
            BY <1>d DEF TypeOK, Places, Place, Same
        <3> QED BY <1>w, <3>1, <3>2, <3>3
    <2> QED BY <2>1, <2>2, <2>3, <2>4, <2>5, <2>6
<1>8. ASSUME NEW t \in Threads, LockLoad(t) PROVE IInv'
    <2> USE <1>8 DEF LockLoad
    <2>1. TypeOK'
        BY <1>d DEF TypeOK, Places, Place, Slot, NoSlot, Null
    <2>2. Places'
        BY <1>d DEF TypeOK, Places, Place, Slot, NoSlot, Null
    <2>3. Slots'
        BY <1>d DEF TypeOK, Places, Place, Slots, Owns, Slot, NoSlot, Null
    <2>4. Epochs'
        BY <1>d DEF TypeOK, Places, Place, Slots, Owns, Epochs, E, Slot, NoSlot, Null
    <2>5. Heap'
        BY <1>d DEF TypeOK, Places, Place, Heap, Syncing, Slot, NoSlot, Null
    <2>6. Waits'
        <3>1. depth[t] = 0 /\ ~Syncing(t)' /\ held'[t][1] = {}
            BY <1>d DEF TypeOK, Places, Place, Syncing, Slot, NoSlot
        <3>2. /\ UNCHANGED waitingOn
              /\ \A s \in Slot : Owns(t, s) \/ E(s)' = E(s)
            BY <1>d DEF TypeOK, Places, Place, Owns, E, Slot
        <3>3. \A u \in Threads \ {t} : Same(u)
            BY <1>d DEF TypeOK, Places, Place, Same
        <3> QED BY <1>w, <3>1, <3>2, <3>3
    <2> QED BY <2>1, <2>2, <2>3, <2>4, <2>5, <2>6
<1>9. ASSUME NEW t \in Threads, LockExchange(t) PROVE IInv'
    <2> USE <1>9 DEF LockExchange
    <2>0. /\ depth[t] = 0 /\ ctxSlot[t] \in Slot /\ want[t] = D
          /\ epoch' = [epoch EXCEPT ![D][ctxSlot[t]] = myEpoch[t]]
          /\ depth' = [depth EXCEPT ![t] = 1]
          /\ dom' = [dom EXCEPT ![t][1] = D]
          /\ held' = [held EXCEPT ![t][1] = {}]
        <3>1. depth[t] = 0 /\ ctxSlot[t] \in Slot /\ want[t] = D
            BY <1>d DEF TypeOK, Places, Place
        <3>2. depth[t] + 1 = 1
            BY <3>1
        <3> QED BY <3>1, <3>2
    <2>1. TypeOK'
        <3>1. epoch' \in [Domains -> [Slot -> Nat]]
            BY <1>d, <2>0 DEF TypeOK, Places, Place, Slot, NoSlot, Null
        <3>2. depth' \in [Threads -> 0 .. MaxNest]
            BY <1>d, <2>0 DEF TypeOK, Places, Place, Slot, NoSlot, Null
        <3>3. dom' \in [Threads -> [Level -> Domains]]
            BY <1>d, <2>0 DEF TypeOK, Places, Place, Slot, NoSlot, Null
        <3>4. held' \in [Threads -> [Level -> SUBSET (Nat \ {Null})]]
            BY <1>d, <2>0 DEF TypeOK, Places, Place, Slot, NoSlot, Null
        <3>5. myEpoch' \in [Threads -> Nat]
            BY <1>d, <2>0 DEF TypeOK, Places, Place, Slot, NoSlot, Null
        <3> QED BY <3>1, <3>2, <3>3, <3>4, <3>5 DEF TypeOK
    <2>2. Places'
        <3>1. Place(t)'
            BY <1>d, <2>0 DEF TypeOK, Places, Place, Slot, NoSlot
        <3>2. \A u \in Threads \ {t} : Place(u)'
            BY <1>d, <2>0 DEF TypeOK, Places, Place
        <3> QED BY <3>1, <3>2 DEF Places
    <2>3. Slots'
        BY <1>d DEF TypeOK, Places, Place, Slots, Owns, Slot, NoSlot, Null
    <2>4. Epochs'
        <3>1. \A s \in Slot : Owns(t, s) \/ E(s)' = E(s)
            BY <1>d, <2>0 DEF TypeOK, Places, Place, Owns, E, Slot
        <3>2. \A u \in Threads \ {t} : Same(u)
            BY <1>d, <2>0 DEF TypeOK, Places, Place, Same
        <3>3. /\ depth'[t] = 1 => E(ctxSlot[t])' > 0 /\ E(ctxSlot[t])' <= globalEpoch'[D]
              /\ pc'[t] # "exchange"
            BY <1>d, <2>0 DEF TypeOK, Places, Place, Epochs, E, Slot, NoSlot
        <3> QED BY <1>e, <3>1, <3>2, <3>3
    <2>5. Heap'
        <3>1. \A u \in Threads : held'[u][1] \subseteq held[u][1]
            BY <1>d, <2>0 DEF TypeOK
        <3>2. \A u \in Threads : pc'[u] \in {"inUse", "spin", "advance"}
                                    <=> pc[u] \in {"inUse", "spin", "advance"}
            BY DEF TypeOK
        <3>3. ASSUME NEW u \in Threads PROVE held'[u][1] \subseteq (1 .. objects') \ freed'
            BY <3>1 DEF Heap
        <3>4. UNCHANGED <<freed, objects, ptr, old>>
            OBVIOUS
        <3> HIDE <1>9 DEF LockExchange
        <3>5. ASSUME NEW u \in Threads PROVE old'[u] # Null <=> Syncing(u)' \/ pc'[u] = "advance"
            BY <3>2, <3>4 DEF Heap, Syncing
        <3>6. ASSUME NEW u \in Threads
              PROVE  /\ old'[u] <= objects' /\ old'[u] \notin freed'
                     /\ old'[u] # Null =>
                            ptr'[D] # old'[u] /\ \A v \in Threads : old'[v] = old'[u] => v = u
            BY <3>4 DEF Heap
        <3>7. freed' \subseteq 1 .. objects' /\ ptr'[D] <= objects' /\ ptr'[D] \notin freed'
            BY <3>4 DEF Heap
        <3> QED BY <3>3, <3>5, <3>6, <3>7 DEF Heap
    <2>6. Waits'
        <3>1. depth[t] = 0 /\ ~Syncing(t)' /\ held'[t][1] = {}
            BY <1>d, <2>0 DEF TypeOK, Places, Place, Syncing, Slot, NoSlot
        <3>2. /\ UNCHANGED waitingOn
              /\ \A s \in Slot : Owns(t, s) \/ E(s)' = E(s)
            BY <1>d, <2>0 DEF TypeOK, Places, Place, Owns, E, Slot
        <3>3. \A u \in Threads \ {t} : Same(u)
            BY <1>d, <2>0 DEF TypeOK, Places, Place, Same
        <3> QED BY <1>w, <3>1, <3>2, <3>3
    <2> QED BY <2>1, <2>2, <2>3, <2>4, <2>5, <2>6
<1>10. ASSUME NEW t \in Threads, NEW k \in Level, Read(t, k) PROVE IInv'
    <2> USE <1>10 DEF Read
    <2>1. TypeOK'
        <3>1. held' \in [Threads -> [Level -> SUBSET (Nat \ {Null})]]
            BY <1>d DEF TypeOK, Places, Place, Slot, NoSlot, Null
        <3> QED BY <3>1 DEF TypeOK
    <2>2. Places'
        BY <1>d DEF TypeOK, Places, Place, Slot, NoSlot, Null
    <2>3. Slots'
        BY <1>d DEF TypeOK, Places, Place, Slots, Owns, Slot, NoSlot, Null
    <2>4. Epochs'
        BY <1>d DEF TypeOK, Places, Place, Slots, Owns, Epochs, E, Slot, NoSlot, Null
    <2>5. Heap'
        BY <1>d DEF TypeOK, Places, Place, Heap, Syncing, Slot, NoSlot, Null
    <2>6. Waits'
        <3> SUFFICES ASSUME NEW u \in Threads, NEW v \in Threads, Syncing(u)',
                            <<v, 1>> \in waitingOn'[u] \/ old'[u] \in held'[v][1]
                     PROVE  (depth[v] = 1 /\ E(ctxSlot[v]) < myEpoch[u] /\ ctxSlot[v] >= idx[u])'
            BY DEF Waits
        <3>1. Syncing(u) /\ old[u] # ptr[D] /\ (<<v, 1>> \in waitingOn[u] \/ old[u] \in held[v][1])
            BY <1>d DEF TypeOK, Places, Place, Heap, Syncing
        <3> QED BY <3>1 DEF Waits, E
    <2> QED BY <2>1, <2>2, <2>3, <2>4, <2>5, <2>6
<1>11. ASSUME NEW t \in Threads, Unlock(t) PROVE IInv'
    <2> USE <1>11 DEF Unlock
    <2>1. TypeOK'
        <3>1. epoch' \in [Domains -> [Slot -> Nat]]
            BY <1>d DEF TypeOK, Places, Place, Slot, NoSlot, Null
        <3>2. depth' \in [Threads -> 0 .. MaxNest]
            BY <1>d DEF TypeOK, Places, Place, Slot, NoSlot, Null
        <3>3. held' \in [Threads -> [Level -> SUBSET (Nat \ {Null})]]
            BY <1>d DEF TypeOK, Places, Place, Slot, NoSlot, Null
        <3>4. waitingOn' \in [Threads -> SUBSET (Threads \X Level)]
            BY <1>d DEF TypeOK, Places, Place, Slot, NoSlot, Null
        <3> QED BY <3>1, <3>2, <3>3, <3>4 DEF TypeOK
    <2>2. Places'
        BY <1>d DEF TypeOK, Places, Place, Slot, NoSlot, Null
    <2>3. Slots'
        BY <1>d DEF TypeOK, Places, Place, Slots, Owns, Slot, NoSlot, Null
    <2>4. Epochs'
        <3>1. \A s \in Slot : Owns(t, s) \/ E(s)' = E(s)
            BY <1>d DEF TypeOK, Places, Place, Owns, E, Slot
        <3>2. \A u \in Threads \ {t} : Same(u)
            BY <1>d DEF TypeOK, Places, Place, Same
        <3>3. /\ depth'[t] = 1 => E(ctxSlot[t])' > 0 /\ E(ctxSlot[t])' <= globalEpoch'[D]
              /\ pc'[t] # "exchange"
            BY <1>d DEF TypeOK, Places, Place, Epochs, E, Slot, NoSlot
        <3> QED BY <1>e, <3>1, <3>2, <3>3
    <2>5. Heap'
        BY <1>d DEF TypeOK, Places, Place, Heap, Syncing, Slot, NoSlot, Null
    <2>6. Waits'
        <3> SUFFICES ASSUME NEW u \in Threads, NEW v \in Threads, Syncing(u)',
                            <<v, 1>> \in waitingOn'[u] \/ old'[u] \in held'[v][1]
                     PROVE  (depth[v] = 1 /\ E(ctxSlot[v]) < myEpoch[u] /\ ctxSlot[v] >= idx[u])'
            BY DEF Waits
        <3>1. Syncing(u) /\ v # t /\ (<<v, 1>> \in waitingOn[u] \/ old[u] \in held[v][1])
            BY <1>d DEF TypeOK, Places, Place, Heap, Syncing
        <3>2. depth[v] = 1 /\ E(ctxSlot[v]) < myEpoch[u] /\ ctxSlot[v] >= idx[u]
            BY <3>1 DEF Waits
        <3>3. E(ctxSlot[v])' = E(ctxSlot[v])
            BY <1>d, <1>r, <3>1, <3>2 DEF TypeOK, Places, Place, Owns, E
        <3> QED BY <3>1, <3>2, <3>3 DEF TypeOK
    <2> QED BY <2>1, <2>2, <2>3, <2>4, <2>5, <2>6
<1>12. ASSUME NEW t \in Threads, NEW d \in Domains, NEW fresh \in BOOLEAN, UpdateSwap(t, d, fresh) PROVE IInv'
    <2> USE <1>12 DEF UpdateSwap
    <2>1. TypeOK'
        <3>1. ptr' \in [Domains -> Nat]
            BY <1>d DEF TypeOK, Places, Place, Slot, NoSlot, Null
        <3>2. old' \in [Threads -> Nat]
            BY <1>d DEF TypeOK, Places, Place, Slot, NoSlot, Null
        <3>3. want' \in [Threads -> Domains]
            BY <1>d DEF TypeOK, Places, Place, Slot, NoSlot, Null
        <3> QED BY <3>1, <3>2, <3>3 DEF TypeOK
    <2>2. Places'
        BY <1>d DEF TypeOK, Places, Place, Slot, NoSlot, Null
    <2>3. Slots'
        BY <1>d DEF TypeOK, Places, Place, Slots, Owns, Slot, NoSlot, Null
    <2>4. Epochs'
        BY <1>d DEF TypeOK, Places, Place, Slots, Owns, Epochs, E, Slot, NoSlot, Null
    <2>5. Heap'
        BY <1>d DEF TypeOK, Places, Place, Heap, Syncing, Slot, NoSlot, Null
    <2>6. Waits'
        <3>1. depth[t] = 0 /\ ~Syncing(t)' /\ held'[t][1] = {}
            BY <1>d DEF TypeOK, Places, Place, Syncing, Slot, NoSlot
        <3>2. /\ UNCHANGED waitingOn
              /\ \A s \in Slot : Owns(t, s) \/ E(s)' = E(s)
            BY <1>d DEF TypeOK, Places, Place, Owns, E, Slot
        <3>3. \A u \in Threads \ {t} : Same(u)
            BY <1>d DEF TypeOK, Places, Place, Same
        <3> QED BY <1>w, <3>1, <3>2, <3>3
    <2> QED BY <2>1, <2>2, <2>3, <2>4, <2>5, <2>6
<1>13. ASSUME NEW t \in Threads, SyncAdvance(t) PROVE IInv'
    <2> USE <1>13 DEF SyncAdvance
    <2>1. TypeOK'
        <3>1. globalEpoch' \in [Domains -> Nat \ {0}]
            BY <1>d DEF TypeOK, Places, Place, Slot, NoSlot, Null
        <3>2. myEpoch' \in [Threads -> Nat]
            BY <1>d DEF TypeOK, Places, Place, Slot, NoSlot, Null
        <3>3. idx' \in [Threads -> 0 .. NumSlots]
            BY <1>d DEF TypeOK, Places, Place, Slot, NoSlot, Null
        <3>4. waitingOn' \in [Threads -> SUBSET (Threads \X Level)]
            BY <1>d DEF TypeOK, Places, Place, Slot, NoSlot, Null
        <3> QED BY <3>1, <3>2, <3>3, <3>4 DEF TypeOK
    <2>2. Places'
        BY <1>d DEF TypeOK, Places, Place, Slot, NoSlot, Null
    <2>3. Slots'
        BY <1>d DEF TypeOK, Places, Place, Slots, Owns, Slot, NoSlot, Null
    <2>4. Epochs'
        BY <1>d DEF TypeOK, Places, Place, Slots, Owns, Epochs, E, Slot, NoSlot, Null
    <2>5. Heap'
        BY <1>d DEF TypeOK, Places, Place, Heap, Syncing, Slot, NoSlot, Null
    <2>6. Waits'
        <3> SUFFICES ASSUME NEW u \in Threads, NEW v \in Threads, Syncing(u)',
                            <<v, 1>> \in waitingOn'[u] \/ old'[u] \in held'[v][1]
                     PROVE  (depth[v] = 1 /\ E(ctxSlot[v]) < myEpoch[u] /\ ctxSlot[v] >= idx[u])'
            BY DEF Waits
        <3>1. CASE u # t
            BY <3>1 DEF TypeOK, Waits, Syncing, E
        <3>2. CASE u = t
            <4>1. depth[v] = 1 /\ ctxSlot[v] \in Slot
                BY <1>d, <3>2 DEF TypeOK, Places, Place, Slot, NoSlot
            <4>2. E(ctxSlot[v]) <= globalEpoch[D] /\ E(ctxSlot[v]) \in Nat
                BY <1>d, <4>1 DEF TypeOK, Epochs, E
            <4> QED BY <1>d, <3>2, <4>1, <4>2 DEF TypeOK, Places, Place, E, Slot
        <3> QED BY <3>1, <3>2
    <2> QED BY <2>1, <2>2, <2>3, <2>4, <2>5, <2>6
<1>14. ASSUME NEW t \in Threads, SyncInUse(t) PROVE IInv'
    <2> USE <1>14 DEF SyncInUse
    <2>1. TypeOK'
        BY <1>d DEF TypeOK, Places, Place, Slot, NoSlot, Null
    <2>2. Places'
        BY <1>d DEF TypeOK, Places, Place, Slot, NoSlot, Null
    <2>3. Slots'
        BY <1>d DEF TypeOK, Places, Place, Slots, Owns, Slot, NoSlot, Null
    <2>4. Epochs'
        BY <1>d DEF TypeOK, Places, Place, Slots, Owns, Epochs, E, Slot, NoSlot, Null
    <2>5. Heap'
        BY <1>d DEF TypeOK, Places, Place, Heap, Syncing, Slot, NoSlot, Null
    <2>6. Waits'
        BY DEF TypeOK, Waits, Syncing, E
    <2> QED BY <2>1, <2>2, <2>3, <2>4, <2>5, <2>6
<1>15. ASSUME NEW t \in Threads, SyncSkip(t) PROVE IInv'
    <2> USE <1>15 DEF SyncSkip
    <2>1. TypeOK'
        BY <1>d DEF TypeOK, Places, Place, Slot, NoSlot, Null
    <2>2. Places'
        BY <1>d DEF TypeOK, Places, Place, Slot, NoSlot, Null
    <2>3. Slots'
        BY <1>d DEF TypeOK, Places, Place, Slots, Owns, Slot, NoSlot, Null
    <2>4. Epochs'
        BY <1>d DEF TypeOK, Places, Place, Slots, Owns, Epochs, E, Slot, NoSlot, Null
    <2>5. Heap'
        BY <1>d DEF TypeOK, Places, Place, Heap, Syncing, Slot, NoSlot, Null
    <2>6. Waits'
        <3> SUFFICES ASSUME NEW u \in Threads, NEW v \in Threads, Syncing(u)',
                            <<v, 1>> \in waitingOn'[u] \/ old'[u] \in held'[v][1]
                     PROVE  (depth[v] = 1 /\ E(ctxSlot[v]) < myEpoch[u] /\ ctxSlot[v] >= idx[u])'
            BY DEF Waits
        <3>1. CASE u # t
            BY <3>1 DEF TypeOK, Waits, Syncing, E
        <3>2. CASE u = t
            <4>1. depth[v] = 1 /\ E(ctxSlot[v]) < myEpoch[u] /\ ctxSlot[v] >= idx[u]
                BY <3>2 DEF TypeOK, Waits, Syncing
            <4>2. Owns(v, ctxSlot[v]) /\ ctxSlot[v] \in Slot
                BY <4>1 DEF TypeOK, Places, Place, Owns
            <4>3. ctxSlot[v] # idx[t]
                BY <3>2, <4>2 DEF TypeOK, Places, Place, Slots
            <4>4. idx[t] \in Int /\ ctxSlot[v] \in Int /\ idx'[t] = idx[t] + 1
                BY <4>2 DEF TypeOK, Slot
            <4>5. ctxSlot[v] >= idx[t] + 1
                BY <3>2, <4>1, <4>3, <4>4
            <4> QED BY <3>2, <4>1, <4>4, <4>5 DEF E
        <3> QED BY <3>1, <3>2
    <2> QED BY <2>1, <2>2, <2>3, <2>4, <2>5, <2>6
<1>16. ASSUME NEW t \in Threads, SyncSpin(t) PROVE IInv'
    <2> USE <1>16 DEF SyncSpin
    <2>1. TypeOK'
        <3>1. idx' \in [Threads -> 0 .. NumSlots]
            BY <1>d DEF TypeOK, Places, Place, Slot, NoSlot, Null
        <3> QED BY <3>1 DEF TypeOK
    <2>2. Places'
        BY <1>d DEF TypeOK, Places, Place, Slot, NoSlot, Null
    <2>3. Slots'
        BY <1>d DEF TypeOK, Places, Place, Slots, Owns, Slot, NoSlot, Null
    <2>4. Epochs'
        BY <1>d DEF TypeOK, Places, Place, Slots, Owns, Epochs, E, Slot, NoSlot, Null
    <2>5. Heap'
        BY <1>d DEF TypeOK, Places, Place, Heap, Syncing, Slot, NoSlot, Null
    <2>6. Waits'
        <3> SUFFICES ASSUME NEW u \in Threads, NEW v \in Threads, Syncing(u)',
                            <<v, 1>> \in waitingOn'[u] \/ old'[u] \in held'[v][1]
                     PROVE  (depth[v] = 1 /\ E(ctxSlot[v]) < myEpoch[u] /\ ctxSlot[v] >= idx[u])'
            BY DEF Waits
        <3>1. CASE u # t
            BY <3>1 DEF TypeOK, Waits, Syncing, E
        <3>2. CASE u = t
            <4>1. depth[v] = 1 /\ E(ctxSlot[v]) < myEpoch[u] /\ ctxSlot[v] >= idx[u]
                BY <3>2 DEF TypeOK, Waits, Syncing
            <4>2. Owns(v, ctxSlot[v]) /\ ctxSlot[v] \in Slot
                BY <4>1 DEF TypeOK, Places, Place, Owns
            <4>3. ctxSlot[v] # idx[t]
                BY <1>d, <3>2, <4>1, <4>2 DEF TypeOK, Places, Place, Epochs, E
            <4>4. idx[t] \in Int /\ ctxSlot[v] \in Int /\ idx'[t] = idx[t] + 1
                BY <4>2 DEF TypeOK, Slot
            <4>5. ctxSlot[v] >= idx[t] + 1
                BY <3>2, <4>1, <4>3, <4>4
            <4> QED BY <3>2, <4>1, <4>4, <4>5 DEF E
        <3> QED BY <3>1, <3>2
    <2> QED BY <2>1, <2>2, <2>3, <2>4, <2>5, <2>6
<1>17. ASSUME NEW t \in Threads, UpdateDelete(t) PROVE IInv'
    <2> USE <1>17 DEF UpdateDelete
    <2>1. TypeOK'
        <3>1. freed' \in SUBSET (Nat \ {Null})
            <4>1. old[t] # Null /\ old[t] \in Nat
                BY DEF TypeOK, Heap, Syncing
            <4> QED BY <4>1 DEF TypeOK
        <3>2. old' \in [Threads -> Nat]
            BY <1>d DEF TypeOK, Places, Place, Slot, NoSlot, Null, Heap, Syncing
        <3>3. idx' \in [Threads -> 0 .. NumSlots]
            BY <1>d DEF TypeOK, Places, Place, Slot, NoSlot, Null, Heap, Syncing
        <3>4. myEpoch' \in [Threads -> Nat]
            BY <1>d DEF TypeOK, Places, Place, Slot, NoSlot, Null, Heap, Syncing
        <3> QED BY <3>1, <3>2, <3>3, <3>4 DEF TypeOK
    <2>2. Places'
        BY <1>d DEF TypeOK, Places, Place, Slot, NoSlot, Null
    <2>3. Slots'
        BY <1>d DEF TypeOK, Places, Place, Slots, Owns, Slot, NoSlot, Null
    <2>4. Epochs'
        BY <1>d DEF TypeOK, Places, Place, Slots, Owns, Epochs, E, Slot, NoSlot, Null
    <2>5. Heap'
        <3>1. \A v \in Threads : old[t] \notin held[v][1]
            <4> SUFFICES ASSUME NEW v \in Threads, old[t] \in held[v][1] PROVE FALSE
                OBVIOUS
            <4>1. ctxSlot[v] >= NumSlots
                BY DEF Waits, Syncing
            <4>2. ctxSlot[v] \in Int /\ ctxSlot[v] < NumSlots
                <5>1. ctxSlot[v] \in Slot \/ ctxSlot[v] = -1
                    BY DEF TypeOK, NoSlot
                <5>2. \A s \in Slot : s \in Int /\ s < NumSlots
                    BY DEF Slot
                <5>3. -1 \in Int /\ -1 < NumSlots
                    OBVIOUS
                <5> QED BY <5>1, <5>2, <5>3
            <4> QED BY <4>1, <4>2
        <3>2. \A u \in Threads : /\ old'[u] = IF u = t THEN Null ELSE old[u]
                                 /\ pc'[u] = IF u = t THEN "run" ELSE pc[u]
            BY DEF TypeOK
        <3>3. old[t] # Null /\ old[t] \in 1 .. objects /\ ptr[D] # old[t]
            BY DEF Heap, TypeOK, Syncing, Null
        <3>4. \A u \in Threads : /\ old'[u] # Null <=> Syncing(u)' \/ pc'[u] = "advance"
                                 /\ old'[u] \notin freed'
            BY <3>2, <3>3 DEF Heap, Syncing, TypeOK
        <3>5. freed' \subseteq 1 .. objects' /\ ptr'[D] <= objects' /\ ptr'[D] \notin freed'
            BY <3>3 DEF Heap
        <3>6. ASSUME NEW u \in Threads PROVE old'[u] <= objects' /\ held'[u][1] \subseteq (1 .. objects') \ freed'
            BY <3>1, <3>2 DEF Heap, TypeOK, Null
        <3>7. ASSUME NEW u \in Threads, old'[u] # Null
              PROVE  ptr'[D] # old'[u] /\ \A v \in Threads : old'[v] = old'[u] => v = u
            BY <3>2, <3>7 DEF Heap
        <3> QED BY <3>4, <3>5, <3>6, <3>7 DEF Heap
    <2>6. Waits'
        <3>1. depth[t] = 0 /\ ~Syncing(t)' /\ held'[t][1] = {}
            BY <1>d DEF TypeOK, Places, Place, Syncing, Slot, NoSlot
        <3>2. /\ UNCHANGED waitingOn
              /\ \A s \in Slot : Owns(t, s) \/ E(s)' = E(s)
            BY <1>d DEF TypeOK, Places, Place, Owns, E, Slot
        <3>3. \A u \in Threads \ {t} : Same(u)
            BY <1>d DEF TypeOK, Places, Place, Same
        <3> QED BY <1>w, <3>1, <3>2, <3>3
    <2> QED BY <2>1, <2>2, <2>3, <2>4, <2>5, <2>6
<1>18. ASSUME UNCHANGED vars PROVE IInv'
    BY <1>18 DEF vars, TypeOK, Places, Place, Slots, Owns, Epochs, E, Heap, Syncing, Waits
<1> QED
    BY <1>1, <1>2, <1>3, <1>4, <1>5, <1>6, <1>7, <1>8, <1>9, <1>10, <1>11, <1>12, <1>13, <1>14, <1>15, <1>16, <1>17, <1>18 DEF Next, Step, Call

\* The invariant holds in every reachable state.
THEOREM IInvHolds ==
    ASSUME Discipline
    PROVE  Spec => []IInv
BY InitIInv, NextIInv, PTL DEF Spec

\* Types are kept by every interleaving of readers, updates and thread exits.
THEOREM TypeCorrect ==
    ASSUME Discipline
    PROVE  Spec => []TypeOK
<1>1. IInv => TypeOK
    BY DEF IInv
<1> QED BY <1>1, IInvHolds, PTL

\* synchronize outlasts every reader that was open when it began.
THEOREM Grace ==
    ASSUME Discipline
    PROVE  Spec => []GracePeriod
<1>1. IInv => GracePeriod
    <2> SUFFICES ASSUME IInv, NEW u \in Threads, pc[u] = "inUse", idx[u] = NumSlots,
                        NEW r \in waitingOn[u]
                 PROVE  FALSE
        BY DEF GracePeriod
    <2>1. PICK t \in Threads : r = <<t, 1>>
        <3>1. r \in Threads \X Level /\ Level = {1}
            BY DEF IInv, TypeOK, Discipline, Level
        <3> QED BY <3>1
    <2>2. depth[t] = 1 /\ ctxSlot[t] >= NumSlots
        BY <2>1 DEF IInv, Waits, Syncing
    <2>3. ctxSlot[t] \in Slot
        BY <2>2 DEF IInv, TypeOK, Places, Place
    <2> QED BY <2>2, <2>3, SlotsAssumption DEF Slot
<1> QED BY <1>1, IInvHolds, PTL

\* Inside a reader nothing that read() returned there is ever deleted.
THEOREM Protected ==
    ASSUME Discipline
    PROVE  Spec => []NoUseAfterFree
<1>1. IInv => NoUseAfterFree
    <2> SUFFICES ASSUME IInv, NEW t \in Threads, NEW k \in Level
                 PROVE  held[t][k] \cap freed = {}
        BY DEF NoUseAfterFree
    <2>1. k = 1
        BY DEF Discipline, Level
    <2> QED BY <2>1 DEF IInv, Heap
<1> QED BY <1>1, IInvHolds, PTL

-----------------------------------------------------------------------------
(* Every object has one owner.  This needs no discipline: it holds for any *)
(* number of domains and of nested readers.                                *)

OTypeOK ==
    /\ objects \in Nat /\ freed \in SUBSET (1 .. objects)
    /\ ptr \in [Domains -> 0 .. objects]
    /\ old \in [Threads -> 0 .. objects]
    /\ pc \in [Threads -> {"run", "register", "clear", "load", "exchange", "unregister",
                           "advance", "inUse", "spin"}]

\* An update keeps the old object from its exchange until the delete.
Keeping(t) == pc[t] \in {"advance", "inUse", "spin"}

\* No two owners have the same object ...
AtMostOne ==
    /\ \A d, e \in Domains : ptr[d] = ptr[e] /\ ptr[d] # Null => d = e
    /\ \A t, u \in Threads : old[t] = old[u] /\ old[t] # Null => t = u
    /\ \A d \in Domains, t \in Threads : ptr[d] = old[t] => ptr[d] = Null
    /\ \A d \in Domains : ptr[d] \notin freed
    /\ \A t \in Threads : old[t] \notin freed

\* ... and every object has one.
AtLeastOne ==
    \A o \in 1 .. objects :
        o \in freed \/ (\E d \in Domains : ptr[d] = o) \/ (\E t \in Threads : old[t] = o)

OInv == OTypeOK /\ (\A t \in Threads : old[t] # Null <=> Keeping(t)) /\ AtMostOne /\ AtLeastOne

LEMMA InitOInv == Init => OInv
BY DEF Init, OInv, OTypeOK, Keeping, AtMostOne, AtLeastOne, Null

\* The steps other than the exchange of the pointer and the delete.
LEMMA OwnersUntouched ==
    ASSUME OInv, NEW t \in Threads,
           UNCHANGED <<ptr, old, objects, freed>>,
           pc' \in [Threads -> {"run", "register", "clear", "load", "exchange", "unregister",
                                "advance", "inUse", "spin"}],
           \A u \in Threads : u # t => pc'[u] = pc[u],
           Keeping(t)' <=> Keeping(t)
    PROVE  OInv'
<1>1. \A u \in Threads : Keeping(u)' <=> Keeping(u)
    BY DEF Keeping
<1>2. OTypeOK' /\ AtMostOne' /\ AtLeastOne'
    BY DEF OInv, OTypeOK, AtMostOne, AtLeastOne
<1> QED BY <1>1, <1>2 DEF OInv

\* A new object belongs to the pointer, the one before it to the update.
LEMMA SwapOInv ==
    ASSUME OInv, NEW t \in Threads, NEW d \in Domains, NEW fresh \in BOOLEAN, UpdateSwap(t, d, fresh)
    PROVE  OInv'
<1>1. /\ objects \in Nat /\ objects' \in Nat /\ objects <= objects' /\ freed' = freed
      /\ \/ ptr'[d] = Null /\ objects' = objects
         \/ ptr'[d] = objects + 1 /\ objects' = objects + 1
    <2>1. CASE fresh
        BY <2>1 DEF UpdateSwap, OInv, OTypeOK
    <2>2. CASE ~fresh
        BY <2>2 DEF UpdateSwap, OInv, OTypeOK
    <2> QED BY <2>1, <2>2
<1>2. /\ old[t] = Null /\ old'[t] = ptr[d]
      /\ \A u \in Threads : u # t => old'[u] = old[u] /\ pc'[u] = pc[u]
      /\ \A e \in Domains : e # d => ptr'[e] = ptr[e]
      /\ pc'[t] = IF ptr[d] = Null THEN "run" ELSE "advance"
    BY DEF UpdateSwap, OInv, OTypeOK, Keeping
<1>3. OTypeOK'
    BY <1>1 DEF UpdateSwap, OInv, OTypeOK, Null, heapVars
<1>4. \A u \in Threads : old'[u] # Null <=> Keeping(u)'
    BY <1>2 DEF OInv, Keeping
<1>5. AtMostOne'
    <2>1. /\ \A e \in Domains : ptr[e] \in Nat /\ ptr[e] <= objects
          /\ \A u \in Threads : old[u] \in Nat /\ old[u] <= objects
          /\ \A o \in freed : o \in Nat /\ o <= objects /\ o # Null
        BY <1>1 DEF OInv, OTypeOK, Null
    <2>2. /\ \A e \in Domains : e # d /\ ptr'[d] = ptr[e] => ptr'[d] = Null
          /\ \A u \in Threads : ptr'[d] = old[u] => ptr'[d] = Null
          /\ ptr'[d] = ptr[d] => ptr'[d] = Null
          /\ ptr'[d] \notin freed
        BY <1>1, <2>1 DEF Null
    <2> QED BY <1>1, <1>2, <2>2 DEF OInv, AtMostOne
<1>6. AtLeastOne'
    <2> SUFFICES ASSUME NEW o \in 1 .. objects'
                 PROVE  \/ o \in freed' \/ (\E e \in Domains : ptr'[e] = o)
                        \/ (\E u \in Threads : old'[u] = o)
        BY DEF AtLeastOne
    <2>1. CASE o \in 1 .. objects
        <3>1. o # Null
            BY <2>1 DEF Null
        <3> QED BY <1>1, <1>2, <2>1, <3>1 DEF OInv, AtLeastOne
    <2>2. CASE o \notin 1 .. objects
        BY <1>1, <2>2
    <2> QED BY <2>1, <2>2
<1> QED BY <1>3, <1>4, <1>5, <1>6 DEF OInv

\* The update gives up what it deletes.
LEMMA DeleteOInv ==
    ASSUME OInv, NEW t \in Threads, UpdateDelete(t)
    PROVE  OInv'
<1>1. /\ old[t] # Null /\ old[t] \in 0 .. objects /\ freed' = freed \cup {old[t]}
      /\ old'[t] = Null /\ pc'[t] = "run" /\ objects' = objects /\ ptr' = ptr
      /\ \A u \in Threads : u # t => old'[u] = old[u] /\ pc'[u] = pc[u]
    BY DEF UpdateDelete, OInv, OTypeOK, Keeping
<1>2. OTypeOK'
    <2>1. old[t] \in 1 .. objects /\ 0 \in 0 .. objects
        BY <1>1 DEF OInv, OTypeOK, Null
    <2>2. freed' \in SUBSET (1 .. objects')
        BY <1>1, <2>1 DEF OInv, OTypeOK
    <2> QED BY <1>1, <2>1, <2>2 DEF UpdateDelete, OInv, OTypeOK, Null
<1>3. \A u \in Threads : old'[u] # Null <=> Keeping(u)'
    BY <1>1 DEF OInv, Keeping
<1>4. AtMostOne'
    BY <1>1, <1>2 DEF OInv, OTypeOK, AtMostOne, Null
<1>5. AtLeastOne'
    BY <1>1 DEF OInv, AtLeastOne
<1> QED BY <1>2, <1>3, <1>4, <1>5 DEF OInv

LEMMA NextOInv == OInv /\ [Next]_vars => OInv'
<1> SUFFICES ASSUME OInv, [Next]_vars PROVE OInv'
    OBVIOUS
<1> USE DEF heapVars, Keeping
<1>1. ASSUME NEW t \in Threads,
             \/ RegisterTake(t) \/ RegisterBusy(t) \/ RegisterThrow(t) \/ RegisterClear(t)
             \/ ExitRelease(t) \/ LockLoad(t) \/ LockExchange(t)
             \/ Unlock(t) \/ ExitClear(t) \/ \E k \in Level : Read(t, k)
      PROVE  OInv'
    <2>1. /\ UNCHANGED <<ptr, old, objects, freed>>
          /\ \E l \in {"run", "register", "clear", "load", "exchange", "unregister"} :
                pc' = [pc EXCEPT ![t] = l]
          /\ ~Keeping(t)
        BY <1>1 DEF OInv, OTypeOK, RegisterTake, RegisterBusy, RegisterThrow, RegisterClear,
            ExitRelease, LockLoad, LockExchange, Unlock, ExitClear, Read
    <2> QED BY <2>1, OwnersUntouched DEF OInv, OTypeOK
<1>2. ASSUME NEW t \in Threads, NEW d \in Domains, Enter(t, d) PROVE OInv'
    <2>1. \E l \in {"register", "load"} : pc' = [pc EXCEPT ![t] = l]
        BY <1>2 DEF Enter
    <2> QED BY <1>2, <2>1, OwnersUntouched DEF OInv, OTypeOK, Enter
<1>3. ASSUME NEW t \in Threads, SyncAdvance(t) \/ SyncInUse(t) \/ SyncSkip(t) \/ SyncSpin(t)
      PROVE  OInv'
    <2>1. /\ UNCHANGED <<ptr, old, objects, freed>>
          /\ \E l \in {"inUse", "spin"} : pc' = [pc EXCEPT ![t] = l]
          /\ Keeping(t)
        BY <1>3 DEF OInv, OTypeOK, SyncAdvance, SyncInUse, SyncSkip, SyncSpin
    <2> QED BY <2>1, OwnersUntouched DEF OInv, OTypeOK
<1>4. ASSUME UNCHANGED vars PROVE OInv'
    BY <1>4 DEF vars, OInv, OTypeOK, AtMostOne, AtLeastOne
<1> QED BY <1>1, <1>2, <1>3, <1>4, SwapOInv, DeleteOInv DEF Next, Step, Call

\* Update deletes every object it replaces, once: nothing leaks while the pointers and the
\* updates in progress are kept.
THEOREM ObjectsOwnedOnce == Spec => []OneOwner
<1>1. OInv => OneOwner
    <2> SUFFICES ASSUME OInv, NEW o \in 1 .. objects
                 PROVE  Cardinality({d \in Domains : ptr[d] = o})
                        + Cardinality({t \in Threads : old[t] = o})
                        + (IF o \in freed THEN 1 ELSE 0) = 1
        BY DEF OneOwner
    <2> DEFINE P == {d \in Domains : ptr[d] = o}
               U == {t \in Threads : old[t] = o}
    <2>0. o # Null
        BY DEF Null
    <2>1. CASE o \in freed
        <3>1. P = {} /\ U = {}
            BY <2>1 DEF OInv, AtMostOne
        <3>2. Cardinality(P) = 0 /\ Cardinality(U) = 0
            BY <3>1, FS_EmptySet
        <3> QED BY <2>1, <3>2
    <2>2. CASE \E d \in Domains : ptr[d] = o
        <3>1. o \notin freed /\ U = {} /\ \E d \in Domains : P = {d}
            BY <2>0, <2>2 DEF OInv, AtMostOne
        <3>2. Cardinality(P) = 1 /\ Cardinality(U) = 0
            BY <3>1, FS_EmptySet, FS_Singleton
        <3> QED BY <3>1, <3>2
    <2>3. CASE \E t \in Threads : old[t] = o
        <3>1. o \notin freed /\ P = {} /\ \E t \in Threads : U = {t}
            BY <2>0, <2>3 DEF OInv, AtMostOne
        <3>2. Cardinality(P) = 0 /\ Cardinality(U) = 1
            BY <3>1, FS_EmptySet, FS_Singleton
        <3> QED BY <3>1, <3>2
    <2> QED BY <2>1, <2>2, <2>3 DEF OInv, AtLeastOne
<1> QED BY <1>1, InitOInv, NextOInv, PTL DEF Spec
=============================================================================
