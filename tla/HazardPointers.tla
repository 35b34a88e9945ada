--------------------------- MODULE HazardPointers ---------------------------
(***************************************************************************)
(* modern_cpp_core/data_structures/hazard_pointer.hpp: a fixed array of    *)
(* hazard pointers, one of which a thread owns until it exits, and a list  *)
(* of retired objects that are deleted when no hazard pointer holds them.  *)
(* One action per atomic access.                                           *)
(*                                                                         *)
(* The repository has no client of it.  The one here is what design.md     *)
(* (designLockFree) describes: a shared pointer that threads read under a  *)
(* hazard pointer and replace, retiring the object that was there.         *)
(***************************************************************************)
EXTENDS Naturals, Sequences, FiniteSets

CONSTANTS
    HReaders, HWriters,     \* threads that read, that replace and reclaim; some do both
    HObjects,               \* addresses of objects, used again after delete
    kMaxHazardPointers,
    HNull                   \* nullptr, and std::thread::id()

ASSUME HazardAssumption == kMaxHazardPointers \in Nat \ {0}
HThreads == HReaders \cup HWriters
ASSUME HNullAssumption == HNull \notin HThreads \cup HObjects

Slot == 1 .. kMaxHazardPointers
NoSlot == 0

VARIABLES
    id, pointer,            \* g_hazard_pointers
    m_hp,                   \* the slot of each thread's hp_owner
    g_nodes_to_reclaim,     \* the retired objects, newest first
    shared,                 \* the client's atomic pointer
    live,                   \* objects that are not deleted
    hpc,                    \* place of each thread
    slot_i,                 \* i of its loop over the slots
    object,                 \* the object it reads, or has replaced
    current                 \* the part of the list that it still has to look at

hVars == <<id, pointer, m_hp, g_nodes_to_reclaim, shared, live, hpc, slot_i, object, current>>

HInit ==
    /\ id = [s \in Slot |-> HNull] /\ pointer = [s \in Slot |-> HNull]
    /\ m_hp = [t \in HThreads |-> NoSlot]
    /\ g_nodes_to_reclaim = <<>>
    /\ shared = HNull /\ live = {}
    /\ hpc = [t \in HThreads |-> "idle"]
    /\ slot_i = [t \in HThreads |-> 1]
    /\ object = [t \in HThreads |-> HNull]
    /\ current = [t \in HThreads |-> <<>>]

HGoto(t, label) == hpc' = [hpc EXCEPT ![t] = label]

-----------------------------------------------------------------------------
(* A reader. *)

\* get_hazard_pointer_for_current_thread: a thread keeps the slot it has.
ReadBegin(t) ==
    /\ hpc[t] = "idle"
    /\ HGoto(t, IF m_hp[t] = NoSlot THEN "acquire" ELSE "load")
    /\ UNCHANGED <<id, pointer, m_hp, g_nodes_to_reclaim, shared, live, slot_i, object, current>>

\* One compare_exchange of try_acquire; the last that fails ends the call with an error.
try_acquire(t) ==
    LET s == slot_i[t] IN
    /\ hpc[t] = "acquire"
    /\ IF id[s] = HNull
       THEN /\ id' = [id EXCEPT ![s] = t]
            /\ m_hp' = [m_hp EXCEPT ![t] = s]
            /\ slot_i' = [slot_i EXCEPT ![t] = 1]
            /\ HGoto(t, "load")
       ELSE /\ slot_i' = [slot_i EXCEPT ![t] = IF s = kMaxHazardPointers THEN 1 ELSE s + 1]
            /\ HGoto(t, IF s = kMaxHazardPointers THEN "idle" ELSE "acquire")
            /\ UNCHANGED <<id, m_hp>>
    /\ UNCHANGED <<pointer, g_nodes_to_reclaim, shared, live, object, current>>

\* The client reads the shared pointer ...
Load(t) ==
    /\ hpc[t] = "load"
    /\ object' = [object EXCEPT ![t] = shared]
    /\ HGoto(t, IF shared = HNull THEN "idle" ELSE "publish")
    /\ UNCHANGED <<id, pointer, m_hp, g_nodes_to_reclaim, shared, live, slot_i, current>>

\* ... stores what it has read in the hazard pointer ...
Publish(t) ==
    /\ hpc[t] = "publish"
    /\ pointer' = [pointer EXCEPT ![m_hp[t]] = object[t]]
    /\ HGoto(t, "validate")
    /\ UNCHANGED <<id, m_hp, g_nodes_to_reclaim, shared, live, slot_i, object, current>>

\* ... and uses the object if it is still the shared one.
Validate(t) ==
    /\ hpc[t] = "validate"
    /\ object' = [object EXCEPT ![t] = shared]
    /\ HGoto(t, IF shared = object[t] THEN "use" ELSE IF shared = HNull THEN "clear" ELSE "publish")
    /\ UNCHANGED <<id, pointer, m_hp, g_nodes_to_reclaim, shared, live, slot_i, current>>

ReadEnd(t) ==
    /\ hpc[t] \in {"use", "clear"}
    /\ pointer' = [pointer EXCEPT ![m_hp[t]] = HNull]
    /\ object' = [object EXCEPT ![t] = HNull]
    /\ HGoto(t, "idle")
    /\ UNCHANGED <<id, m_hp, g_nodes_to_reclaim, shared, live, slot_i, current>>

\* ~HazardPointerOwner, when the thread exits: the pointer is cleared ...
ExitClear(t) ==
    /\ hpc[t] = "idle" /\ m_hp[t] # NoSlot
    /\ pointer' = [pointer EXCEPT ![m_hp[t]] = HNull]
    /\ HGoto(t, "exit")
    /\ UNCHANGED <<id, m_hp, g_nodes_to_reclaim, shared, live, slot_i, object, current>>

\* ... and the slot given away.  Another thread may come under the name of this one.
ExitRelease(t) ==
    /\ hpc[t] = "exit"
    /\ id' = [id EXCEPT ![m_hp[t]] = HNull]
    /\ m_hp' = [m_hp EXCEPT ![t] = NoSlot]
    /\ HGoto(t, "idle")
    /\ UNCHANGED <<pointer, g_nodes_to_reclaim, shared, live, slot_i, object, current>>

-----------------------------------------------------------------------------
(* A writer. *)

\* The client exchanges the shared pointer for a new object or for nullptr.
Replace(t) ==
    /\ hpc[t] = "idle"
    /\ \E o \in (HObjects \ live) \cup {HNull} :
        /\ o # shared
        /\ shared' = o
        /\ live' = live \cup ({o} \ {HNull})
    /\ object' = [object EXCEPT ![t] = shared]
    /\ HGoto(t, IF shared = HNull THEN "idle" ELSE "retire")
    /\ UNCHANGED <<id, pointer, m_hp, g_nodes_to_reclaim, slot_i, current>>

\* The compare_exchange of add_to_reclaim_list that succeeds; one that fails changes
\* nothing but next of a node that no other thread knows.
add_to_reclaim_list(o) == g_nodes_to_reclaim' = <<o>> \o g_nodes_to_reclaim

reclaim_later(t) ==
    /\ hpc[t] = "retire"
    /\ add_to_reclaim_list(object[t])
    /\ object' = [object EXCEPT ![t] = HNull]
    /\ HGoto(t, "idle")
    /\ UNCHANGED <<id, pointer, m_hp, shared, live, slot_i, current>>

\* delete_nodes_with_no_hazards takes the whole list ...
TakeList(t) ==
    /\ hpc[t] = "idle" /\ g_nodes_to_reclaim # <<>>
    /\ current' = [current EXCEPT ![t] = g_nodes_to_reclaim]
    /\ g_nodes_to_reclaim' = <<>>
    /\ HGoto(t, "scan")
    /\ UNCHANGED <<id, pointer, m_hp, shared, live, slot_i, object>>

\* Mutant: the scan leaves out the last slot.
outstanding_but_last(t) ==
    LET found == pointer[slot_i[t]] = Head(current[t])
        last == slot_i[t] >= kMaxHazardPointers - 1
    IN
    /\ hpc[t] = "scan"
    /\ slot_i' = [slot_i EXCEPT ![t] = IF found \/ last THEN 1 ELSE @ + 1]
    /\ HGoto(t, IF found THEN "keep" ELSE IF last THEN "delete" ELSE "scan")
    /\ UNCHANGED <<id, pointer, m_hp, g_nodes_to_reclaim, shared, live, object, current>>

\* ... loads one hazard pointer after the other for each object ...
outstanding_hazard_pointers_for(t) ==
    LET found == pointer[slot_i[t]] = Head(current[t])
        last == slot_i[t] = kMaxHazardPointers
    IN
    /\ hpc[t] = "scan"
    /\ slot_i' = [slot_i EXCEPT ![t] = IF found \/ last THEN 1 ELSE @ + 1]
    /\ HGoto(t, IF found THEN "keep" ELSE IF last THEN "delete" ELSE "scan")
    /\ UNCHANGED <<id, pointer, m_hp, g_nodes_to_reclaim, shared, live, object, current>>

NextToReclaim(t) ==
    /\ current' = [current EXCEPT ![t] = Tail(@)]
    /\ HGoto(t, IF Tail(current[t]) = <<>> THEN "idle" ELSE "scan")

\* ... and puts it back for another time ...
KeepNode(t) ==
    /\ hpc[t] = "keep"
    /\ add_to_reclaim_list(Head(current[t]))
    /\ NextToReclaim(t)
    /\ UNCHANGED <<id, pointer, m_hp, shared, live, slot_i, object>>

\* ... or deletes it.
DeleteNode(t) ==
    /\ hpc[t] = "delete"
    /\ live' = live \ {Head(current[t])}
    /\ NextToReclaim(t)
    /\ UNCHANGED <<id, pointer, m_hp, g_nodes_to_reclaim, shared, slot_i, object>>

-----------------------------------------------------------------------------
\* A call in progress goes on.
HStep(t) ==
    \/ try_acquire(t) \/ Load(t) \/ Publish(t) \/ Validate(t) \/ ReadEnd(t)
    \/ ExitRelease(t) \/ reclaim_later(t)
    \/ outstanding_hazard_pointers_for(t) \/ KeepNode(t) \/ DeleteNode(t)

HNext ==
    \E t \in HThreads :
        \/ HStep(t) \/ ExitClear(t)
        \/ t \in HReaders /\ ReadBegin(t)
        \/ t \in HWriters /\ (Replace(t) \/ TakeList(t))

HSpec == HInit /\ [][HNext]_hVars

-----------------------------------------------------------------------------
\* Where a pointer to an object is kept that somebody will delete or replace.
HPlaces(o) ==
    {<<"shared">> : s \in {shared} \cap {o}}
    \cup {<<"list", i>> : i \in {j \in DOMAIN g_nodes_to_reclaim : g_nodes_to_reclaim[j] = o}}
    \cup {<<"retire", t>> : t \in {u \in HThreads : hpc[u] = "retire" /\ object[u] = o}}
    \cup UNION {{<<"current", t, i>> : i \in {j \in DOMAIN current[t] : current[t][j] = o}} : t \in HThreads}

\* An object that a reader has published and validated is not deleted under it, also
\* when the reader publishes behind the scan, when its slot had another owner a moment
\* ago, and when an address comes back; and no object is deleted twice or forgotten
\* (hazard_pointer.hpp:116).
HazardProtects ==
    /\ \A t \in HThreads : hpc[t] = "use" => object[t] \in live
    /\ \A o \in HObjects : Cardinality(HPlaces(o)) = IF o \in live THEN 1 ELSE 0

Retired(o) == o \in live /\ HPlaces(o) # {<<"shared">>}

\* A retired object is deleted in the end if somebody keeps calling
\* delete_nodes_with_no_hazards: readers cannot keep it for ever.
RetiredDeleted == \A o \in HObjects : Retired(o) ~> ~Retired(o)
=============================================================================
