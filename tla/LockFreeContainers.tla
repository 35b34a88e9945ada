------------------------- MODULE LockFreeContainers -------------------------
(***************************************************************************)
(* The structures without locks and their ways to get memory back: tagged  *)
(* indices into a pool, hazard pointers, split reference counts.  They     *)
(* share nothing, so that a behaviour uses one of them, chosen in the      *)
(* initial state.                                                          *)
(***************************************************************************)
EXTENDS LockFreeStack, HazardPointers, CountedStack, CountedQueue

VARIABLE structure  \* the one that the threads of this behaviour use

containerVars == <<vars, hVars, cVars, qVars, structure>>

InitContainers ==
    /\ structure \in {"LockFreeStack", "HazardPointers", "CountedStack", "CountedQueue"}
    /\ Init /\ HInit /\ CInit /\ QInit

NextContainers ==
    /\ UNCHANGED structure
    /\ \/ structure = "LockFreeStack" /\ Next /\ UNCHANGED <<hVars, cVars, qVars>>
       \/ structure = "HazardPointers" /\ HNext /\ UNCHANGED <<vars, cVars, qVars>>
       \/ structure = "CountedStack" /\ CNext /\ UNCHANGED <<vars, hVars, qVars>>
       \/ structure = "CountedQueue" /\ QNext /\ UNCHANGED <<vars, hVars, cVars>>

SpecContainers == InitContainers /\ [][NextContainers]_containerVars

\* Besides the fairness of the tagged stack: calls on hazard pointers go on, and as long
\* as there are retired objects somebody calls delete_nodes_with_no_hazards again.
FairSpecContainers ==
    /\ SpecContainers
    /\ Fairness
    /\ \A t \in HThreads : WF_hVars(HStep(t))
    /\ SF_hVars(\E t \in HWriters : TakeList(t))

-----------------------------------------------------------------------------
\* The linked structures are what they stand for, in spite of copies of a head or a
\* tail that are older than the memory they point to: two stacks and a queue.
ImplementAbstract == ImplementsStack /\ ImplementsCountedStack /\ ImplementsCountedQueue

\* The split reference counts of stack and queue delete a node once, and not before the
\* last call that has it in hand lets go of it.
CountsProtect == StackCounts /\ QueueCounts

\* Operations on the tagged stack return, and retired objects are deleted in the end.
\* Pops of the counted stack and queue are not part of this: two of them that count
\* themselves in between each other's count and compare_exchange can fail for ever.
OpsProgress == OpsReturn /\ RetiredDeleted
=============================================================================
