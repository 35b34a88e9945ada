-------------------------- MODULE LockedContainers --------------------------
(***************************************************************************)
(* The containers with locks side by side.  They share nothing, so that a  *)
(* behaviour uses one of them, chosen in the initial state, and what is    *)
(* checked of each holds in a program with all of them.                    *)
(***************************************************************************)
EXTENDS ThreadSafeQueue, LockedQueue, LookupTable, HandOverHandList

CONSTANT QRegulars  \* consumers of a LockedQueue that keep calling

ASSUME QRegularsAssumption == QRegulars \subseteq QConsumers

VARIABLE object     \* the container that the threads of this behaviour use

containerVars == <<vars, qVars, tVars, lVars, object>>

InitContainers ==
    /\ object \in {"ThreadSafeQueue", "LockedQueue", "LookupTable", "HandOverHandList"}
    /\ Init /\ QInit /\ TInit /\ LInit
    /\ object # "ThreadSafeQueue" => style = "polling"
    /\ object # "LockedQueue" => kind = "single_mutex"

NextContainers ==
    /\ UNCHANGED object
    /\ \/ object = "ThreadSafeQueue" /\ Next /\ UNCHANGED <<qVars, tVars, lVars>>
       \/ object = "LockedQueue" /\ QNext /\ UNCHANGED <<vars, tVars, lVars>>
       \/ object = "LookupTable" /\ TNext /\ UNCHANGED <<vars, qVars, lVars>>
       \/ object = "HandOverHandList" /\ LNext /\ UNCHANGED <<vars, qVars, tVars>>

SpecContainers == InitContainers /\ [][NextContainers]_containerVars

\* Threads are scheduled: a call that can go on does, and callbacks return.  The
\* consumers of a ThreadSafeQueue and the regular ones of a LockedQueue keep calling; the
\* other calls are finite in number, so that a mutex is free for good in the end.
\* Nobody need push, begin another call, throw or wake up spuriously.
Fairness ==
    /\ \A p \in Producers : WF_vars(object = "ThreadSafeQueue" /\ Release(p))
    /\ \A c \in Consumers : WF_vars(object = "ThreadSafeQueue" /\ Consume(c))
    /\ \A p \in QProducers : WF_qVars(object = "LockedQueue" /\ (PushLink(p) \/ PushNotify(p)))
    /\ \A c \in QConsumers : WF_qVars(object = "LockedQueue" /\ qpc[c] # "idle" /\ QConsume(c))
    /\ \A c \in QRegulars : WF_qVars(object = "LockedQueue" /\ QConsume(c))
    /\ \A t \in TThreads : WF_tVars(object = "LookupTable" /\ MapStep(t))
    /\ \A t \in LThreads : WF_lVars(object = "HandOverHandList" /\ Traverse(t))

FairSpecContainers == SpecContainers /\ Fairness

-----------------------------------------------------------------------------
\* Locks are waited for in one direction only, upwards in the table and down the
\* list: no operation of either waits for ever (dataStructures.hpp:412, :484).
OperationsReturn == MapsReturn /\ TraversalsReturn
=============================================================================
