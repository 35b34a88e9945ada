-------------------------- MODULE HandOverHandList --------------------------
(***************************************************************************)
(* designLockBase/dataStructures.hpp: threadsafe_list, a singly linked     *)
(* list with a mutex in every node.  A traversal locks the next node       *)
(* before it unlocks the one it stands on; remove_if unlinks a node while  *)
(* it holds both.                                                          *)
(*                                                                         *)
(* A node is a number; a node that was freed is not allocated again, so    *)
(* that a stale pointer to it can be told.                                 *)
(***************************************************************************)
EXTENDS Naturals, Sequences, SequencesExt

CONSTANTS
    LThreads, LValues,
    MaxNodes,       \* bound: nodes ever allocated
    LMaxCalls       \* bound: traversals of one thread

ASSUME NodesAssumption == MaxNodes \in Nat /\ LMaxCalls \in Nat

head == 0           \* the dummy node
Node == 1 .. MaxNodes
Null == MaxNodes + 1

VARIABLES
    next,           \* the next pointer of each node
    ldata,          \* the value of each allocated node, in order of allocation
    freed,          \* the nodes destroyed
    lpc,            \* place of each thread in its call
    op,             \* for_each, find_first_if or remove_if
    pred,           \* the values that satisfy the caller's predicate
    current, ahead, \* the nodes current and next of the traversal
    lcalls,
    staying,        \* history: nodes in the list since the last traversal began
    visited         \* history: nodes that it has examined

lVars == <<next, ldata, freed, lpc, op, pred, current, ahead, lcalls, staying, visited>>
list == <<next, ldata, freed>>

LInit ==
    /\ next = [n \in {head} \cup Node |-> Null]
    /\ ldata = <<>>
    /\ freed = {}
    /\ lpc = [t \in LThreads |-> "idle"]
    /\ op = [t \in LThreads |-> "none"]
    /\ pred = [t \in LThreads |-> {}]
    /\ current = [t \in LThreads |-> head]
    /\ ahead = [t \in LThreads |-> Null]
    /\ lcalls = [t \in LThreads |-> 0]
    /\ staying = [t \in LThreads |-> {}]
    /\ visited = [t \in LThreads |-> <<>>]

LGoto(t, label) == lpc' = [lpc EXCEPT ![t] = label]

\* The nodes whose mutex t holds: it stands on one, or has locked the one ahead too.
Locked(t) ==
    CASE lpc[t] \in {"stand", "delete"} -> {current[t]}
      [] lpc[t] = "both" -> {current[t], ahead[t]}
      [] OTHER -> {}

MutexOfFree(n) == \A t \in LThreads : n \notin Locked(t)

\* The nodes that can be reached from the dummy node: they are in every set with the
\* dummy node that next pointers do not lead out of.
Linked ==
    {n \in Node :
        \A S \in SUBSET ({head} \cup Node) :
            head \in S /\ (\A m \in S : next[m] # Null => next[m] \in S) => n \in S}

-----------------------------------------------------------------------------
push_front(t, v) ==
    /\ lpc[t] = "idle"
    /\ Len(ldata) < MaxNodes
    /\ MutexOfFree(head)
    /\ LET new_node == Len(ldata) + 1
       IN  next' = [next EXCEPT ![new_node] = next[head], ![head] = new_node]
    /\ ldata' = Append(ldata, v)
    /\ UNCHANGED <<freed, lpc, op, pred, current, ahead, lcalls, staying, visited>>

\* A traversal begins with the lock of the dummy node.
Begin(t, f, p) ==
    /\ lpc[t] = "idle" /\ lcalls[t] < LMaxCalls
    /\ MutexOfFree(head)
    /\ op' = [op EXCEPT ![t] = f]
    /\ pred' = [pred EXCEPT ![t] = p]
    /\ current' = [current EXCEPT ![t] = head]
    /\ lcalls' = [lcalls EXCEPT ![t] = @ + 1]
    /\ staying' = [staying EXCEPT ![t] = Linked]
    /\ visited' = [visited EXCEPT ![t] = <<>>]
    /\ LGoto(t, "stand")
    /\ UNCHANGED <<list, ahead>>

\* Mutant: the next node is entered without its lock.
LockNextNot(t) ==
    /\ lpc[t] = "stand"
    /\ next[current[t]] # Null
    /\ ahead' = [ahead EXCEPT ![t] = next[current[t]]]
    /\ LGoto(t, "both")
    /\ UNCHANGED <<list, op, pred, current, lcalls, staying, visited>>

LockNext(t) ==
    /\ lpc[t] = "stand"
    /\ next[current[t]] # Null
    /\ MutexOfFree(next[current[t]])
    /\ ahead' = [ahead EXCEPT ![t] = next[current[t]]]
    /\ LGoto(t, "both")
    /\ UNCHANGED <<list, op, pred, current, lcalls, staying, visited>>

Matches(t) == ldata[ahead[t]] \in pred[t]

Examine(t) == visited' = [visited EXCEPT ![t] = Append(@, ahead[t])]

\* for_each, or find_first_if and remove_if at a node that does not match: the node
\* behind is unlocked and the one ahead becomes the current one.
StepOn(t) ==
    /\ lpc[t] = "both"
    /\ op[t] = "for_each" \/ ~Matches(t)
    /\ Examine(t)
    /\ current' = [current EXCEPT ![t] = ahead[t]]
    /\ ahead' = [ahead EXCEPT ![t] = Null]
    /\ LGoto(t, "stand")
    /\ UNCHANGED <<list, op, pred, lcalls, staying>>

\* find_first_if returns the data of the node: what lies behind is not of interest.
Found(t) ==
    /\ lpc[t] = "both" /\ op[t] = "find_first_if" /\ Matches(t)
    /\ Examine(t)
    /\ staying' = [staying EXCEPT ![t] = {}]
    /\ ahead' = [ahead EXCEPT ![t] = Null]
    /\ LGoto(t, "idle")
    /\ UNCHANGED <<list, op, pred, current, lcalls>>

\* Mutant: current moves on after a removal, so that one node is not tested.
UnlinkAndMove(t) ==
    /\ lpc[t] = "both" /\ op[t] = "remove_if" /\ Matches(t)
    /\ Examine(t)
    /\ next' = [next EXCEPT ![current[t]] = next[ahead[t]], ![ahead[t]] = Null]
    /\ current' = [current EXCEPT ![t] = IF next[ahead[t]] = Null THEN @ ELSE next[ahead[t]]]
    /\ staying' = [u \in LThreads |-> staying[u] \ {ahead[t]}]
    /\ LGoto(t, "delete")
    /\ UNCHANGED <<ldata, freed, op, pred, ahead, lcalls>>

\* remove_if takes the node out, still holding the one before it ...
Unlink(t) ==
    /\ lpc[t] = "both" /\ op[t] = "remove_if" /\ Matches(t)
    /\ Examine(t)
    /\ next' = [next EXCEPT ![current[t]] = next[ahead[t]], ![ahead[t]] = Null]
    /\ staying' = [u \in LThreads |-> staying[u] \ {ahead[t]}]
    /\ LGoto(t, "delete")
    /\ UNCHANGED <<ldata, freed, op, pred, current, ahead, lcalls>>

\* ... and destroys it after its unlock.
Delete(t) ==
    /\ lpc[t] = "delete"
    /\ freed' = freed \cup {ahead[t]}
    /\ ahead' = [ahead EXCEPT ![t] = Null]
    /\ LGoto(t, "stand")
    /\ UNCHANGED <<next, ldata, op, pred, current, lcalls, staying, visited>>

End(t) ==
    /\ lpc[t] = "stand" /\ next[current[t]] = Null
    /\ LGoto(t, "idle")
    /\ UNCHANGED <<list, op, pred, current, ahead, lcalls, staying, visited>>

-----------------------------------------------------------------------------
Traverse(t) == LockNext(t) \/ StepOn(t) \/ Found(t) \/ Unlink(t) \/ Delete(t) \/ End(t)

LNext ==
    \E t \in LThreads :
        \/ \E v \in LValues : push_front(t, v)
        \/ Begin(t, "for_each", {})
        \/ \E f \in {"find_first_if", "remove_if"}, v \in LValues : Begin(t, f, {v})
        \/ Traverse(t)

LSpec == LInit /\ [][LNext]_lVars

-----------------------------------------------------------------------------
\* No thread stands on, looks at, waits for or destroys a node that was destroyed: "memory
\* cleanup happens safely" (dataStructures.hpp:533) though no reader announces itself.
NoFreedNode ==
    \A t \in LThreads :
        /\ lpc[t] # "idle" => current[t] \notin freed
        /\ lpc[t] \in {"both", "delete"} => ahead[t] \notin freed
        /\ lpc[t] = "stand" => next[current[t]] \notin freed

\* A traversal that ran to the end has examined, once, every node that was in the list
\* all the time, whatever others pushed and removed meanwhile; so remove_if leaves
\* no such node that matches, and find_first_if returns null only without one.
StayersVisited ==
    \A t \in LThreads :
        /\ IsInjective(visited[t])
        /\ lpc[t] = "idle" =>
            \A n \in staying[t] : n \in ToSet(visited[t]) /\ (op[t] = "for_each" \/ ldata[n] \notin pred[t])

\* Traversals follow each other down the list and all come to its end: nobody waits
\* for a node behind.
TraversalsReturn == \A t \in LThreads : (lpc[t] # "idle") ~> (lpc[t] = "idle")
=============================================================================
