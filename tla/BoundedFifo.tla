---------------------------- MODULE BoundedFifo ----------------------------
(***************************************************************************)
(* What LockFreeQueue promises its one producer and one consumer, and      *)
(* LockedQueue all of its threads: a first in, first out queue of at most  *)
(* Capacity values.  An operation takes effect in one step; a push that    *)
(* finds the queue full and a pop that finds it empty change nothing.      *)
(***************************************************************************)
EXTENDS Naturals, Sequences

CONSTANTS Values, Capacity, NoValue

VARIABLES
    q,      \* the queued values, oldest first
    out     \* the value the last successful pop returned

vars == <<q, out>>

Init == q = <<>> /\ out = NoValue

Push(v) ==
    /\ Len(q) < Capacity
    /\ q' = Append(q, v)
    /\ out' = out

Pop ==
    /\ q # <<>>
    /\ out' = Head(q)
    /\ q' = Tail(q)

Next == Pop \/ \E v \in Values : Push(v)

Spec == Init /\ [][Next]_vars
=============================================================================
