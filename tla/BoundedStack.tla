---------------------------- MODULE BoundedStack ----------------------------
(***************************************************************************)
(* What LockFreeStack promises: a last in, first out stack of at most      *)
(* Capacity values, on which every successful operation and every pop of   *)
(* an empty stack takes effect in one step.  A push may also be refused.   *)
(***************************************************************************)
EXTENDS Naturals, Sequences

CONSTANTS Threads, Values, Capacity, NoValue

VARIABLES
    stack,      \* the stacked values, top first
    taken       \* what the last pop of each thread returned

vars == <<stack, taken>>

Init == stack = <<>> /\ taken = [t \in Threads |-> NoValue]

Push(v) ==
    /\ Len(stack) < Capacity
    /\ stack' = <<v>> \o stack
    /\ UNCHANGED taken

Pop(t) ==
    /\ stack # <<>>
    /\ taken' = [taken EXCEPT ![t] = Head(stack)]
    /\ stack' = Tail(stack)

PopEmpty(t) ==
    /\ stack = <<>>
    /\ taken' = [taken EXCEPT ![t] = NoValue]
    /\ UNCHANGED stack

Next ==
    \/ \E v \in Values : Push(v)
    \/ \E t \in Threads : Pop(t) \/ PopEmpty(t)

Spec == Init /\ [][Next]_vars
=============================================================================
