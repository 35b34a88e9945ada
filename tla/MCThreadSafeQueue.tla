------------------------- MODULE MCThreadSafeQueue -------------------------
(***************************************************************************)
(* ThreadSafeQueue with two producers and two consumers, enough for a      *)
(* release and an acquire to overtake each other's critical sections.      *)
(* Producers stop after MCMaxPushes calls and wait_and_pop then blocks for *)
(* ever, as the code says it does: deadlock is not checked.                *)
(***************************************************************************)
EXTENDS ThreadSafeQueue

MCMaxPushes == 2
=============================================================================
