------------------------ MODULE MCLockFreeContainers ------------------------
(***************************************************************************)
(* Two threads.  In the tagged stack a node must be popped, freed and      *)
(* pushed again behind the back of a stalled operation for ABA: that takes *)
(* five operations on a pool of two.  Tags do not wrap within MaxOps.      *)
(***************************************************************************)
EXTENDS LockFreeContainers

MCMaxOps == 5
MCTagModulus == MCMaxOps + 1
MCQThreads == 1 .. 2
MCQMaxPushes == <<1, 2>>
MCQMaxPops == <<1, 1>>
=============================================================================
