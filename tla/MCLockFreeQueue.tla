-------------------------- MODULE MCLockFreeQueue --------------------------
(***************************************************************************)
(* LockFreeQueue on a small ring.  Two values make every order of a full   *)
(* ring visible, and the run has no other bound: the indices wrap and the  *)
(* state space is complete.                                                *)
(***************************************************************************)
EXTENDS LockFreeQueue

MCRingCapacity == 3
=============================================================================
