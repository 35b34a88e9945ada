------------------------------- MODULE MCRcu -------------------------------
(***************************************************************************)
(* Rcu with more threads than records, so that registration can fail, and  *)
(* enough objects for two updates to overlap.                              *)
(***************************************************************************)
EXTENDS Rcu

MCSlots == 2
=============================================================================
