------------------------- MODULE MCLockedContainers -------------------------
(***************************************************************************)
(* Two keys in each of two buckets would only repeat what one key in each  *)
(* shows: a get_map between two changes of different buckets.              *)
(***************************************************************************)
EXTENDS LockedContainers

MCKeys == 3 .. 4
MChasher == [k \in MCKeys |-> k]
=============================================================================
