-------------------------- MODULE MCParallelForEach --------------------------
(***************************************************************************)
(* A pool of two workers: one may sleep, steal or run while the other does *)
(* any of these.  Task r forks c, which goes to the deque of the worker    *)
(* that runs r.  A caller passes every range of up to five elements, cut   *)
(* into at most three chunks, of two, three or (more than the range holds) *)
(* seven.                                                                  *)
(***************************************************************************)
EXTENDS ParallelForEach

CONSTANTS x, y, r, c, q

MCClients == {x, y}
MCTask == {r, c, q} \cup (Callers \X (0 .. MaxDistance - 1))
MCSubmits == [e \in MCClients |-> IF e = x THEN {r} ELSE {q}]
MCForks == [t \in MCTask |-> IF t = r THEN <<c>> ELSE <<>>]
MCChunkSizes == {2, 3, 7}
=============================================================================
