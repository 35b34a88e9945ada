---------------------------- MODULE MCThreadPool ----------------------------
(***************************************************************************)
(* ThreadPool with two workers: one may sleep, steal or run while the      *)
(* other does any of these.  Task r forks c, which goes to the deque of    *)
(* the worker that runs r.                                                 *)
(***************************************************************************)
EXTENDS ThreadPool

CONSTANTS x, y, r, c, q

MCClients == {x, y}
MCTask == {r, c, q}
MCSubmits == [e \in MCClients |-> IF e = x THEN {r} ELSE {q}]
MCForks == [t \in MCTask |-> IF t = r THEN <<c>> ELSE <<>>]
=============================================================================
