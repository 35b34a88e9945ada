------------------------------ MODULE MCChannel ------------------------------
(***************************************************************************)
(* Two senders of two values each and two receivers on two threads: both   *)
(* lists of waiters fill up, and a resumed coroutine may resume another.   *)
(***************************************************************************)
EXTENDS Channel

MCCapacity == 1
MCMaxSends == 2
=============================================================================
