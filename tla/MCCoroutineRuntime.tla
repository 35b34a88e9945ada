------------------------- MODULE MCCoroutineRuntime -------------------------
(***************************************************************************)
(* Two jobs, two descriptors, and a pool of three or four blocks, which is *)
(* too small or just large enough: descriptors and blocks are used again,  *)
(* two events may be ready while one epoll_wait takes one, and a frame of  *)
(* 257 bytes does not fit into a block rounded up from 250 to 256.         *)
(***************************************************************************)
EXTENDS CoroutineRuntime

MCPoolSizes == {3, 4}
MCBlockSize == 250
MCFrameSizes == {256, 257}
MCTimeouts == {-1, 0, 50}
MCMaxEvents == 1
MCMaxPools == 2
=============================================================================
