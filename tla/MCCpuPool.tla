----------------------------- MODULE MCCpuPool -----------------------------
(***************************************************************************)
(* Model-checking instances of CpuPool.  Pages are 2 bytes and size_t      *)
(* counts modulo 8, so that sizes 0 and 7 both need 0 blocks (the second   *)
(* because the rounding addition wraps) and size 6 needs 3.                *)
(***************************************************************************)
EXTENDS CpuPool, TLC

ThreadSymmetry == Permutations(Threads)
=============================================================================
