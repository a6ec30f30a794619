----------------------------- MODULE MCGpuAlloc -----------------------------
(***************************************************************************)
(* Model-checking instance of GpuAlloc.                                    *)
(***************************************************************************)
EXTENDS GpuAlloc, TLC

KernelSymmetry ==
  Permutations(Threads) \cup Permutations(Addrs) \cup Permutations(Handles)
=============================================================================
