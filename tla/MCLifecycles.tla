---------------------------- MODULE MCLifecycles ----------------------------
(***************************************************************************)
(* Model-checking instance of Lifecycles.                                  *)
(***************************************************************************)
EXTENDS Lifecycles, TLC

Symmetry == Permutations(Rings) \cup Permutations(Addrs)
=============================================================================
