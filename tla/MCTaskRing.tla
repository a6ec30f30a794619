----------------------------- MODULE MCTaskRing -----------------------------
(***************************************************************************)
(* Model-checking instances of TaskRing.                                   *)
(***************************************************************************)
EXTENDS TaskRing, TLC

ItemSymmetry == Permutations(Items)
=============================================================================
