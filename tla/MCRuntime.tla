----------------------------- MODULE MCRuntime -----------------------------
(***************************************************************************)
(* Model-checking instances of Runtime.                                    *)
(***************************************************************************)
EXTENDS Runtime, TLC

HandleSymmetry == Permutations(Objects)
=============================================================================
