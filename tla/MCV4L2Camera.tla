---------------------------- MODULE MCV4L2Camera ----------------------------
(***************************************************************************)
(* Model-checking instances of V4L2Camera.                                 *)
(***************************************************************************)
EXTENDS V4L2Camera, TLC

\* Threads are interchangeable, and so are descriptors.
ThreadSymmetry == Permutations(Threads) \cup Permutations(Fds)
=============================================================================
