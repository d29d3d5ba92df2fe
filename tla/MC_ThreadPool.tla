---------------------------- MODULE MC_ThreadPool ----------------------------
(* Instances of ThreadPool for TLC. *)
EXTENDS ThreadPool, TLC

Symmetry == Permutations(Workers)
=============================================================================
