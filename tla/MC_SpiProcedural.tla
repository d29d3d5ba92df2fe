-------------------------- MODULE MC_SpiProcedural --------------------------
(* Instances of SpiProcedural for TLC. *)
EXTENDS SpiProcedural

\* Empty, short and long replies, and lengths below zero.
BoardSays == {-2, -1, 0, 1, 2, 4, 5, 6}
=============================================================================
