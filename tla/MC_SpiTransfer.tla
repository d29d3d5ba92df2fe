--------------------------- MODULE MC_SpiTransfer ---------------------------
(* Instances of SpiTransfer for TLC. *)
EXTENDS SpiTransfer, TLC

Symmetry == Permutations(Cells)
=============================================================================
