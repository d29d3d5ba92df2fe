--------------------------- MODULE MC_Supervision ---------------------------
(* Instances of Supervision for TLC. *)
EXTENDS Supervision
=============================================================================
