---------------------------- MODULE MC_SlotBoard ----------------------------
(* Instances of SlotBoard for TLC. *)
EXTENDS SlotBoard

CONSTANT Gone  \* boards that are known from before and never plugged in

\* All boards differ in the low byte of their type alone.
OneSort == [b \in Maybe |-> IF b = None THEN "none" ELSE "card"]

\* The slot knows no board or one that is gone, and another is plugged in.
Replaced == board \notin Gone /\ (plugs = 0 => known \in Gone \cup {None})
=============================================================================
