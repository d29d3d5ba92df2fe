------------------------ MODULE MC_TransceiverRoutes ------------------------
(* Instances of TransceiverRoutes for TLC. *)
EXTENDS TransceiverRoutes, TLC

CONSTANTS c1, c2, r1, r2

\* The channels and one route are in slot 1, the other route in slot 2.
TwoSlots == c1 :> 1 @@ c2 :> 1 @@ r1 :> 1 @@ r2 :> 2

\* The route of the first board was stored before the main board was booted.
Shared == {[r \in Routes |-> IF r = r1 THEN c1 ELSE None]}
=============================================================================
