------------------------- MODULE MC_MessageChannel --------------------------
(* Instances of MessageChannel for TLC. *)
EXTENDS MessageChannel

\* Processes of one thread each.
OneThreadEach == [c \in Clients |-> c]
=============================================================================
