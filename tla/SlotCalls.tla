----------------------------- MODULE SlotCalls ------------------------------
(***************************************************************************)
(* What spi_read_block, spi_write_block, spi_send_msg and the like promise *)
(* their callers while the board stays in its slot: every call is carried  *)
(* out exactly once and returns the outcome of its own transfer.           *)
(***************************************************************************)
CONSTANT Callers

VARIABLE call  \* the call of each caller: none, asked for, or its outcome

Init == call = [c \in Callers |-> "idle"]

Ask(c) ==
  /\ call[c] = "idle"
  /\ call' = [call EXCEPT ![c] = "asked"]

Serve(c) ==
  /\ call[c] = "asked"
  /\ \E r \in {"ok", "err"} : call' = [call EXCEPT ![c] = r]

Return(c) ==
  /\ call[c] \in {"ok", "err"}
  /\ call' = [call EXCEPT ![c] = "idle"]

Next == \E c \in Callers : Ask(c) \/ Serve(c) \/ Return(c)

Safety == Init /\ [][Next]_call

Spec ==
  /\ Safety
  /\ \A c \in Callers : WF_call(Serve(c)) /\ WF_call(Return(c))
=============================================================================
