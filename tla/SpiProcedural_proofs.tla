------------------------ MODULE SpiProcedural_proofs -------------------------
(* Theorems about one procedural transfer, for every size of the chunks, of *)
(* the buffer and of the texts, whatever length, negative or not, a board   *)
(* announces.                                                               *)
EXTENDS SpiProcedural, TLAPS

Writing == {"startWrite", "writeLen", "write"}
Reading == {"readLen", "read", "close", "exit"}
Ended == {"end", "done"}

\* Only a task with a text is written, only one with a reply is read.
Direct ==
  /\ pc \in Writing => Writes
  /\ pc \in Reading => Reads

\* The text of a message is allocated until it is written.
Text ==
  /\ ~twice
  /\ "text" \in mem <=> req.text = "alloc" /\ pc \in Writing \cup {"begin"}

\* The reply is allocated from the time its length is known until an error, if
\* the caller brought no buffer.
Held ==
  \/ pc = "read"
  \/ pc = "close" /\ status = "none"
  \/ pc \in Ended /\ status = "ok" /\ Reads
Reply ==
  /\ "reply" \in mem <=> Held /\ req.op # "readFixed"
  /\ data = "reply" => pc \in Ended /\ "reply" \in mem

\* The outcome is known at the end, or when a read has gone wrong.
Outcome ==
  /\ pc \in Writing \cup {"begin", "direction", "readLen", "read", "exit"} => status = "none"
  /\ pc = "close" => status # "ok"
  /\ pc \in Ended => status # "none"
  /\ flag = "end" => pc = "done"

\* What is left to move, of a text and of a reply that was given memory.
Left ==
  /\ pc \notin {"write", "end", "done"} => wrlen = 0
  /\ status = "ok" => wrlen = 0
  /\ ~Reads => rdlen = 0
  /\ Held => /\ len \in -1..MaxData
             /\ pc = "read" /\ len >= 0 => rdlen >= 0
             /\ pc # "read" /\ len >= 0 => rdlen = 0

\* A lost word ends the transfer with an error; without one the board is told
\* of the end.
Told ==
  /\ failed => pc \in Ended /\ status = "err"
  /\ pc \in Ended /\ board = "open" => failed

Inv == TypeOK /\ Direct /\ Text /\ Reply /\ Outcome /\ Left /\ Told

-----------------------------------------------------------------------------
\* What is left after a chunk is a length.
LEMMA RestType == ASSUME NEW n \in Int, n > 0 PROVE Rest(n) \in Nat
  BY ProceduralAssumption DEF Rest

\* What the four calls ask for.
LEMMA Asked ==
  ASSUME req \in Request
  PROVE  /\ req.op \in {"write", "sendMsg", "rcvMsg", "read", "readFixed"}
         /\ req.text \in {"caller", "alloc", "none"}
         /\ req.op = "read" => req.text = "none"
         /\ req.op = "readFixed" => req.text = "caller"
         /\ req.op # "read" => req.len \in Nat \ {0}
         /\ req.text = "alloc" <=> Frees
  BY ProceduralAssumption DEF Request, Frees

LEMMA InitInv == Init => Inv
<1> SUFFICES ASSUME Init PROVE Inv
  OBVIOUS
<1>1. TypeOK
  <2>1. data \in {"alloc", "caller", "none", "reply"} /\ mem \subseteq {"text", "reply"}
    BY Asked DEF Init
  <2>2. 0 \in Nat /\ 0 \in Int
    OBVIOUS
  <2> QED
    BY <2>1, <2>2 DEF Init, TypeOK
<1>2. Text /\ Reply
  BY Asked DEF Init, Text, Reply, Held, Writing, Ended, Frees
<1> QED
  BY <1>1, <1>2 DEF Inv, Init, Direct, Outcome, Left, Told, Held, Writing, Reading, Ended

LEMMA NextInv == Inv /\ [Next]_vars => Inv'
<1> SUFFICES ASSUME Inv, [Next]_vars PROVE Inv'
  OBVIOUS
<1> USE Asked DEF Inv, TypeOK, Direct, Text, Reply, Outcome, Left, Told,
                  Held, Writing, Reading, Ended, Reads, Writes
<1>1. CASE Begin
  BY <1>1 DEF Begin
<1>2. CASE WriteFailed
  BY <1>2 DEF WriteFailed, FreeText, FreeBlock, Fail
<1>3. CASE StartWrite
  BY <1>3 DEF StartWrite
<1>4. CASE WriteLen
  BY <1>4 DEF WriteLen
<1>5. CASE WriteChunk
  <2>0. wrlen' \in Nat /\ done' \in Nat
    BY <1>5, RestType DEF WriteChunk
  <2>1. TypeOK'
    BY <1>5, <2>0 DEF WriteChunk, FreeText, FreeBlock, Fail
  <2>2. Direct' /\ Text' /\ Reply'
    BY <1>5 DEF WriteChunk, FreeText, FreeBlock, Fail
  <2>3. Outcome' /\ Left' /\ Told'
    BY <1>5 DEF WriteChunk, FreeText, FreeBlock, Fail
  <2> QED
    BY <2>1, <2>2, <2>3
<1>6. CASE Written
  BY <1>6 DEF Written, FreeText, FreeBlock
<1>7. CASE Direction
  <2>1. TypeOK'
    BY <1>7 DEF Direction, Fail
  <2>2. Direct' /\ Text' /\ Reply'
    BY <1>7 DEF Direction, Fail
  <2>3. Outcome' /\ Left' /\ Told'
    BY <1>7 DEF Direction, Fail
  <2> QED
    BY <2>1, <2>2, <2>3
<1>8. CASE ReadLen
  <2>4. Announced \subseteq Int
    <3>1. Reads /\ (req.op = "readFixed" => req.len \in Int)
      BY <1>8, Asked DEF ReadLen
    <3> QED
      BY <3>1, ProceduralAssumption DEF Announced
  <2>0. rdlen' \in Int /\ len' \in Int
    BY <1>8, <2>4 DEF ReadLen
  <2>1. TypeOK'
    BY <1>8, <2>0 DEF ReadLen
  <2>2. Direct' /\ Text' /\ Reply'
    BY <1>8, ProceduralAssumption DEF ReadLen, Announced
  <2>3. Outcome' /\ Left' /\ Told'
    BY <1>8, ProceduralAssumption DEF ReadLen, Announced
  <2> QED
    BY <2>1, <2>2, <2>3
<1>9. CASE ReadChunk
  <2>0. rdlen' \in Nat /\ done' \in Nat
    BY <1>9, RestType DEF ReadChunk
  <2>4. mem' \subseteq {"text", "reply"} /\ twice' \in BOOLEAN
    BY <1>9 DEF ReadChunk, FreeReply, FreeBlock
  <2>1. TypeOK'
    BY <1>9, <2>0, <2>4 DEF ReadChunk
  <2>2. Direct' /\ Text' /\ Reply'
    BY <1>9 DEF ReadChunk, FreeReply, FreeBlock
  <2>3. Outcome' /\ Left' /\ Told'
    BY <1>9, <2>0 DEF ReadChunk, FreeReply, FreeBlock
  <2> QED
    BY <2>1, <2>2, <2>3
<1>10. CASE ReadDone
  BY <1>10 DEF ReadDone
<1>11. CASE Close
  <2>1. TypeOK'
    BY <1>11 DEF Close, FreeReply, FreeBlock
  <2>2. Direct' /\ Text' /\ Reply'
    BY <1>11 DEF Close, FreeReply, FreeBlock
  <2>3. Outcome' /\ Left' /\ Told'
    BY <1>11 DEF Close, FreeReply, FreeBlock
  <2> QED
    BY <2>1, <2>2, <2>3
<1>12. CASE End
  BY <1>12 DEF End
<1>13. CASE UNCHANGED vars
  BY <1>13 DEF vars
<1> QED
  BY <1>1, <1>2, <1>3, <1>4, <1>5, <1>6, <1>7, <1>8, <1>9, <1>10, <1>11, <1>12, <1>13 DEF Next

-----------------------------------------------------------------------------
\* The invariant holds in every state of every transfer.
THEOREM AlwaysInv == Spec => []Inv
  BY InitInv, NextInv, PTL DEF Spec

\* The state keeps its types.
THEOREM TypeCorrect == Spec => []TypeOK
<1>1. Inv => TypeOK
  BY DEF Inv
<1> QED
  BY <1>1, AlwaysInv, PTL

\* Whatever register access fails and whatever length the board announces, a
\* negative one too (spi_procedural_transfer_data): the text of a message is freed
\* once, a reply is handed to the caller or freed, and the 0 behind it is inside its
\* block, or one byte in front of it.
THEOREM MemoryIsAccounted == Spec => []MemoryAccounted
<1>1. Inv => MemoryAccounted
  <2> SUFFICES ASSUME Inv PROVE MemoryAccounted
    OBVIOUS
  <2>1. pc = "done" => /\ "text" \notin mem
                       /\ "reply" \in mem <=> status = "ok" /\ Reads /\ req.op # "readFixed"
    BY DEF Inv, Text, Reply, Held, Writing, Ended
  <2>2. /\ mem \subseteq {"text", "reply"} /\ ~twice 
    BY DEF Inv, TypeOK, Text
  <2>3. data = "reply" => "reply" \in mem /\ len \in -1..MaxData
    BY DEF Inv, Reply, Left, Held, Ended
  <2> QED
    BY <2>1, <2>2, <2>3 DEF MemoryAccounted
<1> QED
  BY <1>1, AlwaysInv, PTL

\* The board is told of the end of every transfer, unless a word was lost.
THEOREM BoardIsReleased == Spec => []BoardReleased
<1>1. Inv => BoardReleased
  BY DEF Inv, Told, Ended, BoardReleased
<1> QED
  BY <1>1, AlwaysInv, PTL

\* Success is reported only of a complete transfer, whatever length the board
\* announces (spi_master_transfer, wait_spi_transfer_end, spi_read_data).
THEOREM ReportedSuccessIsComplete == Spec => []SuccessIsComplete
<1>1. Inv => SuccessIsComplete
  <2> SUFFICES ASSUME Inv, ToldSuccess PROVE SuccessIsComplete
    BY DEF SuccessIsComplete
  <2>1. pc = "done" /\ wrlen = 0 /\ board = "idle" /\ ~failed
    BY DEF Inv, TypeOK, Outcome, Left, Told, Ended, ToldSuccess
  <2>2. Reads => rdlen = 0 /\ len <= MaxData
    BY <2>1, ProceduralAssumption DEF Inv, Left, Held, Ended, ToldSuccess
  <2>3. ~Reads => rdlen = 0
    BY DEF Inv, Left
  <2> QED
    BY <2>1, <2>2, <2>3 DEF SuccessIsComplete
<1> QED
  BY <1>1, AlwaysInv, PTL
=============================================================================
