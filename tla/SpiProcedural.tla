--------------------------- MODULE SpiProcedural ----------------------------
(***************************************************************************)
(* One transfer of transfer/spi.c: spi_master_transfer in procedural mode  *)
(* with spi_procedural_transfer_data, from the task the worker dequeued to *)
(* the end flag.  The master tells the board with a word in its transfer   *)
(* register that a transfer starts, changes direction or ends, and moves   *)
(* the data in chunks.  Every register access can fail.  The reply of a    *)
(* board is stored in memory allocated here; the text of a message was     *)
(* allocated by spi_transfer_msg unless it lies in the buffer of the IPC   *)
(* handler (transfer_mode & 0x10).  The length of a reply is a signed word *)
(* from the board, and only its upper bound is tested.                     *)
(***************************************************************************)
EXTENDS Integers

CONSTANTS
  Chunk,     \* SPI_BUFFER_SIZE
  MaxData,   \* SPI_MAX_DATASIZE
  Lengths,   \* lengths of what callers send
  Replies    \* lengths the board announces, which may be negative

ASSUME ProceduralAssumption ==
  /\ Chunk \in Nat \ {0} /\ MaxData \in Nat
  /\ Lengths \subseteq Nat \ {0} /\ Replies \subseteq Int

VARIABLES
  req,      \* what the caller asked for
  pc,       \* the register access that comes next
  wrlen,    \* bytes still to be written
  rdlen,    \* bytes still to be read
  len,      \* bytes of the reply
  done,     \* spitask->transfer_len
  flag,     \* spitask->transfer_flag
  status,   \* spitask->transfer_status
  data,     \* what spitask->data points to
  mem,      \* blocks allocated: "text" of a message, "reply"
  twice,    \* a block was freed twice
  board,    \* what the board was told: in a transfer or not
  failed    \* history: a word for the board did not get through

vars == <<req, pc, wrlen, rdlen, len, done, flag, status, data, mem, twice, board, failed>>

\* The requests of the callers: spi_write_data, spi_send_msg, spi_rcv_msg and
\* spi_read_data, the messages also from the IPC handler, which would pass on a
\* read of a fixed length into its buffer too.
Request ==
  [op : {"write"}, text : {"caller"}, len : Lengths]
    \cup [op : {"sendMsg", "rcvMsg"}, text : {"alloc", "caller"}, len : Lengths]
    \cup [op : {"read"}, text : {"none"}, len : {-1}]
    \cup [op : {"readFixed"}, text : {"caller"}, len : Lengths]

Writes == req.op \in {"write", "sendMsg", "rcvMsg"}
Reads == req.op \in {"read", "readFixed", "rcvMsg"}
Frees == req.op \in {"sendMsg", "rcvMsg"} /\ req.text = "alloc"

Init ==
  /\ req \in Request
  /\ pc = "begin"
  /\ wrlen = 0 /\ rdlen = 0 /\ len = 0 /\ done = 0
  /\ flag = "wait" /\ status = "none"
  /\ data = req.text
  /\ mem = IF req.text = "alloc" THEN {"text"} ELSE {}
  /\ twice = FALSE
  /\ board = "idle" /\ failed = FALSE

\* spi_master_transfer takes the task; a write starts with the text.
Begin ==
  /\ pc = "begin"
  /\ flag' = "start"
  /\ pc' = IF Writes THEN "startWrite" ELSE "direction"
  /\ UNCHANGED <<req, wrlen, rdlen, len, done, status, data, mem, twice, board, failed>>

FreeBlock(b) ==
  /\ mem' = mem \ {b}
  /\ twice' = (twice \/ b \notin mem)

FreeText == IF Frees THEN FreeBlock("text") ELSE UNCHANGED <<mem, twice>>

\* Return of spi_procedural_transfer_data with an error.
Fail ==
  /\ status' = "err" /\ data' = "none"
  /\ pc' = "end"

WriteFailed ==
  /\ pc \in {"startWrite", "writeLen"}
  /\ FreeText /\ Fail
  /\ failed' = TRUE
  /\ UNCHANGED <<req, wrlen, rdlen, len, done, flag, board>>

StartWrite ==
  /\ pc = "startWrite"
  /\ board' = "open"
  /\ pc' = "writeLen"
  /\ UNCHANGED <<req, wrlen, rdlen, len, done, flag, status, data, mem, twice, failed>>

WriteLen ==
  /\ pc = "writeLen"
  /\ wrlen' = req.len
  /\ pc' = "write"
  /\ UNCHANGED <<req, rdlen, len, done, flag, status, data, mem, twice, board, failed>>

\* What is left after the next chunk.
Rest(n) == IF n > Chunk THEN n - Chunk ELSE 0

\* Mutant of WriteChunk: a chunk that fails leaves the text allocated.
WriteChunkLeaks ==
  /\ pc = "write" /\ wrlen > 0
  /\ wrlen' = Rest(wrlen) /\ done' = done + Rest(wrlen)
  /\ \/ UNCHANGED <<status, data, mem, twice, failed, pc>>
     \/ UNCHANGED <<mem, twice>> /\ Fail /\ failed' = TRUE
  /\ UNCHANGED <<req, rdlen, len, flag, board>>

\* A chunk counts towards transfer_len with what is left after it.
WriteChunk ==
  /\ pc = "write" /\ wrlen > 0
  /\ wrlen' = Rest(wrlen) /\ done' = done + Rest(wrlen)
  /\ \/ UNCHANGED <<status, data, mem, twice, failed, pc>>
     \/ FreeText /\ Fail /\ failed' = TRUE
  /\ UNCHANGED <<req, rdlen, len, flag, board>>

Written ==
  /\ pc = "write" /\ wrlen = 0
  /\ FreeText
  /\ pc' = "direction"
  /\ UNCHANGED <<req, wrlen, rdlen, len, done, flag, status, data, board, failed>>

\* Mutant of Direction: the outcome of the access is not looked at.
DirectionUnchecked ==
  /\ pc = "direction"
  /\ IF Reads THEN pc' = "readLen" /\ UNCHANGED status
              ELSE pc' = "end" /\ status' = "ok"
  /\ \/ board' = (IF Reads THEN "open" ELSE "idle") /\ UNCHANGED failed
     \/ failed' = TRUE /\ UNCHANGED board
  /\ UNCHANGED <<req, wrlen, rdlen, len, done, flag, data, mem, twice>>

\* The word that ends the write, turns it into a read, or starts a read.
Direction ==
  /\ pc = "direction"
  /\ \/ /\ board' = IF Reads THEN "open" ELSE "idle"
        /\ IF Reads THEN pc' = "readLen" /\ UNCHANGED status
                    ELSE pc' = "end" /\ status' = "ok"
        /\ UNCHANGED <<data, failed>>
     \/ Fail /\ failed' = TRUE /\ UNCHANGED board
  /\ UNCHANGED <<req, wrlen, rdlen, len, done, flag, mem, twice>>

\* The length of the reply, which the board is told or tells.  Too long a reply
\* is an error; any other one is given memory, of size 0 if the length is -1, and
\* below that there is none: dcp3000.bin exits.
Announced == IF req.op = "readFixed" THEN {req.len} ELSE Replies

ReadLen ==
  /\ pc = "readLen"
  /\ \/ \E n \in Announced :
          \/ /\ n > MaxData
             /\ status' = "err" /\ pc' = "close" /\ UNCHANGED <<rdlen, len, mem>>
          \/ /\ n \in -1..MaxData
             /\ rdlen' = n /\ len' = n
             /\ mem' = IF req.op = "readFixed" THEN mem ELSE mem \cup {"reply"}
             /\ pc' = "read" /\ UNCHANGED status
          \/ n < -1 /\ rdlen' = n /\ len' = n /\ pc' = "exit" /\ UNCHANGED <<status, mem>>
     \/ status' = "err" /\ pc' = "close" /\ UNCHANGED <<rdlen, len, mem>>
  /\ UNCHANGED <<req, wrlen, done, flag, data, twice, board, failed>>

\* What was allocated here for the reply (rddata_isalloc).
FreeReply == IF "reply" \in mem THEN FreeBlock("reply") ELSE UNCHANGED <<mem, twice>>

\* Mutant of ReadChunk: an error while reading returns without the last word.
ReadChunkReturns ==
  /\ pc = "read" /\ rdlen > 0
  /\ rdlen' = Rest(rdlen) /\ done' = done + Rest(rdlen)
  /\ \/ UNCHANGED <<status, mem, twice, pc, data>>
     \/ FreeReply /\ Fail
  /\ UNCHANGED <<req, wrlen, len, flag, board, failed>>

ReadChunk ==
  /\ pc = "read" /\ rdlen > 0
  /\ rdlen' = Rest(rdlen) /\ done' = done + Rest(rdlen)
  /\ \/ UNCHANGED <<status, mem, twice, pc>>
     \/ FreeReply /\ status' = "err" /\ pc' = "close"
  /\ UNCHANGED <<req, wrlen, len, flag, data, board, failed>>

ReadDone ==
  /\ pc = "read" /\ rdlen <= 0
  /\ pc' = "close"
  /\ UNCHANGED <<req, wrlen, rdlen, len, done, flag, status, data, mem, twice, board, failed>>

\* The word that ends a read, also after an error; the reply goes to the task,
\* with a 0 behind it, or in front of it if its length is -1.
Close ==
  /\ pc = "close"
  /\ \/ /\ board' = "idle" /\ UNCHANGED <<failed, mem, twice>>
        /\ IF status = "err" THEN data' = "none" /\ UNCHANGED status
           ELSE /\ data' = IF req.op = "readFixed" THEN "caller" ELSE "reply"
                /\ status' = "ok"
     \/ /\ failed' = TRUE /\ UNCHANGED board
        /\ FreeReply
        /\ status' = "err" /\ data' = "none"
  /\ pc' = "end"
  /\ UNCHANGED <<req, wrlen, rdlen, len, done, flag>>

End ==
  /\ pc = "end"
  /\ flag' = "end" /\ pc' = "done"
  /\ UNCHANGED <<req, wrlen, rdlen, len, done, status, data, mem, twice, board, failed>>

Next ==
  \/ Begin \/ WriteFailed \/ StartWrite \/ WriteLen \/ WriteChunk \/ Written
  \/ Direction \/ ReadLen \/ ReadChunk \/ ReadDone \/ Close \/ End

Spec == Init /\ [][Next]_vars

-----------------------------------------------------------------------------
\* The types of the state.
TypeOK ==
  /\ req \in Request
  /\ pc \in {"begin", "startWrite", "writeLen", "write", "direction", "readLen",
             "read", "close", "end", "done", "exit"}
  /\ wrlen \in Nat /\ rdlen \in Int /\ len \in Int /\ done \in Nat
  /\ flag \in {"wait", "start", "end"} /\ status \in {"none", "ok", "err"}
  /\ data \in {"alloc", "caller", "none", "reply"}
  /\ mem \subseteq {"text", "reply"}
  /\ twice \in BOOLEAN /\ failed \in BOOLEAN
  /\ board \in {"idle", "open"}

\* Whatever access fails and whatever length is announced, the text of a message
\* that spi_transfer_msg allocated is freed once, a reply is either handed to the
\* caller or freed, and the 0 behind it is inside its block, or one byte in front
\* of it, for a length of -1.
MemoryAccounted ==
  /\ ~twice
  /\ pc = "done" => mem = IF status = "ok" /\ Reads /\ req.op # "readFixed" THEN {"reply"} ELSE {}
  /\ data = "reply" => "reply" \in mem /\ len \in -1..MaxData

\* A transfer does not leave the board waiting inside it unless a word to the
\* board was lost: also a failed read and an oversize reply are closed.
BoardReleased == pc = "done" /\ board = "open" => failed

\* What the caller is told: wait_spi_transfer_end returns 0, and the length that
\* a read returns is not negative.
ToldSuccess == flag = "end" /\ status = "ok" /\ (Reads => len >= 0)

\* A caller is told that its transfer succeeded only if every byte was moved, a
\* reply fits its buffer and the board was told of the end; a length below 0 is
\* never taken for a reply.
SuccessIsComplete ==
  ToldSuccess => /\ wrlen = 0 /\ rdlen = 0 /\ (Reads => len <= MaxData)
                 /\ board = "idle" /\ ~failed
=============================================================================
