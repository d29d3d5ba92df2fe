--------------------------- MODULE EventLog_proofs ---------------------------
(***************************************************************************)
(* Theorems about module EventLog, for any number of processes that log    *)
(* with one thread each, any size of the ring and any number of calls and  *)
(* deaths.  The lock then keeps everybody else out of the file while a     *)
(* call is between two of its steps (Alone), so that what the call has     *)
(* read and written so far can be stated step by step (Progress).          *)
(***************************************************************************)
EXTENDS EventLog, SequenceTheorems, TLAPS

OneThread == \A t, u \in Threads : Proc[t] = Proc[u] => t = u

\* Where a call that writes has the lock, and one that reads.
Inside == {"seekHead", "readHead", "bump", "fill", "seekRec", "writeRec",
           "seekSn", "writeSn", "writeCount", "writeCursor", "unlock"}
Calling == Inside \cup {"lock"}
Reading == {"rdSeek", "rdHead", "ask", "mutex", "records", "rdUnlock"}
Fields == {"seekSn", "writeSn", "writeCount", "writeCursor"}

Own(t) == mem[Proc[t]]

\* A header between two calls has its count and cursor in range, and so have
\* the copies the processes keep.
InFile == [sn : Nat, count : 0 .. MaxQty, cursor : 0 .. MaxQty]
Types == TypeOK /\ mem \in [Procs -> InFile]

\* Readers and writers keep each other out.
Alone ==
  /\ readers # {} => lock = Free
  /\ \A t \in Threads :
       /\ pc[t] \in Inside => lock = Proc[t]
       /\ pc[t] \in Reading => Proc[t] \in readers

\* Each write is made where it is meant to go.
InPlace(t) ==
  /\ pc[t] \in {"readHead", "rdHead"} => offset[Proc[t]] = AtHead
  /\ pc[t] = "writeRec" => offset[Proc[t]] = AtRecord(Own(t).cursor)
  /\ pc[t] = "writeSn" => offset[Proc[t]] = AtSn
  /\ pc[t] = "writeCount" => offset[Proc[t]] = AtCount
  /\ pc[t] = "writeCursor" => offset[Proc[t]] = AtCursor

\* How far a call of add_log is.
Adding(t) ==
  /\ id[t] \in 1 .. MaxAdds
  /\ pc[t] = "bump" => Own(t) = head
  /\ pc[t] \in {"fill", "seekRec", "writeRec"} \cup Fields => Own(t).cursor = Wrapped(head.cursor + 1)
  /\ pc[t] \in {"fill", "seekRec", "writeRec", "seekSn", "writeSn"} => Own(t).sn = head.sn + 1
  /\ pc[t] \in {"fill", "seekRec", "writeRec", "seekSn", "writeSn", "writeCount"} => Own(t).count = Capped(head.count + 1)
  /\ pc[t] \in {"writeCount", "writeCursor"} => head.sn = Own(t).sn
  /\ pc[t] = "writeCursor" => head.count = Own(t).count
  /\ pc[t] \in {"seekRec", "writeRec"} => rec[Proc[t]] = id[t]
  /\ pc[t] \in Fields => ring[Own(t).cursor] = id[t]

\* How far a call of clean_logs is.
Cleaning(t) ==
  /\ Own(t) = Empty
  /\ pc[t] \in {"lock", "unlock"} \cup Fields
  /\ pc[t] \in {"writeCount", "writeCursor"} => head.sn = 0
  /\ pc[t] = "writeCursor" => head.count = 0

Progress(t) ==
  /\ InPlace(t)
  /\ pc[t] \in Calling /\ op[t] = "add" => Adding(t)
  /\ pc[t] \in Calling /\ op[t] = "clean" => Cleaning(t)
  /\ pc[t] \in {"ask", "mutex", "records"} => Own(t) = head
  /\ pc[t] \in {"mutex", "records"} => ask[t] \in Requests /\ ask[t].kind # "info"

CallInv == Types /\ Alone /\ \A t \in Threads : Progress(t)

\* The cursor tells where the last record is, whoever died.
Position(n) == IF n = 0 THEN 0 ELSE 1 + ((n - 1) % MaxQty)
CursorExact == head.cursor = Position(Added)

\* The records behind the cursor are those last added, except the oldest one
\* while its successor is being written and after a death.
Overwritten == \E t \in Threads : pc[t] \in Fields /\ op[t] = "add"
Kept ==
  \A k \in 0 .. MaxQty - 1 :
    k < Added /\ (k < MaxQty - 1 \/ (crashes = 0 /\ ~Overwritten)) => ring[SlotBack(k)] = log[Added - k]

\* What the header says while nobody has died: the numbers of the log, or those
\* that the call under way will leave.
AddedNext(t) == IF op[t] = "add" THEN Added + 1 ELSE 0
Exact ==
  crashes = 0 =>
    /\ (\A t \in Threads : pc[t] \notin {"writeCount", "writeCursor"}) => head.sn = Added
    /\ (\A t \in Threads : pc[t] # "writeCursor") => head.count = AtMost(Added, MaxQty)
    /\ \A t \in Threads :
         /\ pc[t] \in {"writeCount", "writeCursor"} => head.sn = AddedNext(t)
         /\ pc[t] = "writeCursor" => head.count = AtMost(AddedNext(t), MaxQty)

LogInv == CallInv /\ CursorExact /\ Kept /\ Exact
-----------------------------------------------------------------------------
LEMMA Bounds ==
  /\ MaxQty \in Nat /\ MaxQty >= 1
  /\ MaxAdds \in Nat /\ MaxCleans \in Nat /\ MaxReads \in Nat /\ MaxCrashes \in Nat
  /\ \A t \in Threads : Proc[t] \in Procs
  /\ \A t \in Threads : Proc[t] # Free
BY LogAssumption

LEMMA Typed == ASSUME Types PROVE
  /\ head.sn \in Nat /\ head.count \in 0 .. MaxQty /\ head.cursor \in 0 .. MaxQty
  /\ head \in InFile
  /\ head = [sn |-> head.sn, count |-> head.count, cursor |-> head.cursor]
  /\ ring \in [1 .. MaxQty -> 0 .. MaxAdds]
  /\ \A t \in Threads :
       /\ Own(t) \in InFile
       /\ Own(t).sn \in Nat /\ Own(t).count \in 0 .. MaxQty /\ Own(t).cursor \in 0 .. MaxQty
       /\ offset[Proc[t]] \in Nat /\ rec[Proc[t]] \in 0 .. MaxAdds
       /\ pc[t] \in Pc /\ op[t] \in {"add", "clean"} /\ id[t] \in 0 .. MaxAdds
BY Bounds DEF Types, TypeOK, InFile, Own

\* What write() does at the offsets that occur.
LEMMA Writes ==
  ASSUME Types, NEW t \in Threads, NEW v, Write(t, v)
  PROVE /\ offset' = [offset EXCEPT ![Proc[t]] = offset[Proc[t]] + 1]
        /\ offset[Proc[t]] = AtSn =>
             head' = [sn |-> v, count |-> head.count, cursor |-> head.cursor] /\ ring' = ring
        /\ offset[Proc[t]] = AtCount =>
             head' = [sn |-> head.sn, count |-> v, cursor |-> head.cursor] /\ ring' = ring
        /\ offset[Proc[t]] = AtCursor =>
             head' = [sn |-> head.sn, count |-> head.count, cursor |-> v] /\ ring' = ring
        /\ \A k \in 1 .. MaxQty : offset[Proc[t]] = AtRecord(k) =>
             head' = head /\ ring' = [ring EXCEPT ![k] = v]
<1> DEFINE o == offset[Proc[t]]
<1>1. /\ offset' = [offset EXCEPT ![Proc[t]] = offset[Proc[t]] + 1]
      /\ head' = [sn     |-> IF o = AtSn THEN v ELSE head.sn,
                  count  |-> IF o = AtCount THEN v ELSE head.count,
                  cursor |-> IF o = AtCursor THEN v ELSE head.cursor]
      /\ ring' = [k \in 1 .. MaxQty |-> IF o = AtRecord(k) THEN v ELSE ring[k]]
  BY DEF Write, Seek
<1>2. head = [sn |-> head.sn, count |-> head.count, cursor |-> head.cursor]
  BY Typed
<1>3. ring = [k \in 1 .. MaxQty |-> ring[k]]
  BY Typed
<1>4. ASSUME o \in {AtSn, AtCount, AtCursor} PROVE ring' = ring
  <2>1. \A k \in 1 .. MaxQty : o # AtRecord(k)
    BY <1>4, Bounds DEF AtSn, AtCount, AtCursor, AtRecord
  <2> QED BY <1>1, <1>3, <2>1
<1>5. o = AtSn => head' = [sn |-> v, count |-> head.count, cursor |-> head.cursor]
  BY <1>1 DEF AtSn, AtCount, AtCursor
<1>6. o = AtCount => head' = [sn |-> head.sn, count |-> v, cursor |-> head.cursor]
  BY <1>1 DEF AtSn, AtCount, AtCursor
<1>7. o = AtCursor => head' = [sn |-> head.sn, count |-> head.count, cursor |-> v]
  BY <1>1 DEF AtSn, AtCount, AtCursor
<1>8. ASSUME NEW k \in 1 .. MaxQty, o = AtRecord(k)
      PROVE head' = head /\ ring' = [ring EXCEPT ![k] = v]
  <2>1. o # AtSn /\ o # AtCount /\ o # AtCursor
    BY <1>8, Bounds DEF AtSn, AtCount, AtCursor, AtRecord
  <2>2. \A j \in 1 .. MaxQty : o = AtRecord(j) <=> j = k
    BY <1>8, Bounds DEF AtRecord
  <2>3. head' = head
    BY <1>1, <1>2, <2>1
  <2>4. ring' = [ring EXCEPT ![k] = v]
    BY <1>1, <1>3, <2>2, Typed
  <2> QED BY <2>3, <2>4
<1> QED BY <1>1, <1>4, <1>5, <1>6, <1>7, <1>8

\* Nobody else is inside a call.
LEMMA Excluded ==
  ASSUME CallInv, OneThread, NEW t \in Threads, pc[t] \in Inside, NEW u \in Threads, u # t
  PROVE pc[u] \notin Inside
BY DEF CallInv, Alone, OneThread

\* A step of t does not disturb what another thread has done.
LEMMA Others ==
  ASSUME CallInv, OneThread, NEW t \in Threads, NEW u \in Threads, u # t,
         pc'[u] = pc[u], op'[u] = op[u], id'[u] = id[u], ask'[u] = ask[u],
         mem'[Proc[u]] = mem[Proc[u]], offset'[Proc[u]] = offset[Proc[u]], rec'[Proc[u]] = rec[Proc[u]],
         (head' = head /\ ring' = ring) \/ pc[t] \in Inside
  PROVE Progress(u)'
<1>1. Progress(u)
  BY DEF CallInv
<1>2. CASE head' = head /\ ring' = ring
  BY <1>1, <1>2 DEF Progress, InPlace, Adding, Cleaning, Own
<1>3. CASE pc[t] \in Inside
  <2>1. pc[u] \notin Inside
    BY <1>3, Excluded
  <2>2. pc[u] \notin Reading
    BY <1>3, Bounds DEF CallInv, Alone
  <2>3. pc[u] \in {"idle", "lock", "down", "rdLock"}
    BY <2>1, <2>2, Typed DEF CallInv, Inside, Reading, Pc
  <2> QED BY <1>1, <2>3 DEF Progress, InPlace, Adding, Cleaning, Own, Fields, Calling, Inside
<1> QED BY <1>2, <1>3
\* The invariant of the calls after a step of t, by what the step does for t.
LEMMA StepOf ==
  ASSUME CallInv, OneThread, NEW t \in Threads,
         \A p \in Procs : p # Proc[t] => mem'[p] = mem[p] /\ offset'[p] = offset[p] /\ rec'[p] = rec[p],
         \A u \in Threads : u # t => pc'[u] = pc[u] /\ op'[u] = op[u] /\ id'[u] = id[u] /\ ask'[u] = ask[u],
         (head' = head /\ ring' = ring) \/ pc[t] \in Inside,
         lock' = lock \/ lock \in {Free, Proc[t]},
         readers' \ {Proc[t]} = readers \ {Proc[t]},
         readers' # {} => lock' = Free,
         pc'[t] \in Inside => lock' = Proc[t],
         pc'[t] \in Reading => Proc[t] \in readers',
         Types', Progress(t)'
  PROVE CallInv'
<1>1. ASSUME NEW u \in Threads, u # t PROVE Progress(u)'
  <2>1. Proc[u] \in Procs /\ Proc[u] # Proc[t]
    BY <1>1, Bounds DEF OneThread
  <2> QED BY <1>1, <2>1, Others
<1>2. ASSUME NEW u \in Threads, u # t, pc'[u] \in Inside PROVE lock' = Proc[u]
  <2>1. Proc[u] # Proc[t] /\ Proc[u] # Free
    BY <1>2, Bounds DEF OneThread
  <2>2. lock = Proc[u]
    BY <1>2 DEF CallInv, Alone
  <2> QED BY <2>1, <2>2
<1>3. ASSUME NEW u \in Threads, u # t, pc'[u] \in Reading PROVE Proc[u] \in readers'
  <2>1. Proc[u] # Proc[t]
    BY <1>3 DEF OneThread
  <2>2. Proc[u] \in readers
    BY <1>3 DEF CallInv, Alone
  <2> QED BY <2>1, <2>2
<1> QED BY <1>1, <1>2, <1>3 DEF CallInv, Alone

\* What is known of the calls before a step of t.
LEMMA Before ==
  ASSUME CallInv, NEW t \in Threads
  PROVE /\ Types /\ Progress(t) /\ InPlace(t)
        /\ readers # {} => lock = Free
        /\ pc[t] \in Inside => lock = Proc[t] /\ readers = {}
        /\ pc[t] \in Reading => Proc[t] \in readers
        /\ pc[t] \in Calling /\ op[t] = "add" => Adding(t)
        /\ pc[t] \in Calling /\ op[t] = "clean" => Cleaning(t)
        /\ op[t] \in {"add", "clean"}
BY Typed, Bounds DEF CallInv, Alone, Progress

LEMMA Rounds ==
  /\ \A n \in Nat : Capped(n) \in 0 .. MaxQty
  /\ \A n \in 0 .. MaxQty : Wrapped(n + 1) \in 1 .. MaxQty
BY Bounds DEF Capped, Wrapped

LEMMA AddLogStep ==
  ASSUME CallInv, OneThread, NEW t \in Threads, AddLog(t) PROVE CallInv'
<1>1. Types'
  <2>1. /\ UNCHANGED <<head, ring, lock, readers, mutex, mem, offset, rec, cleans, reads, crashes, ask, log>>
        /\ pc' = [pc EXCEPT ![t] = "lock"] /\ op' = [op EXCEPT ![t] = "add"]
        /\ id' = [id EXCEPT ![t] = adds + 1] /\ adds' = adds + 1 /\ adds < MaxAdds
    BY DEF AddLog, fileVars, procVars, lockVars, readVars, Goto
  <2>2. /\ pc' \in [Threads -> Pc] /\ op' \in [Threads -> {"add", "clean"}]
        /\ id' \in [Threads -> 0 .. MaxAdds] /\ adds' \in 0 .. MaxAdds
    <3>1. /\ pc \in [Threads -> Pc] /\ op \in [Threads -> {"add", "clean"}]
          /\ id \in [Threads -> 0 .. MaxAdds] /\ adds \in 0 .. MaxAdds
      BY Before DEF Types, TypeOK
    <3>2. "lock" \in Pc
      BY DEF Pc
    <3>3. adds + 1 \in 0 .. MaxAdds
      BY <2>1, <3>1, Bounds
    <3> QED BY <2>1, <3>1, <3>2, <3>3
  <2> QED BY <2>1, <2>2, Before DEF Types, TypeOK
<1>2. Progress(t)'
  <2>1. pc'[t] = "lock" /\ op'[t] = "add" /\ id'[t] \in 1 .. MaxAdds
    BY Before, Bounds DEF AddLog, Types, TypeOK, Goto
  <2> QED BY <2>1 DEF Progress, InPlace, Adding, Fields
<1> QED
  BY <1>1, <1>2, Before, StepOf DEF AddLog, fileVars, procVars, lockVars, readVars, Goto, Inside, Reading, CallInv, Types, TypeOK

LEMMA CleanLogsStep ==
  ASSUME CallInv, OneThread, NEW t \in Threads, CleanLogs(t) PROVE CallInv'
<1>1. Types'
  <2>1. /\ UNCHANGED <<head, ring, lock, readers, offset, rec, id, adds, reads, crashes, ask, log>>
        /\ pc' = [pc EXCEPT ![t] = "lock"] /\ op' = [op EXCEPT ![t] = "clean"]
        /\ mem' = [mem EXCEPT ![Proc[t]] = Empty] /\ cleans' = cleans + 1 /\ cleans < MaxCleans
        /\ mutex' = [mutex EXCEPT ![Proc[t]] = TRUE]
    BY DEF CleanLogs, fileVars, readVars, Goto
  <2>2. /\ pc' \in [Threads -> Pc] /\ op' \in [Threads -> {"add", "clean"}] /\ cleans' \in 0 .. MaxCleans
    <3>1. pc \in [Threads -> Pc] /\ op \in [Threads -> {"add", "clean"}] /\ cleans \in 0 .. MaxCleans
      BY Before DEF Types, TypeOK
    <3>2. "lock" \in Pc
      BY DEF Pc
    <3>3. cleans + 1 \in 0 .. MaxCleans
      BY <2>1, <3>1, Bounds
    <3> QED BY <2>1, <3>1, <3>2, <3>3
  <2>5. mutex' \in [Procs -> BOOLEAN]
    BY <2>1, Before, Bounds DEF Types, TypeOK
  <2>3. Empty \in InFile /\ Empty \in Header
    BY Bounds DEF Empty, InFile, Header
  <2>4. mem' \in [Procs -> InFile] /\ mem' \in [Procs -> Header]
    BY <2>1, <2>3, Before DEF Types, TypeOK
  <2> QED BY <2>1, <2>2, <2>4, <2>5, Before DEF Types, TypeOK
<1>2. Progress(t)'
  BY Before, Bounds DEF CleanLogs, Types, TypeOK, fileVars, Goto, Progress, InPlace, Adding, Cleaning, Fields, Own
<1> QED
  BY <1>1, <1>2, Before, StepOf DEF CleanLogs, fileVars, readVars, Goto, Inside, Reading, CallInv, Types, TypeOK

LEMMA LockStep ==
  ASSUME CallInv, OneThread, NEW t \in Threads, Lock(t) PROVE CallInv'
<1>1. Types'
  BY Before, Bounds DEF Lock, Types, TypeOK, fileVars, procVars, callVars, lockVars, readVars, Goto, Pc
<1>2. Progress(t)'
  BY Before, Bounds DEF Lock, Types, TypeOK, fileVars, procVars, callVars, lockVars, readVars, Goto, Progress, InPlace, Adding, Cleaning, Fields, Own, Calling, Inside, Pc
<1> QED
  BY <1>1, <1>2, Before, StepOf DEF Lock, fileVars, procVars, callVars, lockVars, readVars, Goto, Inside, Reading, CallInv, Types, TypeOK

LEMMA SeekHeadStep ==
  ASSUME CallInv, OneThread, NEW t \in Threads, SeekHead(t) PROVE CallInv'
<1>1. /\ UNCHANGED <<head, ring, lock, readers, mutex, mem, rec, log, op, id, adds, cleans, reads, crashes, ask>>
      /\ pc[t] = "seekHead" /\ pc' = [pc EXCEPT ![t] = "readHead"]
      /\ offset' = [offset EXCEPT ![Proc[t]] = AtHead]
  BY DEF SeekHead, Goto, Seek, fileVars, procVars, callVars, lockVars, readVars
<1>2. AtHead \in Nat
  BY Before, Typed, Bounds DEF AtHead, AtSn, AtRecord
<1>3. Types'
  BY <1>1, <1>2, Before DEF Types, TypeOK, Pc
<1>4. Progress(t)'
  BY <1>1, Before, Bounds DEF Types, TypeOK, Progress, InPlace, Adding, Cleaning, Fields, Own, Calling, Inside, Pc
<1> QED
  BY <1>1, <1>3, <1>4, Before, StepOf DEF Inside, Reading, Pc, Types, TypeOK

LEMMA SeekRecordStep ==
  ASSUME CallInv, OneThread, NEW t \in Threads, SeekRecord(t) PROVE CallInv'
<1>1. /\ UNCHANGED <<head, ring, lock, readers, mutex, mem, rec, log, op, id, adds, cleans, reads, crashes, ask>>
      /\ pc[t] = "seekRec" /\ pc' = [pc EXCEPT ![t] = "writeRec"]
      /\ offset' = [offset EXCEPT ![Proc[t]] = AtRecord(Own(t).cursor)]
  BY DEF Own, SeekRecord, Goto, Seek, fileVars, procVars, callVars, lockVars, readVars
<1>2. AtRecord(Own(t).cursor) \in Nat
  BY Before, Typed, Bounds DEF AtHead, AtSn, AtRecord
<1>3. Types'
  BY <1>1, <1>2, Before DEF Types, TypeOK, Pc
<1>4. Progress(t)'
  BY <1>1, Before, Bounds DEF Types, TypeOK, Progress, InPlace, Adding, Cleaning, Fields, Own, Calling, Inside, Pc
<1> QED
  BY <1>1, <1>3, <1>4, Before, StepOf DEF Inside, Reading, Pc, Types, TypeOK

LEMMA SeekSnStep ==
  ASSUME CallInv, OneThread, NEW t \in Threads, SeekSn(t) PROVE CallInv'
<1>1. /\ UNCHANGED <<head, ring, lock, readers, mutex, mem, rec, log, op, id, adds, cleans, reads, crashes, ask>>
      /\ pc[t] = "seekSn" /\ pc' = [pc EXCEPT ![t] = "writeSn"]
      /\ offset' = [offset EXCEPT ![Proc[t]] = AtSn]
  BY DEF SeekSn, Goto, Seek, fileVars, procVars, callVars, lockVars, readVars
<1>2. AtSn \in Nat
  BY Before, Typed, Bounds DEF AtHead, AtSn, AtRecord
<1>3. Types'
  BY <1>1, <1>2, Before DEF Types, TypeOK, Pc
<1>4. Progress(t)'
  BY <1>1, Before, Bounds DEF Types, TypeOK, Progress, InPlace, Adding, Cleaning, Fields, Own, Calling, Inside, Pc
<1> QED
  BY <1>1, <1>3, <1>4, Before, StepOf DEF Inside, Reading, Pc, Types, TypeOK

LEMMA ReadHeadStep ==
  ASSUME CallInv, OneThread, NEW t \in Threads, ReadHead(t) PROVE CallInv'
<1>1. /\ UNCHANGED <<head, ring, lock, readers, mutex, rec, log, op, id, adds, cleans, reads, crashes, ask>>
      /\ pc[t] = "readHead" /\ pc' = [pc EXCEPT ![t] = "bump"]
      /\ mem' = [mem EXCEPT ![Proc[t]] = head]
      /\ offset' = [offset EXCEPT ![Proc[t]] = AtRecord(1)]
  BY Before DEF InPlace, ReadHead, HeaderAt, Goto, Seek, fileVars, procVars, callVars, lockVars, readVars
<1>2. AtRecord(1) \in Nat /\ head \in InFile /\ head \in Header
  BY Before, Typed DEF AtRecord, InFile, Header
<1>3. Types'
  BY <1>1, <1>2, Before DEF Types, TypeOK, Pc
<1>4. Progress(t)'
  BY <1>1, Before, Bounds DEF Types, TypeOK, Progress, InPlace, Adding, Cleaning, Fields, Own, Calling, Inside, Pc
<1> QED
  BY <1>1, <1>3, <1>4, Before, StepOf DEF Inside, Reading, Pc, Types, TypeOK

LEMMA BumpStep ==
  ASSUME CallInv, OneThread, NEW t \in Threads, Bump(t) PROVE CallInv'
<1>1. /\ UNCHANGED <<head, ring, lock, readers, mutex, offset, rec, log, op, id, adds, cleans, reads, crashes, ask>>
      /\ pc[t] = "bump" /\ pc' = [pc EXCEPT ![t] = "fill"]
      /\ mem' = [mem EXCEPT ![Proc[t]] = [sn |-> Own(t).sn + 1, count |-> Capped(Own(t).count + 1),
                                           cursor |-> Wrapped(Own(t).cursor + 1)]]
  BY DEF Own, Bump, Goto, Seek, fileVars, procVars, callVars, lockVars, readVars
<1> DEFINE new == [sn |-> Own(t).sn + 1, count |-> Capped(Own(t).count + 1), cursor |-> Wrapped(Own(t).cursor + 1)]
<1>2. new \in InFile /\ new \in Header
  <2>1. Own(t).sn \in Nat /\ Own(t).count \in 0 .. MaxQty /\ Own(t).cursor \in 0 .. MaxQty
    BY Before, Typed
  <2>2. /\ Own(t).sn + 1 \in Nat /\ Capped(Own(t).count + 1) \in 0 .. MaxQty
        /\ Wrapped(Own(t).cursor + 1) \in 0 .. MaxQty
    BY <2>1, Rounds, Bounds
  <2>3. 0 .. MaxQty \subseteq Nat
    BY Bounds
  <2> QED BY <2>2, <2>3 DEF InFile, Header
<1>3. Own(t)' = new
  BY <1>1, Before, Bounds DEF Own, Types, TypeOK
<1> HIDE DEF new
<1>4. Types'
  BY <1>1, <1>2, Before DEF Types, TypeOK, Pc, new
<1>5. op[t] = "add" /\ Adding(t) /\ Own(t) = head
  BY <1>1, Before DEF Cleaning, Adding, Fields, Calling, Inside, Pc
<1>6. Progress(t)'
  BY <1>1, <1>3, <1>5, Before, Bounds DEF Types, TypeOK, Progress, InPlace, Adding, Cleaning, Fields, Calling, Inside, Pc, new
<1> QED
  BY <1>1, <1>4, <1>6, Before, StepOf DEF Inside, Reading, Pc, Types, TypeOK

LEMMA FillRecordStep ==
  ASSUME CallInv, OneThread, NEW t \in Threads, FillRecord(t) PROVE CallInv'
<1>1. /\ UNCHANGED <<head, ring, lock, readers, mutex, mem, offset, log, op, id, adds, cleans, reads, crashes, ask>>
      /\ pc[t] = "fill" /\ pc' = [pc EXCEPT ![t] = "seekRec"]
      /\ rec' = [rec EXCEPT ![Proc[t]] = id[t]]
  BY DEF FillRecord, Goto, Seek, fileVars, procVars, callVars, lockVars, readVars
<1>2. Types'
  BY <1>1, Typed, Before DEF Types, TypeOK, Pc
<1>3. Progress(t)'
  BY <1>1, Before, Bounds DEF Types, TypeOK, Progress, InPlace, Adding, Cleaning, Fields, Own, Calling, Inside, Pc
<1> QED
  BY <1>1, <1>2, <1>3, Before, StepOf DEF Inside, Reading, Pc, Types, TypeOK

LEMMA UnlockStep ==
  ASSUME CallInv, OneThread, NEW t \in Threads, Unlock(t) PROVE CallInv'
<1>1. /\ UNCHANGED <<head, ring, mem, offset, rec, log, op, id, adds, cleans, reads, crashes, ask>>
      /\ pc[t] = "unlock" /\ pc' = [pc EXCEPT ![t] = "idle"]
      /\ lock' = Free /\ readers' = {}
      /\ mutex' = [mutex EXCEPT ![Proc[t]] = mutex[Proc[t]] /\ op[t] = "add"]
  BY Before DEF Inside, Pc, Release, Unlock, Goto, Seek, fileVars, procVars, callVars, lockVars, readVars
<1>2. Types'
  BY <1>1, Before DEF Types, TypeOK, Pc
<1>3. Progress(t)'
  BY <1>1, Before, Bounds DEF Types, TypeOK, Progress, InPlace, Adding, Cleaning, Fields, Own, Calling, Inside, Pc
<1> QED
  BY <1>1, <1>2, <1>3, Before, StepOf DEF Inside, Reading, Pc, Types, TypeOK

LEMMA WriteRecordStep ==
  ASSUME CallInv, OneThread, NEW t \in Threads, WriteRecord(t) PROVE CallInv'
<1>1. /\ UNCHANGED <<lock, readers, mutex, mem, rec, log, op, id, adds, cleans, reads, crashes, ask>>
      /\ pc[t] = "writeRec" /\ pc' = [pc EXCEPT ![t] = "seekSn"]
      /\ Write(t, rec[Proc[t]])
  BY DEF WriteRecord, Goto, callVars, lockVars, readVars
<1>2. /\ op[t] = "add" /\ Adding(t) /\ rec[Proc[t]] = id[t]
      /\ Own(t).cursor = Wrapped(head.cursor + 1) /\ offset[Proc[t]] = AtRecord(Own(t).cursor)
  BY <1>1, Before DEF Cleaning, Adding, Fields, Calling, Inside, Pc, InPlace
<1>3. Own(t).cursor \in 1 .. MaxQty
  BY <1>2, Rounds, Before, Typed
<1>4. head' = head /\ ring' = [ring EXCEPT ![Own(t).cursor] = id[t]]
  BY <1>1, <1>2, <1>3, Before, Writes
<1>5. offset' = [offset EXCEPT ![Proc[t]] = offset[Proc[t]] + 1]
  BY <1>1, Before, Writes
<1>6. ring' \in [1 .. MaxQty -> 0 .. MaxAdds] /\ offset' \in [Procs -> Nat]
  <2>1. ring' \in [1 .. MaxQty -> 0 .. MaxAdds]
    BY <1>3, <1>4, Before, Typed
  <2>2. offset[Proc[t]] + 1 \in Nat /\ offset \in [Procs -> Nat]
    <3>1. offset \in [Procs -> Nat] /\ Proc[t] \in Procs
      BY Before, Bounds DEF Types, TypeOK
    <3> QED BY <3>1
  <2>3. offset' \in [Procs -> Nat]
    BY <1>5, <2>2
  <2> QED BY <2>1, <2>3
<1>7. Types'
  BY <1>1, <1>4, <1>6, Before DEF Types, TypeOK, Pc
<1>8. Own(t)' = Own(t) /\ ring'[Own(t).cursor] = id[t] /\ id'[t] = id[t] /\ op'[t] = op[t] /\ pc'[t] = "seekSn"
  BY <1>1, <1>3, <1>4, Before, Typed DEF Own, Types, TypeOK
<1>9. Progress(t)'
  BY <1>1, <1>2, <1>4, <1>8 DEF Progress, InPlace, Adding, Fields, Own
<1> QED
  BY <1>1, <1>5, <1>7, <1>9, Before, StepOf DEF Inside, Reading, Pc, Types, TypeOK

LEMMA WriteSnStep ==
  ASSUME CallInv, OneThread, NEW t \in Threads, WriteSn(t) PROVE CallInv'
<1>1. /\ UNCHANGED <<lock, readers, mutex, mem, rec, log, op, id, adds, cleans, reads, crashes, ask>>
      /\ pc[t] = "writeSn" /\ pc' = [pc EXCEPT ![t] = "writeCount"]
      /\ Write(t, Own(t).sn)
  BY DEF WriteSn, Goto, callVars, lockVars, readVars, Own
<1>2. offset[Proc[t]] = AtSn
  BY <1>1, Before DEF InPlace
<1>3. head' = [sn |-> Own(t).sn, count |-> head.count, cursor |-> head.cursor] /\ ring' = ring
  BY <1>1, <1>2, Before, Writes
<1>4. offset' = [offset EXCEPT ![Proc[t]] = AtCount]
  BY <1>1, <1>2, Before, Writes DEF AtSn, AtCount
<1>5. head' \in [sn : Nat, count : 0 .. MaxQty, cursor : 0 .. MaxQty] /\ AtCount \in Nat
  BY <1>3, Before, Typed DEF AtCount
<1>6. Types'
  BY <1>1, <1>3, <1>4, <1>5, Before DEF Types, TypeOK, Pc
<1>7. Own(t)' = Own(t) /\ id'[t] = id[t] /\ op'[t] = op[t] /\ pc'[t] = "writeCount" /\ offset'[Proc[t]] = AtCount
  BY <1>1, <1>4, Before, Bounds DEF Own, Types, TypeOK
<1>8. head'.sn = Own(t).sn /\ head'.count = head.count /\ head'.cursor = head.cursor
  BY <1>3
<1>9. Progress(t)'
  BY <1>1, <1>3, <1>7, <1>8, Before DEF Progress, InPlace, Adding, Cleaning, Fields, Own, Calling, Inside, Pc, Empty
<1> QED
  BY <1>1, <1>4, <1>6, <1>9, Before, StepOf DEF Inside, Reading, Pc, Types, TypeOK

LEMMA WriteCountStep ==
  ASSUME CallInv, OneThread, NEW t \in Threads, WriteCount(t) PROVE CallInv'
<1>1. /\ UNCHANGED <<lock, readers, mutex, mem, rec, log, op, id, adds, cleans, reads, crashes, ask>>
      /\ pc[t] = "writeCount" /\ pc' = [pc EXCEPT ![t] = "writeCursor"]
      /\ Write(t, Own(t).count)
  BY DEF WriteCount, Goto, callVars, lockVars, readVars, Own
<1>2. offset[Proc[t]] = AtCount
  BY <1>1, Before DEF InPlace
<1>3. head' = [sn |-> head.sn, count |-> Own(t).count, cursor |-> head.cursor] /\ ring' = ring
  BY <1>1, <1>2, Before, Writes
<1>4. offset' = [offset EXCEPT ![Proc[t]] = AtCursor]
  BY <1>1, <1>2, Before, Writes DEF AtCursor, AtCount
<1>5. head' \in [sn : Nat, count : 0 .. MaxQty, cursor : 0 .. MaxQty] /\ AtCursor \in Nat
  BY <1>3, Before, Typed DEF AtCursor
<1>6. Types'
  BY <1>1, <1>3, <1>4, <1>5, Before DEF Types, TypeOK, Pc
<1>7. Own(t)' = Own(t) /\ id'[t] = id[t] /\ op'[t] = op[t] /\ pc'[t] = "writeCursor" /\ offset'[Proc[t]] = AtCursor
  BY <1>1, <1>4, Before, Bounds DEF Own, Types, TypeOK
<1>8. head'.sn = head.sn /\ head'.count = Own(t).count /\ head'.cursor = head.cursor
  BY <1>3
<1>9. Progress(t)'
  BY <1>1, <1>3, <1>7, <1>8, Before DEF Progress, InPlace, Adding, Cleaning, Fields, Own, Calling, Inside, Pc, Empty
<1> QED
  BY <1>1, <1>4, <1>6, <1>9, Before, StepOf DEF Inside, Reading, Pc, Types, TypeOK

\* The header after the last write of a call.
LEMMA LastWrite ==
  ASSUME CallInv, NEW t \in Threads, WriteCursor(t)
  PROVE /\ UNCHANGED <<lock, readers, mutex, mem, rec, op, id, adds, cleans, reads, crashes, ask, ring>>
        /\ pc[t] = "writeCursor" /\ pc' = [pc EXCEPT ![t] = "unlock"]
        /\ head' = [sn |-> head.sn, count |-> head.count, cursor |-> Own(t).cursor]
        /\ offset' = [offset EXCEPT ![Proc[t]] = AtRecord(1)]
        /\ log' = IF op[t] = "add" THEN Append(log, id[t]) ELSE <<>>
<1>1. /\ UNCHANGED <<lock, readers, mutex, mem, rec, op, id, adds, cleans, reads, crashes, ask>>
      /\ pc[t] = "writeCursor" /\ pc' = [pc EXCEPT ![t] = "unlock"]
      /\ Write(t, Own(t).cursor)
      /\ log' = IF op[t] = "add" THEN Append(log, id[t]) ELSE <<>>
  BY DEF WriteCursor, Goto, callVars, lockVars, readVars, Own
<1>2. offset[Proc[t]] = AtCursor
  BY <1>1, Before DEF InPlace
<1>3. head' = [sn |-> head.sn, count |-> head.count, cursor |-> Own(t).cursor] /\ ring' = ring
  BY <1>1, <1>2, Before, Writes
<1>4. offset' = [offset EXCEPT ![Proc[t]] = AtRecord(1)]
  BY <1>1, <1>2, Before, Writes DEF AtCursor, AtRecord
<1> QED BY <1>1, <1>3, <1>4

LEMMA WriteCursorStep ==
  ASSUME CallInv, OneThread, NEW t \in Threads, WriteCursor(t) PROVE CallInv'
<1>1. /\ UNCHANGED <<lock, readers, mutex, mem, rec, op, id, adds, cleans, reads, crashes, ask, ring>>
      /\ pc[t] = "writeCursor" /\ pc' = [pc EXCEPT ![t] = "unlock"]
      /\ head' = [sn |-> head.sn, count |-> head.count, cursor |-> Own(t).cursor]
      /\ offset' = [offset EXCEPT ![Proc[t]] = AtRecord(1)]
      /\ log' = IF op[t] = "add" THEN Append(log, id[t]) ELSE <<>>
  BY LastWrite
<1>2. head' \in [sn : Nat, count : 0 .. MaxQty, cursor : 0 .. MaxQty] /\ AtRecord(1) \in Nat
  BY <1>1, Before, Typed DEF AtRecord
<1>3. log' \in Seq(1 .. MaxAdds)
  <2>1. op[t] = "add" => id[t] \in 1 .. MaxAdds
    BY <1>1, Before DEF Calling, Inside, Pc, Adding
  <2>2. log \in Seq(1 .. MaxAdds)
    BY Before DEF Types, TypeOK
  <2>3. CASE op[t] = "add"
    BY <1>1, <2>1, <2>2, <2>3, AppendProperties
  <2>4. CASE op[t] # "add"
    BY <1>1, <2>4
  <2> QED BY <2>3, <2>4
<1>4. Types'
  BY <1>1, <1>2, <1>3, Before DEF Types, TypeOK, Pc
<1>5. Own(t)' = Own(t) /\ id'[t] = id[t] /\ op'[t] = op[t] /\ pc'[t] = "unlock"
  BY <1>1, Before, Bounds DEF Own, Types, TypeOK
<1>6. Progress(t)'
  BY <1>1, <1>5, Before DEF Progress, InPlace, Adding, Cleaning, Fields, Own, Calling, Inside, Pc
<1> QED
  BY <1>1, <1>4, <1>6, Before, StepOf DEF Inside, Reading, Pc, Types, TypeOK

-----------------------------------------------------------------------------
(* The calls that read *)

LEMMA GetLogsStep ==
  ASSUME CallInv, OneThread, NEW t \in Threads, GetLogs(t) PROVE CallInv'
<1>1. /\ UNCHANGED <<head, ring, lock, readers, mutex, mem, offset, rec, log, op, id, ask, adds, cleans, crashes>>
      /\ pc[t] = "idle" /\ pc' = [pc EXCEPT ![t] = "rdLock"]
      /\ reads < MaxReads /\ reads' = reads + 1
  BY DEF GetLogs, Goto, fileVars, procVars, callVars, lockVars
<1>2. reads' \in 0 .. MaxReads
  BY <1>1, Before, Bounds DEF Types, TypeOK
<1>3. Types'
  BY <1>1, <1>2, Before DEF Types, TypeOK, Pc
<1>4. pc'[t] = "rdLock"
  BY <1>1, Before DEF Types, TypeOK
<1>5. Progress(t)'
  BY <1>4 DEF Progress, InPlace, Inside, Calling
<1> QED
  BY <1>1, <1>3, <1>4, <1>5, Before, StepOf DEF Inside, Reading, Types, TypeOK

LEMMA RdLockStep ==
  ASSUME CallInv, OneThread, NEW t \in Threads, RdLock(t) PROVE CallInv'
<1>1. /\ UNCHANGED <<head, ring, mutex, mem, offset, rec, log, op, id, ask, adds, cleans, reads, crashes>>
      /\ pc[t] = "rdLock" /\ pc' = [pc EXCEPT ![t] = "rdSeek"]
      /\ lock \in {Free, Proc[t]} /\ lock' = Free /\ readers' = readers \cup {Proc[t]}
  BY DEF RdLock, Goto, fileVars, procVars, callVars, readVars
<1>2. Types'
  BY <1>1, Before, Bounds DEF Types, TypeOK, Pc
<1>3. pc'[t] = "rdSeek"
  BY <1>1, Before DEF Types, TypeOK
<1>4. Progress(t)'
  BY <1>3 DEF Progress, InPlace, Inside, Calling
<1> QED
  BY <1>1, <1>2, <1>3, <1>4, Before, StepOf DEF Inside, Reading, Types, TypeOK

LEMMA RdSeekStep ==
  ASSUME CallInv, OneThread, NEW t \in Threads, RdSeek(t) PROVE CallInv'
<1>1. /\ UNCHANGED <<head, ring, lock, readers, mutex, mem, rec, log, op, id, ask, adds, cleans, reads, crashes>>
      /\ pc[t] = "rdSeek" /\ pc' = [pc EXCEPT ![t] = "rdHead"]
      /\ offset' = [offset EXCEPT ![Proc[t]] = AtHead]
  BY DEF RdSeek, Goto, Seek, fileVars, callVars, lockVars, readVars
<1>2. Types'
  BY <1>1, Before DEF Types, TypeOK, Pc, AtHead
<1>3. pc'[t] = "rdHead" /\ offset'[Proc[t]] = AtHead
  BY <1>1, Before, Bounds DEF Types, TypeOK
<1>4. Progress(t)'
  BY <1>3 DEF Progress, InPlace, Inside, Calling
<1> QED
  BY <1>1, <1>2, <1>3, <1>4, Before, StepOf DEF Inside, Reading, Types, TypeOK

LEMMA RdHeadStep ==
  ASSUME CallInv, OneThread, NEW t \in Threads, RdHead(t) PROVE CallInv'
<1>1. /\ UNCHANGED <<head, ring, lock, readers, mutex, rec, log, op, id, ask, adds, cleans, reads, crashes>>
      /\ pc[t] = "rdHead" /\ pc' = [pc EXCEPT ![t] = "ask"]
      /\ mem' = [mem EXCEPT ![Proc[t]] = head]
      /\ offset' = [offset EXCEPT ![Proc[t]] = AtRecord(1)]
  BY Before DEF InPlace, RdHead, HeaderAt, Goto, Seek, fileVars, callVars, lockVars, readVars
<1>2. AtRecord(1) \in Nat /\ head \in InFile /\ head \in Header
  BY Before, Typed DEF AtRecord, InFile, Header
<1>3. Types'
  BY <1>1, <1>2, Before DEF Types, TypeOK, Pc
<1>4. pc'[t] = "ask" /\ Own(t)' = head'
  BY <1>1, Before, Bounds DEF Types, TypeOK, Own
<1>5. Progress(t)'
  BY <1>4 DEF Progress, InPlace, Inside, Calling
<1> QED
  BY <1>1, <1>3, <1>4, <1>5, Before, StepOf DEF Inside, Reading, Types, TypeOK

LEMMA AskStep ==
  ASSUME CallInv, OneThread, NEW t \in Threads, Ask(t) PROVE CallInv'
<1>1. /\ UNCHANGED <<head, ring, lock, readers, mutex, mem, offset, rec, log, op, id, adds, cleans, reads, crashes>>
      /\ pc[t] = "ask"
  BY DEF Ask, fileVars, procVars, callVars, lockVars
<1>2. \/ ask' = ask /\ pc' = [pc EXCEPT ![t] = "idle"]
      \/ ask' = ask /\ pc' = [pc EXCEPT ![t] = "rdUnlock"]
      \/ \E r \in Requests : /\ ask' = [ask EXCEPT ![t] = r]
                             /\ r.kind # "info"
                             /\ \/ pc' = [pc EXCEPT ![t] = "mutex"] \/ pc' = [pc EXCEPT ![t] = "records"]
  BY DEF Ask, Goto
<1>3. ask' \in [Threads -> Requests \cup {NoRequest}] /\ pc' \in [Threads -> Pc]
  BY <1>2, Before DEF Types, TypeOK, Pc
<1>4. Types'
  BY <1>1, <1>3, Before DEF Types, TypeOK
<1>5. /\ pc'[t] \in {"idle", "rdUnlock", "mutex", "records"}
      /\ pc'[t] \in {"mutex", "records"} => ask'[t] \in Requests /\ ask'[t].kind # "info"
      /\ \A u \in Threads : u # t => pc'[u] = pc[u] /\ ask'[u] = ask[u]
  BY <1>2, Before DEF Types, TypeOK
<1>6. Own(t)' = head' /\ Proc[t] \in readers
  BY <1>1, Before DEF Own, Progress, Reading
<1>7. Progress(t)'
  BY <1>5, <1>6 DEF Progress, InPlace, Inside, Calling
<1> QED
  BY <1>1, <1>4, <1>5, <1>6, <1>7, Before, StepOf DEF Inside

LEMMA TakeMutexStep ==
  ASSUME CallInv, OneThread, NEW t \in Threads, TakeMutex(t) PROVE CallInv'
<1>1. /\ UNCHANGED <<head, ring, lock, readers, mem, offset, rec, log, op, id, ask, adds, cleans, reads, crashes>>
      /\ pc[t] = "mutex" /\ pc' = [pc EXCEPT ![t] = "records"]
      /\ mutex' = [mutex EXCEPT ![Proc[t]] = TRUE]
  BY DEF TakeMutex, Goto, fileVars, procVars, callVars, readVars
<1>2. Types'
  BY <1>1, Before DEF Types, TypeOK, Pc
<1>3. pc'[t] = "records" /\ Own(t)' = head' /\ ask'[t] \in Requests /\ ask'[t].kind # "info"
  BY <1>1, Before DEF Types, TypeOK, Own, Progress
<1>4. Progress(t)'
  BY <1>3 DEF Progress, InPlace, Inside, Calling
<1> QED
  BY <1>1, <1>2, <1>3, <1>4, Before, StepOf DEF Inside, Reading, Types, TypeOK

LEMMA ReadRecordsStep ==
  ASSUME CallInv, OneThread, NEW t \in Threads, ReadRecords(t) PROVE CallInv'
<1>1. /\ UNCHANGED <<head, ring, lock, readers, mutex, mem, rec, log, op, id, adds, cleans, reads, crashes>>
      /\ pc[t] = "records" /\ pc' = [pc EXCEPT ![t] = "rdUnlock"]
      /\ ask' = [ask EXCEPT ![t] = NoRequest]
  BY DEF ReadRecords, Goto, fileVars, callVars, lockVars
<1>2. PICK k \in 1 .. MaxQty + 1 : offset' = [offset EXCEPT ![Proc[t]] = AtRecord(k)]
  BY DEF ReadRecords, Seek
<1>3. AtRecord(k) \in Nat
  BY Bounds DEF AtRecord
<1>4. Types'
  BY <1>1, <1>2, <1>3, Before DEF Types, TypeOK, Pc
<1>5. pc'[t] = "rdUnlock"
  BY <1>1, Before DEF Types, TypeOK
<1>6. Progress(t)'
  BY <1>5 DEF Progress, InPlace, Inside, Calling
<1> QED
  BY <1>1, <1>2, <1>4, <1>5, <1>6, Before, StepOf DEF Inside, Reading, Types, TypeOK

LEMMA RdUnlockStep ==
  ASSUME CallInv, OneThread, NEW t \in Threads, RdUnlock(t) PROVE CallInv'
<1>1. /\ UNCHANGED <<head, ring, mutex, mem, offset, rec, log, op, id, ask, adds, cleans, reads, crashes>>
      /\ pc[t] = "rdUnlock" /\ pc' = [pc EXCEPT ![t] = "idle"]
      /\ lock' = IF lock = Proc[t] THEN Free ELSE lock
      /\ readers' = readers \ {Proc[t]}
  BY DEF RdUnlock, Release, Goto, fileVars, procVars, callVars, readVars
<1>2. Types'
  BY <1>1, Before DEF Types, TypeOK, Pc
<1>3. pc'[t] = "idle"
  BY <1>1, Before DEF Types, TypeOK
<1>4. Progress(t)'
  BY <1>3 DEF Progress, InPlace, Inside, Calling
<1> QED
  BY <1>1, <1>2, <1>3, <1>4, Before, StepOf DEF Inside, Reading, Types, TypeOK

-----------------------------------------------------------------------------
LEMMA CrashStep ==
  ASSUME CallInv, OneThread, NEW p \in Procs, Crash(p) PROVE CallInv'
<1>1. /\ UNCHANGED <<head, ring, mutex, mem, offset, rec, op, id, ask, adds, cleans, reads, log>>
      /\ crashes < MaxCrashes /\ crashes' = crashes + 1
      /\ pc' = [t \in Threads |-> IF Proc[t] = p THEN "down" ELSE pc[t]]
      /\ lock' = IF lock = p THEN Free ELSE lock
      /\ readers' = readers \ {p}
  BY DEF Crash, Release, fileVars, procVars, readVars
<1>2. Types
  BY DEF CallInv
<1>3. pc' \in [Threads -> Pc]
  BY <1>1, <1>2 DEF Types, TypeOK, Pc
<1>4. crashes' \in 0 .. MaxCrashes /\ lock' \in Procs \cup {Free}
  BY <1>1, <1>2, Bounds DEF Types, TypeOK
<1>5. Types'
  BY <1>1, <1>2, <1>3, <1>4 DEF Types, TypeOK
<1>6. ASSUME NEW t \in Threads PROVE Progress(t)'
  <2>1. CASE Proc[t] = p
    <3>1. pc'[t] = "down"
      BY <1>1, <2>1
    <3> QED BY <3>1 DEF Progress, InPlace, Calling, Inside
  <2>2. CASE Proc[t] # p
    <3>1. pc'[t] = pc[t] /\ Progress(t) /\ Own(t)' = Own(t)
      BY <1>1, <2>2 DEF CallInv, Own
    <3> QED BY <1>1, <3>1 DEF Progress, InPlace, Adding, Cleaning
  <2> QED BY <2>1, <2>2
<1>7. ASSUME NEW t \in Threads, pc'[t] \in Inside PROVE lock' = Proc[t]
  <2>1. Proc[t] # p /\ pc'[t] = pc[t]
    BY <1>1, <1>7 DEF Inside
  <2>2. lock = Proc[t]
    BY <1>7, <2>1 DEF CallInv, Alone
  <2> QED BY <1>1, <2>1, <2>2
<1>8. ASSUME NEW t \in Threads, pc'[t] \in Reading PROVE Proc[t] \in readers'
  <2>1. Proc[t] # p /\ pc'[t] = pc[t]
    BY <1>1, <1>8 DEF Reading
  <2> QED BY <1>1, <1>8, <2>1 DEF CallInv, Alone
<1>9. readers' # {} => lock' = Free
  BY <1>1 DEF CallInv, Alone
<1> QED BY <1>5, <1>6, <1>7, <1>8, <1>9 DEF CallInv, Alone

\* Whoever starts has no call under way.
LEMMA Starting ==
  ASSUME CallInv, OneThread, NEW p \in Procs, Restart(p), NEW t \in Threads
  PROVE /\ pc[t] \notin Inside \cup Reading
        /\ Proc[t] # p => pc'[t] = pc[t]
        /\ Proc[t] = p => pc'[t] = "idle" /\ pc[t] = "down"
<1>1. pc' = [u \in Threads |-> IF Proc[u] = p THEN "idle" ELSE pc[u]] /\ lock = Free /\ readers = {}
  BY DEF Restart
<1>2. pc[t] \notin Inside \cup Reading
  BY <1>1, Bounds DEF CallInv, Alone
<1>3. Proc[t] = p => pc[t] = "down"
  BY DEF Restart, OneThread
<1> QED BY <1>1, <1>2, <1>3

LEMMA RestartStep ==
  ASSUME CallInv, OneThread, NEW p \in Procs, Restart(p) PROVE CallInv'
<1>1. /\ UNCHANGED <<head, ring, lock, readers, op, id, adds, cleans, reads, crashes, ask, log>>
      /\ mutex' = [mutex EXCEPT ![p] = FALSE]
      /\ pc' = [t \in Threads |-> IF Proc[t] = p THEN "idle" ELSE pc[t]]
      /\ mem' = [mem EXCEPT ![p] = head] /\ rec' = [rec EXCEPT ![p] = 0]
      /\ offset' = [offset EXCEPT ![p] = AtRecord(1)]
  BY DEF Restart, fileVars, callVars, lockVars, readVars
<1>2. Types
  BY DEF CallInv
<1>3. pc' \in [Threads -> Pc]
  BY <1>1, <1>2 DEF Types, TypeOK, Pc
<1>4. AtRecord(1) \in Nat /\ 0 \in 0 .. MaxAdds /\ head \in InFile /\ head \in Header
  BY <1>2, Typed, Bounds DEF AtRecord, InFile, Header
<1>5. Types'
  BY <1>1, <1>2, <1>3, <1>4 DEF Types, TypeOK
<1>6. ASSUME NEW t \in Threads PROVE Progress(t)'
  <2>1. CASE Proc[t] = p
    <3>1. pc'[t] = "idle"
      BY <2>1, Starting
    <3> QED BY <3>1 DEF Progress, InPlace, Calling, Inside
  <2>2. CASE Proc[t] # p
    <3>1. pc'[t] = pc[t] /\ pc[t] \in {"idle", "lock", "down", "rdLock"} /\ Progress(t)
      BY <1>2, <2>2, Starting, Typed DEF CallInv, Inside, Reading, Pc
    <3>2. Own(t)' = Own(t)
      BY <1>1, <2>2 DEF Own
    <3> QED BY <1>1, <3>1, <3>2 DEF Progress, InPlace, Adding, Cleaning, Fields, Calling, Inside
  <2> QED BY <2>1, <2>2
<1>7. readers' = {} /\ \A t \in Threads : pc'[t] \notin Inside \cup Reading
  <2>1. readers' = {}
    BY <1>1 DEF Restart
  <2>2. ASSUME NEW t \in Threads PROVE pc'[t] \notin Inside \cup Reading
    <3>1. pc'[t] = pc[t] \/ pc'[t] = "idle"
      BY Starting
    <3>2. pc[t] \notin Inside \cup Reading
      BY Starting
    <3> QED BY <3>1, <3>2 DEF Inside, Reading
  <2> QED BY <2>1, <2>2
<1> QED BY <1>5, <1>6, <1>7 DEF CallInv, Alone

-----------------------------------------------------------------------------
LEMMA CallInit == ASSUME Init PROVE CallInv
<1>1. Types
  BY Bounds DEF NoRequest, Init, Types, TypeOK, InFile, Header, Empty, AtHead, Pc
<1>2. \A t \in Threads : pc[t] = "idle"
  BY DEF Init
<1> QED BY <1>1, <1>2 DEF CallInv, Init, Alone, Progress, InPlace, Inside, Reading, Calling

LEMMA CallStep == ASSUME CallInv, OneThread, [Next]_vars PROVE CallInv'
<1>1. CASE UNCHANGED vars
  <2>1. UNCHANGED <<head, ring, lock, readers, mutex, mem, offset, rec, pc, op, id, adds, cleans, reads, crashes, ask, log>>
    BY <1>1 DEF vars
  <2>2. Types' /\ Alone'
    BY <2>1 DEF CallInv, Types, TypeOK, Alone
  <2>3. ASSUME NEW t \in Threads PROVE Progress(t)'
    BY <2>1 DEF CallInv, Progress, InPlace, Adding, Cleaning, Own
  <2> QED BY <2>2, <2>3 DEF CallInv
<1>2. ASSUME NEW t \in Threads, Step(t) PROVE CallInv'
  BY <1>2, LockStep, SeekHeadStep, ReadHeadStep, BumpStep, FillRecordStep, SeekRecordStep,
     WriteRecordStep, SeekSnStep, WriteSnStep, WriteCountStep, WriteCursorStep, UnlockStep DEF Step
<1>3. ASSUME NEW t \in Threads, ReadStep(t) PROVE CallInv'
  BY <1>3, RdLockStep, RdSeekStep, RdHeadStep, AskStep, TakeMutexStep, ReadRecordsStep, RdUnlockStep DEF ReadStep
<1> QED BY <1>1, <1>2, <1>3, AddLogStep, CleanLogsStep, GetLogsStep, CrashStep, RestartStep DEF Next

-----------------------------------------------------------------------------
(* The cursor *)

LEMMA Remainder ==
  ASSUME NEW q \in Int, NEW m \in Nat, m >= 1, NEW r \in 0 .. m - 1, NEW n \in Nat, n = m * q + r
  PROVE r = n % m
OBVIOUS

LEMMA RestNext ==
  ASSUME NEW n \in Nat
  PROVE /\ n % MaxQty \in 0 .. MaxQty - 1
        /\ (n + 1) % MaxQty = IF n % MaxQty = MaxQty - 1 THEN 0 ELSE (n % MaxQty) + 1
<1> DEFINE q == n \div MaxQty
           r == n % MaxQty
<1>1. q \in Int /\ r \in 0 .. MaxQty - 1 /\ n = MaxQty * q + r
  BY Bounds
<1> HIDE DEF q, r
<1>2. CASE r = MaxQty - 1
  <2>1. n + 1 = MaxQty * (q + 1) + 0 /\ q + 1 \in Int /\ 0 \in 0 .. MaxQty - 1
    BY <1>1, <1>2, Bounds
  <2>2. 0 = (n + 1) % MaxQty
    BY <2>1, Remainder, Bounds
  <2> QED BY <1>1, <1>2, <2>2 DEF r
<1>3. CASE r # MaxQty - 1
  <2>1. n + 1 = MaxQty * q + (r + 1) /\ r + 1 \in 0 .. MaxQty - 1
    BY <1>1, <1>3, Bounds
  <2>2. r + 1 = (n + 1) % MaxQty
    BY <1>1, <2>1, Remainder, Bounds
  <2> QED BY <1>1, <1>3, <2>2 DEF r
<1> QED BY <1>2, <1>3

LEMMA PositionNext ==
  ASSUME NEW n \in Nat
  PROVE /\ Position(n) \in 0 .. MaxQty
        /\ Position(n + 1) = Wrapped(Position(n) + 1)
<1>1. CASE n = 0
  <2>1. 0 = 0 % MaxQty
    BY Remainder, Bounds
  <2> QED BY <1>1, <2>1, Bounds DEF Position, Wrapped
<1>2. CASE n # 0
  <2> DEFINE r == (n - 1) % MaxQty
  <2>1. /\ r \in 0 .. MaxQty - 1
        /\ n % MaxQty = IF r = MaxQty - 1 THEN 0 ELSE r + 1
    <3>1. n - 1 \in Nat /\ (n - 1) + 1 = n
      BY <1>2
    <3> QED BY <3>1, RestNext
  <2>2. Position(n) = 1 + r /\ Position(n + 1) = 1 + (n % MaxQty)
    <3>1. (n + 1) - 1 = n /\ n + 1 # 0
      OBVIOUS
    <3> QED BY <1>2, <3>1 DEF Position
  <2> HIDE DEF r
  <2> QED BY <2>1, <2>2, Bounds DEF Wrapped
<1> QED BY <1>1, <1>2

\* The slot k records behind the cursor.
LEMMA Behind ==
  ASSUME NEW c \in 1 .. MaxQty, NEW k \in 0 .. MaxQty - 1
  PROVE 1 + ((c - 1 - k + MaxQty) % MaxQty) = IF k < c THEN c - k ELSE c - k + MaxQty
<1> DEFINE n == c - 1 - k + MaxQty
<1>1. n \in Nat
  BY Bounds
<1>2. CASE k < c
  <2>1. n = MaxQty * 1 + (c - 1 - k) /\ c - 1 - k \in 0 .. MaxQty - 1
    BY <1>2, Bounds
  <2>2. c - 1 - k = n % MaxQty
    BY <1>1, <2>1, Remainder, Bounds
  <2> QED BY <1>2, <2>2, Bounds
<1>3. CASE ~(k < c)
  <2>1. n = MaxQty * 0 + (c - 1 - k + MaxQty) /\ c - 1 - k + MaxQty \in 0 .. MaxQty - 1
    BY <1>3, Bounds
  <2>2. c - 1 - k + MaxQty = n % MaxQty
    BY <1>1, <2>1, Remainder, Bounds
  <2> QED BY <1>3, <2>2, Bounds
<1> QED BY <1>2, <1>3

\* The slots behind the next cursor, and those behind this one.
LEMMA Shift ==
  ASSUME NEW c \in 1 .. MaxQty, NEW k \in 1 .. MaxQty - 1
  PROVE 1 + ((Wrapped(c + 1) - 1 - k + MaxQty) % MaxQty) = 1 + ((c - 1 - (k - 1) + MaxQty) % MaxQty)
<1>1. Wrapped(c + 1) \in 1 .. MaxQty /\ k \in 0 .. MaxQty - 1 /\ k - 1 \in 0 .. MaxQty - 1
  BY Rounds, Bounds
<1>2. 1 + ((Wrapped(c + 1) - 1 - k + MaxQty) % MaxQty)
        = IF k < Wrapped(c + 1) THEN Wrapped(c + 1) - k ELSE Wrapped(c + 1) - k + MaxQty
  BY <1>1, Behind
<1>3. 1 + ((c - 1 - (k - 1) + MaxQty) % MaxQty) = IF k - 1 < c THEN c - (k - 1) ELSE c - (k - 1) + MaxQty
  BY <1>1, Behind
<1> QED BY <1>2, <1>3, Bounds DEF Wrapped

-----------------------------------------------------------------------------
(* The log *)

LEMMA Logged ==
  ASSUME Types
  PROVE /\ Added \in Nat /\ head.sn \in Nat /\ head.count \in 0 .. MaxQty /\ head.cursor \in 0 .. MaxQty
        /\ crashes \in Nat /\ log \in Seq(1 .. MaxAdds)
BY Typed, Bounds, LenProperties DEF Types, TypeOK, Added

\* With a record in the log the cursor is at one.
LEMMA CursorAtRecord ==
  ASSUME Types, CursorExact, Added > 0
  PROVE head.cursor \in 1 .. MaxQty
<1>1. Added \in Nat /\ Added - 1 \in Nat /\ Added # 0
  BY Logged
<1>2. head.cursor = 1 + ((Added - 1) % MaxQty)
  BY <1>1 DEF CursorExact, Position
<1>3. (Added - 1) % MaxQty \in 0 .. MaxQty - 1
  BY <1>1, RestNext
<1> QED BY <1>2, <1>3, Bounds

\* A step that changes neither the file nor the log and is no write of a field.
Quiet ==
  /\ UNCHANGED <<head, ring, log, crashes>>
  /\ \A u \in Threads :
       \/ pc'[u] = pc[u] /\ op'[u] = op[u]
       \/ /\ pc[u] \notin {"writeCount", "writeCursor"} /\ pc'[u] \notin {"writeCount", "writeCursor"}
          /\ pc[u] \in Fields /\ op[u] = "add" => pc'[u] \in Fields /\ op'[u] = "add"

LEMMA QuietKeeps ==
  ASSUME CursorExact, Kept, Exact, Quiet PROVE CursorExact' /\ Kept' /\ Exact'
<1>1. CursorExact'
  BY DEF CursorExact, Quiet, Position, Added
<1>2. Overwritten => Overwritten'
  BY DEF Overwritten, Quiet
<1>3. Kept'
  BY <1>2 DEF Kept, Quiet, SlotBack, Added
<1>4. Exact'
  <2>1. /\ head' = head /\ Added' = Added /\ crashes' = crashes
        /\ \A u \in Threads : AddedNext(u)' = AddedNext(u) \/ pc'[u] \notin {"writeCount", "writeCursor"}
        /\ \A u \in Threads : pc'[u] \in {"writeCount", "writeCursor"} <=> pc[u] \in {"writeCount", "writeCursor"}
        /\ \A u \in Threads : pc'[u] = "writeCursor" <=> pc[u] = "writeCursor"
    BY DEF Quiet, Added, AddedNext
  <2> QED BY <2>1 DEF Exact, AtMost
<1> QED BY <1>1, <1>3, <1>4

LEMMA QuietActions ==
  ASSUME CallInv, OneThread, NEW t \in Threads,
         \/ AddLog(t) \/ CleanLogs(t) \/ Lock(t) \/ SeekHead(t) \/ ReadHead(t) \/ Bump(t)
         \/ FillRecord(t) \/ SeekRecord(t) \/ SeekSn(t) \/ Unlock(t) \/ GetLogs(t) \/ ReadStep(t)
  PROVE Quiet
<1>1. pc \in [Threads -> Pc] /\ op \in [Threads -> {"add", "clean"}]
  BY DEF CallInv, Types, TypeOK
<1>2. UNCHANGED <<head, ring, log, crashes>>
  BY DEF AddLog, CleanLogs, Lock, SeekHead, ReadHead, Bump, FillRecord, SeekRecord, SeekSn, Unlock, Release,
         GetLogs, ReadStep, RdLock, RdSeek, RdHead, Ask, TakeMutex, ReadRecords, RdUnlock,
         fileVars, callVars, lockVars, readVars
<1>3. \A u \in Threads : u # t => pc'[u] = pc[u] /\ op'[u] = op[u]
  BY <1>1 DEF AddLog, CleanLogs, Lock, SeekHead, ReadHead, Bump, FillRecord, SeekRecord, SeekSn, Unlock, Release,
         GetLogs, ReadStep, RdLock, RdSeek, RdHead, Ask, TakeMutex, ReadRecords, RdUnlock,
         callVars, lockVars, readVars, Goto
<1>4. /\ pc[t] \notin {"writeCount", "writeCursor"} /\ pc'[t] \notin {"writeCount", "writeCursor"}
      /\ pc[t] \in Fields /\ op[t] = "add" => pc'[t] \in Fields /\ op'[t] = "add"
  BY <1>1 DEF AddLog, CleanLogs, Lock, SeekHead, ReadHead, Bump, FillRecord, SeekRecord, SeekSn, Unlock, Release,
         GetLogs, ReadStep, RdLock, RdSeek, RdHead, Ask, TakeMutex, ReadRecords, RdUnlock,
         callVars, lockVars, readVars, Goto, Fields
<1> QED BY <1>2, <1>3, <1>4 DEF Quiet

LEMMA RestartQuiet ==
  ASSUME CallInv, OneThread, NEW p \in Procs, Restart(p) PROVE Quiet
<1>1. UNCHANGED <<head, ring, log, crashes, op>>
  BY DEF Restart, fileVars, callVars, lockVars, readVars
<1>2. ASSUME NEW u \in Threads
      PROVE pc'[u] = pc[u] \/ (pc[u] = "down" /\ pc'[u] = "idle")
  BY Starting
<1> QED BY <1>1, <1>2 DEF Quiet, Fields

LEMMA WriteSnKeeps ==
  ASSUME LogInv, OneThread, NEW t \in Threads, WriteSn(t)
  PROVE CursorExact' /\ Kept' /\ Exact'
<1>1. CallInv /\ Types /\ pc \in [Threads -> Pc]
  BY DEF LogInv, CallInv, Types, TypeOK
<1>2. /\ UNCHANGED <<log, crashes, op>>
      /\ pc[t] = "writeSn" /\ pc' = [pc EXCEPT ![t] = "writeCount"]
      /\ Write(t, Own(t).sn)
  BY DEF WriteSn, Goto, callVars, lockVars, readVars, Own
<1>3. offset[Proc[t]] = AtSn
  BY <1>1, <1>2, Before DEF InPlace
<1>4. head' = [sn |-> Own(t).sn, count |-> head.count, cursor |-> head.cursor] /\ ring' = ring
  BY <1>1, <1>2, <1>3, Writes
<1>5. head'.sn = Own(t).sn /\ head'.count = head.count /\ head'.cursor = head.cursor
  BY <1>4
<1>6. CursorExact'
  BY <1>2, <1>5 DEF LogInv, CursorExact, Position, Added
<1>7. Overwritten => Overwritten'
  BY <1>1, <1>2 DEF Overwritten, Fields
<1>8. Kept'
  BY <1>2, <1>4, <1>5, <1>7 DEF LogInv, Kept, SlotBack, Added
<1>9. \A u \in Threads : u # t => pc[u] \notin {"writeCount", "writeCursor"} /\ pc'[u] = pc[u]
  BY <1>1, <1>2, Excluded DEF Inside, Pc
<1>10. crashes = 0 => head.sn = Added /\ head.count = AtMost(Added, MaxQty)
  BY <1>2, <1>9 DEF LogInv, Exact
<1>11. crashes = 0 => Own(t).sn = AddedNext(t)
  BY <1>1, <1>2, <1>10, Before DEF Adding, Cleaning, Calling, Inside, Pc, Empty, AddedNext
<1>12. Added' = Added /\ AddedNext(t)' = AddedNext(t) /\ crashes' = crashes
  BY <1>2 DEF Added, AddedNext
<1>13. pc'[t] = "writeCount"
  BY <1>1, <1>2
<1>14. Exact'
  BY <1>5, <1>9, <1>10, <1>11, <1>12, <1>13 DEF Exact, AtMost
<1> QED BY <1>6, <1>8, <1>14

LEMMA WriteCountKeeps ==
  ASSUME LogInv, OneThread, NEW t \in Threads, WriteCount(t)
  PROVE CursorExact' /\ Kept' /\ Exact'
<1>1. CallInv /\ Types /\ pc \in [Threads -> Pc]
  BY DEF LogInv, CallInv, Types, TypeOK
<1>2. /\ UNCHANGED <<log, crashes, op>>
      /\ pc[t] = "writeCount" /\ pc' = [pc EXCEPT ![t] = "writeCursor"]
      /\ Write(t, Own(t).count)
  BY DEF WriteCount, Goto, callVars, lockVars, readVars, Own
<1>3. offset[Proc[t]] = AtCount
  BY <1>1, <1>2, Before DEF InPlace
<1>4. head' = [sn |-> head.sn, count |-> Own(t).count, cursor |-> head.cursor] /\ ring' = ring
  BY <1>1, <1>2, <1>3, Writes
<1>5. head'.sn = head.sn /\ head'.count = Own(t).count /\ head'.cursor = head.cursor
  BY <1>4
<1>6. CursorExact'
  BY <1>2, <1>5 DEF LogInv, CursorExact, Position, Added
<1>7. Overwritten => Overwritten'
  BY <1>1, <1>2 DEF Overwritten, Fields
<1>8. Kept'
  BY <1>2, <1>4, <1>5, <1>7 DEF LogInv, Kept, SlotBack, Added
<1>9. \A u \in Threads : u # t => pc[u] \notin {"writeCount", "writeCursor"} /\ pc'[u] = pc[u]
  BY <1>1, <1>2, Excluded DEF Inside, Pc
<1>10. crashes = 0 => head.sn = AddedNext(t) /\ head.count = AtMost(Added, MaxQty)
  BY <1>2, <1>9 DEF LogInv, Exact
<1>11. crashes = 0 => Own(t).count = AtMost(AddedNext(t), MaxQty)
  <2>1. Added \in Nat /\ head.count \in 0 .. MaxQty
    BY <1>1, Logged
  <2>2. CASE op[t] = "add"
    <3>1. Own(t).count = Capped(head.count + 1)
      BY <1>1, <1>2, <2>2, Before DEF Adding, Calling, Inside, Pc
    <3> QED BY <1>10, <2>1, <2>2, <3>1, Bounds DEF AddedNext, AtMost, Capped
  <2>3. CASE op[t] = "clean"
    <3>1. Own(t).count = 0
      BY <1>1, <1>2, <2>3, Before DEF Cleaning, Calling, Inside, Pc, Empty
    <3> QED BY <2>3, <3>1, Bounds DEF AddedNext, AtMost
  <2> QED BY <1>1, <2>2, <2>3, Before
<1>12. Added' = Added /\ AddedNext(t)' = AddedNext(t) /\ crashes' = crashes
  BY <1>2 DEF Added, AddedNext
<1>13. pc'[t] = "writeCursor"
  BY <1>1, <1>2
<1>14. Exact'
  BY <1>5, <1>9, <1>10, <1>11, <1>12, <1>13 DEF Exact, AtMost
<1> QED BY <1>6, <1>8, <1>14

LEMMA WriteRecordKeeps ==
  ASSUME LogInv, OneThread, NEW t \in Threads, WriteRecord(t)
  PROVE CursorExact' /\ Kept' /\ Exact'
<1>1. CallInv /\ Types /\ pc \in [Threads -> Pc]
  BY DEF LogInv, CallInv, Types, TypeOK
<1>2. /\ UNCHANGED <<log, crashes, op>>
      /\ pc[t] = "writeRec" /\ pc' = [pc EXCEPT ![t] = "seekSn"]
      /\ Write(t, rec[Proc[t]])
  BY DEF WriteRecord, Goto, callVars, lockVars, readVars
<1>3. /\ op[t] = "add" /\ Own(t).cursor = Wrapped(head.cursor + 1)
      /\ offset[Proc[t]] = AtRecord(Own(t).cursor)
  BY <1>1, <1>2, Before DEF Cleaning, Adding, Fields, Calling, Inside, Pc, InPlace
<1>4. Own(t).cursor \in 1 .. MaxQty
  BY <1>1, <1>3, Rounds, Typed
<1>5. head' = head /\ ring' = [ring EXCEPT ![Own(t).cursor] = rec[Proc[t]]]
  BY <1>1, <1>2, <1>3, <1>4, Writes
<1>6. CursorExact'
  BY <1>2, <1>5 DEF LogInv, CursorExact, Position, Added
<1>7. Overwritten'
  BY <1>1, <1>2, <1>3 DEF Overwritten, Fields
<1>8. ASSUME NEW k \in 0 .. MaxQty - 1, k < Added, k < MaxQty - 1
      PROVE ring'[SlotBack(k)] = log[Added - k]
  <2>1. head.cursor \in 1 .. MaxQty
    BY <1>1, <1>8, Logged, CursorAtRecord DEF LogInv
  <2>2. SlotBack(k) = IF k < head.cursor THEN head.cursor - k ELSE head.cursor - k + MaxQty
    BY <2>1, Behind DEF SlotBack
  <2>3. SlotBack(k) \in 1 .. MaxQty /\ SlotBack(k) # Own(t).cursor
    BY <1>3, <1>8, <2>1, <2>2, Bounds DEF Wrapped
  <2>4. ring[SlotBack(k)] = log[Added - k]
    BY <1>8 DEF LogInv, Kept
  <2> QED BY <1>1, <1>5, <2>3, <2>4, Typed
<1>9. Kept'
  BY <1>2, <1>5, <1>7, <1>8 DEF Kept, SlotBack, Added
<1>10. Exact'
  <2>1. \A u \in Threads : u # t => pc'[u] = pc[u]
    BY <1>1, <1>2
  <2>2. pc'[t] = "seekSn"
    BY <1>1, <1>2
  <2>3. Added' = Added /\ crashes' = crashes /\ head' = head /\ \A u \in Threads : AddedNext(u)' = AddedNext(u)
    BY <1>2, <1>5 DEF Added, AddedNext
  <2> QED BY <1>2, <2>1, <2>2, <2>3 DEF LogInv, Exact, AtMost
<1> QED BY <1>6, <1>9, <1>10

LEMMA WriteCursorKeeps ==
  ASSUME LogInv, OneThread, NEW t \in Threads, WriteCursor(t)
  PROVE CursorExact' /\ Kept' /\ Exact'
<1>1. CallInv /\ Types /\ pc \in [Threads -> Pc]
  BY DEF LogInv, CallInv, Types, TypeOK
<1>2. /\ UNCHANGED <<crashes, op, ring>>
      /\ pc[t] = "writeCursor" /\ pc' = [pc EXCEPT ![t] = "unlock"]
      /\ head' = [sn |-> head.sn, count |-> head.count, cursor |-> Own(t).cursor]
      /\ log' = IF op[t] = "add" THEN Append(log, id[t]) ELSE <<>>
  BY <1>1, LastWrite
<1>3. head'.sn = head.sn /\ head'.count = head.count /\ head'.cursor = Own(t).cursor
  BY <1>2
<1>4. /\ Added \in Nat /\ head.cursor \in 0 .. MaxQty /\ log \in Seq(1 .. MaxAdds)
      /\ head.cursor = Position(Added)
  BY <1>1, Logged DEF LogInv, CursorExact
<1>5. \A u \in Threads : u # t => pc[u] \notin {"writeCount", "writeCursor"} /\ pc'[u] = pc[u]
  BY <1>1, <1>2, Excluded DEF Inside, Pc
<1>6. pc'[t] = "unlock"
  BY <1>1, <1>2
<1>7. Added' = AddedNext(t)
  <2>1. CASE op[t] = "add"
    <3>1. id[t] \in 1 .. MaxAdds
      BY <1>1, <1>2, <2>1, Before DEF Adding, Calling, Inside, Pc
    <3> QED BY <1>2, <1>4, <2>1, <3>1, AppendProperties DEF Added, AddedNext
  <2>2. CASE op[t] # "add"
    BY <1>2, <2>2, EmptySeq DEF Added, AddedNext
  <2> QED BY <2>1, <2>2
<1>8. Exact'
  <2>1. crashes = 0 => head.sn = AddedNext(t) /\ head.count = AtMost(AddedNext(t), MaxQty)
    BY <1>2 DEF LogInv, Exact
  <2>2. crashes' = crashes
    BY <1>2
  <2> QED BY <1>3, <1>5, <1>6, <1>7, <2>1, <2>2 DEF Exact, AtMost
<1>9. CASE op[t] = "add"
  <2>1. /\ Own(t).cursor = Wrapped(head.cursor + 1) /\ ring[Own(t).cursor] = id[t]
        /\ id[t] \in 1 .. MaxAdds
    BY <1>1, <1>2, <1>9, Before DEF Adding, Calling, Inside, Pc, Fields
  <2>2. Added' = Added + 1
    BY <1>7, <1>9 DEF AddedNext
  <2>3. CursorExact'
    BY <1>3, <1>4, <2>1, <2>2, PositionNext DEF CursorExact, Position
  <2>4. /\ log'[Added + 1] = id[t]
        /\ \A i \in 1 .. Added : log'[i] = log[i]
    BY <1>2, <1>4, <1>9, <2>1, AppendProperties DEF Added
  <2>5. Own(t).cursor \in 1 .. MaxQty
    BY <1>4, <2>1, Rounds
  <2>6. ASSUME NEW k \in 0 .. MaxQty - 1, k < Added + 1
        PROVE ring[1 + ((Own(t).cursor - 1 - k + MaxQty) % MaxQty)] = log'[Added + 1 - k]
    <3>1. CASE k = 0
      <4>1. 1 + ((Own(t).cursor - 1 - 0 + MaxQty) % MaxQty) = Own(t).cursor
        BY <2>5, Behind, Bounds
      <4> QED BY <1>4, <2>1, <2>4, <3>1, <4>1
    <3>2. CASE k # 0
      <4>1. /\ k \in 1 .. MaxQty - 1 /\ k - 1 \in 0 .. MaxQty - 1 /\ k - 1 < Added /\ k - 1 < MaxQty - 1
            /\ Added > 0
        BY <1>4, <2>6, <3>2, Bounds
      <4>2. head.cursor \in 1 .. MaxQty
        BY <1>1, <4>1, CursorAtRecord DEF LogInv
      <4>3. 1 + ((Own(t).cursor - 1 - k + MaxQty) % MaxQty) = SlotBack(k - 1)
        BY <2>1, <4>1, <4>2, Shift DEF SlotBack
      <4>4. ring[SlotBack(k - 1)] = log[Added - (k - 1)]
        BY <4>1 DEF LogInv, Kept
      <4>5. Added + 1 - k = Added - (k - 1) /\ Added - (k - 1) \in 1 .. Added
        BY <1>4, <4>1
      <4> QED BY <2>4, <4>3, <4>4, <4>5
    <3> QED BY <3>1, <3>2
  <2>7. Kept'
    <3>1. ASSUME NEW k \in 0 .. MaxQty - 1, k < Added'
          PROVE ring'[SlotBack(k)'] = log'[Added' - k]
      <4>1. SlotBack(k)' = 1 + ((Own(t).cursor - 1 - k + MaxQty) % MaxQty)
        BY <1>3 DEF SlotBack
      <4>2. k < Added + 1 /\ Added' - k = Added + 1 - k
        BY <1>4, <2>2, <3>1
      <4>3. ring' = ring
        BY <1>2
      <4>4. ring[1 + ((Own(t).cursor - 1 - k + MaxQty) % MaxQty)] = log'[Added + 1 - k]
        BY <2>6, <4>2
      <4> QED BY <4>1, <4>2, <4>3, <4>4
    <3> QED BY <3>1 DEF Kept
  <2> QED BY <1>8, <2>3, <2>7
<1>10. CASE op[t] # "add"
  <2>1. op[t] = "clean"
    BY <1>1, <1>10, Before
  <2>2. Own(t).cursor = 0
    BY <1>1, <1>2, <2>1, Before DEF Cleaning, Calling, Inside, Pc, Empty
  <2>3. Added' = 0
    BY <1>7, <1>10 DEF AddedNext
  <2>4. CursorExact'
    BY <1>3, <2>2, <2>3 DEF CursorExact, Position
  <2>5. Kept'
    BY <2>3 DEF Kept
  <2> QED BY <1>8, <2>4, <2>5
<1> QED BY <1>9, <1>10

LEMMA CrashKeeps ==
  ASSUME LogInv, NEW p \in Procs, Crash(p) PROVE CursorExact' /\ Kept' /\ Exact'
<1>1. UNCHANGED <<head, ring, log>> /\ crashes' = crashes + 1
  BY DEF Crash, fileVars
<1>2. crashes' # 0
  BY <1>1, Logged DEF LogInv, CallInv
<1>3. CursorExact'
  BY <1>1 DEF LogInv, CursorExact, Position, Added
<1>4. Kept'
  BY <1>1, <1>2 DEF LogInv, Kept, SlotBack, Added
<1> QED BY <1>2, <1>3, <1>4 DEF Exact

-----------------------------------------------------------------------------
LEMMA InvariantInit == ASSUME Init PROVE LogInv
<1>1. CallInv
  BY CallInit
<1>2. /\ log = <<>> /\ head = Empty /\ \A t \in Threads : pc[t] = "idle"
  BY DEF Init
<1>3. Added = 0
  BY <1>2, EmptySeq DEF Added
<1>4. CursorExact /\ Kept
  BY <1>2, <1>3 DEF CursorExact, Kept, Position, Empty
<1>5. Exact
  BY <1>2, <1>3, Bounds DEF Exact, AtMost, Empty
<1> QED BY <1>1, <1>4, <1>5 DEF LogInv

LEMMA InvariantStep == ASSUME LogInv, OneThread, [Next]_vars PROVE LogInv'
<1>1. CallInv'
  BY CallStep DEF LogInv
<1>2. CASE UNCHANGED vars
  <2>1. Quiet
    BY <1>2 DEF vars, Quiet
  <2> QED BY <1>1, <2>1, QuietKeeps DEF LogInv
<1>3. ASSUME NEW t \in Threads, AddLog(t) \/ CleanLogs(t) \/ Step(t) \/ GetLogs(t) \/ ReadStep(t)
      PROVE LogInv'
  <2>1. CASE WriteRecord(t)
    BY <1>1, <2>1, WriteRecordKeeps DEF LogInv
  <2>2. CASE WriteSn(t)
    BY <1>1, <2>2, WriteSnKeeps DEF LogInv
  <2>3. CASE WriteCount(t)
    BY <1>1, <2>3, WriteCountKeeps DEF LogInv
  <2>4. CASE WriteCursor(t)
    BY <1>1, <2>4, WriteCursorKeeps DEF LogInv
  <2>5. CASE \/ AddLog(t) \/ CleanLogs(t) \/ Lock(t) \/ SeekHead(t) \/ ReadHead(t) \/ Bump(t)
             \/ FillRecord(t) \/ SeekRecord(t) \/ SeekSn(t) \/ Unlock(t) \/ GetLogs(t) \/ ReadStep(t)
    <3>1. Quiet
      BY <2>5, QuietActions DEF LogInv
    <3> QED BY <1>1, <3>1, QuietKeeps DEF LogInv
  <2> QED BY <1>3, <2>1, <2>2, <2>3, <2>4, <2>5 DEF Step
<1>4. ASSUME NEW p \in Procs, Crash(p) PROVE LogInv'
  BY <1>1, <1>4, CrashKeeps DEF LogInv
<1>5. ASSUME NEW p \in Procs, Restart(p) PROVE LogInv'
  <2>1. Quiet
    BY <1>5, RestartQuiet DEF LogInv
  <2> QED BY <1>1, <2>1, QuietKeeps DEF LogInv
<1> QED BY <1>2, <1>3, <1>4, <1>5 DEF Next

LEMMA InvariantAlways == ASSUME OneThread PROVE Spec => []LogInv
<1>1. OneThread /\ LogInv /\ [Next]_vars => LogInv'
  BY InvariantStep
<1>2. Init => LogInv
  BY InvariantInit
<1> QED BY <1>1, <1>2, PTL DEF Spec

\* Between two calls nobody is inside one.
LEMMA FreeIsQuiet ==
  ASSUME LogInv, lock = Free
  PROVE \A t \in Threads : pc[t] \notin {"seekSn", "writeSn", "writeCount", "writeCursor"}
BY Bounds DEF LogInv, CallInv, Alone, Inside, Pc

\* While every process logs from one thread all words of the file and of the
\* processes keep their ranges: no field is written in the place of another,
\* whenever a process dies.
THEOREM TypeCorrect == ASSUME OneThread PROVE Spec => []TypeOK
<1>1. LogInv => TypeOK
  BY DEF LogInv, CallInv, Types
<1> QED BY <1>1, InvariantAlways, PTL

\* While every process logs from one thread and nobody has died, the header
\* that a process finds under the lock is that of all the records added, by
\* whichever process, since the log was cleaned.
THEOREM HeaderIsExact == ASSUME OneThread PROVE Spec => []HeaderExact
<1>1. LogInv => HeaderExact
  <2> SUFFICES ASSUME LogInv, lock = Free, crashes = 0
               PROVE /\ head.sn = Added /\ head.count = AtMost(Added, MaxQty)
                     /\ head.cursor = IF Added = 0 THEN 0 ELSE 1 + ((Added - 1) % MaxQty)
    BY DEF HeaderExact
  <2> QED BY FreeIsQuiet DEF LogInv, Exact, CursorExact, Position
<1> QED BY <1>1, InvariantAlways, PTL

\* While every process logs from one thread, processes that die at any step of
\* add_log and clean_logs cost the oldest record of the ring at most.
THEOREM CrashesKeepTheLog == ASSUME OneThread PROVE Spec => []CrashKeepsLog
<1>1. LogInv => CrashKeepsLog
  <2> SUFFICES ASSUME LogInv, lock = Free, NEW k \in 0 .. MaxQty - 1,
                      k < Added, k < MaxQty - AtMost(crashes, 1)
               PROVE ring[SlotBack(k)] = log[Added - k]
    BY DEF CrashKeepsLog
  <2>1. ~Overwritten
    BY FreeIsQuiet DEF Overwritten, Fields
  <2>2. crashes \in Nat
    BY Logged DEF LogInv, CallInv
  <2>3. crashes = 0 \/ k < MaxQty - 1
    BY <2>2, Bounds DEF AtMost
  <2> QED BY <2>1, <2>3 DEF LogInv, Kept
<1> QED BY <1>1, InvariantAlways, PTL

-----------------------------------------------------------------------------
(* Reading *)

LEMMA RestIs ==
  ASSUME NEW n \in Nat, NEW r \in 0 .. MaxQty - 1, n \in {r, MaxQty + r, 2 * MaxQty + r}
  PROVE n % MaxQty = r
<1>1. r \in Nat
  BY Bounds
<1>2. CASE n = r
  <2>1. n = MaxQty * 0 + r
    BY <1>1, <1>2, Bounds
  <2> QED BY <2>1, Remainder, Bounds
<1>3. CASE n = MaxQty + r
  <2>1. n = MaxQty * 1 + r
    BY <1>1, <1>3, Bounds
  <2> QED BY <2>1, Remainder, Bounds
<1>4. CASE n = 2 * MaxQty + r
  <2>1. n = MaxQty * 2 + r
    BY <1>1, <1>4, Bounds
  <2> QED BY <2>1, Remainder, Bounds
<1> QED BY <1>2, <1>3, <1>4

\* Where the first of the records wanted is: the two ways to find it agree.
LEMMA FirstSlot ==
  ASSUME Types, CursorExact, head.count = AtMost(Added, MaxQty), NEW i \in 1 .. head.count
  PROVE /\ DescIndex(head, head.count - i + 1) = AscIndex(head, i)
        /\ head.cursor \in 1 .. MaxQty
        /\ head.count < MaxQty => head.cursor = head.count /\ AscIndex(head, i) = i
        /\ head.count = MaxQty =>
             AscIndex(head, i) = IF head.cursor + i < MaxQty THEN head.cursor + i
                           ELSE IF head.cursor + i \in {MaxQty, 2 * MaxQty} THEN 0 ELSE head.cursor + i - MaxQty
<1> DEFINE c == head.count  m == MaxQty  cur == head.cursor
<1>1. /\ Added \in Nat /\ c \in 0 .. m /\ cur \in 0 .. m /\ m \in Nat /\ m >= 1 /\ c >= 1 /\ i \in 1 .. c
      /\ c = IF Added > m THEN m ELSE Added
  BY Logged, Bounds DEF AtMost
<1>2. cur \in 1 .. m
  BY <1>1, CursorAtRecord
<1>3. ASSUME c < m PROVE cur = c
  <2>1. Added = c /\ Added # 0 /\ Added - 1 \in 0 .. m - 1 /\ Added - 1 = m * 0 + (Added - 1)
    BY <1>1, <1>3
  <2>2. Added - 1 = (Added - 1) % m
    BY <1>1, <2>1, Remainder
  <2>3. cur = 1 + ((Added - 1) % m)
    BY <2>1 DEF CursorExact, Position
  <2> QED BY <1>1, <2>1, <2>2, <2>3
<1>4. DescIndex(head, c - i + 1) = AscIndex(head, i)
  <2>1. m + cur - (c - i + 1) + 1 = cur + i + m - c
    BY <1>1
  <2> QED BY <2>1 DEF DescIndex, AscIndex
<1>5. ASSUME c < m PROVE AscIndex(head, i) = i
  <2>1. cur + i + m - c = m + i /\ i \in 0 .. m - 1 /\ m + i \in Nat
    BY <1>1, <1>3, <1>5
  <2>2. (m + i) % m = i
    BY <2>1, RestIs
  <2> QED BY <2>1, <2>2 DEF AscIndex
<1>6. ASSUME c = m
      PROVE AscIndex(head, i) = IF cur + i < m THEN cur + i ELSE IF cur + i \in {m, 2 * m} THEN 0 ELSE cur + i - m
  <2>1. cur + i + m - c = cur + i /\ cur + i \in Nat
    BY <1>1, <1>6
  <2>2. AscIndex(head, i) = (cur + i) % m
    BY <2>1 DEF AscIndex
  <2>3. ASSUME NEW r \in 0 .. m - 1, cur + i \in {r, m + r, 2 * m + r} PROVE AscIndex(head, i) = r
    BY <2>1, <2>2, <2>3, RestIs
  <2>4. CASE cur + i < m
    BY <1>1, <2>1, <2>3, <2>4
  <2>5. CASE cur + i \in {m, 2 * m}
    <3>1. 0 \in 0 .. m - 1 /\ cur + i \in {0, m + 0, 2 * m + 0}
      BY <1>1, <2>5
    <3>2. AscIndex(head, i) = 0
      BY <2>3, <3>1
    <3> QED BY <1>1, <2>5, <3>2
  <2>6. CASE cur + i > m /\ cur + i # 2 * m
    <3>1. cur + i = m + (cur + i - m) /\ cur + i - m \in 0 .. m - 1
      BY <1>1, <1>2, <1>6, <2>6
    <3> QED BY <1>1, <2>3, <2>6, <3>1
  <2> QED BY <1>1, <2>1, <2>4, <2>5, <2>6
<1> QED BY <1>2, <1>3, <1>4, <1>5, <1>6

\* The record that ReadLogs puts at each place.
LEMMA ReadLogsIs ==
  ASSUME Types, NEW f \in 1 .. MaxQty, NEW n \in 1 .. head.count,
         head.count < MaxQty => f + n - 1 <= head.count
  PROVE /\ ReadLogs(head, f, n) \in Seq(0 .. MaxAdds) /\ Len(ReadLogs(head, f, n)) = n
        /\ \A j \in 1 .. n :
             ReadLogs(head, f, n)[j] = ring[IF f + j - 1 <= MaxQty THEN f + j - 1 ELSE f + j - 1 - MaxQty]
<1> DEFINE c == head.count
           beyond == Beyond(head, f, n)
           extra == IF c < MaxQty THEN 0 ELSE beyond
           l == n - beyond
           first == [k \in 1 .. l |-> ring[f + k - 1]]
           rest == [k \in 1 .. extra |-> ring[k]]
<1>1. /\ c \in 1 .. MaxQty /\ ring \in [1 .. MaxQty -> 0 .. MaxAdds] /\ MaxQty \in Nat /\ f \in 1 .. MaxQty /\ n \in 1 .. c
      /\ c < MaxQty => f + n - 1 <= c
  BY Typed, Bounds
<1>2. AtLeast(f, 1) = f /\ Asked(head, n) = n
  BY <1>1 DEF AtLeast, AtMost, Asked
<1>3. ReadLogs(head, f, n) = first \o rest
  BY <1>2 DEF ReadLogs
<1>4. /\ beyond \in 0 .. n - 1 /\ beyond = extra
      /\ f + n - beyond - 1 <= MaxQty
      /\ beyond > 0 => c = MaxQty /\ n - beyond = MaxQty - f + 1
  <2>1. beyond = IF n > 1 /\ f + n - 1 - c >= 0 THEN f + n - 1 - c ELSE 0
    BY <1>1 DEF AtLeast, Beyond
  <2>2. extra = IF c < MaxQty THEN 0 ELSE beyond
    OBVIOUS
  <2> HIDE DEF beyond, extra
  <2>3. CASE c < MaxQty
    <3>1. f + n - 1 <= c /\ beyond = 0 /\ extra = 0
      BY <1>1, <2>1, <2>2, <2>3
    <3> QED BY <1>1, <2>3, <3>1
  <2>4. CASE c = MaxQty
    BY <1>1, <2>1, <2>2, <2>4
  <2> QED BY <1>1, <2>3, <2>4
<1> HIDE DEF beyond, extra
<1>5. l \in 1 .. n /\ f + l - 1 <= MaxQty /\ l + beyond = n /\ extra \in Nat /\ extra <= MaxQty
  BY <1>1, <1>4
<1> HIDE DEF l
<1>6. first \in Seq(0 .. MaxAdds) /\ Len(first) = l
  <2>1. l \in Nat /\ \A k \in 1 .. l : ring[f + k - 1] \in 0 .. MaxAdds
    BY <1>1, <1>5
  <2>2. first \in [1 .. l -> 0 .. MaxAdds]
    BY <2>1
  <2> QED BY <2>1, <2>2, SeqDef
<1>7. rest \in Seq(0 .. MaxAdds) /\ Len(rest) = beyond
  <2>1. extra \in Nat /\ \A k \in 1 .. extra : ring[k] \in 0 .. MaxAdds
    BY <1>1, <1>5
  <2>2. rest \in [1 .. extra -> 0 .. MaxAdds]
    BY <2>1
  <2> QED BY <1>4, <2>1, <2>2, SeqDef
<1>8. /\ \A j \in 1 .. l : first[j] = ring[f + j - 1]
      /\ \A j \in 1 .. beyond : rest[j] = ring[j]
  BY <1>4
<1> HIDE DEF first, rest
<1>9. /\ first \o rest \in Seq(0 .. MaxAdds)
      /\ Len(first \o rest) = Len(first) + Len(rest)
      /\ \A j \in 1 .. Len(first) + Len(rest) :
           (first \o rest)[j] = IF j <= Len(first) THEN first[j] ELSE rest[j - Len(first)]
  BY <1>6, <1>7, ConcatProperties
<1>10. /\ Len(first \o rest) = n
       /\ \A j \in 1 .. n : (first \o rest)[j] = IF j <= l THEN first[j] ELSE rest[j - l]
  BY <1>5, <1>6, <1>7, <1>9
<1>11. ASSUME NEW j \in 1 .. n
       PROVE (first \o rest)[j] = ring[IF f + j - 1 <= MaxQty THEN f + j - 1 ELSE f + j - 1 - MaxQty]
  <2>1. j \in Nat /\ l \in Nat /\ beyond \in Nat
    BY <1>1, <1>4, <1>5
  <2>2. CASE j <= l
    <3>1. f + j - 1 <= MaxQty /\ j \in 1 .. l
      BY <1>1, <1>5, <2>1, <2>2
    <3>2. (first \o rest)[j] = first[j]
      BY <1>10, <2>2
    <3> QED BY <1>8, <3>1, <3>2
  <2>3. CASE j > l
    <3>1. /\ j - l \in 1 .. beyond /\ f + j - 1 > MaxQty /\ j - l = f + j - 1 - MaxQty
      BY <1>1, <1>4, <1>5, <2>1, <2>3 DEF l
    <3>2. (first \o rest)[j] = rest[j - l]
      BY <1>10, <2>1, <2>3
    <3>3. ~(f + j - 1 <= MaxQty)
      BY <1>1, <2>1, <3>1
    <3>4. rest[j - l] = ring[f + j - 1 - MaxQty]
      BY <1>8, <3>1
    <3> QED BY <3>2, <3>3, <3>4
  <2>4. j <= l \/ j > l
    BY <2>1
  <2> QED BY <2>2, <2>3, <2>4
<1> QED BY <1>3, <1>9, <1>10, <1>11

\* A request that starts at record i of the log and asks for n records that it
\* has is served with them.
LEMMA Served ==
  ASSUME LogInv, lock = Free, crashes = 0, NEW i \in 1 .. head.count, AscIndex(head, i) # 0,
         NEW n \in 1 .. head.count - i + 1
  PROVE ReadLogs(head, AscIndex(head, i), n) = SubSeq(Logs, i, i + n - 1)
<1> DEFINE c == head.count  cur == head.cursor  f == AscIndex(head, i)
           slot(j) == IF f + j - 1 <= MaxQty THEN f + j - 1 ELSE f + j - 1 - MaxQty
<1>1. Types /\ CursorExact /\ Kept /\ c = AtMost(Added, MaxQty) /\ ~Overwritten
  BY FreeIsQuiet DEF LogInv, CallInv, Exact, Overwritten, Fields
<1>2. /\ Added \in Nat /\ c \in 1 .. MaxQty /\ MaxQty \in Nat /\ i \in 1 .. c /\ n \in 1 .. c /\ c <= Added
      /\ i + n - 1 <= c
  <2>1. Added \in Nat /\ c \in 0 .. MaxQty /\ MaxQty \in Nat /\ c <= Added
    BY <1>1, Logged, Bounds DEF AtMost
  <2> QED BY <2>1
<1>3. /\ cur \in 1 .. MaxQty /\ f # 0
      /\ c < MaxQty => cur = c /\ f = i
      /\ c = MaxQty => f = IF cur + i < MaxQty THEN cur + i
                           ELSE IF cur + i \in {MaxQty, 2 * MaxQty} THEN 0 ELSE cur + i - MaxQty
  BY <1>1, FirstSlot
<1> HIDE DEF f
<1>4. f \in 1 .. MaxQty /\ (c < MaxQty => f + n - 1 <= c)
  BY <1>2, <1>3
<1>5. /\ ReadLogs(head, f, n) \in Seq(0 .. MaxAdds) /\ Len(ReadLogs(head, f, n)) = n
      /\ \A j \in 1 .. n : ReadLogs(head, f, n)[j] = ring[slot(j)]
  BY <1>1, <1>2, <1>4, ReadLogsIs
<1>6. ASSUME NEW j \in 1 .. n
      PROVE /\ Logs[i + j - 1] = ring[slot(j)]
            /\ Logs[i + j - 1] \in 0 .. MaxAdds
  <2> DEFINE k == c - i - j + 1
  <2>1. j \in Nat /\ k \in 0 .. MaxQty - 1 /\ k < Added /\ i + j - 1 \in 1 .. c /\ Added - c + (i + j - 1) = Added - k
        /\ Added - k \in 1 .. Added
    BY <1>2
  <2>2. Logs[i + j - 1] = log[Added - k]
    BY <2>1 DEF Logs
  <2>3. ring[SlotBack(k)] = log[Added - k]
    <3> HIDE DEF k
    <3> QED BY <1>1, <2>1 DEF Kept
  <2>4. SlotBack(k) = IF k < cur THEN cur - k ELSE cur - k + MaxQty
    <3> HIDE DEF k
    <3> QED BY <1>3, <2>1, Behind DEF SlotBack
  <2>5. SlotBack(k) = slot(j)
    <3>1. CASE c < MaxQty
      BY <1>2, <1>3, <2>1, <2>4, <3>1
    <3>2. CASE c = MaxQty
      <4>1. \/ f = cur + i /\ cur + i < MaxQty
            \/ f = cur + i - MaxQty /\ cur + i > MaxQty
        BY <1>2, <1>3, <3>2
      <4>2. k = MaxQty - i - j + 1 /\ i + j - 1 <= MaxQty /\ i \in 1 .. MaxQty
        BY <1>2, <2>1, <3>2
      <4>3. CASE f = cur + i /\ cur + i < MaxQty
        <5>1. (k < cur) <=> ~(f + j - 1 <= MaxQty)
          BY <1>2, <1>3, <2>1, <4>2, <4>3
        <5> QED BY <1>2, <1>3, <2>1, <2>4, <4>2, <4>3, <5>1
      <4>4. CASE f = cur + i - MaxQty /\ cur + i > MaxQty
        <5>1. k < cur /\ f + j - 1 <= MaxQty
          BY <1>2, <1>3, <2>1, <4>2, <4>4
        <5> QED BY <1>2, <1>3, <2>1, <2>4, <4>2, <4>4, <5>1
      <4> QED BY <4>1, <4>3, <4>4
    <3>3. c < MaxQty \/ c = MaxQty
      BY <1>2
    <3> QED BY <3>1, <3>2, <3>3
  <2>6. log[Added - k] \in 0 .. MaxAdds
    <3> HIDE DEF k
    <3>1. log[Added - k] \in 1 .. MaxAdds
      BY <1>1, <2>1, Logged, ElementOfSeq DEF Added
    <3> QED BY <3>1, Bounds
  <2> HIDE DEF k, slot
  <2> QED BY <2>2, <2>3, <2>5, <2>6
<1>7. /\ SubSeq(Logs, i, i + n - 1) \in Seq(0 .. MaxAdds)
      /\ Len(SubSeq(Logs, i, i + n - 1)) = n
      /\ \A j \in 1 .. n : SubSeq(Logs, i, i + n - 1)[j] = Logs[i + j - 1]
  <2>1. \A x \in i .. i + n - 1 : Logs[x] \in 0 .. MaxAdds
    <3> TAKE x \in i .. i + n - 1
    <3>1. x - i + 1 \in 1 .. n /\ i + (x - i + 1) - 1 = x
      BY <1>2
    <3> QED BY <1>6, <3>1
  <2>2. i \in Int /\ i + n - 1 \in Int /\ (i + n - 1) - i + 1 = n /\ i <= i + n - 1
    BY <1>2
  <2> QED BY <2>1, <2>2, SubSeqProperties
<1> HIDE DEF slot
<1>8. \A j \in 1 .. n : ReadLogs(head, f, n)[j] = SubSeq(Logs, i, i + n - 1)[j]
  BY <1>5, <1>6, <1>7
<1>9. ReadLogs(head, f, n) = SubSeq(Logs, i, i + n - 1)
  BY <1>5, <1>7, <1>8, SeqEqual
<1> QED BY <1>9 DEF f

\* The calls return what ReadLogs reads, for every way to ask.
LEMMA AllKinds ==
  ASSUME LogInv, lock = Free, crashes = 0, NEW r \in Requests, Had(r), r.kind # "info",
         AscIndex(head, First(r)) # 0
  PROVE /\ First(r) \in 1 .. head.count /\ r.count \in 1 .. head.count - First(r) + 1
        /\ Records(head, r) = SubSeq(Logs, First(r), First(r) + r.count - 1)
<1> DEFINE i == First(r)  n == r.count  f == AscIndex(head, i)
<1>1. /\ Types /\ CursorExact /\ Kept /\ head.sn = Added /\ head.count = AtMost(Added, MaxQty)
  BY FreeIsQuiet DEF LogInv, CallInv, Exact
<1>2. /\ Added \in Nat /\ head.count \in 0 .. MaxQty /\ head.count <= head.sn /\ head.sn \in Nat
      /\ MaxQty \in Nat
  BY <1>1, Logged, Bounds DEF AtMost
<1>3. /\ r.kind \in {"one", "asc", "desc", "sn", "info"} /\ r.first \in Int /\ n \in Nat /\ n >= 1
      /\ r.kind = "one" => n = 1
  BY RequestAssumption
<1>4. i \in Int
  BY <1>2, <1>3 DEF First
<1>5. i >= 1 /\ i + n - 1 <= head.count
  BY DEF Had
<1>6. i \in 1 .. head.count /\ n \in 1 .. head.count - i + 1
  BY <1>2, <1>3, <1>4, <1>5
<1>7. ReadLogs(head, f, n) = SubSeq(Logs, i, i + n - 1)
  BY <1>6, Served
<1>8. DescIndex(head, head.count - i + 1) = f
  BY <1>1, <1>6, FirstSlot
<1>9. CASE r.kind = "asc"
  <2>1. i = r.first
    BY <1>9 DEF First
  <2>2. Records(head, r) = ReadLogs(head, AscIndex(head, r.first), n)
    BY <1>9 DEF Records
  <2> QED BY <1>6, <1>7, <2>1, <2>2
<1>10. CASE r.kind = "desc"
  <2>1. head.count - i + 1 = r.first
    BY <1>2, <1>3, <1>10 DEF First
  <2>2. Records(head, r) = ReadLogs(head, DescIndex(head, r.first), n)
    BY <1>10 DEF Records
  <2> QED BY <1>6, <1>7, <1>8, <2>1, <2>2
<1>11. CASE r.kind = "sn"
  <2>1. i = r.first - (head.sn - head.count)
    BY <1>11 DEF First
  <2>2. LastTh(head, r.first, n) = head.count - i + 1 /\ AtMost(n, head.count - i + 1) = n
    <3> HIDE DEF i, n
    <3> QED BY <1>2, <1>3, <1>6, <2>1 DEF LastTh, AtMost
  <2>3. Records(head, r) = ReadLogs(head, DescIndex(head, LastTh(head, r.first, n)), AtMost(n, LastTh(head, r.first, n)))
    BY <1>11 DEF Records
  <2> QED BY <1>6, <1>7, <1>8, <2>2, <2>3
<1>12. CASE r.kind = "one"
  <2>1. n = 1 /\ i = r.first
    BY <1>3, <1>12 DEF First
  <2>2. Records(head, r) = <<ring[f]>>
    BY <1>12, <2>1 DEF Records
  <2>3. f \in 1 .. MaxQty
    <3>1. /\ head.cursor \in 1 .. MaxQty
          /\ head.count < MaxQty => f = i
          /\ head.count = MaxQty =>
               f = IF head.cursor + i < MaxQty THEN head.cursor + i
                   ELSE IF head.cursor + i \in {MaxQty, 2 * MaxQty} THEN 0 ELSE head.cursor + i - MaxQty
      BY <1>1, <1>6, FirstSlot
    <3>2. f # 0
      OBVIOUS
    <3> HIDE DEF f, i, n
    <3> QED BY <1>2, <1>6, <3>1, <3>2
  <2>4. head.count < MaxQty => f <= head.count
    BY <1>1, <1>6, FirstSlot
  <2>5. /\ ReadLogs(head, f, 1) \in Seq(0 .. MaxAdds) /\ Len(ReadLogs(head, f, 1)) = 1
        /\ ReadLogs(head, f, 1)[1] = ring[f]
    <3>1. 1 \in 1 .. head.count /\ (head.count < MaxQty => f + 1 - 1 <= head.count)
      BY <1>2, <1>6, <2>1, <2>3, <2>4
    <3>2. /\ ReadLogs(head, f, 1) \in Seq(0 .. MaxAdds) /\ Len(ReadLogs(head, f, 1)) = 1
          /\ \A j \in 1 .. 1 :
               ReadLogs(head, f, 1)[j] = ring[IF f + j - 1 <= MaxQty THEN f + j - 1 ELSE f + j - 1 - MaxQty]
      BY <1>1, <2>3, <3>1, ReadLogsIs
    <3>3. (IF f + 1 - 1 <= MaxQty THEN f + 1 - 1 ELSE f + 1 - 1 - MaxQty) = f
      BY <1>2, <2>3
    <3> QED BY <3>2, <3>3
  <2>6. ReadLogs(head, f, 1) = <<ring[f]>>
    <3> DEFINE sq == ReadLogs(head, f, 1)
    <3> HIDE DEF sq
    <3>1. sq \in Seq(0 .. MaxAdds) /\ Len(sq) = 1 /\ sq[1] = ring[f]
      BY <2>5 DEF sq
    <3> QED BY <3>1 DEF sq
  <2> QED BY <1>6, <1>7, <2>1, <2>2, <2>6
<1> QED BY <1>3, <1>6, <1>9, <1>10, <1>11, <1>12

\* While every process logs from one thread and nobody has died, a request for
\* records the log has is answered with them in the order in which they were
\* added, by index, by distance from the end and by serial number, unless it
\* starts at the last slot of the ring: the processes that add meanwhile wait.
THEOREM ReadsAreRight == ASSUME OneThread PROVE Spec => []ReadsRight
<1>1. LogInv => ReadsRight
  <2> SUFFICES ASSUME LogInv, NEW t \in Threads, pc[t] = "records", crashes = 0,
                      Had(ask[t]), AscIndex(head, First(ask[t])) # 0
               PROVE Answered(t)
    BY DEF ReadsRight
  <2>1. Own(t) = head /\ ask[t] \in Requests /\ ask[t].kind # "info" /\ lock = Free
    BY Before DEF LogInv, Progress, Reading
  <2> QED BY <2>1, AllKinds DEF Answered, Own
<1> QED BY <1>1, InvariantAlways, PTL
=============================================================================
