------------------------------ MODULE EventLog ------------------------------
(***************************************************************************)
(* event/eventlog.c: the file running.log, a header (last_sn, log_count,   *)
(* log_cursor) in front of a ring of records, that several processes open. *)
(* add_log and clean_logs work on it step by step under an fcntl lock,     *)
(* which belongs to a process: it keeps other processes out, not the other *)
(* threads of the same one, and any of them releases it.  The threads of a *)
(* process share the file offset, event_logs and the static record of      *)
(* add_log.  A process may die at any step; the kernel drops its locks.    *)
(* get_log, get_logs_asc, get_logs_desc, get_logs_by_sn and get_loginfo    *)
(* read it under a lock that readers share.                                *)
(***************************************************************************)
EXTENDS Integers, Sequences

CONSTANTS
  Procs,       \* processes that have the file open
  Threads,     \* their threads that log
  Proc,        \* the process of each thread
  MaxQty,      \* EVENT_LOG_MAX_NUM
  Free,        \* nobody holds the lock
  Requests,    \* what the calls that read may ask for
  MaxAdds,     \* bound on the calls of add_log
  MaxCleans,   \* bound on the calls of clean_logs
  MaxReads,    \* bound on the calls that read
  MaxCrashes   \* bound on the deaths of processes

ASSUME LogAssumption ==
  /\ Proc \in [Threads -> Procs]
  /\ MaxQty \in Nat \ {0} /\ Free \notin Procs
  /\ {MaxAdds, MaxCleans, MaxReads, MaxCrashes} \subseteq Nat

\* get_log, get_logs_asc, _desc and _by_sn, and get_loginfo, with their arguments:
\* an index, a distance from the end or a serial number, and how many records.
ASSUME RequestAssumption ==
  /\ Requests \subseteq [kind : {"one", "asc", "desc", "sn", "info"}, first : Int, count : Nat \ {0}]
  /\ \A r \in Requests : r.kind = "one" => r.count = 1

VARIABLES
  head,     \* header of the file
  ring,     \* records of the file; 0: never written
  lock,     \* process that holds the write lock
  readers,  \* processes that hold the read lock
  mutex,    \* whether mutex_lock of each process is locked
  mem,      \* event_logs of each process
  offset,   \* file offset of each process
  rec,      \* the static record of add_log in each process
  pc, op,   \* where each thread is, and in which call
  ask,      \* what a thread that reads was asked for
  id,       \* the record a thread was asked to add
  adds, cleans, reads, crashes,  \* counters for the bounds
  log       \* history: the records added since the last clean

vars == <<head, ring, lock, readers, mutex, mem, offset, rec, pc, op, ask, id,
          adds, cleans, reads, crashes, log>>
fileVars == <<head, ring>>
lockVars == <<lock, readers, mutex>>
procVars == <<mem, offset, rec>>
callVars == <<op, id, adds, cleans, crashes>>
readVars == <<ask, reads>>

Header == [sn : Nat, count : Nat, cursor : Nat]
Empty == [sn |-> 0, count |-> 0, cursor |-> 0]

\* Offsets: the header, its three fields, the records.
AtHead == 0
AtSn == 1
AtCount == 2
AtCursor == 3
AtRecord(k) == 3 + k

Pc == {"idle", "lock", "seekHead", "readHead", "bump", "fill", "seekRec", "writeRec",
       "seekSn", "writeSn", "writeCount", "writeCursor", "unlock", "down",
       "rdLock", "rdSeek", "rdHead", "ask", "mutex", "records", "rdUnlock"}
NoRequest == [kind |-> "none", first |-> 0, count |-> 0]

Init ==
  /\ head = Empty /\ ring = [k \in 1 .. MaxQty |-> 0]
  /\ lock = Free /\ readers = {} /\ mutex = [p \in Procs |-> FALSE]
  /\ mem = [p \in Procs |-> Empty]
  /\ offset = [p \in Procs |-> AtHead]
  /\ rec = [p \in Procs |-> 0]
  /\ pc = [t \in Threads |-> "idle"] /\ op = [t \in Threads |-> "add"]
  /\ ask = [t \in Threads |-> NoRequest] /\ id = [t \in Threads |-> 0]
  /\ adds = 0 /\ cleans = 0 /\ reads = 0 /\ crashes = 0
  /\ log = <<>>

Goto(t, l) == pc' = [pc EXCEPT ![t] = l]
Seek(t, o) == offset' = [offset EXCEPT ![Proc[t]] = o]

\* write() at the offset of the process, which it moves on.  A field goes where
\* the offset is, whatever it was meant for.
Write(t, v) ==
  LET o == offset[Proc[t]] IN
  /\ head' = [sn     |-> IF o = AtSn THEN v ELSE head.sn,
              count  |-> IF o = AtCount THEN v ELSE head.count,
              cursor |-> IF o = AtCursor THEN v ELSE head.cursor]
  /\ ring' = [k \in 1 .. MaxQty |-> IF o = AtRecord(k) THEN v ELSE ring[k]]
  /\ Seek(t, o + 1)

-----------------------------------------------------------------------------
(* add_log and clean_logs *)

AddLog(t) ==
  /\ pc[t] = "idle" /\ adds < MaxAdds
  /\ adds' = adds + 1
  /\ id' = [id EXCEPT ![t] = adds + 1]
  /\ op' = [op EXCEPT ![t] = "add"]
  /\ Goto(t, "lock")
  /\ UNCHANGED <<fileVars, procVars, lockVars, cleans, crashes, readVars, log>>

\* clean_logs takes the mutex and empties event_logs before it takes the lock.
CleanLogs(t) ==
  /\ pc[t] = "idle" /\ cleans < MaxCleans /\ ~mutex[Proc[t]]
  /\ mutex' = [mutex EXCEPT ![Proc[t]] = TRUE]
  /\ cleans' = cleans + 1
  /\ op' = [op EXCEPT ![t] = "clean"]
  /\ mem' = [mem EXCEPT ![Proc[t]] = Empty]
  /\ Goto(t, "lock")
  /\ UNCHANGED <<fileVars, offset, rec, lock, readers, id, adds, crashes, readVars, log>>

\* Mutant of Lock: waits for nobody.
LockAnyway(t) ==
  /\ pc[t] = "lock"
  /\ lock' = Proc[t] /\ readers' = readers \ {Proc[t]}
  /\ Goto(t, IF op[t] = "add" THEN "seekHead" ELSE "seekSn")
  /\ UNCHANGED <<fileVars, mutex, procVars, callVars, readVars, log>>

\* A lock of the own process is no obstacle: it becomes the one asked for.
Lock(t) ==
  /\ pc[t] = "lock" /\ lock \in {Free, Proc[t]} /\ readers \subseteq {Proc[t]}
  /\ lock' = Proc[t] /\ readers' = readers \ {Proc[t]}
  /\ Goto(t, IF op[t] = "add" THEN "seekHead" ELSE "seekSn")
  /\ UNCHANGED <<fileVars, mutex, procVars, callVars, readVars, log>>

SeekHead(t) ==
  /\ pc[t] = "seekHead"
  /\ Seek(t, AtHead) /\ Goto(t, "readHead")
  /\ UNCHANGED <<fileVars, mem, rec, lockVars, callVars, readVars, log>>

\* What a read of the header finds.  At another offset it would find records:
\* only a thread of the same process can have moved it.
HeaderAt(o) == IF o = AtHead THEN head ELSE [sn |-> ring[1], count |-> ring[1], cursor |-> ring[1]]

\* Reads the header into event_logs.
ReadHead(t) ==
  /\ pc[t] = "readHead"
  /\ mem' = [mem EXCEPT ![Proc[t]] = HeaderAt(offset[Proc[t]])]
  /\ Seek(t, AtRecord(1)) /\ Goto(t, "bump")
  /\ UNCHANGED <<fileVars, rec, lockVars, callVars, readVars, log>>

Capped(n) == IF n > MaxQty THEN MaxQty ELSE n

\* Mutant of Wrapped: an index before the first record.
WrappedToZero(n) == IF n > MaxQty THEN 0 ELSE n

Wrapped(n) == IF n > MaxQty THEN 1 ELSE n

Bump(t) ==
  /\ pc[t] = "bump"
  /\ LET m == mem[Proc[t]] IN
     mem' = [mem EXCEPT ![Proc[t]] = [sn     |-> m.sn + 1,
                                      count  |-> Capped(m.count + 1),
                                      cursor |-> Wrapped(m.cursor + 1)]]
  /\ Goto(t, "fill")
  /\ UNCHANGED <<fileVars, offset, rec, lockVars, callVars, readVars, log>>

FillRecord(t) ==
  /\ pc[t] = "fill"
  /\ rec' = [rec EXCEPT ![Proc[t]] = id[t]]
  /\ Goto(t, "seekRec")
  /\ UNCHANGED <<fileVars, mem, offset, lockVars, callVars, readVars, log>>

SeekRecord(t) ==
  /\ pc[t] = "seekRec"
  /\ Seek(t, AtRecord(mem[Proc[t]].cursor)) /\ Goto(t, "writeRec")
  /\ UNCHANGED <<fileVars, mem, rec, lockVars, callVars, readVars, log>>

WriteRecord(t) ==
  /\ pc[t] = "writeRec"
  /\ Write(t, rec[Proc[t]]) /\ Goto(t, "seekSn")
  /\ UNCHANGED <<mem, rec, lockVars, callVars, readVars, log>>

SeekSn(t) ==
  /\ pc[t] = "seekSn"
  /\ Seek(t, AtSn) /\ Goto(t, "writeSn")
  /\ UNCHANGED <<fileVars, mem, rec, lockVars, callVars, readVars, log>>

WriteSn(t) ==
  /\ pc[t] = "writeSn"
  /\ Write(t, mem[Proc[t]].sn) /\ Goto(t, "writeCount")
  /\ UNCHANGED <<mem, rec, lockVars, callVars, readVars, log>>

WriteCount(t) ==
  /\ pc[t] = "writeCount"
  /\ Write(t, mem[Proc[t]].count) /\ Goto(t, "writeCursor")
  /\ UNCHANGED <<mem, rec, lockVars, callVars, readVars, log>>

\* With the cursor the record becomes part of the log.
WriteCursor(t) ==
  /\ pc[t] = "writeCursor"
  /\ Write(t, mem[Proc[t]].cursor) /\ Goto(t, "unlock")
  /\ log' = IF op[t] = "add" THEN Append(log, id[t]) ELSE <<>>
  /\ UNCHANGED <<mem, rec, lockVars, callVars, readVars>>

\* Drops every lock of the process, whichever thread asked for it.
Release(p) ==
  /\ lock' = IF lock = p THEN Free ELSE lock
  /\ readers' = readers \ {p}

\* clean_logs then lets the mutex go.
Unlock(t) ==
  /\ pc[t] = "unlock"
  /\ Release(Proc[t])
  /\ mutex' = [mutex EXCEPT ![Proc[t]] = @ /\ op[t] = "add"]
  /\ Goto(t, "idle")
  /\ UNCHANGED <<fileVars, procVars, callVars, readVars, log>>

Step(t) ==
  \/ Lock(t) \/ SeekHead(t) \/ ReadHead(t) \/ Bump(t) \/ FillRecord(t) \/ SeekRecord(t)
  \/ WriteRecord(t) \/ SeekSn(t) \/ WriteSn(t) \/ WriteCount(t) \/ WriteCursor(t)
  \/ Unlock(t)

-----------------------------------------------------------------------------
(* The calls that read *)

AtLeast(n, low) == IF n < low THEN low ELSE n
AtMost(n, high) == IF n > high THEN high ELSE n

\* What read_logs reads for a header h: as many records as the log has, and the
\* part of them that lies beyond the last record.
Asked(h, count) == AtMost(count, h.count)
Beyond(h, first, asked) == IF asked > 1 THEN AtLeast(first + asked - 1 - h.count, 0) ELSE 0

\* The records from an index of the ring on; what lies beyond the last one is
\* read from the first one if the ring is full.
ReadLogs(h, index, count) ==
  LET first == AtLeast(index, 1)
      asked == Asked(h, count)
      beyond == Beyond(h, first, asked)
      extra == IF h.count < MaxQty THEN 0 ELSE beyond
  IN [k \in 1 .. asked - beyond |-> ring[first + k - 1]] \o [k \in 1 .. extra |-> ring[k]]

\* Mutant of AscIndex: counts the indices from 0.
AscIndexFromZero(h, index) == (h.cursor + index + 1 + MaxQty - h.count) % MaxQty

AscIndex(h, index) == (h.cursor + index + MaxQty - h.count) % MaxQty
DescIndex(h, last) == (MaxQty + h.cursor - last + 1) % MaxQty

\* last_th is compared as an unsigned number: a negative one is the greatest.
LastTh(h, sn, count) ==
  LET back == h.sn - sn + 1 IN
  IF sn <= 0 THEN AtMost(count, h.count)
  ELSE IF back < 0 \/ back > h.count THEN h.count ELSE back

\* The records a call returns.  get_log reads at the index as it is: before the
\* first record it finds words of the header, which are no record.
Records(h, r) ==
  CASE r.kind = "one" -> LET i == AscIndex(h, r.first) IN <<IF i = 0 THEN 0 ELSE ring[i]>>
    [] r.kind = "asc" -> ReadLogs(h, AscIndex(h, r.first), r.count)
    [] r.kind = "desc" -> ReadLogs(h, DescIndex(h, r.first), r.count)
    [] r.kind = "sn" -> LET last == LastTh(h, r.first, r.count)
                        IN ReadLogs(h, DescIndex(h, last), AtMost(r.count, last))
    [] OTHER -> <<>>

GetLogs(t) ==
  /\ pc[t] = "idle" /\ reads < MaxReads
  /\ reads' = reads + 1
  /\ Goto(t, "rdLock")
  /\ UNCHANGED <<fileVars, lockVars, procVars, callVars, ask, log>>

\* Readers keep writers out, not each other.
RdLock(t) ==
  /\ pc[t] = "rdLock" /\ lock \in {Free, Proc[t]}
  /\ lock' = Free /\ readers' = readers \cup {Proc[t]}
  /\ Goto(t, "rdSeek")
  /\ UNCHANGED <<fileVars, mutex, procVars, callVars, readVars, log>>

RdSeek(t) ==
  /\ pc[t] = "rdSeek"
  /\ Seek(t, AtHead) /\ Goto(t, "rdHead")
  /\ UNCHANGED <<fileVars, mem, rec, lockVars, callVars, readVars, log>>

RdHead(t) ==
  /\ pc[t] = "rdHead"
  /\ mem' = [mem EXCEPT ![Proc[t]] = HeaderAt(offset[Proc[t]])]
  /\ Seek(t, AtRecord(1)) /\ Goto(t, "ask")
  /\ UNCHANGED <<fileVars, rec, lockVars, callVars, readVars, log>>

\* What the caller asked for matters from here on.  get_logs_asc goes on to the
\* mutex, which the others leave alone; for an index out of range it returns
\* with the file locked, and so does get_log.
Ask(t) ==
  /\ pc[t] = "ask"
  /\ \E r \in Requests :
       LET refused == r.kind \in {"one", "asc", "desc"} /\ r.first \notin 1 .. mem[Proc[t]].count IN
       \/ /\ refused /\ r.kind # "desc"
          /\ Goto(t, "idle") /\ UNCHANGED ask
       \/ /\ (refused /\ r.kind = "desc") \/ r.kind = "info"
          /\ Goto(t, "rdUnlock") /\ UNCHANGED ask
       \/ /\ ~refused /\ r.kind # "info"
          /\ Goto(t, IF r.kind = "asc" THEN "mutex" ELSE "records")
          /\ ask' = [ask EXCEPT ![t] = r]
  /\ UNCHANGED <<fileVars, lockVars, procVars, callVars, reads, log>>

\* Nothing of get_logs_asc unlocks the mutex again.
TakeMutex(t) ==
  /\ pc[t] = "mutex" /\ ~mutex[Proc[t]]
  /\ mutex' = [mutex EXCEPT ![Proc[t]] = TRUE]
  /\ Goto(t, "records")
  /\ UNCHANGED <<fileVars, lock, readers, procVars, callVars, readVars, log>>

\* The records are Records(mem[Proc[t]], ask[t]).
ReadRecords(t) ==
  /\ pc[t] = "records"
  /\ \E k \in 1 .. MaxQty + 1 : Seek(t, AtRecord(k))
  /\ ask' = [ask EXCEPT ![t] = NoRequest]
  /\ Goto(t, "rdUnlock")
  /\ UNCHANGED <<fileVars, mem, rec, lockVars, callVars, reads, log>>

RdUnlock(t) ==
  /\ pc[t] = "rdUnlock"
  /\ Release(Proc[t])
  /\ Goto(t, "idle")
  /\ UNCHANGED <<fileVars, mutex, procVars, callVars, readVars, log>>

ReadStep(t) ==
  RdLock(t) \/ RdSeek(t) \/ RdHead(t) \/ Ask(t) \/ TakeMutex(t) \/ ReadRecords(t) \/ RdUnlock(t)

-----------------------------------------------------------------------------
(* Death and restart of a process *)

Crash(p) ==
  /\ crashes < MaxCrashes
  /\ \E t \in Threads : Proc[t] = p /\ pc[t] # "down"
  /\ crashes' = crashes + 1
  /\ pc' = [t \in Threads |-> IF Proc[t] = p THEN "down" ELSE pc[t]]
  /\ Release(p)
  /\ UNCHANGED <<fileVars, mutex, procVars, op, id, adds, cleans, readVars, log>>

\* init_eventlogs reads the header of a file that has one.
Restart(p) ==
  /\ lock = Free /\ readers = {}
  /\ \E t \in Threads : Proc[t] = p /\ pc[t] = "down"
  /\ mem' = [mem EXCEPT ![p] = head]
  /\ offset' = [offset EXCEPT ![p] = AtRecord(1)]
  /\ rec' = [rec EXCEPT ![p] = 0]
  /\ mutex' = [mutex EXCEPT ![p] = FALSE]
  /\ pc' = [t \in Threads |-> IF Proc[t] = p THEN "idle" ELSE pc[t]]
  /\ UNCHANGED <<fileVars, lock, readers, callVars, readVars, log>>

Next ==
  \/ \E t \in Threads : AddLog(t) \/ CleanLogs(t) \/ Step(t) \/ GetLogs(t) \/ ReadStep(t)
  \/ \E p \in Procs : Crash(p) \/ Restart(p)

Spec == Init /\ [][Next]_vars

-----------------------------------------------------------------------------
TypeOK ==
  /\ head \in [sn : Nat, count : 0 .. MaxQty, cursor : 0 .. MaxQty]
  /\ ring \in [1 .. MaxQty -> 0 .. MaxAdds]
  /\ lock \in Procs \cup {Free} /\ readers \subseteq Procs /\ mutex \in [Procs -> BOOLEAN]
  /\ mem \in [Procs -> Header] /\ offset \in [Procs -> Nat] /\ rec \in [Procs -> 0 .. MaxAdds]
  /\ pc \in [Threads -> Pc] /\ op \in [Threads -> {"add", "clean"}]
  /\ ask \in [Threads -> Requests \cup {NoRequest}] /\ id \in [Threads -> 0 .. MaxAdds]
  /\ adds \in 0 .. MaxAdds /\ cleans \in 0 .. MaxCleans /\ reads \in 0 .. MaxReads
  /\ crashes \in 0 .. MaxCrashes
  /\ log \in Seq(1 .. MaxAdds)

Added == Len(log)

\* While nobody dies the header that a process finds is that of all the records
\* added, by whichever process, since the log was cleaned.
HeaderExact ==
  lock = Free /\ crashes = 0 =>
    /\ head.sn = Added
    /\ head.count = AtMost(Added, MaxQty)
    /\ head.cursor = IF Added = 0 THEN 0 ELSE 1 + ((Added - 1) % MaxQty)

\* Where the record is that was added k records before the last.
SlotBack(k) == 1 + ((head.cursor - 1 - k + MaxQty) % MaxQty)

\* A process that dies in add_log or clean_logs damages the oldest record at
\* most: backwards from the cursor the file holds the records in the order in
\* which they were added.
CrashKeepsLog ==
  lock = Free =>
    \A k \in 0 .. MaxQty - 1 :
      k < Added /\ k < MaxQty - AtMost(crashes, 1) => ring[SlotBack(k)] = log[Added - k]

\* The record of the log that a request starts with, and whether the log has all
\* the records it asks for.
Logs == [i \in 1 .. head.count |-> log[Added - head.count + i]]
First(r) ==
  CASE r.kind = "desc" -> head.count - r.first + 1
    [] r.kind = "sn" -> r.first - (head.sn - head.count)
    [] OTHER -> r.first
Had(r) == First(r) >= 1 /\ First(r) + r.count - 1 <= head.count

Answered(t) ==
  LET i == First(ask[t]) IN Records(mem[Proc[t]], ask[t]) = SubSeq(Logs, i, i + ask[t].count - 1)

\* While nobody dies a request for records the log has is answered with them in
\* the order they were added, by index, by distance from the end and by serial
\* number, whatever others do meanwhile, unless it starts at the last slot of
\* the ring, whose index the calls compute as 0.
ReadsRight ==
  \A t \in Threads :
    /\ pc[t] = "records" /\ crashes = 0
    /\ Had(ask[t]) /\ AscIndex(head, First(ask[t])) # 0
    => Answered(t)

\* What the comment of last_sn says: it is the serial number of the last record.
LastSnIsLast == (\A t \in Threads : pc[t] = "idle") => head.sn = Added
=============================================================================
