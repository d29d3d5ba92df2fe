------------------------- MODULE SpiTransfer_proofs -------------------------
(* Proofs about SpiTransfer for every number of callers, controllers and   *)
(* cells.                                                                  *)
EXTENDS SpiTransfer, SequenceTheorems, TLAPS

\* A caller holds a task from malloc to free.
Placed == \A c \in Callers : cell[c] = Null <=> pc[c] \in {"idle", "malloc"}

\* Only the worker takes tasks out of the queue.
Ready == wpc = "dequeue" => queue # <<>>

TypeInv == TypeOK /\ Placed /\ Ready

\* What a write to one field of a task does.
LEMMA TaskField ==
  ASSUME NEW t \in Task
  PROVE  /\ \A f \in {"wait", "busy", "end"} :
              /\ [t EXCEPT !.flag = f] \in Task /\ [t EXCEPT !.flag = f].flag = f
              /\ [t EXCEPT !.flag = f].status = t.status
              /\ [t EXCEPT !.flag = f].owner = t.owner
         /\ \A r \in Outcome :
              /\ [t EXCEPT !.status = r] \in Task /\ [t EXCEPT !.status = r].flag = t.flag
              /\ [t EXCEPT !.status = r].status = r
              /\ [t EXCEPT !.status = r].owner = t.owner
BY DEF Task

LEMMA TypeInvInit == Init => TypeInv
<1>1. [flag |-> "wait", status |-> "none", owner |-> Null] \in Task
  BY DEF Task, Outcome
<1>2. Init => task \in [Cells -> Task] /\ queue \in Seq(Cells)
  BY <1>1, EmptySeq DEF Init
<1>3. Init => Placed /\ Ready
  BY DEF Init, Placed, Ready
<1>4. Init => /\ pc \in [Callers -> CallerPc] /\ cell \in [Callers -> Cells \cup {Null}]
              /\ ret \in [Callers -> Outcome] /\ moved \in [Callers -> Outcome]
              /\ ctl \in [Controllers -> ControllerPc]
  BY DEF Init, Outcome, CallerPc, ControllerPc
<1>5. Init => /\ run \in {"stop", "running", "pause"} /\ mod \in BOOLEAN /\ heap \subseteq Cells
              /\ wpc \in WorkerPc /\ wcur \in Cells \cup {Null} /\ aborted \in BOOLEAN
  BY DEF Init, WorkerPc
<1> QED
  BY <1>2, <1>3, <1>4, <1>5 DEF TypeInv, TypeOK

LEMMA TypeInvCaller ==
  ASSUME TypeInv, NEW c \in Callers, CheckRunning(c) \/ InCall(c)
  PROVE  TypeInv'
<1> USE SpiAssumption DEF TypeInv, TypeOK, Placed, Ready, Task, Outcome, CallerPc,
          Goto, slotVars, memVars, Free
<1>1. CASE CheckRunning(c)
  BY <1>1 DEF CheckRunning
<1>2. CASE Malloc(c)
  BY <1>2 DEF Malloc
<1>3. CASE Enqueue(c)
  <2>1. cell[c] \in Cells
    BY <1>3 DEF Enqueue
  <2>2. queue' \in Seq(Cells) /\ queue' # <<>>
    <3>1. Append(queue, cell[c]) \in Seq(Cells) /\ Append(queue, cell[c]) # <<>>
      BY <2>1, AppendProperties
    <3>2. <<cell[c]>> \in Seq(Cells) /\ Len(<<cell[c]>>) = 1
      BY <2>1
    <3>3. <<cell[c]>> \o queue \in Seq(Cells) /\ Len(<<cell[c]>> \o queue) = 1 + Len(queue)
      BY <3>2, ConcatProperties
    <3>4. <<cell[c]>> \o queue # <<>>
      BY <3>3, LenProperties, EmptySeq
    <3> QED
      BY <1>3, <3>1, <3>3, <3>4 DEF Enqueue
  <2> QED
    BY <1>3, <2>1, <2>2 DEF Enqueue
<1>4. CASE TestFlag(c)
  BY <1>4 DEF TestFlag
<1>5. CASE TestRun(c)
  BY <1>5 DEF TestRun
<1>6. CASE TestStatus(c)
  BY <1>6 DEF TestStatus
<1>7. CASE FreeTask(c)
  BY <1>7 DEF FreeTask
<1> QED
  BY <1>1, <1>2, <1>3, <1>4, <1>5, <1>6, <1>7 DEF InCall

LEMMA TypeInvWorker ==
  ASSUME TypeInv, Worker
  PROVE  TypeInv'
<1> USE SpiAssumption DEF TypeInv, TypeOK, Placed, Ready, WorkerPc, WorkerGoto,
          slotVars, memVars, callVars, Free
<1>1. CASE WorkerInit \/ Loop \/ Look
  BY <1>1 DEF WorkerInit, Loop, Look
<1>2. CASE Dequeue
  <2>1. Head(queue) \in Cells /\ Tail(queue) \in Seq(Cells)
    BY <1>2, HeadTailProperties DEF Dequeue
  <2> QED
    BY <1>2, <2>1 DEF Dequeue
<1>3. CASE EmptyQueue
  BY <1>3, EmptySeq DEF EmptyQueue
<1>4. CASE Begin
  <2>1. \A x \in Cells : [task[x] EXCEPT !.flag = "busy"] \in Task
    BY TaskField
  <2>2. task' = [x \in Cells |-> IF x = wcur THEN [task[x] EXCEPT !.flag = "busy"] ELSE task[x]]
    BY <1>4 DEF Begin
  <2>3. task' \in [Cells -> Task]
    BY <2>1, <2>2
  <2> QED
    BY <1>4, <2>3 DEF Begin
<1>5. CASE Move
  <2>1. PICK r \in {"ok", "err"} : task' = [task EXCEPT ![wcur].status = r]
    BY <1>5 DEF Move
  <2>2. task' \in [Cells -> Task]
    BY <2>1, TaskField DEF Outcome
  <2>3. moved' \in [Callers -> Outcome]
    BY <1>5 DEF Move, Outcome
  <2> QED
    BY <1>5, <2>2, <2>3 DEF Move
<1>6. CASE EndTransfer
  <2>1. \A x \in Cells : [task[x] EXCEPT !.flag = "end"] \in Task
    BY TaskField
  <2>2. task' = [x \in Cells |-> IF x = wcur THEN [task[x] EXCEPT !.flag = "end"] ELSE task[x]]
    BY <1>6 DEF EndTransfer
  <2>3. task' \in [Cells -> Task]
    BY <2>1, <2>2
  <2> QED
    BY <1>6, <2>3 DEF EndTransfer
<1> QED
  BY <1>1, <1>2, <1>3, <1>4, <1>5, <1>6 DEF Worker

LEMMA TypeInvControl ==
  ASSUME TypeInv, NEW k \in Controllers, Control(k)
  PROVE  TypeInv'
BY DEF TypeInv, TypeOK, Placed, Ready, ControllerPc, Control, ControlGoto, Reconnect,
       SetRunning, Pause, EndRun, EndModule, memVars, callVars

LEMMA TypeInvNext == TypeInv /\ [Next]_vars => TypeInv'
<1>1. TypeInv /\ UNCHANGED vars => TypeInv'
  BY DEF TypeInv, TypeOK, Placed, Ready, vars
<1> QED
  BY <1>1, TypeInvCaller, TypeInvWorker, TypeInvControl DEF Next

\* Tasks, queue and program counters keep their types under every use of the
\* slot: pauses, ends, stale pointers and double frees included.
THEOREM TypeCorrect == Spec => []TypeOK
<1>1. TypeInv => TypeOK
  BY DEF TypeInv
<1> QED
  BY <1>1, TypeInvInit, TypeInvNext, PTL DEF Spec

-----------------------------------------------------------------------------
(* No task leaks *)

LEMMA NoTaskLeaksNext ==
  ASSUME TypeInv, NoTaskLeaks, [Next]_vars
  PROVE  NoTaskLeaks'
<1> USE DEF TypeInv, TypeOK, NoTaskLeaks
<1>1. ASSUME heap' \subseteq heap, UNCHANGED cell PROVE NoTaskLeaks'
  BY <1>1
<1>2. CASE UNCHANGED vars
  BY <1>1, <1>2 DEF vars
<1>3. ASSUME NEW c \in Callers, CheckRunning(c) \/ InCall(c) PROVE NoTaskLeaks'
  <2>1. CASE Malloc(c)
    <3>1. PICK x \in Cells \ heap : heap' = heap \cup {x} /\ cell' = [cell EXCEPT ![c] = x]
      BY <2>1 DEF Malloc
    <3>2. cell[c] = Null /\ Null \notin heap
      BY <2>1, SpiAssumption DEF Malloc, Placed
    <3> QED
      BY <3>1, <3>2
  <2>2. CASE FreeTask(c)
    BY <2>2 DEF FreeTask, Free
  <2>3. CASE CheckRunning(c) \/ Enqueue(c) \/ TestFlag(c) \/ TestRun(c) \/ TestStatus(c)
    BY <1>1, <2>3 DEF CheckRunning, Enqueue, TestFlag, TestRun, TestStatus, memVars
  <2> QED
    BY <1>3, <2>1, <2>2, <2>3 DEF InCall
<1>4. CASE Worker
  BY <1>1, <1>4 DEF Worker, WorkerInit, Loop, Look, Dequeue, EmptyQueue, Begin, Move,
                    EndTransfer, memVars, callVars, Free
<1>5. ASSUME NEW k \in Controllers, Control(k) PROVE NoTaskLeaks'
  BY <1>1, <1>5 DEF Control, Reconnect, SetRunning, Pause, EndRun, EndModule, memVars, callVars
<1> QED
  BY <1>2, <1>3, <1>4, <1>5 DEF Next

\* Whatever is paused, resumed or ended, in whatever order, an allocated task
\* has a caller that holds it and will free it.
THEOREM NoTaskIsLeaked == Spec => []NoTaskLeaks
<1>1. Init => TypeInv /\ NoTaskLeaks
  BY TypeInvInit DEF Init, NoTaskLeaks
<1> QED
  BY <1>1, TypeInvNext, NoTaskLeaksNext, PTL DEF Spec

-----------------------------------------------------------------------------
(* While the board stays in its slot: nobody pauses or ends the slot *)

\* Nothing empties the queue, and a call that was let in finds the slot running.
Unbroken ==
  /\ run # "pause" /\ ~aborted
  /\ wpc \notin {"empty", "last", "exited"} /\ (wpc # "init" => mod)
  /\ \A k \in Controllers : ctl[k] \notin {"resume", "end"}
  /\ \A c \in Callers : pc[c] # "idle" => run = "running"

\* A task on its way to the worker, or with it, is not marked as ended.
NotEnded ==
  /\ \A x \in Queued \cup Served : task[x].flag # "end"
  /\ \A c \in Callers : pc[c] = "enqueue" => task[cell[c]].flag # "end"

Settled(c, r) == r = moved[c] /\ r \in {"ok", "err"}

\* From the end of the transfer to the end of the call the outcome is at hand.
Known ==
  /\ wpc = "end" => Settled(task[wcur].owner, task[wcur].status)
  /\ \A c \in Callers :
       /\ Waiting(c) /\ task[cell[c]].flag = "end" => Settled(c, task[cell[c]].status)
       /\ pc[c] = "status" => Settled(c, task[cell[c]].status)
       /\ pc[c] = "free" => ret[c] = moved[c]

SteadyInv == TypeInv /\ Unbroken /\ TaskOwned /\ NotEnded /\ Known

LEMMA SteadyInit == Init => SteadyInv
<1>1. Init => Queued = {} /\ Served = {} /\ Len(queue) = 0
  BY EmptySeq DEF Init, Queued, Served
<1> QED
  BY <1>1, TypeInvInit DEF Init, SteadyInv, Unbroken, TaskOwned, NotEnded, Known, Waiting

LEMMA UnbrokenNext ==
  ASSUME Commands = {}, SteadyInv, [Next]_vars
  PROVE  Unbroken'
<1> USE DEF SteadyInv, Unbroken
<1>1. CASE UNCHANGED vars
  BY <1>1 DEF vars
<1>2. CASE Worker
  <2>1. CASE EmptyQueue
    BY <2>1 DEF EmptyQueue
  <2> QED
    BY <1>2, <2>1 DEF Worker, WorkerInit, Loop, Look, Dequeue, Begin, Move, EndTransfer,
                      WorkerGoto, slotVars, callVars, memVars
<1>3. ASSUME NEW c \in Callers, CheckRunning(c) \/ InCall(c) PROVE Unbroken'
  <2>1. ASSUME NEW l, Goto(c, l), pc[c] # "idle" \/ run = "running",
               UNCHANGED <<run, mod, ctl, wpc>>, ~aborted'
        PROVE  Unbroken'
    BY <2>1 DEF Goto, TypeInv, TypeOK
  <2>2. CASE FreeTask(c)
    <3>1. {cell[c]} \subseteq heap
      BY <2>2 DEF FreeTask, TaskOwned, Placed, TypeInv
    <3>2. aborted' \in {FALSE}
      BY <2>2, <3>1 DEF FreeTask, Free
    <3> QED
      BY <2>1, <2>2, <3>2 DEF FreeTask, slotVars
  <2> QED
    BY <1>3, <2>1, <2>2 DEF InCall, CheckRunning, Malloc, Enqueue, TestFlag, TestRun,
                            TestStatus, slotVars, memVars
<1>4. ASSUME NEW k \in Controllers, Control(k) PROVE Unbroken'
  BY <1>4 DEF Control, Reconnect, SetRunning, Pause, EndRun, EndModule, ControlGoto,
              memVars, callVars, TypeInv, TypeOK
<1> QED
  BY <1>1, <1>2, <1>3, <1>4 DEF Next

\* A live task has one holder, its owner, and it waits.
LEMMA Holders ==
  ASSUME SteadyInv
  PROVE  /\ \A x \in Queued \cup Served : x \in heap /\ x \in Cells /\ x # Null
         /\ \A x \in Queued \cup Served, c \in Callers :
              cell[c] = x => Waiting(c) /\ task[x].owner = c
         /\ \A c, d \in Callers : cell[c] = cell[d] /\ cell[c] # Null => c = d
BY SpiAssumption DEF SteadyInv, TypeInv, TypeOK, TaskOwned

Safe == TaskOwned /\ NotEnded /\ Known

\* Steps of a caller that leave tasks and queue alone.
LEMMA SafePolling ==
  ASSUME SteadyInv, NEW c \in Callers,
         CheckRunning(c) \/ TestFlag(c) \/ TestRun(c) \/ TestStatus(c)
  PROVE  Safe'
<1>1. /\ UNCHANGED <<queue, heap, task, wpc, wcur, cell, moved>>
      /\ pc \in [Callers -> CallerPc] /\ ret \in [Callers -> Outcome]
  BY DEF CheckRunning, TestFlag, TestRun, TestStatus, memVars, SteadyInv, TypeInv, TypeOK
<1>2. Queued' = Queued /\ Served' = Served
  BY <1>1 DEF Queued, Served
<1>3. \A d \in Callers \ {c} : pc'[d] = pc[d] /\ ret'[d] = ret[d]
  BY <1>1 DEF CheckRunning, TestFlag, TestRun, TestStatus, Goto
<1>4. Waiting(c) => Waiting(c)' \/ cell[c] \notin Queued \cup Served
  <2>1. CASE TestFlag(c)
    BY <1>1, <2>1 DEF TestFlag, Goto, Waiting, SteadyInv, NotEnded
  <2>2. CASE TestRun(c)
    BY <1>1, <2>2 DEF TestRun, Goto, Waiting, SteadyInv, Unbroken
  <2>3. CASE CheckRunning(c) \/ TestStatus(c)
    BY <2>3 DEF CheckRunning, TestStatus, Waiting
  <2> QED
    BY <2>1, <2>2, <2>3
<1>5. TaskOwned'
  <2>1. \A x \in Queued \cup Served :
          \E d \in Callers : task[x].owner = d /\ cell[d] = x /\ Waiting(d)'
    BY <1>3, <1>4, Holders DEF SteadyInv, TaskOwned, Waiting
  <2> QED
    BY <1>1, <1>2, <2>1 DEF SteadyInv, TaskOwned
<1>6. NotEnded'
  BY <1>1, <1>2 DEF CheckRunning, TestFlag, TestRun, TestStatus, Goto, SteadyInv, NotEnded
<1>7. Known'
  <2> USE <1>1 DEF SteadyInv, Known, Settled, Waiting, Goto
  <2>1. CASE CheckRunning(c)
    BY <2>1 DEF CheckRunning
  <2>2. CASE TestFlag(c)
    BY <2>2 DEF TestFlag
  <2>3. CASE TestRun(c)
    BY <2>3 DEF TestRun, Unbroken
  <2>4. CASE TestStatus(c)
    BY <2>4 DEF TestStatus
  <2> QED
    BY <2>1, <2>2, <2>3, <2>4
<1> QED
  BY <1>5, <1>6, <1>7 DEF Safe

LEMMA SafeMalloc ==
  ASSUME SteadyInv, NEW c \in Callers, Malloc(c)
  PROVE  Safe'
<1> DEFINE new == [flag |-> "wait", status |-> "none", owner |-> c]
<1>1. PICK x \in Cells \ heap :
        /\ heap' = heap \cup {x}
        /\ task' = [task EXCEPT ![x] = new]
        /\ cell' = [cell EXCEPT ![c] = x]
  BY DEF Malloc
<1>2. /\ UNCHANGED <<queue, wpc, wcur, moved, ret>> /\ pc[c] = "malloc" /\ cell[c] = Null
      /\ pc' = [pc EXCEPT ![c] = "enqueue"]
      /\ pc \in [Callers -> CallerPc] /\ cell \in [Callers -> Cells \cup {Null}]
      /\ task \in [Cells -> Task]
  BY DEF Malloc, Goto, SteadyInv, TypeInv, TypeOK, Placed
<1>3. Queued' = Queued /\ Served' = Served /\ x \notin Queued \cup Served
  BY <1>1, <1>2, Holders DEF Queued, Served
<1>4. \A d \in Callers \ {c} : cell[d] # x /\ cell'[d] = cell[d] /\ pc'[d] = pc[d]
  BY <1>1, <1>2, SpiAssumption DEF SteadyInv, TaskOwned
<1>5. \A y \in Cells \ {x} : task'[y] = task[y]
  BY <1>1, <1>2
<1>6. task'[x] = new /\ new.flag = "wait" /\ new.owner = c /\ cell'[c] = x /\ pc'[c] = "enqueue"
  BY <1>1, <1>2
<1> HIDE DEF new
<1>7. TaskOwned'
  <2>1. ASSUME NEW y \in Queued \cup Served
        PROVE  y \in heap' /\ \E d \in Callers : task'[y].owner = d /\ cell'[d] = y /\ Waiting(d)'
    <3>1. PICK d \in Callers : task[y].owner = d /\ cell[d] = y /\ Waiting(d)
      BY DEF SteadyInv, TaskOwned
    <3>2. d # c
      BY <1>2, <3>1 DEF Waiting
    <3>3. y \in Cells \ {x} /\ y \in heap
      BY <1>3, Holders
    <3> QED
      BY <1>1, <1>4, <1>5, <3>1, <3>2, <3>3 DEF Waiting
  <2>2. \A d \in Callers : cell'[d] # Null => cell'[d] \in heap' /\ task'[cell'[d]].owner = d
    <3>1. ASSUME NEW d \in Callers \ {c}, cell[d] # Null
          PROVE  cell[d] \in Cells \ {x} /\ cell[d] \in heap /\ task[cell[d]].owner = d
      BY <1>2, <1>4, <3>1 DEF SteadyInv, TaskOwned
    <3> QED
      BY <1>1, <1>4, <1>5, <1>6, <3>1
  <2> QED
    BY <1>2, <1>3, <2>1, <2>2 DEF SteadyInv, TaskOwned
<1>8. NotEnded'
  <2>1. \A y \in Queued \cup Served : y \in Cells \ {x}
    BY <1>3, Holders
  <2>2. \A d \in Callers \ {c} : pc[d] = "enqueue" => cell[d] \in Cells \ {x}
    BY <1>2, <1>4 DEF SteadyInv, TypeInv, Placed
  <2> QED
    BY <1>3, <1>4, <1>5, <1>6, <2>1, <2>2 DEF SteadyInv, NotEnded
<1>9. Known'
  <2>1. wpc = "end" => wcur \in Cells \ {x} /\ wcur \in Served
    BY <1>3, Holders DEF Served
  <2>2. \A d \in Callers \ {c} : pc[d] \notin {"idle", "malloc"} => cell[d] \in Cells \ {x}
    BY <1>2, <1>4 DEF SteadyInv, TypeInv, Placed
  <2> QED
    BY <1>2, <1>4, <1>5, <1>6, <2>1, <2>2 DEF SteadyInv, Known, Settled, Waiting
<1> QED
  BY <1>7, <1>8, <1>9 DEF Safe

\* Linking a task at either end of the queue.
Linked(q, x, r) ==
  /\ \A i \in 1 .. Len(r) : r[i] = x \/ \E j \in 1 .. Len(q) : r[i] = q[j]
  /\ \E i \in 1 .. Len(r) : r[i] = x
  /\ \A j \in 1 .. Len(q) : \E i \in 1 .. Len(r) : r[i] = q[j]
  /\ (/\ \A i \in 1 .. Len(q) : q[i] # x
      /\ \A i, j \in 1 .. Len(q) : q[i] = q[j] => i = j)
     => \A i, j \in 1 .. Len(r) : r[i] = r[j] => i = j

LEMMA LinkedLast ==
  ASSUME NEW q \in Seq(Cells), NEW x \in Cells
  PROVE  Linked(q, x, Append(q, x))
<1> DEFINE r == Append(q, x)
<1>1. Len(q) \in Nat
  BY LenProperties
<1>2. Len(r) = Len(q) + 1 /\ r[Len(q) + 1] = x /\ \A i \in 1 .. Len(q) : r[i] = q[i]
  BY AppendProperties
<1> HIDE DEF r
<1>3. \A i \in 1 .. Len(r) : i = Len(q) + 1 \/ i \in 1 .. Len(q)
  BY <1>1, <1>2
<1>4. Len(q) + 1 \in 1 .. Len(r) /\ \A j \in 1 .. Len(q) : j \in 1 .. Len(r)
  BY <1>1, <1>2
<1>5. Linked(q, x, r)
  BY <1>2, <1>3, <1>4 DEF Linked
<1> QED
  BY <1>5 DEF r

LEMMA LinkedFirst ==
  ASSUME NEW q \in Seq(Cells), NEW x \in Cells
  PROVE  Linked(q, x, <<x>> \o q)
<1> DEFINE r == <<x>> \o q
<1>1. Len(q) \in Nat
  BY LenProperties
<1>2. <<x>> \in Seq(Cells) /\ Len(<<x>>) = 1 /\ <<x>>[1] = x
  OBVIOUS
<1>3. /\ Len(r) = 1 + Len(q)
      /\ \A i \in 1 .. 1 + Len(q) : r[i] = IF i <= 1 THEN <<x>>[i] ELSE q[i - 1]
  BY <1>2, ConcatProperties
<1> HIDE DEF r
<1>4. r[1] = x /\ 1 \in 1 .. Len(r)
  BY <1>1, <1>2, <1>3
<1>5. \A i \in 1 .. Len(r) : i = 1 \/ (i - 1 \in 1 .. Len(q) /\ r[i] = q[i - 1])
  BY <1>1, <1>3
<1>6. \A j \in 1 .. Len(q) : j + 1 \in 1 .. Len(r) /\ r[j + 1] = q[j]
  BY <1>1, <1>3
<1>7. ASSUME \A i \in 1 .. Len(q) : q[i] # x,
             \A i, j \in 1 .. Len(q) : q[i] = q[j] => i = j,
             NEW i \in 1 .. Len(r), NEW j \in 1 .. Len(r), r[i] = r[j]
      PROVE  i = j
  <2>1. CASE i = 1 \/ j = 1
    BY <1>4, <1>5, <1>7, <2>1
  <2>2. CASE i # 1 /\ j # 1
    <3>1. i - 1 \in 1 .. Len(q) /\ j - 1 \in 1 .. Len(q) /\ q[i - 1] = q[j - 1]
      BY <1>5, <1>7, <2>2
    <3>2. i - 1 = j - 1
      BY <1>7, <3>1
    <3> QED
      BY <1>1, <1>3, <3>2
  <2> QED
    BY <2>1, <2>2
<1>8. Linked(q, x, r)
  BY <1>4, <1>5, <1>6, <1>7 DEF Linked
<1> QED
  BY <1>8 DEF r

LEMMA SafeEnqueue ==
  ASSUME SteadyInv, NEW c \in Callers, Enqueue(c)
  PROVE  Safe'
<1>1. /\ UNCHANGED <<heap, task, wpc, wcur, cell, moved, ret>> /\ pc[c] = "enqueue"
      /\ pc' = [pc EXCEPT ![c] = "flag"] /\ pc \in [Callers -> CallerPc]
      /\ queue \in Seq(Cells)
      /\ queue' = <<cell[c]>> \o queue \/ queue' = Append(queue, cell[c])
  BY DEF Enqueue, Goto, memVars, SteadyInv, TypeInv, TypeOK
<1>2. cell[c] \in Cells /\ cell[c] \in heap /\ task[cell[c]].owner = c /\ cell[c] # Null
  BY <1>1, SpiAssumption DEF SteadyInv, TypeInv, TypeOK, Placed, TaskOwned
<1>3. cell[c] \notin Queued \cup Served
  BY <1>1, Holders DEF Waiting
<1>4. Linked(queue, cell[c], queue')
  BY <1>1, <1>2, LinkedFirst, LinkedLast
<1>5. /\ Queued' = Queued \cup {cell[c]} /\ Served' = Served
      /\ \A i, j \in 1 .. Len(queue') : queue'[i] = queue'[j] => i = j
  <2>1. Queued' = Queued \cup {cell[c]}
    <3>1. Queued' \subseteq Queued \cup {cell[c]}
      BY <1>4 DEF Linked, Queued
    <3>2. cell[c] \in Queued'
      BY <1>4 DEF Linked, Queued
    <3>3. ASSUME NEW j \in 1 .. Len(queue) PROVE queue[j] \in Queued'
      <4>1. PICK i \in 1 .. Len(queue') : queue'[i] = queue[j]
        BY <1>4 DEF Linked
      <4> QED
        BY <4>1 DEF Queued
    <3>4. Queued \subseteq Queued'
      BY ONLY <3>3 DEF Queued
    <3> QED
      BY <3>1, <3>2, <3>4
  <2>2. \A i \in 1 .. Len(queue) : queue[i] # cell[c]
    BY <1>3 DEF Queued
  <2>3. \A i, j \in 1 .. Len(queue') : queue'[i] = queue'[j] => i = j
    BY <1>4, <2>2 DEF Linked, SteadyInv, TaskOwned
  <2> QED
    BY <1>1, <2>1, <2>3 DEF Served
<1>6. \A d \in Callers : Waiting(d)' <=> Waiting(d) \/ d = c
  BY <1>1 DEF Waiting
<1>7. TaskOwned'
  BY <1>1, <1>2, <1>3, <1>5, <1>6 DEF SteadyInv, TaskOwned
<1>8. NotEnded'
  BY <1>1, <1>5 DEF SteadyInv, NotEnded
<1>9. Known'
  <2>1. task[cell[c]].flag # "end"
    BY <1>1 DEF SteadyInv, NotEnded
  <2> QED
    BY <1>1, <1>6, <2>1 DEF SteadyInv, Known, Settled
<1> QED
  BY <1>7, <1>8, <1>9 DEF Safe

LEMMA SafeFree ==
  ASSUME SteadyInv, NEW c \in Callers, FreeTask(c)
  PROVE  Safe'
<1>1. /\ UNCHANGED <<queue, task, wpc, wcur>> /\ pc[c] = "free"
      /\ heap' = heap \ {cell[c]}
      /\ pc' = [pc EXCEPT ![c] = "idle"] /\ cell' = [cell EXCEPT ![c] = Null]
      /\ ret' = [ret EXCEPT ![c] = "none"] /\ moved' = [moved EXCEPT ![c] = "none"]
      /\ pc \in [Callers -> CallerPc] /\ cell \in [Callers -> Cells \cup {Null}]
      /\ ret \in [Callers -> Outcome] /\ moved \in [Callers -> Outcome]
  BY DEF FreeTask, Free, Goto, SteadyInv, TypeInv, TypeOK
<1>2. Queued' = Queued /\ Served' = Served
  BY <1>1 DEF Queued, Served
<1>3. cell[c] \notin Queued \cup Served /\ cell[c] # Null
  BY <1>1, Holders DEF Waiting, SteadyInv, TypeInv, Placed
<1>4. \A d \in Callers \ {c} :
        /\ cell'[d] = cell[d] /\ cell[d] # cell[c]
        /\ pc'[d] = pc[d] /\ ret'[d] = ret[d] /\ moved'[d] = moved[d]
  BY <1>1, <1>3, Holders
<1>5. cell'[c] = Null /\ pc'[c] = "idle" /\ ret'[c] = "none" /\ moved'[c] = "none"
  BY <1>1
<1>6. TaskOwned'
  <2>1. ASSUME NEW y \in Queued \cup Served
        PROVE  y \in heap' /\ \E d \in Callers : task'[y].owner = d /\ cell'[d] = y /\ Waiting(d)'
    <3>1. PICK d \in Callers : task[y].owner = d /\ cell[d] = y /\ Waiting(d)
      BY DEF SteadyInv, TaskOwned
    <3>2. d # c /\ y \in heap /\ y # cell[c]
      BY <1>1, <1>3, <3>1, Holders DEF Waiting
    <3> QED
      BY <1>1, <1>4, <3>1, <3>2 DEF Waiting
  <2> QED
    BY <1>1, <1>2, <1>4, <1>5, <2>1 DEF SteadyInv, TaskOwned
<1>7. NotEnded'
  BY <1>1, <1>2, <1>4, <1>5 DEF SteadyInv, NotEnded
<1>8. Known'
  <2>1. wpc = "end" => task[wcur].owner \in Callers \ {c}
    <3>1. wpc = "end" => wcur \in Served
      BY DEF Served
    <3> QED
      BY <1>1, <3>1, Holders DEF SteadyInv, TaskOwned, Waiting
  <2> QED
    BY <1>1, <1>4, <1>5, <2>1 DEF SteadyInv, Known, Settled, Waiting
<1> QED
  BY <1>6, <1>7, <1>8 DEF Safe

\* Taking the first task off a queue without repetitions.
LEMMA UnlinkedFirst ==
  ASSUME NEW q \in Seq(Cells), q # <<>>,
         \A i, j \in 1 .. Len(q) : q[i] = q[j] => i = j
  PROVE  LET r == Tail(q) IN
         /\ \A i \in 1 .. Len(r) : r[i] # Head(q) /\ \E j \in 1 .. Len(q) : r[i] = q[j]
         /\ \A i, j \in 1 .. Len(r) : r[i] = r[j] => i = j
         /\ Head(q) \in {q[i] : i \in 1 .. Len(q)}
<1> DEFINE r == Tail(q)
<1>1. Len(q) \in Nat \ {0}
  BY LenProperties, EmptySeq
<1>2. Len(r) = Len(q) - 1 /\ \A i \in 1 .. Len(r) : r[i] = q[i + 1]
  BY HeadTailProperties
<1> HIDE DEF r
<1>3. Head(q) = q[1] /\ 1 \in 1 .. Len(q)
  BY <1>1, HeadTailProperties
<1>4. \A i \in 1 .. Len(r) : i + 1 \in 1 .. Len(q) /\ i + 1 # 1
  BY <1>1, <1>2
<1>5. ASSUME NEW i \in 1 .. Len(r), NEW j \in 1 .. Len(r), r[i] = r[j]
      PROVE  i = j
  <2>1. i + 1 = j + 1
    BY <1>2, <1>4, <1>5
  <2> QED
    BY <1>1, <1>2, <2>1
<1>6. \A i \in 1 .. Len(r) : r[i] # Head(q) /\ \E j \in 1 .. Len(q) : r[i] = q[j]
  BY <1>2, <1>3, <1>4
<1> QED
  BY <1>3, <1>5, <1>6 DEF r

LEMMA SafeDequeue ==
  ASSUME SteadyInv, Dequeue
  PROVE  Safe'
<1>1. /\ UNCHANGED <<heap, task, cell, pc, moved, ret>>
      /\ wpc = "dequeue" /\ wpc' = "begin" /\ wcur' = Head(queue)
      /\ queue' = Tail(queue) /\ queue \in Seq(Cells) /\ queue # <<>>
  BY DEF Dequeue, WorkerGoto, memVars, callVars, SteadyInv, TypeInv, TypeOK, Ready
<1>2. /\ \A i \in 1 .. Len(queue') : queue'[i] # Head(queue)
                                     /\ \E j \in 1 .. Len(queue) : queue'[i] = queue[j]
      /\ \A i, j \in 1 .. Len(queue') : queue'[i] = queue'[j] => i = j
      /\ Head(queue) \in Queued
  BY <1>1, UnlinkedFirst DEF SteadyInv, TaskOwned, Queued
<1>3. Queued' \subseteq Queued /\ Head(queue) \notin Queued'
  BY <1>2 DEF Queued
<1>4. Served' = {Head(queue)} /\ \A c \in Callers : Waiting(c)' <=> Waiting(c)
  BY <1>1 DEF Served, Waiting
<1>5. TaskOwned'
  BY <1>1, <1>2, <1>3, <1>4 DEF SteadyInv, TaskOwned, Waiting
<1>6. NotEnded'
  BY <1>1, <1>2, <1>3, <1>4 DEF SteadyInv, NotEnded
<1>7. Known'
  BY <1>1 DEF SteadyInv, Known, Settled, Waiting
<1> QED
  BY <1>5, <1>6, <1>7 DEF Safe

\* A step of the worker writes the task it serves, which stays where it is.
LEMMA SafeServing ==
  ASSUME SteadyInv, Begin \/ Move \/ EndTransfer
  PROVE  Safe'
<1>1. /\ UNCHANGED <<queue, heap, cell, pc, ret>>
      /\ wpc \in {"begin", "move", "end"}
      /\ task \in [Cells -> Task] /\ moved \in [Callers -> Outcome]
  BY DEF Begin, Move, EndTransfer, callVars, SteadyInv, TypeInv, TypeOK
<1>2. Served = {wcur} /\ wcur \in heap /\ wcur \in Cells /\ task[wcur] \in Task
  BY <1>1, Holders DEF Served
<1>3. PICK o \in Callers : task[wcur].owner = o /\ cell[o] = wcur /\ Waiting(o)
  BY <1>2 DEF SteadyInv, TaskOwned
<1>4. wcur \notin Queued /\ Queued' = Queued /\ Served' \subseteq Served
  BY <1>1, <1>2 DEF Begin, Move, EndTransfer, WorkerGoto, Served, Queued, SteadyInv, TaskOwned
<1>5. \A d \in Callers \ {o} : cell[d] # wcur
  BY <1>2, <1>3, Holders
<1>6. /\ \A y \in Cells \ {wcur} : task'[y] = task[y]
      /\ task'[wcur].owner = task[wcur].owner
  <2>1. CASE Begin
    BY <1>2, <2>1, TaskField DEF Begin
  <2>2. CASE EndTransfer
    BY <1>1, <1>2, <2>2, TaskField DEF EndTransfer
  <2>3. CASE Move
    <3>1. PICK r \in {"ok", "err"} : task' = [task EXCEPT ![wcur].status = r]
      BY <2>3 DEF Move
    <3> QED
      BY <1>1, <1>2, <3>1, TaskField DEF Outcome
  <2> QED
    BY <2>1, <2>2, <2>3
<1>7. \A c \in Callers : cell[c] # Null => cell[c] \in Cells
  BY SpiAssumption DEF SteadyInv, TypeInv, TypeOK
<1>8. \A c \in Callers : task'[cell[c]].owner = task[cell[c]].owner \/ cell[c] = Null
  BY <1>6, <1>7
<1>9. TaskOwned'
  <2>1. \A x \in Queued \cup Served : task'[x].owner = task[x].owner
    BY <1>6, Holders
  <2> QED
    BY <1>1, <1>4, <1>8, <2>1 DEF SteadyInv, TaskOwned, Waiting
<1>10. NotEnded'
  <2>1. \A x \in Queued : x \in Cells \ {wcur}
    BY <1>4, Holders
  <2>2. Served' # {} => task'[wcur].flag # "end"
    <3>1. CASE Begin
      BY <1>1, <1>2, <3>1, TaskField DEF Begin
    <3>2. CASE Move
      <4>1. PICK r \in {"ok", "err"} : task' = [task EXCEPT ![wcur].status = r]
        BY <3>2 DEF Move
      <4>2. task'[wcur].flag = task[wcur].flag
        BY <1>1, <1>2, <4>1, TaskField DEF Outcome
      <4> QED
        BY <1>2, <4>2 DEF SteadyInv, NotEnded
    <3>3. CASE EndTransfer
      BY <3>3 DEF EndTransfer, WorkerGoto, Served
    <3> QED
      BY <3>1, <3>2, <3>3
  <2>3. \A x \in Queued' \cup Served' : task'[x].flag # "end"
    BY <1>2, <1>4, <1>6, <2>1, <2>2 DEF SteadyInv, NotEnded
  <2>4. \A c \in Callers : pc[c] = "enqueue" => cell[c] \in Cells \ {wcur}
    BY <1>2, <1>3, <1>5, <1>7 DEF Waiting, SteadyInv, TypeInv, Placed
  <2> QED
    BY <1>1, <1>6, <2>3, <2>4 DEF SteadyInv, NotEnded
<1>11. Known'
  <2>1. ASSUME NEW c \in Callers \ {o}, pc[c] \notin {"idle", "malloc"}
        PROVE  cell[c] \in Cells \ {wcur}
    BY <1>5, <1>7, <2>1 DEF SteadyInv, TypeInv, Placed
  <2>2. \A c \in Callers \ {o} : moved'[c] = moved[c]
    BY <1>1, <1>3 DEF Begin, Move, EndTransfer
  <2>3. ASSUME NEW c \in Callers \ {o}
        PROVE  /\ Waiting(c) /\ task'[cell[c]].flag = "end" => Settled(c, task[cell[c]].status)'
               /\ pc[c] = "status" => Settled(c, task[cell[c]].status)'
               /\ pc[c] = "free" => ret[c] = moved'[c]
    BY <1>1, <1>6, <2>1, <2>2 DEF SteadyInv, Known, Settled, Waiting
  <2>4. CASE Begin
    <3>1. task'[wcur].flag # "end" /\ wpc' # "end" /\ moved' = moved
      BY <1>1, <1>2, <2>4, TaskField DEF Begin, WorkerGoto
    <3> QED
      BY <1>1, <1>3, <2>3, <3>1 DEF Known, Waiting
  <2>5. CASE Move
    <3>1. PICK r \in {"ok", "err"} :
            /\ task' = [task EXCEPT ![wcur].status = r]
            /\ moved' = [moved EXCEPT ![o] = r] /\ wcur' = wcur
      BY <1>3, <2>5 DEF Move
    <3>2. task'[wcur].status = r /\ moved'[o] = r /\ task'[wcur].owner = o
      BY <1>1, <1>2, <1>3, <3>1, TaskField DEF Outcome
    <3> QED
      BY <1>1, <1>3, <2>3, <3>1, <3>2 DEF Known, Settled, Waiting
  <2>6. CASE EndTransfer
    <3>1. /\ wpc = "end" /\ wpc' = "loop" /\ moved' = moved
          /\ task'[wcur].status = task[wcur].status
      BY <1>1, <1>2, <2>6, TaskField DEF EndTransfer, WorkerGoto
    <3>2. Settled(o, task[wcur].status)
      BY <1>3, <3>1 DEF SteadyInv, Known
    <3> QED
      BY <1>1, <1>3, <2>3, <3>1, <3>2 DEF Known, Settled, Waiting
  <2> QED
    BY <2>4, <2>5, <2>6
<1> QED
  BY <1>9, <1>10, <1>11 DEF Safe

LEMMA SafeNext ==
  ASSUME Commands = {}, SteadyInv, [Next]_vars
  PROVE  Safe'
<1>1. ASSUME UNCHANGED <<queue, heap, task, wcur, cell, pc, moved, ret>>, Served' = Served,
             wpc' = "end" => wpc = "end"
      PROVE  Safe'
  <2>1. Queued' = Queued
    BY <1>1 DEF Queued
  <2> QED
    BY <1>1, <2>1 DEF Safe, SteadyInv, TaskOwned, NotEnded, Known, Settled, Waiting
<1>2. CASE UNCHANGED vars
  BY <1>1, <1>2 DEF vars, Served
<1>3. CASE Worker
  <2>1. CASE WorkerInit \/ Loop \/ Look
    BY <1>1, <2>1 DEF WorkerInit, Loop, Look, WorkerGoto, memVars, callVars, Served
  <2>2. ~EmptyQueue
    BY DEF EmptyQueue, SteadyInv, Unbroken
  <2> QED
    BY <1>3, <2>1, <2>2, SafeDequeue, SafeServing DEF Worker
<1>4. ASSUME NEW c \in Callers, CheckRunning(c) \/ InCall(c) PROVE Safe'
  BY <1>4, SafePolling, SafeMalloc, SafeEnqueue, SafeFree DEF InCall
<1>5. ASSUME NEW k \in Controllers, Control(k) PROVE Safe'
  BY <1>1, <1>5 DEF Control, Reconnect, SetRunning, Pause, EndRun, EndModule,
                    memVars, callVars, Served
<1> QED
  BY <1>2, <1>3, <1>4, <1>5 DEF Next

LEMMA SteadyNext ==
  ASSUME Commands = {}, SteadyInv, [Next]_vars
  PROVE  SteadyInv'
BY TypeInvNext, UnbrokenNext, SafeNext DEF SteadyInv, Safe

\* While nobody pauses or ends the slot no thread touches a task that was
\* freed, and none is freed twice, for every number of callers, inserters
\* and cells.
THEOREM TasksAreOwned ==
  ASSUME Commands = {}
  PROVE  Spec => []TaskOwned
<1>1. SteadyInv /\ [Next]_vars => SteadyInv'
  BY SteadyNext
<1>2. SteadyInv => TaskOwned
  BY DEF SteadyInv
<1> QED
  BY <1>1, <1>2, SteadyInit, PTL DEF Spec

\* While nobody pauses or ends the slot a call returns the outcome of its own
\* transfer.
THEOREM OwnOutcomeIsReturned ==
  ASSUME Commands = {}
  PROVE  Spec => []ReturnsOwnOutcome
<1>1. SteadyInv /\ [Next]_vars => SteadyInv'
  BY SteadyNext
<1>2. SteadyInv => ReturnsOwnOutcome
  BY DEF SteadyInv, Known, ReturnsOwnOutcome
<1> QED
  BY <1>1, <1>2, SteadyInit, PTL DEF Spec

-----------------------------------------------------------------------------
(* Each call is served once: the steps of the slot are those of SlotCalls *)

\* Tasks whose transfer is still to come.
Due == Queued \cup (IF wpc \in {"begin", "move"} THEN {wcur} ELSE {})

\* A call with an outcome is past its transfer, and its task is not due again.
Fresh ==
  \A c \in Callers : moved[c] # "none" =>
    pc[c] \notin {"idle", "malloc", "enqueue"} /\ cell[c] \notin Due

\* What a call returns is an outcome.
Answered == \A c \in Callers : pc[c] = "free" => ret[c] \in {"ok", "err"}

CallsInv == SteadyInv /\ Fresh /\ Answered

LEMMA CallsInvInit == Init => CallsInv
BY SteadyInit DEF Init, CallsInv, Fresh, Answered

LEMMA AnsweredNext ==
  ASSUME CallsInv, [Next]_vars
  PROVE  Answered'
<1> USE DEF CallsInv, SteadyInv, TypeInv, TypeOK, Answered
<1>1. ASSUME UNCHANGED <<pc, ret>> PROVE Answered'
  BY <1>1
<1>2. ASSUME NEW c \in Callers, CheckRunning(c) \/ InCall(c) PROVE Answered'
  BY <1>2 DEF InCall, CheckRunning, Malloc, Enqueue, TestFlag, TestRun, TestStatus,
              FreeTask, Goto
<1>3. CASE Worker
  BY <1>1, <1>3 DEF Worker, WorkerInit, Loop, Look, Dequeue, EmptyQueue, Begin, Move,
                    EndTransfer, callVars
<1>4. ASSUME NEW k \in Controllers, Control(k) PROVE Answered'
  BY <1>1, <1>4 DEF Control, Reconnect, SetRunning, Pause, EndRun, EndModule, callVars
<1> QED
  BY <1>1, <1>2, <1>3, <1>4 DEF Next, vars

LEMMA FreshNext ==
  ASSUME Commands = {}, CallsInv, [Next]_vars
  PROVE  Fresh'
<1> USE DEF CallsInv
<1>1. ASSUME UNCHANGED <<pc, cell, moved>>, Due' \subseteq Due PROVE Fresh'
  BY <1>1 DEF Fresh
<1>2. CASE UNCHANGED vars
  BY <1>1, <1>2 DEF vars, Due, Queued
<1>3. ASSUME NEW c \in Callers, CheckRunning(c) \/ InCall(c) PROVE Fresh'
  <2>1. /\ UNCHANGED <<wpc, wcur>> /\ pc \in [Callers -> CallerPc]
        /\ cell \in [Callers -> Cells \cup {Null}] /\ moved \in [Callers -> Outcome]
    BY <1>3 DEF InCall, CheckRunning, Malloc, Enqueue, TestFlag, TestRun, TestStatus,
                FreeTask, SteadyInv, TypeInv, TypeOK
  <2>2. CASE CheckRunning(c) \/ TestFlag(c) \/ TestRun(c) \/ TestStatus(c)
    <3>1. Due' = Due /\ UNCHANGED <<cell, moved>>
      BY <2>2 DEF CheckRunning, TestFlag, TestRun, TestStatus, Due, Queued
    <3> QED
      BY <2>1, <2>2, <3>1
         DEF CheckRunning, TestFlag, TestRun, TestStatus, Goto, Fresh
  <2>3. CASE Malloc(c)
    <3>1. Due' = Due /\ moved' = moved /\ moved[c] = "none"
      BY <2>1, <2>3 DEF Malloc, Due, Queued, Fresh
    <3>2. \A d \in Callers \ {c} : cell'[d] = cell[d] /\ pc'[d] = pc[d]
      BY <2>1, <2>3 DEF Malloc, Goto
    <3> QED
      BY <3>1, <3>2 DEF Fresh
  <2>4. CASE Enqueue(c)
    <3>1. /\ UNCHANGED <<cell, moved>> /\ moved[c] = "none" /\ cell[c] \in Cells
          /\ cell[c] # Null
      BY <2>1, <2>4, SpiAssumption DEF Enqueue, Fresh, SteadyInv, TypeInv, Placed
    <3>2. Linked(queue, cell[c], queue')
      BY <2>4, <3>1, LinkedFirst, LinkedLast DEF Enqueue, SteadyInv, TypeInv, TypeOK
    <3>3. Due' \subseteq Due \cup {cell[c]}
      BY <2>1, <3>2 DEF Linked, Due, Queued
    <3>4. \A d \in Callers \ {c} : cell[d] # cell[c] /\ pc'[d] = pc[d]
      BY <2>1, <2>4, <3>1, Holders DEF Enqueue, Goto
    <3> QED
      BY <3>1, <3>3, <3>4 DEF Fresh
  <2>5. CASE FreeTask(c)
    <3>1. Due' = Due /\ moved'[c] = "none"
      BY <2>1, <2>5 DEF FreeTask, Due, Queued
    <3>2. \A d \in Callers \ {c} : cell'[d] = cell[d] /\ pc'[d] = pc[d] /\ moved'[d] = moved[d]
      BY <2>1, <2>5 DEF FreeTask, Goto
    <3> QED
      BY <3>1, <3>2 DEF Fresh
  <2> QED
    BY <1>3, <2>2, <2>3, <2>4, <2>5 DEF InCall
<1>4. CASE Worker
  <2>1. CASE WorkerInit \/ Loop \/ Look \/ Begin \/ EndTransfer
    BY <1>1, <2>1 DEF WorkerInit, Loop, Look, Begin, EndTransfer, WorkerGoto, callVars, Due, Queued
  <2>2. CASE Dequeue
    <3>1. /\ queue \in Seq(Cells) /\ queue # <<>>
          /\ \A i, j \in 1 .. Len(queue) : queue[i] = queue[j] => i = j
      BY <2>2 DEF Dequeue, SteadyInv, TypeInv, TypeOK, Ready, TaskOwned
    <3>2. Due' \subseteq Queued
      BY <2>2, <3>1, UnlinkedFirst DEF Dequeue, WorkerGoto, Due, Queued
    <3> QED
      BY <1>1, <2>2, <3>2 DEF Dequeue, callVars, Due
  <2>3. CASE Move
    <3>1. wcur \in Served /\ Due' \subseteq Queued /\ wcur \notin Queued /\ UNCHANGED <<pc, cell>>
      BY <2>3 DEF Move, WorkerGoto, callVars, Served, Due, Queued, SteadyInv, TaskOwned
    <3>2. PICK o \in Callers : task[wcur].owner = o /\ cell[o] = wcur /\ Waiting(o)
      BY <3>1 DEF SteadyInv, TaskOwned
    <3>3. \A d \in Callers \ {o} : moved'[d] = moved[d]
      BY <2>3, <3>2 DEF Move, SteadyInv, TypeInv, TypeOK
    <3> QED
      BY <3>1, <3>2, <3>3 DEF Fresh, Waiting, Due
  <2>4. ~EmptyQueue
    BY DEF EmptyQueue, SteadyInv, Unbroken
  <2> QED
    BY <1>4, <2>1, <2>2, <2>3, <2>4 DEF Worker
<1>5. ASSUME NEW k \in Controllers, Control(k) PROVE Fresh'
  BY <1>1, <1>5 DEF Control, Reconnect, SetRunning, Pause, EndRun, EndModule,
                    callVars, Due, Queued
<1> QED
  BY <1>2, <1>3, <1>4, <1>5 DEF Next

LEMMA CallsInvNext ==
  ASSUME Commands = {}, CallsInv, [Next]_vars
  PROVE  CallsInv'
BY SteadyNext, FreshNext, AnsweredNext DEF CallsInv

\* The abstract call of each caller, as in the refinement of SpiTransfer.
CallOf ==
  [c \in Callers |->
     IF pc[c] \in {"idle", "malloc"} THEN "idle"
     ELSE IF moved[c] = "none" THEN "asked" ELSE moved[c]]

\* A change of one entry of CallOf that is a step of SlotCalls.
LEMMA CallStep ==
  ASSUME NEW c \in Callers, \A d \in Callers \ {c} : CallOf'[d] = CallOf[d],
         \/ CallOf'[c] = CallOf[c]
         \/ CallOf[c] = "idle" /\ CallOf'[c] = "asked"
         \/ CallOf[c] = "asked" /\ CallOf'[c] \in {"ok", "err"}
         \/ CallOf[c] \in {"ok", "err"} /\ CallOf'[c] = "idle"
  PROVE  Calls!Next \/ CallOf' = CallOf
<1>1. CallOf' = [CallOf EXCEPT ![c] = CallOf'[c]]
  BY DEF CallOf
<1>2. CASE CallOf'[c] = CallOf[c]
  BY <1>1, <1>2 DEF CallOf
<1>3. CASE CallOf'[c] # CallOf[c]
  BY <1>1, <1>3 DEF CallOf, Calls!Next, Calls!Ask, Calls!Serve, Calls!Return
<1> QED
  BY <1>2, <1>3

LEMMA StepIsCallStep ==
  ASSUME CallsInv, CallsInv', [Next]_vars
  PROVE  Calls!Next \/ CallOf' = CallOf
<1>1. ASSUME UNCHANGED <<pc, moved>> PROVE CallOf' = CallOf
  BY <1>1 DEF CallOf
<1>2. /\ pc \in [Callers -> CallerPc] /\ moved \in [Callers -> Outcome]
      /\ \A c \in Callers : moved[c] # "none" => pc[c] \notin {"idle", "malloc", "enqueue"}
      /\ \A c \in Callers : pc[c] = "free" => moved[c] \in {"ok", "err"}
  BY DEF CallsInv, SteadyInv, TypeInv, TypeOK, Known, Fresh, Answered
<1>3. ASSUME NEW c \in Callers, CheckRunning(c) \/ InCall(c)
      PROVE  Calls!Next \/ CallOf' = CallOf
  <2>1. \A d \in Callers \ {c} : CallOf'[d] = CallOf[d]
    BY <1>2, <1>3 DEF CallOf, InCall, CheckRunning, Malloc, Enqueue, TestFlag, TestRun,
                      TestStatus, FreeTask, Goto
  <2>2. CASE CheckRunning(c) \/ Enqueue(c) \/ TestFlag(c) \/ TestRun(c) \/ TestStatus(c)
    <3>1. CallOf'[c] = CallOf[c]
      BY <1>2, <2>2 DEF CallOf, CheckRunning, Enqueue, TestFlag, TestRun, TestStatus, Goto
    <3> QED
      BY <2>1, <3>1, CallStep
  <2>3. CASE Malloc(c)
    <3>1. CallOf[c] = "idle" /\ CallOf'[c] = "asked"
      BY <1>2, <2>3 DEF CallOf, Malloc, Goto
    <3> QED
      BY <2>1, <3>1, CallStep
  <2>4. CASE FreeTask(c)
    <3>1. CallOf[c] \in {"ok", "err"} /\ CallOf'[c] = "idle"
      BY <1>2, <2>4 DEF CallOf, FreeTask, Goto
    <3> QED
      BY <2>1, <3>1, CallStep
  <2> QED
    BY <1>3, <2>2, <2>3, <2>4 DEF InCall
<1>4. CASE Worker
  <2>1. CASE Move
    <3>1. wcur \in Served /\ UNCHANGED pc
      BY <2>1 DEF Move, callVars, Served
    <3>2. PICK o \in Callers : task[wcur].owner = o /\ cell[o] = wcur /\ Waiting(o)
      BY <3>1 DEF CallsInv, SteadyInv, TaskOwned
    <3>3. PICK r \in {"ok", "err"} : moved' = [moved EXCEPT ![o] = r]
      BY <2>1, <3>2 DEF Move
    <3>4. moved[o] = "none"
      BY <2>1, <3>2 DEF Move, CallsInv, Fresh, Due
    <3>5. CallOf[o] = "asked" /\ CallOf'[o] \in {"ok", "err"}
      BY <1>2, <3>1, <3>2, <3>3, <3>4 DEF CallOf, Waiting
    <3>6. \A d \in Callers \ {o} : CallOf'[d] = CallOf[d]
      BY <1>2, <3>1, <3>3 DEF CallOf
    <3> QED
      BY <3>5, <3>6, CallStep
  <2>2. CASE WorkerInit \/ Loop \/ Look \/ Dequeue \/ EmptyQueue \/ Begin \/ EndTransfer
    BY <1>1, <2>2 DEF WorkerInit, Loop, Look, Dequeue, EmptyQueue, Begin, EndTransfer, callVars
  <2> QED
    BY <1>4, <2>1, <2>2 DEF Worker
<1>5. ASSUME NEW k \in Controllers, Control(k) PROVE CallOf' = CallOf
  BY <1>1, <1>5 DEF Control, Reconnect, SetRunning, Pause, EndRun, EndModule, callVars
<1> QED
  BY <1>1, <1>3, <1>4, <1>5 DEF Next, vars

\* While nobody pauses or ends the slot it carries out every call at most once
\* and answers it after that: the safety half of ImplementsCalls, for every
\* number of callers, with inserters too.
THEOREM SlotServesCalls ==
  ASSUME Commands = {}
  PROVE  Spec => Calls!Safety
<1>1. Init => Calls!Init
  BY DEF Init, Calls!Init
<1>2. CallsInv /\ [Next]_vars => CallsInv'
  BY CallsInvNext
<1>3. CallsInv /\ CallsInv' /\ [Next]_vars => [Calls!Next]_CallOf
  BY StepIsCallStep
<1> QED
  BY <1>1, <1>2, <1>3, CallsInvInit, PTL DEF Spec, Calls!Safety, CallOf
=============================================================================
