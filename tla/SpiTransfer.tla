---------------------------- MODULE SpiTransfer -----------------------------
(***************************************************************************)
(* transfer/spi.c in the process that owns the SPI master: the tasks of    *)
(* one slot.  A caller allocates a task, links it into the queue of the    *)
(* slot and polls the task until the worker thread marks it ended; other   *)
(* threads start, pause, resume and end the slot by writing run_flag,      *)
(* which callers and worker read with no lock.                             *)
(*                                                                         *)
(* A task is a heap cell.  A cell that was freed can be allocated again    *)
(* while a stale pointer to it is still in the queue or with a caller, so  *)
(* that a use after free reads and writes the task of somebody else.       *)
(* Freeing a cell that is free leaves the heap as it is or aborts the      *)
(* process.                                                                *)
(***************************************************************************)
EXTENDS Naturals, Sequences, FiniteSets

CONSTANTS
  Callers,      \* threads that transfer over the slot
  Inserters,    \* the callers that use insert_spi_transfer_task
  Controllers,  \* threads that start, pause, resume and end the slot
  Cells,        \* addresses malloc can return for a task
  Null,         \* the NULL pointer
  Commands,     \* what controllers do besides starting the slot
  MaxQueue      \* bound on the tasks queued or about to be

ASSUME SpiAssumption ==
  /\ Inserters \subseteq Callers /\ IsFiniteSet(Callers)
  /\ Null \notin Cells \cup Callers
  /\ Commands \subseteq {"pause", "end"}
  /\ MaxQueue \in Nat

VARIABLES
  run,      \* spi_masters[slot].run_flag
  mod,      \* spi_master_module[slot].run_flag
  queue,    \* spi_master_module[slot].task_queue
  heap,     \* cells that are allocated
  task,     \* contents of the cells; owner is a history of who allocated it
  wpc,      \* where the worker is
  wcur,     \* p_spitask of the worker
  pc,       \* where each caller is
  cell,     \* p_spitask of each caller
  ret,      \* what wait_spi_transfer_end returned to each caller
  ctl,      \* where each controller is
  moved,    \* history: outcome on the wire of the call each caller is in
  aborted   \* the allocator met a double free and ended the process

vars == <<run, mod, queue, heap, task, wpc, wcur, pc, cell, ret, ctl, moved, aborted>>

slotVars == <<run, mod, ctl>>
memVars == <<heap, task, aborted>>
callVars == <<pc, cell, ret>>

Outcome == {"none", "ok", "err"}
Task == [flag : {"wait", "busy", "end"}, status : Outcome, owner : Callers \cup {Null}]
CallerPc == {"idle", "malloc", "enqueue", "flag", "run", "status", "free"}
WorkerPc == {"init", "loop", "look", "dequeue", "empty", "begin", "move", "end",
             "last", "exited"}
ControllerPc == {"idle", "start", "resume", "end"}

Init ==
  /\ run = "stop" /\ mod = FALSE
  /\ queue = <<>> /\ heap = {}
  /\ task = [x \in Cells |-> [flag |-> "wait", status |-> "none", owner |-> Null]]
  /\ wpc = "init" /\ wcur = Null
  /\ pc = [c \in Callers |-> "idle"]
  /\ cell = [c \in Callers |-> Null]
  /\ ret = [c \in Callers |-> "none"]
  /\ ctl = [k \in Controllers |-> "idle"]
  /\ moved = [c \in Callers |-> "none"]
  /\ aborted = FALSE

Queued == {queue[i] : i \in 1 .. Len(queue)}

\* Freeing a set of pointers: those that are free already make a double free.
Free(S) ==
  /\ heap' = heap \ S
  /\ aborted' \in IF S \subseteq heap THEN {FALSE} ELSE BOOLEAN

-----------------------------------------------------------------------------
(* The callers: add_spi_transfer_task, wait_spi_transfer_end, free *)

Goto(c, l) == pc' = [pc EXCEPT ![c] = l]

\* A call over a slot that is not running returns NULL and changes nothing.
CheckRunning(c) ==
  /\ pc[c] = "idle" /\ run = "running"
  /\ Len(queue) + Cardinality({d \in Callers : pc[d] \in {"malloc", "enqueue"}}) < MaxQueue
  /\ Goto(c, "malloc")
  /\ UNCHANGED <<slotVars, memVars, queue, wpc, wcur, cell, ret, moved>>

\* Mutant of Malloc: a failure goes on with a NULL task.
MallocUnchecked(c) ==
  /\ pc[c] = "malloc"
  /\ \E x \in (Cells \ heap) \cup {Null} :
       /\ heap' = heap \cup ({x} \ {Null})
       /\ task' = [y \in Cells |-> IF y = x
                                  THEN [flag |-> "wait", status |-> "none", owner |-> c]
                                  ELSE task[y]]
       /\ cell' = [cell EXCEPT ![c] = x]
  /\ Goto(c, "enqueue")
  /\ UNCHANGED <<slotVars, queue, wpc, wcur, ret, aborted, moved>>

\* malloc and the writes that fill the task, before anybody else knows of it.
Malloc(c) ==
  /\ pc[c] = "malloc"
  /\ \E x \in Cells \ heap :
       /\ heap' = heap \cup {x}
       /\ task' = [task EXCEPT ![x] = [flag |-> "wait", status |-> "none", owner |-> c]]
       /\ cell' = [cell EXCEPT ![c] = x]
  /\ Goto(c, "enqueue")
  /\ UNCHANGED <<slotVars, queue, wpc, wcur, ret, aborted, moved>>

\* Mutant of Enqueue: links the new task as if the list were empty.
EnqueueOverwrites(c) ==
  /\ pc[c] = "enqueue"
  /\ queue' = <<cell[c]>>
  /\ Goto(c, "flag")
  /\ UNCHANGED <<slotVars, memVars, wpc, wcur, cell, ret, moved>>

Enqueue(c) ==
  /\ pc[c] = "enqueue"
  /\ queue' = IF c \in Inserters THEN <<cell[c]>> \o queue ELSE Append(queue, cell[c])
  /\ Goto(c, "flag")
  /\ UNCHANGED <<slotVars, memVars, wpc, wcur, cell, ret, moved>>

\* Mutant of TestFlag: takes a task that is no longer waiting for ended.
TestFlagStarted(c) ==
  /\ pc[c] = "flag"
  /\ Goto(c, IF task[cell[c]].flag # "wait" THEN "status" ELSE "run")
  /\ UNCHANGED <<slotVars, memVars, queue, wpc, wcur, cell, ret, moved>>

\* One turn of the waiting loop tests the task, then the run flag.
TestFlag(c) ==
  /\ pc[c] = "flag"
  /\ Goto(c, IF task[cell[c]].flag = "end" THEN "status" ELSE "run")
  /\ UNCHANGED <<slotVars, memVars, queue, wpc, wcur, cell, ret, moved>>

\* Mutant of TestRun: waits for the task whatever happens to the slot.
TestRunIgnored(c) ==
  /\ pc[c] = "run"
  /\ Goto(c, "flag") /\ UNCHANGED ret
  /\ UNCHANGED <<slotVars, memVars, queue, wpc, wcur, cell, moved>>

TestRun(c) ==
  /\ pc[c] = "run"
  /\ IF run = "running"
     THEN Goto(c, "flag") /\ UNCHANGED ret
     ELSE Goto(c, "free") /\ ret' = [ret EXCEPT ![c] = "err"]
  /\ UNCHANGED <<slotVars, memVars, queue, wpc, wcur, cell, moved>>

TestStatus(c) ==
  /\ pc[c] = "status"
  /\ ret' = [ret EXCEPT ![c] = IF task[cell[c]].status = "ok" THEN "ok" ELSE "err"]
  /\ Goto(c, "free")
  /\ UNCHANGED <<slotVars, memVars, queue, wpc, wcur, cell, moved>>

\* Mutant of FreeTask: the error path returns without freeing the task.
FreeTaskIfOk(c) ==
  /\ pc[c] = "free"
  /\ IF ret[c] = "ok" THEN Free({cell[c]}) ELSE UNCHANGED <<heap, aborted>>
  /\ cell' = [cell EXCEPT ![c] = Null]
  /\ ret' = [ret EXCEPT ![c] = "none"]
  /\ moved' = [moved EXCEPT ![c] = "none"]
  /\ Goto(c, "idle")
  /\ UNCHANGED <<slotVars, task, queue, wpc, wcur>>

FreeTask(c) ==
  /\ pc[c] = "free"
  /\ Free({cell[c]})
  /\ cell' = [cell EXCEPT ![c] = Null]
  /\ ret' = [ret EXCEPT ![c] = "none"]
  /\ moved' = [moved EXCEPT ![c] = "none"]
  /\ Goto(c, "idle")
  /\ UNCHANGED <<slotVars, task, queue, wpc, wcur>>

\* The steps of a call that was let in.
InCall(c) ==
  Malloc(c) \/ Enqueue(c) \/ TestFlag(c) \/ TestRun(c) \/ TestStatus(c) \/ FreeTask(c)

-----------------------------------------------------------------------------
(* The worker: spi_master_transfer_task and spi_master_transfer *)

WorkerGoto(l) == wpc' = l

WorkerInit ==
  /\ wpc = "init"
  /\ mod' = TRUE /\ WorkerGoto("loop")
  /\ UNCHANGED <<run, ctl, memVars, callVars, queue, wcur, moved>>

Loop ==
  /\ wpc = "loop"
  /\ WorkerGoto(IF mod THEN "look" ELSE "last")
  /\ UNCHANGED <<slotVars, memVars, callVars, queue, wcur, moved>>

\* Mutant of Look: a paused slot keeps its tasks for later.
LookKeeps ==
  /\ wpc = "look"
  /\ WorkerGoto(IF queue = <<>> THEN "loop"
                ELSE IF run = "running" THEN "dequeue" ELSE "loop")
  /\ UNCHANGED <<slotVars, memVars, callVars, queue, wcur, moved>>

\* With tasks in the queue the run flag decides what becomes of them.
Look ==
  /\ wpc = "look"
  /\ WorkerGoto(IF queue = <<>> THEN "loop"
                ELSE CASE run = "running" -> "dequeue"
                       [] run = "pause" -> "empty"
                       [] OTHER -> "loop")
  /\ UNCHANGED <<slotVars, memVars, callVars, queue, wcur, moved>>

Dequeue ==
  /\ wpc = "dequeue"
  /\ wcur' = Head(queue) /\ queue' = Tail(queue)
  /\ WorkerGoto("begin")
  /\ UNCHANGED <<slotVars, memVars, callVars, moved>>

\* list_empty frees the tasks with their nodes: ASSIGN_FLAG gave it the tasks.
EmptyQueue ==
  /\ wpc \in {"empty", "last"}
  /\ Free(Queued) /\ queue' = <<>>
  /\ WorkerGoto(IF wpc = "empty" THEN "loop" ELSE "exited")
  /\ UNCHANGED <<slotVars, callVars, task, wcur, moved>>

Begin ==
  /\ wpc = "begin"
  /\ task' = [task EXCEPT ![wcur].flag = "busy"]
  /\ WorkerGoto("move")
  /\ UNCHANGED <<slotVars, callVars, heap, aborted, queue, wcur, moved>>

\* Mutant of Move: the successful path does not write the status.
MoveForgetsOk ==
  /\ wpc = "move"
  /\ \E r \in {"ok", "err"} :
       /\ task' = IF r = "ok" THEN task ELSE [task EXCEPT ![wcur].status = r]
       /\ moved' = LET c == task[wcur].owner IN
                   IF cell[c] = wcur THEN [moved EXCEPT ![c] = r] ELSE moved
  /\ WorkerGoto("end")
  /\ UNCHANGED <<slotVars, callVars, heap, aborted, queue, wcur>>

\* The transfer itself (SpiProcedural), which ends by writing the status.
Move ==
  /\ wpc = "move"
  /\ \E r \in {"ok", "err"} :
       /\ task' = [task EXCEPT ![wcur].status = r]
       /\ moved' = LET c == task[wcur].owner IN
                   IF cell[c] = wcur THEN [moved EXCEPT ![c] = r] ELSE moved
  /\ WorkerGoto("end")
  /\ UNCHANGED <<slotVars, callVars, heap, aborted, queue, wcur>>

EndTransfer ==
  /\ wpc = "end"
  /\ task' = [task EXCEPT ![wcur].flag = "end"]
  /\ wcur' = Null /\ WorkerGoto("loop")
  /\ UNCHANGED <<slotVars, callVars, heap, aborted, queue, moved>>

Worker ==
  WorkerInit \/ Loop \/ Look \/ Dequeue \/ EmptyQueue \/ Begin \/ Move \/ EndTransfer

-----------------------------------------------------------------------------
(* The controllers: moniter_task and the other threads that set run_flag *)

ControlGoto(k, l) == ctl' = [ctl EXCEPT ![k] = l]

\* A board is plugged in, or interrupts: a paused slot is resumed, any other
\* started.
Reconnect(k) ==
  /\ ctl[k] = "idle" /\ run # "running"
  /\ ControlGoto(k, IF run = "pause" THEN "resume" ELSE "start")
  /\ UNCHANGED <<run, mod, memVars, callVars, queue, wpc, wcur, moved>>

\* start_spi_transfer_task waits for the worker thread, resume does not.
SetRunning(k) ==
  /\ ctl[k] = "resume" \/ (ctl[k] = "start" /\ mod)
  /\ run' = "running" /\ ControlGoto(k, "idle")
  /\ UNCHANGED <<mod, memVars, callVars, queue, wpc, wcur, moved>>

Pause(k) ==
  /\ "pause" \in Commands /\ ctl[k] = "idle" /\ run # "pause"
  /\ run' = "pause"
  /\ UNCHANGED <<mod, ctl, memVars, callVars, queue, wpc, wcur, moved>>

\* end_spi_transfer_task, at any time: from main.c, and from the console by way
\* of ipcmsgsrv.c.
EndRun(k) ==
  /\ "end" \in Commands /\ ctl[k] = "idle"
  /\ run' = "stop" /\ ControlGoto(k, "end")
  /\ UNCHANGED <<mod, memVars, callVars, queue, wpc, wcur, moved>>

\* Mutant of EndModule: leaves the flag of the worker's loop alone.
EndModuleForgets(k) ==
  /\ ctl[k] = "end"
  /\ ControlGoto(k, "idle")
  /\ UNCHANGED <<mod, run, memVars, callVars, queue, wpc, wcur, moved>>

EndModule(k) ==
  /\ ctl[k] = "end"
  /\ mod' = FALSE /\ ControlGoto(k, "idle")
  /\ UNCHANGED <<run, memVars, callVars, queue, wpc, wcur, moved>>

Control(k) == Reconnect(k) \/ SetRunning(k) \/ Pause(k) \/ EndRun(k) \/ EndModule(k)

-----------------------------------------------------------------------------
Next ==
  /\ ~aborted
  /\ \/ Worker
     \/ \E c \in Callers : CheckRunning(c) \/ InCall(c)
     \/ \E k \in Controllers : Control(k)

Spec == Init /\ [][Next]_vars

\* Threads are scheduled; nobody has to start a call or to issue a command.
Fairness ==
  /\ WF_vars(~aborted /\ Worker)
  /\ \A c \in Callers : WF_vars(~aborted /\ InCall(c))
  /\ \A k \in Controllers : WF_vars(~aborted /\ (SetRunning(k) \/ EndModule(k)))

FairSpec == Spec /\ Fairness

-----------------------------------------------------------------------------
TypeOK ==
  /\ run \in {"stop", "running", "pause"} /\ mod \in BOOLEAN
  /\ queue \in Seq(Cells) /\ heap \subseteq Cells
  /\ task \in [Cells -> Task]
  /\ wpc \in WorkerPc /\ wcur \in Cells \cup {Null}
  /\ pc \in [Callers -> CallerPc] /\ cell \in [Callers -> Cells \cup {Null}]
  /\ ret \in [Callers -> Outcome] /\ moved \in [Callers -> Outcome]
  /\ ctl \in [Controllers -> ControllerPc]
  /\ aborted \in BOOLEAN

\* The task of a call that is under way belongs to that call alone: it is
\* allocated, and a task in the queue or with the worker is one that its owner
\* still polls.  So no thread touches a freed task and none is freed twice.
Waiting(c) == pc[c] \in {"flag", "run"}
Served == IF wpc \in {"begin", "move", "end"} THEN {wcur} ELSE {}

TaskOwned ==
  /\ \A x \in Queued \cup Served :
       /\ x \in heap
       /\ \E c \in Callers : task[x].owner = c /\ cell[c] = x /\ Waiting(c)
  /\ Queued \cap Served = {}
  /\ \A i, j \in 1 .. Len(queue) : queue[i] = queue[j] => i = j
  /\ \A c \in Callers : cell[c] # Null => cell[c] \in heap /\ task[cell[c]].owner = c

\* A call returns the outcome of its own transfer: a failed transfer is never
\* reported as done, nor a finished one as failed.
ReturnsOwnOutcome == \A c \in Callers : pc[c] = "free" => ret[c] = moved[c]

\* Every allocated task is held by a caller that will free it, whatever is
\* paused, resumed or ended meanwhile.
NoTaskLeaks == \A x \in heap : \E c \in Callers : cell[c] = x

\* A caller of a slot that stays paused or stopped does not wait for ever:
\* wait_spi_transfer_end gives up.
PauseReleases ==
  <>[](run # "running") => <>[](aborted \/ \A c \in Callers : pc[c] = "idle")

\* A slot that stays paused gets rid of the tasks that were queued.
PauseDrains ==
  <>[](run = "pause" /\ mod) => <>[](aborted \/ queue = <<>>)

\* end_spi_transfer_task, once the worker thread has started, makes it leave its
\* loop and end.
WorkerEnds ==
  (wpc # "init" /\ \E k \in Controllers : ctl[k] = "end") ~> (aborted \/ wpc = "exited")

\* While the board stays in its slot, and no task jumps the queue, the slot
\* serves each call exactly once and every call returns.
Calls == INSTANCE SlotCalls WITH
  call <- [c \in Callers |->
             IF pc[c] \in {"idle", "malloc"} THEN "idle"
             ELSE IF moved[c] = "none" THEN "asked" ELSE moved[c]]

ImplementsCalls == Calls!Spec
=============================================================================
