----------------------------- MODULE ThreadPool -----------------------------
(***************************************************************************)
(* utils/thread_pool.c: a list of tasks under queue_lock, a semaphore that *)
(* counts the tasks posted, worker threads that poll the semaphore, and    *)
(* two words that the code reads and writes with no lock held around every *)
(* access: cur_queue_size (incremented under the lock, decremented outside *)
(* it) and task_mask (one bit per board interrupt task).  Each unlocked    *)
(* read-modify-write is two steps here, a load into reg and a store.       *)
(***************************************************************************)
EXTENDS Integers, Sequences, FiniteSets

CONSTANTS
  Workers,    \* threads of the pool (thread_qty of them)
  Callers,    \* threads that call thread_pool_add_task
  Bits,       \* mask bits in use: the slots whose interrupt tasks are masked
  NoBit,      \* task_arg.mask_bit < 0, or no task_arg
  Temporary,  \* TRUE: its only caller destroys the pool (mux.c); FALSE: kept
  MaxTasks    \* bound on the tasks added in a behaviour

ASSUME PoolAssumption ==
  /\ IsFiniteSet(Workers) /\ IsFiniteSet(Callers)
  /\ Workers \cap Callers = {}
  /\ NoBit \notin Bits
  /\ MaxTasks \in Nat
  /\ Temporary \in BOOLEAN
  /\ Temporary => \E c \in Callers : Callers = {c}

VARIABLES
  queue,     \* queue_head .. queue_tail
  sem,       \* value of queue_sem
  size,      \* cur_queue_size
  mask,      \* the bits set in task_mask
  doflag,    \* 0, WAIT or SHUTDOWN
  lock,      \* holder of queue_lock, or Free
  pc,        \* where each thread is
  maskReg,   \* the task_mask a thread loaded for its read-modify-write
  sizeReg,   \* the cur_queue_size a thread loaded for its read-modify-write
  cur,       \* the task a thread is adding or running
  sawZero,   \* worker: cur_queue_size was 0 when it took the lock
  added,     \* history: number of tasks linked into the queue
  done       \* history: ids of the tasks whose process returned

vars == <<queue, sem, size, mask, doflag, lock, pc, maskReg, sizeReg, cur, sawZero,
          added, done>>

Threads == Workers \cup Callers
Free == "free"
Task == [id : Nat, bit : Bits \cup {NoBit}]
NoTask == [id |-> 0, bit |-> NoBit]

WorkerPc == {"poll", "token", "drain", "lockedToken", "lockedDrain", "run",
             "clearLoad", "clearStore", "decLoad", "decStore", "exited"}
CallerPc == {"idle", "maskLoad", "maskStore", "enqueue", "incStore", "post",
             "waiting", "joining", "destroyed"}

Init ==
  /\ queue = <<>> /\ sem = 0 /\ size = 0 /\ mask = {} /\ doflag = "0"
  /\ lock = Free
  /\ pc = [t \in Threads |-> IF t \in Workers THEN "poll" ELSE "idle"]
  /\ maskReg = [t \in Threads |-> {}]
  /\ sizeReg = [t \in Threads |-> 0]
  /\ cur = [t \in Threads |-> NoTask]
  /\ sawZero = [w \in Workers |-> FALSE]
  /\ added = 0 /\ done = {}

Goto(t, l) == pc' = [pc EXCEPT ![t] = l]
LoadMask(t, v) == maskReg' = [maskReg EXCEPT ![t] = v]
LoadSize(t, v) == sizeReg' = [sizeReg EXCEPT ![t] = v]

-----------------------------------------------------------------------------
(* thread_pool_add_task *)

\* A masked task whose bit is set is refused (the call returns 1) and nothing
\* changes; every other call goes on with its own copy of the task.
AddTask(c, b) ==
  /\ pc[c] = "idle"
  /\ added < MaxTasks
  /\ b \notin mask
  /\ cur' = [cur EXCEPT ![c] = [id |-> 0, bit |-> b]]
  /\ Goto(c, IF b = NoBit THEN "enqueue" ELSE "maskLoad")
  /\ UNCHANGED <<queue, sem, size, mask, doflag, lock, maskReg, sizeReg, sawZero, added, done>>

SetMaskLoad(c) ==
  /\ pc[c] = "maskLoad"
  /\ LoadMask(c, mask) /\ Goto(c, "maskStore")
  /\ UNCHANGED <<queue, sem, size, mask, doflag, lock, sizeReg, cur, sawZero, added, done>>

SetMaskStore(c) ==
  /\ pc[c] = "maskStore"
  /\ mask' = maskReg[c] \cup {cur[c].bit}
  /\ LoadMask(c, {}) /\ Goto(c, "enqueue")
  /\ UNCHANGED <<queue, sem, size, doflag, lock, sizeReg, cur, sawZero, added, done>>

\* Mutant of Enqueue: links the task at the head of the list.
EnqueueAtHead(c) ==
  /\ pc[c] = "enqueue" /\ lock = Free
  /\ lock' = c
  /\ added' = added + 1
  /\ queue' = <<[id |-> added + 1, bit |-> cur[c].bit]>> \o queue
  /\ LoadSize(c, size) /\ Goto(c, "incStore")
  /\ UNCHANGED <<sem, size, mask, doflag, maskReg, cur, sawZero, done>>

\* Takes queue_lock, links the task at the tail and loads cur_queue_size.
Enqueue(c) ==
  /\ pc[c] = "enqueue" /\ lock = Free
  /\ lock' = c
  /\ added' = added + 1
  /\ queue' = Append(queue, [id |-> added + 1, bit |-> cur[c].bit])
  /\ LoadSize(c, size) /\ Goto(c, "incStore")
  /\ UNCHANGED <<sem, size, mask, doflag, maskReg, cur, sawZero, done>>

IncSizeUnlock(c) ==
  /\ pc[c] = "incStore"
  /\ size' = sizeReg[c] + 1
  /\ lock' = Free
  /\ LoadSize(c, 0) /\ Goto(c, "post")
  /\ UNCHANGED <<queue, sem, mask, doflag, maskReg, cur, sawZero, added, done>>

\* Mutant of Post: a binary semaphore instead of a counting one.
PostBinary(c) ==
  /\ pc[c] = "post"
  /\ sem' = 1
  /\ cur' = [cur EXCEPT ![c] = NoTask]
  /\ Goto(c, "idle")
  /\ UNCHANGED <<queue, size, mask, doflag, lock, maskReg, sizeReg, sawZero, added, done>>

Post(c) ==
  /\ pc[c] = "post"
  /\ sem' = sem + 1
  /\ cur' = [cur EXCEPT ![c] = NoTask]
  /\ Goto(c, "idle")
  /\ UNCHANGED <<queue, size, mask, doflag, lock, maskReg, sizeReg, sawZero, added, done>>

-----------------------------------------------------------------------------
(* thread_routine *)

\* Leaves the polling loop with a unit of the semaphore.
TryWait(w) ==
  /\ pc[w] = "poll" /\ doflag # "SHUTDOWN" /\ sem > 0
  /\ sem' = sem - 1
  /\ Goto(w, "token")
  /\ UNCHANGED <<queue, size, mask, doflag, lock, maskReg, sizeReg, cur, sawZero, added, done>>

\* Leaves the polling loop, without one, because the pool is shutting down.
SeeShutdown(w) ==
  /\ pc[w] = "poll" /\ doflag = "SHUTDOWN"
  /\ Goto(w, "drain")
  /\ UNCHANGED <<queue, sem, size, mask, doflag, lock, maskReg, sizeReg, cur, sawZero, added, done>>

Lock(w) ==
  /\ pc[w] \in {"token", "drain"} /\ lock = Free
  /\ lock' = w
  /\ sawZero' = [sawZero EXCEPT ![w] = (size = 0)]
  /\ Goto(w, IF pc[w] = "token" THEN "lockedToken" ELSE "lockedDrain")
  /\ UNCHANGED <<queue, sem, size, mask, doflag, maskReg, sizeReg, cur, added, done>>

Locked(w) == pc[w] \in {"lockedToken", "lockedDrain"}
ReleaseAfterCheck(w) ==
  /\ lock' = Free
  /\ sawZero' = [sawZero EXCEPT ![w] = FALSE]

Exit(w) ==
  /\ Locked(w) /\ sawZero[w] /\ doflag = "SHUTDOWN"
  /\ ReleaseAfterCheck(w)
  /\ Goto(w, "exited")
  /\ UNCHANGED <<queue, sem, size, mask, doflag, maskReg, sizeReg, cur, added, done>>

\* The list is empty: sleep with the lock held, release it, poll again.
FoundNothing(w) ==
  /\ Locked(w) /\ ~(sawZero[w] /\ doflag = "SHUTDOWN")
  /\ queue = <<>>
  /\ ReleaseAfterCheck(w)
  /\ Goto(w, "poll")
  /\ UNCHANGED <<queue, sem, size, mask, doflag, maskReg, sizeReg, cur, added, done>>

Pop(w) ==
  /\ Locked(w) /\ ~(sawZero[w] /\ doflag = "SHUTDOWN")
  /\ queue # <<>>
  /\ queue' = Tail(queue)
  /\ cur' = [cur EXCEPT ![w] = Head(queue)]
  /\ ReleaseAfterCheck(w)
  /\ Goto(w, "run")
  /\ UNCHANGED <<sem, size, mask, doflag, maskReg, sizeReg, added, done>>

Run(w) ==
  /\ pc[w] = "run"
  /\ done' = done \cup {cur[w].id}
  /\ Goto(w, IF cur[w].bit = NoBit THEN "decLoad" ELSE "clearLoad")
  /\ UNCHANGED <<queue, sem, size, mask, doflag, lock, maskReg, sizeReg, cur, sawZero, added>>

ClearMaskLoad(w) ==
  /\ pc[w] = "clearLoad"
  /\ LoadMask(w, mask) /\ Goto(w, "clearStore")
  /\ UNCHANGED <<queue, sem, size, mask, doflag, lock, sizeReg, cur, sawZero, added, done>>

ClearMaskStore(w) ==
  /\ pc[w] = "clearStore"
  /\ mask' = maskReg[w] \ {cur[w].bit}
  /\ LoadMask(w, {}) /\ Goto(w, "decLoad")
  /\ UNCHANGED <<queue, sem, size, doflag, lock, sizeReg, cur, sawZero, added, done>>

DecSizeLoad(w) ==
  /\ pc[w] = "decLoad"
  /\ LoadSize(w, size) /\ Goto(w, "decStore")
  /\ cur' = [cur EXCEPT ![w] = NoTask]
  /\ UNCHANGED <<queue, sem, size, mask, doflag, lock, maskReg, sawZero, added, done>>

DecSizeStore(w) ==
  /\ pc[w] = "decStore"
  /\ size' = sizeReg[w] - 1
  /\ LoadSize(w, 0) /\ Goto(w, "poll")
  /\ UNCHANGED <<queue, sem, mask, doflag, lock, maskReg, cur, sawZero, added, done>>

-----------------------------------------------------------------------------
(* thread_pool_wait and thread_pool_destroy, by the owner of a temporary pool *)

Wait(c) ==
  /\ Temporary /\ pc[c] = "idle" /\ doflag = "0"
  /\ doflag' = "WAIT"
  /\ Goto(c, "waiting")
  /\ UNCHANGED <<queue, sem, size, mask, lock, maskReg, sizeReg, cur, sawZero, added, done>>

WaitEnd(c) ==
  /\ pc[c] = "waiting" /\ size <= 0
  /\ doflag' = "0"
  /\ Goto(c, "idle")
  /\ UNCHANGED <<queue, sem, size, mask, lock, maskReg, sizeReg, cur, sawZero, added, done>>

Destroy(c) ==
  /\ Temporary /\ pc[c] = "idle" /\ doflag = "0"
  /\ doflag' = "SHUTDOWN"
  /\ Goto(c, "joining")
  /\ UNCHANGED <<queue, sem, size, mask, lock, maskReg, sizeReg, cur, sawZero, added, done>>

\* Mutant of DestroyEnd: cancels the workers (thread_pool_exit) without joining.
DestroyEndNoJoin(c) ==
  /\ pc[c] = "joining"
  /\ queue' = <<>>
  /\ Goto(c, "destroyed")
  /\ UNCHANGED <<sem, size, mask, doflag, lock, maskReg, sizeReg, cur, sawZero, added, done>>

\* Every worker is joined; what is left in the list is freed without running.
DestroyEnd(c) ==
  /\ pc[c] = "joining" /\ \A w \in Workers : pc[w] = "exited"
  /\ queue' = <<>>
  /\ Goto(c, "destroyed")
  /\ UNCHANGED <<sem, size, mask, doflag, lock, maskReg, sizeReg, cur, sawZero, added, done>>

-----------------------------------------------------------------------------
CallerStep(c) ==
  \/ \E b \in Bits \cup {NoBit} : AddTask(c, b)
  \/ SetMaskLoad(c) \/ SetMaskStore(c)
  \/ Enqueue(c) \/ IncSizeUnlock(c) \/ Post(c)
  \/ Wait(c) \/ WaitEnd(c) \/ Destroy(c) \/ DestroyEnd(c)

WorkerStep(w) ==
  \/ TryWait(w) \/ SeeShutdown(w) \/ Lock(w)
  \/ Exit(w) \/ FoundNothing(w) \/ Pop(w) \/ Run(w)
  \/ ClearMaskLoad(w) \/ ClearMaskStore(w)
  \/ DecSizeLoad(w) \/ DecSizeStore(w)

Next ==
  \/ \E c \in Callers : CallerStep(c)
  \/ \E w \in Workers : WorkerStep(w)

\* A thread that can go on is scheduled again, and a task's process returns;
\* nobody is obliged to add a task or to destroy the pool.
Fairness ==
  /\ \A w \in Workers : WF_vars(WorkerStep(w))
  /\ \A c \in Callers : WF_vars(/\ CallerStep(c)
                                /\ pc[c] # "idle")

Spec == Init /\ [][Next]_vars
FairSpec == Spec /\ Fairness
-----------------------------------------------------------------------------
(* Properties *)

TypeOK ==
  /\ queue \in Seq(Task)
  /\ sem \in Nat /\ size \in Int /\ mask \subseteq Bits
  /\ doflag \in {"0", "WAIT", "SHUTDOWN"}
  /\ lock \in Threads \cup {Free}
  /\ pc \in [Threads -> WorkerPc \cup CallerPc]
  /\ \A w \in Workers : pc[w] \in WorkerPc
  /\ \A c \in Callers : pc[c] \in CallerPc
  /\ maskReg \in [Threads -> SUBSET Bits]
  /\ sizeReg \in [Threads -> Int]
  /\ cur \in [Threads -> Task]
  /\ sawZero \in [Workers -> BOOLEAN]
  /\ added \in Nat /\ done \subseteq Nat

TokenHolders == {w \in Workers : pc[w] \in {"token", "lockedToken"}}
Posters == {c \in Callers : pc[c] \in {"incStore", "post"}}

(* Until the pool shuts down, every task in the list is backed by exactly   *)
(* one unit of queue_sem: still in the semaphore, taken by a worker that    *)
(* has not popped yet, or about to be posted.  So no task is stranded in    *)
(* the list (thread_pool.c:263 posts after the unlock) and no worker with a *)
(* unit finds the list empty (line 92), whatever cur_queue_size says.       *)
TokenBacked ==
  doflag # "SHUTDOWN" =>
    Len(queue) = sem + Cardinality(TokenHolders) + Cardinality(Posters)

Running(i) == {w \in Workers : pc[w] = "run" /\ cur[w].id = i}

(* Tasks leave the list in the order in which they entered it, and a task   *)
(* taken out of it is run by exactly one worker: the list is always the     *)
(* most recent ids in order, and every earlier id is done or in the hands   *)
(* of a single worker (until thread_pool_destroy drops the list).           *)
FifoOnce ==
  (\A c \in Callers : pc[c] # "destroyed") =>
    /\ \A k \in 1..Len(queue) : queue[k].id = added - Len(queue) + k
    /\ \A i \in 1..(added - Len(queue)) :
         IF i \in done THEN Running(i) = {}
                       ELSE \E w \in Workers : Running(i) = {w}

(* A task linked into a pool that is never destroyed is run in the end:     *)
(* neither the race on cur_queue_size nor the one on task_mask stops it.    *)
EveryTaskRuns == \A i \in 1..MaxTasks : (added >= i) ~> (i \in done)

(* mux.c:2778: after thread_pool_destroy returns, the caller says that the  *)
(* work is finished; so every task added was run.                           *)
FinishedAtDestroy ==
  (\E c \in Callers : pc[c] = "destroyed") => done = 1..added

(* The pool as a TaskQueue: first in first out, at most once, and nothing   *)
(* abandoned while a task runs.                                             *)
Abstract == INSTANCE TaskQueue WITH
  submitted <- added,
  waiting   <- [k \in DOMAIN queue |-> queue[k].id],
  running   <- {cur[w].id : w \in {v \in Workers : pc[v] = "run"}},
  finished  <- done

(* Every step of the pool is a step of TaskQueue or changes nothing of it.  *)
ImplementsTaskQueue == Abstract!Spec
=============================================================================
