------------------------------ MODULE TaskQueue ------------------------------
(***************************************************************************)
(* What the callers of utils/thread_pool.c rely on: a queue of numbered    *)
(* tasks that are started in the order of their submission, each at most   *)
(* once, and that all finish unless the pool is abandoned, which happens   *)
(* only when nothing is running.                                           *)
(***************************************************************************)
EXTENDS Integers, Sequences

VARIABLES
  submitted,  \* number of tasks submitted; the last one has this id
  waiting,    \* ids submitted and not started, oldest first
  running,    \* ids being executed
  finished    \* ids executed

vars == <<submitted, waiting, running, finished>>

Init == submitted = 0 /\ waiting = <<>> /\ running = {} /\ finished = {}

Submit ==
  /\ submitted' = submitted + 1
  /\ waiting' = Append(waiting, submitted + 1)
  /\ UNCHANGED <<running, finished>>

Start ==
  /\ waiting # <<>>
  /\ waiting' = Tail(waiting)
  /\ running' = running \cup {Head(waiting)}
  /\ UNCHANGED <<submitted, finished>>

Finish(i) ==
  /\ i \in running
  /\ running' = running \ {i}
  /\ finished' = finished \cup {i}
  /\ UNCHANGED <<submitted, waiting>>

Abandon ==
  /\ running = {}
  /\ waiting' = <<>>
  /\ UNCHANGED <<submitted, running, finished>>

Next ==
  \/ Submit
  \/ Start
  \/ \E i \in running : Finish(i)
  \/ Abandon

Spec == Init /\ [][Next]_vars
=============================================================================
