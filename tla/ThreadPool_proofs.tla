-------------------------- MODULE ThreadPool_proofs --------------------------
(* Proofs about ThreadPool for every number of workers, callers and tasks. *)
EXTENDS ThreadPool, FiniteSetTheorems, SequenceTheorems, TLAPS

\* A thread between the check of its mask bit and the enqueueing has one.
MaskedAdd ==
  \A c \in Callers : pc[c] \in {"maskLoad", "maskStore"} => cur[c].bit \in Bits

TypeInv == TypeOK /\ MaskedAdd

LEMMA TypeInvInit == Init => TypeInv
BY PoolAssumption DEF Init, TypeInv, TypeOK, MaskedAdd, Threads, Task, NoTask, WorkerPc, CallerPc

LEMMA TypeInvCaller ==
  ASSUME TypeInv, NEW c \in Callers, CallerStep(c)
  PROVE  TypeInv'
<1>1. c \in Threads /\ c \notin Workers
  BY PoolAssumption DEF Threads
<1> USE DEF TypeInv, TypeOK, MaskedAdd, Threads, WorkerPc, CallerPc, Task, NoTask, Goto, LoadMask, LoadSize
<1>2. ASSUME NEW b \in Bits \cup {NoBit}, AddTask(c, b) PROVE TypeInv'
  BY <1>1, <1>2, PoolAssumption DEF AddTask
<1>3. CASE SetMaskLoad(c)
  BY <1>1, <1>3 DEF SetMaskLoad
<1>4. CASE SetMaskStore(c)
  BY <1>1, <1>4 DEF SetMaskStore
<1>5. CASE Enqueue(c)
  <2>1. [id |-> added + 1, bit |-> cur[c].bit] \in Task
    BY <1>1
  <2>2. queue' \in Seq(Task)
    BY <1>5, <2>1, AppendProperties DEF Enqueue
  <2> QED
    BY <1>1, <1>5, <2>2 DEF Enqueue
<1>6. CASE IncSizeUnlock(c)
  BY <1>1, <1>6 DEF IncSizeUnlock
<1>7. CASE Post(c)
  BY <1>1, <1>7 DEF Post
<1>8. CASE Wait(c)
  BY <1>1, <1>8 DEF Wait
<1>9. CASE WaitEnd(c)
  BY <1>1, <1>9 DEF WaitEnd
<1>10. CASE Destroy(c)
  BY <1>1, <1>10 DEF Destroy
<1>11. CASE DestroyEnd(c)
  BY <1>1, <1>11 DEF DestroyEnd
<1> QED
  BY <1>2, <1>3, <1>4, <1>5, <1>6, <1>7, <1>8, <1>9, <1>10, <1>11 DEF CallerStep

LEMMA TypeInvWorker ==
  ASSUME TypeInv, NEW w \in Workers, WorkerStep(w)
  PROVE  TypeInv'
<1>1. w \in Threads /\ w \notin Callers
  BY PoolAssumption DEF Threads
<1> USE DEF TypeInv, TypeOK, MaskedAdd, Threads, WorkerPc, CallerPc, Goto, LoadMask, LoadSize
<1>2. CASE TryWait(w)
  BY <1>1, <1>2 DEF TryWait
<1>3. CASE SeeShutdown(w)
  BY <1>1, <1>3 DEF SeeShutdown
<1>4. CASE Lock(w)
  BY <1>1, <1>4 DEF Lock
<1>5. CASE Exit(w)
  BY <1>1, <1>5 DEF Exit, ReleaseAfterCheck
<1>6. CASE FoundNothing(w)
  BY <1>1, <1>6 DEF FoundNothing, ReleaseAfterCheck
<1>7. CASE Pop(w)
  BY <1>1, <1>7 DEF Pop, ReleaseAfterCheck
<1>8. CASE Run(w)
  BY <1>1, <1>8 DEF Run, Task
<1>9. CASE ClearMaskLoad(w)
  BY <1>1, <1>9 DEF ClearMaskLoad
<1>10. CASE ClearMaskStore(w)
  BY <1>1, <1>10 DEF ClearMaskStore
<1>11. CASE DecSizeLoad(w)
  BY <1>1, <1>11 DEF DecSizeLoad, Task, NoTask
<1>12. CASE DecSizeStore(w)
  BY <1>1, <1>12 DEF DecSizeStore
<1> QED
  BY <1>2, <1>3, <1>4, <1>5, <1>6, <1>7, <1>8, <1>9, <1>10, <1>11, <1>12 DEF WorkerStep

\* Every variable of thread_pool_t keeps its type, whatever the interleaving.
THEOREM TypeCorrect == Spec => []TypeOK
<1>1. Init => TypeInv
  BY TypeInvInit
<1>2. TypeInv /\ [Next]_vars => TypeInv'
  <2>1. CASE UNCHANGED vars
    BY <2>1 DEF vars, TypeInv, TypeOK, MaskedAdd
  <2> QED
    BY <2>1, TypeInvCaller, TypeInvWorker DEF Next
<1>3. TypeInv => TypeOK
  BY DEF TypeInv
<1> QED
  BY <1>1, <1>2, <1>3, PTL DEF Spec

-----------------------------------------------------------------------------
(* The semaphore and the list *)

\* What doflag says about the threads that depend on it.
Phase ==
  /\ \A w \in Workers : pc[w] \in {"drain", "lockedDrain", "exited"} => doflag = "SHUTDOWN"
  /\ \A c \in Callers : pc[c] = "waiting" => Temporary /\ doflag = "WAIT"
  /\ \A c \in Callers : pc[c] \in {"joining", "destroyed"} => doflag = "SHUTDOWN"

LEMMA PhaseCaller ==
  ASSUME TypeInv, Phase, NEW c \in Callers, CallerStep(c)
  PROVE  Phase'
<1>1. c \in Threads /\ c \notin Workers /\ pc \in [Threads -> WorkerPc \cup CallerPc]
  BY PoolAssumption DEF Threads, TypeInv, TypeOK
<1>2. Workers \subseteq Threads /\ Callers \subseteq Threads
  BY DEF Threads
<1>3. ASSUME NEW l, Goto(c, l), UNCHANGED doflag,
             l \notin {"waiting", "joining", "destroyed", "drain", "lockedDrain", "exited"}
      PROVE  Phase'
  BY <1>1, <1>2, <1>3 DEF Phase, Goto
<1>4. ASSUME NEW b \in Bits \cup {NoBit}, AddTask(c, b) PROVE Phase'
  BY <1>3, <1>4 DEF AddTask
<1>5. CASE SetMaskLoad(c) \/ SetMaskStore(c) \/ Enqueue(c) \/ IncSizeUnlock(c) \/ Post(c)
  BY <1>3, <1>5 DEF SetMaskLoad, SetMaskStore, Enqueue, IncSizeUnlock, Post
<1>6. CASE Wait(c)
  BY <1>1, <1>2, <1>6 DEF Wait, Phase, Goto
<1>7. CASE WaitEnd(c)
  <2>1. \A d \in Callers : d = c
    BY <1>7, PoolAssumption DEF WaitEnd, Phase
  <2> QED
    BY <1>1, <1>2, <1>7, <2>1 DEF WaitEnd, Phase, Goto
<1>8. CASE Destroy(c) \/ DestroyEnd(c)
  BY <1>1, <1>2, <1>8 DEF Destroy, DestroyEnd, Phase, Goto
<1> QED
  BY <1>4, <1>5, <1>6, <1>7, <1>8 DEF CallerStep

LEMMA PhaseWorker ==
  ASSUME TypeInv, Phase, NEW w \in Workers, WorkerStep(w)
  PROVE  Phase'
<1>1. w \in Threads /\ w \notin Callers /\ pc \in [Threads -> WorkerPc \cup CallerPc]
  BY PoolAssumption DEF Threads, TypeInv, TypeOK
<1>2. Workers \subseteq Threads /\ Callers \subseteq Threads
  BY DEF Threads
<1>3. ASSUME NEW l, Goto(w, l), UNCHANGED doflag,
             l \in {"drain", "lockedDrain", "exited"} => doflag = "SHUTDOWN"
      PROVE  Phase'
  BY <1>1, <1>2, <1>3 DEF Phase, Goto
<1>4. CASE TryWait(w) \/ SeeShutdown(w) \/ Run(w) \/ DecSizeLoad(w) \/ DecSizeStore(w)
  BY <1>3, <1>4 DEF TryWait, SeeShutdown, Run, DecSizeLoad, DecSizeStore
<1>5. CASE Lock(w)
  BY <1>3, <1>5 DEF Lock, Phase
<1>6. CASE Exit(w) \/ FoundNothing(w) \/ Pop(w)
  BY <1>3, <1>6 DEF Exit, FoundNothing, Pop
<1>7. CASE ClearMaskLoad(w) \/ ClearMaskStore(w)
  BY <1>3, <1>7 DEF ClearMaskLoad, ClearMaskStore
<1> QED
  BY <1>4, <1>5, <1>6, <1>7 DEF WorkerStep

\* A member more or less is one more or one less.
LEMMA OneMore ==
  ASSUME NEW S, IsFiniteSet(S), NEW x, x \notin S
  PROVE  Cardinality(S \cup {x}) = Cardinality(S) + 1 /\ Cardinality(S) \in Nat
BY FS_AddElement, FS_CardinalityType

LEMMA OneLess ==
  ASSUME NEW S, IsFiniteSet(S), NEW x \in S
  PROVE  Cardinality(S \ {x}) = Cardinality(S) - 1 /\ Cardinality(S) \in Nat \ {0}
BY FS_RemoveElement, FS_CardinalityType, FS_EmptySet

LEMMA FiniteHolders ==
  /\ IsFiniteSet(TokenHolders) /\ IsFiniteSet(Posters)
  /\ Cardinality(TokenHolders) \in Nat /\ Cardinality(Posters) \in Nat
BY PoolAssumption, FS_Subset, FS_CardinalityType DEF TokenHolders, Posters

LEMMA TokenBackedCaller ==
  ASSUME TypeInv, Phase, TokenBacked, NEW c \in Callers, CallerStep(c)
  PROVE  TokenBacked'
<1>1. /\ c \in Threads /\ c \notin Workers /\ Workers \subseteq Threads /\ Callers \subseteq Threads
      /\ pc \in [Threads -> WorkerPc \cup CallerPc] /\ queue \in Seq(Task) /\ sem \in Nat
  BY PoolAssumption DEF Threads, TypeInv, TypeOK
<1>2. ASSUME NEW l, Goto(c, l) PROVE TokenHolders' = TokenHolders
  BY <1>1, <1>2 DEF TokenHolders, Goto
<1>3. ASSUME NEW l, Goto(c, l),
             (l \in {"incStore", "post"}) = (pc[c] \in {"incStore", "post"})
      PROVE  Posters' = Posters
  BY <1>1, <1>3 DEF Posters, Goto
<1>4. ASSUME NEW l, Goto(c, l), UNCHANGED <<queue, sem, doflag>>,
             (l \in {"incStore", "post"}) = (pc[c] \in {"incStore", "post"})
      PROVE  TokenBacked'
  BY <1>2, <1>3, <1>4 DEF TokenBacked
<1>5. ASSUME NEW b \in Bits \cup {NoBit}, AddTask(c, b) PROVE TokenBacked'
  BY <1>4, <1>5 DEF AddTask
<1>6. CASE SetMaskLoad(c) \/ SetMaskStore(c)
  BY <1>4, <1>6 DEF SetMaskLoad, SetMaskStore
<1>7. CASE Enqueue(c)
  <2>1. TokenHolders' = TokenHolders
    BY <1>2, <1>7 DEF Enqueue
  <2>2. Posters' = Posters \cup {c} /\ c \notin Posters
    BY <1>1, <1>7 DEF Enqueue, Posters, Goto
  <2>3. Cardinality(Posters') = Cardinality(Posters) + 1
    BY <2>2, OneMore, FiniteHolders
  <2>4. [id |-> added + 1, bit |-> cur[c].bit] \in Task
    BY <1>1 DEF TypeInv, TypeOK, Task
  <2>5. Len(queue') = Len(queue) + 1
    BY <1>1, <1>7, <2>4, AppendProperties DEF Enqueue
  <2>6. sem' = sem /\ doflag' = doflag
    BY <1>7 DEF Enqueue
  <2>7. Len(queue) \in Nat
    BY <1>1, LenProperties
  <2> QED
    BY <1>1, <2>1, <2>3, <2>5, <2>6, <2>7, FiniteHolders DEF TokenBacked
<1>8. CASE IncSizeUnlock(c)
  BY <1>4, <1>8 DEF IncSizeUnlock
<1>9. CASE Post(c)
  <2>1. TokenHolders' = TokenHolders
    BY <1>2, <1>9 DEF Post
  <2>2. Posters' = Posters \ {c} /\ c \in Posters
    BY <1>1, <1>9 DEF Post, Posters, Goto
  <2>3. Cardinality(Posters') = Cardinality(Posters) - 1
    BY <2>2, OneLess, FiniteHolders
  <2>4. sem' = sem + 1 /\ doflag' = doflag /\ queue' = queue
    BY <1>9 DEF Post
  <2> QED
    BY <1>1, <2>1, <2>3, <2>4, FiniteHolders DEF TokenBacked
<1>10. CASE Wait(c) \/ WaitEnd(c)
  <2>1. doflag # "SHUTDOWN" /\ UNCHANGED <<queue, sem>>
    BY <1>10 DEF Wait, WaitEnd, Phase
  <2>2. TokenHolders' = TokenHolders /\ Posters' = Posters
    BY <1>2, <1>3, <1>10 DEF Wait, WaitEnd
  <2> QED
    BY <2>1, <2>2 DEF TokenBacked
<1>11. CASE Destroy(c) \/ DestroyEnd(c)
  BY <1>11 DEF Destroy, DestroyEnd, Phase, TokenBacked
<1> QED
  BY <1>5, <1>6, <1>7, <1>8, <1>9, <1>10, <1>11 DEF CallerStep

LEMMA TokenBackedWorker ==
  ASSUME TypeInv, Phase, TokenBacked, NEW w \in Workers, WorkerStep(w)
  PROVE  TokenBacked'
<1>1. /\ w \in Threads /\ w \notin Callers /\ Workers \subseteq Threads /\ Callers \subseteq Threads
      /\ pc \in [Threads -> WorkerPc \cup CallerPc] /\ queue \in Seq(Task) /\ sem \in Nat
  BY PoolAssumption DEF Threads, TypeInv, TypeOK
<1>2. ASSUME NEW l, Goto(w, l) PROVE Posters' = Posters
  BY <1>1, <1>2 DEF Posters, Goto
<1>3. ASSUME NEW l, Goto(w, l), UNCHANGED <<queue, sem, doflag>>,
             (l \in {"token", "lockedToken"}) = (pc[w] \in {"token", "lockedToken"})
      PROVE  TokenBacked'
  <2>1. TokenHolders' = TokenHolders
    BY <1>1, <1>3 DEF TokenHolders, Goto
  <2> QED
    BY <1>2, <1>3, <2>1 DEF TokenBacked
<1>4. CASE TryWait(w)
  <2>1. TokenHolders' = TokenHolders \cup {w} /\ w \notin TokenHolders
    BY <1>1, <1>4 DEF TryWait, TokenHolders, Goto
  <2>2. Cardinality(TokenHolders') = Cardinality(TokenHolders) + 1
    BY <2>1, OneMore, FiniteHolders
  <2>3. sem' = sem - 1 /\ doflag' = doflag /\ queue' = queue /\ Posters' = Posters
    BY <1>2, <1>4 DEF TryWait
  <2> QED
    BY <1>1, <2>2, <2>3, FiniteHolders DEF TokenBacked
<1>5. CASE SeeShutdown(w)
  BY <1>5 DEF SeeShutdown, TokenBacked
<1>6. CASE Lock(w)
  BY <1>3, <1>6 DEF Lock
<1>7. CASE Exit(w)
  BY <1>7 DEF Exit, TokenBacked
<1>8. ASSUME Locked(w), doflag # "SHUTDOWN"
      PROVE  pc[w] = "lockedToken" /\ w \in TokenHolders
  BY <1>8 DEF Locked, Phase, TokenHolders
<1>9. CASE FoundNothing(w)
  <2>1. ASSUME doflag # "SHUTDOWN" PROVE FALSE
    <3>1. Cardinality(TokenHolders) \in Nat \ {0}
      BY <1>8, <1>9, <2>1, OneLess, FiniteHolders DEF FoundNothing
    <3>2. Len(queue) = 0
      BY <1>9 DEF FoundNothing
    <3> QED
      BY <1>1, <2>1, <3>1, <3>2, FiniteHolders DEF TokenBacked
  <2> QED
    BY <1>9, <2>1 DEF FoundNothing, TokenBacked
<1>10. CASE Pop(w)
  <2>1. SUFFICES ASSUME doflag # "SHUTDOWN" PROVE TokenBacked'
    BY <1>10 DEF Pop, TokenBacked
  <2>2. TokenHolders' = TokenHolders \ {w} /\ w \in TokenHolders
    BY <1>1, <1>8, <1>10, <2>1 DEF Pop, TokenHolders, Goto
  <2>3. Cardinality(TokenHolders') = Cardinality(TokenHolders) - 1
    BY <2>2, OneLess, FiniteHolders
  <2>4. Len(queue') = Len(queue) - 1
    BY <1>1, <1>10, HeadTailProperties DEF Pop
  <2>5. sem' = sem /\ doflag' = doflag /\ Posters' = Posters
    BY <1>2, <1>10 DEF Pop
  <2> QED
    BY <1>1, <2>3, <2>4, <2>5, FiniteHolders DEF TokenBacked
<1>11. CASE Run(w) \/ DecSizeLoad(w) \/ DecSizeStore(w)
  BY <1>3, <1>11 DEF Run, DecSizeLoad, DecSizeStore
<1>12. CASE ClearMaskLoad(w) \/ ClearMaskStore(w)
  BY <1>3, <1>12 DEF ClearMaskLoad, ClearMaskStore
<1> QED
  BY <1>4, <1>5, <1>6, <1>7, <1>9, <1>10, <1>11, <1>12 DEF WorkerStep

\* Until the shutdown the list holds one task for each unit of the semaphore,
\* taken, posted or still to be posted, for every number of workers and callers.
THEOREM SemaphoreMatchesList == Spec => []TokenBacked
<1> DEFINE IInv == TypeInv /\ Phase /\ TokenBacked
<1>1. Init => IInv
  <2> SUFFICES ASSUME Init PROVE IInv
    OBVIOUS
  <2>1. Phase /\ TokenHolders = {} /\ Posters = {}
    BY PoolAssumption DEF Init, Phase, TokenHolders, Posters, Threads
  <2>2. TokenBacked
    BY <2>1, FS_EmptySet DEF Init, TokenBacked
  <2> QED
    BY <2>1, <2>2, TypeInvInit
<1>2. IInv /\ [Next]_vars => IInv'
  <2> SUFFICES ASSUME IInv, [Next]_vars PROVE IInv'
    OBVIOUS
  <2>1. CASE UNCHANGED vars
    BY <2>1 DEF vars, TypeInv, TypeOK, MaskedAdd, Phase, TokenBacked, TokenHolders, Posters
  <2> QED
    BY <2>1, TypeInvCaller, TypeInvWorker, PhaseCaller, PhaseWorker,
       TokenBackedCaller, TokenBackedWorker DEF Next
<1>3. IInv => TokenBacked
  OBVIOUS
<1> QED
  BY <1>1, <1>2, <1>3, PTL DEF Spec

-----------------------------------------------------------------------------
(* The order of the tasks *)

Kept == \A c \in Callers : pc[c] # "destroyed"

\* The list holds the most recent tasks in order.
InOrder ==
  Kept => /\ Len(queue) <= added
          /\ \A k \in 1..Len(queue) : queue[k].id = added - Len(queue) + k

\* Every task taken out of the list was run or is being run.
Accounted ==
  Kept => \A i \in 1..(added - Len(queue)) :
            i \in done \/ \E w \in Workers : pc[w] = "run" /\ cur[w].id = i

\* A task that is being run is run by one worker, for the first time, and came
\* out of the list; after thread_pool_destroy nobody runs anything.
RunOnce ==
  /\ \A w \in Workers : pc[w] = "run" =>
       /\ Kept
       /\ cur[w].id \in 1..(added - Len(queue)) /\ cur[w].id \notin done
  /\ \A v, w \in Workers : pc[v] = "run" /\ pc[w] = "run" /\ cur[v].id = cur[w].id => v = w
  /\ Kept => done \subseteq 1..(added - Len(queue))
  /\ ~Kept => \A w \in Workers : pc[w] = "exited"

OnceInv == InOrder /\ Accounted /\ RunOnce

LEMMA OnceInit == Init => OnceInv
BY PoolAssumption DEF Init, OnceInv, InOrder, Accounted, RunOnce, Kept, Threads

\* A step that runs, adds and removes nothing.
LEMMA OnceStill ==
  ASSUME TypeInv, OnceInv, NEW t \in Threads, NEW l, Goto(t, l),
         l \notin {"run", "destroyed"}, pc[t] \notin {"run", "destroyed", "exited"},
         UNCHANGED <<queue, added, done>>,
         \A w \in Workers : w # t => cur'[w] = cur[w]
  PROVE  OnceInv'
<1>1. \A v \in Threads : pc'[v] = IF v = t THEN l ELSE pc[v]
  BY DEF Goto, TypeInv, TypeOK
<1>2. Kept' <=> Kept
  BY <1>1 DEF Kept, Threads
<1>3. \A w \in Workers : pc'[w] = "run" <=> (pc[w] = "run" /\ w # t)
  BY <1>1 DEF Threads
<1>4. \A w \in Workers : pc[w] = "run" => w # t
  OBVIOUS
<1>5. ~Kept => \A w \in Workers : pc'[w] = "exited"
  BY <1>1 DEF OnceInv, RunOnce, Threads
<1> QED
  BY <1>2, <1>3, <1>4, <1>5 DEF OnceInv, InOrder, Accounted, RunOnce

LEMMA OnceCaller ==
  ASSUME TypeInv, OnceInv, NEW c \in Callers, CallerStep(c)
  PROVE  OnceInv'
<1>1. c \in Threads /\ c \notin Workers
  BY PoolAssumption DEF Threads
<1>2. ASSUME NEW l, Goto(c, l), l \notin {"run", "destroyed"},
             pc[c] \notin {"run", "destroyed", "exited"}, UNCHANGED <<queue, added, done>>,
             UNCHANGED cur \/ \E v : cur' = [cur EXCEPT ![c] = v]
      PROVE  OnceInv'
  BY <1>1, <1>2, OnceStill DEF TypeInv, TypeOK, Threads
<1>3. ASSUME NEW b \in Bits \cup {NoBit}, AddTask(c, b) PROVE OnceInv'
  BY <1>2, <1>3 DEF AddTask
<1>4. CASE SetMaskLoad(c) \/ SetMaskStore(c)
  BY <1>2, <1>4 DEF SetMaskLoad, SetMaskStore
<1>5. CASE IncSizeUnlock(c) \/ Post(c)
  BY <1>2, <1>5 DEF IncSizeUnlock, Post
<1>6. CASE Wait(c) \/ WaitEnd(c) \/ Destroy(c)
  BY <1>2, <1>6 DEF Wait, WaitEnd, Destroy
<1>7. CASE Enqueue(c)
  <2> DEFINE m == [id |-> added + 1, bit |-> cur[c].bit]
  <2>1. m \in Task /\ m.id = added + 1 /\ added \in Nat /\ queue \in Seq(Task)
    BY <1>1 DEF TypeInv, TypeOK, Task
  <2>2. queue' = Append(queue, m) /\ added' = added + 1 /\ done' = done /\ cur' = cur
    BY <1>7 DEF Enqueue
  <2> HIDE DEF m
  <2>3. /\ Len(queue) \in Nat /\ Len(queue') = Len(queue) + 1
        /\ queue'[Len(queue) + 1] = m
        /\ \A k \in 1..Len(queue) : queue'[k] = queue[k]
    BY <2>1, <2>2, AppendProperties, LenProperties
  <2>4. \A v \in Threads : pc'[v] = IF v = c THEN "incStore" ELSE pc[v]
    BY <1>7 DEF Enqueue, Goto, TypeInv, TypeOK
  <2>5. (Kept' <=> Kept) /\ \A w \in Workers : pc'[w] = pc[w]
    BY <1>1, <1>7, <2>4 DEF Kept, Threads, Enqueue
  <2>6. added' - Len(queue') = added - Len(queue)
    BY <2>1, <2>2, <2>3
  <2>7. InOrder'
    <3> SUFFICES ASSUME Kept PROVE Len(queue') <= added'
                   /\ \A k \in 1..Len(queue') : queue'[k].id = added' - Len(queue') + k
      BY <2>5 DEF InOrder
    <3>1. Len(queue) <= added /\ \A k \in 1..Len(queue) : queue[k].id = added - Len(queue) + k
      BY DEF OnceInv, InOrder
    <3>2. \A k \in 1..Len(queue') : k \in 1..Len(queue) \/ k = Len(queue) + 1
      BY <2>3
    <3>3. queue'[Len(queue) + 1].id = added' - Len(queue') + (Len(queue) + 1)
      BY <2>1, <2>2, <2>3
    <3>4. ASSUME NEW k \in 1..Len(queue') PROVE queue'[k].id = added' - Len(queue') + k
      <4>1. CASE k \in 1..Len(queue)
        BY <2>3, <2>6, <3>1, <4>1
      <4>2. CASE k = Len(queue) + 1
        BY <3>3, <4>2
      <4> QED
        BY <3>2, <4>1, <4>2
    <3> QED
      BY <2>1, <2>2, <2>3, <3>1, <3>4
  <2>8. Accounted' /\ RunOnce'
    BY <2>2, <2>5, <2>6 DEF OnceInv, Accounted, RunOnce
  <2> QED
    BY <2>7, <2>8 DEF OnceInv
<1>8. CASE DestroyEnd(c)
  <2>1. \A v \in Threads : pc'[v] = IF v = c THEN "destroyed" ELSE pc[v]
    BY <1>8 DEF DestroyEnd, Goto, TypeInv, TypeOK
  <2>2. ~Kept' /\ \A w \in Workers : pc'[w] = "exited"
    BY <1>1, <1>8, <2>1 DEF Kept, Threads, DestroyEnd
  <2> QED
    BY <2>2 DEF OnceInv, InOrder, Accounted, RunOnce
<1> QED
  BY <1>3, <1>4, <1>5, <1>6, <1>7, <1>8 DEF CallerStep

LEMMA OnceWorker ==
  ASSUME TypeInv, OnceInv, NEW w \in Workers, WorkerStep(w)
  PROVE  OnceInv'
<1>1. w \in Threads /\ w \notin Callers
  BY PoolAssumption DEF Threads
<1>2. ASSUME NEW l, Goto(w, l), l \notin {"run", "destroyed"},
             pc[w] \notin {"run", "destroyed", "exited"}, UNCHANGED <<queue, added, done>>,
             UNCHANGED cur \/ \E v : cur' = [cur EXCEPT ![w] = v]
      PROVE  OnceInv'
  BY <1>1, <1>2, OnceStill DEF TypeInv, TypeOK, Threads
<1>3. CASE TryWait(w) \/ SeeShutdown(w)
  BY <1>2, <1>3 DEF TryWait, SeeShutdown
<1>4. CASE Lock(w)
  BY <1>2, <1>4 DEF Lock
<1>5. CASE Exit(w) \/ FoundNothing(w)
  BY <1>2, <1>5 DEF Exit, FoundNothing, Locked
<1>6. CASE ClearMaskLoad(w) \/ ClearMaskStore(w)
  BY <1>2, <1>6 DEF ClearMaskLoad, ClearMaskStore
<1>7. CASE DecSizeLoad(w) \/ DecSizeStore(w)
  BY <1>2, <1>7 DEF DecSizeLoad, DecSizeStore
<1>8. CASE Pop(w)
  <2>1. /\ queue \in Seq(Task) /\ queue # <<>> /\ added \in Nat /\ queue' = Tail(queue)
        /\ added' = added /\ done' = done /\ cur' = [cur EXCEPT ![w] = Head(queue)]
        /\ pc[w] \notin {"run", "exited"}
    BY <1>8 DEF Pop, Locked, TypeInv, TypeOK
  <2>2. /\ Len(queue) \in Nat \ {0} /\ Len(queue') = Len(queue) - 1 /\ Head(queue) = queue[1]
        /\ \A k \in 1..Len(queue') : queue'[k] = queue[k + 1]
    BY <2>1, HeadTailProperties, EmptySeq, LenProperties
  <2>3. \A v \in Threads : pc'[v] = IF v = w THEN "run" ELSE pc[v]
    BY <1>8 DEF Pop, Goto, TypeInv, TypeOK
  <2>4. /\ Kept /\ Kept'
        /\ \A v \in Workers : pc'[v] = IF v = w THEN "run" ELSE pc[v]
    BY <1>1, <2>1, <2>3 DEF Kept, Threads, OnceInv, RunOnce
  <2>5. Len(queue) <= added /\ \A k \in 1..Len(queue) : queue[k].id = added - Len(queue) + k
    BY <2>4 DEF OnceInv, InOrder
  <2>6. \A v \in Workers : cur'[v] = IF v = w THEN queue[1] ELSE cur[v]
    BY <2>1, <2>2 DEF TypeInv, TypeOK, Threads
  <2>7. queue[1].id = added - Len(queue) + 1 /\ added' - Len(queue') = added - Len(queue) + 1
    BY <2>1, <2>2, <2>5
  <2> DEFINE n == added - Len(queue)
  <2>8. n \in Nat /\ added' - Len(queue') = n + 1 /\ queue[1].id = n + 1
    BY <2>1, <2>2, <2>5, <2>7
  <2>9. InOrder'
    <3>1. \A k \in 1..Len(queue') : k + 1 \in 1..Len(queue)
      BY <2>2
    <3>2. \A k \in 1..Len(queue') : queue'[k].id = added' - Len(queue') + k
      BY <2>1, <2>2, <2>5, <2>7, <3>1
    <3> QED
      BY <2>1, <2>2, <2>5, <3>2 DEF InOrder
  <2>10. /\ \A i \in 1..n : i \in done \/ \E v \in Workers : pc[v] = "run" /\ cur[v].id = i
         /\ \A v \in Workers : pc[v] = "run" => cur[v].id \in 1..n /\ cur[v].id \notin done
         /\ \A u, v \in Workers : pc[u] = "run" /\ pc[v] = "run" /\ cur[u].id = cur[v].id => u = v
         /\ done \subseteq 1..n
    BY <2>4 DEF OnceInv, Accounted, RunOnce
  <2> HIDE DEF n
  <2>11. Accounted'
    <3> SUFFICES ASSUME NEW i \in 1..(n + 1)
                 PROVE  i \in done' \/ \E v \in Workers : pc'[v] = "run" /\ cur'[v].id = i
      BY <2>8 DEF Accounted
    <3>1. CASE i = n + 1
      BY <2>4, <2>6, <2>8, <3>1
    <3>2. CASE i \in 1..n
      BY <2>1, <2>4, <2>6, <2>10, <3>2
    <3> QED
      BY <2>8, <3>1, <3>2
  <2>12. RunOnce'
    <3>1. \A v \in Workers : pc'[v] = "run" => cur'[v].id \in 1..(n + 1) /\ cur'[v].id \notin done'
      BY <2>1, <2>4, <2>6, <2>8, <2>10
    <3>2. \A u, v \in Workers :
            pc'[u] = "run" /\ pc'[v] = "run" /\ cur'[u].id = cur'[v].id => u = v
      BY <2>4, <2>6, <2>8, <2>10
    <3>3. done' \subseteq 1..(n + 1)
      BY <2>1, <2>8, <2>10
    <3> QED
      BY <2>4, <2>8, <3>1, <3>2, <3>3 DEF RunOnce
  <2> QED
    BY <2>9, <2>11, <2>12 DEF OnceInv
<1>9. CASE Run(w)
  <2>1. pc[w] = "run" /\ done' = done \cup {cur[w].id} /\ UNCHANGED <<queue, added, cur>>
    BY <1>9 DEF Run
  <2>2. \E l \in {"decLoad", "clearLoad"} : Goto(w, l)
    BY <1>9 DEF Run
  <2>3. \A v \in Threads : pc'[v] # pc[v] => v = w
    BY <2>2 DEF Goto, TypeInv, TypeOK
  <2>4. pc'[w] \notin {"run", "destroyed"}
    BY <1>1, <2>2 DEF Goto, TypeInv, TypeOK
  <2>5. /\ Kept /\ Kept'
        /\ \A v \in Workers : pc'[v] = "run" <=> (pc[v] = "run" /\ v # w)
    BY <1>1, <2>1, <2>3, <2>4 DEF Kept, Threads, OnceInv, RunOnce
  <2> QED
    BY <2>1, <2>5 DEF OnceInv, InOrder, Accounted, RunOnce
<1> QED
  BY <1>3, <1>4, <1>5, <1>6, <1>7, <1>8, <1>9 DEF WorkerStep

LEMMA OnceNext == TypeInv /\ OnceInv /\ [Next]_vars => OnceInv'
<1>1. CASE UNCHANGED vars
  BY <1>1 DEF vars, OnceInv, InOrder, Accounted, RunOnce, Kept
<1> QED
  BY <1>1, OnceCaller, OnceWorker DEF Next

LEMMA TypeInvNext == TypeInv /\ [Next]_vars => TypeInv'
<1>1. CASE UNCHANGED vars
  BY <1>1 DEF vars, TypeInv, TypeOK, MaskedAdd
<1> QED
  BY <1>1, TypeInvCaller, TypeInvWorker DEF Next

\* Tasks leave the list in the order in which they entered it, and each is run
\* by one worker, once.
THEOREM TasksRunInOrderOnce == Spec => []FifoOnce
<1>1. OnceInv => FifoOnce
  BY DEF OnceInv, InOrder, Accounted, RunOnce, FifoOnce, Running, Kept
<1> QED
  BY <1>1, OnceInit, OnceNext, TypeInvInit, TypeInvNext, PTL DEF Spec

-----------------------------------------------------------------------------
(* The pool is a TaskQueue *)

Ids(s) == [k \in DOMAIN s |-> s[k].id]
RunningIds == {cur[w].id : w \in {v \in Workers : pc[v] = "run"}}

LEMMA IdsSeq ==
  ASSUME NEW s \in Seq(Task)
  PROVE  /\ Ids(s) \in Seq(Nat) /\ Len(Ids(s)) = Len(s)
         /\ \A k \in 1..Len(s) : Ids(s)[k] = s[k].id
<1>1. DOMAIN s = 1..Len(s) /\ Len(s) \in Nat /\ \A k \in 1..Len(s) : s[k].id \in Nat
  <2>1. \A k \in 1..Len(s) : s[k] \in Task
    BY ElementOfSeq
  <2>2. \A m \in Task : m.id \in Nat
    BY DEF Task
  <2> QED
    BY <2>1, <2>2, LenProperties
<1>2. Ids(s) \in [1..Len(s) -> Nat]
  BY <1>1 DEF Ids
<1> QED
  BY <1>1, <1>2 DEF Ids

LEMMA IdsAppend ==
  ASSUME NEW s \in Seq(Task), NEW m \in Task
  PROVE  Ids(Append(s, m)) = Append(Ids(s), m.id)
<1>1. /\ Append(s, m) \in Seq(Task) /\ Len(Append(s, m)) = Len(s) + 1 /\ m.id \in Nat
      /\ Append(s, m)[Len(s) + 1] = m
      /\ \A k \in 1..Len(s) : Append(s, m)[k] = s[k]
  BY AppendProperties DEF Task
<1>2. /\ Ids(s) \in Seq(Nat) /\ Len(Ids(s)) = Len(s) /\ Len(s) \in Nat
      /\ \A k \in 1..Len(s) : Ids(s)[k] = s[k].id
  BY IdsSeq, LenProperties
<1>3. /\ Ids(Append(s, m)) \in Seq(Nat) /\ Len(Ids(Append(s, m))) = Len(s) + 1
      /\ \A k \in 1..(Len(s) + 1) : Ids(Append(s, m))[k] = Append(s, m)[k].id
  BY <1>1, IdsSeq
<1>4. /\ Append(Ids(s), m.id) \in Seq(Nat) /\ Len(Append(Ids(s), m.id)) = Len(s) + 1
      /\ Append(Ids(s), m.id)[Len(s) + 1] = m.id
      /\ \A k \in 1..Len(s) : Append(Ids(s), m.id)[k] = Ids(s)[k]
  BY <1>1, <1>2, AppendProperties
<1>5. ASSUME NEW k \in 1..(Len(s) + 1) PROVE Ids(Append(s, m))[k] = Append(Ids(s), m.id)[k]
  <2>1. CASE k \in 1..Len(s)
    BY <1>1, <1>2, <1>3, <1>4, <2>1
  <2>2. CASE k = Len(s) + 1
    BY <1>1, <1>3, <1>4, <2>2
  <2> QED
    BY <1>2, <2>1, <2>2
<1> QED
  BY <1>3, <1>4, <1>5, SeqEqual

LEMMA IdsTail ==
  ASSUME NEW s \in Seq(Task), s # <<>>
  PROVE  /\ Ids(s) # <<>> /\ Head(Ids(s)) = Head(s).id
         /\ Ids(Tail(s)) = Tail(Ids(s))
<1>1. /\ Tail(s) \in Seq(Task) /\ Len(s) \in Nat \ {0} /\ Len(Tail(s)) = Len(s) - 1
      /\ \A k \in 1..Len(Tail(s)) : Tail(s)[k] = s[k + 1]
  BY HeadTailProperties, EmptySeq
<1>2. /\ Ids(s) \in Seq(Nat) /\ Len(Ids(s)) = Len(s)
      /\ \A k \in 1..Len(s) : Ids(s)[k] = s[k].id
  BY IdsSeq
<1>3. Ids(s) # <<>>
  BY <1>1, <1>2, EmptySeq
<1>4. Head(Ids(s)) = Head(s).id
  BY <1>1, <1>2, <1>3
<1>5. /\ Ids(Tail(s)) \in Seq(Nat) /\ Len(Ids(Tail(s))) = Len(s) - 1
      /\ \A k \in 1..(Len(s) - 1) : Ids(Tail(s))[k] = Tail(s)[k].id
  BY <1>1, IdsSeq
<1>6. /\ Tail(Ids(s)) \in Seq(Nat) /\ Len(Tail(Ids(s))) = Len(s) - 1
      /\ \A k \in 1..(Len(s) - 1) : Tail(Ids(s))[k] = Ids(s)[k + 1]
  BY <1>2, <1>3, HeadTailProperties
<1>7. ASSUME NEW k \in 1..(Len(s) - 1) PROVE Ids(Tail(s))[k] = Tail(Ids(s))[k]
  <2>1. k + 1 \in 1..Len(s)
    BY <1>1
  <2> QED
    BY <1>1, <1>2, <1>5, <1>6, <2>1
<1> QED
  BY <1>3, <1>4, <1>5, <1>6, <1>7, SeqEqual

\* A step of a thread that does not run a task before or after it leaves the
\* set of running tasks as it is.
LEMMA RunningStill ==
  ASSUME TypeInv, NEW t \in Threads, NEW l, Goto(t, l), l # "run", pc[t] # "run",
         \A w \in Workers : w # t => cur'[w] = cur[w]
  PROVE  RunningIds' = RunningIds
<1>1. \A v \in Threads : pc'[v] = IF v = t THEN l ELSE pc[v]
  BY DEF Goto, TypeInv, TypeOK
<1>2. \A w \in Workers : (pc'[w] = "run" <=> pc[w] = "run") /\ (pc[w] = "run" => cur'[w] = cur[w])
  BY <1>1 DEF Threads
<1> QED
  BY <1>2 DEF RunningIds

AbstractVars == <<added, Ids(queue), RunningIds, done>>

LEMMA CallerImplements ==
  ASSUME TypeInv, OnceInv, NEW c \in Callers, CallerStep(c)
  PROVE  [Abstract!Next]_AbstractVars
<1>1. c \in Threads /\ c \notin Workers
  BY PoolAssumption DEF Threads
<1>2. ASSUME NEW l, Goto(c, l), UNCHANGED <<queue, added, done>>, l # "run",
             UNCHANGED cur \/ \E v : cur' = [cur EXCEPT ![c] = v]
      PROVE  UNCHANGED AbstractVars
  <2>1. \A w \in Workers : w # c => cur'[w] = cur[w]
    BY <1>2 DEF TypeInv, TypeOK, Threads
  <2>2. pc[c] # "run"
    BY DEF TypeInv, TypeOK, CallerPc
  <2>3. RunningIds' = RunningIds
    BY <1>1, <1>2, <2>1, <2>2, RunningStill
  <2> QED
    BY <1>2, <2>3 DEF AbstractVars
<1>3. ASSUME NEW b \in Bits \cup {NoBit}, AddTask(c, b) PROVE UNCHANGED AbstractVars
  BY <1>2, <1>3 DEF AddTask
<1>4. CASE SetMaskLoad(c) \/ SetMaskStore(c)
  BY <1>2, <1>4 DEF SetMaskLoad, SetMaskStore
<1>5. CASE IncSizeUnlock(c) \/ Post(c)
  BY <1>2, <1>5 DEF IncSizeUnlock, Post
<1>6. CASE Wait(c) \/ WaitEnd(c) \/ Destroy(c)
  BY <1>2, <1>6 DEF Wait, WaitEnd, Destroy
<1>7. CASE Enqueue(c)
  <2> DEFINE m == [id |-> added + 1, bit |-> cur[c].bit]
  <2>1. m \in Task /\ m.id = added + 1 /\ queue \in Seq(Task)
    BY <1>1 DEF TypeInv, TypeOK, Task
  <2>2. queue' = Append(queue, m) /\ added' = added + 1 /\ done' = done
    BY <1>7 DEF Enqueue
  <2> HIDE DEF m
  <2>3. Ids(queue') = Append(Ids(queue), added + 1)
    BY <2>1, <2>2, IdsAppend
  <2>4. RunningIds' = RunningIds
    <3>1. Goto(c, "incStore") /\ cur' = cur /\ pc[c] # "run"
      BY <1>7 DEF Enqueue
    <3> QED
      BY <1>1, <3>1, RunningStill
  <2>5. Abstract!Submit
    BY <2>2, <2>3, <2>4 DEF Abstract!Submit, Ids, RunningIds
  <2> QED
    BY <2>5 DEF Abstract!Next
<1>8. CASE DestroyEnd(c)
  <2>1. queue' = <<>> /\ added' = added /\ done' = done /\ \A w \in Workers : pc[w] # "run"
    BY <1>8 DEF DestroyEnd
  <2>2. RunningIds = {}
    BY <2>1 DEF RunningIds
  <2>3. RunningIds' = RunningIds
    <3>1. Goto(c, "destroyed") /\ cur' = cur /\ pc[c] # "run"
      BY <1>8 DEF DestroyEnd
    <3> QED
      BY <1>1, <3>1, RunningStill
  <2>4. Ids(queue') = <<>>
    <3>1. <<>> \in Seq(Task) /\ Len(<<>>) = 0
      BY EmptySeq
    <3> QED
      BY <2>1, <3>1, IdsSeq, EmptySeq
  <2>5. Abstract!Abandon
    BY <2>1, <2>2, <2>3, <2>4 DEF Abstract!Abandon, Ids, RunningIds
  <2> QED
    BY <2>5 DEF Abstract!Next
<1> QED
  BY <1>3, <1>4, <1>5, <1>6, <1>7, <1>8 DEF CallerStep

LEMMA WorkerImplements ==
  ASSUME TypeInv, OnceInv, NEW w \in Workers, WorkerStep(w)
  PROVE  [Abstract!Next]_AbstractVars
<1>1. w \in Threads
  BY DEF Threads
<1>2. ASSUME NEW l, Goto(w, l), UNCHANGED <<queue, added, done>>, l # "run", pc[w] # "run",
             UNCHANGED cur \/ \E v : cur' = [cur EXCEPT ![w] = v]
      PROVE  UNCHANGED AbstractVars
  <2>1. \A v \in Workers : v # w => cur'[v] = cur[v]
    BY <1>2 DEF TypeInv, TypeOK, Threads
  <2>3. RunningIds' = RunningIds
    BY <1>1, <1>2, <2>1, RunningStill
  <2> QED
    BY <1>2, <2>3 DEF AbstractVars
<1>3. CASE TryWait(w) \/ SeeShutdown(w)
  BY <1>2, <1>3 DEF TryWait, SeeShutdown
<1>4. CASE Lock(w)
  BY <1>2, <1>4 DEF Lock
<1>5. CASE Exit(w) \/ FoundNothing(w)
  BY <1>2, <1>5 DEF Exit, FoundNothing, Locked
<1>6. CASE ClearMaskLoad(w) \/ ClearMaskStore(w)
  BY <1>2, <1>6 DEF ClearMaskLoad, ClearMaskStore
<1>7. CASE DecSizeLoad(w) \/ DecSizeStore(w)
  BY <1>2, <1>7 DEF DecSizeLoad, DecSizeStore
<1>t. \A l : Goto(w, l) => \A v \in Workers : pc'[v] = IF v = w THEN l ELSE pc[v]
  BY DEF Goto, TypeInv, TypeOK, Threads
<1>8. CASE Pop(w)
  <2>1. /\ queue \in Seq(Task) /\ queue # <<>> /\ queue' = Tail(queue) /\ added' = added
        /\ done' = done /\ pc[w] # "run"
    BY <1>8 DEF Pop, Locked, TypeInv, TypeOK
  <2>2. /\ \A v \in Workers : cur'[v] = IF v = w THEN Head(queue) ELSE cur[v]
        /\ \A v \in Workers : pc'[v] = "run" <=> (v = w \/ pc[v] = "run")
    BY <1>8, <1>t DEF Pop, TypeInv, TypeOK, Threads
  <2>3. RunningIds' = RunningIds \cup {Head(queue).id}
    BY <2>1, <2>2 DEF RunningIds
  <2>4. Ids(queue) # <<>> /\ Head(Ids(queue)) = Head(queue).id /\ Ids(queue') = Tail(Ids(queue))
    BY <2>1, IdsTail
  <2>5. Abstract!Start
    BY <2>1, <2>3, <2>4 DEF Abstract!Start, Ids, RunningIds
  <2> QED
    BY <2>5 DEF Abstract!Next
<1>9. CASE Run(w)
  <2>1. pc[w] = "run" /\ done' = done \cup {cur[w].id} /\ UNCHANGED <<queue, added, cur>>
    BY <1>9 DEF Run
  <2>2. \E l \in {"decLoad", "clearLoad"} : Goto(w, l)
    BY <1>9 DEF Run
  <2>3. \A v \in Workers : pc'[v] = "run" <=> (pc[v] = "run" /\ v # w)
    BY <1>t, <2>2
  <2>4. \A v \in Workers : pc[v] = "run" /\ cur[v].id = cur[w].id => v = w
    BY <2>1 DEF OnceInv, RunOnce
  <2>5. cur[w].id \in RunningIds /\ RunningIds' = RunningIds \ {cur[w].id}
    BY <2>1, <2>3, <2>4 DEF RunningIds
  <2>6. PICK i : i = cur[w].id
    OBVIOUS
  <2>7. Abstract!Finish(i)
    BY <2>1, <2>5, <2>6 DEF Abstract!Finish, Ids, RunningIds
  <2>8. \E j \in RunningIds : Abstract!Finish(j)
    BY <2>5, <2>6, <2>7
  <2>9. Abstract!Next
    BY <2>8 DEF Abstract!Next, RunningIds
  <2> QED
    BY <2>9
<1> QED
  BY <1>3, <1>4, <1>5, <1>6, <1>7, <1>8, <1>9 DEF WorkerStep

\* The pool implements TaskQueue: first in first out, at most once, nothing
\* abandoned while a task runs, for every number of workers, callers and tasks.
THEOREM PoolIsTaskQueue == Spec => ImplementsTaskQueue
<1>1. Init => Abstract!Init
  <2> SUFFICES ASSUME Init PROVE Abstract!Init
    OBVIOUS
  <2>1. \A w \in Workers : pc[w] # "run"
    BY DEF Init, Threads
  <2>2. RunningIds = {}
    BY <2>1 DEF RunningIds
  <2>3. Ids(queue) = <<>>
    BY IdsSeq, EmptySeq DEF Init
  <2> QED
    BY <2>2, <2>3 DEF Init, Abstract!Init, Ids, RunningIds
<1>2. TypeInv /\ OnceInv /\ [Next]_vars => [Abstract!Next]_AbstractVars
  <2>1. CASE UNCHANGED vars
    BY <2>1 DEF vars, AbstractVars, Ids, RunningIds
  <2> QED
    BY <2>1, CallerImplements, WorkerImplements DEF Next
<1> QED
  BY <1>1, <1>2, OnceInit, OnceNext, TypeInvInit, TypeInvNext, PTL
  DEF Spec, ImplementsTaskQueue, Abstract!Spec, Abstract!vars, AbstractVars, Ids, RunningIds
=============================================================================
