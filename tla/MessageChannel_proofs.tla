------------------------ MODULE MessageChannel_proofs -------------------------
(* Theorems about the message channel, for every number of clients, handlers, *)
(* requests and deaths.                                                       *)
EXTENDS MessageChannel, FiniteSetTheorems, SequenceTheorems, FunctionTheorems, TLAPS

-----------------------------------------------------------------------------
(* Types *)

LEMMA TypeInit == Init => TypeOK
<1> SUFFICES ASSUME Init PROVE TypeOK
  OBVIOUS
<1>1. pool \in Seq(Message)
  BY DEF Init
<1> QED
  BY <1>1, ChannelAssumption DEF Init, TypeOK, Threads, Readers, Writers

\* What msgdata may point to.
Notes == [id : Id \cup {None.id}, kind : {"transfer", "post"}]

LEMMA TypeNote ==
  ASSUME TypeOK, NEW p \in Processes, NoText(p)
  PROVE  note' \in [Processes -> Notes]
<1>1. note \in [Processes -> Notes]
  BY DEF TypeOK, Notes
<1>2. note' = [note EXCEPT ![p] = [note[p] EXCEPT !.id = None.id]]
  BY DEF NoText
<1>3. [note[p] EXCEPT !.id = None.id] \in Notes
  BY <1>1 DEF Notes
<1> QED
  BY <1>1, <1>2, <1>3

\* A message that is sent or given up.
LEMMA TypeFreed ==
  ASSUME TypeOK, NEW w \in Writers,
         (w \in Clients /\ NoText(Process[w])) \/ Freed(w)
  PROVE  note' \in [Processes -> Notes]
<1>1. CASE w \in Clients /\ NoText(Process[w])
  <2>1. Process[w] \in Processes
    BY <1>1 DEF Processes
  <2> QED
    BY <1>1, <2>1, TypeNote
<1>2. CASE UNCHANGED note
  BY <1>2 DEF TypeOK, Notes
<1> QED
  BY <1>1, <1>2 DEF Freed

\* What is written into the box is a message.
LEMMA TypeText ==
  ASSUME TypeOK, NEW w \in Writers
  PROVE  Text(w) \in Message \cup {None}
<1>1. CASE w \in Handlers
  BY <1>1 DEF Text, TypeOK
<1>2. CASE w \notin Handlers
  <2>1. w \in Clients /\ Process[w] \in Processes
    BY <1>2 DEF Writers, Processes
  <2> DEFINE p == Process[w]
  <2>2. note[p] \in Notes /\ life[p] \in 0..MaxDeaths
    BY <2>1 DEF TypeOK, Notes
  <2>3. note[p].id \in Id \cup {None.id} /\ note[p].kind \in {"transfer", "post"}
        /\ note[p] = [id |-> note[p].id, kind |-> note[p].kind]
    BY <2>2 DEF Notes
  <2>4. [c |-> w, life |-> life[p], n |-> 0] \in Id
    BY <2>1, <2>2, ChannelAssumption DEF Id
  <2>5. CASE note[p].id = None.id
    BY <1>2, <2>3, <2>4, <2>5 DEF Text, Message
  <2>6. CASE note[p].id # None.id
    <3>1. note[p] \in Message
      BY <2>3, <2>6 DEF Message
    <3> QED
      BY <1>2, <2>6, <3>1 DEF Text
  <2> QED
    BY <2>5, <2>6
<1> QED
  BY <1>1, <1>2

\* A message that a reader has copied goes to the pool, or the call returns.
LEMMA TypeLeave ==
  ASSUME TypeOK, NEW r \in Readers, Leave(r)
  PROVE  /\ pc' \in [Threads -> {"idle", "token", "take", "wtest", "wset", "store", "wunlock",
                                 "wake", "stamp", "rload", "rstore", "look", "uload", "ustore"}]
         /\ out' \in [Writers -> Message \cup {None}]
         /\ in' \in [Readers -> Message \cup {None}]
         /\ pool' \in Seq(Message)
<1>1. pool' \in Seq(Message)
  <2>1. CASE r = Listener /\ in[r] # None
    <3>1. in[r] \in Message
      BY <2>1 DEF TypeOK
    <3> QED
      BY <2>1, <3>1, AppendProperties DEF Leave, TypeOK
  <2>2. CASE ~(r = Listener /\ in[r] # None)
    BY <2>2 DEF Leave, TypeOK
  <2> QED
    BY <2>1, <2>2
<1> QED
  BY <1>1 DEF Leave, TypeOK, Goto, Threads

LEMMA TypeRead ==
  ASSUME TypeOK, NEW r \in Readers, Read(r)
  PROVE  TypeOK'
<1> USE DEF Goto, Threads, Signal, lockVars, boxVars, gateVars, callVars, serverVars
<1>1. CASE Wake(r)
  BY <1>1 DEF TypeOK, Wake
<1>8. CASE Remember(r)
  BY <1>8 DEF TypeOK, Remember
<1>2. CASE ReceiveTimeout(r)
  BY <1>2 DEF TypeOK, ReceiveTimeout
<1>3. CASE ReadLoad(r)
  BY <1>3 DEF TypeOK, ReadLoad
<1>4. CASE ReadStore(r)
  BY <1>4 DEF TypeOK, ReadStore
<1>5. CASE Look(r)
  <2>1. note' \in [Processes -> Notes]
    <3>1. CASE r \in Clients /\ NoText(Process[r])
      <4>1. Process[r] \in Processes
        BY <3>1 DEF Processes
      <4> QED
        BY <3>1, <4>1, TypeNote
    <3>2. CASE UNCHANGED note
      BY <3>2 DEF TypeOK, Notes
    <3> QED
      BY <1>5, <3>1, <3>2 DEF Look, Take
  <2>2. in' \in [Readers -> Message \cup {None}]
    BY <1>5 DEF TypeOK, Look, Take
  <2> QED
    BY <1>5, <2>1, <2>2 DEF TypeOK, Look, Take, Notes
<1>6. CASE ReadUnlockLoad(r)
  <2>1. CASE rwCount > 0
    BY <1>6, <2>1 DEF TypeOK, ReadUnlockLoad
  <2>2. CASE ~(rwCount > 0)
    BY <1>6, <2>2, TypeLeave DEF TypeOK, ReadUnlockLoad
  <2> QED
    BY <2>1, <2>2
<1>7. CASE ReadUnlockStore(r)
  BY <1>7, TypeLeave DEF TypeOK, ReadUnlockStore
<1> QED
  BY <1>1, <1>2, <1>3, <1>4, <1>5, <1>6, <1>7, <1>8 DEF Read

LEMMA TypeWrite ==
  ASSUME TypeOK, NEW w \in Writers, Write(w)
  PROVE  TypeOK'
<1> USE DEF Goto, Threads, Writers, Readers, Signal, lockVars, boxVars, gateVars, callVars, serverVars
<1>1. CASE TokenSeen(w)
  BY <1>1 DEF TypeOK, TokenSeen
<1>2. CASE TokenTake(w)
  BY <1>2 DEF TypeOK, TokenTake
<1>3. CASE TokenTimeout(w)
  <2>1. note' \in [Processes -> Notes]
    BY <1>3, TypeFreed DEF TokenTimeout
  <2> QED
    BY <1>3, <2>1 DEF TypeOK, TokenTimeout, Notes
<1>4. CASE WriteTest(w)
  BY <1>4 DEF TypeOK, WriteTest
<1>5. CASE WriteSet(w)
  BY <1>5 DEF TypeOK, WriteSet
<1>6. CASE Store(w)
  <2>1. Text(w) \in Message \cup {None}
    BY TypeText DEF Writers
  <2> QED
    BY <1>6, <2>1 DEF TypeOK, Store
<1>7. CASE WriteUnlock(w)
  <2>1. note' \in [Processes -> Notes]
    BY <1>7, TypeFreed DEF WriteUnlock
  <2>2. out' \in [Writers -> Message \cup {None}]
    BY <1>7 DEF TypeOK, WriteUnlock
  <2> QED
    BY <1>7, <2>1, <2>2 DEF TypeOK, WriteUnlock, Notes
<1> QED
  BY <1>1, <1>2, <1>3, <1>4, <1>5, <1>6, <1>7 DEF Write

LEMMA TypeCall ==
  ASSUME TypeOK, NEW c \in Clients, NEW k \in Kinds, Call(c, k)
  PROVE  TypeOK'
<1> DEFINE m == [id |-> [c |-> c, life |-> life[Process[c]], n |-> asked + 1], kind |-> k]
<1>1. Process[c] \in Processes /\ c \in Writers /\ c \in Threads
  BY DEF Processes, Writers, Threads, Readers
<1>2. m.id \in Id /\ asked + 1 \in 0..MaxCalls
  BY <1>1, ChannelAssumption DEF TypeOK, Call, Id
<1>3. m \in Message /\ m \in Notes
  BY <1>2, ChannelAssumption DEF Message, Notes
<1>4. /\ out' = [out EXCEPT ![c] = m] /\ note' = [note EXCEPT ![Process[c]] = out'[c]]
      /\ asked' = asked + 1 /\ pc' = [pc EXCEPT ![c] = "token"]
      /\ UNCHANGED <<lockVars, boxVars, gateVars, life, gaveUp, serverVars, reg, in>>
  BY DEF Call, Goto
<1> HIDE DEF m
<1>5. out' \in [Writers -> Message \cup {None}] /\ out'[c] = m
  BY <1>1, <1>3, <1>4 DEF TypeOK
<1>6. note' \in [Processes -> Notes]
  BY <1>3, <1>4, <1>5 DEF TypeOK, Notes
<1> QED
  BY <1>2, <1>4, <1>5, <1>6 DEF TypeOK, Notes, lockVars, boxVars, gateVars, serverVars

\* What the death of a process leaves of its threads.
Died(p) == {c \in Clients : Process[c] = p}

LEMMA TypeDie ==
  ASSUME TypeOK, NEW p \in Processes, Die(p)
  PROVE  TypeOK'
<1>1. life' \in [Processes -> 0..MaxDeaths]
  BY ChannelAssumption DEF TypeOK, Die
<1>2. pc' \in [Threads -> {"idle", "token", "take", "wtest", "wset", "store", "wunlock",
                          "wake", "stamp", "rload", "rstore", "look", "uload", "ustore"}]
  BY DEF TypeOK, Die
<1>3. fresh' \in [Processes \cup {Listener} -> BOOLEAN]
  BY DEF TypeOK, Die
<1>6. reg' \in [Threads -> Int]
  <2>1. reg \in [Threads -> Int] /\ 0 \in Int
        /\ reg' = [t \in Threads |-> IF t \in Died(p) THEN 0 ELSE reg[t]]
    BY DEF TypeOK, Die, Died
  <2> QED
    BY <2>1, Zenon
<1>4. out' \in [Writers -> Message \cup {None}]
  BY DEF TypeOK, Die
<1>5. in' \in [Readers -> Message \cup {None}]
  BY DEF TypeOK, Die
<1>7. note' \in [Processes -> Notes]
  <2>1. [id |-> None.id, kind |-> "post"] \in Notes
    BY DEF Notes
  <2> QED
    BY <2>1 DEF TypeOK, Die, Notes
<1> QED
  BY <1>1, <1>2, <1>3, <1>4, <1>5, <1>6, <1>7 DEF TypeOK, Die, gateVars, serverVars, Notes

LEMMA TypeServe ==
  ASSUME TypeOK, NEW h \in Handlers, Serve(h)
  PROVE  TypeOK'
<1>1. Head(pool) \in Message /\ pool' \in Seq(Message)
  BY HeadTailProperties DEF TypeOK, Serve
<1>2. [Head(pool) EXCEPT !.kind = "reply"] \in Message /\ Head(pool).id \in Id
  BY <1>1 DEF Message
<1>3. served' \in [Id -> Nat]
  BY <1>2 DEF TypeOK, Serve
<1> QED
  BY <1>1, <1>2, <1>3
  DEF TypeOK, Serve, Goto, Threads, Writers, lockVars, boxVars, gateVars, callVars

\* Every variable keeps its type.
THEOREM TypeCorrect == Spec => []TypeOK
<1>1. TypeOK /\ [Next]_vars => TypeOK'
  <2> SUFFICES ASSUME TypeOK, [Next]_vars PROVE TypeOK'
    OBVIOUS
  <2>1. ASSUME NEW c \in Clients, ClientStep(c) PROVE TypeOK'
    BY <2>1, TypeRead, TypeWrite DEF ClientStep, Readers, Writers
  <2>2. CASE ListenerStep
    BY <2>2, TypeRead DEF ListenerStep, Readers
  <2>3. ASSUME NEW h \in Handlers, HandlerStep(h) PROVE TypeOK'
    BY <2>3, TypeServe, TypeWrite DEF HandlerStep, Writers
  <2>4. CASE UNCHANGED vars
    BY <2>4 DEF vars, TypeOK, lockVars, boxVars, gateVars, callVars, serverVars
  <2> QED
    BY <2>1, <2>2, <2>3, <2>4, TypeCall, TypeDie DEF Next
<1> QED
  BY <1>1, TypeInit, PTL DEF Spec

-----------------------------------------------------------------------------
(* The lock *)

RPc == {"look", "uload", "ustore"}
WPc == {"store", "wunlock"}

\* A thread that goes on inside or outside of the lock.
LEMMA Within ==
  ASSUME TypeOK, NEW t \in Threads, NEW l, Goto(t, l),
         pc[t] \in RPc <=> l \in RPc, pc[t] \in WPc <=> l \in WPc
  PROVE  Reading' = Reading /\ Writing' = Writing
BY DEF TypeOK, Goto, Reading, Writing, RPc, WPc, Threads, Readers, Writers

LEMMA ReadingFinite == IsFiniteSet(Reading) /\ Cardinality(Reading) \in Nat
<1>1. IsFiniteSet(Readers)
  BY ChannelAssumption, FS_AddElement, FS_Singleton, FS_Union DEF Readers
<1> QED
  BY <1>1, FS_Subset, FS_CardinalityType DEF Reading

LEMMA WritersFinite == IsFiniteSet(Writers)
  BY ChannelAssumption, FS_Union DEF Writers

LEMMA LockInit == Init => LockExact
<1> SUFFICES ASSUME Init PROVE LockExact
  OBVIOUS
<1>1. Reading = {} /\ Writing = {}
  BY DEF Init, Reading, Writing, Readers, Writers, Threads
<1> QED
  BY <1>1, FS_EmptySet DEF Init, LockExact

\* A step that leaves rw_count alone and crosses no lock.
LEMMA LockKept ==
  ASSUME LockExact, Reading' = Reading, Writing' = Writing,
         UNCHANGED rwCount, torn => torn'
  PROVE  LockExact'
BY DEF LockExact

LEMMA LockRead ==
  ASSUME TypeOK, LockExact, NEW r \in Readers, Read(r)
  PROVE  LockExact'
<1>t. r \in Threads
  BY DEF Threads
<1> USE DEF lockVars
<1>1. CASE Wake(r) \/ Remember(r)
  BY <1>t, <1>1, Within, LockKept DEF Wake, Remember, RPc, WPc
<1>2. CASE ReceiveTimeout(r)
  BY <1>t, <1>2, Within, LockKept DEF ReceiveTimeout, RPc, WPc
<1>3. CASE ReadLoad(r)
  BY <1>t, <1>3, Within, LockKept DEF ReadLoad, RPc, WPc
<1>4. CASE ReadStore(r)
  <2> SUFFICES ASSUME ~torn' PROVE LockExact'
    BY DEF LockExact
  <2>1. ~torn /\ rwCount = reg[r] /\ ~(reg[r] < 0) /\ rwCount' = reg[r] + 1
    BY <1>4 DEF ReadStore
  <2>2. Writing = {} /\ rwCount = Cardinality(Reading)
    BY <2>1 DEF LockExact
  <2>3. r \notin Reading /\ Reading' = Reading \cup {r}
    BY <1>t, <1>4 DEF ReadStore, Goto, TypeOK, Reading, Readers, Threads
  <2>4. Writing' = {}
    BY <1>t, <1>4, <2>2 DEF ReadStore, Goto, TypeOK, Writing, Readers, Writers, Threads
  <2>5. Cardinality(Reading') = Cardinality(Reading) + 1
    BY <2>3, ReadingFinite, FS_AddElement
  <2> QED
    BY <2>1, <2>2, <2>4, <2>5 DEF LockExact
<1>5. CASE Look(r)
  BY <1>t, <1>5, Within, LockKept DEF Look, RPc, WPc
<1>6. ASSUME ~torn, r \in Reading PROVE Writing = {} /\ rwCount = Cardinality(Reading) /\ rwCount > 0
  <2>1. Writing = {} /\ rwCount = Cardinality(Reading)
    BY <1>6 DEF LockExact
  <2>2. Cardinality(Reading) # 0
    BY <1>6, ReadingFinite, FS_EmptySet
  <2> QED
    BY <2>1, <2>2, ReadingFinite
<1>7. CASE ReadUnlockLoad(r)
  <2>1. r \in Reading
    BY <1>7 DEF ReadUnlockLoad, Reading
  <2>2. CASE torn
    BY <1>7, <2>2 DEF ReadUnlockLoad, LockExact
  <2>3. CASE ~torn
    <3>1. Goto(r, "ustore")
      BY <1>7, <1>6, <2>1, <2>3 DEF ReadUnlockLoad
    <3> QED
      BY <1>t, <1>7, <3>1, Within, LockKept DEF ReadUnlockLoad, RPc, WPc
  <2> QED
    BY <2>2, <2>3
<1>8. CASE ReadUnlockStore(r)
  <2> SUFFICES ASSUME ~torn' PROVE LockExact'
    BY DEF LockExact
  <2>1. ~torn /\ rwCount = reg[r] /\ rwCount' = reg[r] - 1 /\ r \in Reading
    BY <1>8 DEF ReadUnlockStore, Reading
  <2>2. Writing = {} /\ rwCount = Cardinality(Reading)
    BY <1>6, <2>1
  <2>3. Reading' = Reading \ {r}
    BY <1>t, <1>8 DEF ReadUnlockStore, Leave, Goto, TypeOK, Reading, Readers, Threads
  <2>4. Writing' = {}
    BY <1>t, <1>8, <2>2 DEF ReadUnlockStore, Leave, Goto, TypeOK, Writing, Readers, Writers, Threads
  <2>5. Cardinality(Reading') = Cardinality(Reading) - 1
    BY <2>1, <2>3, ReadingFinite, FS_RemoveElement
  <2> QED
    BY <2>1, <2>2, <2>4, <2>5 DEF LockExact
<1> QED
  BY <1>1, <1>2, <1>3, <1>4, <1>5, <1>7, <1>8 DEF Read

LEMMA LockWrite ==
  ASSUME TypeOK, LockExact, NEW w \in Writers, Write(w)
  PROVE  LockExact'
<1>t. w \in Threads
  BY DEF Threads, Writers, Readers
<1> USE DEF lockVars
<1>1. CASE TokenSeen(w) \/ TokenTake(w) \/ TokenTimeout(w)
  BY <1>t, <1>1, Within, LockKept DEF TokenSeen, TokenTake, TokenTimeout, RPc, WPc
<1>2. CASE WriteTest(w) \/ Store(w)
  BY <1>t, <1>2, Within, LockKept DEF WriteTest, Store, RPc, WPc
<1>3. CASE WriteSet(w)
  <2> SUFFICES ASSUME ~torn' PROVE LockExact'
    BY DEF LockExact
  <2>1. ~torn /\ rwCount = 0 /\ rwCount' = -1
    BY <1>3 DEF WriteSet
  <2>2. Writing = {} /\ Cardinality(Reading) = 0
    BY <2>1 DEF LockExact
  <2>3. Reading = {}
    BY <2>2, ReadingFinite, FS_EmptySet
  <2>4. Writing' = {w}
    BY <1>t, <1>3, <2>2 DEF WriteSet, Goto, TypeOK, Writing, Readers, Writers, Threads
  <2>5. Reading' = {}
    BY <1>t, <1>3, <2>3 DEF WriteSet, Goto, TypeOK, Reading, Readers, Writers, Threads
  <2> QED
    BY <2>1, <2>4, <2>5, FS_Singleton DEF LockExact
<1>4. CASE WriteUnlock(w)
  <2> SUFFICES ASSUME ~torn PROVE LockExact'
    BY <1>4 DEF LockExact, WriteUnlock
  <2>1. w \in Writing
    BY <1>4 DEF WriteUnlock, Writing
  <2>2. Cardinality(Writing) = 1 /\ Reading = {} /\ rwCount = -1
    BY <2>1 DEF LockExact
  <2>3. PICK v : Writing = {v}
    BY <2>1, <2>2, FS_Singleton, FS_Subset, ChannelAssumption, WritersFinite DEF Writing
  <2>4. Writing' = {} /\ Reading' = {}
    BY <1>t, <1>4, <2>1, <2>2, <2>3 DEF WriteUnlock, Goto, TypeOK, Reading, Writing, Readers, Writers, Threads
  <2> QED
    BY <1>4, <2>2, <2>4, FS_EmptySet DEF WriteUnlock, LockExact
<1> QED
  BY <1>1, <1>2, <1>3, <1>4 DEF Write

LEMMA LockDie ==
  ASSUME TypeOK, LockExact, NEW p \in Processes, Die(p)
  PROVE  LockExact'
<1>1. CASE Died(p) \cap (Reading \cup Writing) # {}
  BY <1>1 DEF Die, Died, LockExact
<1>2. CASE Died(p) \cap (Reading \cup Writing) = {}
  <2>1. pc' = [t \in Threads |-> IF t \in Died(p) THEN "idle" ELSE pc[t]]
        /\ UNCHANGED rwCount /\ (torn => torn')
    BY DEF Die, Died
  <2>2. Reading' = Reading /\ Writing' = Writing
    BY <1>2, <2>1 DEF Reading, Writing, Threads, Readers, Writers
  <2> QED
    BY <2>1, <2>2, LockKept
<1> QED
  BY <1>1, <1>2

LEMMA LockOther ==
  ASSUME TypeOK, LockExact,
         \/ \E c \in Clients, k \in Kinds : Call(c, k)
         \/ \E h \in Handlers : Serve(h)
  PROVE  LockExact'
<1> USE DEF lockVars
<1>1. ASSUME NEW c \in Clients, NEW k \in Kinds, Call(c, k) PROVE LockExact'
  <2>1. c \in Threads
    BY DEF Threads, Readers
  <2> QED
    BY <1>1, <2>1, Within, LockKept DEF Call, RPc, WPc
<1>2. ASSUME NEW h \in Handlers, Serve(h) PROVE LockExact'
  <2>1. h \in Threads
    BY DEF Threads
  <2>2. CASE Goto(h, "token")
    BY <1>2, <2>1, <2>2, Within, LockKept DEF Serve, RPc, WPc
  <2>3. CASE UNCHANGED pc
    BY <1>2, <2>3, LockKept DEF Serve, Reading, Writing
  <2> QED
    BY <1>2, <2>2, <2>3 DEF Serve
<1> QED
  BY <1>1, <1>2

\* The lock of shmem_rw_lock excludes writers from each other and from readers
\* for any number of threads, until an update of rw_count is lost.
THEOREM LockIsExact == Spec => []LockExact
<1>1. TypeOK /\ LockExact /\ [Next]_vars => LockExact'
  <2> SUFFICES ASSUME TypeOK, LockExact, [Next]_vars PROVE LockExact'
    OBVIOUS
  <2>1. ASSUME NEW c \in Clients, ClientStep(c) PROVE LockExact'
    BY <2>1, LockRead, LockWrite DEF ClientStep, Readers, Writers
  <2>2. CASE ListenerStep
    BY <2>2, LockRead DEF ListenerStep, Readers
  <2>3. ASSUME NEW h \in Handlers, HandlerStep(h) PROVE LockExact'
    BY <2>3, LockOther, LockWrite DEF HandlerStep, Writers
  <2>4. CASE UNCHANGED vars
    BY <2>4, LockKept DEF vars, lockVars, Reading, Writing
  <2> QED
    BY <2>1, <2>2, <2>3, <2>4, LockOther, LockDie DEF Next
<1> QED
  BY <1>1, LockInit, TypeCorrect, PTL DEF Spec

-----------------------------------------------------------------------------
(* The semaphore *)

\* w took the semaphore and has not written its message.
Past(w) == pc[w] \in {"wtest", "wset", "store"}

\* Until the semaphore is set out of turn there is one right to write: it is
\* in the semaphore, with one writer, or the message has not been read.
OneRight ==
  ~forced =>
    /\ \A w \in Writers : Past(w) =>
         semaphore = 0 /\ ~unread /\ \A v \in Writers : Past(v) => v = w
    /\ semaphore = 1 => ~unread
    /\ ~lost

LEMMA RightInit == Init => OneRight
  BY DEF Init, OneRight, Past, Writers, Readers, Threads

\* A step that neither takes the right nor gives it back.
LEMMA RightKept ==
  ASSUME TypeOK, OneRight, NEW t \in Threads, NEW l, Goto(t, l) \/ UNCHANGED pc,
         l \notin {"wtest", "wset", "store"} \/ Past(t),
         UNCHANGED <<semaphore, unread, lost>>, forced => forced'
  PROVE  OneRight'
BY DEF TypeOK, OneRight, Past, Goto, Threads, Readers, Writers

\* A semaphore that is set in turn.
LEMMA RightGiven ==
  ASSUME TypeOK, OneRight, NEW t \in Threads, NEW l, Goto(t, l),
         l \notin {"wtest", "wset", "store"},
         forced' = (forced \/ semaphore = 1 \/ Sending # {} \/ unread'),
         semaphore' = 1, UNCHANGED lost
  PROVE  OneRight'
<1> SUFFICES ASSUME ~forced' PROVE OneRight'
  BY DEF OneRight
<1>1. \A w \in Writers : ~Past(w)
  BY DEF Sending, Past
<1>2. \A w \in Writers : ~Past(w)'
  BY <1>1 DEF TypeOK, Past, Goto, Threads, Readers, Writers
<1> QED
  BY <1>2 DEF OneRight

LEMMA RightRead ==
  ASSUME TypeOK, OneRight, NEW r \in Readers, Read(r)
  PROVE  OneRight'
<1>t. r \in Threads
  BY DEF Threads
<1> USE DEF gateVars, boxVars
<1>1. CASE Wake(r) \/ Remember(r) \/ ReadLoad(r) \/ ReadStore(r)
  BY <1>t, <1>1, RightKept DEF Wake, Remember, ReadLoad, ReadStore
<1>2. CASE ReceiveTimeout(r)
  BY <1>t, <1>2, RightGiven DEF ReceiveTimeout, Signal
<1>3. CASE Look(r)
  <2>1. CASE ForMe(r)
    BY <1>t, <1>3, <2>1, RightGiven DEF Look, Take
  <2>2. CASE ~ForMe(r)
    BY <1>t, <1>3, <2>2, RightKept DEF Look
  <2> QED
    BY <2>1, <2>2
<1>4. CASE ReadUnlockLoad(r) \/ ReadUnlockStore(r)
  <2>1. \E l \in {"ustore", "wake", "idle"} : Goto(r, l)
    BY <1>4 DEF ReadUnlockLoad, ReadUnlockStore, Leave
  <2> QED
    BY <1>t, <1>4, <2>1, RightKept DEF ReadUnlockLoad, ReadUnlockStore
<1> QED
  BY <1>1, <1>2, <1>3, <1>4 DEF Read

LEMMA RightWrite ==
  ASSUME TypeOK, OneRight, NEW w \in Writers, Write(w)
  PROVE  OneRight'
<1>t. w \in Threads
  BY DEF Threads, Writers, Readers
<1> USE DEF gateVars, boxVars
<1>1. CASE TokenSeen(w) \/ WriteUnlock(w)
  <2>1. \E l \in {"take", "wake", "idle"} : Goto(w, l)
    BY <1>1 DEF TokenSeen, WriteUnlock
  <2> QED
    BY <1>t, <1>1, <2>1, RightKept DEF TokenSeen, WriteUnlock
<1>2. CASE TokenTake(w)
  <2> SUFFICES ASSUME ~forced' PROVE OneRight'
    BY DEF OneRight
  <2>1. semaphore = 1 /\ ~forced /\ semaphore' = 0 /\ UNCHANGED <<unread, lost>>
    BY <1>2 DEF TokenTake, TypeOK
  <2>2. ~unread /\ ~lost /\ \A v \in Writers : ~Past(v)
    BY <2>1 DEF OneRight
  <2>3. \A v \in Writers : Past(v)' => v = w
    BY <1>t, <1>2, <2>2 DEF TokenTake, Goto, TypeOK, Past, Writers, Threads
  <2> QED
    BY <2>1, <2>2, <2>3 DEF OneRight
<1>3. CASE TokenTimeout(w)
  BY <1>t, <1>3, RightGiven DEF TokenTimeout, Signal
<1>4. CASE WriteTest(w) \/ WriteSet(w)
  BY <1>t, <1>4, RightKept DEF WriteTest, WriteSet, Past
<1>5. CASE Store(w)
  <2> SUFFICES ASSUME ~forced PROVE OneRight'
    BY <1>5 DEF Store, OneRight
  <2>1. semaphore = 0 /\ ~unread /\ ~lost /\ \A v \in Writers : Past(v) => v = w
    BY <1>5 DEF Store, OneRight, Past
  <2>2. \A v \in Writers : ~Past(v)'
    BY <1>t, <1>5, <2>1 DEF Store, Goto, TypeOK, Past, Writers, Threads
  <2>3. semaphore' = 0 /\ ~lost'
    BY <1>5, <2>1 DEF Store
  <2> QED
    BY <2>2, <2>3 DEF OneRight
<1> QED
  BY <1>1, <1>2, <1>3, <1>4, <1>5 DEF Write

LEMMA RightOther ==
  ASSUME TypeOK, OneRight,
         \/ \E c \in Clients, k \in Kinds : Call(c, k)
         \/ \E h \in Handlers : Serve(h)
  PROVE  OneRight'
<1>1. \E t \in Threads : Goto(t, "token") \/ UNCHANGED pc
  BY DEF Call, Serve, Threads, Readers
<1>2. UNCHANGED <<semaphore, unread, lost>> /\ forced' = forced
  BY DEF Call, Serve, gateVars, boxVars
<1> QED
  BY <1>1, <1>2, RightKept

LEMMA RightDie ==
  ASSUME TypeOK, OneRight, NEW p \in Processes, Die(p)
  PROVE  OneRight'
<1>1. UNCHANGED <<semaphore, unread, lost, forced>>
  BY DEF Die, gateVars
<1>2. \A w \in Writers : Past(w)' => Past(w)
  BY DEF Die, Past, Writers, Threads, Readers
<1> QED
  BY <1>1, <1>2 DEF OneRight

\* A message is lost only after the semaphore was set out of turn, whatever
\* happened to the lock.
THEOREM UnreadMessageIsKept == Spec => []UnreadIsKept
<1>1. TypeOK /\ OneRight /\ [Next]_vars => OneRight'
  <2> SUFFICES ASSUME TypeOK, OneRight, [Next]_vars PROVE OneRight'
    OBVIOUS
  <2>1. ASSUME NEW c \in Clients, ClientStep(c) PROVE OneRight'
    BY <2>1, RightRead, RightWrite DEF ClientStep, Readers, Writers
  <2>2. CASE ListenerStep
    BY <2>2, RightRead DEF ListenerStep, Readers
  <2>3. ASSUME NEW h \in Handlers, HandlerStep(h) PROVE OneRight'
    BY <2>3, RightOther, RightWrite DEF HandlerStep, Writers
  <2>4. CASE UNCHANGED vars
    BY <2>4 DEF vars, gateVars, boxVars, OneRight, Past
  <2> QED
    BY <2>1, <2>2, <2>3, <2>4, RightOther, RightDie DEF Next
<1>2. OneRight => UnreadIsKept
  BY DEF OneRight, UnreadIsKept
<1> QED
  BY <1>1, <1>2, RightInit, TypeCorrect, PTL DEF Spec

-----------------------------------------------------------------------------
(* Who reads what *)

\* ref_to is that of the message, and nobody before the first one.
Addressed == box.data = None \/ box.to = Address(box.data)

LEMMA LookOwn ==
  ASSUME TypeOK, Addressed, ProcessReply, NEW r \in Readers, Look(r)
  PROVE  ProcessReply'
<1>0. UNCHANGED life
  BY DEF Look
<1> SUFFICES ASSUME NEW c \in Clients, in'[c] # None
             PROVE  /\ in'[c].kind = "reply" /\ Process[in'[c].id.c] = Process[c]
                    /\ in'[c].id.life = life[Process[c]]
  BY <1>0 DEF ProcessReply
<1>1. CASE c # r \/ ~ForMe(r)
  BY <1>1 DEF Look, Take, ProcessReply, TypeOK, boxVars, Readers
<1>2. CASE c = r /\ ForMe(r)
  <2>1. in'[c] = box.data /\ box.data \in Message
    BY <1>2 DEF Look, Take, TypeOK
  <2>2. box.to = Address(box.data) /\ c # Listener /\ Process[c] \in Processes
    BY <2>1, ChannelAssumption DEF Addressed, Processes
  <2>3. box.data.id.c \in Clients /\ Process[box.data.id.c] \in Processes
    BY <2>1 DEF Message, Id, Processes
  <2>4. box.to = <<Process[c], life[Process[c]]>>
    BY <1>2, <2>2, <2>3, ChannelAssumption DEF ForMe, Own, Holder, Address
  <2> QED
    BY <2>1, <2>2, <2>4, ChannelAssumption DEF Address
<1> QED
  BY <1>1, <1>2

LEMMA OwnNext ==
  ASSUME TypeOK, Addressed, ProcessReply, [Next]_vars
  PROVE  Addressed' /\ ProcessReply'
<1> USE DEF lockVars, boxVars, gateVars, callVars, serverVars
<1>1. ASSUME NEW w \in Writers, Write(w) PROVE Addressed' /\ ProcessReply'
  <2>1. CASE Store(w)
    BY <2>1 DEF Store, Addressed, ProcessReply, Address
  <2>2. CASE ~Store(w)
    <3>1. UNCHANGED <<box, in, life>>
      BY <1>1, <2>2 DEF Write, TokenSeen, TokenTake, TokenTimeout, WriteTest, WriteSet, WriteUnlock
    <3> QED
      BY <3>1 DEF Addressed, ProcessReply, Address
  <2> QED
    BY <2>1, <2>2
<1>2. ASSUME NEW r \in Readers, Read(r) PROVE Addressed' /\ ProcessReply'
  <2>1. CASE Look(r)
    <3>1. UNCHANGED box
      BY <2>1 DEF Look, Take
    <3> QED
      BY <2>1, <3>1, LookOwn DEF Addressed, Address
  <2>2. CASE ~Look(r)
    <3>1. UNCHANGED <<box, life>> /\ (UNCHANGED in \/ in' = [in EXCEPT ![r] = None])
      BY <1>2, <2>2 DEF Read, Wake, Remember, ReceiveTimeout, ReadLoad, ReadStore, ReadUnlockLoad, ReadUnlockStore, Leave
    <3> QED
      BY <3>1 DEF TypeOK, Readers, Addressed, ProcessReply, Address
  <2> QED
    BY <2>1, <2>2
<1>3. ASSUME NEW p \in Processes, Die(p) PROVE Addressed' /\ ProcessReply'
  <2>1. UNCHANGED box /\ life' = [life EXCEPT ![p] = @ + 1]
        /\ in' = [r \in Readers |-> IF r \in Died(p) THEN None ELSE in[r]]
    BY <1>3 DEF Die, Died
  <2>2. ASSUME NEW c \in Clients, in'[c] # None
        PROVE  in'[c] = in[c] /\ life'[Process[c]] = life[Process[c]]
    BY <2>1, <2>2 DEF Died, Readers, TypeOK
  <2> QED
    BY <2>1, <2>2 DEF Addressed, ProcessReply, Address
<1>4. ASSUME \/ \E c \in Clients, k \in Kinds : Call(c, k)
             \/ \E h \in Handlers : Serve(h)
             \/ UNCHANGED vars
      PROVE Addressed' /\ ProcessReply'
  <2>1. UNCHANGED <<box, in, life>>
    BY <1>4 DEF Call, Serve, vars
  <2> QED
    BY <2>1 DEF Addressed, ProcessReply, Address
<1> QED
  BY <1>1, <1>2, <1>3, <1>4 DEF Next, ClientStep, ListenerStep, HandlerStep, Readers, Writers

\* A call never returns the answer to another process, nor to an earlier life
\* of its own process, nor a request, whatever happened to the lock.
THEOREM AnswersAreOwn == Spec => []ProcessReply
<1>1. Init => Addressed /\ ProcessReply
  BY DEF Init, Addressed, ProcessReply, Readers
<1> QED
  BY <1>1, OwnNext, TypeCorrect, PTL DEF Spec

-----------------------------------------------------------------------------
(* How often a request is carried out *)

\* Where and how often request i is in a list of tasks.
Places(s, i) == {k \in 1..Len(s) : s[k].id = i}
Count(s, i) == Cardinality(Places(s, i))

LEMMA CountType ==
  ASSUME NEW s \in Seq(Message), NEW i
  PROVE  IsFiniteSet(Places(s, i)) /\ Count(s, i) \in Nat
<1>1. IsFiniteSet(1..Len(s)) /\ Places(s, i) \subseteq 1..Len(s)
  BY FS_Interval DEF Places
<1> QED
  BY <1>1, FS_Subset, FS_CardinalityType DEF Count

LEMMA CountAppend ==
  ASSUME NEW s \in Seq(Message), NEW m \in Message, NEW i
  PROVE  Count(Append(s, m), i) = Count(s, i) + (IF m.id = i THEN 1 ELSE 0)
<1>1. Len(s) \in Nat /\ Len(Append(s, m)) = Len(s) + 1
  BY AppendProperties
<1>2. /\ Append(s, m)[Len(s) + 1] = m
      /\ \A k \in 1..Len(s) : Append(s, m)[k] = s[k]
  BY AppendProperties
<1>3. CASE m.id = i
  <2>1. Places(Append(s, m), i) = Places(s, i) \cup {Len(s) + 1}
    BY <1>1, <1>2, <1>3 DEF Places
  <2>2. Len(s) + 1 \notin Places(s, i)
    BY <1>1 DEF Places
  <2> QED
    BY <1>3, <2>1, <2>2, CountType, FS_AddElement DEF Count
<1>4. CASE m.id # i
  <2>1. Places(Append(s, m), i) = Places(s, i)
    BY <1>1, <1>2, <1>4 DEF Places
  <2> QED
    BY <1>4, <2>1, CountType DEF Count
<1> QED
  BY <1>3, <1>4

\* A finite set of numbers shifted by one has as many members.
LEMMA Shifted ==
  ASSUME NEW S, NEW T, IsFiniteSet(T), T \subseteq Int, S \subseteq Int,
         \A k \in T : k + 1 \in S,
         \A k \in S : k - 1 \in T
  PROVE  Cardinality(S) = Cardinality(T)
<1> DEFINE f == [k \in T |-> k + 1]
<1>1. f \in [T -> S]
  OBVIOUS
<1>2. \A a, b \in T : f[a] = f[b] => a = b
  OBVIOUS
<1>3. \A k \in S : \E j \in T : f[j] = k
  <2>1. \A k \in S : f[k - 1] = k
    OBVIOUS
  <2> QED
    BY <2>1, Zenon
<1> HIDE DEF f
<1>4. f \in Bijection(T, S)
  BY <1>1, <1>2, <1>3, Fun_IsBij, Zenon
<1>5. ExistsBijection(T, S)
  BY <1>4, Zenon DEF ExistsBijection
<1> QED
  BY <1>5, FS_Bijection, Zenon

LEMMA CountTail ==
  ASSUME NEW s \in Seq(Message), s # <<>>, NEW i
  PROVE  Count(s, i) = Count(Tail(s), i) + (IF Head(s).id = i THEN 1 ELSE 0)
<1>1. /\ Len(s) \in Nat \ {0} /\ Tail(s) \in Seq(Message) /\ Head(s) = s[1]
      /\ Len(Tail(s)) = Len(s) - 1
      /\ \A k \in 1..Len(Tail(s)) : Tail(s)[k] = s[k + 1]
  BY HeadTailProperties, EmptySeq, LenProperties
<1>2. IsFiniteSet(Places(s, i)) /\ IsFiniteSet(Places(Tail(s), i))
  BY <1>1, CountType
<1>3. Cardinality(Places(s, i) \ {1}) = Cardinality(Places(Tail(s), i))
  <2>1. \A k \in Places(Tail(s), i) : k \in Int /\ k + 1 \in Places(s, i) \ {1}
    BY <1>1 DEF Places
  <2>2. \A k \in Places(s, i) \ {1} : k \in Int /\ k - 1 \in Places(Tail(s), i)
    BY <1>1 DEF Places
  <2> QED
    BY <1>2, <2>1, <2>2, Shifted
<1>4. 1 \in Places(s, i) <=> Head(s).id = i
  BY <1>1 DEF Places
<1>5. Cardinality(Places(s, i) \ {1})
        = IF 1 \in Places(s, i) THEN Count(s, i) - 1 ELSE Count(s, i)
  BY <1>2, FS_RemoveElement DEF Count
<1>6. Count(s, i) \in Nat /\ Count(Tail(s), i) \in Nat
  BY <1>1, CountType
<1>7. Count(Tail(s), i) = IF Head(s).id = i THEN Count(s, i) - 1 ELSE Count(s, i)
  BY <1>3, <1>4, <1>5, Zenon DEF Count
<1> QED
  BY <1>6, <1>7

\* The requests of processes with one thread: those of which something is said.
Mine == {i \in Id : Alone(i.c)}

\* Client i.c has prepared request i and not yet written it.
Unsent(i) ==
  out[i.c].id = i /\ pc[i.c] \in {"token", "take", "wtest", "wset", "store"}

\* How often the listener is going to read request i from the box: once if it
\* woke up before, and once more if it is going to wake up.
Ahead(i) ==
  IF box.data.id = i /\ box.data.kind # "reply"
  THEN (IF fresh[Listener] \/ pc[Listener] = "stamp" THEN 1 ELSE 0)
       + (IF pc[Listener] \in {"rload", "rstore", "look"} THEN 1 ELSE 0)
  ELSE 0

Copied(i) == IF in[Listener].id = i THEN 1 ELSE 0

\* All copies of request i, from the box to its execution.
Copies(i) == Ahead(i) + Copied(i) + Count(pool, i) + served[i]

\* Clients send their own requests, handlers send replies.
OwnOut ==
  /\ \A c \in Clients : out[c] # None =>
       out[c].id.c = c /\ out[c].id.n <= asked /\ out[c].kind # "reply"
  /\ \A h \in Handlers : out[h] # None => out[h].kind = "reply"
  /\ \A w \in Writers : pc[w] \in {"token", "take", "wtest", "wset", "store"} => out[w] # None

\* A request that was not written yet has no copy, and none has more than one
\* except those that slipped in.
SentOnce ==
  ~torn => \A i \in Mine :
    /\ Unsent(i) \/ i.n > asked => Copies(i) = 0 /\ i \notin slipped
    /\ Copies(i) <= (IF i \in slipped THEN 2 ELSE 1)

LEMMA OutInit == Init => OwnOut
BY DEF Init, OwnOut, Threads, Writers, Readers

\* A step of thread t that leaves it with nothing to send.
LEMMA OutDropped ==
  ASSUME OwnOut, NEW t, asked' = asked,
         \A v \in Writers : v # t => out'[v] = out[v] /\ pc'[v] = pc[v],
         t \in Writers => /\ out'[t] \in {None, out[t]}
                          /\ pc'[t] \notin {"token", "take", "wtest", "wset", "store"}
  PROVE  OwnOut'
BY DEF OwnOut, Writers

LEMMA OutNext ==
  ASSUME TypeOK, OwnOut, [Next]_vars
  PROVE  OwnOut'
<1> USE ChannelAssumption DEF lockVars, boxVars, gateVars, callVars, serverVars, Goto, Writers,
                              Readers, Threads, OwnOut
<1>1. ASSUME NEW w \in Writers, Write(w) PROVE OwnOut'
  <2>1. asked' = asked
    BY <1>1 DEF Write, TokenSeen, TokenTake, TokenTimeout, WriteTest, WriteSet, Store, WriteUnlock
  <2>2. CASE TokenSeen(w) \/ TokenTake(w) \/ WriteTest(w) \/ WriteSet(w) \/ Store(w)
    <3>1. out' = out /\ out[w] # None
      BY <2>2 DEF TokenSeen, TokenTake, WriteTest, WriteSet, Store
    <3>2. \A v \in Writers : v # w => pc'[v] = pc[v]
      BY <2>2 DEF TokenSeen, TokenTake, WriteTest, WriteSet, Store, TypeOK
    <3> QED
      BY <2>1, <3>1, <3>2
  <2>3. CASE TokenTimeout(w) \/ WriteUnlock(w)
    <3>1. \/ out' = out
          \/ out' = [out EXCEPT ![w] = None]
      BY <2>3 DEF TokenTimeout, WriteUnlock
    <3>2. pc' = [pc EXCEPT ![w] = "idle"] \/ pc' = [pc EXCEPT ![w] = "wake"]
      BY <2>3 DEF TokenTimeout, WriteUnlock
    <3>3. /\ \A v \in Writers : v # w => out'[v] = out[v] /\ pc'[v] = pc[v]
          /\ out'[w] \in {None, out[w]} /\ pc'[w] \in {"idle", "wake"}
      BY <3>1, <3>2 DEF TypeOK
    <3> HIDE DEF OwnOut
    <3> QED
      BY <2>1, <3>3, OutDropped
  <2> QED
    BY <1>1, <2>2, <2>3 DEF Write
<1>2. ASSUME NEW r \in Readers, Read(r) PROVE OwnOut'
  <2>1. asked' = asked
    BY <1>2 DEF Read, Wake, Remember, ReceiveTimeout, ReadLoad, ReadStore, Look, ReadUnlockLoad, ReadUnlockStore
  <2>2. out' = out \/ (r \in Clients /\ out' = [out EXCEPT ![r] = None])
    BY <1>2 DEF Read, Wake, Remember, ReceiveTimeout, ReadLoad, ReadStore, Look, ReadUnlockLoad, ReadUnlockStore, Leave
  <2>3. \E l \in {"idle", "wake", "stamp", "rload", "rstore", "look", "uload", "ustore"} :
          pc' = [pc EXCEPT ![r] = l]
    BY <1>2 DEF Read, Wake, Remember, ReceiveTimeout, ReadLoad, ReadStore, Look, ReadUnlockLoad, ReadUnlockStore, Leave
  <2>4. /\ \A v \in Writers : v # r => out'[v] = out[v] /\ pc'[v] = pc[v]
        /\ r \in Writers => /\ out'[r] \in {None, out[r]}
                            /\ pc'[r] \notin {"token", "take", "wtest", "wset", "store"}
    BY <2>2, <2>3 DEF TypeOK
  <2> HIDE DEF OwnOut
  <2> QED
    BY <2>1, <2>4, OutDropped
<1>3. ASSUME NEW c \in Clients, NEW k \in Kinds, Call(c, k) PROVE OwnOut'
  <2> DEFINE m == [id |-> [c |-> c, life |-> life[Process[c]], n |-> asked + 1], kind |-> k]
  <2>1. m.id.c = c /\ m.id.n = asked + 1 /\ m.kind # "reply" /\ m # None
    BY DEF None
  <2>2. out' = [out EXCEPT ![c] = m] /\ asked' = asked + 1 /\ pc' = [pc EXCEPT ![c] = "token"]
    BY <1>3 DEF Call
  <2>3. asked \in Int /\ \A d \in Clients : out[d] # None => out[d] \in Message
    BY DEF TypeOK
  <2>4. \A d \in Clients : out[d] # None => out[d].id.n \in Int
    BY <2>3 DEF Message, Id, Mine
  <2> HIDE DEF m
  <2> QED
    BY <2>1, <2>2, <2>3, <2>4 DEF TypeOK
<1>4. ASSUME NEW p \in Processes, Die(p) PROVE OwnOut'
  <2>1. /\ asked' = asked
        /\ out' = [w \in Writers |-> IF w \in Died(p) THEN None ELSE out[w]]
        /\ pc' = [t \in Threads |-> IF t \in Died(p) THEN "idle" ELSE pc[t]]
    BY <1>4 DEF Die, Died
  <2> HIDE DEF OwnOut
  <2>2. ASSUME NEW w \in Writers
        PROVE  \/ (out'[w] = None /\ pc'[w] = "idle")
               \/ (out'[w] = out[w] /\ pc'[w] = pc[w])
    BY <2>1
  <2> QED
    BY <2>1, <2>2 DEF OwnOut
<1>5. ASSUME NEW h \in Handlers, Serve(h) PROVE OwnOut'
  <2>1. asked' = asked
    BY <1>5 DEF Serve
  <2>2. \/ UNCHANGED <<out, pc>>
        \/ \E m \in Message : /\ out' = [out EXCEPT ![h] = [m EXCEPT !.kind = "reply"]]
                              /\ pc' = [pc EXCEPT ![h] = "token"]
    <3>1. Head(pool) \in Message
      BY <1>5, HeadTailProperties DEF Serve, TypeOK
    <3> QED
      BY <1>5, <3>1 DEF Serve
  <2>3. \A m \in Message : [m EXCEPT !.kind = "reply"].kind = "reply"
                           /\ [m EXCEPT !.kind = "reply"] # None
    BY DEF Message, None
  <2>4. CASE UNCHANGED <<out, pc>>
    BY <2>1, <2>4
  <2>5. ASSUME NEW m \in Message, out' = [out EXCEPT ![h] = [m EXCEPT !.kind = "reply"]],
               pc' = [pc EXCEPT ![h] = "token"]
        PROVE  OwnOut'
    <3>1. /\ \A v \in Writers : v # h => out'[v] = out[v] /\ pc'[v] = pc[v]
          /\ out'[h].kind = "reply" /\ out'[h] # None
      BY <2>3, <2>5 DEF TypeOK
    <3> QED
      BY <2>1, <3>1
  <2> QED
    BY <2>2, <2>4, <2>5
<1>6. CASE UNCHANGED vars
  BY <1>6 DEF vars
<1> QED
  BY <1>1, <1>2, <1>3, <1>4, <1>5, <1>6 DEF Next, ClientStep, ListenerStep, HandlerStep

\* A writer on its way to the box.
SendPc == {"token", "take", "wtest", "wset", "store"}

\* What the msg_buf of a process points to: the request its only thread is
\* sending; in any case a request of one of its threads, or nothing.
OwnNote ==
  /\ \A c \in Clients : Alone(c) /\ pc[c] \in SendPc => note[Process[c]] = out[c]
  /\ \A p \in Processes : note[p].id # None.id => note[p].id.c \in Clients /\ Process[note[p].id.c] = p

LEMMA NoteInit == Init => OwnNote
BY DEF Init, OwnNote, SendPc, Threads, Readers

\* Thread t alone moves, and takes at most the text of its own process away.
LEMMA NoteStep ==
  ASSUME TypeOK, OwnNote, NEW t,
         \A v \in Clients : v # t => out'[v] = out[v] /\ pc'[v] = pc[v],
         t \in Clients /\ pc'[t] \in SendPc => /\ pc[t] \in SendPc /\ out'[t] = out[t]
                                               /\ note'[Process[t]] = note[Process[t]],
         \A p \in Processes : \/ note'[p] = note[p]
                              \/ t \in Clients /\ p = Process[t] /\ note'[p].id = None.id
  PROVE  OwnNote'
<1>1. ASSUME NEW c \in Clients, Alone(c), pc'[c] \in SendPc PROVE note'[Process[c]] = out'[c]
  <2>1. Process[c] \in Processes
    BY DEF Processes
  <2>2. CASE c = t
    BY <1>1, <2>2 DEF OwnNote
  <2>3. CASE c # t
    <3>1. note'[Process[c]] = note[Process[c]]
      BY <1>1, <2>1, <2>3 DEF Alone
    <3> QED
      BY <1>1, <2>3, <3>1 DEF OwnNote
  <2> QED
    BY <2>2, <2>3
<1>2. ASSUME NEW p \in Processes, note'[p].id # None.id
      PROVE  note'[p].id.c \in Clients /\ Process[note'[p].id.c] = p
  BY <1>2 DEF OwnNote
<1> QED
  BY <1>1, <1>2 DEF OwnNote, Alone

\* What NoText and Freed do to the texts.
LEMMA NoteTaken ==
  ASSUME TypeOK, NEW t, NEW c, c = t,
         (c \in Clients /\ NoText(Process[c])) \/ UNCHANGED note
  PROVE  \A p \in Processes : \/ note'[p] = note[p]
                              \/ t \in Clients /\ p = Process[t] /\ note'[p].id = None.id
<1>1. CASE UNCHANGED note
  BY <1>1
<1>2. CASE c \in Clients /\ NoText(Process[c])
  <2>1. Process[c] \in Processes /\ note \in [Processes -> Notes]
    BY <1>2 DEF Processes, TypeOK, Notes
  <2>2. note' = [note EXCEPT ![Process[c]] = [note[Process[c]] EXCEPT !.id = None.id]]
    BY <1>2 DEF NoText
  <2>3. [note[Process[c]] EXCEPT !.id = None.id].id = None.id
    BY <2>1 DEF Notes
  <2> QED
    BY <1>2, <2>1, <2>2, <2>3
<1> QED
  BY <1>1, <1>2

LEMMA NoteNext ==
  ASSUME TypeOK, OwnNote, [Next]_vars
  PROVE  OwnNote'
<1> USE DEF lockVars, boxVars, gateVars, callVars, serverVars
<1>t. /\ \A c \in Clients : c \in Writers /\ c \in Threads /\ c \in Readers /\ Process[c] \in Processes
      /\ \A h \in Handlers : h \in Writers /\ h \in Threads /\ h \notin Clients
      /\ Listener \in Threads /\ Listener \notin Clients
  BY ChannelAssumption DEF Writers, Threads, Readers, Processes
<1>1. ASSUME NEW w \in Writers, Write(w) PROVE OwnNote'
  <2>0. w \in Threads
    BY <1>t DEF Writers
  <2>1. CASE TokenSeen(w) \/ TokenTake(w) \/ WriteTest(w) \/ WriteSet(w) \/ Store(w)
    <3>1. /\ UNCHANGED <<out, note>> /\ pc[w] \in SendPc
          /\ \E l \in {"take", "wtest", "wset", "store", "wunlock"} : pc' = [pc EXCEPT ![w] = l]
      <4>1. CASE TokenSeen(w) \/ TokenTake(w)
        BY <4>1 DEF TokenSeen, TokenTake, Goto, SendPc
      <4>2. CASE WriteTest(w) \/ WriteSet(w)
        BY <4>2 DEF WriteTest, WriteSet, Goto, SendPc
      <4>3. CASE Store(w)
        BY <4>3 DEF Store, Goto, SendPc
      <4> QED
        BY <2>1, <4>1, <4>2, <4>3
    <3>2. \A v \in Clients : v # w => out'[v] = out[v] /\ pc'[v] = pc[v]
      BY <1>t, <2>0, <3>1 DEF TypeOK
    <3> QED
      BY <3>1, <3>2, NoteStep
  <2>2. CASE TokenTimeout(w) \/ WriteUnlock(w)
    <3>1. /\ out' = out \/ out' = [out EXCEPT ![w] = None]
          /\ pc' = [pc EXCEPT ![w] = "idle"] \/ pc' = [pc EXCEPT ![w] = "wake"]
          /\ (w \in Clients /\ NoText(Process[w])) \/ UNCHANGED note
      BY <2>2 DEF TokenTimeout, WriteUnlock, Goto, Freed
    <3>2. \A v \in Clients : v # w => out'[v] = out[v] /\ pc'[v] = pc[v]
      BY <1>t, <3>1 DEF TypeOK
    <3>3. pc'[w] \notin SendPc
      BY <2>0, <3>1 DEF TypeOK, SendPc
    <3>4. \A p \in Processes : \/ note'[p] = note[p]
                               \/ w \in Clients /\ p = Process[w] /\ note'[p].id = None.id
      BY <3>1, NoteTaken
    <3> QED
      BY <3>2, <3>3, <3>4, NoteStep
  <2> QED
    BY <1>1, <2>1, <2>2 DEF Write
<1>2. ASSUME NEW r \in Readers, Read(r) PROVE OwnNote'
  <2>0. r \in Threads
    BY DEF Threads
  <2>1. /\ out' = out \/ (r \in Clients /\ out' = [out EXCEPT ![r] = None])
        /\ \E l \in {"idle", "wake", "stamp", "rload", "rstore", "look", "uload", "ustore"} :
             pc' = [pc EXCEPT ![r] = l]
    BY <1>2 DEF Read, Wake, Remember, ReceiveTimeout, ReadLoad, ReadStore, Look, ReadUnlockLoad, ReadUnlockStore,
                Leave, Goto
  <2>2. (r \in Clients /\ NoText(Process[r])) \/ UNCHANGED note
    BY <1>2 DEF Read, Wake, Remember, ReceiveTimeout, ReadLoad, ReadStore, Look, Take, ReadUnlockLoad, ReadUnlockStore
  <2>3. \A v \in Clients : v # r => out'[v] = out[v] /\ pc'[v] = pc[v]
    BY <1>t, <2>1 DEF TypeOK
  <2>4. pc'[r] \notin SendPc
    BY <2>0, <2>1 DEF TypeOK, SendPc
  <2>5. \A p \in Processes : \/ note'[p] = note[p]
                             \/ r \in Clients /\ p = Process[r] /\ note'[p].id = None.id
    BY <2>2, NoteTaken
  <2> QED
    BY <2>3, <2>4, <2>5, NoteStep
<1>3. ASSUME NEW c \in Clients, NEW k \in Kinds, Call(c, k) PROVE OwnNote'
  <2> DEFINE m == [id |-> [c |-> c, life |-> life[Process[c]], n |-> asked + 1], kind |-> k]
  <2>1. /\ out' = [out EXCEPT ![c] = m] /\ note' = [note EXCEPT ![Process[c]] = out'[c]]
        /\ pc' = [pc EXCEPT ![c] = "token"] /\ m.id.c = c
    BY <1>3 DEF Call, Goto
  <2> HIDE DEF m
  <2>2. /\ note'[Process[c]] = m /\ out'[c] = m
        /\ \A p \in Processes : p # Process[c] => note'[p] = note[p]
        /\ \A v \in Clients : v # c => out'[v] = out[v] /\ pc'[v] = pc[v]
    BY <1>t, <2>1 DEF TypeOK
  <2>3. ASSUME NEW d \in Clients, Alone(d), pc'[d] \in SendPc PROVE note'[Process[d]] = out'[d]
    <3>1. CASE d = c
      BY <2>2, <3>1
    <3>2. CASE d # c
      <4>1. Process[d] # Process[c]
        BY <2>3, <3>2 DEF Alone
      <4> QED
        BY <1>t, <2>2, <2>3, <3>2, <4>1 DEF OwnNote
    <3> QED
      BY <3>1, <3>2
  <2>4. ASSUME NEW p \in Processes, note'[p].id # None.id
        PROVE  note'[p].id.c \in Clients /\ Process[note'[p].id.c] = p
    BY <2>1, <2>2, <2>4 DEF OwnNote
  <2> QED
    BY <2>3, <2>4 DEF OwnNote, Alone
<1>4. ASSUME NEW q \in Processes, Die(q) PROVE OwnNote'
  <2>1. /\ out' = [w \in Writers |-> IF w \in Died(q) THEN None ELSE out[w]]
        /\ pc' = [t \in Threads |-> IF t \in Died(q) THEN "idle" ELSE pc[t]]
        /\ note' = [note EXCEPT ![q] = [id |-> None.id, kind |-> "post"]]
    BY <1>4 DEF Die, Died
  <2>n. note'[q].id = None.id /\ (\A p \in Processes : p # q => note'[p] = note[p])
    BY <2>1 DEF TypeOK
  <2>v. ASSUME NEW v \in Clients
        PROVE  \/ (Process[v] = q /\ pc'[v] = "idle")
               \/ (Process[v] # q /\ out'[v] = out[v] /\ pc'[v] = pc[v])
    BY <1>t, <2>1 DEF Died
  <2>2. /\ note'[q].id = None.id
        /\ \A p \in Processes : p # q => note'[p] = note[p]
        /\ \A v \in Clients : \/ (Process[v] = q /\ pc'[v] = "idle")
                              \/ (Process[v] # q /\ out'[v] = out[v] /\ pc'[v] = pc[v])
    BY <2>n, <2>v
  <2>3. ASSUME NEW d \in Clients, Alone(d), pc'[d] \in SendPc PROVE note'[Process[d]] = out'[d]
    BY <1>t, <2>2, <2>3 DEF OwnNote, SendPc
  <2>4. ASSUME NEW p \in Processes, note'[p].id # None.id
        PROVE  note'[p].id.c \in Clients /\ Process[note'[p].id.c] = p
    BY <2>2, <2>4 DEF OwnNote
  <2> QED
    BY <2>3, <2>4 DEF OwnNote, Alone
<1>5. ASSUME NEW h \in Handlers, Serve(h) PROVE OwnNote'
  <2>1. note' = note /\ \A v \in Clients : out'[v] = out[v] /\ pc'[v] = pc[v]
    BY <1>t, <1>5 DEF Serve, Goto, TypeOK
  <2> QED
    BY <2>1 DEF OwnNote, Alone
<1>6. CASE UNCHANGED vars
  BY <1>6 DEF vars, OwnNote, Alone
<1> QED
  BY <1>1, <1>2, <1>3, <1>4, <1>5, <1>6 DEF Next, ClientStep, ListenerStep, HandlerStep, Readers, Writers

\* What a writer is about to put into the box: its own message, or one that is
\* no request of a process with one thread.
LEMMA TextOwn ==
  ASSUME TypeOK, OwnNote, NEW w \in Writers, pc[w] = "store"
  PROVE  \/ Text(w) = out[w]
         \/ w \in Clients /\ ~Alone(w) /\ Text(w).kind # "reply" /\ Text(w).id.c \in Clients /\ ~Alone(Text(w).id.c)
<1>1. CASE w \in Handlers
  BY <1>1 DEF Text
<1>2. CASE w \notin Handlers
  <2> DEFINE p == Process[w]
  <2>1. w \in Clients /\ p \in Processes
    BY <1>2 DEF Writers, Processes
  <2>2. note[p] \in Notes
    BY <2>1 DEF TypeOK, Notes
  <2>3. CASE Alone(w)
    <3>1. note[p] = out[w] /\ out[w] \in Message \cup {None}
      BY <2>1, <2>3 DEF OwnNote, SendPc, TypeOK
    <3>2. out[w] \in Message
      BY <2>2, <3>1 DEF Notes, None
    <3>3. note[p].id # None.id
      BY <3>1, <3>2, ChannelAssumption DEF Message, Id, None
    <3> QED
      BY <1>2, <3>1, <3>3 DEF Text
  <2>4. CASE ~Alone(w)
    <3>1. CASE note[p].id = None.id
      BY <1>2, <2>1, <2>2, <2>4, <3>1 DEF Text, Notes
    <3>2. CASE note[p].id # None.id
      <4>1. Text(w) = note[p] /\ note[p].id.c \in Clients /\ Process[note[p].id.c] = p /\ note[p].kind # "reply"
        BY <1>2, <2>1, <2>2, <3>2 DEF Text, OwnNote, Notes
      <4>2. ~Alone(note[p].id.c)
        BY <2>1, <2>4, <4>1 DEF Alone
      <4> QED
        BY <2>1, <2>4, <4>1, <4>2
    <3> QED
      BY <3>1, <3>2
  <2> QED
    BY <2>3, <2>4
<1> QED
  BY <1>1, <1>2

LEMMA CopiesType ==
  ASSUME TypeOK, NEW i \in Mine
  PROVE  /\ Ahead(i) \in 0..2 /\ Copied(i) \in 0..1 /\ Count(pool, i) \in Nat /\ served[i] \in Nat
         /\ Copies(i) \in Nat
<1>1. Count(pool, i) \in Nat /\ served[i] \in Nat
  BY CountType DEF TypeOK, Mine
<1>2. Ahead(i) \in 0..2 /\ Copied(i) \in 0..1
  BY DEF Ahead, Copied
<1> QED
  BY <1>1, <1>2 DEF Copies

LEMMA SentInit == Init => SentOnce
<1> SUFFICES ASSUME Init, NEW i \in Mine PROVE Copies(i) = 0 /\ ~Unsent(i) /\ i \notin slipped
  BY DEF SentOnce
<1>1. None.id # i /\ i.c \in Clients /\ i \in Id
  BY ChannelAssumption DEF None, Id, Mine
<1>2. Count(pool, i) = 0
  <2>1. Places(pool, i) = {}
    BY EmptySeq DEF Init, Places
  <2> QED
    BY <2>1, FS_EmptySet DEF Count
<1> QED
  BY <1>1, <1>2, ChannelAssumption
  DEF Init, Copies, Ahead, Copied, Unsent, Readers, Writers, Threads

\* The copies after a step, summand by summand.
LEMMA CopiesNext ==
  ASSUME TypeOK', NEW i \in Mine
  PROVE  /\ Ahead(i)' \in 0..2 /\ Copied(i)' \in 0..1
         /\ Count(pool', i) \in Nat /\ served'[i] \in Nat
         /\ Copies(i)' = Ahead(i)' + Copied(i)' + Count(pool', i) + served'[i]
         /\ Copies(i)' \in Nat
<1>1. Ahead(i)' \in 0..2 /\ Copied(i)' \in 0..1
  BY DEF Ahead, Copied
<1>2. Count(pool', i) \in Nat /\ served'[i] \in Nat
  BY CountType DEF TypeOK, Mine
<1>3. Copies(i)' = Ahead(i)' + Copied(i)' + Count(pool', i) + served'[i]
  BY DEF Copies, Count, Places
<1> QED
  BY <1>1, <1>2, <1>3

\* A step that prepares no request and adds no copy of one.
LEMMA SentKept ==
  ASSUME TypeOK, TypeOK', SentOnce, torn => torn', asked' >= asked, slipped' = slipped,
         \A i \in Mine : Copies(i)' <= Copies(i),
         \A i \in Mine : Unsent(i)' => Unsent(i) \/ i.n > asked
  PROVE  SentOnce'
<1> SUFFICES ASSUME ~torn', NEW i \in Mine
             PROVE  /\ Unsent(i)' \/ i.n > asked' => Copies(i)' = 0 /\ i \notin slipped'
                    /\ Copies(i)' <= (IF i \in slipped' THEN 2 ELSE 1)
  BY DEF SentOnce
<1>1. Copies(i) \in Nat /\ Copies(i)' \in Nat
  BY CopiesType, CopiesNext
<1>2. i.n \in Int /\ asked \in Int /\ asked' \in Int
  BY DEF TypeOK, Id, Mine
<1>3. /\ Unsent(i) \/ i.n > asked => Copies(i) = 0 /\ i \notin slipped
      /\ Copies(i) <= (IF i \in slipped THEN 2 ELSE 1)
  BY DEF SentOnce
<1>4. Copies(i)' <= Copies(i) /\ (Unsent(i)' => Unsent(i) \/ i.n > asked)
  OBVIOUS
<1> HIDE DEF Copies, Unsent
<1> QED
  BY <1>1, <1>2, <1>3, <1>4

\* What is enough for that: nothing that the copies consist of changes, and no
\* client begins to send.
LEMMA SentStill ==
  ASSUME TypeOK, TypeOK', SentOnce, torn => torn', asked' >= asked,
         UNCHANGED <<slipped, box, pool, served>>,
         fresh'[Listener] = fresh[Listener], pc'[Listener] = pc[Listener],
         in'[Listener] = in[Listener],
         \A i \in Mine : Unsent(i)' => Unsent(i) \/ i.n > asked
  PROVE  SentOnce'
<1>1. ASSUME NEW i \in Mine PROVE Copies(i)' <= Copies(i)
  <2>1. Ahead(i)' = Ahead(i) /\ Copied(i)' = Copied(i)
    BY DEF Ahead, Copied
  <2>2. Copies(i)' = Ahead(i) + Copied(i) + Count(pool, i) + served[i]
    BY <2>1, CopiesNext
  <2> QED
    BY <2>2, CopiesType DEF Copies
<1> QED
  BY <1>1, SentKept

\* Thread t alone moves, to a place where it has nothing to send.
LEMMA NotUnsent ==
  ASSUME TypeOK, NEW t \in Threads, NEW l, Goto(t, l),
         l \notin {"token", "take", "wtest", "wset", "store"},
         \A v \in Clients : v # t => out'[v] = out[v],
         NEW i \in Mine, Unsent(i)'
  PROVE  Unsent(i)
BY DEF TypeOK, Goto, Unsent, Id, Mine, Threads, Readers

LEMMA SentStore ==
  ASSUME TypeOK, TypeOK', OwnOut, OwnNote, LockExact, SentOnce, NEW w \in Writers, Store(w)
  PROVE  SentOnce'
<1> SUFFICES ASSUME ~torn', NEW i \in Mine
             PROVE  /\ Unsent(i)' \/ i.n > asked' => Copies(i)' = 0 /\ i \notin slipped'
                    /\ Copies(i)' <= (IF i \in slipped' THEN 2 ELSE 1)
  BY DEF SentOnce
<1>1. ~torn /\ asked' = asked /\ UNCHANGED <<pool, served, in, out>>
  BY DEF Store, lockVars, callVars, serverVars
<1>2. /\ Unsent(i) \/ i.n > asked => Copies(i) = 0 /\ i \notin slipped
      /\ Copies(i) <= (IF i \in slipped THEN 2 ELSE 1)
  BY <1>1 DEF SentOnce
<1>3. pc[Listener] # "look"
  <2>1. w \in Writing
    BY DEF Store, Writing
  <2>2. Reading = {}
    BY <1>1, <2>1 DEF LockExact
  <2> QED
    BY <2>2 DEF Reading, Readers
<1>4. /\ box'.data = Text(w) /\ fresh'[Listener] /\ pc[w] = "store" /\ out[w] # None
      /\ pc' = [pc EXCEPT ![w] = "wunlock"] /\ w \in Threads
      /\ slipped' = IF Text(w).kind # "reply" /\ pc[Listener] \in WakeToRead
                    THEN slipped \cup {Text(w).id} ELSE slipped
  BY DEF Store, OwnOut, Readers, Goto, Threads, Writers
<1>5. pc'[Listener] = pc[Listener]
  BY <1>4, ChannelAssumption DEF TypeOK, Writers
<1>6. Unsent(i)' => Unsent(i) /\ i.c # w
  BY <1>1, <1>4 DEF Unsent, TypeOK, Threads, Writers, Readers, Id, Mine
<1>7. Text(w).kind # "reply" /\ Text(w).id = i
        => Text(w) = out[w] /\ w \in Clients /\ i.c = w /\ i.n <= asked
  <2>1. Alone(i.c)
    BY DEF Mine
  <2>2. Text(w).kind # "reply" /\ Text(w).id = i => Text(w) = out[w]
    BY <1>4, <2>1, TextOwn
  <2>3. out[w].kind # "reply" => w \in Clients /\ out[w].id.c = w /\ out[w].id.n <= asked
    BY <1>4 DEF OwnOut, Writers
  <2> QED
    BY <2>2, <2>3
<1>8. Copies(i)' = Ahead(i)' + Copied(i) + Count(pool, i) + served[i]
  <2>1. Copied(i)' = Copied(i)
    BY <1>1 DEF Copied
  <2> QED
    BY <1>1, <2>1, CopiesNext
<1>9. Copies(i) = Ahead(i) + Copied(i) + Count(pool, i) + served[i]
  BY DEF Copies
<1>10. asked \in Int /\ i.n \in Int
  BY DEF TypeOK, Id, Mine
<1>11. CASE Text(w).kind # "reply" /\ Text(w).id = i
  <2>1. Unsent(i)
    BY <1>4, <1>7, <1>11 DEF Unsent
  <2>2. ~Unsent(i)' /\ ~(i.n > asked')
    BY <1>1, <1>6, <1>7, <1>10, <1>11
  <2>3. Ahead(i)' = 1 + (IF pc[Listener] \in WakeToRead THEN 1 ELSE 0)
    BY <1>3, <1>4, <1>5, <1>11 DEF Ahead, WakeToRead
  <2>4. Copied(i) = 0 /\ Count(pool, i) = 0 /\ served[i] = 0
    BY <1>2, <1>9, <2>1, CopiesType
  <2>5. pc[Listener] \in WakeToRead => i \in slipped'
    BY <1>4, <1>11
  <2>6. Copies(i)' = Ahead(i)'
    BY <1>8, <2>3, <2>4
  <2> QED
    BY <2>2, <2>3, <2>5, <2>6
<1>12. CASE ~(Text(w).kind # "reply" /\ Text(w).id = i)
  <2>1. Ahead(i)' = 0
    BY <1>4, <1>12 DEF Ahead
  <2>2. Copies(i)' <= Copies(i) /\ Copies(i)' \in Nat /\ Copies(i) \in Nat
    BY <1>8, <1>9, <2>1, CopiesType, CopiesNext
  <2>3. i \in slipped' <=> i \in slipped
    BY <1>4, <1>12
  <2> QED
    BY <1>1, <1>2, <1>6, <2>2, <2>3
<1> QED
  BY <1>11, <1>12

LEMMA SentWrite ==
  ASSUME TypeOK, TypeOK', OwnOut, OwnNote, LockExact, SentOnce, NEW w \in Writers, Write(w)
  PROVE  SentOnce'
<1> USE DEF lockVars, boxVars, gateVars, callVars, serverVars
<1>1. CASE Store(w)
  BY <1>1, SentStore
<1>2. CASE ~Store(w)
  <2>1. /\ UNCHANGED <<slipped, box, pool, served, fresh, in, asked>> /\ (torn => torn')
        /\ \E l \in {"take", "wtest", "wset", "store", "wunlock", "wake", "idle"} : Goto(w, l)
    <3>1. CASE TokenSeen(w)
      BY <3>1 DEF TokenSeen
    <3>2. CASE TokenTake(w)
      BY <3>2 DEF TokenTake
    <3>3. CASE TokenTimeout(w)
      BY <3>3 DEF TokenTimeout
    <3>4. CASE WriteTest(w)
      BY <3>4 DEF WriteTest
    <3>5. CASE WriteSet(w)
      BY <3>5 DEF WriteSet
    <3>6. CASE WriteUnlock(w)
      BY <3>6 DEF WriteUnlock
    <3> QED
      BY <1>1, <1>2, <3>1, <3>2, <3>3, <3>4, <3>5, <3>6 DEF Write
  <2>2. pc'[Listener] = pc[Listener] /\ w \in Threads
    BY <2>1, ChannelAssumption DEF TypeOK, Goto, Threads, Writers
  <2>3. \A i \in Mine : Unsent(i)' => Unsent(i)
    <3>1. CASE TokenSeen(w) \/ TokenTake(w) \/ WriteTest(w) \/ WriteSet(w)
      BY <3>1 DEF TokenSeen, TokenTake, WriteTest, WriteSet, Unsent, Goto, TypeOK, Id, Mine, Threads, Readers
    <3>2. CASE TokenTimeout(w)
      <4>1. Goto(w, "idle") /\ \A v \in Clients : v # w => out'[v] = out[v]
        BY <3>2 DEF TokenTimeout, TypeOK, Writers
      <4> QED
        BY <2>2, <4>1, NotUnsent
    <3>3. CASE WriteUnlock(w)
      <4>1. Goto(w, "idle") \/ Goto(w, "wake")
        BY <3>3 DEF WriteUnlock
      <4>2. \A v \in Clients : v # w => out'[v] = out[v]
        BY <3>3 DEF WriteUnlock, TypeOK, Writers
      <4> QED
        BY <2>2, <4>1, <4>2, NotUnsent
    <3> QED
      BY <1>1, <1>2, <3>1, <3>2, <3>3 DEF Write
  <2>4. asked \in Int
    BY DEF TypeOK
  <2> QED
    BY <2>1, <2>2, <2>3, <2>4, SentStill
<1> QED
  BY <1>1, <1>2

\* A step of a reader leaves the box and what was carried out as they are, and
\* prepares no request.
LEMMA ReadFrame ==
  ASSUME TypeOK, NEW r \in Readers, Read(r)
  PROVE  /\ UNCHANGED <<slipped, box, served, asked>> /\ (torn => torn')
         /\ \A i \in Mine : Unsent(i)' => Unsent(i)
<1> USE DEF lockVars, boxVars, gateVars, callVars, serverVars
<1>1. UNCHANGED <<slipped, box, served, asked>> /\ (torn => torn')
  <2>1. CASE Wake(r) \/ Remember(r)
    BY <2>1 DEF Wake, Remember
  <2>2. CASE ReceiveTimeout(r)
    BY <2>2 DEF ReceiveTimeout
  <2>3. CASE ReadLoad(r)
    BY <2>3 DEF ReadLoad
  <2>4. CASE ReadStore(r)
    BY <2>4 DEF ReadStore
  <2>5. CASE Look(r)
    BY <2>5 DEF Look, Take
  <2>6. CASE ReadUnlockLoad(r)
    BY <2>6 DEF ReadUnlockLoad
  <2>7. CASE ReadUnlockStore(r)
    <3>1. UNCHANGED <<boxVars, callVars, served>> /\ torn' = (torn \/ rwCount # reg[r])
      BY <2>7 DEF ReadUnlockStore
    <3> QED
      BY <3>1
  <2> QED
    BY <2>1, <2>2, <2>3, <2>4, <2>5, <2>6, <2>7 DEF Read
<1>2. \A v \in Clients : v # r => out'[v] = out[v]
  BY DEF Read, Wake, Remember, ReceiveTimeout, ReadLoad, ReadStore, Look, ReadUnlockLoad, ReadUnlockStore,
         Leave, TypeOK, Writers
<1>3. \E l \in {"idle", "wake", "stamp", "rload", "rstore", "look", "uload", "ustore"} : Goto(r, l)
  BY DEF Read, Wake, Remember, ReceiveTimeout, ReadLoad, ReadStore, Look, ReadUnlockLoad, ReadUnlockStore,
         Leave
<1>4. r \in Threads
  BY DEF Threads
<1>5. \A i \in Mine : Unsent(i)' => Unsent(i)
  <2> TAKE i \in Mine
  <2>1. PICK l \in {"idle", "wake", "stamp", "rload", "rstore", "look", "uload", "ustore"} : Goto(r, l)
    BY <1>3
  <2> QED
    BY <1>2, <1>4, <2>1, NotUnsent
<1> QED
  BY <1>1, <1>5

LEMMA SentClientRead ==
  ASSUME TypeOK, TypeOK', SentOnce, NEW c \in Clients, Read(c)
  PROVE  SentOnce'
<1>1. c # Listener /\ c \in Readers
  BY ChannelAssumption DEF Readers
<1>2. pool' = pool /\ fresh'[Listener] = fresh[Listener] /\ in'[Listener] = in[Listener]
  <2> USE <1>1 DEF boxVars, serverVars, TypeOK, Readers
  <2>1. CASE Wake(c) \/ Remember(c)
    <3>1. Holder(c) # Listener
      BY <1>1, ChannelAssumption DEF Holder, Processes
    <3> QED
      BY <2>1, <3>1 DEF Wake, Remember
  <2>2. CASE ReceiveTimeout(c) \/ ReadLoad(c) \/ ReadStore(c)
    BY <2>2 DEF ReceiveTimeout, ReadLoad, ReadStore
  <2>3. CASE Look(c)
    BY <2>3 DEF Look, Take
  <2>4. CASE ReadUnlockLoad(c) \/ ReadUnlockStore(c)
    BY <2>4 DEF ReadUnlockLoad, ReadUnlockStore, Leave
  <2> QED
    BY <2>1, <2>2, <2>3, <2>4 DEF Read
<1>3. pc'[Listener] = pc[Listener]
  BY <1>1 DEF Read, Wake, Remember, ReceiveTimeout, ReadLoad, ReadStore, Look, ReadUnlockLoad,
              ReadUnlockStore, Leave, Goto, TypeOK, Threads, Readers
<1>4. /\ UNCHANGED <<slipped, box, served, asked>> /\ (torn => torn')
      /\ \A i \in Mine : Unsent(i)' => Unsent(i)
  BY <1>1, ReadFrame
<1>5. asked \in Int
  BY DEF TypeOK
<1> QED
  BY <1>2, <1>3, <1>4, <1>5, SentStill

\* The listener: a copy goes from the box to the list of tasks.
LEMMA SentListen ==
  ASSUME TypeOK, TypeOK', Addressed, SentOnce, Read(Listener)
  PROVE  SentOnce'
<1> USE DEF lockVars, boxVars, gateVars, callVars, serverVars
<1>t. Listener \in Readers /\ Listener \in Threads /\ Listener \notin Clients
  BY ChannelAssumption DEF Readers, Threads
<1>1. /\ UNCHANGED <<slipped, box, served, asked>> /\ (torn => torn')
      /\ \A i \in Mine : Unsent(i)' => Unsent(i)
  BY <1>t, ReadFrame
<1>2. asked \in Int
  BY DEF TypeOK
<1>3. SUFFICES ASSUME NEW i \in Mine PROVE Copies(i)' <= Copies(i)
  BY <1>1, <1>2, SentKept
<1>4. Copies(i)' = Ahead(i)' + Copied(i)' + Count(pool', i) + served[i]
  BY <1>1, CopiesNext
<1>5. Copies(i) = Ahead(i) + Copied(i) + Count(pool, i) + served[i]
  BY DEF Copies
<1>6. /\ Ahead(i)' \in Int /\ Copied(i)' \in Int /\ Count(pool', i) \in Int /\ served[i] \in Int
      /\ Ahead(i) \in Int /\ Copied(i) \in 0..1 /\ Count(pool, i) \in Int
  BY CopiesType, CopiesNext
<1>7. SUFFICES Ahead(i)' + Copied(i)' + Count(pool', i) <= Ahead(i) + Copied(i) + Count(pool, i)
  BY <1>4, <1>5, <1>6
<1>8. ASSUME UNCHANGED <<pool, in>>, Ahead(i)' <= Ahead(i) PROVE <1>7!1
  BY <1>6, <1>8 DEF Copied
<1>9. CASE Wake(Listener)
  <2>1. UNCHANGED <<pool, in>> /\ fresh[Listener] /\ fresh' = fresh /\ pc[Listener] = "wake"
    BY <1>9 DEF Wake, Holder
  <2>2. pc'[Listener] = "stamp"
    BY <1>t, <1>9 DEF Wake, Goto, TypeOK
  <2>3. Ahead(i)' = Ahead(i)
    BY <1>1, <2>1, <2>2 DEF Ahead
  <2> QED
    BY <1>6, <1>8, <2>1, <2>3
<1>r. CASE Remember(Listener)
  <2>1. UNCHANGED <<pool, in>> /\ ~fresh'[Listener] /\ pc[Listener] = "stamp"
    BY <1>r DEF Remember, Holder, TypeOK
  <2>2. pc'[Listener] = "rload"
    BY <1>t, <1>r DEF Remember, Goto, TypeOK
  <2>3. Ahead(i)' = Ahead(i)
    BY <1>1, <2>1, <2>2 DEF Ahead
  <2> QED
    BY <1>6, <1>8, <2>1, <2>3
<1>10. CASE ReadLoad(Listener) \/ ReadStore(Listener)
  <2>1. UNCHANGED <<pool, in>> /\ Ahead(i)' = Ahead(i)
    BY <1>t, <1>1, <1>10 DEF ReadLoad, ReadStore, Ahead, Goto, TypeOK
  <2> QED
    BY <1>6, <1>8, <2>1
<1>11. CASE Look(Listener)
  <2>1. /\ pc[Listener] = "look" /\ pc'[Listener] = "uload"
        /\ fresh'[Listener] = fresh[Listener] /\ pool' = pool
    BY <1>t, <1>11 DEF Look, Take, Goto, TypeOK
  <2>2. CASE ForMe(Listener) /\ box.data.id = i
    <3>1. box.data \in Message
      <4>1. None.id # i
        BY ChannelAssumption DEF None, Id, Mine
      <4> QED
        BY <2>2, <4>1 DEF TypeOK
    <3>2. box.to = Address(box.data) /\ box.data.id.c \in Clients
      BY <2>2, <3>1, ChannelAssumption DEF Addressed, None, Message, Id, Mine
    <3>3. box.data.kind # "reply"
      BY <1>t, <2>2, <3>2, ChannelAssumption DEF ForMe, Own, Holder, Address, Processes
    <3>4. Ahead(i)' = Ahead(i) - 1
      BY <1>1, <2>1, <2>2, <3>3 DEF Ahead
    <3>5. Copied(i)' \in 0..1
      BY CopiesNext
    <3> QED
      BY <1>6, <2>1, <3>4, <3>5
  <2>3. CASE ~(ForMe(Listener) /\ box.data.id = i)
    <3>1. Ahead(i)' <= Ahead(i)
      BY <1>1, <2>1 DEF Ahead
    <3>2. Copied(i)' <= Copied(i)
      <4>1. CASE ForMe(Listener)
        <5>1. in'[Listener] = box.data
          BY <1>t, <1>11, <4>1 DEF Look, Take, TypeOK
        <5> QED
          BY <2>3, <4>1, <5>1 DEF Copied
      <4>2. CASE ~ForMe(Listener)
        BY <1>11, <4>2 DEF Look, Copied
      <4> QED
        BY <4>1, <4>2
    <3> QED
      BY <1>6, <2>1, <3>1, <3>2
  <2> QED
    BY <2>2, <2>3
<1>12. ASSUME Leave(Listener), fresh' = fresh, pc[Listener] \in {"uload", "ustore"} PROVE <1>7!1
  <2>1. Ahead(i)' = Ahead(i)
    BY <1>t, <1>1, <1>12 DEF Leave, Goto, TypeOK, Ahead
  <2>2. Copied(i)' = 0
    BY <1>t, <1>12, ChannelAssumption DEF Leave, TypeOK, Copied, None, Id, Mine
  <2>3. Count(pool', i) = Count(pool, i) + Copied(i)
    <3>1. CASE in[Listener] = None
      <4>1. pool' = pool /\ Copied(i) = 0
        BY <1>12, <3>1, ChannelAssumption DEF Leave, Copied, None, Id, Mine
      <4> QED
        BY <1>6, <4>1
    <3>2. CASE in[Listener] # None
      BY <1>t, <1>12, <3>2, CountAppend DEF Leave, Copied, TypeOK
    <3> QED
      BY <3>1, <3>2
  <2> QED
    BY <1>6, <2>1, <2>2, <2>3
<1>13. CASE ReadUnlockLoad(Listener)
  <2>1. CASE rwCount > 0
    <3>1. UNCHANGED <<pool, in>> /\ Ahead(i)' = Ahead(i)
      BY <1>t, <1>1, <1>13, <2>1 DEF ReadUnlockLoad, Ahead, Goto, TypeOK
    <3> QED
      BY <1>6, <1>8, <3>1
  <2>2. CASE ~(rwCount > 0)
    BY <1>12, <1>13, <2>2 DEF ReadUnlockLoad
  <2> QED
    BY <2>1, <2>2
<1>14. CASE ReadUnlockStore(Listener)
  BY <1>12, <1>14 DEF ReadUnlockStore
<1>15. ~ReceiveTimeout(Listener)
  BY <1>t DEF ReceiveTimeout
<1> QED
  BY <1>9, <1>r, <1>10, <1>11, <1>13, <1>14, <1>15 DEF Read

LEMMA SentCall ==
  ASSUME TypeOK, TypeOK', SentOnce, NEW c \in Clients, NEW k \in Kinds, Call(c, k)
  PROVE  SentOnce'
<1>1. /\ UNCHANGED <<slipped, box, pool, served, fresh, in, torn>> /\ asked' = asked + 1
      /\ pc' = [pc EXCEPT ![c] = "token"]
      /\ out' = [out EXCEPT ![c] =
                   [id |-> [c |-> c, life |-> life[Process[c]], n |-> asked + 1], kind |-> k]]
  BY DEF Call, lockVars, boxVars, gateVars, serverVars, Goto
<1>2. pc'[Listener] = pc[Listener]
  BY <1>1, ChannelAssumption DEF TypeOK
<1>3. asked \in Int
  BY DEF TypeOK
<1>4. ASSUME NEW i \in Mine, Unsent(i)' PROVE Unsent(i) \/ i.n > asked
  <2>1. CASE i.c = c
    <3>1. out'[c].id.n = asked + 1
      BY <1>1 DEF TypeOK, Writers
    <3> QED
      BY <1>3, <1>4, <2>1, <3>1 DEF Unsent
  <2>2. CASE i.c # c
    BY <1>1, <1>4, <2>2 DEF Unsent, TypeOK, Id, Mine, Writers, Threads, Readers
  <2> QED
    BY <2>1, <2>2
<1> QED
  BY <1>1, <1>2, <1>3, <1>4, SentStill

LEMMA SentDie ==
  ASSUME TypeOK, TypeOK', SentOnce, NEW p \in Processes, Die(p)
  PROVE  SentOnce'
<1>1. /\ UNCHANGED <<slipped, box, pool, served, asked>> /\ (torn => torn')
      /\ fresh' = [fresh EXCEPT ![p] = FALSE]
      /\ in' = [r \in Readers |-> IF r \in Died(p) THEN None ELSE in[r]]
      /\ out' = [w \in Writers |-> IF w \in Died(p) THEN None ELSE out[w]]
      /\ pc' = [t \in Threads |-> IF t \in Died(p) THEN "idle" ELSE pc[t]]
  BY DEF Die, Died, serverVars
<1>2. /\ p # Listener /\ Listener \in Readers /\ Listener \in Threads /\ Listener \notin Died(p)
      /\ \A d \in Clients : d \in Writers /\ d \in Threads
  BY ChannelAssumption DEF Readers, Writers, Threads, Died
<1>3. /\ fresh'[Listener] = fresh[Listener] /\ in'[Listener] = in[Listener]
      /\ pc'[Listener] = pc[Listener]
  BY <1>1, <1>2 DEF TypeOK
<1>4. ASSUME NEW i \in Mine, Unsent(i)' PROVE Unsent(i)
  <2>1. i.c \in Clients
    BY DEF Mine, Id
  <2>2. \/ pc'[i.c] = "idle"
        \/ pc'[i.c] = pc[i.c] /\ out'[i.c] = out[i.c]
    BY <1>1, <1>2, <2>1
  <2> QED
    BY <1>4, <2>2 DEF Unsent
<1>5. asked \in Int
  BY DEF TypeOK
<1> QED
  BY <1>1, <1>3, <1>4, <1>5, SentStill

\* A handler: a copy goes from the list of tasks to what was carried out.
LEMMA SentServe ==
  ASSUME TypeOK, TypeOK', SentOnce, NEW h \in Handlers, Serve(h)
  PROVE  SentOnce'
<1>1. UNCHANGED <<slipped, box, fresh, in, torn, asked>>
  BY DEF Serve, lockVars, boxVars, callVars
<1>2. /\ \A v \in Clients : out'[v] = out[v] /\ pc'[v] = pc[v]
      /\ pc'[Listener] = pc[Listener]
  BY ChannelAssumption DEF Serve, Goto, TypeOK, Writers, Threads, Readers
<1>3. /\ pool \in Seq(Message) /\ pool # <<>> /\ Head(pool) \in Message /\ pool' = Tail(pool)
      /\ served' = [served EXCEPT ![Head(pool).id] = @ + 1]
  BY HeadTailProperties DEF Serve, TypeOK
<1>4. asked \in Int
  BY DEF TypeOK
<1>5. ASSUME NEW i \in Mine, Unsent(i)' PROVE Unsent(i)
  BY <1>2, <1>5 DEF Unsent, Id, Mine
<1>6. ASSUME NEW i \in Mine PROVE Copies(i)' <= Copies(i)
  <2>1. Copies(i)' = Ahead(i)' + Copied(i)' + Count(pool', i) + served'[i]
    BY CopiesNext
  <2>2. Ahead(i)' = Ahead(i) /\ Copied(i)' = Copied(i)
    BY <1>1, <1>2 DEF Ahead, Copied
  <2>3. Count(pool, i) = Count(pool', i) + (IF Head(pool).id = i THEN 1 ELSE 0)
    BY <1>3, CountTail
  <2>4. served'[i] = served[i] + (IF Head(pool).id = i THEN 1 ELSE 0)
    BY <1>3 DEF TypeOK, Mine
  <2>5. Ahead(i) \in Int /\ Copied(i) \in Int /\ Count(pool', i) \in Int /\ served[i] \in Int
    BY CopiesType, CopiesNext
  <2>6. Copies(i) = Ahead(i) + Copied(i) + Count(pool, i) + served[i]
    BY DEF Copies
  <2> QED
    BY <2>1, <2>2, <2>3, <2>4, <2>5, <2>6
<1> QED
  BY <1>1, <1>4, <1>5, <1>6, SentKept

LEMMA SentNext ==
  ASSUME TypeOK, TypeOK', OwnOut, OwnNote, LockExact, Addressed, SentOnce, [Next]_vars
  PROVE  SentOnce'
<1>1. ASSUME NEW w \in Writers, Write(w) PROVE SentOnce'
  BY <1>1, SentWrite
<1>2. ASSUME NEW c \in Clients, Read(c) PROVE SentOnce'
  BY <1>2, SentClientRead
<1>3. CASE Read(Listener)
  BY <1>3, SentListen
<1>4. ASSUME NEW p \in Processes, Die(p) PROVE SentOnce'
  BY <1>4, SentDie
<1>5. ASSUME NEW c \in Clients, NEW k \in Kinds, Call(c, k) PROVE SentOnce'
  BY <1>5, SentCall
<1>6. ASSUME NEW h \in Handlers, Serve(h) PROVE SentOnce'
  BY <1>6, SentServe
<1>7. CASE UNCHANGED vars
  <2>1. UNCHANGED <<slipped, box, pool, served, fresh, in, out, pc, torn, asked>>
    BY <1>7 DEF vars, lockVars, boxVars, callVars, serverVars
  <2>2. \A i \in Mine : Unsent(i)' => Unsent(i)
    BY <2>1 DEF Unsent
  <2>3. asked \in Int
    BY DEF TypeOK
  <2> QED
    BY <2>1, <2>2, <2>3, SentStill
<1> QED
  BY <1>1, <1>2, <1>3, <1>4, <1>5, <1>6, <1>7
  DEF Next, ClientStep, ListenerStep, HandlerStep, Writers

\* A request is carried out once, and at most twice if it slipped in between
\* the wake and the look of the listener, as long as no update of the lock was
\* lost.
THEOREM RequestIsServedOnce == Spec => []ServedOnce
<1>1. Init => SentOnce
  BY SentInit
<1>2. TypeOK /\ TypeOK' /\ OwnOut /\ OwnNote /\ LockExact /\ Addressed /\ SentOnce /\ [Next]_vars => SentOnce'
  BY SentNext
<1>3. TypeOK /\ SentOnce => ServedOnce
  <2> SUFFICES ASSUME TypeOK, SentOnce, ~torn, NEW i \in Mine
               PROVE  served[i] <= (IF i \in slipped THEN 2 ELSE 1)
    BY DEF ServedOnce, Mine
  <2>1. Copies(i) <= (IF i \in slipped THEN 2 ELSE 1)
    BY DEF SentOnce
  <2> QED
    BY <2>1, CopiesType DEF Copies
<1>4. TypeOK /\ OwnOut /\ OwnNote /\ [Next]_vars => OwnOut' /\ OwnNote'
  BY OutNext, NoteNext
<1>5. TypeOK /\ Addressed /\ ProcessReply /\ [Next]_vars => Addressed' /\ ProcessReply'
  BY OwnNext
<1>6. Init => Addressed /\ ProcessReply /\ OwnOut /\ OwnNote
  BY OutInit, NoteInit DEF Init, Addressed, ProcessReply, Readers
<1> QED
  BY <1>1, <1>2, <1>3, <1>4, <1>5, <1>6, TypeCorrect, LockIsExact, PTL DEF Spec

-----------------------------------------------------------------------------
(* Whose answer a call returns *)

\* Client c waits for an answer and has not taken one.
Waiting(c) ==
  \/ pc[c] \in {"wake", "stamp", "rload", "rstore", "look"}
  \/ pc[c] \in {"uload", "ustore"} /\ in[c] = None

\* The answers to request i that its caller can still take or has just taken:
\* those that handlers are about to send, the one in the box, the one copied.
Senders(i) == {h \in Handlers : out[h].id = i /\ pc[h] \in {"token", "take", "wtest", "wset", "store"}}
InBox(i) == IF box.data.kind = "reply" /\ box.data.id = i /\ Waiting(i.c) THEN 1 ELSE 0
Taken(i) == IF in[i.c].id = i THEN 1 ELSE 0
Replies(i) == Cardinality(Senders(i)) + InBox(i) + Taken(i)

\* Transfer i was asked for and not yet carried out.
Request(i) == [id |-> i, kind |-> "transfer"]
Alive(i) ==
  \/ box.data = Request(i) /\ (fresh[Listener] \/ pc[Listener] \in {"stamp", "rload", "rstore", "look"})
  \/ in[Listener] = Request(i)
  \/ \E k \in 1..Len(pool) : pool[k] = Request(i)

\* Request i has or will have an answer that is not dealt with.
Pending(i) == Alive(i) \/ Replies(i) > 0

\* Where a client is tells what it holds.
Busy ==
  /\ \A c \in Clients :
       /\ pc[c] = "idle" => out[c] = None
       /\ pc[c] \in {"wunlock", "wake", "stamp", "rload", "rstore", "look", "uload", "ustore"} => out[c] # None
       /\ in[c] # None => pc[c] \in {"uload", "ustore"}
       /\ out[c] # None => out[c].id.life = life[Process[c]]
  /\ ~torn => \A c \in Clients : Alone(c) /\ pc[c] = "wunlock" => box.data = out[c]

Exception(c, n) == \E j \in gaveUp \cup slipped : j.c = c /\ j.life = life[Process[c]] /\ j.n <= n

\* What is pending of a client in its present life is its present call, unless
\* it gave up a call before or had one carried out twice.
Settled ==
  ~torn => \A i \in Mine :
    /\ Replies(i) <= served[i]
    /\ Pending(i) =>
         /\ i.life <= life[Process[i.c]]
         /\ out[i.c].id = i => out[i.c].kind = "transfer"
         /\ out[i.c] # None => i.n <= out[i.c].id.n
         /\ i.life = life[Process[i.c]] /\ out[i.c].id # i => Exception(i.c, i.n)

\* What was given up, or slipped in, is a request.
Recorded == gaveUp \cup slipped \subseteq Id

LEMMA RepliesType ==
  ASSUME TypeOK, NEW i \in Mine
  PROVE  /\ IsFiniteSet(Senders(i)) /\ Cardinality(Senders(i)) \in Nat
         /\ InBox(i) \in 0..1 /\ Taken(i) \in 0..1 /\ Replies(i) \in Nat
<1>1. IsFiniteSet(Senders(i)) /\ Cardinality(Senders(i)) \in Nat
  BY ChannelAssumption, FS_Subset, FS_CardinalityType DEF Senders
<1>2. InBox(i) \in 0..1 /\ Taken(i) \in 0..1
  BY DEF InBox, Taken
<1> QED
  BY <1>1, <1>2 DEF Replies

\* The same after a step.
LEMMA RepliesNext ==
  ASSUME NEW i \in Mine
  PROVE  /\ Senders(i)' = {h \in Handlers : out'[h].id = i /\ pc'[h] \in {"token", "take", "wtest", "wset", "store"}}
         /\ IsFiniteSet(Senders(i)') /\ Cardinality(Senders(i)') \in Nat
         /\ InBox(i)' \in 0..1 /\ Taken(i)' \in 0..1 /\ Replies(i)' \in Nat
         /\ Replies(i)' = Cardinality(Senders(i)') + InBox(i)' + Taken(i)'
<1>1. Senders(i)' = {h \in Handlers : out'[h].id = i /\ pc'[h] \in {"token", "take", "wtest", "wset", "store"}}
  BY DEF Senders
<1>2. IsFiniteSet(Senders(i)') /\ Cardinality(Senders(i)') \in Nat
  BY <1>1, ChannelAssumption, FS_Subset, FS_CardinalityType
<1>3. InBox(i)' \in 0..1 /\ Taken(i)' \in 0..1
  BY DEF InBox, Taken
<1>4. Replies(i)' = Cardinality(Senders(i)') + InBox(i)' + Taken(i)'
  BY DEF Replies
<1> QED
  BY <1>1, <1>2, <1>3, <1>4

\* No handler begins to send an answer to i.
NoneBegins(i) ==
  \A h \in Handlers :
    out'[h].id = i /\ pc'[h] \in {"token", "take", "wtest", "wset", "store"}
      => out[h].id = i /\ pc[h] \in {"token", "take", "wtest", "wset", "store"}

LEMMA SendersLess ==
  ASSUME TypeOK, NEW i \in Mine, NoneBegins(i)
  PROVE  Cardinality(Senders(i)') <= Cardinality(Senders(i))
<1>1. Senders(i)' \subseteq Senders(i)
  BY RepliesNext DEF Senders, NoneBegins
<1> QED
  BY <1>1, RepliesType, FS_Subset

LEMMA RepliesLess ==
  ASSUME TypeOK, NEW i \in Mine, NoneBegins(i), box' = box,
         Waiting(i.c)' => Waiting(i.c), in'[i.c] \in {in[i.c], None}
  PROVE  Replies(i)' <= Replies(i)
<1>1. InBox(i)' <= InBox(i)
  BY DEF InBox
<1>2. Taken(i)' <= Taken(i)
  BY ChannelAssumption DEF Taken, None, Id, Mine
<1>3. Cardinality(Senders(i)') <= Cardinality(Senders(i))
  BY SendersLess
<1> QED
  BY <1>1, <1>2, <1>3, RepliesType, RepliesNext DEF Replies

\* A request that lives is one of its copies.
LEMMA AliveCounted ==
  ASSUME TypeOK, NEW i \in Mine, Alive(i)
  PROVE  Copies(i) >= served[i] + 1
<1>1. /\ Ahead(i) \in 0..2 /\ Copied(i) \in 0..1 /\ Count(pool, i) \in Nat /\ served[i] \in Nat
      /\ Copies(i) = Ahead(i) + Copied(i) + Count(pool, i) + served[i]
  BY CopiesType DEF Copies
<1>2. CASE box.data = Request(i) /\ (fresh[Listener] \/ pc[Listener] \in {"stamp", "rload", "rstore", "look"})
  <2>1. Ahead(i) >= 1
    BY <1>2 DEF Ahead, Request
  <2> QED
    BY <1>1, <2>1
<1>3. CASE in[Listener] = Request(i)
  <2>1. Copied(i) = 1
    BY <1>3 DEF Copied, Request
  <2> QED
    BY <1>1, <2>1
<1>4. CASE \E k \in 1..Len(pool) : pool[k] = Request(i)
  <2>1. PICK k \in 1..Len(pool) : pool[k] = Request(i)
    BY <1>4
  <2>2. k \in Places(pool, i) /\ IsFiniteSet(Places(pool, i)) /\ Cardinality(Places(pool, i)) = Count(pool, i)
    <3>1. pool \in Seq(Message)
      BY DEF TypeOK
    <3>2. k \in Places(pool, i)
      BY <2>1 DEF Places, Request
    <3> QED
      BY <3>1, <3>2, CountType DEF Count
  <2>3. Count(pool, i) # 0
    BY <2>2, FS_EmptySet
  <2> QED
    BY <1>1, <2>3
<1> QED
  BY <1>2, <1>3, <1>4 DEF Alive

\* What is pending was asked for, and has been written.
LEMMA PendingCounted ==
  ASSUME TypeOK, SentOnce, Settled, ~torn, NEW i \in Mine, Pending(i)
  PROVE  Copies(i) >= 1 /\ ~Unsent(i) /\ ~(i.n > asked) /\ i.n <= asked
<1>1. Copies(i) \in Nat /\ served[i] \in Nat /\ Copies(i) >= served[i]
  BY CopiesType DEF Copies
<1>2. Copies(i) >= 1
  <2>1. CASE Alive(i)
    BY <1>1, <2>1, AliveCounted
  <2>2. CASE Replies(i) > 0
    BY <1>1, <2>2, RepliesType DEF Settled
  <2> QED
    BY <2>1, <2>2 DEF Pending
<1>3. Unsent(i) \/ i.n > asked => Copies(i) = 0
  BY DEF SentOnce
<1>4. i.n \in Int /\ asked \in Int
  BY DEF Id, Mine, TypeOK
<1> QED
  BY <1>1, <1>2, <1>3, <1>4

\* A step after which nothing is pending but what was, or the call that some
\* client is making, and that drops a call only if nothing of it is pending or
\* the exception is on record.
LEMMA SettledNext ==
  ASSUME TypeOK, Settled, torn => torn', life' = life,
         gaveUp \subseteq gaveUp', slipped \subseteq slipped',
         \A i \in Mine : Replies(i)' <= served'[i],
         \A i \in Mine : Pending(i)' =>
           \/ Pending(i)
           \/ out' = out /\ out[i.c].id = i /\ out[i.c].kind = "transfer" /\ i.life = life[Process[i.c]],
         \A c \in Clients :
           \/ out'[c] = out[c]
           \/ /\ out'[c] = None
              /\ \A i \in Mine : out[c].id = i /\ i.c = c /\ i.life = life[Process[c]] /\ Pending(i)' => Exception(c, i.n)'
  PROVE  Settled'
<1> SUFFICES ASSUME ~torn', NEW i \in Mine, Pending(i)'
             PROVE  /\ i.life <= life'[Process[i.c]]
                    /\ out'[i.c].id = i => out'[i.c].kind = "transfer"
                    /\ out'[i.c] # None => i.n <= out'[i.c].id.n
                    /\ i.life = life'[Process[i.c]] /\ out'[i.c].id # i => Exception(i.c, i.n)'
  BY DEF Settled
<1>1. i.c \in Clients /\ i.n \in Int /\ i.life \in Int /\ life[Process[i.c]] \in Int /\ i # None.id
  BY ChannelAssumption DEF TypeOK, Id, Mine, None
<1>2. Exception(i.c, i.n) => Exception(i.c, i.n)'
  BY DEF Exception
<1>3. CASE out' = out /\ out[i.c].id = i /\ out[i.c].kind = "transfer" /\ i.life = life[Process[i.c]]
  BY <1>1, <1>3
<1>4. CASE Pending(i)
  <2>1. /\ i.life <= life[Process[i.c]]
        /\ out[i.c].id = i => out[i.c].kind = "transfer"
        /\ out[i.c] # None => i.n <= out[i.c].id.n
        /\ i.life = life[Process[i.c]] /\ out[i.c].id # i => Exception(i.c, i.n)
    BY <1>4 DEF Settled
  <2>2. CASE out'[i.c] = out[i.c]
    BY <1>2, <2>1, <2>2
  <2>3. CASE /\ out'[i.c] = None
             /\ i.life = life[Process[i.c]] /\ out[i.c].id = i => Exception(i.c, i.n)'
    BY <1>1, <1>2, <2>1, <2>3
  <2> QED
    BY <1>1, <2>2, <2>3
<1> QED
  BY <1>3, <1>4

\* Where each client is, after each step.
LEMMA BusyNext ==
  ASSUME TypeOK, OwnOut, OwnNote, LockExact, LockExact', Busy, [Next]_vars
  PROVE  Busy'
<1> USE DEF lockVars, boxVars, gateVars, callVars, serverVars, Goto, Alone
<1>t. /\ \A c \in Clients : c \in Readers /\ c \in Writers /\ c \in Threads /\ c # Listener /\ c \notin Handlers
      /\ Listener \in Readers /\ Listener \in Threads /\ \A h \in Handlers : h \in Writers /\ h \in Threads
  BY ChannelAssumption DEF Readers, Writers, Threads
<1>1. ASSUME NEW w \in Writers, Write(w) PROVE Busy'
  <2>1. CASE TokenSeen(w) \/ TokenTake(w) \/ WriteTest(w) \/ WriteSet(w)
    <3>1. UNCHANGED <<out, in, life, box>> /\ (torn => torn')
          /\ \E l \in {"take", "wtest", "wset", "store"} : pc' = [pc EXCEPT ![w] = l]
      <4>1. CASE TokenSeen(w)
        BY <4>1 DEF TokenSeen
      <4>2. CASE TokenTake(w)
        BY <4>2 DEF TokenTake
      <4>3. CASE WriteTest(w)
        BY <4>3 DEF WriteTest
      <4>4. CASE WriteSet(w)
        BY <4>4 DEF WriteSet
      <4> QED
        BY <2>1, <4>1, <4>2, <4>3, <4>4
    <3>2. pc[w] \in {"token", "take", "wtest", "wset"}
      BY <2>1 DEF TokenSeen, TokenTake, WriteTest, WriteSet
    <3> QED
      BY <1>t, <3>1, <3>2 DEF Busy, TypeOK
  <2>2. CASE TokenTimeout(w)
    BY <1>t, <2>2 DEF TokenTimeout, Busy, TypeOK
  <2>3. CASE Store(w)
    <3>1. /\ UNCHANGED <<out, in, life, torn>> /\ pc' = [pc EXCEPT ![w] = "wunlock"]
          /\ pc[w] = "store" /\ out[w] # None
      BY <2>3 DEF Store, OwnOut
    <3>x. w \in Clients /\ Alone(w) => box'.data = out[w]
      <4>1. w \in Clients /\ Alone(w) => Text(w) = out[w]
        BY <3>1, TextOwn
      <4> QED
        BY <2>3, <4>1 DEF Store
    <3>2. ASSUME ~torn, NEW c \in Clients, pc'[c] = "wunlock", c # w PROVE FALSE
      <4>1. c \in Writing /\ w \in Writing
        BY <1>t, <3>1, <3>2 DEF TypeOK, Writing
      <4>2. Cardinality(Writing) = 1
        BY <3>2, <4>1 DEF LockExact
      <4>3. IsFiniteSet(Writing)
        BY ChannelAssumption, WritersFinite, FS_Subset DEF Writing
      <4> QED
        BY <3>2, <4>1, <4>2, <4>3, FS_Singleton
    <3>3. ~torn' => \A c \in Clients : Alone(c) /\ pc'[c] = "wunlock" => box'.data = out'[c]
      BY <3>1, <3>2, <3>x
    <3>4. /\ \A c \in Clients :
             /\ pc'[c] = "idle" => out'[c] = None
             /\ pc'[c] \in {"wunlock", "wake", "stamp", "rload", "rstore", "look", "uload", "ustore"} => out'[c] # None
             /\ in'[c] # None => pc'[c] \in {"uload", "ustore"}
             /\ out'[c] # None => out'[c].id.life = life'[Process[c]]
      BY <1>t, <3>1 DEF Busy, TypeOK
    <3> QED
      BY <3>3, <3>4 DEF Busy
  <2>4. CASE WriteUnlock(w)
    <3>1. UNCHANGED <<in, life, box, torn>> /\ pc[w] = "wunlock"
      BY <2>4 DEF WriteUnlock
    <3>2. \/ out' = out /\ pc' = [pc EXCEPT ![w] = "wake"]
          \/ out' = [out EXCEPT ![w] = None] /\ pc' = [pc EXCEPT ![w] = "idle"]
      BY <2>4 DEF WriteUnlock
    <3>3. /\ w \in Threads /\ \A c \in Clients : c # w => out'[c] = out[c] /\ pc'[c] = pc[c]
          /\ \/ (out'[w] = out[w] /\ pc'[w] = "wake")
             \/ (out'[w] = None /\ pc'[w] = "idle")
      BY <1>t, <3>2 DEF TypeOK, Writers
    <3> QED
      BY <3>1, <3>3 DEF Busy
  <2> QED
    BY <1>1, <2>1, <2>2, <2>3, <2>4 DEF Write
<1>2. ASSUME NEW r \in Readers, Read(r) PROVE Busy'
  <2>1. UNCHANGED <<life, box>> /\ (torn => torn')
    BY <1>2, ReadFrame DEF Read, Wake, Remember, ReceiveTimeout, ReadLoad, ReadStore, Look, Take, ReadUnlockLoad, ReadUnlockStore
  <2>2. CASE Wake(r) \/ Remember(r) \/ ReadLoad(r) \/ ReadStore(r)
    <3>1. UNCHANGED <<out, in>> /\ pc[r] \in {"wake", "stamp", "rload", "rstore"}
          /\ \E l \in {"stamp", "rload", "rstore", "look"} : pc' = [pc EXCEPT ![r] = l]
      BY <2>2 DEF Wake, Remember, ReadLoad, ReadStore
    <3> QED
      BY <1>t, <2>1, <3>1 DEF Busy, TypeOK
  <2>3. CASE ReceiveTimeout(r)
    BY <1>t, <2>1, <2>3 DEF ReceiveTimeout, Busy, TypeOK
  <2>4. CASE Look(r)
    <3>1. /\ UNCHANGED out /\ pc[r] = "look" /\ pc' = [pc EXCEPT ![r] = "uload"]
          /\ \A c \in Clients : c # r => in'[c] = in[c]
      BY <1>t, <2>4 DEF Look, Take, TypeOK
    <3> QED
      BY <1>t, <2>1, <3>1 DEF Busy, TypeOK
  <2>5. CASE ReadUnlockLoad(r) /\ rwCount > 0
    BY <1>t, <2>1, <2>5 DEF ReadUnlockLoad, Busy, TypeOK
  <2>6. CASE ReadUnlockStore(r) \/ (ReadUnlockLoad(r) /\ ~(rwCount > 0))
    <3>1. Leave(r) /\ pc[r] \in {"uload", "ustore"}
      BY <2>6 DEF ReadUnlockLoad, ReadUnlockStore
    <3>2. in' = [in EXCEPT ![r] = None]
      BY <3>1 DEF Leave
    <3>3. CASE r \in Clients /\ in[r] # None
      <4>1. pc' = [pc EXCEPT ![r] = "idle"] /\ out' = [out EXCEPT ![r] = None]
        BY <1>t, <3>1, <3>3 DEF Leave
      <4> QED
        BY <1>t, <2>1, <3>1, <3>2, <4>1 DEF Busy, TypeOK
    <3>4. CASE ~(r \in Clients /\ in[r] # None)
      <4>1. pc' = [pc EXCEPT ![r] = "wake"] /\ out' = out
        BY <1>t, <3>1, <3>4 DEF Leave, Readers
      <4> QED
        BY <1>t, <2>1, <3>1, <3>2, <4>1 DEF Busy, TypeOK
    <3> QED
      BY <3>3, <3>4
  <2> QED
    BY <1>2, <2>2, <2>3, <2>4, <2>5, <2>6 DEF Read
<1>3. ASSUME NEW c \in Clients, NEW k \in Kinds, Call(c, k) PROVE Busy'
  <2> DEFINE m == [id |-> [c |-> c, life |-> life[Process[c]], n |-> asked + 1], kind |-> k]
  <2>1. /\ UNCHANGED <<in, life, box, torn>> /\ pc' = [pc EXCEPT ![c] = "token"] /\ out' = [out EXCEPT ![c] = m]
        /\ pc[c] = "idle" /\ m.id.life = life[Process[c]]
    BY <1>3 DEF Call
  <2> HIDE DEF m
  <2> QED
    BY <1>t, <2>1 DEF Busy, TypeOK
<1>4. ASSUME NEW p \in Processes, Die(p) PROVE Busy'
  <2>1. /\ UNCHANGED box /\ (torn => torn') /\ life' = [life EXCEPT ![p] = @ + 1]
        /\ pc' = [t \in Threads |-> IF t \in Died(p) THEN "idle" ELSE pc[t]]
        /\ out' = [v \in Writers |-> IF v \in Died(p) THEN None ELSE out[v]]
        /\ in' = [v \in Readers |-> IF v \in Died(p) THEN None ELSE in[v]]
    BY <1>4 DEF Die, Died
  <2>2. ASSUME NEW c \in Clients
        PROVE  \/ (pc'[c] = "idle" /\ out'[c] = None /\ in'[c] = None)
               \/ (pc'[c] = pc[c] /\ out'[c] = out[c] /\ in'[c] = in[c] /\ life'[Process[c]] = life[Process[c]])
    <3>1. CASE Process[c] = p
      BY <1>t, <2>1, <3>1 DEF Died
    <3>2. CASE Process[c] # p
      BY <1>t, <2>1, <3>2 DEF Died, TypeOK, Processes
    <3> QED
      BY <3>1, <3>2
  <2> QED
    BY <2>1, <2>2 DEF Busy
<1>5. ASSUME NEW h \in Handlers, Serve(h) PROVE Busy'
  <2>1. UNCHANGED <<in, life, box, torn>> /\ \A c \in Clients : out'[c] = out[c] /\ pc'[c] = pc[c]
    BY <1>t, <1>5 DEF Serve, TypeOK
  <2> QED
    BY <2>1 DEF Busy
<1>6. CASE UNCHANGED vars
  BY <1>6 DEF vars, Busy
<1> QED
  BY <1>1, <1>2, <1>3, <1>4, <1>5, <1>6, <1>t DEF Next, ClientStep, ListenerStep, HandlerStep

\* A step that moves no answer forward and drops no call.
LEMMA SettledStill ==
  ASSUME TypeOK, Settled, ~torn', torn => torn', UNCHANGED <<box, served, life, out>>,
         gaveUp \subseteq gaveUp', slipped \subseteq slipped',
         \A i \in Mine : NoneBegins(i) /\ (Waiting(i.c)' => Waiting(i.c)) /\ in'[i.c] \in {in[i.c], None},
         \A i \in Mine : Alive(i)' => Alive(i)
  PROVE  Settled'
<1>1. ASSUME NEW i \in Mine PROVE Replies(i)' <= Replies(i) /\ Replies(i) \in Nat /\ Replies(i)' \in Nat /\ served[i] \in Nat
                                /\ Replies(i) <= served[i]
  BY RepliesLess, RepliesType, RepliesNext DEF TypeOK, Mine, Settled
<1>2. \A i \in Mine : Replies(i)' <= served'[i]
  BY <1>1
<1>3. \A i \in Mine : Pending(i)' => Pending(i)
  BY <1>1 DEF Pending
<1> QED
  BY <1>2, <1>3, SettledNext

LEMMA SettledStore ==
  ASSUME TypeOK, OwnOut, OwnNote, Busy, Settled, NEW w \in Writers, Store(w), ~torn'
  PROVE  Settled'
<1>1. /\ UNCHANGED <<served, life, out, gaveUp, in, pool>> /\ (torn => torn') /\ slipped \subseteq slipped'
      /\ pc[w] = "store" /\ out[w] # None /\ pc' = [pc EXCEPT ![w] = "wunlock"] /\ w \in Threads
      /\ box'.data = Text(w)
  <2>1. /\ UNCHANGED <<served, life, out, gaveUp, in, pool, torn>> /\ slipped \subseteq slipped'
        /\ pc[w] = "store" /\ pc' = [pc EXCEPT ![w] = "wunlock"] /\ box'.data = Text(w)
    BY DEF Store, lockVars, callVars, serverVars, Goto
  <2>2. out[w] # None
    BY <2>1 DEF OwnOut
  <2> QED
    BY <2>1, <2>2 DEF Threads, Writers, Readers
<1>2. /\ w \in Clients => out[w].id.c = w /\ out[w].kind # "reply"
      /\ w \in Handlers => out[w].kind = "reply" /\ w \notin Readers
      /\ \A v \in Threads \ {w} : pc'[v] = pc[v]
      /\ pc'[w] = "wunlock"
  BY <1>1, ChannelAssumption DEF OwnOut, TypeOK, Readers
<1>t. \A i \in Mine : Text(w).id = i \/ Text(w).kind = "reply" => Text(w) = out[w]
  <2>1. CASE Text(w) = out[w]
    BY <2>1
  <2>2. CASE w \in Clients /\ ~Alone(w) /\ Text(w).kind # "reply" /\ Text(w).id.c \in Clients /\ ~Alone(Text(w).id.c)
    BY <2>2 DEF Mine
  <2> QED
    BY <1>1, <2>1, <2>2, TextOwn
<1>3. ASSUME NEW i \in Mine
      PROVE  /\ Replies(i)' <= Replies(i) /\ Replies(i)' \in Nat /\ Replies(i) \in Nat
  <2>1. Taken(i)' = Taken(i)
    BY <1>1 DEF Taken
  <2>2. NoneBegins(i)
    BY <1>1, <1>2 DEF NoneBegins, Threads
  <2>3. CASE w \in Handlers /\ out[w].id = i
    <3>1. w \in Senders(i) /\ Senders(i)' \subseteq Senders(i) \ {w}
      BY <1>1, <1>2, <2>2, <2>3, RepliesNext DEF Senders, NoneBegins
    <3>2. Cardinality(Senders(i)') <= Cardinality(Senders(i)) - 1
      <4>1. IsFiniteSet(Senders(i)) /\ Cardinality(Senders(i) \ {w}) = Cardinality(Senders(i)) - 1
        BY <3>1, RepliesType, FS_RemoveElement
      <4> QED
        BY <3>1, <4>1, FS_Subset, FS_RemoveElement
    <3> QED
      BY <2>1, <3>2, RepliesType, RepliesNext DEF Replies
  <2>4. CASE ~(w \in Handlers /\ out[w].id = i)
    <3>1. InBox(i)' = 0
      <4>1. ~(box'.data.kind = "reply" /\ box'.data.id = i)
        BY <1>1, <1>2, <1>t, <2>4 DEF Writers
      <4> QED
        BY <4>1 DEF InBox
    <3>2. Cardinality(Senders(i)') <= Cardinality(Senders(i))
      BY <2>2, SendersLess
    <3> QED
      BY <2>1, <3>1, <3>2, RepliesType, RepliesNext DEF Replies
  <2> QED
    BY <2>3, <2>4
<1>4. \A i \in Mine : Replies(i)' <= served'[i]
  <2>1. \A i \in Mine : Replies(i) <= served[i] /\ served[i] \in Nat
    BY <1>1 DEF Settled, TypeOK, Mine
  <2> QED
    BY <1>1, <1>3, <2>1
<1>5. ASSUME NEW i \in Mine, Pending(i)', ~Pending(i)
      PROVE  out[i.c].id = i /\ out[i.c].kind = "transfer" /\ i.life = life[Process[i.c]]
  <2>1. Alive(i)' /\ ~Alive(i)
    BY <1>3, <1>5 DEF Pending
  <2>2. Text(w) = Request(i)
    BY <1>1, <2>1 DEF Alive
  <2>3. out[w] = Request(i)
    BY <1>t, <2>2 DEF Request
  <2>4. w \in Clients /\ i.c = w
    BY <1>2, <2>3 DEF Request, Writers
  <2> QED
    BY <1>1, <2>3, <2>4 DEF Busy, Request
<1> QED
  BY <1>1, <1>4, <1>5, SettledNext

LEMMA SettledWrite ==
  ASSUME TypeOK, OwnOut, OwnNote, SentOnce, Busy, Settled, NEW w \in Writers, Write(w), ~torn'
  PROVE  Settled'
<1> USE DEF lockVars, boxVars, gateVars, callVars, serverVars, Goto
<1>t. /\ \A c \in Clients : c \in Readers /\ c \in Writers /\ c \in Threads /\ c # Listener /\ c \notin Handlers
      /\ \A h \in Handlers : h \in Writers /\ h \in Threads /\ h \notin Clients /\ h # Listener
      /\ \A i \in Mine : i.c \in Clients /\ i # None.id
      /\ w \in Threads /\ w # Listener /\ Listener \in Threads
  BY ChannelAssumption DEF Readers, Writers, Threads, Id, Mine, None
<1>1. CASE TokenSeen(w) \/ TokenTake(w) \/ WriteTest(w) \/ WriteSet(w)
  <2>1. /\ UNCHANGED <<box, served, life, out, in, gaveUp, slipped, fresh, pool>> /\ (torn => torn')
        /\ \E l \in {"take", "wtest", "wset", "store"} : pc' = [pc EXCEPT ![w] = l]
    <3>1. CASE TokenSeen(w)
      BY <3>1 DEF TokenSeen
    <3>2. CASE TokenTake(w)
      BY <3>2 DEF TokenTake
    <3>3. CASE WriteTest(w)
      BY <3>3 DEF WriteTest
    <3>4. CASE WriteSet(w)
      BY <3>4 DEF WriteSet
    <3> QED
      BY <1>1, <3>1, <3>2, <3>3, <3>4
  <2>2. pc[w] \in {"token", "take", "wtest", "wset"}
    BY <1>1 DEF TokenSeen, TokenTake, WriteTest, WriteSet
  <2>3. pc'[Listener] = pc[Listener] /\ \A i \in Mine : Alive(i)' => Alive(i)
    BY <1>t, <2>1 DEF TypeOK, Alive
  <2>4. \A i \in Mine : NoneBegins(i) /\ (Waiting(i.c)' => Waiting(i.c)) /\ in'[i.c] \in {in[i.c], None}
    BY <1>t, <2>1, <2>2 DEF NoneBegins, Waiting, TypeOK
  <2> QED
    BY <2>1, <2>3, <2>4, SettledStill
<1>2. CASE Store(w)
  BY <1>2, SettledStore
<1>3. ASSUME UNCHANGED <<box, served, life, in, gaveUp, slipped, fresh, pool>>, torn => torn',
             pc'[w] = "idle", \A v \in Threads \ {w} : pc'[v] = pc[v],
             out'[w] = None, \A v \in Writers \ {w} : out'[v] = out[v],
             w \in Clients => \A i \in Mine : out[w].id = i /\ i.c = w => ~Pending(i)
      PROVE  Settled'
  <2>1. \A i \in Mine : NoneBegins(i) /\ (Waiting(i.c)' => Waiting(i.c)) /\ in'[i.c] \in {in[i.c], None}
    BY <1>t, <1>3 DEF NoneBegins, Waiting
  <2>2. \A i \in Mine : Alive(i)' => Alive(i)
    BY <1>t, <1>3 DEF Alive
  <2>3. ASSUME NEW i \in Mine PROVE Replies(i)' <= Replies(i) /\ Replies(i) \in Nat /\ Replies(i)' \in Nat /\ served[i] \in Nat
                                  /\ Replies(i) <= served[i]
    BY <1>3, <2>1, RepliesLess, RepliesType, RepliesNext DEF TypeOK, Mine, Settled
  <2>4. \A i \in Mine : Replies(i)' <= served'[i]
    BY <1>3, <2>3
  <2>5. \A i \in Mine : Pending(i)' => Pending(i)
    BY <2>2, <2>3 DEF Pending
  <2>6. ASSUME NEW c \in Clients
        PROVE  \/ out'[c] = out[c]
               \/ /\ out'[c] = None
                  /\ \A i \in Mine : out[c].id = i /\ i.c = c /\ i.life = life[Process[c]] /\ Pending(i)' => Exception(c, i.n)'
    BY <1>t, <1>3, <2>5
  <2> QED
    BY <1>3, <2>4, <2>5, <2>6, SettledNext
<1>4. CASE TokenTimeout(w)
  <2>1. w \in Clients => \A i \in Mine : out[w].id = i /\ i.c = w => ~Pending(i)
    <3> SUFFICES ASSUME w \in Clients, NEW i \in Mine, out[w].id = i, i.c = w PROVE ~Pending(i)
      OBVIOUS
    <3>1. Unsent(i)
      BY <1>4 DEF TokenTimeout, Unsent
    <3> QED
      BY <1>4, <3>1, PendingCounted DEF TokenTimeout
  <2>2. /\ UNCHANGED <<box, served, life, in, gaveUp, slipped, fresh, pool, torn>>
        /\ pc' = [pc EXCEPT ![w] = "idle"] /\ out' = [out EXCEPT ![w] = None]
    BY <1>4 DEF TokenTimeout
  <2>3. pc'[w] = "idle" /\ (\A v \in Threads \ {w} : pc'[v] = pc[v]) /\ out'[w] = None /\ \A v \in Writers \ {w} : out'[v] = out[v]
    BY <1>t, <2>2 DEF TypeOK
  <2> QED
    BY <1>3, <2>1, <2>2, <2>3
<1>5. CASE WriteUnlock(w) /\ ~(w \in Clients /\ out[w].kind = "transfer")
  <2>1. w \in Clients => \A i \in Mine : out[w].id = i /\ i.c = w => ~Pending(i)
    BY <1>5 DEF Settled, WriteUnlock
  <2>2. /\ UNCHANGED <<box, served, life, in, gaveUp, slipped, fresh, pool, torn>>
        /\ pc' = [pc EXCEPT ![w] = "idle"] /\ out' = [out EXCEPT ![w] = None]
    BY <1>5 DEF WriteUnlock
  <2>3. pc'[w] = "idle" /\ (\A v \in Threads \ {w} : pc'[v] = pc[v]) /\ out'[w] = None /\ \A v \in Writers \ {w} : out'[v] = out[v]
    BY <1>t, <2>2 DEF TypeOK
  <2> QED
    BY <1>3, <2>1, <2>2, <2>3
<1>6. CASE WriteUnlock(w) /\ w \in Clients /\ out[w].kind = "transfer"
  <2>1. /\ UNCHANGED <<box, served, life, in, gaveUp, slipped, fresh, pool, torn, out>>
        /\ pc' = [pc EXCEPT ![w] = "wake"] /\ (Alone(w) => box.data = out[w])
    BY <1>6 DEF WriteUnlock, Busy
  <2>2. pc'[w] = "wake" /\ \A v \in Threads \ {w} : pc'[v] = pc[v]
    BY <1>t, <2>1 DEF TypeOK
  <2>3. \A i \in Mine : Alive(i)' => Alive(i)
    BY <1>t, <2>1, <2>2 DEF Alive
  <2>4. ASSUME NEW i \in Mine PROVE Replies(i)' <= Replies(i) /\ Replies(i) \in Nat /\ Replies(i)' \in Nat /\ served[i] \in Nat
                                  /\ Replies(i) <= served[i]
    <3>1. NoneBegins(i)
      BY <1>t, <1>6, <2>1, <2>2 DEF NoneBegins
    <3>2. InBox(i)' <= InBox(i) /\ Taken(i)' = Taken(i)
      <4>1. Taken(i)' = Taken(i)
        BY <2>1 DEF Taken
      <4>2. CASE i.c = w
        <5>1. box'.data.kind # "reply"
          BY <1>6, <2>1, <4>2 DEF Mine
        <5> QED
          BY <4>1, <5>1, RepliesType DEF InBox
      <4>3. CASE i.c # w
        BY <1>t, <2>1, <2>2, <4>1, <4>3 DEF InBox, Waiting
      <4> QED
        BY <4>2, <4>3
    <3>3. Cardinality(Senders(i)') <= Cardinality(Senders(i))
      BY <3>1, SendersLess
    <3>4. Replies(i)' <= Replies(i)
      BY <3>2, <3>3, RepliesType, RepliesNext DEF Replies
    <3>5. Replies(i) <= served[i] /\ served[i] \in Nat
      BY <2>1 DEF Settled, TypeOK, Mine
    <3> QED
      BY <3>4, <3>5, RepliesType, RepliesNext
  <2>5. \A i \in Mine : Replies(i)' <= served'[i]
    BY <2>1, <2>4
  <2>6. \A i \in Mine : Pending(i)' => Pending(i)
    BY <2>3, <2>4 DEF Pending
  <2> QED
    BY <2>1, <2>5, <2>6, SettledNext
<1> QED
  BY <1>1, <1>2, <1>4, <1>5, <1>6 DEF Write

\* The listener does not bring a request back to life.
LEMMA AliveRead ==
  ASSUME TypeOK, NEW r \in Readers, Read(r), NEW i \in Mine, Alive(i)'
  PROVE  Alive(i)
<1> USE DEF lockVars, boxVars, gateVars, callVars, serverVars, Goto
<1>t. /\ Listener \in Readers /\ Listener \in Threads /\ Listener \notin Clients /\ r \in Threads
      /\ Request(i) # None
  BY ChannelAssumption DEF Readers, Threads, Request, None, Id, Mine
<1>1. box' = box
  BY ReadFrame
<1>2. CASE r # Listener
  <2>1. pool' = pool /\ fresh'[Listener] = fresh[Listener] /\ in'[Listener] = in[Listener] /\ pc'[Listener] = pc[Listener]
    <3>1. CASE Wake(r) \/ Remember(r)
      <4>1. Holder(r) # Listener
        BY <1>2, ChannelAssumption DEF Holder, Processes, Readers
      <4> QED
        BY <1>t, <1>2, <3>1, <4>1 DEF Wake, Remember, TypeOK
    <3>2. CASE ReceiveTimeout(r) \/ ReadLoad(r) \/ ReadStore(r)
      BY <1>t, <1>2, <3>2 DEF ReceiveTimeout, ReadLoad, ReadStore, TypeOK
    <3>3. CASE Look(r)
      BY <1>t, <1>2, <3>3 DEF Look, Take, TypeOK
    <3>4. CASE ReadUnlockLoad(r) \/ ReadUnlockStore(r)
      BY <1>t, <1>2, <3>4 DEF ReadUnlockLoad, ReadUnlockStore, Leave, TypeOK
    <3> QED
      BY <3>1, <3>2, <3>3, <3>4 DEF Read
  <2> QED
    BY <1>1, <2>1 DEF Alive
<1>3. CASE r = Listener
  <2>1. CASE Wake(r) \/ Remember(r)
    <3>1. pool' = pool /\ in' = in /\ (fresh[Listener] \/ pc[Listener] = "stamp")
      BY <1>3, <2>1 DEF Wake, Remember, Holder
    <3> QED
      BY <1>1, <3>1 DEF Alive
  <2>2. CASE ReadLoad(r) \/ ReadStore(r)
    BY <1>t, <1>1, <1>3, <2>2 DEF ReadLoad, ReadStore, Alive, TypeOK
  <2>3. CASE Look(r)
    <3>1. /\ pc[Listener] = "look" /\ pc'[Listener] = "uload" /\ pool' = pool /\ fresh' = fresh
          /\ in'[Listener] \in {in[Listener], box.data}
      BY <1>t, <1>3, <2>3 DEF Look, Take, TypeOK
    <3> QED
      BY <1>1, <3>1 DEF Alive
  <2>4. CASE ReadUnlockLoad(r) /\ rwCount > 0
    BY <1>t, <1>1, <1>3, <2>4 DEF ReadUnlockLoad, Alive, TypeOK
  <2>5. CASE ReadUnlockStore(r) \/ (ReadUnlockLoad(r) /\ ~(rwCount > 0))
    <3>1. Leave(r) /\ fresh' = fresh
      BY <2>5 DEF ReadUnlockLoad, ReadUnlockStore
    <3>2. pc'[Listener] = "wake" /\ in'[Listener] = None
      BY <1>t, <1>3, <3>1 DEF Leave, TypeOK
    <3>3. CASE in[Listener] = None
      <4>1. pool' = pool
        BY <1>3, <3>1, <3>3 DEF Leave
      <4> QED
        BY <1>t, <1>1, <3>1, <3>2, <4>1 DEF Alive
    <3>4. CASE in[Listener] # None
      <4>1. /\ pool' = Append(pool, in[Listener]) /\ in[Listener] \in Message /\ pool \in Seq(Message)
        BY <1>t, <1>3, <3>1, <3>4 DEF Leave, TypeOK
      <4>2. /\ Len(pool) \in Nat /\ Len(pool') = Len(pool) + 1 /\ pool'[Len(pool) + 1] = in[Listener]
            /\ \A k \in 1..Len(pool) : pool'[k] = pool[k]
        BY <4>1, AppendProperties, LenProperties
      <4>3. ASSUME NEW k \in 1..Len(pool'), pool'[k] = Request(i) PROVE Alive(i)
        <5>1. k = Len(pool) + 1 \/ k \in 1..Len(pool)
          BY <4>2
        <5> QED
          BY <4>2, <4>3, <5>1 DEF Alive
      <4> QED
        BY <1>t, <1>1, <3>1, <3>2, <4>3 DEF Alive
    <3> QED
      BY <3>3, <3>4
  <2>6. ~ReceiveTimeout(r)
    BY <1>t, <1>3 DEF ReceiveTimeout
  <2> QED
    BY <2>1, <2>2, <2>3, <2>4, <2>5, <2>6 DEF Read
<1> QED
  BY <1>2, <1>3

LEMMA RecordedNext ==
  ASSUME TypeOK, OwnOut, OwnNote, Busy, Recorded, [Next]_vars
  PROVE  Recorded'
<1> USE DEF lockVars, boxVars, gateVars, callVars, serverVars
<1>1. \A w \in Writers : out[w] # None => out[w].id \in Id
  BY DEF TypeOK, Message
<1>2. ASSUME NEW w \in Writers, Write(w) PROVE Recorded'
  <2>1. CASE Store(w)
    <3>1. slipped' \subseteq slipped \cup {Text(w).id} /\ gaveUp' = gaveUp /\ pc[w] = "store" /\ out[w] # None
      BY <2>1 DEF Store, OwnOut
    <3>2. CASE Text(w) = out[w]
      BY <1>1, <3>1, <3>2 DEF Recorded
    <3>3. CASE w \in Clients /\ Text(w).id.c \in Clients
      <4>1. Text(w) \in Message
        BY <3>3, TypeText, ChannelAssumption DEF None
      <4> QED
        BY <3>1, <4>1 DEF Recorded, Message
    <3> QED
      BY <3>1, <3>2, <3>3, TextOwn
  <2>2. CASE ~Store(w)
    <3>1. UNCHANGED <<gaveUp, slipped>>
      BY <1>2, <2>2 DEF Write, TokenSeen, TokenTake, TokenTimeout, WriteTest, WriteSet, WriteUnlock
    <3> QED
      BY <3>1 DEF Recorded
  <2> QED
    BY <2>1, <2>2
<1>3. ASSUME NEW r \in Readers, Read(r) PROVE Recorded'
  <2>1. slipped' = slipped
    BY <1>3, ReadFrame
  <2>2. CASE ReceiveTimeout(r)
    <3>1. gaveUp' = gaveUp \cup {out[r].id} /\ out[r] # None /\ r \in Writers
      BY <2>2 DEF ReceiveTimeout, Busy, Writers
    <3> QED
      BY <1>1, <2>1, <3>1 DEF Recorded
  <2>3. CASE ~ReceiveTimeout(r)
    <3>1. gaveUp' = gaveUp
      BY <1>3, <2>3 DEF Read, Wake, Remember, ReadLoad, ReadStore, Look, ReadUnlockLoad, ReadUnlockStore
    <3> QED
      BY <2>1, <3>1 DEF Recorded
  <2> QED
    BY <2>2, <2>3
<1>4. ASSUME \/ \E p \in Processes : Die(p)
             \/ \E c \in Clients, k \in Kinds : Call(c, k)
             \/ \E h \in Handlers : Serve(h)
             \/ UNCHANGED vars
      PROVE  Recorded'
  <2>1. UNCHANGED <<gaveUp, slipped>>
    BY <1>4 DEF Die, Call, Serve, vars
  <2> QED
    BY <2>1 DEF Recorded
<1> QED
  BY <1>2, <1>3, <1>4 DEF Next, ClientStep, ListenerStep, HandlerStep, Readers, Writers

\* A call that returns with the only answer to its own request leaves nothing
\* behind.
LEMMA SettledReturn ==
  ASSUME TypeOK, SentOnce, ProcessReply, Recorded, Busy, Settled, ~torn', torn => torn', NEW c \in Clients,
         in[c] # None, in'[c] = None, pc'[c] = "idle", out' = [out EXCEPT ![c] = None],
         UNCHANGED <<box, served, life, gaveUp, slipped>>,
         \A v \in Threads \ {c} : pc'[v] = pc[v], \A v \in Clients \ {c} : in'[v] = in[v],
         \A i \in Mine : Alive(i)' => Alive(i)
  PROVE  Settled'
<1>t. /\ \A h \in Handlers : h \in Threads /\ h # c /\ h \in Writers
      /\ \A d \in Clients : d \in Threads /\ d \in Writers
      /\ \A i \in Mine : i.c \in Clients /\ i # None.id
  BY ChannelAssumption DEF Threads, Readers, Writers, Id, Mine, None
<1>1. out'[c] = None /\ \A v \in Writers \ {c} : out'[v] = out[v]
  BY DEF TypeOK, Writers
<1>2. \A i \in Mine : NoneBegins(i) /\ (Waiting(i.c)' => Waiting(i.c)) /\ in'[i.c] \in {in[i.c], None}
  BY <1>t, <1>1 DEF NoneBegins, Waiting
<1>3. ASSUME NEW i \in Mine PROVE Replies(i)' <= Replies(i) /\ Replies(i) \in Nat /\ Replies(i)' \in Nat /\ served[i] \in Nat
                                /\ Replies(i) <= served[i]
  BY <1>2, RepliesLess, RepliesType, RepliesNext DEF TypeOK, Mine, Settled
<1>4. \A i \in Mine : Replies(i)' <= served'[i]
  BY <1>3
<1>5. \A i \in Mine : Pending(i)' => Pending(i)
  BY <1>3 DEF Pending
<1>6. ASSUME NEW i \in Mine, out[c].id = i, i.c = c, i.life = life[Process[c]], Pending(i)' PROVE Exception(c, i.n)'
  <2>1. SUFFICES Exception(c, i.n)
    BY DEF Exception
  <2>2. in[c] \in Message /\ in[c].id \in Mine /\ in[c].id.c = c /\ in[c].id.life = life[Process[c]]
    <3>1. in[c] \in Message
      BY DEF TypeOK, Readers
    <3>2. in[c].id \in Id /\ in[c].id.c \in Clients
      BY <3>1 DEF Message, Id
    <3>3. Process[in[c].id.c] = Process[c] /\ in[c].id.life = life[Process[c]]
      BY DEF ProcessReply
    <3>4. Alone(c)
      BY <1>6 DEF Mine
    <3>5. in[c].id.c = c
      BY <3>2, <3>3, <3>4 DEF Alone
    <3> QED
      BY <3>1, <3>2, <3>3, <3>4, <3>5 DEF Mine
  <2>3. CASE in[c].id = i
    <3>1. Taken(i) = 1 /\ Taken(i)' = 0
      BY <1>t, <1>6, <2>3 DEF Taken
    <3>2. CASE i \in slipped
      <4>1. i.n <= i.n
        BY DEF Id, Mine
      <4> QED
        BY <1>6, <3>2, <4>1 DEF Exception
    <3>3. CASE i \notin slipped
      <4>1. Copies(i) <= 1 /\ Copies(i) \in Nat
        BY <3>3, CopiesType DEF SentOnce
      <4>2. served[i] >= 1
        BY <3>1, <1>3, RepliesType DEF Replies
      <4>3. ~Alive(i) /\ served[i] = 1
        <5>1. Copies(i) >= served[i]
          BY CopiesType DEF Copies
        <5> QED
          BY <1>3, <4>1, <4>2, <5>1, AliveCounted
      <4>4. Cardinality(Senders(i)) = 0 /\ InBox(i) = 0
        BY <1>3, <3>1, <4>3, RepliesType DEF Replies
      <4>5. Cardinality(Senders(i)') <= 0 /\ InBox(i)' = 0
        <5>1. NoneBegins(i) /\ (Waiting(i.c)' => Waiting(i.c))
          BY <1>2
        <5>2. Cardinality(Senders(i)') <= Cardinality(Senders(i))
          BY <5>1, SendersLess
        <5>3. InBox(i)' = 0
          BY <4>4, <5>1 DEF InBox
        <5> QED
          BY <4>4, <5>2, <5>3
      <4>6. Replies(i)' = 0
        BY <3>1, <4>5, RepliesNext
      <4> QED
        BY <1>6, <4>3, <4>6 DEF Pending
    <3> QED
      BY <3>2, <3>3
  <2>4. CASE in[c].id # i
    <3> DEFINE j == in[c].id
    <3>1. j \in Mine /\ j.c = c /\ j.life = life[Process[j.c]] /\ out[j.c].id # j /\ out[j.c] # None
      BY <1>t, <1>6, <2>2, <2>4
    <3>2. Pending(j)
      <4>1. Taken(j) = 1
        BY <3>1 DEF Taken
      <4> HIDE DEF j
      <4> QED
        BY <3>1, <4>1, RepliesType DEF Pending, Replies
    <3>3. Exception(c, j.n) /\ j.n <= i.n
      <4> HIDE DEF j
      <4> QED
        BY <1>6, <3>1, <3>2 DEF Settled
    <3>4. j.n \in Int /\ i.n \in Int /\ \A e \in gaveUp \cup slipped : e.n \in Int
      BY <3>1 DEF Recorded, Id, Mine
    <3> QED
      BY <3>3, <3>4 DEF Exception
  <2> QED
    BY <2>3, <2>4
<1>7. ASSUME NEW d \in Clients
      PROVE  \/ out'[d] = out[d]
             \/ /\ out'[d] = None
                /\ \A i \in Mine : out[d].id = i /\ i.c = d /\ i.life = life[Process[d]] /\ Pending(i)' => Exception(d, i.n)'
  BY <1>t, <1>1, <1>6
<1> QED
  BY <1>4, <1>5, <1>7, SettledNext

LEMMA SettledRead ==
  ASSUME TypeOK, TypeOK', SentOnce, Addressed, ProcessReply, ProcessReply', Recorded, Busy, Settled,
         NEW r \in Readers, Read(r), ~torn'
  PROVE  Settled'
<1> USE DEF lockVars, boxVars, gateVars, callVars, serverVars, Goto
<1>t. /\ \A h \in Handlers : h \in Threads /\ h # r /\ h \in Writers
      /\ \A d \in Clients : d \in Threads /\ d \in Writers /\ d \in Readers
      /\ \A i \in Mine : i.c \in Clients /\ i # None.id
      /\ r \in Threads /\ Listener \notin Clients /\ (r \notin Clients => r = Listener)
  BY ChannelAssumption DEF Threads, Readers, Writers, Id, Mine, None
<1>1. /\ UNCHANGED <<box, served, slipped>> /\ (torn => torn')
      /\ \A i \in Mine : Alive(i)' => Alive(i)
  BY ReadFrame, AliveRead
<1>2. CASE Wake(r) \/ Remember(r) \/ ReadLoad(r) \/ ReadStore(r) \/ (ReadUnlockLoad(r) /\ rwCount > 0)
  <2>1. /\ UNCHANGED <<life, out, in, gaveUp>>
        /\ \/ /\ pc[r] \in {"wake", "stamp", "rload", "rstore"}
              /\ \E l \in {"stamp", "rload", "rstore", "look"} : pc' = [pc EXCEPT ![r] = l]
           \/ pc[r] = "uload" /\ pc' = [pc EXCEPT ![r] = "ustore"]
    BY <1>2 DEF Wake, Remember, ReadLoad, ReadStore, ReadUnlockLoad
  <2>2. \A i \in Mine : NoneBegins(i) /\ (Waiting(i.c)' => Waiting(i.c)) /\ in'[i.c] \in {in[i.c], None}
    BY <1>t, <2>1 DEF NoneBegins, Waiting, TypeOK
  <2> QED
    BY <1>1, <2>1, <2>2, SettledStill
<1>3. CASE ReceiveTimeout(r)
  <2>1. /\ r \in Clients /\ pc[r] = "wake" /\ pc' = [pc EXCEPT ![r] = "idle"] /\ out' = [out EXCEPT ![r] = None]
        /\ gaveUp' = gaveUp \cup {out[r].id} /\ UNCHANGED <<life, in>>
    BY <1>3 DEF ReceiveTimeout
  <2>2. /\ pc'[r] = "idle" /\ (\A v \in Threads \ {r} : pc'[v] = pc[v])
        /\ out'[r] = None /\ (\A v \in Writers \ {r} : out'[v] = out[v])
    BY <1>t, <2>1 DEF TypeOK
  <2>3. \A i \in Mine : NoneBegins(i) /\ (Waiting(i.c)' => Waiting(i.c)) /\ in'[i.c] \in {in[i.c], None}
    BY <1>t, <2>1, <2>2 DEF NoneBegins, Waiting
  <2>4. ASSUME NEW i \in Mine PROVE Replies(i)' <= Replies(i) /\ Replies(i) \in Nat /\ Replies(i)' \in Nat /\ served[i] \in Nat
                                  /\ Replies(i) <= served[i]
    BY <1>1, <2>3, RepliesLess, RepliesType, RepliesNext DEF TypeOK, Mine, Settled
  <2>5. \A i \in Mine : Replies(i)' <= served'[i]
    BY <1>1, <2>4
  <2>6. \A i \in Mine : Pending(i)' => Pending(i)
    BY <1>1, <2>4 DEF Pending
  <2>7. ASSUME NEW i \in Mine, out[r].id = i, i.c = r, i.life = life[Process[r]] PROVE Exception(r, i.n)'
    <3>1. i \in gaveUp' /\ i.n <= i.n
      BY <2>1, <2>7 DEF Id, Mine
    <3> QED
      BY <2>1, <2>7, <3>1 DEF Exception
  <2>8. ASSUME NEW d \in Clients
        PROVE  \/ out'[d] = out[d]
               \/ /\ out'[d] = None
                  /\ \A i \in Mine : out[d].id = i /\ i.c = d /\ i.life = life[Process[d]] /\ Pending(i)' => Exception(d, i.n)'
    BY <1>t, <2>2, <2>7
  <2> QED
    BY <1>1, <2>1, <2>5, <2>6, <2>8, SettledNext
<1>4. CASE Look(r)
  <2>1. /\ UNCHANGED <<life, out, gaveUp>> /\ pc[r] = "look" /\ pc'[r] = "uload"
        /\ \A v \in Threads \ {r} : pc'[v] = pc[v]
        /\ \A d \in Clients \ {r} : in'[d] = in[d]
    BY <1>t, <1>4 DEF Look, Take, TypeOK
  <2>2. CASE r \in Clients /\ ForMe(r)
    <3>1. in'[r] = box.data
      BY <1>4, <2>2 DEF Look, Take, TypeOK, Readers
    <3>2. ASSUME NEW i \in Mine PROVE Replies(i)' <= Replies(i) /\ Replies(i) \in Nat /\ Replies(i)' \in Nat /\ served[i] \in Nat
                                    /\ Replies(i) <= served[i]
      <4>1. NoneBegins(i)
        BY <1>t, <2>1 DEF NoneBegins
      <4>2. Cardinality(Senders(i)') <= Cardinality(Senders(i))
        BY <4>1, SendersLess
      <4>3. InBox(i)' + Taken(i)' <= InBox(i) + Taken(i)
        <5>1. CASE i.c # r
          <6>1. InBox(i)' = InBox(i) /\ Taken(i)' = Taken(i)
            BY <1>t, <1>1, <2>1, <5>1 DEF InBox, Taken, Waiting
          <6> QED
            BY <6>1, RepliesType
        <5>2. CASE i.c = r /\ box.data.id # i
          <6>1. Taken(i)' = 0 /\ InBox(i)' = 0
            BY <1>1, <3>1, <5>2 DEF Taken, InBox
          <6> QED
            BY <6>1, RepliesType
        <5>3. CASE i.c = r /\ box.data.id = i
          <6>1. in'[r] # None
            BY <1>t, <3>1, <5>3
          <6>2. box.data.kind = "reply"
            BY <2>2, <3>1, <6>1 DEF ProcessReply
          <6>3. InBox(i) = 1 /\ InBox(i)' = 0
            BY <1>1, <2>1, <5>3, <6>1, <6>2 DEF InBox, Waiting
          <6> QED
            BY <6>3, RepliesType, RepliesNext
        <5> QED
          BY <5>1, <5>2, <5>3
      <4>4. Replies(i)' <= Replies(i)
        BY <4>2, <4>3, RepliesType, RepliesNext DEF Replies
      <4>5. Replies(i) <= served[i] /\ served[i] \in Nat
        BY <1>1 DEF Settled, TypeOK, Mine
      <4> QED
        BY <4>4, <4>5, RepliesType, RepliesNext
    <3>3. \A i \in Mine : Replies(i)' <= served'[i]
      BY <1>1, <3>2
    <3>4. \A i \in Mine : Pending(i)' => Pending(i)
      BY <1>1, <3>2 DEF Pending
    <3> QED
      BY <1>1, <2>1, <3>3, <3>4, SettledNext
  <2>3. CASE ~(r \in Clients /\ ForMe(r))
    <3>1. \A d \in Clients : in'[d] = in[d]
      BY <1>t, <1>4, <2>1, <2>3 DEF Look
    <3>2. \A i \in Mine : NoneBegins(i) /\ (Waiting(i.c)' => Waiting(i.c)) /\ in'[i.c] \in {in[i.c], None}
      BY <1>t, <2>1, <3>1 DEF NoneBegins, Waiting
    <3> QED
      BY <1>1, <2>1, <3>2, SettledStill
  <2> QED
    BY <2>2, <2>3
<1>5. CASE ReadUnlockStore(r) \/ (ReadUnlockLoad(r) /\ ~(rwCount > 0))
  <2>1. Leave(r) /\ pc[r] \in {"uload", "ustore"} /\ UNCHANGED <<life, gaveUp>>
    BY <1>5 DEF ReadUnlockLoad, ReadUnlockStore
  <2>2. in'[r] = None /\ \A v \in Readers \ {r} : in'[v] = in[v]
    BY <2>1 DEF Leave, TypeOK
  <2>3. \A v \in Threads \ {r} : pc'[v] = pc[v]
    BY <2>1 DEF Leave, TypeOK
  <2>4. CASE r \in Clients /\ in[r] # None
    <3>1. pc'[r] = "idle" /\ out' = [out EXCEPT ![r] = None]
      BY <1>t, <2>1, <2>4 DEF Leave, TypeOK
    <3> QED
      BY <1>t, <1>1, <2>1, <2>2, <2>3, <2>4, <3>1, SettledReturn
  <2>5. CASE ~(r \in Clients /\ in[r] # None)
    <3>1. pc'[r] = "wake" /\ out' = out
      BY <1>t, <2>1, <2>5 DEF Leave, TypeOK
    <3>2. \A i \in Mine : NoneBegins(i) /\ (Waiting(i.c)' => Waiting(i.c)) /\ in'[i.c] \in {in[i.c], None}
      BY <1>t, <2>1, <2>2, <2>3, <2>5, <3>1 DEF NoneBegins, Waiting
    <3> QED
      BY <1>1, <2>1, <3>1, <3>2, SettledStill
  <2> QED
    BY <2>4, <2>5
<1> QED
  BY <1>2, <1>3, <1>4, <1>5 DEF Read

LEMMA SettledCall ==
  ASSUME TypeOK, SentOnce, Busy, Settled, NEW c \in Clients, NEW k \in Kinds, Call(c, k), ~torn'
  PROVE  Settled'
<1> DEFINE m == [id |-> [c |-> c, life |-> life[Process[c]], n |-> asked + 1], kind |-> k]
<1>t. /\ \A h \in Handlers : h \in Threads /\ h # c /\ h \in Writers
      /\ \A d \in Clients : d \in Threads /\ d \in Writers /\ d # Listener
      /\ \A i \in Mine : i.c \in Clients /\ i # None.id
      /\ Listener \in Threads
  BY ChannelAssumption DEF Threads, Readers, Writers, Id, Mine, None
<1>1. /\ UNCHANGED <<box, fresh, in, served, life, gaveUp, slipped, torn, pool>> /\ pc[c] = "idle" /\ out[c] = None
      /\ pc' = [pc EXCEPT ![c] = "token"] /\ out' = [out EXCEPT ![c] = m]
      /\ m.id.n = asked + 1
  BY DEF Call, lockVars, boxVars, gateVars, serverVars, Goto, Busy
<1> HIDE DEF m
<1>2. /\ pc'[c] = "token" /\ (\A v \in Threads \ {c} : pc'[v] = pc[v])
      /\ out'[c] = m /\ (\A v \in Writers \ {c} : out'[v] = out[v])
  BY <1>t, <1>1 DEF TypeOK
<1>3. ASSUME NEW i \in Mine
      PROVE  /\ Pending(i)' => Pending(i)
             /\ Replies(i)' <= served'[i]
  <2>1. NoneBegins(i) /\ (Waiting(i.c)' => Waiting(i.c)) /\ in'[i.c] \in {in[i.c], None}
    BY <1>t, <1>1, <1>2 DEF NoneBegins, Waiting
  <2>2. Alive(i)' => Alive(i)
    BY <1>t, <1>1, <1>2 DEF Alive
  <2>3. Replies(i)' <= Replies(i) /\ Replies(i) \in Nat /\ Replies(i)' \in Nat /\ served[i] \in Nat
        /\ Replies(i) <= served[i]
    BY <1>1, <2>1, RepliesLess, RepliesType, RepliesNext DEF TypeOK, Mine, Settled
  <2> QED
    BY <1>1, <2>2, <2>3 DEF Pending
<1>4. ASSUME NEW i \in Mine, Pending(i)
      PROVE  /\ i.life <= life'[Process[i.c]]
             /\ out'[i.c].id = i => out'[i.c].kind = "transfer"
             /\ out'[i.c] # None => i.n <= out'[i.c].id.n
             /\ i.life = life'[Process[i.c]] /\ out'[i.c].id # i => Exception(i.c, i.n)'
  <2>1. /\ i.life <= life[Process[i.c]]
        /\ out[i.c].id = i => out[i.c].kind = "transfer"
        /\ out[i.c] # None => i.n <= out[i.c].id.n
        /\ i.life = life[Process[i.c]] /\ out[i.c].id # i => Exception(i.c, i.n)
    BY <1>1, <1>4 DEF Settled
  <2>2. Exception(i.c, i.n) => Exception(i.c, i.n)'
    BY <1>1 DEF Exception
  <2>3. CASE i.c # c
    BY <1>t, <1>1, <1>2, <2>1, <2>2, <2>3
  <2>4. CASE i.c = c
    <3>1. i.n <= asked /\ i.n \in Int /\ asked \in Int
      <4>1. i.n <= asked
        BY <1>1, <1>4, PendingCounted
      <4> QED
        BY <4>1 DEF Id, Mine, TypeOK
    <3>2. m.id # i /\ i.n <= m.id.n
      BY <1>1, <3>1
    <3> QED
      BY <1>t, <1>1, <1>2, <2>1, <2>2, <2>4, <3>2
  <2> QED
    BY <2>3, <2>4
<1> QED
  BY <1>3, <1>4 DEF Settled

LEMMA SettledDie ==
  ASSUME TypeOK, Settled, NEW p \in Processes, Die(p), ~torn'
  PROVE  Settled'
<1>t. /\ \A h \in Handlers : h \in Threads /\ h \notin Died(p) /\ h \in Writers
      /\ \A d \in Clients : d \in Threads /\ d \in Writers /\ d # Listener /\ d \in Readers
      /\ \A d \in Clients : Process[d] \in Processes /\ (d \in Died(p) <=> Process[d] = p)
      /\ \A i \in Mine : i.c \in Clients /\ i # None.id /\ i.life \in Int
      /\ Listener \in Threads /\ Listener \in Readers /\ Listener \notin Died(p) /\ p # Listener
  BY ChannelAssumption DEF Threads, Readers, Writers, Id, Mine, None, Died, Processes
<1>1. /\ UNCHANGED <<box, served, gaveUp, slipped, pool>> /\ ~torn
      /\ fresh' = [fresh EXCEPT ![p] = FALSE]
      /\ in' = [r \in Readers |-> IF r \in Died(p) THEN None ELSE in[r]]
      /\ out' = [w \in Writers |-> IF w \in Died(p) THEN None ELSE out[w]]
      /\ pc' = [t \in Threads |-> IF t \in Died(p) THEN "idle" ELSE pc[t]]
      /\ life' = [life EXCEPT ![p] = @ + 1]
  BY DEF Die, Died, serverVars, Goto
<1>2. /\ \A d \in Clients : Process[d] = p => pc'[d] = "idle" /\ out'[d] = None /\ in'[d] = None
      /\ \A d \in Clients : Process[d] # p => /\ pc'[d] = pc[d] /\ out'[d] = out[d] /\ in'[d] = in[d]
                                              /\ life'[Process[d]] = life[Process[d]]
      /\ \A h \in Handlers : pc'[h] = pc[h] /\ out'[h] = out[h]
      /\ fresh'[Listener] = fresh[Listener] /\ pc'[Listener] = pc[Listener] /\ in'[Listener] = in[Listener]
      /\ life'[p] = life[p] + 1 /\ life[p] \in Int
  <2>1. life'[p] = life[p] + 1 /\ life[p] \in Int /\ \A q \in Processes \ {p} : life'[q] = life[q]
    BY <1>1 DEF TypeOK
  <2>2. fresh'[Listener] = fresh[Listener] /\ pc'[Listener] = pc[Listener] /\ in'[Listener] = in[Listener]
    BY <1>t, <1>1 DEF TypeOK
  <2>3. /\ \A d \in Clients : Process[d] = p => pc'[d] = "idle" /\ out'[d] = None /\ in'[d] = None
        /\ \A d \in Clients : Process[d] # p => pc'[d] = pc[d] /\ out'[d] = out[d] /\ in'[d] = in[d]
        /\ \A h \in Handlers : pc'[h] = pc[h] /\ out'[h] = out[h]
    BY <1>t, <1>1
  <2> QED
    BY <1>t, <2>1, <2>2, <2>3
<1>3. ASSUME NEW i \in Mine
      PROVE  /\ Pending(i)' => Pending(i)
             /\ Replies(i)' <= served'[i]
  <2>1. NoneBegins(i) /\ (Waiting(i.c)' => Waiting(i.c)) /\ in'[i.c] \in {in[i.c], None}
    BY <1>t, <1>1, <1>2 DEF NoneBegins, Waiting
  <2>2. Alive(i)' => Alive(i)
    BY <1>1, <1>2 DEF Alive
  <2>3. Replies(i)' <= Replies(i) /\ Replies(i) \in Nat /\ Replies(i)' \in Nat /\ served[i] \in Nat
        /\ Replies(i) <= served[i]
    BY <1>1, <2>1, RepliesLess, RepliesType, RepliesNext DEF TypeOK, Mine, Settled
  <2> QED
    BY <1>1, <2>2, <2>3 DEF Pending
<1>4. ASSUME NEW i \in Mine, Pending(i)
      PROVE  /\ i.life <= life'[Process[i.c]]
             /\ out'[i.c].id = i => out'[i.c].kind = "transfer"
             /\ out'[i.c] # None => i.n <= out'[i.c].id.n
             /\ i.life = life'[Process[i.c]] /\ out'[i.c].id # i => Exception(i.c, i.n)'
  <2>1. /\ i.life <= life[Process[i.c]]
        /\ out[i.c].id = i => out[i.c].kind = "transfer"
        /\ out[i.c] # None => i.n <= out[i.c].id.n
        /\ i.life = life[Process[i.c]] /\ out[i.c].id # i => Exception(i.c, i.n)
    BY <1>1, <1>4 DEF Settled
  <2>2. CASE Process[i.c] # p
    <3>1. life'[Process[i.c]] = life[Process[i.c]] /\ out'[i.c] = out[i.c]
      BY <1>t, <1>2, <2>2
    <3>2. Exception(i.c, i.n) => Exception(i.c, i.n)'
      BY <1>1, <3>1 DEF Exception
    <3> QED
      BY <2>1, <3>1, <3>2
  <2>3. CASE Process[i.c] = p
    BY <1>t, <1>2, <2>1, <2>3
  <2> QED
    BY <2>2, <2>3
<1> QED
  BY <1>3, <1>4 DEF Settled

LEMMA SettledServe ==
  ASSUME TypeOK, Settled, NEW h \in Handlers, Serve(h), ~torn'
  PROVE  Settled'
<1> DEFINE m == Head(pool)
<1>t. /\ \A d \in Clients : d \in Threads /\ d \in Writers /\ d # h
      /\ \A i \in Mine : i.c \in Clients /\ i # None.id
      /\ h # Listener /\ Listener \in Threads /\ h \in Writers /\ h \in Threads /\ Handlers \subseteq Threads \cap Writers
  BY ChannelAssumption DEF Threads, Readers, Writers, Id, Mine, None
<1>1. /\ UNCHANGED <<box, fresh, in, life, gaveUp, slipped, torn>> /\ pc[h] = "idle"
      /\ pool \in Seq(Message) /\ pool # <<>> /\ m \in Message /\ m.id \in Id /\ pool' = Tail(pool)
      /\ served' = [served EXCEPT ![m.id] = @ + 1]
      /\ \/ /\ m.kind = "transfer" /\ pc' = [pc EXCEPT ![h] = "token"]
            /\ out' = [out EXCEPT ![h] = [m EXCEPT !.kind = "reply"]]
         \/ m.kind # "transfer" /\ UNCHANGED <<out, pc>>
  <2>1. pool \in Seq(Message) /\ pool # <<>>
    BY DEF Serve, TypeOK
  <2>2. m \in Message
    BY <2>1, HeadTailProperties
  <2>3. m.id \in Id
    BY <2>2 DEF Message
  <2> QED
    BY <2>1, <2>2, <2>3 DEF Serve, lockVars, boxVars, callVars, Goto
<1>2. /\ \A v \in Threads \ {h} : pc'[v] = pc[v]
      /\ \A v \in Writers \ {h} : out'[v] = out[v]
  BY <1>1 DEF TypeOK
<1>3. m = [id |-> m.id, kind |-> m.kind]
  BY <1>1 DEF Message
<1>4. /\ Len(pool) \in Nat /\ Len(pool) >= 1 /\ m = pool[1] /\ Len(pool') = Len(pool) - 1
      /\ \A k \in 1..Len(pool') : pool'[k] = pool[k + 1]
  BY <1>1, HeadTailProperties, EmptySeq, LenProperties
<1> HIDE DEF m
<1>5. ASSUME NEW i \in Mine PROVE Alive(i)' => Alive(i)
  <2>1. ASSUME NEW k \in 1..Len(pool'), pool'[k] = Request(i) PROVE Alive(i)
    <3>1. k + 1 \in 1..Len(pool) /\ pool[k + 1] = Request(i)
      BY <1>4, <2>1
    <3> QED
      BY <3>1 DEF Alive
  <2> QED
    BY <1>t, <1>1, <1>2, <2>1 DEF Alive
<1>6. ASSUME NEW i \in Mine
      PROVE  InBox(i)' = InBox(i) /\ Taken(i)' = Taken(i)
  BY <1>t, <1>1, <1>2 DEF InBox, Taken, Waiting
<1>7. ASSUME NEW i \in Mine, ~(m = Request(i))
      PROVE  Replies(i)' <= Replies(i)
  <2>1. ~(out'[h].id = i /\ pc'[h] \in {"token", "take", "wtest", "wset", "store"})
    BY <1>t, <1>1, <1>3, <1>7 DEF Request, TypeOK
  <2>2. NoneBegins(i)
    BY <1>t, <1>2, <2>1 DEF NoneBegins
  <2>3. Cardinality(Senders(i)') <= Cardinality(Senders(i))
    BY <2>2, SendersLess
  <2> QED
    BY <1>6, <2>3, RepliesType, RepliesNext DEF Replies
<1>8. ASSUME NEW i \in Mine, m = Request(i)
      PROVE  Replies(i)' <= Replies(i) + 1 /\ Alive(i) /\ m.id = i
  <2>1. Senders(i)' \subseteq Senders(i) \cup {h} /\ h \notin Senders(i)
    BY <1>t, <1>1, <1>2, RepliesNext DEF Senders
  <2>2. Cardinality(Senders(i)') <= Cardinality(Senders(i)) + 1
    <3>1. /\ IsFiniteSet(Senders(i) \cup {h})
          /\ Cardinality(Senders(i) \cup {h}) = Cardinality(Senders(i)) + 1
      BY <2>1, RepliesType, FS_AddElement
    <3>2. Cardinality(Senders(i)') <= Cardinality(Senders(i) \cup {h})
      BY <2>1, <3>1, FS_Subset
    <3> QED
      BY <3>1, <3>2
  <2>3. Replies(i)' <= Replies(i) + 1
    BY <1>6, <2>2, RepliesType, RepliesNext DEF Replies
  <2>4. Alive(i)
    <3>1. 1 \in 1..Len(pool) /\ pool[1] = Request(i)
      BY <1>4, <1>8
    <3> QED
      BY <3>1 DEF Alive
  <2> QED
    BY <1>8, <2>3, <2>4 DEF Request
<1>9. ASSUME NEW i \in Mine PROVE Replies(i)' <= served'[i]
  <2>1. served[i] \in Nat /\ Replies(i) <= served[i] /\ served'[i] = IF m.id = i THEN served[i] + 1 ELSE served[i]
    BY <1>1 DEF TypeOK, Mine, Settled
  <2>2. CASE m = Request(i)
    BY <1>8, <2>1, <2>2, RepliesType, RepliesNext
  <2>3. CASE ~(m = Request(i))
    BY <1>7, <2>1, <2>3, RepliesType, RepliesNext
  <2> QED
    BY <2>2, <2>3
<1>10. ASSUME NEW i \in Mine, Pending(i)' PROVE Pending(i)
  <2>1. CASE m = Request(i)
    BY <1>8, <2>1 DEF Pending
  <2>2. CASE ~(m = Request(i))
    BY <1>5, <1>7, <1>10, <2>2, RepliesType, RepliesNext DEF Pending
  <2> QED
    BY <2>1, <2>2
<1>11. \A c \in Clients : out'[c] = out[c]
  BY <1>t, <1>2
<1> QED
  BY <1>1, <1>9, <1>10, <1>11, SettledNext

LEMMA SettledInit == Init => Settled
<1> SUFFICES ASSUME Init, NEW i \in Mine PROVE Replies(i) = 0 /\ served[i] = 0 /\ ~Pending(i)
  BY DEF Settled
<1>1. None.id # i /\ Request(i) # None /\ i.c \in Clients /\ Handlers \subseteq Writers /\ Clients \subseteq Readers
      /\ Listener \in Readers
  BY ChannelAssumption DEF None, Id, Mine, Request, Writers, Readers
<1>2. Senders(i) = {}
  BY <1>1 DEF Init, Senders
<1>3. Replies(i) = 0
  BY <1>1, <1>2, FS_EmptySet DEF Init, Replies, InBox, Taken
<1>4. ~Alive(i)
  BY <1>1 DEF Init, Alive
<1>5. served[i] = 0
  BY DEF Init, Mine
<1> QED
  BY <1>3, <1>4, <1>5 DEF Pending

\* What every step keeps.
ReplyInv == TypeOK /\ OwnOut /\ OwnNote /\ LockExact /\ Addressed /\ ProcessReply /\ SentOnce /\ Recorded /\ Busy /\ Settled

LEMMA SettledStep ==
  ASSUME ReplyInv, TypeOK', ProcessReply', [Next]_vars
  PROVE  Settled'
<1>1. CASE torn'
  BY <1>1 DEF Settled
<1>2. CASE ~torn'
  <2> USE <1>2 DEF ReplyInv
  <2>1. ASSUME NEW w \in Writers, Write(w) PROVE Settled'
    BY <2>1, SettledWrite
  <2>2. ASSUME NEW r \in Readers, Read(r) PROVE Settled'
    BY <2>2, SettledRead
  <2>3. ASSUME NEW p \in Processes, Die(p) PROVE Settled'
    BY <2>3, SettledDie
  <2>4. ASSUME NEW c \in Clients, NEW k \in Kinds, Call(c, k) PROVE Settled'
    BY <2>4, SettledCall
  <2>5. ASSUME NEW h \in Handlers, Serve(h) PROVE Settled'
    BY <2>5, SettledServe
  <2>6. CASE UNCHANGED vars
    <3>1. UNCHANGED <<box, served, life, out, in, gaveUp, slipped, fresh, pool, pc, torn>>
      BY <2>6 DEF vars, lockVars, boxVars, callVars, serverVars
    <3>2. \A i \in Mine : NoneBegins(i) /\ (Waiting(i.c)' => Waiting(i.c)) /\ in'[i.c] \in {in[i.c], None}
      BY <3>1 DEF NoneBegins, Waiting
    <3>3. \A i \in Mine : Alive(i)' => Alive(i)
      BY <3>1 DEF Alive
    <3> QED
      BY <3>1, <3>2, <3>3, SettledStill
  <2> QED
    BY <2>1, <2>2, <2>3, <2>4, <2>5, <2>6
    DEF Next, ClientStep, ListenerStep, HandlerStep, Writers, Readers
<1> QED
  BY <1>1, <1>2

\* Until an update of the lock is lost a call of a process with one thread
\* returns the answer to its own request, unless it gave up a request before, or
\* had one carried out twice: then the answer is to an earlier request.
THEOREM RepliesAreOwn == Spec => []OwnReply
<1>1. ReplyInv => OwnReply
  <2> SUFFICES ASSUME ReplyInv, NEW c \in Clients, Alone(c), in[c] # None, ~torn
               PROVE  \/ in[c].id = out[c].id
                      \/ /\ in[c].id.n < out[c].id.n
                         /\ \E i \in gaveUp \cup slipped :
                              i.c = c /\ i.life = life[Process[c]] /\ i.n < out[c].id.n
    BY DEF OwnReply
  <2> USE DEF ReplyInv
  <2>1. in[c].kind = "reply" /\ in[c].id.c = c /\ in[c].id.life = life[Process[c]]
    <3>1. in[c] \in Message
      BY DEF TypeOK, Readers
    <3>2. in[c].id.c \in Clients
      BY <3>1 DEF Message, Id
    <3>3. in[c].kind = "reply" /\ Process[in[c].id.c] = Process[c] /\ in[c].id.life = life[Process[c]]
      BY DEF ProcessReply
    <3> QED
      BY <3>2, <3>3 DEF Alone
  <2>2. /\ in[c].id \in Id /\ out[c] # None /\ out[c].id \in Id /\ out[c].id.life = life[Process[c]] /\ out[c].id.c = c
    <3>1. c \in Readers /\ c \in Writers
      BY DEF Readers, Writers
    <3>2. in[c] \in Message
      BY <3>1 DEF TypeOK
    <3>3. out[c] # None
      BY DEF Busy
    <3>4. out[c] \in Message
      BY <3>1, <3>3 DEF TypeOK
    <3>5. out[c].id.life = life[Process[c]] /\ out[c].id.c = c
      BY <3>3 DEF Busy, OwnOut
    <3> QED
      BY <3>2, <3>3, <3>4, <3>5 DEF Message
  <2> DEFINE j == in[c].id
             o == out[c].id
  <2>3. /\ j \in Mine /\ o \in Mine /\ j.c = c /\ o.c = c /\ j.life = life[Process[c]]
        /\ o.life = life[Process[c]] /\ Taken(j) = 1
    BY <2>1, <2>2 DEF Taken, Mine
  <2> HIDE DEF j, o
  <2>4. Pending(j)
    BY <2>3, RepliesType DEF Pending, Replies
  <2>5. CASE j # o
    <3>1. j.n <= o.n /\ Exception(c, j.n)
      BY <2>2, <2>3, <2>4, <2>5 DEF Settled, o
    <3>2. j.n \in Int /\ o.n \in Int /\ j.n # o.n
      BY <2>3, <2>5 DEF Id, Mine
    <3>3. j.n < o.n
      BY <3>1, <3>2
    <3>4. PICK e \in gaveUp \cup slipped : e.c = c /\ e.life = life[Process[c]] /\ e.n <= j.n
      BY <3>1 DEF Exception
    <3>5. e.n \in Int
      BY <3>4 DEF Recorded, Id, Mine
    <3>6. e.n < o.n
      BY <3>2, <3>3, <3>4, <3>5
    <3> QED
      BY <2>1, <3>3, <3>4, <3>6 DEF j, o
  <2>6. CASE j = o
    BY <2>1, <2>6 DEF j, o
  <2> QED
    BY <2>5, <2>6
<1>2. Init => OwnOut /\ OwnNote /\ Addressed /\ ProcessReply /\ SentOnce /\ Recorded /\ Busy /\ Settled
  <2> SUFFICES ASSUME Init PROVE Recorded /\ Busy /\ Addressed /\ ProcessReply
    BY OutInit, NoteInit, SentInit, SettledInit
  <2> QED
    BY ChannelAssumption DEF Init, Recorded, Busy, Addressed, ProcessReply, Readers, Writers, Threads
<1>3. ReplyInv /\ TypeOK' /\ LockExact' /\ [Next]_vars
        => OwnOut' /\ OwnNote' /\ Addressed' /\ ProcessReply' /\ Recorded' /\ Busy' /\ Settled'
  BY OutNext, NoteNext, OwnNext, RecordedNext, BusyNext, SettledStep DEF ReplyInv
<1>4. ReplyInv /\ TypeOK' /\ [Next]_vars => SentOnce'
  BY SentNext DEF ReplyInv
<1> QED
  BY <1>1, <1>2, <1>3, <1>4, TypeCorrect, LockIsExact, PTL DEF Spec, ReplyInv
=============================================================================
