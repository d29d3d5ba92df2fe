--------------------------- MODULE MessageChannel ---------------------------
(***************************************************************************)
(* ipcmsg/shmem_obj.c, ipcmsg/shmem_msg.c, shmmsg_client.c, ipcmsgsrv.c    *)
(* and the IPC_CLIENT half of transfer/spi.c: one mailbox in shared memory *)
(* through which the web server and the service tools ask the main program *)
(* for an SPI transfer.  A writer waits for a semaphore, which the         *)
(* addressee of the last message sets when it has read it; a reader waits  *)
(* for the time of the last message to change; a count of readers (-1: a   *)
(* writer) is the lock.  None of the three is changed atomically: every    *)
(* change is a load or a test and, in a later step, a store.  What is done *)
(* while the lock is held is one step, because others can only come in     *)
(* between once an update of the lock was lost (torn), and nothing is      *)
(* claimed of the mailbox from then on.  Only whether the last time stamp  *)
(* was seen matters: the time itself is the flag fresh.  The threads of a  *)
(* client process share its id, its time stamp and the one msg_buf through *)
(* which they send and receive; nothing protects the three.                *)
(***************************************************************************)
EXTENDS Integers, Sequences, FiniteSets

CONSTANTS
  Clients,    \* threads that call, of httpd.bin and of debug_tools.bin
  Process,    \* the process of each of them
  Listener,   \* the thread of ipcmsgsrv_task
  Handlers,   \* the threads of its pool
  Nobody,     \* ref_to before the first message
  Kinds,      \* what clients ask: "transfer" (answered), "post" (not answered)
  MaxCalls,   \* bound on the requests of all clients
  MaxDeaths   \* bound on the deaths of each process of clients

Processes == {Process[c] : c \in Clients}

ASSUME ChannelAssumption ==
  /\ IsFiniteSet(Clients) /\ IsFiniteSet(Handlers)
  /\ Clients \cap Handlers = {}
  /\ Listener \notin Clients \cup Handlers
  /\ Process \in [Clients -> Processes]
  /\ Listener \notin Processes
  /\ Nobody \notin Clients \cup Processes \cup {Listener}
  /\ Kinds \subseteq {"transfer", "post"}
  /\ MaxCalls \in Nat /\ MaxDeaths \in Nat

VARIABLES
  semaphore,  \* cond_writer.semaphore
  rwCount,    \* rw_lock.rw_count
  box,        \* the message: data_buf and ref_to
  fresh,      \* process or listener: cond_reader.timestamp differs from its lasttime
  life,       \* process: how often it was started, its process id
  note,       \* process: mymsgclient.msg_buf, the request msgdata points to
  asked,      \* how many requests were made
  pc, reg,    \* where each thread is; the rw_count it loaded
  out,        \* writer: the message it sends
  in,         \* reader: the message it copied, or None
  pool,       \* tasks of the thread pool, in order
  torn,       \* history: an update of rw_count was lost, or its owner died
  forced,     \* history: the semaphore was set although the mailbox was not free
  unread,     \* history: the addressee has not read the message in the box
  lost,       \* history: a message was written over an unread one
  slipped,    \* history: requests written between the wake and the look of the listener
  gaveUp,     \* history: requests whose caller timed out
  served      \* history: how often each request was carried out

lockVars == <<rwCount, torn>>
boxVars == <<box, fresh, unread, lost, slipped>>
gateVars == <<semaphore, forced>>
callVars == <<life, note, asked, gaveUp>>
serverVars == <<pool, served>>
vars == <<lockVars, boxVars, gateVars, callVars, serverVars, pc, reg, out, in>>

Readers == Clients \cup {Listener}
Writers == Clients \cup Handlers
Threads == Readers \cup Handlers

\* A request, by its caller and number; 0 stands for a text that nobody asked for.
Id == [c : Clients, life : 0..MaxDeaths, n : 0..MaxCalls]
Message == [id : Id, kind : {"transfer", "post", "reply"}]
None == [id |-> [c |-> Nobody, life |-> 0, n |-> 0], kind |-> "none"]

\* Where a message goes: a request to the program of the server, a reply to
\* the process that asked.
Address(m) == IF m.kind = "reply" THEN <<Process[m.id.c], m.id.life>> ELSE <<Listener, 0>>

Holder(r) == IF r = Listener THEN Listener ELSE Process[r]
Own(r) == <<Holder(r), IF r = Listener THEN 0 ELSE life[Process[r]]>>

\* Threads that count in rw_count, by where they are.
Reading == {t \in Readers : pc[t] \in {"look", "uload", "ustore"}}
Writing == {t \in Writers : pc[t] \in {"store", "wunlock"}}
\* Threads that took the semaphore and have not yet made their message known.
Sending == {t \in Writers : pc[t] \in {"take", "wtest", "wset", "store"}}
WakeToRead == {"rload", "rstore"}

Init ==
  /\ semaphore = 1 /\ rwCount = 0
  /\ box = [data |-> None, to |-> <<Nobody, 0>>]
  /\ fresh = [p \in Processes \cup {Listener} |-> FALSE]
  /\ life = [p \in Processes |-> 0] /\ asked = 0
  /\ note = [p \in Processes |-> [id |-> None.id, kind |-> "post"]]
  /\ pc = [t \in Threads |-> IF t = Listener THEN "wake" ELSE "idle"]
  /\ reg = [t \in Threads |-> 0]
  /\ out = [t \in Writers |-> None] /\ in = [r \in Readers |-> None]
  /\ pool = <<>>
  /\ torn = FALSE /\ forced = FALSE /\ unread = FALSE /\ lost = FALSE
  /\ slipped = {} /\ gaveUp = {} /\ served = [i \in Id |-> 0]

Goto(t, l) == pc' = [pc EXCEPT ![t] = l]

\* The text msgdata points to is freed, overwritten or replaced by NULL.
NoText(p) == note' = [note EXCEPT ![p].id = None.id]

-----------------------------------------------------------------------------
(* shmem_rw_lock, shmem_rw_unlock *)

\* Polls until no writer is inside; the value of the last test is taken for the
\* load of rw_count++ (a writer that came in between would be lost either way).
ReadLoad(r) ==
  /\ pc[r] = "rload" /\ rwCount >= 0
  /\ reg' = [reg EXCEPT ![r] = rwCount]
  /\ Goto(r, "rstore")
  /\ UNCHANGED <<lockVars, boxVars, gateVars, callVars, serverVars, out, in>>

ReadStore(r) ==
  /\ pc[r] = "rstore"
  /\ rwCount' = reg[r] + 1
  /\ torn' = (torn \/ rwCount # reg[r] \/ reg[r] < 0)
  /\ reg' = [reg EXCEPT ![r] = 0]
  /\ Goto(r, "look")
  /\ UNCHANGED <<boxVars, gateVars, callVars, serverVars, out, in>>

\* Once the lock is let go: the listener hands its message to the pool and
\* listens again, a client returns; both go round again if the message was for
\* another.
Leave(r) ==
  /\ Goto(r, IF r = Listener \/ in[r] = None THEN "wake" ELSE "idle")
  /\ pool' = IF r = Listener /\ in[r] # None THEN Append(pool, in[r]) ELSE pool
  /\ out' = IF r \in Clients /\ in[r] # None THEN [out EXCEPT ![r] = None] ELSE out
  /\ in' = [in EXCEPT ![r] = None]

ReadUnlockLoad(r) ==
  /\ pc[r] = "uload"
  /\ IF rwCount > 0
     THEN reg' = [reg EXCEPT ![r] = rwCount] /\ Goto(r, "ustore") /\ UNCHANGED <<pool, out, in>>
     ELSE Leave(r) /\ UNCHANGED reg
  /\ UNCHANGED <<lockVars, boxVars, gateVars, callVars, served>>

ReadUnlockStore(r) ==
  /\ pc[r] = "ustore"
  /\ rwCount' = reg[r] - 1
  /\ torn' = (torn \/ rwCount # reg[r])
  /\ reg' = [reg EXCEPT ![r] = 0]
  /\ Leave(r)
  /\ UNCHANGED <<boxVars, gateVars, callVars, served>>

WriteTest(w) ==
  /\ pc[w] = "wtest" /\ rwCount = 0
  /\ Goto(w, "wset")
  /\ UNCHANGED <<lockVars, boxVars, gateVars, callVars, serverVars, reg, out, in>>

WriteSet(w) ==
  /\ pc[w] = "wset"
  /\ rwCount' = -1
  /\ torn' = (torn \/ rwCount # 0)
  /\ Goto(w, "store")
  /\ UNCHANGED <<boxVars, gateVars, callVars, serverVars, reg, out, in>>

\* free(databuf) once the message is sent or given up: the pointer to it may stay.
Freed(w) ==
  IF w \in Clients /\ note[Process[w]].id = out[w].id THEN NoText(Process[w]) ELSE UNCHANGED note

\* After its message a client waits for the reply, if there is one, with NULL or
\* its own buffer in msgdata; a handler has finished its task.
WriteUnlock(w) ==
  /\ pc[w] = "wunlock"
  /\ rwCount' = IF rwCount < 0 THEN 0 ELSE rwCount
  /\ Goto(w, IF w \in Clients /\ out[w].kind = "transfer" THEN "wake" ELSE "idle")
  /\ out' = IF w \in Clients /\ out[w].kind = "transfer" THEN out
            ELSE [out EXCEPT ![w] = None]
  /\ IF w \in Clients /\ out[w].kind = "transfer" THEN NoText(Process[w]) ELSE Freed(w)
  /\ UNCHANGED <<torn, boxVars, gateVars, life, asked, gaveUp, serverVars, reg, in>>

-----------------------------------------------------------------------------
(* shmem_msg_wait and shmem_msg_send for the writers *)

\* shmem_cond_signal(cond_writer), whoever calls it.
Signal ==
  /\ semaphore' = 1
  /\ forced' = (forced \/ semaphore = 1 \/ Sending # {} \/ unread)

TokenSeen(w) ==
  /\ pc[w] = "token" /\ semaphore > 0
  /\ Goto(w, "take")
  /\ UNCHANGED <<lockVars, boxVars, gateVars, callVars, serverVars, reg, out, in>>

\* Mutant of TokenTake: counts the semaphore down instead of zeroing it.
TokenTakeDown(w) ==
  /\ pc[w] = "take"
  /\ semaphore' = semaphore - 1
  /\ forced' = (forced \/ semaphore = 0)
  /\ Goto(w, "wtest")
  /\ UNCHANGED <<lockVars, boxVars, callVars, serverVars, reg, out, in>>

\* The semaphore may have been taken by another since the test.
TokenTake(w) ==
  /\ pc[w] = "take"
  /\ semaphore' = 0
  /\ forced' = (forced \/ semaphore = 0)
  /\ Goto(w, "wtest")
  /\ UNCHANGED <<lockVars, boxVars, callVars, serverVars, reg, out, in>>

\* After five seconds the writer zeroes the semaphore, sets it and gives up;
\* the two writes are one step, for between them a writer only polls.
TokenTimeout(w) ==
  /\ pc[w] = "token" /\ semaphore <= 0
  /\ Signal
  /\ Goto(w, "idle")
  /\ out' = [out EXCEPT ![w] = None]
  /\ Freed(w)
  /\ UNCHANGED <<lockVars, boxVars, life, asked, gaveUp, serverVars, reg, in>>

\* What a writer copies: a handler its own message, a client what is in the
\* msg_buf of its process now: the request of whichever thread called last, or
\* a text that nobody asked for.
Text(w) ==
  IF w \in Handlers THEN out[w]
  ELSE LET p == Process[w] IN
       IF note[p].id = None.id
       THEN [id |-> [c |-> w, life |-> life[p], n |-> 0], kind |-> note[p].kind]
       ELSE note[p]

\* Text, ref_to and ref_from, then shmem_cond_broadcast to every reader.
Store(w) ==
  /\ pc[w] = "store"
  /\ box' = [data |-> Text(w), to |-> Address(Text(w))]
  /\ fresh' = [p \in Processes \cup {Listener} |-> TRUE]
  /\ unread' = TRUE
  /\ lost' = (lost \/ unread)
  /\ slipped' = IF Text(w).kind # "reply" /\ pc[Listener] \in WakeToRead
                THEN slipped \cup {Text(w).id} ELSE slipped
  /\ Goto(w, "wunlock")
  /\ UNCHANGED <<lockVars, gateVars, callVars, serverVars, reg, out, in>>

-----------------------------------------------------------------------------
(* shmem_msg_wait and shmem_msg_rcv for the readers *)

Wake(r) ==
  /\ pc[r] = "wake" /\ fresh[Holder(r)]
  /\ Goto(r, "stamp")
  /\ UNCHANGED <<lockVars, boxVars, gateVars, callVars, serverVars, reg, out, in>>

\* Mutant of Remember: does not remember the time of the message.
RememberNothing(r) ==
  /\ pc[r] = "stamp"
  /\ Goto(r, "rload")
  /\ UNCHANGED <<lockVars, boxVars, gateVars, callVars, serverVars, reg, out, in>>

\* The time of the last message now, for every thread of the process.
Remember(r) ==
  /\ pc[r] = "stamp"
  /\ fresh' = [fresh EXCEPT ![Holder(r)] = FALSE]
  /\ Goto(r, "rload")
  /\ UNCHANGED <<lockVars, box, unread, lost, slipped, gateVars, callVars, serverVars, reg, out, in>>

\* Mutant of ReceiveTimeout: a client without a time limit (wait_ms = 0).
ReceiveForever(c) == FALSE /\ UNCHANGED vars

\* After ten seconds a client gives up and lets a writer in; the listener
\* waits without limit.
ReceiveTimeout(c) ==
  /\ c \in Clients /\ pc[c] = "wake" /\ ~fresh[Process[c]]
  /\ Signal
  /\ gaveUp' = gaveUp \cup {out[c].id}
  /\ Goto(c, "idle")
  /\ out' = [out EXCEPT ![c] = None]
  /\ UNCHANGED <<lockVars, boxVars, life, note, asked, serverVars, reg, in>>

\* Mutant of ForMe: compares the program and not the process.
ForMyProgram(r) ==
  \/ box.to[1] = Nobody
  \/ (r = Listener) = (box.to[1] = Listener)

\* The tests of ref_to; no process id at all is for everybody.
ForMe(r) == box.to[1] = Nobody \/ box.to = Own(r)

\* Copies the message and lets the next writer in.  A client copies it to where
\* msgdata points now, which may be the request of another thread.
Take(r) ==
  /\ in' = [in EXCEPT ![r] = box.data]
  /\ IF r \in Clients THEN NoText(Process[r]) ELSE UNCHANGED note
  /\ unread' = FALSE
  /\ semaphore' = 1
  /\ forced' = (forced \/ semaphore = 1 \/ Sending # {})
  /\ UNCHANGED <<box, fresh, lost, slipped>>

\* Mutant of Look: lets the next writer in for a message that is not its own.
LookSignals(r) ==
  /\ pc[r] = "look"
  /\ IF ForMe(r) THEN Take(r)
                 ELSE semaphore' = 1 /\ UNCHANGED <<forced, boxVars, note, in>>
  /\ Goto(r, "uload")
  /\ UNCHANGED <<lockVars, life, asked, gaveUp, serverVars, reg, out>>

\* Mutant of Look: leaves the lock held for a message that is not its own.
LookKeepsLock(r) ==
  /\ pc[r] = "look"
  /\ IF ForMe(r) THEN Take(r) /\ Goto(r, "uload")
                 ELSE Goto(r, "wake") /\ UNCHANGED <<gateVars, boxVars, note, in>>
  /\ UNCHANGED <<lockVars, life, asked, gaveUp, serverVars, reg, out>>

\* Under the read lock: a message for another is left alone.
Look(r) ==
  /\ pc[r] = "look"
  /\ IF ForMe(r) THEN Take(r) ELSE UNCHANGED <<gateVars, boxVars, note, in>>
  /\ Goto(r, "uload")
  /\ UNCHANGED <<lockVars, life, asked, gaveUp, serverVars, reg, out>>

-----------------------------------------------------------------------------
(* The clients: add_spi_transfer_task, wait_spi_transfer_end; send_shmmsg   *)
(* alone for the requests that have no reply.                               *)

\* send_shmmsg puts the request into the msg_buf of the process.
Call(c, k) ==
  /\ c \in Clients /\ pc[c] = "idle" /\ asked < MaxCalls
  /\ asked' = asked + 1
  /\ out' = [out EXCEPT ![c] =
               [id |-> [c |-> c, life |-> life[Process[c]], n |-> asked + 1], kind |-> k]]
  /\ note' = [note EXCEPT ![Process[c]] = out'[c]]
  /\ Goto(c, "token")
  /\ UNCHANGED <<lockVars, boxVars, gateVars, life, gaveUp, serverVars, reg, in>>

\* A process dies at any step and starts again: a new process id, the time
\* of the last message taken for seen (shmem_msg_signal_init), the lock and the
\* semaphore as it left them.
Die(p) ==
  LET died == {c \in Clients : Process[c] = p} IN
  /\ p \in Processes /\ life[p] < MaxDeaths
  /\ life' = [life EXCEPT ![p] = @ + 1]
  /\ fresh' = [fresh EXCEPT ![p] = FALSE]
  /\ note' = [note EXCEPT ![p] = [id |-> None.id, kind |-> "post"]]
  /\ torn' = (torn \/ died \cap (Reading \cup Writing) # {})
  /\ reg' = [t \in Threads |-> IF t \in died THEN 0 ELSE reg[t]]
  /\ out' = [w \in Writers |-> IF w \in died THEN None ELSE out[w]]
  /\ in' = [r \in Readers |-> IF r \in died THEN None ELSE in[r]]
  /\ pc' = [t \in Threads |-> IF t \in died THEN "idle" ELSE pc[t]]
  /\ UNCHANGED <<rwCount, box, unread, lost, slipped, gateVars, asked, gaveUp, serverVars>>

-----------------------------------------------------------------------------
(* The server: shm_task_startup, shmmsg_task_handler *)

\* A handler carries a request out; a transfer, whether it succeeds or not,
\* is answered, and the others are not.
Serve(h) ==
  /\ h \in Handlers /\ pc[h] = "idle" /\ pool # <<>>
  /\ LET m == Head(pool) IN
       /\ served' = [served EXCEPT ![m.id] = @ + 1]
       /\ IF m.kind = "transfer"
          THEN out' = [out EXCEPT ![h] = [m EXCEPT !.kind = "reply"]] /\ Goto(h, "token")
          ELSE UNCHANGED <<out, pc>>
  /\ pool' = Tail(pool)
  /\ UNCHANGED <<lockVars, boxVars, gateVars, callVars, reg, in>>

Write(w) ==
  \/ TokenSeen(w) \/ TokenTake(w) \/ TokenTimeout(w) \/ WriteTest(w) \/ WriteSet(w)
  \/ Store(w) \/ WriteUnlock(w)

Read(r) ==
  \/ Wake(r) \/ Remember(r) \/ ReceiveTimeout(r) \/ ReadLoad(r) \/ ReadStore(r) \/ Look(r)
  \/ ReadUnlockLoad(r) \/ ReadUnlockStore(r)

ClientStep(c) == Write(c) \/ Read(c)
ListenerStep == Read(Listener)
HandlerStep(h) == Serve(h) \/ Write(h)

Next ==
  \/ \E c \in Clients : ClientStep(c) \/ \E k \in Kinds : Call(c, k)
  \/ \E p \in Processes : Die(p)
  \/ ListenerStep
  \/ \E h \in Handlers : HandlerStep(h)

Spec == Init /\ [][Next]_vars

\* The loops poll with a sleep, so a thread goes on and a time limit passes;
\* nobody need ever call.
FairSpec ==
  /\ Spec
  /\ \A c \in Clients : WF_vars(ClientStep(c))
  /\ WF_vars(ListenerStep)
  /\ \A h \in Handlers : WF_vars(HandlerStep(h))

-----------------------------------------------------------------------------
(* Properties *)

\* The types of the state.  Lost updates may take rw_count to -2 and below.
TypeOK ==
  /\ semaphore \in {0, 1}
  /\ rwCount \in Int
  /\ box.data \in Message \cup {None}
  /\ fresh \in [Processes \cup {Listener} -> BOOLEAN]
  /\ life \in [Processes -> 0..MaxDeaths] /\ asked \in 0..MaxCalls
  /\ note \in [Processes -> [id : Id \cup {None.id}, kind : {"transfer", "post"}]]
  /\ pc \in [Threads -> {"idle", "token", "take", "wtest", "wset", "store", "wunlock",
                         "wake", "stamp", "rload", "rstore", "look", "uload", "ustore"}]
  /\ reg \in [Threads -> Int]
  /\ out \in [Writers -> Message \cup {None}]
  /\ in \in [Readers -> Message \cup {None}]
  /\ pool \in Seq(Message)
  /\ served \in [Id -> Nat]

\* The lock of shmem_rw_lock: as long as no update of rw_count was lost, it
\* counts the readers inside, or is -1 with one writer and no reader inside.
LockExact ==
  ~torn => \/ Writing = {} /\ rwCount = Cardinality(Reading)
           \/ Cardinality(Writing) = 1 /\ Reading = {} /\ rwCount = -1

\* The semaphore of the mailbox: a message is written over one that its
\* addressee has not read only if the semaphore was set out of turn before (a
\* timeout of shmem_msg_send or shmem_msg_rcv, two writers that saw it set, a
\* message read twice) or the lock was broken.
UnreadIsKept == lost => forced \/ torn

\* The only thread of its process.
Alone(c) == \A d \in Clients : Process[d] = Process[c] => d = c

\* A request of a process with one thread is carried out once.  The exception
\* is the request that arrives between the moment the listener remembers the
\* time of an earlier message and its read of the box: it is carried out twice,
\* never more.
ServedOnce ==
  ~torn => \A i \in Id : Alone(i.c) => served[i] <= (IF i \in slipped THEN 2 ELSE 1)

\* A call returns an answer to a request of its own process, and of this life of
\* it, whatever its threads, timeouts and deaths do to each other.
ProcessReply ==
  \A c \in Clients : in[c] # None =>
     /\ in[c].kind = "reply"
     /\ Process[in[c].id.c] = Process[c] /\ in[c].id.life = life[Process[c]]

\* A call of a process with one thread returns the answer to its own request.
\* The exception: once a request of the process was given up, or carried out
\* twice, every later call may return the answer to an earlier request.  (With
\* more threads nothing of the kind holds: one takes the answer of the other.)
OwnReply ==
  \A c \in Clients : Alone(c) /\ in[c] # None /\ ~torn =>
     \/ in[c].id = out[c].id
     \/ /\ in[c].id.n < out[c].id.n
        /\ \E i \in gaveUp \cup slipped :
             i.c = c /\ i.life = life[Process[c]] /\ i.n < out[c].id.n

\* Every call returns, with a reply or a timeout, unless the lock is broken:
\* neither a lost message, a dead caller nor a late answer blocks the mailbox.
CallsReturn == \A c \in Clients : pc[c] # "idle" ~> pc[c] = "idle" \/ torn
=============================================================================
