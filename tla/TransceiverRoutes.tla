--------------------------- MODULE TransceiverRoutes ---------------------------
(***************************************************************************)
(* transfer/transceiver.c, the route table of sqlite3/sys_sql.c and the    *)
(* part of webmain.c that sets transceivers up, for the slots 0 to 5, whose*)
(* transceiver interface is the slot itself.  Several threads of httpd.bin *)
(* work on the same channels and routes: those that serve the requests of  *)
(* operators, the tasks that bring a restarted board up to date, and the   *)
(* monitor that initialises a new board.  The locks of a channel and of a  *)
(* route are plain bytes, tested and, in a later step, set; the counts per *)
(* interface and the register map are read and written outside of them.    *)
(*                                                                         *)
(* Four histories record what the code does not protect against, so that   *)
(* the properties can say what holds otherwise: spoiled channels were      *)
(* counted by two threads at once, or their board or a board that uses     *)
(* them was replaced; on a tangled route two threads worked at once, or    *)
(* while its board was replaced; the row of a route that is adrift was not *)
(* kept up to date, or the database failed; of a doubtful channel or route,*)
(* a board was told two things at once, or could not be told.              *)
(***************************************************************************)
EXTENDS Integers, Sequences, FiniteSets, SequencesExt

CONSTANTS
  Slots,      \* slots, by number
  Channels,   \* source channels of the boards
  Routes,     \* routes into the boards
  None,       \* 0xffff, no channel
  SlotOf,     \* the slot of a channel or route
  Rows,       \* what route tables there may be at the start
  Early,      \* slots whose boards came up first
  Webs,       \* threads of the web server
  Tasks,      \* threads of the pool
  Byte,       \* 2^8, what a char counts up to
  MaxEvents   \* bound: submissions, more routes in one, restarts, failures

Items == Channels \cup Routes

ASSUME RoutesAssumption ==
  /\ Slots \subseteq Nat /\ IsFiniteSet(Slots) /\ IsFiniteSet(Items)
  /\ Channels \cap Routes = {} /\ None \notin Items
  /\ SlotOf \in [Items -> Slots]
  /\ Rows \subseteq [Routes -> Channels \cup {None}] /\ Early \subseteq Slots
  /\ \A f \in Rows, r \in Routes : SlotOf[r] \in Early => f[r] = None
  /\ Webs \cap Tasks = {}
  /\ {Byte, MaxEvents} \subseteq Nat /\ Byte > 1

VARIABLES
  lock,      \* lock of a channel or route
  ref,       \* channel: ref_amount
  enable,    \* channel
  count,     \* channel: ref_count, by interface
  regs,      \* channel: the bits of transceiver_route_reg_map and of the FPGA
  chan,      \* route: trans_chan
  stored,    \* route: its row in transceiver_route_table
  flag,      \* slot: transceiver_flag
  run,       \* slot: transceiver[slot].run_flag
  level,     \* slot: its board is "down", "described" (run_flag 3) or "up" (4)
  changed,   \* slot: board_changed
  sync,      \* slot: sync_transceiver_route_tables added and not begun
  requests,  \* slot: setroute_list
  outbox,    \* slot: sndchan_list, by the slot it is sent to
  told,      \* what the board of a channel or route was told last
  th,        \* the web threads and tasks
  mon,       \* the monitor: where it is, and its slot
  spoiled, tangled, adrift, doubtful, \* histories, see above
  events

chans == <<ref, enable, count, regs>>
routes == <<chan, stored>>
slots == <<flag, run, level, changed, sync>>
lists == <<requests, outbox>>
hist == <<spoiled, tangled, adrift, doubtful>>
vars == <<lock, chans, routes, slots, lists, told, th, mon, hist, events>>

Threads == Webs \cup Tasks
Of(s, S) == {x \in S : SlotOf[x] = s}
Idle == [at |-> "idle", slot |-> None, route |-> None, to |-> None, old |-> None,
         seen |-> 0, val |-> {}, left |-> {}, batch |-> <<>>, after |-> "idle"]
Dead == [Idle EXCEPT !.at = "dead"]
Default(x) == IF x \in Channels THEN FALSE ELSE None
Current(x) == IF x \in Channels THEN enable[x] ELSE chan[x]
Users(c) == {r \in Routes : chan[r] = c}
NoLetters == [s \in Slots |-> [d \in Slots |-> <<>>]]

\* After the main board has booted: shared memory is cleared and every channel
\* and route initialised.  The boards in Early were described, without a row of
\* theirs, before the others are.
Init ==
  /\ lock = [x \in Items |-> FALSE] /\ ref = [c \in Channels |-> 0]
  /\ enable = [c \in Channels |-> FALSE] /\ regs = [c \in Channels |-> {}]
  /\ count = [c \in Channels |-> [s \in Slots |-> 0]]
  /\ chan = [r \in Routes |-> None] /\ stored \in Rows
  /\ flag = [s \in Slots |-> IF s \in Early THEN 2 ELSE 0]
  /\ run = [s \in Slots |-> IF s \in Early THEN "running" ELSE "stop"]
  /\ level = [s \in Slots |-> IF s \in Early THEN "up" ELSE "described"]
  /\ changed \in [Slots -> BOOLEAN] /\ \A s \in Early : ~changed[s]
  /\ sync = [s \in Slots |-> 0]
  /\ requests = [s \in Slots |-> <<>>] /\ outbox = NoLetters
  /\ told = [x \in Items |-> Default(x)]
  /\ th = [t \in Threads |-> Idle] /\ mon = [at |-> "idle", slot |-> None]
  /\ spoiled = {} /\ tangled = {} /\ adrift = {} /\ doubtful = {}
  /\ events = 0

-----------------------------------------------------------------------------
(* What a board is told (add_transceiver_channel_param) *)

\* x is in another list than that of slot s for its board, or being sent.
OnTheWay(s, x) ==
  \/ \E o \in Slots \ {s} : \E i \in DOMAIN outbox[o][SlotOf[x]] : outbox[o][SlotOf[x]][i].item = x
  \/ \E t \in Threads : \E i \in DOMAIN th[t].batch : th[t].batch[i].item = x

\* Queued for the board of x in the lists of slot s.
Tell(s, x, value) ==
  /\ outbox' = [outbox EXCEPT ![s][SlotOf[x]] = Append(@, [item |-> x, value |-> value])]
  /\ doubtful' = IF OnTheWay(s, x) THEN doubtful \cup {x} ELSE doubtful \ {x}

\* Two threads are at the counts or the register of one channel, between
\* reading and writing them.
Counting(t, c) ==
  \/ th[t].at \in {"lower", "rewriting"} /\ th[t].old = c
  \/ th[t].at = "raise" /\ th[t].to = c
Begins(t, c) ==
  spoiled' = IF \E u \in Threads \ {t} : Counting(u, c) THEN spoiled \cup {c} ELSE spoiled

Event == events < MaxEvents /\ events' = events + 1

\* The rows of the routes in S become those of rows, unless the database fails,
\* which is only printed.
Write(S, rows) ==
  \/ stored' = rows /\ adrift' = adrift \ S /\ UNCHANGED events
  \/ Event /\ adrift' = adrift \cup S /\ UNCHANGED stored
NoRow(r) == [stored EXCEPT ![r] = None]

Here(t, l) == th[t].at = l
Goto(t, l) == th' = [th EXCEPT ![t].at = l]

\* Where transceiver_route_add and transceiver_route_del return to.
Caller(t) ==
  IF t \in Tasks THEN "rows" ELSE IF th[t].after = "queue" THEN "empty" ELSE "next"
Return(t) ==
  th' = [th EXCEPT ![t] = [@ EXCEPT !.at = Caller(t), !.route = None, !.to = None,
                                    !.old = None, !.seen = 0, !.val = {}]]

-----------------------------------------------------------------------------
(* The requests of an operator (web/ajax/mux_pro_data.c) *)

\* Set_Transceiver_func, or Set_Transceiver_Multi_func_Clean, which first
\* deletes all routes of the slot.
Submit(t, s, clean) ==
  /\ Here(t, "idle") /\ Event
  /\ th' = [th EXCEPT ![t] = IF clean
       THEN [Idle EXCEPT !.at = "empty", !.slot = s, !.left = Of(s, Routes), !.after = "queue"]
       ELSE [Idle EXCEPT !.at = "queue", !.slot = s]]
  /\ UNCHANGED <<lock, chans, routes, slots, lists, told, mon, hist>>

\* add_transceiver_route, or del_transceiver_route if c is None.
Ask(t, r, c) ==
  LET s == th[t].slot
  IN /\ Here(t, "queue") /\ SlotOf[r] = s
     /\ IF requests[s] = <<>> THEN UNCHANGED events ELSE Event
     /\ requests' = [requests EXCEPT ![s] = Append(@, [route |-> r, to |-> c])]
     /\ UNCHANGED <<lock, chans, routes, slots, outbox, told, th, mon, hist>>

\* A transceiver that is not running leaves the requests in the list.
Refuse(t) ==
  /\ Here(t, "queue") /\ run[th[t].slot] # "running"
  /\ th' = [th EXCEPT ![t] = Idle]
  /\ UNCHANGED <<lock, chans, routes, slots, lists, told, mon, hist, events>>

config_transceiver(t) ==
  /\ Here(t, "queue") /\ run[th[t].slot] = "running" /\ requests[th[t].slot] # <<>>
  /\ Goto(t, "next")
  /\ UNCHANGED <<lock, chans, routes, slots, lists, told, mon, hist, events>>

\* An empty list, even one that somebody else has just emptied, makes the
\* board forget its routes.
clean_slot_transceiver_params(t) ==
  LET s == th[t].slot
  IN /\ Here(t, "queue") /\ run[s] = "running" /\ requests[s] = <<>>
     /\ told' = [x \in Items |-> IF x \in Of(s, Routes) THEN None ELSE told[x]]
     /\ doubtful' = doubtful \cup Of(s, Routes)
     /\ th' = [th EXCEPT ![t] = Idle]
     /\ UNCHANGED <<lock, chans, routes, slots, lists, mon, spoiled, tangled, adrift, events>>

\* The first tests of transceiver_route_add and _del come before their locks.
Same(r, c) == chan[r] = c
Begin(t, r, c) ==
  th' = [th EXCEPT ![t] = [@ EXCEPT !.at = "route", !.route = r, !.to = c]]

Dequeue(t) ==
  LET s == th[t].slot
      q == Head(requests[s])
  IN /\ Here(t, "next") /\ requests[s] # <<>>
     /\ requests' = [requests EXCEPT ![s] = Tail(@)]
     /\ IF Same(q.route, q.to) THEN UNCHANGED th ELSE Begin(t, q.route, q.to)
     /\ UNCHANGED <<lock, chans, routes, slots, outbox, told, mon, hist, events>>

SendFrom(t, after) ==
  th' = [th EXCEPT ![t] = [@ EXCEPT !.at = "send", !.left = Slots, !.after = after]]

Dequeued(t) ==
  /\ Here(t, "next") /\ requests[th[t].slot] = <<>>
  /\ SendFrom(t, "idle")
  /\ UNCHANGED <<lock, chans, routes, slots, lists, told, mon, hist, events>>

\* empty_transceiver_route, which does not look at run_flag.
EmptyNext(t, r) ==
  /\ Here(t, "empty") /\ r \in th[t].left
  /\ th' = [th EXCEPT ![t] = [@ EXCEPT !.left = th[t].left \ {r},
                                       !.at = IF Same(r, None) THEN "empty" ELSE "route",
                                       !.route = IF Same(r, None) THEN None ELSE r]]
  /\ UNCHANGED <<lock, chans, routes, slots, lists, told, mon, hist, events>>

Emptied(t) ==
  /\ Here(t, "empty") /\ th[t].left = {}
  /\ SendFrom(t, "queue")
  /\ UNCHANGED <<lock, chans, routes, slots, lists, told, mon, hist, events>>

-----------------------------------------------------------------------------
(* transceiver_route_add (to is a channel) and transceiver_route_del (None) *)

route(t) == th[t].route
Source(t) == IF Here(t, "newFree") THEN th[t].to ELSE th[t].old

\* A lock is tested until it is 0 and then set, whoever has set it meanwhile.
Seen(t, x, from, to) ==
  /\ Here(t, from) /\ ~lock[x]
  /\ Goto(t, to)
  /\ UNCHANGED <<lock, chans, routes, slots, lists, told, mon, hist, events>>

RouteSeen(t) == Seen(t, route(t), "route", "routeFree")
OldSeen(t) == Seen(t, th[t].old, "old", "oldFree")
NewSeen(t) == Seen(t, th[t].to, "new", "newFree")

\* Two threads with the same route undo each other's work.
Tangle(cond, r) ==
  IF cond THEN spoiled' = Channels /\ tangled' = tangled \cup {r}
  ELSE UNCHANGED <<spoiled, tangled>>

\* Mutant of RouteTake: the row of a deleted route stays.
RouteTakeKeepsRow(t) ==
  LET r == route(t)
      del == th[t].to = None
  IN /\ Here(t, "routeFree") /\ ~(del /\ chan[r] = None)
     /\ lock' = [lock EXCEPT ![r] = TRUE]
     /\ UNCHANGED stored
     /\ Tangle(lock[r] \/ \E u \in Threads : Here(u, "rewriting") /\ route(u) = r, r)
     /\ th' = [th EXCEPT ![t] = [@ EXCEPT !.old = chan[r],
                                          !.at = IF chan[r] = None THEN "new" ELSE "old"]]
     /\ UNCHANGED <<chans, chan, slots, lists, told, mon, adrift, doubtful, events>>

RouteTake(t) ==
  LET r == route(t)
      del == th[t].to = None
  IN /\ Here(t, "routeFree") /\ ~(del /\ chan[r] = None)
     /\ lock' = [lock EXCEPT ![r] = TRUE]
     /\ IF del THEN Write({r}, NoRow(r)) ELSE UNCHANGED <<stored, adrift, events>>
     /\ Tangle(lock[r] \/ \E u \in Threads : Here(u, "rewriting") /\ route(u) = r, r)
     /\ th' = [th EXCEPT ![t] = [@ EXCEPT !.old = chan[r],
                                          !.at = IF chan[r] = None THEN "new" ELSE "old"]]
     /\ UNCHANGED <<chans, chan, slots, lists, told, mon, doubtful>>

\* The route was deleted since it was tested: the channel is a null pointer,
\* and httpd.bin dies with whatever it has locked.
NullChannel(t) ==
  /\ Here(t, "routeFree") /\ th[t].to = None /\ chan[route(t)] = None
  /\ lock' = [lock EXCEPT ![route(t)] = TRUE]
  /\ Write({route(t)}, NoRow(route(t)))
  /\ th' = [u \in Threads |-> Dead] /\ mon' = [at |-> "dead", slot |-> None]
  /\ requests' = [s \in Slots |-> <<>>] /\ outbox' = NoLetters
  /\ sync' = [s \in Slots |-> 0]
  /\ spoiled' = Channels /\ tangled' = Routes
  /\ UNCHANGED <<doubtful, chans, chan, flag, run, level, changed, told>>

ChannelTake(t, from, to) ==
  LET c == Source(t)
  IN /\ Here(t, from)
     /\ lock' = [lock EXCEPT ![c] = TRUE]
     /\ spoiled' = IF lock[c] THEN spoiled \cup {c} ELSE spoiled
     /\ th' = [th EXCEPT ![t] = [@ EXCEPT !.at = to, !.seen = ref[c]]]
     /\ UNCHANGED <<chans, routes, slots, lists, told, mon, tangled, adrift, doubtful, events>>

OldTake(t) == ChannelTake(t, "oldFree", "oldHeld")
NewTake(t) == ChannelTake(t, "newFree", "newHeld")

\* The counts of the slot and the register are read.
ReadCounts(t, to, c) ==
  /\ th' = [th EXCEPT ![t] = [@ EXCEPT !.at = to, !.seen = count[c][th[t].slot], !.val = regs[c]]]
  /\ Begins(t, c)

\* transceiver_route_del unlocks the channel before the counts.
OldPut(t) ==
  LET c == th[t].old
  IN /\ Here(t, "oldHeld")
     /\ ref' = [ref EXCEPT ![c] = th[t].seen - 1]
     /\ IF th[t].seen <= 1
        THEN enable' = [enable EXCEPT ![c] = FALSE] /\ Tell(th[t].slot, c, FALSE)
        ELSE UNCHANGED <<enable, outbox, doubtful>>
     /\ lock' = IF th[t].to = None THEN [lock EXCEPT ![c] = FALSE] ELSE lock
     /\ ReadCounts(t, "lower", c)
     /\ UNCHANGED <<count, regs, routes, slots, requests, told, mon, tangled, adrift, events>>

\* Mutant of LowerCount: the register is cleaned one user too late.
LowerCountLate(t) ==
  LET c == th[t].old
      less == (th[t].seen + Byte - 1) % Byte
  IN /\ count' = [count EXCEPT ![c][th[t].slot] = less]
     /\ regs' = IF less < 0 THEN [regs EXCEPT ![c] = th[t].val \ {th[t].slot}] ELSE regs

\* A char has no sign here: 0 becomes Byte - 1, and the register stays.
LowerCount(t) ==
  LET c == th[t].old
      less == (th[t].seen + Byte - 1) % Byte
  IN /\ count' = [count EXCEPT ![c][th[t].slot] = less]
     /\ regs' = IF less <= 0 THEN [regs EXCEPT ![c] = th[t].val \ {th[t].slot}] ELSE regs

\* Mutant of LeaveOld: the channel stays locked.
LeaveLocked(t) ==
  /\ Here(t, "lower") /\ th[t].to # None
  /\ LowerCount(t)
  /\ stored' = [stored EXCEPT ![route(t)] = None]
  /\ th' = [th EXCEPT ![t] = [@ EXCEPT !.at = "new", !.old = None, !.seen = 0, !.val = {}]]
  /\ UNCHANGED <<lock, ref, enable, chan, slots, lists, told, mon, hist, events>>

\* The row of a route that gets another channel is deleted.
LeaveOld(t) ==
  /\ Here(t, "lower") /\ th[t].to # None
  /\ LowerCount(t)
  /\ Write({route(t)}, NoRow(route(t)))
  /\ lock' = [lock EXCEPT ![th[t].old] = FALSE]
  /\ th' = [th EXCEPT ![t] = [@ EXCEPT !.at = "new", !.old = None, !.seen = 0, !.val = {}]]
  /\ UNCHANGED <<ref, enable, chan, slots, lists, told, mon, spoiled, tangled, doubtful>>

\* The first user of a channel enables it.
NewPut(t) ==
  LET c == th[t].to
  IN /\ Here(t, "newHeld")
     /\ ref' = [ref EXCEPT ![c] = th[t].seen + 1]
     /\ IF ~enable[c]
        THEN enable' = [enable EXCEPT ![c] = TRUE] /\ Tell(th[t].slot, c, TRUE)
        ELSE UNCHANGED <<enable, outbox, doubtful>>
     /\ lock' = [lock EXCEPT ![c] = FALSE]
     /\ th' = [th EXCEPT ![t] = [@ EXCEPT !.at = "point", !.seen = 0]]
     /\ UNCHANGED <<count, regs, routes, slots, requests, told, mon, spoiled, tangled, adrift, events>>

PointRoute(t) ==
  /\ Here(t, "point")
  /\ chan' = [chan EXCEPT ![route(t)] = th[t].to]
  /\ Tell(th[t].slot, route(t), th[t].to)
  /\ ReadCounts(t, "raise", th[t].to)
  /\ UNCHANGED <<lock, chans, stored, slots, requests, told, mon, tangled, adrift, events>>

RaiseCount(t) ==
  LET c == th[t].to
  IN /\ count' = [count EXCEPT ![c][th[t].slot] = IF th[t].seen <= 0 THEN 1 ELSE (@ + 1) % Byte]
     /\ regs' = [regs EXCEPT ![c] = th[t].val \cup {th[t].slot}]

\* save_transceiver_route, unless the board is still being brought up to date.
SaveRoute(t) ==
  LET r == route(t)
  IN /\ Here(t, "raise")
     /\ RaiseCount(t)
     /\ IF flag[th[t].slot] = 2
        THEN Write({r}, [stored EXCEPT ![r] = chan[r]])
        ELSE /\ adrift' = IF stored[r] = chan[r] THEN adrift ELSE adrift \cup {r}
             /\ UNCHANGED <<stored, events>>
     /\ lock' = [lock EXCEPT ![r] = FALSE]
     /\ Return(t)
     /\ UNCHANGED <<ref, enable, chan, slots, lists, told, mon, spoiled, tangled, doubtful>>

UnpointRoute(t) ==
  LET r == route(t)
  IN /\ Here(t, "lower") /\ th[t].to = None
     /\ LowerCount(t)
     /\ chan' = [chan EXCEPT ![r] = None]
     /\ Tell(th[t].slot, r, None)
     /\ lock' = [lock EXCEPT ![r] = FALSE]
     /\ Return(t)
     /\ UNCHANGED <<ref, enable, stored, slots, requests, told, mon, spoiled, tangled, adrift, events>>

-----------------------------------------------------------------------------
(* send_transceiver_params *)

Full(t) == {d \in th[t].left : outbox[th[t].slot][d] # <<>>}

\* The list of the next board that has one is emptied, and sent.
TakeBatch(t) ==
  LET s == th[t].slot
      d == CHOOSE x \in Full(t) : \A y \in Full(t) : x <= y
  IN /\ Here(t, "send") /\ Full(t) # {}
     /\ outbox' = [outbox EXCEPT ![s][d] = <<>>]
     /\ th' = [th EXCEPT ![t] = [@ EXCEPT !.left = {x \in th[t].left : x > d}, !.batch = outbox[s][d], !.at = "post"]]
     /\ UNCHANGED <<lock, chans, routes, slots, requests, told, mon, hist, events>>

To(t) == SlotOf[th[t].batch[1].item]
Sent(t) == th' = [th EXCEPT ![t] = [@ EXCEPT !.at = "send", !.batch = <<>>]]

Says(b, x) == {i \in DOMAIN b : b[i].item = x}
LastWord(b, x) == b[CHOOSE i \in Says(b, x) : \A j \in Says(b, x) : j <= i].value

PostBatch(t) ==
  LET b == th[t].batch
  IN /\ Here(t, "post") /\ level[To(t)] # "down"
     /\ told' = [x \in Items |-> IF Says(b, x) # {} THEN LastWord(b, x) ELSE told[x]]
     /\ Sent(t)
     /\ UNCHANGED <<lock, chans, routes, slots, lists, mon, hist, events>>

\* A transfer that fails is not repeated.
LoseBatch(t) ==
  LET up == level[To(t)] # "down"
  IN /\ Here(t, "post")
     /\ IF up THEN Event ELSE UNCHANGED events
     /\ doubtful' = IF up THEN doubtful \cup {x \in Items : Says(th[t].batch, x) # {}} ELSE doubtful
     /\ Sent(t)
     /\ UNCHANGED <<lock, chans, routes, slots, lists, told, mon, spoiled, tangled, adrift>>

AllSent(t) ==
  /\ Here(t, "send") /\ Full(t) = {} /\ t \in Webs
  /\ th' = [th EXCEPT ![t] = IF @.after = "queue" THEN [Idle EXCEPT !.at = "queue", !.slot = th[t].slot]
                             ELSE Idle]
  /\ UNCHANGED <<lock, chans, routes, slots, lists, told, mon, hist, events>>

-----------------------------------------------------------------------------
(* sync_transceiver_route_tables *)

\* The stored routes are used only if the board is the one they were made for
\* and is not being described again.
StartSync(t, s) ==
  /\ Here(t, "idle") /\ t \in Tasks /\ sync[s] > 0
  /\ sync' = [sync EXCEPT ![s] = @ - 1]
  /\ \E at \in IF flag[s] # 1 THEN {"rewrite"} ELSE {"rows"} \cup (IF level[s] = "down" THEN {"channels"} ELSE {}) :
       th' = [th EXCEPT ![t] = [Idle EXCEPT !.at = at, !.slot = s, !.left = Of(s, Routes)]]
  /\ UNCHANGED <<lock, chans, routes, flag, run, level, changed, lists, told, mon, hist, events>>

\* select_transceiver_routetable: the next row.
SelectRow(t, r) ==
  /\ Here(t, "rows") /\ r \in th[t].left /\ stored[r] # None
  /\ th' = [th EXCEPT ![t] =
       IF Same(r, stored[r]) THEN [@ EXCEPT !.left = th[t].left \ {r}]
       ELSE [@ EXCEPT !.left = th[t].left \ {r}, !.at = "route", !.route = r, !.to = stored[r]]]
  /\ UNCHANGED <<lock, chans, routes, slots, lists, told, mon, hist, events>>

\* The database fails before the first row or between two: the rest is left out,
\* and nobody is told.
SelectFails(t) ==
  /\ Here(t, "rows") /\ Event
  /\ th' = [th EXCEPT ![t] = [@ EXCEPT !.at = "channels", !.left = {}]]
  /\ adrift' = adrift \cup {r \in Routes \cap th[t].left : stored[r] \notin {None, chan[r]}}
  /\ UNCHANGED <<lock, chans, routes, slots, lists, told, mon, spoiled, tangled, doubtful>>

\* A route that is in use after a restart of its board is written again.
RewriteRead(t, r) ==
  /\ Here(t, "rewrite") /\ r \in th[t].left /\ chan[r] # None
  /\ th' = [th EXCEPT ![t] = [@ EXCEPT !.left = th[t].left \ {r}, !.route = r, !.old = chan[r],
                                       !.val = regs[chan[r]], !.at = "rewriting"]]
  /\ IF lock[r] THEN spoiled' = spoiled \cup {chan[r]} ELSE Begins(t, chan[r])
  /\ UNCHANGED <<lock, chans, routes, slots, lists, told, mon, tangled, adrift, doubtful, events>>

RewriteWrite(t) ==
  /\ Here(t, "rewriting")
  /\ regs' = [regs EXCEPT ![th[t].old] = th[t].val \cup {th[t].slot}]
  /\ Tell(th[t].slot, th[t].route, chan[th[t].route])
  /\ th' = [th EXCEPT ![t] = [@ EXCEPT !.at = "rewrite", !.route = None, !.old = None, !.val = {}]]
  /\ UNCHANGED <<lock, ref, enable, count, routes, slots, requests, told, mon, spoiled, tangled, adrift, events>>

RoutesDone(t) ==
  \/ Here(t, "rows") /\ \A r \in th[t].left : stored[r] = None
  \/ Here(t, "rewrite") /\ \A r \in th[t].left : chan[r] = None
  \/ Here(t, "channels")

\* Mutant of RetellChannels: the channels are left out.
RetellNone(t) ==
  /\ RoutesDone(t)
  /\ SendFrom(t, "idle")
  /\ UNCHANGED <<lock, chans, routes, slots, lists, told, mon, hist, events>>

\* The enabled channels of the slot, whoever uses them.
RetellChannels(t) ==
  LET s == th[t].slot
      on == {c \in Of(s, Channels) : enable[c]}
      letters == [i \in 1..Cardinality(on) |-> [item |-> SetToSeq(on)[i], value |-> TRUE]]
  IN /\ RoutesDone(t)
     /\ outbox' = [outbox EXCEPT ![s][s] = @ \o letters]
     /\ doubtful' = {x \in on : OnTheWay(s, x)} \cup (doubtful \ on)
     /\ SendFrom(t, "idle")
     /\ UNCHANGED <<lock, chans, routes, slots, requests, told, mon, spoiled, tangled, adrift, events>>

\* Mutant of Synced: only the first time.
SyncedOnce(t) ==
  /\ Here(t, "send") /\ Full(t) = {} /\ t \in Tasks
  /\ flag' = [flag EXCEPT ![th[t].slot] = IF @ = 1 THEN 2 ELSE @]
  /\ th' = [th EXCEPT ![t] = Idle]
  /\ UNCHANGED <<lock, chans, routes, run, level, changed, sync, lists, told, mon, hist, events>>

Synced(t) ==
  /\ Here(t, "send") /\ Full(t) = {} /\ t \in Tasks
  /\ flag' = [flag EXCEPT ![th[t].slot] = 2]
  /\ th' = [th EXCEPT ![t] = Idle]
  /\ UNCHANGED <<lock, chans, routes, run, level, changed, sync, lists, told, mon, hist, events>>

-----------------------------------------------------------------------------
(* The boards (external: module SlotBoard) and moniter_task of httpd.bin *)

\* A board starts again, knowing nothing; rows that were still to be used are
\* not used any more (transceiver_flag will be 3).  What becomes of a board that
\* restarts while the monitor is at its slot is told by module SlotBoard.
Restart(s) ==
  /\ level[s] # "down" /\ mon.slot # s /\ Event
  /\ level' = [level EXCEPT ![s] = "down"] /\ run' = [run EXCEPT ![s] = "pause"]
  /\ told' = [x \in Items |-> IF SlotOf[x] = s THEN Default(x) ELSE told[x]]
  /\ adrift' = IF flag[s] = 1 THEN adrift \cup Of(s, Routes) ELSE adrift
  /\ UNCHANGED <<lock, chans, routes, flag, changed, sync, lists, th, mon, spoiled, tangled, doubtful>>

Described(s, new) ==
  /\ level[s] = "down"
  /\ level' = [level EXCEPT ![s] = "described"] /\ changed' = [changed EXCEPT ![s] = new]
  /\ UNCHANGED <<lock, chans, routes, flag, run, sync, lists, told, th, mon, hist, events>>

AtWork == \E t \in Threads : th[t].at \notin {"idle", "queue"}
DisturbOr(s, d) ==
  /\ IF AtWork THEN spoiled' = Channels /\ tangled' = Routes
     ELSE spoiled' = spoiled \cup s /\ UNCHANGED tangled
  /\ doubtful' = doubtful \cup d

\* free_transceiver drops the rows of the board that was replaced, but not for
\* the first board after the start.
FreeTransceiver(s) ==
  LET first == flag[s] = 0
      free == ~first /\ run[s] # "stop"
  IN /\ mon.at = "idle" /\ level[s] = "described" /\ changed[s]
     /\ changed' = [changed EXCEPT ![s] = FALSE]
     /\ flag' = IF first THEN [flag EXCEPT ![s] = 1] ELSE flag
     /\ run' = IF free THEN [run EXCEPT ![s] = "stop"] ELSE run
     /\ outbox' = IF free THEN [outbox EXCEPT ![s] = NoLetters[s]] ELSE outbox
     /\ IF free
        THEN Write(Of(s, Routes), [r \in Routes |-> IF SlotOf[r] = s THEN None ELSE stored[r]])
        ELSE /\ adrift' = adrift \cup {r \in Of(s, Routes) : stored[r] # None}
             /\ UNCHANGED <<stored, events>>
     /\ mon' = [at |-> "init", slot |-> s]
     /\ DisturbOr({}, {})
     /\ UNCHANGED <<lock, chans, chan, level, sync, requests, told, th>>

\* Neither the counts of the channels its routes used, nor the routes that use
\* its channels, are told.
InitTransceiver ==
  LET s == mon.slot
      Mine(f, v) == [x \in DOMAIN f |-> IF SlotOf[x] = s THEN v ELSE f[x]]
  IN /\ mon.at = "init" /\ mon' = [mon EXCEPT !.at = "enable"]
     /\ lock' = Mine(lock, FALSE) /\ ref' = Mine(ref, 0) /\ enable' = Mine(enable, FALSE)
     /\ count' = Mine(count, [d \in Slots |-> 0]) /\ chan' = Mine(chan, None)
     /\ flag' = [flag EXCEPT ![s] = 2]
     /\ DisturbOr({c \in Channels : \E r \in Users(c) : s \in {SlotOf[c], SlotOf[r]}},
                  {x \in Of(s, Items) : told[x] # Default(x)})
     /\ adrift' = adrift \ {r \in Of(s, Routes) : stored[r] = None}
     /\ UNCHANGED <<regs, stored, run, level, changed, sync, lists, told, th, events>>

AddSync(s) ==
  /\ mon.at = "idle" /\ level[s] = "described" /\ ~changed[s]
  /\ flag' = [flag EXCEPT ![s] = IF @ = 0 THEN 1 ELSE 3]
  /\ sync' = [sync EXCEPT ![s] = @ + 1]
  /\ mon' = [at |-> "enable", slot |-> s]
  /\ UNCHANGED <<lock, chans, routes, run, level, changed, lists, told, th, hist, events>>

EnableTransceiver ==
  /\ mon.at = "enable" /\ mon' = [at |-> "idle", slot |-> None]
  /\ run' = [run EXCEPT ![mon.slot] = "running"]
  /\ level' = [level EXCEPT ![mon.slot] = IF @ = "described" THEN "up" ELSE @]
  /\ UNCHANGED <<lock, chans, routes, flag, changed, sync, lists, told, th, hist, events>>

-----------------------------------------------------------------------------
RouteStep(t) ==
  \/ RouteSeen(t) \/ RouteTake(t) \/ NullChannel(t)
  \/ OldSeen(t) \/ OldTake(t) \/ OldPut(t) \/ LeaveOld(t) \/ UnpointRoute(t)
  \/ NewSeen(t) \/ NewTake(t) \/ NewPut(t) \/ PointRoute(t) \/ SaveRoute(t)
SendStep(t) == TakeBatch(t) \/ PostBatch(t) \/ LoseBatch(t) \/ AllSent(t)
WebStep(t) ==
  \/ Refuse(t) \/ config_transceiver(t) \/ clean_slot_transceiver_params(t)
  \/ Dequeue(t) \/ Dequeued(t) \/ (\E r \in Routes : EmptyNext(t, r)) \/ Emptied(t)
  \/ RouteStep(t) \/ SendStep(t)
TaskStep(t) ==
  \/ \E s \in Slots : StartSync(t, s)
  \/ \E r \in Routes : SelectRow(t, r) \/ RewriteRead(t, r)
  \/ SelectFails(t) \/ RewriteWrite(t) \/ RetellChannels(t) \/ Synced(t)
  \/ RouteStep(t) \/ SendStep(t)
MonitorStep ==
  \/ (\E s \in Slots : FreeTransceiver(s) \/ AddSync(s))
  \/ InitTransceiver \/ EnableTransceiver
Operator(t) ==
  \/ \E s \in Slots, clean \in BOOLEAN : Submit(t, s, clean)
  \/ \E r \in Routes, c \in Channels \cup {None} : Ask(t, r, c)
Environment ==
  \E s \in Slots : Restart(s) \/ \E new \in BOOLEAN : Described(s, new)

Next ==
  \/ \E t \in Webs : WebStep(t) \/ Operator(t)
  \/ \E t \in Tasks : TaskStep(t)
  \/ MonitorStep \/ Environment

Spec == Init /\ [][Next]_vars

-----------------------------------------------------------------------------
(* Properties *)

\* All fields keep their ranges.
TypeOK ==
  /\ lock \in [Items -> BOOLEAN] /\ ref \in [Channels -> Int]
  /\ enable \in [Channels -> BOOLEAN] /\ regs \in [Channels -> SUBSET Slots]
  /\ count \in [Channels -> [Slots -> 0..(Byte - 1)]]
  /\ chan \in [Routes -> Channels \cup {None}] /\ stored \in [Routes -> Channels \cup {None}]
  /\ flag \in [Slots -> 0..3] /\ run \in [Slots -> {"stop", "pause", "running"}]
  /\ level \in [Slots -> {"down", "described", "up"}] /\ sync \in [Slots -> Nat]
  /\ spoiled \subseteq Channels /\ tangled \subseteq Routes /\ adrift \subseteq Routes /\ doubtful \subseteq Items

Rest == ~AtWork /\ mon.at = "idle"
Steady(s) == Rest /\ level[s] = "up" /\ flag[s] = 2 /\ sync[s] = 0

\* When nobody is at work, a channel knows how many routes use it, of all slots
\* and of each, exactly the interfaces that use it have its bit in the
\* register, and it is enabled if and only if somebody uses it.
CountsExact ==
  Rest => \A c \in Channels \ spoiled :
    /\ ref[c] = Cardinality(Users(c))
    /\ enable[c] = (Users(c) # {})
    /\ \A s \in Slots : /\ count[c][s] = Cardinality({r \in Users(c) : SlotOf[r] = s})
                        /\ (s \in regs[c]) = (\E r \in Users(c) : SlotOf[r] = s)

\* The rows of the database are the routes in use: what the next start of the
\* main board restores is what there is now.
StoredIsUsed ==
  \A s \in Slots : Steady(s) => \A r \in Of(s, Routes) \ (adrift \cup tangled) : stored[r] = chan[r]

\* A board was told what is in force for its channels and routes, and knows it
\* again after it restarted.
BoardsTold ==
  \A s \in Slots : Steady(s) => \A x \in Of(s, Items) \ (doubtful \cup spoiled \cup tangled) : told[x] = Current(x)

\* Between the lock of a route and its unlock.
Inside == {"old", "oldFree", "oldHeld", "lower", "new", "newFree", "newHeld", "point", "raise"}

\* Nobody waits for ever: a lock that is set is held by a thread that will
\* unlock it, unless httpd.bin died of a null channel.
LocksHeld ==
  mon.at # "dead" =>
    /\ \A r \in Routes : lock[r] =>
         \E t \in Threads : th[t].route = r /\ th[t].at \in Inside
    /\ \A c \in Channels : lock[c] =>
         \E t \in Threads : \/ Here(t, "newHeld") /\ th[t].to = c
                            \/ Here(t, "oldHeld") /\ th[t].old = c
                            \/ Here(t, "lower") /\ th[t].old = c /\ th[t].to # None

\* A board that came up and is not up to date yet will be: only then are its
\* routes saved.
SyncPending ==
  \A s \in Slots : level[s] = "up" /\ flag[s] # 2 /\ mon.at # "dead" =>
    sync[s] > 0 \/ \E t \in Tasks : th[t].at # "idle" /\ th[t].slot = s
=============================================================================
