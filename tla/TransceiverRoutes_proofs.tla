----------------------- MODULE TransceiverRoutes_proofs -----------------------
(* Theorems about TransceiverRoutes, for any slots, channels and routes, any *)
(* number of threads of the web server and of the pool.                      *)
EXTENDS TransceiverRoutes, SequenceTheorems, FiniteSetTheorems, TLAPS

Places ==
  Inside \cup {"idle", "dead", "queue", "next", "empty", "route", "routeFree", "send", "post",
               "rows", "rewrite", "rewriting", "channels"}
Maybe == Channels \cup {None}

Fields == {"at", "slot", "route", "to", "old", "seen", "val", "left", "batch", "after"}

\* What a thread keeps; what it still has to look at and its letters do not
\* matter here.
Work(w) ==
  /\ DOMAIN w = Fields
  /\ w.at \in Places /\ w.slot \in Slots \cup {None} /\ w.route \in Routes \cup {None}
  /\ w.to \in Maybe /\ w.old \in Maybe /\ w.seen \in Int /\ w.val \in SUBSET Slots
  /\ w.at \notin {"idle", "dead"} => w.slot \in Slots
  /\ w.at \in Inside \cup {"route", "routeFree", "rewriting"} => w.route \in Routes
  /\ w.at \in {"old", "oldFree", "oldHeld", "lower", "rewriting"} => w.old \in Channels
  /\ w.at \in {"new", "newFree", "newHeld", "point", "raise"} => w.to \in Channels

Works == DOMAIN th = Threads /\ \A t \in Threads : Work(th[t])
Asked == requests \in [Slots -> Seq([route : Routes, to : Maybe])]
Watch ==
  /\ mon = [at |-> mon.at, slot |-> mon.slot]
  /\ mon.slot \in Slots \cup {None}
  /\ mon.at \in {"init", "enable"} => mon.slot \in Slots
Typed == Works /\ Asked /\ Watch

-----------------------------------------------------------------------------
(* What the threads keep *)

\* A thread that has nothing to do, or is dead.
LEMMA NoWork == Work(Idle) /\ Work(Dead)
<1>1. Work(Idle)
  BY DEF Idle, Work, Fields, Places, Inside, Maybe
<1>2. Work(Dead)
  BY <1>1 DEF Dead, Idle, Work, Fields, Places, Inside, Maybe
<1> QED
  BY <1>1, <1>2

\* The steps of transceiver_route_add and _del.
LEMMA WorksRoute ==
  ASSUME Typed, TypeOK, NEW t \in Threads, RouteStep(t)
  PROVE  Works'
<1>1. CASE RouteSeen(t)
  BY <1>1 DEF RouteSeen, Seen, Typed, Works, Work, Fields, Here, Goto, Places, Inside, Maybe, TypeOK
<1>2. CASE OldSeen(t)
  BY <1>2 DEF OldSeen, Seen, Typed, Works, Work, Fields, Here, Goto, Places, Inside, Maybe, TypeOK
<1>3. CASE NewSeen(t)
  BY <1>3 DEF NewSeen, Seen, Typed, Works, Work, Fields, Here, Goto, Places, Inside, Maybe, TypeOK
<1>4. CASE RouteTake(t)
  BY <1>4 DEF RouteTake, route, Typed, Works, Work, Fields, Here, Places, Inside, Maybe, TypeOK
<1>5. CASE NullChannel(t)
  BY <1>5, NoWork DEF NullChannel, Works
<1>6. CASE OldTake(t)
  BY <1>6 DEF OldTake, ChannelTake, Source, Typed, Works, Work, Fields, Here, Places, Inside,
     Maybe, TypeOK
<1>7. CASE NewTake(t)
  BY <1>7 DEF NewTake, ChannelTake, Source, Typed, Works, Work, Fields, Here, Places, Inside,
     Maybe, TypeOK
<1>8. CASE OldPut(t)
  BY <1>8 DEF OldPut, ReadCounts, Typed, Works, Work, Fields, Here, Places, Inside, Maybe, TypeOK
<1>9. CASE LeaveOld(t)
  BY <1>9 DEF LeaveOld, Typed, Works, Work, Fields, Here, Places, Inside, Maybe, TypeOK
<1>10. CASE NewPut(t)
  BY <1>10 DEF NewPut, Typed, Works, Work, Fields, Here, Places, Inside, Maybe, TypeOK
<1>11. CASE PointRoute(t)
  BY <1>11 DEF PointRoute, ReadCounts, Typed, Works, Work, Fields, Here, Places, Inside, Maybe,
     TypeOK
<1>12. CASE SaveRoute(t)
  BY <1>12 DEF SaveRoute, Return, Caller, Typed, Works, Work, Fields, Here, Places, Inside, Maybe,
     TypeOK
<1>13. CASE UnpointRoute(t)
  BY <1>13 DEF UnpointRoute, Return, Caller, Typed, Works, Work, Fields, Here, Places, Inside,
     Maybe, TypeOK
<1> QED
  BY <1>1, <1>2, <1>3, <1>4, <1>5, <1>6, <1>7, <1>8, <1>9, <1>10, <1>11, <1>12, <1>13 DEF RouteStep

\* Of send_transceiver_params.
LEMMA WorksSend ==
  ASSUME Typed, TypeOK, NEW t \in Threads, SendStep(t)
  PROVE  Works'
<1>1. CASE TakeBatch(t)
  BY <1>1 DEF TakeBatch, Typed, Works, Work, Fields, Here, Places, Inside, Maybe, TypeOK
<1>2. CASE PostBatch(t)
  BY <1>2 DEF PostBatch, Sent, Typed, Works, Work, Fields, Here, Places, Inside, Maybe, TypeOK
<1>3. CASE LoseBatch(t)
  BY <1>3 DEF LoseBatch, Sent, Typed, Works, Work, Fields, Here, Places, Inside, Maybe, TypeOK
<1>4. CASE AllSent(t)
  BY <1>4 DEF AllSent, Idle, Typed, Works, Work, Fields, Here, Places, Inside, Maybe, TypeOK
<1> QED
  BY <1>1, <1>2, <1>3, <1>4 DEF SendStep

\* Of the threads that serve an operator.
LEMMA WorksWeb ==
  ASSUME Typed, TypeOK, NEW t \in Threads, WebStep(t), ~RouteStep(t), ~SendStep(t)
  PROVE  Works'
<1>1. CASE Refuse(t)
  BY <1>1 DEF Refuse, Idle, Typed, Works, Work, Fields, Here, Places, Inside, Maybe, TypeOK
<1>2. CASE config_transceiver(t)
  BY <1>2 DEF config_transceiver, Typed, Works, Work, Fields, Here, Goto, Places, Inside, Maybe,
     TypeOK
<1>3. CASE clean_slot_transceiver_params(t)
  BY <1>3 DEF clean_slot_transceiver_params, Idle, Typed, Works, Work, Fields, Here, Places,
     Inside, Maybe, TypeOK
<1>4. CASE Dequeue(t)
  <2>1. requests[th[t].slot] \in Seq([route : Routes, to : Maybe]) /\ requests[th[t].slot] # <<>>
    BY <1>4 DEF Dequeue, Typed, Works, Work, Here, Asked
  <2>2. Head(requests[th[t].slot]) \in [route : Routes, to : Maybe]
    BY <2>1, HeadTailProperties
  <2> DEFINE q == Head(requests[th[t].slot])
  <2>3. Work(th[t]) /\ th[t].at = "next" /\ q.route \in Routes /\ q.to \in Maybe
    BY <1>4, <2>2 DEF Dequeue, Typed, Works, Here
  <2>4. Work([th[t] EXCEPT !.at = "route", !.route = q.route, !.to = q.to])
    BY <2>3 DEF Work, Fields, Places, Inside, Maybe
  <2>5. th' = th \/ th' = [th EXCEPT ![t] = [th[t] EXCEPT !.at = "route", !.route = q.route, !.to = q.to]]
    BY <1>4 DEF Dequeue, Begin
  <2> QED
    BY <2>4, <2>5 DEF Typed, Works
<1>5. CASE Dequeued(t)
  BY <1>5 DEF Dequeued, SendFrom, Typed, Works, Work, Fields, Here, Places, Inside, Maybe, TypeOK
<1>6. CASE \E r \in Routes : EmptyNext(t, r)
  BY <1>6 DEF EmptyNext, Typed, Works, Work, Fields, Here, Places, Inside, Maybe, TypeOK
<1>7. CASE Emptied(t)
  BY <1>7 DEF Emptied, SendFrom, Typed, Works, Work, Fields, Here, Places, Inside, Maybe, TypeOK
<1> QED
  BY <1>1, <1>2, <1>3, <1>4, <1>5, <1>6, <1>7 DEF WebStep

\* Of the operators.
LEMMA WorksOperator ==
  ASSUME Typed, TypeOK, NEW t \in Threads, Operator(t)
  PROVE  Works'
<1>1. CASE \E s \in Slots, clean \in BOOLEAN : Submit(t, s, clean)
  BY <1>1 DEF Submit, Idle, Typed, Works, Work, Fields, Here, Places, Inside, Maybe, TypeOK
<1>2. CASE \E r \in Routes, c \in Maybe : Ask(t, r, c)
  BY <1>2 DEF Ask, Typed, Works, Work, Fields, Here, Places, Inside, Maybe, TypeOK
<1> QED
  BY <1>1, <1>2 DEF Operator, Maybe

\* Of the tasks.
LEMMA WorksTask ==
  ASSUME Typed, TypeOK, NEW t \in Threads, TaskStep(t), ~RouteStep(t), ~SendStep(t)
  PROVE  Works'
<1>1. CASE \E s \in Slots : StartSync(t, s)
  BY <1>1 DEF StartSync, Idle, Typed, Works, Work, Fields, Here, Places, Inside, Maybe, TypeOK
<1>2. CASE \E r \in Routes : SelectRow(t, r)
  BY <1>2 DEF SelectRow, Typed, Works, Work, Fields, Here, Places, Inside, Maybe, TypeOK
<1>3. CASE \E r \in Routes : RewriteRead(t, r)
  BY <1>3 DEF RewriteRead, Typed, Works, Work, Fields, Here, Places, Inside, Maybe, TypeOK
<1>4. CASE RewriteWrite(t)
  BY <1>4 DEF RewriteWrite, Typed, Works, Work, Fields, Here, Places, Inside, Maybe, TypeOK
<1>5. CASE RetellChannels(t)
  <2>1. RoutesDone(t) /\ SendFrom(t, "idle")
    BY <1>5 DEF RetellChannels
  <2> QED
    BY <2>1 DEF RoutesDone, SendFrom, Typed, Works, Work, Fields, Here, Places, Inside, Maybe
<1>6. CASE Synced(t)
  BY <1>6 DEF Synced, Idle, Typed, Works, Work, Fields, Here, Places, Inside, Maybe, TypeOK
<1>7. CASE SelectFails(t)
  BY <1>7 DEF SelectFails, Typed, Works, Work, Fields, Here, Places, Inside, Maybe, TypeOK
<1> QED
  BY <1>1, <1>2, <1>3, <1>4, <1>5, <1>6, <1>7 DEF TaskStep

-----------------------------------------------------------------------------
(* Types *)

\* What a char can hold.
LEMMA Bytes ==
  ASSUME NEW n \in Int
  PROVE  /\ (n + Byte - 1) % Byte \in 0 .. Byte - 1
         /\ (n + 1) % Byte \in 0 .. Byte - 1
         /\ {0, 1} \subseteq 0 .. Byte - 1
BY RoutesAssumption

\* What the database holds of the routes in S, whether it fails or not.
LEMMA RowsWritten ==
  ASSUME TypeOK, NEW S \in SUBSET Routes, NEW rows \in [Routes -> Maybe], Write(S, rows)
  PROVE  stored' \in [Routes -> Maybe] /\ adrift' \subseteq Routes
BY DEF Write, Event, TypeOK, Maybe

LEMMA TypesRoute ==
  ASSUME Typed, TypeOK, NEW t \in Threads, RouteStep(t)
  PROVE  TypeOK'
<1>1. CASE RouteSeen(t)
  BY <1>1 DEF RouteSeen, Seen, TypeOK, Typed, Works, Work, Here, Items, chans, routes, slots,
     lists, hist, Maybe
<1>2. CASE OldSeen(t)
  BY <1>2 DEF OldSeen, Seen, TypeOK, Typed, Works, Work, Here, Items, chans, routes, slots, lists,
     hist, Maybe
<1>3. CASE NewSeen(t)
  BY <1>3 DEF NewSeen, Seen, TypeOK, Typed, Works, Work, Here, Items, chans, routes, slots, lists,
     hist, Maybe
<1>4. CASE RouteTake(t)
  <2>1. route(t) \in Routes /\ NoRow(route(t)) \in [Routes -> Maybe]
    BY <1>4 DEF RouteTake, route, Typed, Works, Work, Here, NoRow, TypeOK, Maybe
  <2>2. stored' \in [Routes -> Maybe] /\ adrift' \subseteq Routes
    BY <1>4, <2>1, RowsWritten DEF RouteTake, TypeOK, Maybe
  <2> QED
    BY <1>4, <2>1, <2>2 DEF RouteTake, Tangle, TypeOK, Items, chans, slots, lists, Maybe
<1>5. CASE NullChannel(t)
  <2>1. route(t) \in Routes /\ NoRow(route(t)) \in [Routes -> Maybe]
    BY <1>5 DEF NullChannel, route, Typed, Works, Work, Here, NoRow, TypeOK, Maybe
  <2>2. stored' \in [Routes -> Maybe] /\ adrift' \subseteq Routes
    BY <1>5, <2>1, RowsWritten DEF NullChannel
  <2> QED
    BY <1>5, <2>1, <2>2 DEF NullChannel, TypeOK, Items, chans, Maybe
<1>6. CASE OldTake(t)
  BY <1>6 DEF OldTake, ChannelTake, Source, TypeOK, Typed, Works, Work, Here, Items, chans,
     routes, slots, lists, Maybe
<1>7. CASE NewTake(t)
  BY <1>7 DEF NewTake, ChannelTake, Source, TypeOK, Typed, Works, Work, Here, Items, chans,
     routes, slots, lists, Maybe
<1>8. CASE OldPut(t)
  <2>1. ref' \in [Channels -> Int]
    BY <1>8 DEF OldPut, TypeOK, Typed, Works, Work, Here
  <2>2. enable' \in [Channels -> BOOLEAN]
    BY <1>8 DEF OldPut, TypeOK
  <2>3. doubtful' \subseteq Items
    BY <1>8 DEF OldPut, Tell, TypeOK, Typed, Works, Work, Here, Items
  <2>4. lock' \in [Items -> BOOLEAN]
    BY <1>8 DEF OldPut, TypeOK
  <2>5. spoiled' \subseteq Channels
    BY <1>8 DEF OldPut, ReadCounts, Begins, TypeOK, Typed, Works, Work, Here
  <2> QED
    BY <1>8, <2>1, <2>2, <2>3, <2>4, <2>5 DEF TypeOK, OldPut, routes, slots
<1>9. CASE LeaveOld(t)
  <2>1. route(t) \in Routes /\ NoRow(route(t)) \in [Routes -> Maybe]
    BY <1>9 DEF LeaveOld, route, Inside, Typed, Works, Work, Here, NoRow, TypeOK, Maybe
  <2>2. stored' \in [Routes -> Maybe] /\ adrift' \subseteq Routes
    BY <1>9, <2>1, RowsWritten DEF LeaveOld
  <2>3. count' \in [Channels -> [Slots -> 0 .. (Byte - 1)]] /\ regs' \in [Channels -> SUBSET Slots]
    BY <1>9, Bytes DEF LeaveOld, LowerCount, TypeOK, Typed, Works, Work, Here
  <2>4. lock' \in [Items -> BOOLEAN]
    BY <1>9 DEF LeaveOld, TypeOK
  <2> QED
    BY <1>9, <2>2, <2>3, <2>4 DEF LeaveOld, TypeOK, slots, Maybe
<1>10. CASE NewPut(t)
  <2>1. ref' \in [Channels -> Int]
    BY <1>10 DEF NewPut, TypeOK, Typed, Works, Work, Here
  <2>2. enable' \in [Channels -> BOOLEAN]
    BY <1>10 DEF NewPut, TypeOK
  <2>3. doubtful' \subseteq Items
    BY <1>10 DEF NewPut, Tell, TypeOK, Typed, Works, Work, Here, Items
  <2>4. lock' \in [Items -> BOOLEAN]
    BY <1>10 DEF NewPut, TypeOK
  <2> QED
    BY <1>10, <2>1, <2>2, <2>3, <2>4 DEF TypeOK, NewPut, routes, slots
<1>11. CASE PointRoute(t)
  BY <1>11 DEF PointRoute, ReadCounts, Tell, Begins, route, Inside, TypeOK, Typed, Works, Work,
     Here, Items, chans, slots, Maybe
<1>12. CASE SaveRoute(t)
  <2>1. th[t].to \in Channels /\ th[t].slot \in Slots
    BY <1>12 DEF SaveRoute, Typed, Works, Work, Here, Inside
  <2>2. count[th[t].to][th[t].slot] \in Int /\ count \in [Channels -> [Slots -> 0 .. (Byte - 1)]]
    BY <1>12, <2>1 DEF TypeOK
  <2>3. count' \in [Channels -> [Slots -> 0 .. (Byte - 1)]]
    BY <1>12, <2>1, <2>2, Bytes DEF SaveRoute, RaiseCount
  <2>4. regs' \in [Channels -> SUBSET Slots]
    BY <1>12 DEF SaveRoute, RaiseCount, TypeOK, Typed, Works, Work, Here
  <2>5. stored' \in [Routes -> Maybe] /\ adrift' \subseteq Routes
    <3>1. route(t) \in Routes /\ chan[route(t)] \in Maybe
      BY <1>12 DEF SaveRoute, TypeOK, Typed, Works, Work, Here, route, Inside, Maybe
    <3>2. [stored EXCEPT ![route(t)] = chan[route(t)]] \in [Routes -> Maybe]
      BY <3>1 DEF TypeOK, Maybe
    <3>3. CASE flag[th[t].slot] = 2
      BY <1>12, <3>1, <3>2, <3>3, RowsWritten DEF SaveRoute
    <3>4. CASE flag[th[t].slot] # 2
      BY <1>12, <3>1, <3>4 DEF SaveRoute, TypeOK, Maybe
    <3> QED
      BY <3>3, <3>4
  <2>6. lock' \in [Items -> BOOLEAN]
    BY <1>12 DEF SaveRoute, TypeOK
  <2> QED
    BY <1>12, <2>1, <2>2, <2>3, <2>4, <2>5, <2>6 DEF TypeOK, Maybe, SaveRoute, slots
<1>13. CASE UnpointRoute(t)
  BY <1>13, Bytes DEF UnpointRoute, Return, Caller, Tell, LowerCount, route, Inside, TypeOK,
     Typed, Works, Work, Here, Items, slots, Maybe
<1> QED
  BY <1>1, <1>2, <1>3, <1>4, <1>5, <1>6, <1>7, <1>8, <1>9, <1>10, <1>11, <1>12, <1>13 DEF RouteStep

LEMMA TypesSend ==
  ASSUME Typed, TypeOK, NEW t \in Threads, SendStep(t)
  PROVE  TypeOK'
<1>1. CASE TakeBatch(t)
  BY <1>1 DEF TakeBatch, TypeOK, Typed, Works, Work, Here, Items, chans, routes, slots, hist, Maybe
<1>2. CASE PostBatch(t)
  BY <1>2 DEF PostBatch, Sent, TypeOK, Typed, Works, Work, Here, Items, chans, routes, slots,
     lists, hist, Maybe
<1>3. CASE LoseBatch(t)
  BY <1>3 DEF LoseBatch, Sent, TypeOK, Typed, Works, Work, Here, Items, chans, routes, slots,
     lists, Maybe
<1>4. CASE AllSent(t)
  BY <1>4 DEF AllSent, Idle, TypeOK, Typed, Works, Work, Here, Items, chans, routes, slots, lists,
     hist, Maybe
<1> QED
  BY <1>1, <1>2, <1>3, <1>4 DEF SendStep

LEMMA TypesWeb ==
  ASSUME Typed, TypeOK, NEW t \in Threads, WebStep(t), ~RouteStep(t), ~SendStep(t)
  PROVE  TypeOK'
<1>1. CASE Refuse(t)
  BY <1>1 DEF Refuse, Idle, TypeOK, Typed, Works, Work, Here, Items, chans, routes, slots, lists,
     hist, Maybe
<1>2. CASE config_transceiver(t)
  BY <1>2 DEF config_transceiver, TypeOK, Typed, Works, Work, Here, Items, chans, routes, slots,
     lists, hist, Maybe
<1>3. CASE clean_slot_transceiver_params(t)
  BY <1>3 DEF clean_slot_transceiver_params, Idle, Of, TypeOK, Typed, Works, Work, Here, Items,
     chans, routes, slots, lists, Maybe
<1>4. CASE Dequeue(t)
  BY <1>4 DEF Dequeue, Begin, TypeOK, Typed, Works, Work, Here, Items, chans, routes, slots, hist,
     Maybe
<1>5. CASE Dequeued(t)
  BY <1>5 DEF Dequeued, SendFrom, TypeOK, Typed, Works, Work, Here, Items, chans, routes, slots,
     lists, hist, Maybe
<1>6. CASE \E r \in Routes : EmptyNext(t, r)
  BY <1>6 DEF EmptyNext, TypeOK, Typed, Works, Work, Here, Items, chans, routes, slots, lists,
     hist, Maybe
<1>7. CASE Emptied(t)
  BY <1>7 DEF Emptied, SendFrom, TypeOK, Typed, Works, Work, Here, Items, chans, routes, slots,
     lists, hist, Maybe
<1> QED
  BY <1>1, <1>2, <1>3, <1>4, <1>5, <1>6, <1>7 DEF WebStep

LEMMA TypesOperator ==
  ASSUME Typed, TypeOK, NEW t \in Threads, Operator(t)
  PROVE  TypeOK'
<1>1. CASE \E s \in Slots, clean \in BOOLEAN : Submit(t, s, clean)
  BY <1>1 DEF Submit, Idle, TypeOK, Typed, Works, Work, Here, Items, chans, routes, slots, lists,
     hist, Maybe
<1>2. CASE \E r \in Routes, c \in Maybe : Ask(t, r, c)
  BY <1>2 DEF Ask, TypeOK, Typed, Works, Work, Here, Items, chans, routes, slots, hist, Maybe
<1> QED
  BY <1>1, <1>2 DEF Operator, Maybe

LEMMA TypesTask ==
  ASSUME Typed, TypeOK, NEW t \in Threads, TaskStep(t), ~RouteStep(t), ~SendStep(t)
  PROVE  TypeOK'
<1>1. CASE \E s \in Slots : StartSync(t, s)
  BY <1>1 DEF StartSync, Idle, TypeOK, Typed, Works, Work, Here, Items, chans, routes, lists,
     hist, Maybe
<1>2. CASE \E r \in Routes : SelectRow(t, r)
  BY <1>2 DEF SelectRow, TypeOK, Typed, Works, Work, Here, Items, chans, routes, slots, lists,
     hist, Maybe
<1>3. CASE \E r \in Routes : RewriteRead(t, r)
  BY <1>3 DEF RewriteRead, Begins, TypeOK, Typed, Works, Work, Here, Items, chans, routes, slots,
     lists, Maybe
<1>4. CASE RewriteWrite(t)
  BY <1>4 DEF RewriteWrite, Tell, TypeOK, Typed, Works, Work, Here, Items, routes, slots, Maybe
<1>5. CASE RetellChannels(t)
  <2>1. doubtful' \subseteq Items
    BY <1>5 DEF RetellChannels, Of, Items, TypeOK
  <2> QED
    BY <1>5, <2>1 DEF TypeOK, RetellChannels, chans, routes, slots
<1>6. CASE Synced(t)
  <2>1. th[t].slot \in Slots
    BY <1>6 DEF Synced, Typed, Works, Work, Here
  <2>2. flag' \in [Slots -> 0 .. 3]
    BY <1>6, <2>1 DEF Synced, TypeOK
  <2> QED
    BY <1>6, <2>1, <2>2 DEF TypeOK, Synced, chans, routes, hist
<1>7. CASE SelectFails(t)
  BY <1>7 DEF SelectFails, TypeOK, Items, chans, routes, slots, lists, Maybe
<1> QED
  BY <1>1, <1>2, <1>3, <1>4, <1>5, <1>6, <1>7 DEF TaskStep

LEMMA TypesMonitor ==
  ASSUME Typed, TypeOK, MonitorStep
  PROVE  TypeOK'
<1>1. CASE \E s \in Slots : FreeTransceiver(s)
  <2> PICK s \in Slots : FreeTransceiver(s)
    BY <1>1
  <2> DEFINE rows == [r \in Routes |-> IF SlotOf[r] = s THEN None ELSE stored[r]]
  <2>1. rows \in [Routes -> Maybe] /\ Of(s, Routes) \subseteq Routes
    BY DEF TypeOK, Maybe, Of
  <2>2. \/ Write(Of(s, Routes), rows)
        \/ adrift' = adrift \cup {r \in Of(s, Routes) : stored[r] # None} /\ stored' = stored
    BY DEF FreeTransceiver
  <2>3. stored' \in [Routes -> Maybe] /\ adrift' \subseteq Routes
    <3> HIDE DEF rows
    <3> QED
      BY <2>1, <2>2, RowsWritten DEF TypeOK, Maybe
  <2> QED
    BY <2>3 DEF FreeTransceiver, DisturbOr, TypeOK, Items, chans, Maybe
<1>2. CASE \E s \in Slots : AddSync(s)
  BY <1>2 DEF AddSync, TypeOK, Typed, Works, Work, Items, chans, routes, lists, hist, Maybe
<1>3. CASE InitTransceiver
  <2>1. lock' \in [Items -> BOOLEAN] /\ enable' \in [Channels -> BOOLEAN]
    BY <1>3 DEF InitTransceiver, TypeOK
  <2>2. ref' \in [Channels -> Int] /\ chan' \in [Routes -> Maybe]
    BY <1>3 DEF InitTransceiver, TypeOK, Maybe
  <2>3. [d \in Slots |-> 0] \in [Slots -> 0 .. (Byte - 1)]
    BY <1>3, Bytes DEF TypeOK
  <2>4. count' \in [Channels -> [Slots -> 0 .. (Byte - 1)]]
    BY <1>3, <2>3 DEF InitTransceiver, TypeOK
  <2>5. /\ spoiled' \subseteq Channels /\ tangled' \subseteq Routes
         /\ adrift' \subseteq Routes /\ doubtful' \subseteq Items
    BY <1>3 DEF InitTransceiver, DisturbOr, TypeOK, Of, Items
  <2>6. mon.slot \in Slots
    BY <1>3 DEF InitTransceiver, Typed, Watch
  <2>7. flag' \in [Slots -> 0 .. 3]
    BY <1>3, <2>6 DEF InitTransceiver, TypeOK
  <2> QED
    BY <1>3, <2>1, <2>2, <2>3, <2>4, <2>5, <2>6, <2>7 DEF TypeOK, Maybe, InitTransceiver
<1>4. CASE EnableTransceiver
  BY <1>4 DEF EnableTransceiver, Watch, TypeOK, Typed, Works, Work, Items, chans, routes, lists,
     hist, Maybe
<1> QED
  BY <1>1, <1>2, <1>3, <1>4 DEF MonitorStep

LEMMA TypesEnvironment ==
  ASSUME Typed, TypeOK, Environment
  PROVE  TypeOK'
<1>1. CASE \E s \in Slots : Restart(s)
  BY <1>1 DEF Restart, Of, TypeOK, Typed, Works, Work, Items, chans, routes, lists, Maybe
<1>2. CASE \E s \in Slots, new \in BOOLEAN : Described(s, new)
  BY <1>2 DEF Described, TypeOK, Typed, Works, Work, Items, chans, routes, lists, hist, Maybe
<1> QED
  BY <1>1, <1>2 DEF Environment

-----------------------------------------------------------------------------
(* Locks *)

HoldsRoute(w, r) == w.route = r /\ w.at \in Inside
HoldsChannel(w, c) ==
  \/ w.at = "newHeld" /\ w.to = c
  \/ w.at = "oldHeld" /\ w.old = c
  \/ w.at = "lower" /\ w.old = c /\ w.to # None

\* A step of one thread that lets go of no lock without clearing it, and sets
\* none without holding it.
LEMMA Keep ==
  ASSUME LocksHeld, mon' = mon, NEW t \in Threads,
         \A u \in Threads \ {t} : th'[u] = th[u],
         \A r \in Routes : HoldsRoute(th[t], r) => HoldsRoute(th'[t], r) \/ ~lock'[r],
         \A r \in Routes : lock'[r] => lock[r] \/ HoldsRoute(th'[t], r),
         \A c \in Channels : HoldsChannel(th[t], c) => HoldsChannel(th'[t], c) \/ ~lock'[c],
         \A c \in Channels : lock'[c] => lock[c] \/ HoldsChannel(th'[t], c)
  PROVE  LocksHeld'
BY DEF LocksHeld, HoldsRoute, HoldsChannel, Here

LEMMA LocksRoute ==
  ASSUME LocksHeld, Typed, TypeOK, NEW t \in Threads, RouteStep(t)
  PROVE  LocksHeld'
<1>1. CASE RouteSeen(t)
  BY <1>1 DEF RouteSeen, Seen, LocksHeld, Typed, Works, Work, Fields, Here, Goto, Inside, hist
<1>2. CASE OldSeen(t)
  BY <1>2 DEF OldSeen, Seen, LocksHeld, Typed, Works, Work, Fields, Here, Goto, Inside, hist
<1>3. CASE NewSeen(t)
  BY <1>3 DEF NewSeen, Seen, LocksHeld, Typed, Works, Work, Fields, Here, Goto, Inside, hist
<1>4. CASE RouteTake(t)
  <2>1. /\ th[t].at = "routeFree" /\ Work(th[t])
        /\ mon' = mon /\ \A u \in Threads \ {t} : th'[u] = th[u]
    BY <1>4 DEF RouteTake, route, Typed, Works, Here
  <2>2. th'[t].at \in {"old", "new"} /\ th'[t].route = th[t].route
    BY <1>4, <2>1 DEF RouteTake, route, Typed, Works, Work, Fields, Here
  <2>3. lock' = [lock EXCEPT ![th[t].route] = TRUE] /\ th[t].route \in Routes
    BY <1>4, <2>1 DEF RouteTake, route, TypeOK, Work, Inside, Items, Here
  <2> QED
    BY <2>1, <2>2, <2>3, Keep, RoutesAssumption DEF HoldsRoute, HoldsChannel, Work, Inside, Items,
       TypeOK
<1>5. CASE NullChannel(t)
  BY <1>5 DEF NullChannel, Dead, LocksHeld, Typed, Works, Work, Fields, Here, Inside
<1>6. CASE OldTake(t)
  <2>1. /\ th[t].at = "oldFree" /\ Work(th[t])
        /\ mon' = mon /\ \A u \in Threads \ {t} : th'[u] = th[u]
    BY <1>6 DEF OldTake, ChannelTake, Source, Typed, Works, Here
  <2>2. th'[t].at = "oldHeld" /\ th'[t].route = th[t].route /\ th'[t].old = th[t].old
    BY <1>6, <2>1 DEF OldTake, ChannelTake, Source, Typed, Works, Work, Fields, Here
  <2>3. lock' = [lock EXCEPT ![th[t].old] = TRUE] /\ th[t].old \in Channels
    BY <1>6, <2>1 DEF OldTake, ChannelTake, Source, TypeOK, Work, Inside, Items, Here
  <2> QED
    BY <2>1, <2>2, <2>3, Keep, RoutesAssumption DEF HoldsRoute, HoldsChannel, Work, Inside, Items,
       TypeOK
<1>7. CASE NewTake(t)
  <2>1. /\ th[t].at = "newFree" /\ Work(th[t])
        /\ mon' = mon /\ \A u \in Threads \ {t} : th'[u] = th[u]
    BY <1>7 DEF NewTake, ChannelTake, Source, Typed, Works, Here
  <2>2. th'[t].at = "newHeld" /\ th'[t].route = th[t].route /\ th'[t].to = th[t].to
    BY <1>7, <2>1 DEF NewTake, ChannelTake, Source, Typed, Works, Work, Fields, Here
  <2>3. lock' = [lock EXCEPT ![th[t].to] = TRUE] /\ th[t].to \in Channels
    BY <1>7, <2>1 DEF NewTake, ChannelTake, Source, TypeOK, Work, Inside, Items, Here
  <2> QED
    BY <2>1, <2>2, <2>3, Keep, RoutesAssumption DEF HoldsRoute, HoldsChannel, Work, Inside, Items,
       TypeOK
<1>8. CASE OldPut(t)
  <2>1. /\ th[t].at = "oldHeld" /\ Work(th[t])
        /\ mon' = mon /\ \A u \in Threads \ {t} : th'[u] = th[u]
    BY <1>8 DEF OldPut, ReadCounts, Typed, Works, Here
  <2>2. th'[t].at = "lower" /\ th'[t].route = th[t].route /\ th'[t].old = th[t].old /\ th'[t].to = th[t].to
    BY <1>8, <2>1 DEF OldPut, ReadCounts, Typed, Works, Work, Fields, Here
  <2>3. /\ lock' = IF th[t].to = None THEN [lock EXCEPT ![th[t].old] = FALSE] ELSE lock
        /\ th[t].old \in Channels
    BY <1>8, <2>1 DEF OldPut, ReadCounts, TypeOK, Work, Inside, Items, Here
  <2> QED
    BY <2>1, <2>2, <2>3, Keep, RoutesAssumption DEF HoldsRoute, HoldsChannel, Work, Inside, Items,
       TypeOK
<1>9. CASE LeaveOld(t)
  <2>1. /\ th[t].at = "lower" /\ Work(th[t])
        /\ mon' = mon /\ \A u \in Threads \ {t} : th'[u] = th[u]
    BY <1>9 DEF LeaveOld, Typed, Works, Here, hist
  <2>2. th'[t].at = "new" /\ th'[t].route = th[t].route
    BY <1>9, <2>1 DEF LeaveOld, Typed, Works, Work, Fields, Here
  <2>3. lock' = [lock EXCEPT ![th[t].old] = FALSE] /\ th[t].old \in Channels
    BY <1>9, <2>1 DEF LeaveOld, TypeOK, Work, Inside, Items, Here
  <2> QED
    BY <2>1, <2>2, <2>3, Keep, RoutesAssumption DEF HoldsRoute, HoldsChannel, Work, Inside, Items,
       TypeOK
<1>10. CASE NewPut(t)
  <2>1. /\ th[t].at = "newHeld" /\ Work(th[t])
        /\ mon' = mon /\ \A u \in Threads \ {t} : th'[u] = th[u]
    BY <1>10 DEF NewPut, Typed, Works, Here
  <2>2. th'[t].at = "point" /\ th'[t].route = th[t].route
    BY <1>10, <2>1 DEF NewPut, Typed, Works, Work, Fields, Here
  <2>3. lock' = [lock EXCEPT ![th[t].to] = FALSE] /\ th[t].to \in Channels
    BY <1>10, <2>1 DEF NewPut, TypeOK, Work, Inside, Items, Here
  <2> QED
    BY <2>1, <2>2, <2>3, Keep, RoutesAssumption DEF HoldsRoute, HoldsChannel, Work, Inside, Items,
       TypeOK
<1>11. CASE PointRoute(t)
  BY <1>11 DEF PointRoute, ReadCounts, LocksHeld, Typed, Works, Work, Fields, Here, Inside
<1>12. CASE SaveRoute(t)
  <2>1. /\ th[t].at = "raise" /\ Work(th[t])
        /\ mon' = mon /\ \A u \in Threads \ {t} : th'[u] = th[u]
    BY <1>12 DEF SaveRoute, route, Return, Caller, Typed, Works, Here
  <2>2. th'[t].at \in {"rows", "empty", "next"}
    BY <1>12, <2>1 DEF SaveRoute, route, Return, Caller, Typed, Works, Work, Fields, Here
  <2>3. lock' = [lock EXCEPT ![th[t].route] = FALSE] /\ th[t].route \in Routes
    BY <1>12, <2>1 DEF SaveRoute, route, Return, Caller, TypeOK, Work, Inside, Items, Here
  <2> QED
    BY <2>1, <2>2, <2>3, Keep, RoutesAssumption DEF HoldsRoute, HoldsChannel, Work, Inside, Items,
       TypeOK
<1>13. CASE UnpointRoute(t)
  <2>1. /\ th[t].at = "lower" /\ Work(th[t])
        /\ mon' = mon /\ \A u \in Threads \ {t} : th'[u] = th[u]
    BY <1>13 DEF UnpointRoute, route, Return, Caller, Typed, Works, Here
  <2>2. th'[t].at \in {"rows", "empty", "next"} /\ th[t].to = None
    BY <1>13, <2>1 DEF UnpointRoute, route, Return, Caller, Typed, Works, Work, Fields, Here
  <2>3. lock' = [lock EXCEPT ![th[t].route] = FALSE] /\ th[t].route \in Routes
    BY <1>13, <2>1 DEF UnpointRoute, route, Return, Caller, TypeOK, Work, Inside, Items, Here
  <2> QED
    BY <2>1, <2>2, <2>3, Keep, RoutesAssumption DEF HoldsRoute, HoldsChannel, Work, Inside, Items,
       TypeOK
<1> QED
  BY <1>1, <1>2, <1>3, <1>4, <1>5, <1>6, <1>7, <1>8, <1>9, <1>10, <1>11, <1>12, <1>13 DEF RouteStep

LEMMA LocksSend ==
  ASSUME LocksHeld, Typed, TypeOK, NEW t \in Threads, SendStep(t)
  PROVE  LocksHeld'
<1>1. CASE TakeBatch(t)
  BY <1>1 DEF TakeBatch, LocksHeld, Typed, Works, Work, Fields, Here, Inside, hist
<1>2. CASE PostBatch(t)
  BY <1>2 DEF PostBatch, Sent, LocksHeld, Typed, Works, Work, Fields, Here, Inside, hist
<1>3. CASE LoseBatch(t)
  BY <1>3 DEF LoseBatch, Sent, LocksHeld, Typed, Works, Work, Fields, Here, Inside
<1>4. CASE AllSent(t)
  BY <1>4 DEF AllSent, Idle, LocksHeld, Typed, Works, Work, Fields, Here, Inside, hist
<1> QED
  BY <1>1, <1>2, <1>3, <1>4 DEF SendStep

LEMMA LocksWeb ==
  ASSUME LocksHeld, Typed, TypeOK, NEW t \in Threads, WebStep(t), ~RouteStep(t), ~SendStep(t)
  PROVE  LocksHeld'
<1>1. CASE Refuse(t)
  BY <1>1 DEF Refuse, Idle, LocksHeld, Typed, Works, Work, Fields, Here, Inside, hist
<1>2. CASE config_transceiver(t)
  BY <1>2 DEF config_transceiver, LocksHeld, Typed, Works, Work, Fields, Here, Goto, Inside, hist
<1>3. CASE clean_slot_transceiver_params(t)
  BY <1>3 DEF clean_slot_transceiver_params, Idle, LocksHeld, Typed, Works, Work, Fields, Here,
     Inside
<1>4. CASE Dequeue(t)
  BY <1>4 DEF Dequeue, Begin, LocksHeld, Typed, Works, Work, Fields, Here, Inside, hist
<1>5. CASE Dequeued(t)
  BY <1>5 DEF Dequeued, SendFrom, LocksHeld, Typed, Works, Work, Fields, Here, Inside, hist
<1>6. CASE \E r \in Routes : EmptyNext(t, r)
  BY <1>6 DEF EmptyNext, LocksHeld, Typed, Works, Work, Fields, Here, Inside, hist
<1>7. CASE Emptied(t)
  BY <1>7 DEF Emptied, SendFrom, LocksHeld, Typed, Works, Work, Fields, Here, Inside, hist
<1> QED
  BY <1>1, <1>2, <1>3, <1>4, <1>5, <1>6, <1>7 DEF WebStep

LEMMA LocksOperator ==
  ASSUME LocksHeld, Typed, TypeOK, NEW t \in Threads, Operator(t)
  PROVE  LocksHeld'
<1>1. CASE \E s \in Slots, clean \in BOOLEAN : Submit(t, s, clean)
  BY <1>1 DEF Submit, Idle, LocksHeld, Typed, Works, Work, Fields, Here, Inside, hist
<1>2. CASE \E r \in Routes, c \in Maybe : Ask(t, r, c)
  BY <1>2 DEF Ask, LocksHeld, Typed, Works, Work, Fields, Here, Inside, hist
<1> QED
  BY <1>1, <1>2 DEF Operator, Maybe

LEMMA LocksTask ==
  ASSUME LocksHeld, Typed, TypeOK, NEW t \in Threads, TaskStep(t), ~RouteStep(t), ~SendStep(t)
  PROVE  LocksHeld'
<1>1. CASE \E s \in Slots : StartSync(t, s)
  BY <1>1 DEF StartSync, Idle, LocksHeld, Typed, Works, Work, Fields, Here, Inside, hist
<1>2. CASE \E r \in Routes : SelectRow(t, r)
  BY <1>2 DEF SelectRow, LocksHeld, Typed, Works, Work, Fields, Here, Inside, hist
<1>3. CASE \E r \in Routes : RewriteRead(t, r)
  BY <1>3 DEF RewriteRead, LocksHeld, Typed, Works, Work, Fields, Here, Inside
<1>4. CASE RewriteWrite(t)
  BY <1>4 DEF RewriteWrite, LocksHeld, Typed, Works, Work, Fields, Here, Inside
<1>5. CASE RetellChannels(t)
  BY <1>5 DEF RetellChannels, SendFrom, RoutesDone, LocksHeld, Typed, Works, Work, Fields, Here,
     Inside
<1>6. CASE Synced(t)
  BY <1>6 DEF Synced, Idle, LocksHeld, Typed, Works, Work, Fields, Here, Inside, hist
<1>7. CASE SelectFails(t)
  BY <1>7 DEF SelectFails, LocksHeld, Typed, Works, Work, Fields, Here, Inside
<1> QED
  BY <1>1, <1>2, <1>3, <1>4, <1>5, <1>6, <1>7 DEF TaskStep

LEMMA LocksMonitor ==
  ASSUME LocksHeld, Typed, TypeOK, MonitorStep
  PROVE  LocksHeld'
<1>1. CASE \E s \in Slots : FreeTransceiver(s)
  BY <1>1 DEF FreeTransceiver, LocksHeld, Typed, Works, Work, Fields, Here, Inside, Watch, TypeOK,
     Items
<1>2. CASE \E s \in Slots : AddSync(s)
  BY <1>2 DEF AddSync, LocksHeld, Typed, Works, Work, Fields, Here, Inside, hist, Watch, TypeOK,
     Items
<1>3. CASE InitTransceiver
  BY <1>3 DEF InitTransceiver, LocksHeld, Typed, Works, Work, Fields, Here, Inside, Watch, TypeOK,
     Items
<1>4. CASE EnableTransceiver
  BY <1>4 DEF EnableTransceiver, LocksHeld, Typed, Works, Work, Fields, Here, Inside, hist, Watch,
     TypeOK, Items
<1> QED
  BY <1>1, <1>2, <1>3, <1>4 DEF MonitorStep

LEMMA LocksEnvironment ==
  ASSUME LocksHeld, Typed, TypeOK, Environment
  PROVE  LocksHeld'
<1>1. CASE \E s \in Slots : Restart(s)
  BY <1>1 DEF Restart, LocksHeld, Here
<1>2. CASE \E s \in Slots, new \in BOOLEAN : Described(s, new)
  BY <1>2 DEF Described, LocksHeld, Here
<1> QED
  BY <1>1, <1>2 DEF Environment

-----------------------------------------------------------------------------
(* Boards that are brought up to date *)

\* A board that is up, or about to be, and not up to date has a task to come or
\* at work.
InWork(s) == \E t \in Tasks : th[t].at # "idle" /\ th[t].slot = s
Coming(s) ==
  level[s] = "up" \/ (mon.at = "enable" /\ mon.slot = s) => flag[s] = 2 \/ sync[s] > 0 \/ InWork(s)
AllComing == mon.at # "dead" => \A s \in Slots : Coming(s)

\* A step that leaves the slots alone, of a thread that stays with its slot.
LEMMA KeepComing ==
  ASSUME AllComing, mon' = mon, UNCHANGED slots, NEW t \in Threads,
         \A u \in Threads \ {t} : th'[u] = th[u],
         t \in Tasks => th[t].at = "idle" \/ (th'[t].at # "idle" /\ th'[t].slot = th[t].slot)
  PROVE  AllComing'
BY DEF AllComing, Coming, InWork, slots, Threads

LEMMA ComingRoute ==
  ASSUME AllComing, Typed, TypeOK, NEW t \in Threads, RouteStep(t)
  PROVE  AllComing'
<1>1. CASE RouteSeen(t)
  <2>1. /\ mon' = mon /\ UNCHANGED slots /\ \A u \in Threads \ {t} : th'[u] = th[u]
        /\ t \in Tasks => th'[t].at # "idle" /\ th'[t].slot = th[t].slot
    BY <1>1, RoutesAssumption DEF RouteSeen, Seen, Typed, Works, Work, Fields, Here, Goto, Inside,
       hist, Threads
  <2> QED
    BY <2>1, KeepComing DEF Threads
<1>2. CASE OldSeen(t)
  <2>1. /\ mon' = mon /\ UNCHANGED slots /\ \A u \in Threads \ {t} : th'[u] = th[u]
        /\ t \in Tasks => th'[t].at # "idle" /\ th'[t].slot = th[t].slot
    BY <1>2, RoutesAssumption DEF OldSeen, Seen, Typed, Works, Work, Fields, Here, Goto, Inside,
       hist, Threads
  <2> QED
    BY <2>1, KeepComing DEF Threads
<1>3. CASE NewSeen(t)
  <2>1. /\ mon' = mon /\ UNCHANGED slots /\ \A u \in Threads \ {t} : th'[u] = th[u]
        /\ t \in Tasks => th'[t].at # "idle" /\ th'[t].slot = th[t].slot
    BY <1>3, RoutesAssumption DEF NewSeen, Seen, Typed, Works, Work, Fields, Here, Goto, Inside,
       hist, Threads
  <2> QED
    BY <2>1, KeepComing DEF Threads
<1>4. CASE RouteTake(t)
  <2>1. /\ mon' = mon /\ UNCHANGED slots /\ \A u \in Threads \ {t} : th'[u] = th[u]
        /\ t \in Tasks => th'[t].at # "idle" /\ th'[t].slot = th[t].slot
    BY <1>4, RoutesAssumption DEF RouteTake, route, Typed, Works, Work, Fields, Here, Inside,
       Threads
  <2> QED
    BY <2>1, KeepComing DEF Threads
<1>5. CASE NullChannel(t)
  BY <1>5 DEF NullChannel, AllComing
<1>6. CASE OldTake(t)
  <2>1. /\ mon' = mon /\ UNCHANGED slots /\ \A u \in Threads \ {t} : th'[u] = th[u]
        /\ t \in Tasks => th'[t].at # "idle" /\ th'[t].slot = th[t].slot
    BY <1>6, RoutesAssumption DEF OldTake, ChannelTake, Source, Typed, Works, Work, Fields, Here,
       Inside, Threads
  <2> QED
    BY <2>1, KeepComing DEF Threads
<1>7. CASE NewTake(t)
  <2>1. /\ mon' = mon /\ UNCHANGED slots /\ \A u \in Threads \ {t} : th'[u] = th[u]
        /\ t \in Tasks => th'[t].at # "idle" /\ th'[t].slot = th[t].slot
    BY <1>7, RoutesAssumption DEF NewTake, ChannelTake, Source, Typed, Works, Work, Fields, Here,
       Inside, Threads
  <2> QED
    BY <2>1, KeepComing DEF Threads
<1>8. CASE OldPut(t)
  <2>1. /\ mon' = mon /\ UNCHANGED slots /\ \A u \in Threads \ {t} : th'[u] = th[u]
        /\ t \in Tasks => th'[t].at # "idle" /\ th'[t].slot = th[t].slot
    BY <1>8, RoutesAssumption DEF OldPut, ReadCounts, Typed, Works, Work, Fields, Here, Inside,
       Threads
  <2> QED
    BY <2>1, KeepComing DEF Threads
<1>9. CASE LeaveOld(t)
  <2>1. /\ mon' = mon /\ UNCHANGED slots /\ \A u \in Threads \ {t} : th'[u] = th[u]
        /\ t \in Tasks => th'[t].at # "idle" /\ th'[t].slot = th[t].slot
    BY <1>9, RoutesAssumption DEF LeaveOld, Typed, Works, Work, Fields, Here, Inside, hist, Threads
  <2> QED
    BY <2>1, KeepComing DEF Threads
<1>10. CASE NewPut(t)
  <2>1. /\ mon' = mon /\ UNCHANGED slots /\ \A u \in Threads \ {t} : th'[u] = th[u]
        /\ t \in Tasks => th'[t].at # "idle" /\ th'[t].slot = th[t].slot
    BY <1>10, RoutesAssumption DEF NewPut, Typed, Works, Work, Fields, Here, Inside, Threads
  <2> QED
    BY <2>1, KeepComing DEF Threads
<1>11. CASE PointRoute(t)
  <2>1. /\ mon' = mon /\ UNCHANGED slots /\ \A u \in Threads \ {t} : th'[u] = th[u]
        /\ t \in Tasks => th'[t].at # "idle" /\ th'[t].slot = th[t].slot
    BY <1>11, RoutesAssumption DEF PointRoute, ReadCounts, Typed, Works, Work, Fields, Here,
       Inside, Threads
  <2> QED
    BY <2>1, KeepComing DEF Threads
<1>12. CASE SaveRoute(t)
  <2>1. /\ mon' = mon /\ UNCHANGED slots /\ \A u \in Threads \ {t} : th'[u] = th[u]
        /\ t \in Tasks => th'[t].at # "idle" /\ th'[t].slot = th[t].slot
    BY <1>12, RoutesAssumption DEF SaveRoute, Return, Caller, Typed, Works, Work, Fields, Here,
       Inside, Threads
  <2> QED
    BY <2>1, KeepComing DEF Threads
<1>13. CASE UnpointRoute(t)
  <2>1. /\ mon' = mon /\ UNCHANGED slots /\ \A u \in Threads \ {t} : th'[u] = th[u]
        /\ t \in Tasks => th'[t].at # "idle" /\ th'[t].slot = th[t].slot
    BY <1>13, RoutesAssumption DEF UnpointRoute, Return, Caller, Typed, Works, Work, Fields, Here,
       Inside, Threads
  <2> QED
    BY <2>1, KeepComing DEF Threads
<1> QED
  BY <1>1, <1>2, <1>3, <1>4, <1>5, <1>6, <1>7, <1>8, <1>9, <1>10, <1>11, <1>12, <1>13 DEF RouteStep

LEMMA ComingSend ==
  ASSUME AllComing, Typed, TypeOK, NEW t \in Threads, SendStep(t)
  PROVE  AllComing'
<1>1. CASE TakeBatch(t)
  <2>1. /\ mon' = mon /\ UNCHANGED slots /\ \A u \in Threads \ {t} : th'[u] = th[u]
        /\ t \in Tasks => th'[t].at # "idle" /\ th'[t].slot = th[t].slot
    BY <1>1, RoutesAssumption DEF TakeBatch, Typed, Works, Work, Fields, Here, Inside, hist, Threads
  <2> QED
    BY <2>1, KeepComing DEF Threads
<1>2. CASE PostBatch(t)
  <2>1. /\ mon' = mon /\ UNCHANGED slots /\ \A u \in Threads \ {t} : th'[u] = th[u]
        /\ t \in Tasks => th'[t].at # "idle" /\ th'[t].slot = th[t].slot
    BY <1>2, RoutesAssumption DEF PostBatch, Sent, Typed, Works, Work, Fields, Here, Inside, hist,
       Threads
  <2> QED
    BY <2>1, KeepComing DEF Threads
<1>3. CASE LoseBatch(t)
  <2>1. /\ mon' = mon /\ UNCHANGED slots /\ \A u \in Threads \ {t} : th'[u] = th[u]
        /\ t \in Tasks => th'[t].at # "idle" /\ th'[t].slot = th[t].slot
    BY <1>3, RoutesAssumption DEF LoseBatch, Sent, Typed, Works, Work, Fields, Here, Inside, Threads
  <2> QED
    BY <2>1, KeepComing DEF Threads
<1>4. CASE AllSent(t)
  <2>1. /\ mon' = mon /\ UNCHANGED slots /\ \A u \in Threads \ {t} : th'[u] = th[u]
        /\ t \in Tasks => th'[t].at # "idle" /\ th'[t].slot = th[t].slot
    BY <1>4, RoutesAssumption DEF AllSent, Idle, Typed, Works, Work, Fields, Here, Inside, hist,
       Threads
  <2> QED
    BY <2>1, KeepComing DEF Threads
<1> QED
  BY <1>1, <1>2, <1>3, <1>4 DEF SendStep

LEMMA ComingWeb ==
  ASSUME AllComing, Typed, TypeOK, NEW t \in Webs, WebStep(t), ~RouteStep(t), ~SendStep(t)
  PROVE  AllComing'
<1>1. CASE Refuse(t)
  <2>1. /\ mon' = mon /\ UNCHANGED slots /\ \A u \in Threads \ {t} : th'[u] = th[u]
        /\ t \in Tasks => th'[t].at # "idle" /\ th'[t].slot = th[t].slot
    BY <1>1, RoutesAssumption DEF Refuse, Idle, Typed, Works, Work, Fields, Here, Inside, hist,
       Threads
  <2> QED
    BY <2>1, KeepComing DEF Threads
<1>2. CASE config_transceiver(t)
  <2>1. /\ mon' = mon /\ UNCHANGED slots /\ \A u \in Threads \ {t} : th'[u] = th[u]
        /\ t \in Tasks => th'[t].at # "idle" /\ th'[t].slot = th[t].slot
    BY <1>2, RoutesAssumption DEF config_transceiver, Typed, Works, Work, Fields, Here, Goto,
       Inside, hist, Threads
  <2> QED
    BY <2>1, KeepComing DEF Threads
<1>3. CASE clean_slot_transceiver_params(t)
  <2>1. /\ mon' = mon /\ UNCHANGED slots /\ \A u \in Threads \ {t} : th'[u] = th[u]
        /\ t \in Tasks => th'[t].at # "idle" /\ th'[t].slot = th[t].slot
    BY <1>3, RoutesAssumption DEF clean_slot_transceiver_params, Idle, Typed, Works, Work, Fields,
       Here, Inside, Threads
  <2> QED
    BY <2>1, KeepComing DEF Threads
<1>4. CASE Dequeue(t)
  <2>1. /\ mon' = mon /\ UNCHANGED slots /\ \A u \in Threads \ {t} : th'[u] = th[u]
        /\ t \in Tasks => th'[t].at # "idle" /\ th'[t].slot = th[t].slot
    BY <1>4, RoutesAssumption DEF Dequeue, Begin, Typed, Works, Work, Fields, Here, Inside, hist,
       Threads
  <2> QED
    BY <2>1, KeepComing DEF Threads
<1>5. CASE Dequeued(t)
  <2>1. /\ mon' = mon /\ UNCHANGED slots /\ \A u \in Threads \ {t} : th'[u] = th[u]
        /\ t \in Tasks => th'[t].at # "idle" /\ th'[t].slot = th[t].slot
    BY <1>5, RoutesAssumption DEF Dequeued, SendFrom, Typed, Works, Work, Fields, Here, Inside,
       hist, Threads
  <2> QED
    BY <2>1, KeepComing DEF Threads
<1>6. CASE \E r \in Routes : EmptyNext(t, r)
  <2>1. /\ mon' = mon /\ UNCHANGED slots /\ \A u \in Threads \ {t} : th'[u] = th[u]
        /\ t \in Tasks => th'[t].at # "idle" /\ th'[t].slot = th[t].slot
    BY <1>6, RoutesAssumption DEF EmptyNext, Typed, Works, Work, Fields, Here, Inside, hist, Threads
  <2> QED
    BY <2>1, KeepComing DEF Threads
<1>7. CASE Emptied(t)
  <2>1. /\ mon' = mon /\ UNCHANGED slots /\ \A u \in Threads \ {t} : th'[u] = th[u]
        /\ t \in Tasks => th'[t].at # "idle" /\ th'[t].slot = th[t].slot
    BY <1>7, RoutesAssumption DEF Emptied, SendFrom, Typed, Works, Work, Fields, Here, Inside,
       hist, Threads
  <2> QED
    BY <2>1, KeepComing DEF Threads
<1> QED
  BY <1>1, <1>2, <1>3, <1>4, <1>5, <1>6, <1>7 DEF WebStep

LEMMA ComingOperator ==
  ASSUME AllComing, Typed, TypeOK, NEW t \in Webs, Operator(t)
  PROVE  AllComing'
<1>1. CASE \E s \in Slots, clean \in BOOLEAN : Submit(t, s, clean)
  <2>1. /\ mon' = mon /\ UNCHANGED slots /\ \A u \in Threads \ {t} : th'[u] = th[u]
        /\ t \in Tasks => th'[t].at # "idle" /\ th'[t].slot = th[t].slot
    BY <1>1, RoutesAssumption DEF Submit, Idle, Typed, Works, Work, Fields, Here, Inside, hist,
       Threads
  <2> QED
    BY <2>1, KeepComing DEF Threads
<1>2. CASE \E r \in Routes, c \in Maybe : Ask(t, r, c)
  <2>1. /\ mon' = mon /\ UNCHANGED slots /\ \A u \in Threads \ {t} : th'[u] = th[u]
        /\ t \in Tasks => th'[t].at # "idle" /\ th'[t].slot = th[t].slot
    BY <1>2, RoutesAssumption DEF Ask, Typed, Works, Work, Fields, Here, Inside, hist, Threads
  <2> QED
    BY <2>1, KeepComing DEF Threads
<1> QED
  BY <1>1, <1>2 DEF Operator, Maybe

LEMMA ComingTask ==
  ASSUME AllComing, Typed, TypeOK, NEW t \in Tasks, TaskStep(t), ~RouteStep(t), ~SendStep(t)
  PROVE  AllComing'
<1>1. CASE \E s \in Slots : StartSync(t, s)
  BY <1>1 DEF StartSync, Idle, AllComing, Coming, InWork, Typed, Works, Work, Fields, Here,
     TypeOK, Threads, hist
<1>2. CASE \E r \in Routes : SelectRow(t, r)
  <2>1. /\ mon' = mon /\ UNCHANGED slots /\ \A u \in Threads \ {t} : th'[u] = th[u]
        /\ t \in Tasks => th'[t].at # "idle" /\ th'[t].slot = th[t].slot
    BY <1>2, RoutesAssumption DEF SelectRow, Typed, Works, Work, Fields, Here, Inside, hist, Threads
  <2> QED
    BY <2>1, KeepComing DEF Threads
<1>3. CASE \E r \in Routes : RewriteRead(t, r)
  <2>1. /\ mon' = mon /\ UNCHANGED slots /\ \A u \in Threads \ {t} : th'[u] = th[u]
        /\ t \in Tasks => th'[t].at # "idle" /\ th'[t].slot = th[t].slot
    BY <1>3, RoutesAssumption DEF RewriteRead, Typed, Works, Work, Fields, Here, Inside, Threads
  <2> QED
    BY <2>1, KeepComing DEF Threads
<1>4. CASE RewriteWrite(t)
  <2>1. /\ mon' = mon /\ UNCHANGED slots /\ \A u \in Threads \ {t} : th'[u] = th[u]
        /\ t \in Tasks => th'[t].at # "idle" /\ th'[t].slot = th[t].slot
    BY <1>4, RoutesAssumption DEF RewriteWrite, Typed, Works, Work, Fields, Here, Inside, Threads
  <2> QED
    BY <2>1, KeepComing DEF Threads
<1>5. CASE RetellChannels(t)
  <2>1. /\ mon' = mon /\ UNCHANGED slots /\ \A u \in Threads \ {t} : th'[u] = th[u]
        /\ t \in Tasks => th'[t].at # "idle" /\ th'[t].slot = th[t].slot
    BY <1>5, RoutesAssumption DEF RetellChannels, SendFrom, Typed, Works, Work, Fields, Inside,
       Threads
  <2> QED
    BY <2>1, KeepComing DEF Threads
<1>6. CASE Synced(t)
  BY <1>6 DEF Synced, Idle, AllComing, Coming, InWork, Typed, Works, Work, Fields, Here, TypeOK,
     Threads, hist
<1>7. CASE SelectFails(t)
  <2>1. /\ mon' = mon /\ UNCHANGED slots /\ \A u \in Threads \ {t} : th'[u] = th[u]
        /\ t \in Tasks => th'[t].at # "idle" /\ th'[t].slot = th[t].slot
    BY <1>7, RoutesAssumption DEF SelectFails, Typed, Works, Work, Fields, Here, Inside, Threads
  <2> QED
    BY <2>1, KeepComing DEF Threads
<1> QED
  BY <1>1, <1>2, <1>3, <1>4, <1>5, <1>6, <1>7 DEF TaskStep

LEMMA ComingMonitor ==
  ASSUME AllComing, Typed, TypeOK, MonitorStep
  PROVE  AllComing'
<1>1. CASE \E s \in Slots : FreeTransceiver(s)
  BY <1>1 DEF FreeTransceiver, AllComing, Coming, InWork, Typed, Works, Work, Fields, TypeOK,
     Threads, Watch
<1>2. CASE \E s \in Slots : AddSync(s)
  BY <1>2 DEF AddSync, AllComing, Coming, InWork, Typed, Works, Work, Fields, TypeOK, Threads,
     hist, Watch, lists
<1>3. CASE InitTransceiver
  BY <1>3 DEF InitTransceiver, AllComing, Coming, InWork, Typed, Works, Work, Fields, TypeOK,
     Threads, Watch, lists
<1>4. CASE EnableTransceiver
  BY <1>4 DEF EnableTransceiver, AllComing, Coming, InWork, Typed, Works, Work, Fields, TypeOK,
     Threads, hist, Watch, lists
<1> QED
  BY <1>1, <1>2, <1>3, <1>4 DEF MonitorStep

LEMMA ComingEnvironment ==
  ASSUME AllComing, Typed, TypeOK, Environment
  PROVE  AllComing'
<1>1. CASE \E s \in Slots : Restart(s)
  BY <1>1 DEF Restart, AllComing, Coming, InWork, Typed, Works, Work, Fields, TypeOK, Threads
<1>2. CASE \E s \in Slots, new \in BOOLEAN : Described(s, new)
  BY <1>2 DEF Described, AllComing, Coming, InWork, Typed, Works, Work, Fields, TypeOK, Threads,
     hist
<1> QED
  BY <1>1, <1>2 DEF Environment

-----------------------------------------------------------------------------
(* The requests and the monitor *)

\* Who writes them.
LEMMA WorkWrites ==
  ASSUME NEW t \in Threads, RouteStep(t) \/ SendStep(t), ~NullChannel(t)
  PROVE  mon' = mon /\ requests' = requests
<1>1. CASE RouteStep(t)
  BY <1>1 DEF RouteStep, RouteSeen, OldSeen, NewSeen, Seen, RouteTake, OldTake, NewTake,
     ChannelTake, OldPut, LeaveOld, NewPut, PointRoute, SaveRoute, UnpointRoute, lists
<1>2. CASE SendStep(t)
  BY <1>2 DEF SendStep, TakeBatch, PostBatch, LoseBatch, AllSent, lists
<1> QED
  BY <1>1, <1>2

LEMMA CallWrites ==
  ASSUME NEW t \in Threads, WebStep(t) \/ Operator(t) \/ TaskStep(t), ~RouteStep(t), ~SendStep(t)
  PROVE  /\ mon' = mon
         /\ \/ requests' = requests
            \/ Dequeue(t)
            \/ \E r \in Routes, c \in Maybe : Ask(t, r, c)
<1>1. CASE WebStep(t)
  BY <1>1 DEF WebStep, Refuse, config_transceiver, clean_slot_transceiver_params, Dequeue,
     Dequeued, EmptyNext, Emptied, lists
<1>2. CASE Operator(t)
  BY <1>2 DEF Operator, Submit, Ask, lists, Maybe
<1>3. CASE TaskStep(t)
  BY <1>3 DEF TaskStep, StartSync, SelectRow, SelectFails, RewriteRead, RewriteWrite,
     RetellChannels, Synced, lists
<1> QED
  BY <1>1, <1>2, <1>3

LEMMA ThreadWrites ==
  ASSUME Typed, NEW t \in Threads, WebStep(t) \/ Operator(t) \/ TaskStep(t)
  PROVE  Asked' /\ Watch'
<1>1. ASSUME NEW r \in Routes, NEW c \in Maybe, Ask(t, r, c) PROVE Asked'
  <2>1. [route |-> r, to |-> c] \in [route : Routes, to : Maybe] /\ th[t].slot \in Slots
    BY <1>1 DEF Ask, Typed, Works, Work, Here
  <2>2. Append(requests[th[t].slot], [route |-> r, to |-> c]) \in Seq([route : Routes, to : Maybe])
    BY <2>1, AppendProperties DEF Typed, Asked
  <2> QED
    BY <1>1, <2>1, <2>2 DEF Ask, Typed, Asked
<1>2. ASSUME Dequeue(t) PROVE Asked'
  <2>1. th[t].slot \in Slots /\ requests[th[t].slot] # <<>>
    BY <1>2 DEF Dequeue, Typed, Works, Work, Here
  <2>2. Tail(requests[th[t].slot]) \in Seq([route : Routes, to : Maybe])
    BY <2>1, HeadTailProperties DEF Typed, Asked
  <2> QED
    BY <1>2, <2>1, <2>2 DEF Dequeue, Typed, Asked
<1>3. ASSUME NullChannel(t) PROVE Asked' /\ Watch'
  BY <1>3 DEF NullChannel, Asked, Watch
<1>4. requests' = requests => Asked'
  BY DEF Typed, Asked
<1>5. mon' = mon => Watch'
  BY DEF Typed, Watch
<1>6. CASE NullChannel(t)
  BY <1>3, <1>6
<1>7. CASE ~NullChannel(t) /\ (RouteStep(t) \/ SendStep(t))
  BY <1>4, <1>5, <1>7, WorkWrites
<1>8. CASE ~RouteStep(t) /\ ~SendStep(t)
  <2>1. Asked'
    BY <1>1, <1>2, <1>4, <1>8, CallWrites
  <2> QED
    BY <1>5, <1>8, <2>1, CallWrites
<1> QED
  BY <1>6, <1>7, <1>8

LEMMA MonitorWrites ==
  ASSUME Typed, MonitorStep
  PROVE  Watch' /\ UNCHANGED <<requests, th>>
<1>1. UNCHANGED <<requests, th>>
  BY DEF MonitorStep, FreeTransceiver, AddSync, InitTransceiver, EnableTransceiver, lists
<1>2. CASE \E s \in Slots : FreeTransceiver(s)
  BY <1>2 DEF FreeTransceiver, Watch
<1>3. CASE \E s \in Slots : AddSync(s)
  <2> PICK s \in Slots : AddSync(s)
    BY <1>3
  <2>1. mon' = [at |-> "enable", slot |-> s]
    BY DEF AddSync
  <2> QED
    BY <1>1, <2>1 DEF Watch
<1>4. CASE InitTransceiver
  <2>1. mon' = [mon EXCEPT !.at = "enable"] /\ mon.at = "init"
    BY <1>4 DEF InitTransceiver
  <2> QED
    BY <1>1, <2>1 DEF Typed, Watch
<1>5. CASE EnableTransceiver
  <2>1. mon' = [at |-> "idle", slot |-> None]
    BY <1>5 DEF EnableTransceiver
  <2> QED
    BY <1>1, <2>1 DEF Watch
<1> QED
  BY <1>1, <1>2, <1>3, <1>4, <1>5 DEF MonitorStep

LEMMA EnvironmentWrites ==
  ASSUME Environment
  PROVE  UNCHANGED <<mon, requests, th>>
BY DEF Environment, Restart, Described, lists

-----------------------------------------------------------------------------
(* Theorems *)

RouteInv == Typed /\ TypeOK

LEMMA RouteInit == Init => RouteInv /\ LocksHeld /\ AllComing
<1> SUFFICES ASSUME Init PROVE RouteInv /\ LocksHeld /\ AllComing
  OBVIOUS
<1>1. Typed
  BY NoWork DEF Init, Typed, Works, Asked, Watch
<1>2. TypeOK
  BY RoutesAssumption, Bytes DEF Init, TypeOK, Items
<1>3. LocksHeld /\ AllComing
  BY DEF Init, LocksHeld, AllComing, Coming, Items
<1> QED
  BY <1>1, <1>2, <1>3 DEF RouteInv

LEMMA RouteNext == RouteInv /\ [Next]_vars => RouteInv'
<1> SUFFICES ASSUME RouteInv, [Next]_vars PROVE RouteInv'
  OBVIOUS
<1>1. Typed /\ TypeOK
  BY DEF RouteInv
<1>2. ASSUME NEW t \in Threads, WebStep(t) \/ Operator(t) \/ TaskStep(t) PROVE RouteInv'
  <2>1. Asked' /\ Watch'
    BY <1>1, <1>2, ThreadWrites
  <2>2. Works' /\ TypeOK'
    BY <1>1, <1>2, WorksRoute, WorksSend, WorksWeb, WorksOperator, WorksTask,
       TypesRoute, TypesSend, TypesWeb, TypesOperator, TypesTask
  <2> QED
    BY <2>1, <2>2 DEF RouteInv, Typed
<1>3. CASE MonitorStep
  BY <1>1, <1>3, MonitorWrites, TypesMonitor DEF RouteInv, Typed, Works, Asked
<1>4. CASE Environment
  BY <1>1, <1>4, EnvironmentWrites, TypesEnvironment DEF RouteInv, Typed, Works, Asked, Watch
<1>5. CASE UNCHANGED vars
  BY <1>1, <1>5 DEF vars, chans, routes, slots, lists, hist, RouteInv, Typed, Works, Asked, Watch,
     TypeOK
<1> QED
  BY <1>2, <1>3, <1>4, <1>5 DEF Next, Threads

\* All words of channels, routes and slots keep their ranges.
THEOREM TypeCorrect == Spec => []TypeOK
<1>1. RouteInv => TypeOK
  BY DEF RouteInv
<1> QED
  BY <1>1, RouteInit, RouteNext, PTL DEF Spec

\* A lock that is set is held by a thread that will unlock it, however many
\* threads are inside and whatever is initialised under them, unless httpd.bin
\* died of a null channel.
THEOREM LocksAreHeld == Spec => []LocksHeld
<1>1. RouteInv /\ LocksHeld /\ [Next]_vars => LocksHeld'
  <2> SUFFICES ASSUME Typed, TypeOK, LocksHeld, [Next]_vars PROVE LocksHeld'
    BY DEF RouteInv
  <2>1. ASSUME NEW t \in Threads, WebStep(t) \/ Operator(t) \/ TaskStep(t) PROVE LocksHeld'
    BY <2>1, LocksRoute, LocksSend, LocksWeb, LocksOperator, LocksTask
  <2>2. CASE MonitorStep \/ Environment
    BY <2>2, LocksMonitor, LocksEnvironment
  <2>3. CASE UNCHANGED vars
    BY <2>3 DEF vars, LocksHeld, Here
  <2> QED
    BY <2>1, <2>2, <2>3 DEF Next, Threads
<1> QED
  BY <1>1, RouteInit, RouteNext, PTL DEF Spec

\* A board that came up and is not up to date has a task that will bring it up
\* to date, or is at it, however often it restarts.
THEOREM SyncIsPending == Spec => []SyncPending
<1>1. RouteInv /\ AllComing /\ [Next]_vars => AllComing'
  <2> SUFFICES ASSUME Typed, TypeOK, AllComing, [Next]_vars PROVE AllComing'
    BY DEF RouteInv
  <2>1. ASSUME NEW t \in Webs, WebStep(t) \/ Operator(t) PROVE AllComing'
    BY <2>1, ComingRoute, ComingSend, ComingWeb, ComingOperator DEF Threads
  <2>2. ASSUME NEW t \in Tasks, TaskStep(t) PROVE AllComing'
    BY <2>2, ComingRoute, ComingSend, ComingTask DEF Threads
  <2>3. CASE MonitorStep \/ Environment
    BY <2>3, ComingMonitor, ComingEnvironment
  <2>4. CASE UNCHANGED vars
    BY <2>4 DEF vars, slots, AllComing, Coming, InWork
  <2> QED
    BY <2>1, <2>2, <2>3, <2>4 DEF Next
<1>2. AllComing => SyncPending
  BY DEF AllComing, Coming, InWork, SyncPending
<1> QED
  BY <1>1, <1>2, RouteInit, RouteNext, PTL DEF Spec

-----------------------------------------------------------------------------
(* What the database holds *)

RoutePlaces == Inside \cup {"route", "routeFree"}

\* Thread t works on route r.
On(t, r) == th[t].route = r /\ th[t].at \in Inside

\* Tasks at slot s, and the monitor.
At(s) == {t \in Tasks : th[t].at \notin {"idle", "dead"} /\ th[t].slot = s}
Monitored(s) == mon.at \in {"init", "enable"} /\ mon.slot = s

\* A thread works on the routes of its slot.
Queued == \A s \in Slots : requests[s] \in Seq([route : Of(s, Routes), to : Maybe])
Homely(w) ==
  /\ w.at \in RoutePlaces \cup {"rewriting"} => w.route \in Of(w.slot, Routes)
  /\ w.at \in RoutePlaces \cup {"queue", "next", "rows", "empty", "rewrite", "rewriting"} =>
       w.left \subseteq Of(w.slot, Routes)
  /\ w.at \notin RoutePlaces => w.to = None
  /\ w.at = "empty" => w.after = "queue"
AtHome == Queued /\ \A t \in Threads : Homely(th[t])

\* One thread at a time works on a route, and holds its lock.
Alone ==
  \A r \in Routes \ tangled : \A t \in Threads :
    On(t, r) => lock[r] /\ \A u \in Threads : On(u, r) => u = t

\* The row of a route that is being deleted is gone, unless the database failed.
Deletes ==
  \A r \in Routes \ tangled : \A t \in Threads :
    On(t, r) /\ th[t].to = None => stored[r] = None \/ r \in adrift

\* Thread t gives routes of its slot their channels, and their rows.
Adds(t) ==
  \/ th[t].at \in {"next", "rows"}
  \/ th[t].at \in RoutePlaces /\ (t \in Tasks \/ th[t].to # None \/ th[t].after # "queue")
Saves(t) == Adds(t) /\ flag[th[t].slot] = 2

\* A slot whose board was not described yet.
Fresh(s) ==
  /\ sync[s] = 0 /\ At(s) = {} /\ run[s] # "running" /\ ~Monitored(s)
  /\ \A t \in Threads : th[t].slot = s => ~Adds(t)
  /\ \A r \in Of(s, Routes) : chan[r] = None
Unused == \A s \in Slots : flag[s] = 0 => Fresh(s)

\* The rows of a slot are used once.
OneSync ==
  \A s \in Slots : flag[s] = 1 =>
    sync[s] \in {0, 1} /\ (sync[s] = 1 => At(s) = {}) /\ \A t, u \in At(s) : t = u

\* When a transceiver is stopped, and the board of the monitor.
Stopped ==
  mon.at # "dead" =>
    /\ \A s \in Slots : run[s] = "stop" => flag[s] = 0 \/ Monitored(s)
    /\ \A s \in Slots : Monitored(s) => level[s] = "described"
    /\ mon.at = "init" => run[mon.slot] # "running"

\* Between free_transceiver and init_transceiver there are no rows that should
\* be used, and none is written: only a task that uses rows that could not be
\* deleted gives a route a channel.
Cleared ==
  mon.at = "init" /\ ~(Routes \subseteq tangled) =>
    /\ \A t \in Threads : th[t].slot = mon.slot /\ Adds(t) => flag[mon.slot] = 1 /\ t \in Tasks
    /\ \A r \in Of(mon.slot, Routes) \ tangled : stored[r] = None \/ r \in adrift

\* The row of route r will be used.
Left(t, r) ==
  \/ th[t].at \in RoutePlaces \cup {"rows"} /\ r \in th[t].left
  \/ th[t].at \in {"route", "routeFree"} /\ th[t].route = r
ToUse(r, s) ==
  \/ flag[s] = 0
  \/ /\ flag[s] = 1 /\ (level[s] = "up" \/ Monitored(s))
     /\ sync[s] > 0 \/ \E t \in At(s) : Left(t, r)

\* A row is the channel of its route unless a thread works on the route, it is
\* still to be used, or its board is being replaced.
Matches ==
  mon.at # "dead" => \A r \in Routes \ (tangled \cup adrift) :
    \/ \E t \in Threads : On(t, r)
    \/ stored[r] = chan[r]
    \/ mon.at = "init" /\ mon.slot = SlotOf[r] /\ stored[r] = None
    \/ chan[r] = None /\ ToUse(r, SlotOf[r])

RowInv == AtHome /\ Alone /\ Deletes /\ Unused /\ OneSync /\ Stopped /\ Cleared /\ Matches

\* Thread t may go on to give a route its channel.
May(t) == Adds(t) \/ run[th[t].slot] = "running"

\* A step of thread t that leaves routes and slots alone, does not begin or end
\* its work on a route, and forgets no row that is not adrift.
Aside(t) ==
  /\ \A u \in Threads \ {t} : th'[u] = th[u]
  /\ UNCHANGED <<routes, slots, mon, tangled>> /\ adrift \subseteq adrift'
  /\ \A r \in Routes : lock'[r] = lock[r]
  /\ Homely(th'[t])
  /\ (th'[t].at \in Inside) = (th[t].at \in Inside)
  /\ th[t].at \in Inside => th'[t].route = th[t].route /\ th'[t].to = th[t].to
  /\ Adds(t)' => th'[t].slot = th[t].slot /\ May(t)
  /\ t \in Tasks => /\ th[t].at \notin {"idle", "dead"} /\ th'[t].at \notin {"idle", "dead"}
                    /\ th'[t].slot = th[t].slot
                    /\ \A r \in Routes : chan[r] = None /\ stored[r] # None /\ Left(t, r) =>
                         Left(t, r)' \/ r \in adrift'

\* The locks of channels are not those of routes.
LEMMA RouteLocks ==
  ASSUME TypeOK, NEW c \in Channels, lock' = lock \/ \E b : lock' = [lock EXCEPT ![c] = b]
  PROVE  \A r \in Routes : lock'[r] = lock[r]
<1>1. \A r \in Routes : r # c /\ r \in Items
  BY RoutesAssumption DEF Items
<1> QED
  BY <1>1 DEF TypeOK

LEMMA KeepRows ==
  ASSUME Typed, RowInv, NEW t \in Threads, Aside(t), Queued'
  PROVE  RowInv'
<1>1. /\ UNCHANGED <<chan, stored, flag, run, level, changed, sync, mon, tangled>>
      /\ \A u \in Threads \ {t} : th'[u] = th[u]
      /\ adrift \subseteq adrift'
  BY DEF Aside, routes, slots
<1>2. \A u \in Threads, r \in Routes : On(u, r)' <=> On(u, r)
  BY <1>1 DEF Aside, On
<1>3. \A s \in Slots : At(s)' = At(s)
  BY <1>1 DEF Aside, At, Threads
<1>4. AtHome'
  BY <1>1 DEF Aside, RowInv, AtHome
<1>5. Alone'
  BY <1>1, <1>2 DEF Aside, RowInv, Alone
<1>6. Deletes'
  BY <1>1, <1>2 DEF Aside, RowInv, Deletes, On
<1>7. \A u \in Threads, s \in Slots : Adds(u)' /\ th'[u].slot = s => th[u].slot = s /\ May(u)
  BY <1>1 DEF Aside, May, Adds
<1>8. Unused'
  BY <1>1, <1>3, <1>7 DEF RowInv, Unused, Fresh, Monitored, May
<1>9. OneSync'
  BY <1>1, <1>3 DEF RowInv, OneSync
<1>10. Stopped'
  BY <1>1 DEF RowInv, Stopped, Monitored
<1>11. Cleared'
  <2> SUFFICES ASSUME mon.at = "init", ~(Routes \subseteq tangled) PROVE Cleared'
    BY <1>1 DEF Cleared
  <2>1. mon.slot \in Slots /\ run[mon.slot] # "running"
    BY DEF Typed, Watch, RowInv, Stopped
  <2> QED
    BY <1>1, <1>3, <1>7, <2>1 DEF RowInv, Cleared, May
<1>12. Matches'
  <2> SUFFICES ASSUME mon.at # "dead", NEW r \in Routes \ (tangled \cup adrift'),
                      \A u \in Threads : ~On(u, r), stored[r] # chan[r],
                      ~(mon.at = "init" /\ mon.slot = SlotOf[r] /\ stored[r] = None)
               PROVE  chan[r] = None /\ ToUse(r, SlotOf[r])'
    BY <1>1, <1>2 DEF Matches
  <2>1. chan[r] = None /\ ToUse(r, SlotOf[r])
    BY <1>1 DEF RowInv, Matches
  <2>2. \A u \in Tasks : Left(u, r) => Left(u, r)'
    BY <1>1, <2>1 DEF Aside, Left, Threads
  <2>3. SlotOf[r] \in Slots
    BY RoutesAssumption DEF Items
  <2> QED
    BY <1>1, <1>3, <2>1, <2>2, <2>3 DEF ToUse, Monitored, At
<1> QED
  BY <1>4, <1>5, <1>6, <1>8, <1>9, <1>10, <1>11, <1>12 DEF RowInv

LEMMA RowsAside ==
  ASSUME Typed, TypeOK, RowInv, NEW t \in Threads, RouteStep(t),
         ~(RouteTake(t) \/ NullChannel(t) \/ LeaveOld(t)),
         ~(PointRoute(t) \/ SaveRoute(t) \/ UnpointRoute(t))
  PROVE  RowInv'
<1>1. CASE RouteSeen(t)
  <2>1. Aside(t)
    BY <1>1, RoutesAssumption DEF RouteSeen, Seen, Aside, May, Adds, Left, RowInv, AtHome, Homely,
       RoutePlaces, Typed, Works, Work, Fields, Here, Goto, Inside, hist, Threads, TypeOK, Items, Of
  <2>2. Queued'
    BY <1>1 DEF RouteSeen, Seen, RowInv, AtHome, Queued, lists
  <2> QED
    BY <2>1, <2>2, KeepRows
<1>2. CASE OldSeen(t)
  <2>1. Aside(t)
    BY <1>2, RoutesAssumption DEF OldSeen, Seen, Aside, May, Adds, Left, RowInv, AtHome, Homely,
       RoutePlaces, Typed, Works, Work, Fields, Here, Goto, Inside, hist, Threads, TypeOK, Items, Of
  <2>2. Queued'
    BY <1>2 DEF OldSeen, Seen, RowInv, AtHome, Queued, lists
  <2> QED
    BY <2>1, <2>2, KeepRows
<1>3. CASE NewSeen(t)
  <2>1. Aside(t)
    BY <1>3, RoutesAssumption DEF NewSeen, Seen, Aside, May, Adds, Left, RowInv, AtHome, Homely,
       RoutePlaces, Typed, Works, Work, Fields, Here, Goto, Inside, hist, Threads, TypeOK, Items, Of
  <2>2. Queued'
    BY <1>3 DEF NewSeen, Seen, RowInv, AtHome, Queued, lists
  <2> QED
    BY <2>1, <2>2, KeepRows
<1>4. CASE OldTake(t)
  <2>1. /\ th[t].at = "oldFree" /\ Work(th[t]) /\ Homely(th[t])
        /\ UNCHANGED <<routes, slots, mon, tangled, adrift>> /\ (\A u \in Threads \ {t} : th'[u] = th[u])
    BY <1>4 DEF OldTake, ChannelTake, Source, Here, Here, Typed, Works, RowInv, AtHome, hist
  <2>2. /\ th'[t].at = "oldHeld"
        /\ th'[t].slot = th[t].slot /\ th'[t].route = th[t].route /\ th'[t].to = th[t].to /\ th'[t].left = th[t].left /\ th'[t].after = th[t].after
    BY <1>4, <2>1 DEF OldTake, ChannelTake, Source, Here, Typed, Works, Work, Fields
  <2>3. \A q \in Routes : lock'[q] = lock[q]
    <3>1. th[t].old \in Channels
      BY <2>1 DEF Work, Inside
    <3>2. lock' = lock \/ \E b : lock' = [lock EXCEPT ![th[t].old] = b]
      BY <1>4 DEF OldTake, ChannelTake, Source, Here
    <3> QED
      BY <3>1, <3>2, RouteLocks
  <2>4. Queued'
    BY <1>4 DEF OldTake, ChannelTake, Source, Here, RowInv, AtHome, Queued, lists
  <2>5. Aside(t)
    BY <2>1, <2>2, <2>3 DEF Aside, May, Adds, Left, Homely, Work, RoutePlaces, Inside
  <2> QED
    BY <2>4, <2>5, KeepRows
<1>5. CASE NewTake(t)
  <2>1. /\ th[t].at = "newFree" /\ Work(th[t]) /\ Homely(th[t])
        /\ UNCHANGED <<routes, slots, mon, tangled, adrift>> /\ (\A u \in Threads \ {t} : th'[u] = th[u])
    BY <1>5 DEF NewTake, ChannelTake, Source, Here, Here, Typed, Works, RowInv, AtHome, hist
  <2>2. /\ th'[t].at = "newHeld"
        /\ th'[t].slot = th[t].slot /\ th'[t].route = th[t].route /\ th'[t].to = th[t].to /\ th'[t].left = th[t].left /\ th'[t].after = th[t].after
    BY <1>5, <2>1 DEF NewTake, ChannelTake, Source, Here, Typed, Works, Work, Fields
  <2>3. \A q \in Routes : lock'[q] = lock[q]
    <3>1. th[t].to \in Channels
      BY <2>1 DEF Work, Inside
    <3>2. lock' = lock \/ \E b : lock' = [lock EXCEPT ![th[t].to] = b]
      BY <1>5 DEF NewTake, ChannelTake, Source, Here
    <3> QED
      BY <3>1, <3>2, RouteLocks
  <2>4. Queued'
    BY <1>5 DEF NewTake, ChannelTake, Source, Here, RowInv, AtHome, Queued, lists
  <2>5. Aside(t)
    BY <2>1, <2>2, <2>3 DEF Aside, May, Adds, Left, Homely, Work, RoutePlaces, Inside
  <2> QED
    BY <2>4, <2>5, KeepRows
<1>6. CASE OldPut(t)
  <2>1. /\ th[t].at = "oldHeld" /\ Work(th[t]) /\ Homely(th[t])
        /\ UNCHANGED <<routes, slots, mon, tangled, adrift>> /\ (\A u \in Threads \ {t} : th'[u] = th[u])
    BY <1>6 DEF OldPut, ReadCounts, Tell, Here, Typed, Works, RowInv, AtHome, hist
  <2>2. /\ th'[t].at = "lower"
        /\ th'[t].slot = th[t].slot /\ th'[t].route = th[t].route /\ th'[t].to = th[t].to /\ th'[t].left = th[t].left /\ th'[t].after = th[t].after
    BY <1>6, <2>1 DEF OldPut, ReadCounts, Tell, Typed, Works, Work, Fields
  <2>3. \A q \in Routes : lock'[q] = lock[q]
    <3>1. th[t].old \in Channels
      BY <2>1 DEF Work, Inside
    <3>2. lock' = lock \/ \E b : lock' = [lock EXCEPT ![th[t].old] = b]
      BY <1>6 DEF OldPut, ReadCounts, Tell
    <3> QED
      BY <3>1, <3>2, RouteLocks
  <2>4. Queued'
    BY <1>6 DEF OldPut, ReadCounts, Tell, RowInv, AtHome, Queued, lists
  <2>5. Aside(t)
    BY <2>1, <2>2, <2>3 DEF Aside, May, Adds, Left, Homely, Work, RoutePlaces, Inside
  <2> QED
    BY <2>4, <2>5, KeepRows
<1>7. CASE NewPut(t)
  <2>1. /\ th[t].at = "newHeld" /\ Work(th[t]) /\ Homely(th[t])
        /\ UNCHANGED <<routes, slots, mon, tangled, adrift>> /\ (\A u \in Threads \ {t} : th'[u] = th[u])
    BY <1>7 DEF NewPut, Here, Typed, Works, RowInv, AtHome, hist
  <2>2. /\ th'[t].at = "point"
        /\ th'[t].slot = th[t].slot /\ th'[t].route = th[t].route /\ th'[t].to = th[t].to /\ th'[t].left = th[t].left /\ th'[t].after = th[t].after
    BY <1>7, <2>1 DEF NewPut, Typed, Works, Work, Fields
  <2>3. \A q \in Routes : lock'[q] = lock[q]
    <3>1. th[t].to \in Channels
      BY <2>1 DEF Work, Inside
    <3>2. lock' = lock \/ \E b : lock' = [lock EXCEPT ![th[t].to] = b]
      BY <1>7 DEF NewPut
    <3> QED
      BY <3>1, <3>2, RouteLocks
  <2>4. Queued'
    BY <1>7 DEF NewPut, RowInv, AtHome, Queued, lists
  <2>5. Aside(t)
    BY <2>1, <2>2, <2>3 DEF Aside, May, Adds, Left, Homely, Work, RoutePlaces, Inside
  <2> QED
    BY <2>4, <2>5, KeepRows
<1> QED
  BY <1>1, <1>2, <1>3, <1>4, <1>5, <1>6, <1>7 DEF RouteStep

LEMMA RowsSend ==
  ASSUME Typed, TypeOK, RowInv, NEW t \in Threads, SendStep(t)
  PROVE  RowInv'
<1>1. CASE TakeBatch(t)
  <2>1. /\ th[t].at = "send" /\ Work(th[t]) /\ Homely(th[t])
        /\ UNCHANGED <<routes, slots, mon, tangled, adrift>> /\ (\A u \in Threads \ {t} : th'[u] = th[u])
    BY <1>1 DEF TakeBatch, Here, Typed, Works, RowInv, AtHome, hist
  <2>2. /\ th'[t].at = "post"
        /\ th'[t].slot = th[t].slot /\ th'[t].route = th[t].route /\ th'[t].to = th[t].to /\ th'[t].after = th[t].after
    BY <1>1, <2>1 DEF TakeBatch, Typed, Works, Work, Fields
  <2>3. \A q \in Routes : lock'[q] = lock[q]
    BY <1>1 DEF TakeBatch
  <2>4. Queued'
    BY <1>1 DEF TakeBatch, RowInv, AtHome, Queued, lists
  <2>5. Aside(t)
    BY <2>1, <2>2, <2>3 DEF Aside, May, Adds, Left, Homely, Work, RoutePlaces, Inside
  <2> QED
    BY <2>4, <2>5, KeepRows
<1>2. CASE PostBatch(t)
  <2>1. Aside(t)
    BY <1>2, RoutesAssumption DEF PostBatch, Sent, Aside, May, Adds, Left, RowInv, AtHome, Homely,
       RoutePlaces, Typed, Works, Work, Fields, Here, Goto, Inside, hist, Threads, TypeOK, Items, Of
  <2>2. Queued'
    BY <1>2 DEF PostBatch, Sent, RowInv, AtHome, Queued, lists
  <2> QED
    BY <2>1, <2>2, KeepRows
<1>3. CASE LoseBatch(t)
  <2>1. Aside(t)
    BY <1>3, RoutesAssumption DEF LoseBatch, Sent, Aside, May, Adds, Left, RowInv, AtHome, Homely,
       RoutePlaces, Typed, Works, Work, Fields, Here, Goto, Inside, hist, Threads, TypeOK, Items, Of
  <2>2. Queued'
    BY <1>3 DEF LoseBatch, Sent, RowInv, AtHome, Queued, lists
  <2> QED
    BY <2>1, <2>2, KeepRows
<1>4. CASE AllSent(t)
  <2>1. Aside(t)
    BY <1>4, RoutesAssumption DEF AllSent, Idle, Aside, May, Adds, Left, RowInv, AtHome, Homely,
       RoutePlaces, Typed, Works, Work, Fields, Here, Goto, Inside, hist, Threads, TypeOK, Items, Of
  <2>2. Queued'
    BY <1>4 DEF AllSent, Idle, RowInv, AtHome, Queued, lists
  <2> QED
    BY <2>1, <2>2, KeepRows
<1> QED
  BY <1>1, <1>2, <1>3, <1>4 DEF SendStep

LEMMA RowsWeb ==
  ASSUME Typed, TypeOK, RowInv, NEW t \in Threads, t \in Webs, WebStep(t), ~RouteStep(t),
         ~SendStep(t)
  PROVE  RowInv'
<1>1. CASE Refuse(t)
  <2>1. Aside(t)
    BY <1>1, RoutesAssumption DEF Refuse, Idle, Aside, May, Adds, Left, RowInv, AtHome, Homely,
       RoutePlaces, Typed, Works, Work, Fields, Here, Goto, Inside, hist, Threads, TypeOK, Items, Of
  <2>2. Queued'
    BY <1>1 DEF Refuse, Idle, RowInv, AtHome, Queued, lists
  <2> QED
    BY <2>1, <2>2, KeepRows
<1>2. CASE config_transceiver(t)
  <2>1. /\ th[t].at = "queue" /\ Work(th[t]) /\ Homely(th[t])
        /\ UNCHANGED <<routes, slots, mon, tangled, adrift>> /\ (\A u \in Threads \ {t} : th'[u] = th[u])
    BY <1>2 DEF config_transceiver, Goto, Here, Typed, Works, RowInv, AtHome, hist
  <2>2. /\ th'[t].at = "next"
        /\ th'[t].slot = th[t].slot /\ th'[t].route = th[t].route /\ th'[t].to = th[t].to /\ th'[t].left = th[t].left /\ th'[t].after = th[t].after
    BY <1>2, <2>1 DEF config_transceiver, Goto, Typed, Works, Work, Fields
  <2>3. \A q \in Routes : lock'[q] = lock[q]
    BY <1>2 DEF config_transceiver, Goto
  <2>4. Queued'
    BY <1>2 DEF config_transceiver, Goto, RowInv, AtHome, Queued, lists
  <2>5. Aside(t)
    BY <1>2, <2>1, <2>2, <2>3 DEF config_transceiver, Here, Aside, May, Adds, Left, Homely, Work,
       RoutePlaces, Inside
  <2> QED
    BY <2>4, <2>5, KeepRows
<1>3. CASE clean_slot_transceiver_params(t)
  <2>1. Aside(t)
    BY <1>3, RoutesAssumption DEF clean_slot_transceiver_params, Idle, Aside, May, Adds, Left,
       RowInv, AtHome, Homely, RoutePlaces, Typed, Works, Work, Fields, Here, Goto, Inside, hist,
       Threads, TypeOK, Items, Of
  <2>2. Queued'
    BY <1>3 DEF clean_slot_transceiver_params, Idle, RowInv, AtHome, Queued, lists
  <2> QED
    BY <2>1, <2>2, KeepRows
<1>4. CASE Dequeue(t)
  <2> DEFINE q == Head(requests[th[t].slot])
  <2>1. th[t].slot \in Slots /\ requests[th[t].slot] # <<>> /\ th[t].at = "next" /\ DOMAIN th[t] = Fields
    BY <1>4 DEF Dequeue, Here, Typed, Works, Work
  <2>2. /\ q \in [route : Of(th[t].slot, Routes), to : Maybe]
        /\ Tail(requests[th[t].slot]) \in Seq([route : Of(th[t].slot, Routes), to : Maybe])
    BY <2>1, HeadTailProperties DEF RowInv, AtHome, Queued
  <2>3. Queued'
    BY <1>4, <2>1, <2>2 DEF Dequeue, RowInv, AtHome, Queued
  <2>4. q.route \in Of(th[t].slot, Routes)
    BY <2>2
  <2>5. /\ th' = th \/ th' = [th EXCEPT ![t] = [th[t] EXCEPT !.at = "route", !.route = q.route, !.to = q.to]]
        /\ UNCHANGED <<lock, routes, slots, mon, tangled, adrift>>
    BY <1>4 DEF Dequeue, Begin, hist
  <2> HIDE DEF q
  <2>6. /\ DOMAIN th = Threads
        /\ \/ th'[t] = th[t]
           \/ /\ th'[t].at = "route" /\ th'[t].route = q.route /\ th'[t].slot = th[t].slot
              /\ th'[t].left = th[t].left /\ th'[t].after = th[t].after
        /\ \A u \in Threads \ {t} : th'[u] = th[u]
    BY <2>1, <2>5 DEF Typed, Works, Fields
  <2>7. Homely(th'[t])
    BY <2>1, <2>4, <2>6 DEF RowInv, AtHome, Homely, RoutePlaces, Inside
  <2>8. Aside(t)
    BY <2>1, <2>5, <2>6, <2>7 DEF Aside, May, Adds, Left, RoutePlaces, Inside
  <2> QED
    BY <2>3, <2>8, KeepRows
<1>5. CASE Dequeued(t)
  <2>1. /\ th[t].at = "next" /\ Work(th[t]) /\ Homely(th[t])
        /\ UNCHANGED <<routes, slots, mon, tangled, adrift>> /\ (\A u \in Threads \ {t} : th'[u] = th[u])
    BY <1>5 DEF Dequeued, SendFrom, Here, Typed, Works, RowInv, AtHome, hist
  <2>2. /\ th'[t].at = "send"
        /\ th'[t].slot = th[t].slot /\ th'[t].route = th[t].route /\ th'[t].to = th[t].to
    BY <1>5, <2>1 DEF Dequeued, SendFrom, Typed, Works, Work, Fields
  <2>3. \A q \in Routes : lock'[q] = lock[q]
    BY <1>5 DEF Dequeued, SendFrom
  <2>4. Queued'
    BY <1>5 DEF Dequeued, SendFrom, RowInv, AtHome, Queued, lists
  <2>5. Aside(t)
    BY <2>1, <2>2, <2>3 DEF Aside, May, Adds, Left, Homely, Work, RoutePlaces, Inside
  <2> QED
    BY <2>4, <2>5, KeepRows
<1>6. CASE \E r \in Routes : EmptyNext(t, r)
  <2> PICK r \in Routes : EmptyNext(t, r)
    BY <1>6
  <2>1. /\ th[t].at = "empty" /\ Work(th[t]) /\ Homely(th[t])
        /\ UNCHANGED <<routes, slots, mon, tangled, adrift>> /\ (\A u \in Threads \ {t} : th'[u] = th[u])
    BY DEF EmptyNext, Same, Here, Typed, Works, RowInv, AtHome, hist
  <2>2. /\ th'[t].at \in {"empty", "route"}
        /\ th'[t].slot = th[t].slot /\ th'[t].to = th[t].to /\ th'[t].after = th[t].after
        /\ th'[t].left = th[t].left \ {r} /\ r \in th[t].left /\ (th'[t].at = "route" => th'[t].route = r)
    BY <2>1 DEF EmptyNext, Same, Typed, Works, Work, Fields
  <2>3. \A q \in Routes : lock'[q] = lock[q]
    BY DEF EmptyNext, Same
  <2>4. Queued'
    BY DEF EmptyNext, Same, RowInv, AtHome, Queued, lists
  <2>5. Aside(t)
    BY <2>1, <2>2, <2>3, RoutesAssumption DEF Aside, May, Adds, Left, Homely, Work, RoutePlaces,
       Inside
  <2> QED
    BY <2>4, <2>5, KeepRows
<1>7. CASE Emptied(t)
  <2>1. Aside(t)
    BY <1>7, RoutesAssumption DEF Emptied, SendFrom, Aside, May, Adds, Left, RowInv, AtHome, Homely,
       RoutePlaces, Typed, Works, Work, Fields, Here, Goto, Inside, hist, Threads, TypeOK, Items, Of
  <2>2. Queued'
    BY <1>7 DEF Emptied, SendFrom, RowInv, AtHome, Queued, lists
  <2> QED
    BY <2>1, <2>2, KeepRows
<1> QED
  BY <1>1, <1>2, <1>3, <1>4, <1>5, <1>6, <1>7 DEF WebStep

LEMMA RowsOperator ==
  ASSUME Typed, TypeOK, RowInv, NEW t \in Threads, t \in Webs, Operator(t)
  PROVE  RowInv'
<1>1. CASE \E s \in Slots, clean \in BOOLEAN : Submit(t, s, clean)
  <2>1. Aside(t)
    BY <1>1, RoutesAssumption DEF Submit, Idle, Aside, May, Adds, Left, RowInv, AtHome, Homely,
       RoutePlaces, Typed, Works, Work, Fields, Here, Goto, Inside, hist, Threads, TypeOK, Items, Of
  <2>2. Queued'
    BY <1>1 DEF Submit, Idle, RowInv, AtHome, Queued, lists
  <2> QED
    BY <2>1, <2>2, KeepRows
<1>2. CASE \E r \in Routes, c \in Maybe : Ask(t, r, c)
  <2> PICK r \in Routes, c \in Maybe : Ask(t, r, c)
    BY <1>2
  <2>1. [route |-> r, to |-> c] \in [route : Of(th[t].slot, Routes), to : Maybe] /\ th[t].slot \in Slots
    BY DEF Ask, Typed, Works, Work, Here, Of
  <2>2. Append(requests[th[t].slot], [route |-> r, to |-> c]) \in Seq([route : Of(th[t].slot, Routes), to : Maybe])
    BY <2>1, AppendProperties DEF RowInv, AtHome, Queued
  <2>3. Queued'
    <3>1. requests' = [requests EXCEPT ![th[t].slot] = Append(requests[th[t].slot], [route |-> r, to |-> c])]
      BY DEF Ask
    <3> QED
      BY <2>1, <2>2, <3>1 DEF RowInv, AtHome, Queued, Typed, Asked
  <2>4. Aside(t)
    BY RoutesAssumption DEF Ask, Aside, May, Adds, Left, RowInv, AtHome, Here, hist, Threads
  <2> QED
    BY <2>3, <2>4, KeepRows
<1> QED
  BY <1>1, <1>2 DEF Operator, Maybe

\* A step of thread t at a route r that leaves other routes alone.
Apart(t, r) ==
  /\ \A u \in Threads \ {t} : th'[u] = th[u]
  /\ UNCHANGED <<slots, mon, requests>>
  /\ th[t].at \in RoutePlaces \ {"route"} /\ th[t].route = r
  /\ \/ th'[t].at \in Inside /\ th'[t].route = r /\ th'[t].to = th[t].to
     \/ th'[t].at = Caller(t) /\ th'[t].to = None
  /\ th'[t].slot = th[t].slot /\ th'[t].left = th[t].left /\ th'[t].after = th[t].after
  /\ \A q \in Routes \ {r} :
       /\ chan'[q] = chan[q] /\ stored'[q] = stored[q] /\ lock'[q] = lock[q]
       /\ (q \in adrift' <=> q \in adrift)
  /\ \A q \in Routes : (q \in tangled => q \in tangled') /\ (q \in tangled' \ {r} => q \in tangled)
  /\ chan'[r] \in {chan[r], None} \/ Adds(t)
  /\ stored'[r] \in {stored[r], None} \/ Saves(t)
  /\ r \in adrift \ tangled' => r \in adrift' \/ stored'[r] = None \/ Saves(t)

LEMMA KeepOthers ==
  ASSUME Typed, TypeOK, RowInv, NEW t \in Threads, NEW r \in Routes, Apart(t, r),
         r \notin tangled' => \A u \in Threads : On(u, r)' =>
           /\ lock'[r] /\ \A v \in Threads : On(v, r)' => v = u
           /\ th'[u].to = None => stored'[r] = None \/ r \in adrift',
         r \notin tangled' \cup adrift' => (\E u \in Threads : On(u, r)') \/ stored'[r] = chan'[r]
  PROVE  RowInv'
<1>1. /\ UNCHANGED <<flag, run, level, changed, sync, mon, requests>>
      /\ \A u \in Threads \ {t} : th'[u] = th[u]
      /\ th[t].slot = SlotOf[r] /\ th[t].slot \in Slots /\ Homely(th[t]) /\ Work(th[t])
  BY DEF Apart, slots, RowInv, AtHome, Homely, Of, Typed, Works, Work, RoutePlaces, Inside
<1>2. ASSUME NEW q \in Routes \ {r} PROVE \A u \in Threads : On(u, q)' <=> On(u, q)
  BY <1>1 DEF Apart, On, Caller, Inside
<1>3. \A s \in Slots : At(s)' = At(s)
  BY <1>1 DEF Apart, At, Threads, Caller, RoutePlaces, Inside
<1>4. Homely(th'[t])
  BY <1>1 DEF Apart, Homely, RoutePlaces, Inside, Caller
<1>5. AtHome'
  BY <1>1, <1>4 DEF RowInv, AtHome, Queued
<1>6. \A u \in Threads : Adds(u)' => Adds(u) /\ th'[u].slot = th[u].slot
  BY <1>1 DEF Apart, Adds, Caller, RoutePlaces, Inside
<1>7. Alone'
  BY <1>2 DEF Apart, RowInv, Alone
<1>8. Deletes'
  BY <1>1, <1>2 DEF Apart, RowInv, Deletes, On
<1>9. Unused'
  <2> SUFFICES ASSUME NEW s \in Slots, flag[s] = 0 PROVE Fresh(s)'
    BY <1>1 DEF Unused
  <2>1. Fresh(s)
    BY DEF RowInv, Unused
  <2>2. \A u \in Threads : th'[u].slot = s => ~Adds(u)'
    BY <1>6, <2>1 DEF Fresh
  <2>3. \A q \in Of(s, Routes) : chan'[q] = None
    BY <1>1, <2>1 DEF Fresh, Apart, Of
  <2> QED
    BY <1>1, <1>3, <2>1, <2>2, <2>3 DEF Fresh, Monitored
<1>10. OneSync'
  BY <1>1, <1>3 DEF RowInv, OneSync
<1>11. Stopped'
  BY <1>1 DEF RowInv, Stopped, Monitored
<1>12. Cleared'
  <2> SUFFICES ASSUME mon.at = "init", ~(Routes \subseteq tangled') PROVE Cleared'
    BY <1>1 DEF Cleared
  <2>1. mon.slot \in Slots /\ ~(Routes \subseteq tangled)
    BY DEF Typed, Watch, Apart
  <2>2. /\ \A u \in Threads : th[u].slot = mon.slot /\ Adds(u) => flag[mon.slot] = 1 /\ u \in Tasks
        /\ \A q \in Of(mon.slot, Routes) \ tangled : stored[q] = None \/ q \in adrift
    BY <2>1 DEF RowInv, Cleared
  <2>3. r \in Of(mon.slot, Routes) => /\ stored'[r] \in {stored[r], None}
                                      /\ r \in adrift \ tangled' => r \in adrift' \/ stored'[r] = None
    BY <1>1, <2>2 DEF Of, Apart, Saves
  <2>4. \A q \in Of(mon.slot, Routes) \ tangled' : stored'[q] = None \/ q \in adrift'
    BY <2>2, <2>3 DEF Of, Apart
  <2>5. \A u \in Threads : th'[u].slot = mon.slot /\ Adds(u)' => flag[mon.slot] = 1 /\ u \in Tasks
    BY <1>6, <2>2
  <2> QED
    BY <1>1, <2>4, <2>5 DEF Cleared
<1>13. Matches'
  <2> SUFFICES ASSUME mon.at # "dead", NEW q \in Routes \ (tangled' \cup adrift'), q # r,
                      \A u \in Threads : ~On(u, q)', stored'[q] # chan'[q],
                      ~(mon.at = "init" /\ mon.slot = SlotOf[q] /\ stored'[q] = None)
               PROVE  chan'[q] = None /\ ToUse(q, SlotOf[q])'
    BY <1>1 DEF Matches
  <2>1. /\ q \in Routes \ (tangled \cup adrift) /\ (\A u \in Threads : ~On(u, q)) /\ stored[q] # chan[q]
        /\ chan'[q] = chan[q] /\ stored'[q] = stored[q]
    BY <1>2 DEF Apart
  <2>2. chan[q] = None /\ ToUse(q, SlotOf[q])
    BY <2>1 DEF RowInv, Matches
  <2>3. \A u \in Tasks : Left(u, q) => Left(u, q)'
    BY <1>1 DEF Apart, Left, Threads, Caller, RoutePlaces, Inside
  <2>4. SlotOf[q] \in Slots
    BY RoutesAssumption DEF Items
  <2> QED
    BY <1>1, <1>3, <2>1, <2>2, <2>3, <2>4 DEF ToUse, Monitored, At
<1> QED
  BY <1>5, <1>7, <1>8, <1>9, <1>10, <1>11, <1>12, <1>13 DEF RowInv

\* The steps of a thread on its route.
LEMMA RowsRoute ==
  ASSUME Typed, TypeOK, RowInv, NEW t \in Threads, RouteStep(t), ~NullChannel(t)
  PROVE  RowInv'
<1>1. Work(th[t]) /\ Homely(th[t]) /\ DOMAIN th = Threads
  BY DEF Typed, Works, RowInv, AtHome
<1>0. CASE th[t].route \notin Routes
  <2>1. th[t].at \notin Inside \cup {"route", "routeFree"}
    BY <1>0, <1>1 DEF Work
  <2> QED
    BY <2>1 DEF RouteStep, RouteSeen, RouteTake, NullChannel, OldSeen, OldTake, OldPut, LeaveOld,
       UnpointRoute,
       NewSeen, NewTake, NewPut, PointRoute, SaveRoute, ChannelTake, Seen, Here, Inside
<1> SUFFICES ASSUME NEW r \in Routes, r = th[t].route PROVE RowInv'
  BY <1>0
<1>2. CASE RouteTake(t)
  <2>1. /\ th[t].at = "routeFree" /\ th'[t].at \in Inside /\ r \in Routes
        /\ \A f \in {"slot", "route", "to", "left", "after"} : th'[t][f] = th[t][f]
        /\ \A u \in Threads \ {t} : th'[u] = th[u]
    BY <1>1, <1>2 DEF RouteTake, Here, Work, Fields, Inside
  <2>2. /\ UNCHANGED <<slots, mon, requests, chan>>
        /\ lock' = [lock EXCEPT ![r] = TRUE]
        /\ \/ th[t].to # None /\ stored' = stored /\ adrift' = adrift
           \/ stored' = [stored EXCEPT ![r] = None] /\ adrift' = adrift \ {r}
           \/ stored' = stored /\ adrift' = adrift \cup {r}
    BY <1>2 DEF RouteTake, Write, NoRow, route, lists
  <2>7. (r \in tangled' /\ tangled' = tangled \cup {r}) \/ (~lock[r] /\ tangled' = tangled)
    <3>1. Tangle(lock[r] \/ \E u \in Threads : Here(u, "rewriting") /\ route(u) = r, r)
      BY <1>2 DEF RouteTake, route
    <3>2. tangled' = tangled \cup {r} \/ tangled' = tangled
      BY <3>1 DEF Tangle
    <3>3. CASE lock[r]
      BY <3>1, <3>3 DEF Tangle
    <3> QED
      BY <3>2, <3>3
  <2>3. Apart(t, r)
    BY <2>1, <2>2, <2>7 DEF Apart, RoutePlaces, TypeOK, Items
  <2>4. r \notin tangled' => \A u \in Threads : On(u, r)' => u = t
    BY <2>1, <2>2, <2>7 DEF RowInv, Alone, On
  <2>5. lock'[r] /\ (th[t].to = None => stored'[r] = None \/ r \in adrift')
    BY <2>1, <2>2 DEF TypeOK, Items
  <2>6. On(t, r)'
    BY <2>1 DEF On
  <2> QED
    BY <2>1, <2>3, <2>4, <2>5, <2>6, KeepOthers
<1>3. CASE LeaveOld(t)
  <2>1. /\ th[t].at = "lower" /\ th'[t].at \in Inside /\ r \in Routes /\ th[t].old \in Channels
        /\ \A f \in {"slot", "route", "to", "left", "after"} : th'[t][f] = th[t][f]
        /\ \A u \in Threads \ {t} : th'[u] = th[u]
    BY <1>1, <1>3 DEF LeaveOld, Here, Work, Fields, Inside
  <2>2. /\ UNCHANGED <<slots, mon, requests, chan, tangled>>
        /\ lock' = [lock EXCEPT ![th[t].old] = FALSE]
        /\ \/ stored' = [stored EXCEPT ![r] = None] /\ adrift' = adrift \ {r}
           \/ stored' = stored /\ adrift' = adrift \cup {r}
    BY <1>3 DEF LeaveOld, Write, NoRow, route, lists
  <2>3. \A q \in Routes : lock'[q] = lock[q]
    BY <2>1, <2>2, RouteLocks
  <2>4. Apart(t, r)
    BY <2>1, <2>2, <2>3 DEF Apart, RoutePlaces, Inside, TypeOK
  <2>5. \A u \in Threads : On(u, r)' <=> On(u, r)
    BY <2>1 DEF On, Inside
  <2>6. On(t, r)
    BY <2>1 DEF On, Inside
  <2>7. r \notin tangled' => \A u \in Threads : On(u, r)' => u = t /\ lock'[r]
    BY <2>1, <2>2, <2>3, <2>5, <2>6 DEF RowInv, Alone
  <2>8. stored'[r] = None \/ r \in adrift'
    BY <2>1, <2>2 DEF TypeOK
  <2> QED
    BY <2>1, <2>4, <2>5, <2>6, <2>7, <2>8, KeepOthers
<1>4. CASE PointRoute(t)
  <2>1. /\ th[t].at = "point" /\ th'[t].at = "raise" /\ r \in Routes /\ th[t].to \in Channels
        /\ \A f \in {"slot", "route", "to", "left", "after"} : th'[t][f] = th[t][f]
        /\ \A u \in Threads \ {t} : th'[u] = th[u]
    BY <1>1, <1>4 DEF PointRoute, ReadCounts, Here, Work, Fields, Inside
  <2>2. /\ UNCHANGED <<slots, mon, requests, stored, adrift, tangled, lock>>
        /\ chan' = [chan EXCEPT ![r] = th[t].to]
    BY <1>4 DEF PointRoute, route
  <2>3. th[t].to # None
    BY <2>1, RoutesAssumption DEF Items
  <2>4. Adds(t)
    BY <2>1, <2>3 DEF Adds, RoutePlaces, Inside
  <2>5. Apart(t, r)
    BY <2>1, <2>2, <2>4 DEF Apart, RoutePlaces, Inside, TypeOK
  <2>6. \A u \in Threads : On(u, r)' <=> On(u, r)
    BY <2>1 DEF On, Inside
  <2>7. On(t, r)
    BY <2>1 DEF On, Inside
  <2>8. r \notin tangled' => \A u \in Threads : On(u, r)' => u = t /\ lock'[r]
    BY <2>1, <2>2, <2>6, <2>7 DEF RowInv, Alone
  <2> QED
    BY <2>1, <2>3, <2>5, <2>6, <2>7, <2>8, KeepOthers
<1>5. CASE SaveRoute(t)
  <2>1. /\ th[t].at = "raise" /\ th'[t].at = Caller(t) /\ r \in Routes /\ th[t].to \in Channels
        /\ th'[t].to = None
        /\ \A f \in {"slot", "left", "after"} : th'[t][f] = th[t][f]
        /\ \A u \in Threads \ {t} : th'[u] = th[u]
    BY <1>1, <1>5 DEF SaveRoute, Return, Here, Work, Fields, Inside
  <2>2. /\ UNCHANGED <<slots, mon, requests, chan, tangled>>
        /\ lock' = [lock EXCEPT ![r] = FALSE]
        /\ \/ /\ stored' = [stored EXCEPT ![r] = chan[r]] /\ adrift' = adrift \ {r}
              /\ flag[th[t].slot] = 2
           \/ stored' = stored /\ adrift' = adrift \cup {r}
           \/ stored' = stored /\ adrift' = IF stored[r] = chan[r] THEN adrift ELSE adrift \cup {r}
    BY <1>5 DEF SaveRoute, Write, route, lists
  <2>3. th[t].to # None
    BY <2>1, RoutesAssumption DEF Items
  <2>4. Adds(t)
    BY <2>1, <2>3 DEF Adds, RoutePlaces, Inside
  <2>5. Apart(t, r)
    BY <2>1, <2>2, <2>4 DEF Apart, Saves, RoutePlaces, Inside, TypeOK, Items
  <2>6. On(t, r)
    BY <2>1 DEF On, Inside
  <2>7. r \notin tangled' => \A u \in Threads : ~On(u, r)'
    BY <2>1, <2>2, <2>6 DEF RowInv, Alone, On, Caller, Inside
  <2>8. r \notin tangled' \cup adrift' => stored'[r] = chan'[r]
    BY <2>1, <2>2 DEF TypeOK
  <2> QED
    BY <2>1, <2>5, <2>7, <2>8, KeepOthers
<1>6. CASE UnpointRoute(t)
  <2>1. /\ th[t].at = "lower" /\ th'[t].at = Caller(t) /\ r \in Routes /\ th[t].to = None
        /\ th'[t].to = None
        /\ \A f \in {"slot", "left", "after"} : th'[t][f] = th[t][f]
        /\ \A u \in Threads \ {t} : th'[u] = th[u]
    BY <1>1, <1>6 DEF UnpointRoute, Return, Here, Work, Fields, Inside
  <2>2. /\ UNCHANGED <<slots, mon, requests, stored, tangled, adrift>>
        /\ lock' = [lock EXCEPT ![r] = FALSE]
        /\ chan' = [chan EXCEPT ![r] = None]
    BY <1>6 DEF UnpointRoute, route
  <2>3. On(t, r)
    BY <2>1 DEF On, Inside
  <2>4. r \notin tangled \cup adrift => stored[r] = None
    BY <2>1, <2>3 DEF RowInv, Deletes
  <2>5. Apart(t, r)
    BY <2>1, <2>2 DEF Apart, RoutePlaces, Inside, TypeOK, Items
  <2>6. r \notin tangled' => \A u \in Threads : ~On(u, r)'
    BY <2>1, <2>2, <2>3 DEF RowInv, Alone, On, Caller, Inside
  <2>7. r \notin tangled' \cup adrift' => stored'[r] = chan'[r]
    BY <2>1, <2>2, <2>4 DEF TypeOK
  <2> QED
    BY <2>1, <2>5, <2>6, <2>7, KeepOthers
<1> QED
  BY <1>2, <1>3, <1>4, <1>5, <1>6, RowsAside DEF RouteStep

\* The death of httpd.bin.
LEMMA RowsNull ==
  ASSUME Typed, TypeOK, RowInv, NEW t \in Threads, NullChannel(t)
  PROVE  RowInv'
<1>1. /\ mon' = [at |-> "dead", slot |-> None] /\ tangled' = Routes /\ th' = [u \in Threads |-> Dead]
      /\ requests' = [s \in Slots |-> <<>>] /\ sync' = [s \in Slots |-> 0]
      /\ UNCHANGED <<chan, flag, run, level>>
  BY DEF NullChannel
<1>2. \A u \in Threads : th'[u].at = "dead" /\ th'[u].slot = None /\ th'[u].to = None
  BY <1>1 DEF Dead, Idle
<1>3. mon'.at = "dead"
  BY <1>1
<1>4. \A s \in Slots : <<>> \in Seq([route : Of(s, Routes), to : Maybe])
  BY EmptySeq
<1>5. AtHome'
  <2>1. \A u \in Threads : Homely(th'[u])
    BY <1>2 DEF Homely, RoutePlaces, Inside
  <2>2. Queued'
    BY <1>1, <1>4 DEF Queued
  <2> QED
    BY <2>1, <2>2 DEF AtHome
<1>6. Alone' /\ Deletes'
  BY <1>1 DEF Alone, Deletes
<1>7. \A s \in Slots : At(s)' = {} /\ ~Monitored(s)' /\ \A u \in Threads : ~Adds(u)'
  BY <1>2, <1>3 DEF At, Monitored, Adds, RoutePlaces, Inside, Threads
<1>8. Unused'
  BY <1>1, <1>7 DEF RowInv, Unused, Fresh
<1>9. OneSync'
  BY <1>1, <1>7 DEF RowInv, OneSync
<1>10. Stopped' /\ Cleared' /\ Matches'
  BY <1>3 DEF Stopped, Cleared, Matches
<1> QED
  BY <1>5, <1>6, <1>8, <1>9, <1>10 DEF RowInv

\* The steps of the tasks that are not in transceiver_route_add and _del.
LEMMA RowsTaskAside ==
  ASSUME Typed, TypeOK, RowInv, NEW t \in Tasks,
         \/ (\E r \in Routes : SelectRow(t, r) \/ RewriteRead(t, r))
         \/ SelectFails(t) \/ RewriteWrite(t) \/ RetellChannels(t)
  PROVE  RowInv'
<1>1. t \in Threads /\ Work(th[t]) /\ Homely(th[t]) /\ DOMAIN th = Threads
  BY DEF Threads, Typed, Works, RowInv, AtHome
<1>2. ASSUME NEW r \in Routes, SelectRow(t, r) PROVE RowInv'
  <2>1. /\ th[t].at = "rows" /\ r \in th[t].left /\ stored[r] # None
        /\ UNCHANGED <<lock, routes, slots, mon, tangled, adrift, requests>>
        /\ th' = [th EXCEPT ![t] =
             IF Same(r, stored[r]) THEN [th[t] EXCEPT !.left = th[t].left \ {r}]
             ELSE [th[t] EXCEPT !.left = th[t].left \ {r}, !.at = "route", !.route = r, !.to = stored[r]]]
    BY <1>2 DEF SelectRow, Here, hist, lists
  <2>2. /\ th'[t].left = th[t].left \ {r} /\ th'[t].slot = th[t].slot /\ th'[t].after = th[t].after
        /\ \/ chan[r] = stored[r] /\ th'[t].at = "rows" /\ th'[t].to = th[t].to
           \/ th'[t].at = "route" /\ th'[t].route = r
        /\ \A u \in Threads \ {t} : th'[u] = th[u]
    BY <1>1, <2>1 DEF Work, Fields, Same
  <2>3. Homely(th'[t])
    BY <1>1, <2>1, <2>2 DEF Homely, RoutePlaces, Inside
  <2>4. SlotOf[r] = th[t].slot /\ th[t].slot \in Slots /\ t \in At(th[t].slot) /\ r \in Of(th[t].slot, Routes)
    BY <1>1, <2>1 DEF Homely, Of, At, Work, RoutePlaces
  <2>5. Queued'
    BY <2>1 DEF RowInv, AtHome, Queued
  <2>6. May(t)
    BY <2>1 DEF May, Adds
  <2>7. \A q \in Routes : chan[q] = None /\ stored[q] # None /\ Left(t, q) => Left(t, q)'
    BY <2>1, <2>2 DEF Left, RoutePlaces, Inside
  <2>8. Aside(t)
    BY <2>1, <2>2, <2>3, <2>6, <2>7 DEF Aside, Inside
  <2> QED
    BY <1>1, <2>5, <2>8, KeepRows
<1>3. ASSUME NEW r \in Routes, RewriteRead(t, r) PROVE RowInv'
  <2>1. /\ th[t].at = "rewrite" /\ r \in th[t].left
        /\ UNCHANGED <<lock, routes, slots, mon, tangled, adrift, requests>>
        /\ \A u \in Threads \ {t} : th'[u] = th[u]
    BY <1>1, <1>3 DEF RewriteRead, Here, lists
  <2>2. /\ th'[t].at = "rewriting" /\ th'[t].left = th[t].left \ {r} /\ th'[t].slot = th[t].slot
        /\ th'[t].after = th[t].after /\ th'[t].to = th[t].to /\ th'[t].route = r
    BY <1>1, <1>3 DEF RewriteRead, Work, Fields
  <2>3. Queued'
    BY <2>1 DEF RowInv, AtHome, Queued
  <2>4. Aside(t)
    BY <1>1, <2>1, <2>2 DEF Aside, May, Adds, Left, Homely, Work, RoutePlaces, Inside
  <2> QED
    BY <1>1, <2>3, <2>4, KeepRows
<1>4. CASE RewriteWrite(t)
  <2>1. /\ th[t].at = "rewriting"
        /\ UNCHANGED <<lock, routes, slots, mon, tangled, adrift, requests>>
        /\ \A u \in Threads \ {t} : th'[u] = th[u]
    BY <1>1, <1>4 DEF RewriteWrite, Here
  <2>2. /\ th'[t].at = "rewrite" /\ th'[t].left = th[t].left /\ th'[t].slot = th[t].slot
        /\ th'[t].after = th[t].after /\ th'[t].to = th[t].to
    BY <1>1, <1>4 DEF RewriteWrite, Work, Fields
  <2>3. Queued'
    BY <2>1 DEF RowInv, AtHome, Queued
  <2>4. Aside(t)
    BY <1>1, <2>1, <2>2 DEF Aside, May, Adds, Left, Homely, Work, RoutePlaces, Inside
  <2> QED
    BY <1>1, <2>3, <2>4, KeepRows
<1>5. CASE RetellChannels(t)
  <2>1. /\ th[t].at \in {"rows", "rewrite", "channels"} /\ (th[t].at = "rows" => \A r \in th[t].left : stored[r] = None)
        /\ UNCHANGED <<lock, routes, slots, mon, tangled, adrift, requests>>
        /\ \A u \in Threads \ {t} : th'[u] = th[u]
    BY <1>1, <1>5 DEF RetellChannels, RoutesDone, SendFrom, Here
  <2>2. /\ th'[t].at = "send" /\ th'[t].slot = th[t].slot /\ th'[t].to = th[t].to
    BY <1>1, <1>5 DEF RetellChannels, SendFrom, Work, Fields
  <2>3. Queued'
    BY <2>1 DEF RowInv, AtHome, Queued
  <2>4. Homely(th'[t])
    BY <1>1, <2>1, <2>2 DEF Homely, RoutePlaces, Inside
  <2>5. \A r \in Routes : stored[r] # None => ~Left(t, r)
    BY <2>1 DEF Left, RoutePlaces, Inside
  <2>6. Aside(t)
    BY <1>1, <2>1, <2>2, <2>4, <2>5 DEF Aside, May, Adds, Work, RoutePlaces, Inside
  <2> QED
    BY <1>1, <2>3, <2>6, KeepRows
<1>6. CASE SelectFails(t)
  <2>1. /\ th[t].at = "rows"
        /\ UNCHANGED <<lock, routes, slots, mon, tangled, requests>>
        /\ adrift' = adrift \cup {r \in Routes \cap th[t].left : stored[r] \notin {None, chan[r]}}
        /\ \A u \in Threads \ {t} : th'[u] = th[u]
    BY <1>1, <1>6 DEF SelectFails, Here, lists
  <2>2. /\ th'[t].at = "channels" /\ th'[t].slot = th[t].slot /\ th'[t].to = th[t].to
    BY <1>1, <1>6 DEF SelectFails, Work, Fields
  <2>3. Queued'
    BY <2>1 DEF RowInv, AtHome, Queued
  <2>4. Homely(th'[t])
    BY <1>1, <2>1, <2>2 DEF Homely, RoutePlaces, Inside
  <2>5. \A r \in Routes : chan[r] = None /\ stored[r] # None /\ Left(t, r) => r \in adrift'
    BY <2>1 DEF Left, RoutePlaces, Inside
  <2>6. Aside(t)
    BY <1>1, <2>1, <2>2, <2>4, <2>5 DEF Aside, Adds, RoutePlaces, Inside
  <2> QED
    BY <1>1, <2>3, <2>6, KeepRows
<1> QED
  BY <1>2, <1>3, <1>4, <1>5, <1>6

\* The first and the last step of sync_transceiver_route_tables.
LEMMA RowsStart ==
  ASSUME Typed, TypeOK, RowInv, NEW t \in Tasks, NEW s \in Slots, StartSync(t, s)
  PROVE  RowInv'
<1>1. /\ t \in Threads /\ DOMAIN th = Threads /\ th[t].at = "idle" /\ sync[s] > 0
      /\ sync' = [sync EXCEPT ![s] = sync[s] - 1]
      /\ UNCHANGED <<lock, routes, flag, run, level, mon, tangled, adrift, requests>>
  BY DEF StartSync, Here, Threads, Typed, Works, lists, hist
<1>2. /\ th'[t].at \in {"rewrite", "rows", "channels"} /\ th'[t].slot = s /\ th'[t].to = None
      /\ th'[t].left = Of(s, Routes) /\ (flag[s] = 1 /\ level[s] # "down" => th'[t].at = "rows")
      /\ (th'[t].at = "rows" => flag[s] = 1)
      /\ \A u \in Threads \ {t} : th'[u] = th[u]
  BY <1>1 DEF StartSync, Idle
<1>3. At(s)' = At(s) \cup {t} /\ \A d \in Slots \ {s} : At(d)' = At(d)
  BY <1>1, <1>2 DEF At, Threads
<1>4. sync[s] \in Nat /\ sync'[s] = sync[s] - 1 /\ \A d \in Slots \ {s} : sync'[d] = sync[d]
  BY <1>1 DEF TypeOK
<1>5. \A u \in Threads : /\ \A r \in Routes : On(u, r)' <=> On(u, r)
                         /\ Adds(u)' => \/ u = t /\ th'[u].slot = s /\ flag[s] = 1
                                        \/ Adds(u) /\ th'[u].slot = th[u].slot
  BY <1>1, <1>2 DEF On, Adds, RoutePlaces, Inside
<1>6. ~Fresh(s) /\ flag[s] # 0
  BY <1>1, <1>4 DEF RowInv, Unused, Fresh
<1>7. AtHome'
  <2>1. Homely(th'[t])
    BY <1>2 DEF Homely, RoutePlaces, Inside
  <2> QED
    BY <1>1, <1>2, <2>1 DEF RowInv, AtHome, Queued
<1>8. Alone' /\ Deletes'
  <2>1. \A u \in Threads, r \in Routes : On(u, r)' => th'[u].to = th[u].to
    BY <1>1, <1>2 DEF On, Inside
  <2> QED
    BY <1>1, <1>5, <2>1 DEF RowInv, Alone, Deletes, routes
<1>9. Unused'
  BY <1>1, <1>3, <1>4, <1>5, <1>6 DEF RowInv, Unused, Fresh, Monitored, routes
<1>10. OneSync'
  <2> SUFFICES ASSUME NEW d \in Slots, flag[d] = 1
               PROVE  sync'[d] \in {0, 1} /\ (sync'[d] = 1 => At(d)' = {}) /\ \A u, v \in At(d)' : u = v
    BY <1>1 DEF OneSync
  <2>1. sync[d] \in {0, 1} /\ (sync[d] = 1 => At(d) = {}) /\ \A u, v \in At(d) : u = v
    BY DEF RowInv, OneSync
  <2>2. CASE d = s
    BY <1>1, <1>3, <1>4, <2>1, <2>2
  <2> QED
    BY <1>3, <1>4, <2>1, <2>2
<1>11. Stopped'
  BY <1>1 DEF RowInv, Stopped, Monitored
<1>12. Cleared'
  <2> SUFFICES ASSUME mon.at = "init", ~(Routes \subseteq tangled) PROVE Cleared'
    BY <1>1 DEF Cleared
  <2> QED
    BY <1>1, <1>5 DEF RowInv, Cleared, routes
<1>13. Matches'
  <2> SUFFICES ASSUME mon.at # "dead", NEW r \in Routes \ (tangled \cup adrift),
                      \A u \in Threads : ~On(u, r), stored[r] # chan[r],
                      ~(mon.at = "init" /\ mon.slot = SlotOf[r] /\ stored[r] = None)
               PROVE  chan[r] = None /\ ToUse(r, SlotOf[r])'
    BY <1>1, <1>5 DEF Matches, routes
  <2>1. chan[r] = None /\ ToUse(r, SlotOf[r])
    BY DEF RowInv, Matches
  <2>2. SlotOf[r] \in Slots
    BY RoutesAssumption DEF Items
  <2>3. \A u \in Tasks \ {t} : Left(u, r) => Left(u, r)'
    BY <1>2 DEF Left, Threads
  <2>4. CASE SlotOf[r] = s
    <3>1. flag[s] = 1 /\ (level[s] = "up" \/ Monitored(s))
      BY <1>6, <2>1, <2>4 DEF ToUse
    <3>2. level[s] # "down"
      BY <3>1 DEF RowInv, Stopped
    <3>3. Left(t, r)' /\ t \in At(s)'
      BY <1>2, <1>3, <2>4, <3>1, <3>2 DEF Left, Of
    <3> QED
      BY <1>1, <2>1, <2>4, <3>1, <3>3 DEF ToUse, Monitored
  <2>5. CASE SlotOf[r] # s
    <3>1. t \notin At(SlotOf[r])
      BY <1>1 DEF At
    <3> QED
      BY <1>1, <1>3, <1>4, <2>1, <2>2, <2>3, <2>5, <3>1 DEF ToUse, Monitored, At
  <2> QED
    BY <2>4, <2>5
<1> QED
  BY <1>7, <1>8, <1>9, <1>10, <1>11, <1>12, <1>13 DEF RowInv

LEMMA RowsSynced ==
  ASSUME Typed, TypeOK, RowInv, NEW t \in Tasks, Synced(t)
  PROVE  RowInv'
<1> DEFINE s == th[t].slot
<1>1. /\ t \in Threads /\ th[t].at = "send" /\ s \in Slots /\ t \in At(s)
      /\ flag' = [flag EXCEPT ![s] = 2] /\ th' = [th EXCEPT ![t] = Idle] /\ DOMAIN th = Threads
      /\ UNCHANGED <<lock, routes, sync, run, level, mon, tangled, adrift, requests>>
  BY DEF Synced, Here, Threads, Typed, Works, Work, lists, hist, At
<1>2. SUFFICES ASSUME NEW h \in Slots, h = s PROVE RowInv'
  BY <1>1
<1> HIDE DEF s
<1>3. /\ th'[t].at = "idle" /\ th'[t].to = None /\ \A u \in Threads \ {t} : th'[u] = th[u]
      /\ flag'[h] = 2 /\ \A d \in Slots \ {h} : flag'[d] = flag[d]
  BY <1>1, <1>2 DEF Idle, TypeOK
<1>4. t \in At(h) /\ \A d \in Slots : At(d)' = At(d) \ {t} /\ (d # h => At(d)' = At(d))
  BY <1>1, <1>2, <1>3 DEF At, Threads, s
<1>5. \A u \in Threads : /\ \A r \in Routes : On(u, r)' <=> On(u, r)
                         /\ Adds(u)' => Adds(u) /\ th'[u].slot = th[u].slot
  BY <1>1, <1>3 DEF On, Adds, RoutePlaces, Inside
<1>6. flag[h] # 0
  BY <1>4 DEF RowInv, Unused, Fresh
<1>7. AtHome'
  <2>1. Homely(th'[t])
    BY <1>3 DEF Homely, RoutePlaces, Inside
  <2> QED
    BY <1>1, <1>3, <2>1 DEF RowInv, AtHome, Queued
<1>8. Alone' /\ Deletes'
  <2>1. \A u \in Threads, r \in Routes : On(u, r)' => th'[u].to = th[u].to
    BY <1>3 DEF On, Inside
  <2> QED
    BY <1>1, <1>5, <2>1 DEF RowInv, Alone, Deletes, routes
<1>9. Unused'
  <2> SUFFICES ASSUME NEW d \in Slots, d # h, flag[d] = 0 PROVE Fresh(d)'
    BY <1>3 DEF Unused
  <2> QED
    BY <1>1, <1>4, <1>5 DEF RowInv, Unused, Fresh, Monitored, routes
<1>10. OneSync'
  <2> SUFFICES ASSUME NEW d \in Slots, d # h, flag[d] = 1
               PROVE  sync[d] \in {0, 1} /\ (sync[d] = 1 => At(d) = {}) /\ \A u, v \in At(d) : u = v
    BY <1>1, <1>3, <1>4 DEF OneSync
  <2> QED
    BY DEF RowInv, OneSync
<1>11. Stopped'
  BY <1>1, <1>3, <1>6 DEF RowInv, Stopped, Monitored
<1>12. Cleared'
  <2> SUFFICES ASSUME mon.at = "init", ~(Routes \subseteq tangled) PROVE Cleared'
    BY <1>1 DEF Cleared
  <2>1. mon.slot \in Slots
    BY DEF Typed, Watch
  <2>2. \A u \in Threads : th[u].slot = mon.slot /\ Adds(u) => flag[mon.slot] = 1 /\ u \in Tasks
    BY DEF RowInv, Cleared
  <2>3. ASSUME NEW u \in Threads, th[u].slot = h, Adds(u), mon.slot = h PROVE FALSE
    <3>1. flag[h] = 1 /\ u \in At(h)
      BY <2>2, <2>3 DEF At, Adds, RoutePlaces, Inside
    <3>2. u = t
      BY <1>4, <3>1 DEF RowInv, OneSync
    <3> QED
      BY <1>1, <2>3, <3>2 DEF Adds, RoutePlaces, Inside
  <2> QED
    BY <1>1, <1>3, <1>5, <2>1, <2>2, <2>3 DEF RowInv, Cleared, routes
<1>13. Matches'
  <2> SUFFICES ASSUME mon.at # "dead", NEW r \in Routes \ (tangled \cup adrift),
                      \A u \in Threads : ~On(u, r), stored[r] # chan[r],
                      ~(mon.at = "init" /\ mon.slot = SlotOf[r] /\ stored[r] = None)
               PROVE  chan[r] = None /\ ToUse(r, SlotOf[r])'
    BY <1>1, <1>5 DEF Matches, routes
  <2>1. chan[r] = None /\ ToUse(r, SlotOf[r])
    BY DEF RowInv, Matches
  <2>2. SlotOf[r] \in Slots
    BY RoutesAssumption DEF Items
  <2>3. ~ToUse(r, h)
    <3>1. flag[h] = 1 => sync[h] = 0 /\ At(h) = {t}
      BY <1>4 DEF RowInv, OneSync
    <3>2. ~Left(t, r)
      BY <1>1 DEF Left, RoutePlaces, Inside
    <3> QED
      BY <1>6, <3>1, <3>2 DEF ToUse
  <2>4. SlotOf[r] # h
    BY <2>1, <2>3
  <2>5. \A u \in At(SlotOf[r]) : th'[u] = th[u]
    BY <1>1, <1>2, <1>3, <2>4 DEF At, Threads, s
  <2> QED
    BY <1>1, <1>3, <1>4, <2>1, <2>2, <2>4, <2>5 DEF ToUse, Monitored, Left
<1> QED
  BY <1>7, <1>8, <1>9, <1>10, <1>11, <1>12, <1>13 DEF RowInv

\* Nobody is at work, or every route is tangled.
LEMMA RowsDisturbed ==
  ASSUME TypeOK, NEW s, NEW d, DisturbOr(s, d)
  PROVE  \/ Routes \subseteq tangled'
         \/ tangled' = tangled /\ \A t \in Threads : th[t].at \in {"idle", "queue"}
BY DEF DisturbOr, AtWork

\* Of the monitor.
LEMMA RowsFree ==
  ASSUME Typed, TypeOK, RowInv, NEW s \in Slots, FreeTransceiver(s)
  PROVE  RowInv'
<1> DEFINE first == flag[s] = 0
           free == ~first /\ run[s] # "stop"
<1>1. /\ mon.at = "idle" /\ level[s] = "described" /\ mon' = [at |-> "init", slot |-> s]
      /\ UNCHANGED <<lock, chan, level, sync, requests, th>>
  BY DEF FreeTransceiver
<1>2. /\ flag' = (IF first THEN [flag EXCEPT ![s] = 1] ELSE flag)
      /\ run' = (IF free THEN [run EXCEPT ![s] = "stop"] ELSE run)
      /\ \/ /\ free /\ stored' = [r \in Routes |-> IF SlotOf[r] = s THEN None ELSE stored[r]]
            /\ adrift' = adrift \ Of(s, Routes)
         \/ stored' = stored /\ adrift' = adrift \cup Of(s, Routes)
         \/ stored' = stored /\ adrift' = adrift \cup {r \in Of(s, Routes) : stored[r] # None}
  BY DEF FreeTransceiver, Write
<1>3. \/ Routes \subseteq tangled'
      \/ tangled' = tangled /\ \A t \in Threads : th[t].at \in {"idle", "queue"}
  BY RowsDisturbed DEF FreeTransceiver
<1>4. ~first => free
  BY <1>1 DEF RowInv, Stopped, Monitored
<1>5. first => Fresh(s)
  BY DEF RowInv, Unused
<1>6. /\ \A d \in Slots \ {s} : flag'[d] = flag[d] /\ run'[d] = run[d]
      /\ \A r \in Routes : SlotOf[r] # s => stored'[r] = stored[r] /\ (r \in adrift' <=> r \in adrift)
      /\ \A r \in Of(s, Routes) : stored'[r] = None \/ r \in adrift'
      /\ flag'[s] = (IF first THEN 1 ELSE flag[s]) /\ run'[s] # "running"
  <2>1. /\ \A d \in Slots \ {s} : flag'[d] = flag[d] /\ run'[d] = run[d]
        /\ flag'[s] = (IF first THEN 1 ELSE flag[s]) /\ run'[s] # "running"
    BY <1>2, <1>4, <1>5 DEF TypeOK, Fresh
  <2>2. /\ \A r \in Routes : SlotOf[r] # s => stored'[r] = stored[r] /\ (r \in adrift' <=> r \in adrift)
        /\ \A r \in Of(s, Routes) : stored'[r] = None \/ r \in adrift'
    <3> HIDE DEF first, free
    <3> QED
      BY <1>2 DEF Of
  <2> QED
    BY <2>1, <2>2
<1>7. mon'.at = "init" /\ mon'.slot = s /\ \A d \in Slots : ~Monitored(d) /\ (Monitored(d)' <=> d = s)
  BY <1>1 DEF Monitored
<1>8. \A d \in Slots : At(d)' = At(d)
  BY <1>1 DEF At
<1>9. \A t \in Threads : (Adds(t)' <=> Adds(t)) /\ th'[t] = th[t] /\ \A r \in Routes : On(t, r)' <=> On(t, r)
  BY <1>1 DEF Adds, On
<1>10. AtHome'
  BY <1>1 DEF RowInv, AtHome, Queued
<1>11. Alone' /\ Deletes'
  <2>1. CASE Routes \subseteq tangled'
    BY <2>1 DEF Alone, Deletes
  <2>2. CASE \A t \in Threads : th[t].at \in {"idle", "queue"}
    BY <1>9, <2>2 DEF Alone, Deletes, On, Inside
  <2> QED
    BY <1>3, <2>1, <2>2
<1>12. Unused'
  <2> SUFFICES ASSUME NEW d \in Slots, d # s, flag[d] = 0 PROVE Fresh(d)'
    BY <1>6 DEF Unused
  <2> QED
    BY <1>1, <1>6, <1>7, <1>8, <1>9 DEF RowInv, Unused, Fresh
<1>13. OneSync'
  BY <1>1, <1>5, <1>6, <1>8 DEF RowInv, OneSync, Fresh
<1>14. Stopped'
  BY <1>1, <1>6, <1>7 DEF RowInv, Stopped
<1>15. Cleared'
  <2> SUFFICES ASSUME ~(Routes \subseteq tangled') PROVE \A t \in Threads : ~Adds(t)'
    BY <1>6, <1>7 DEF Cleared
  <2> QED
    BY <1>3, <1>9 DEF Adds, RoutePlaces, Inside
<1>16. Matches'
  <2> SUFFICES ASSUME NEW r \in Routes \ (tangled' \cup adrift'), SlotOf[r] # s, stored'[r] # chan'[r],
                      \A t \in Threads : ~On(t, r)'
               PROVE  chan'[r] = None /\ ToUse(r, SlotOf[r])'
    BY <1>6, <1>7 DEF Matches, Of
  <2>1. r \in Routes \ (tangled \cup adrift) /\ stored[r] # chan[r] /\ SlotOf[r] \in Slots
    BY <1>1, <1>3, <1>6, RoutesAssumption DEF Items
  <2>2. chan[r] = None /\ ToUse(r, SlotOf[r])
    BY <1>1, <1>9, <2>1 DEF RowInv, Matches
  <2> QED
    BY <1>1, <1>6, <1>7, <1>8, <2>1, <2>2 DEF ToUse, Left
<1> QED
  BY <1>10, <1>11, <1>12, <1>13, <1>14, <1>15, <1>16 DEF RowInv

LEMMA RowsInitTransceiver ==
  ASSUME Typed, TypeOK, RowInv, InitTransceiver
  PROVE  RowInv'
<1>1. /\ mon.at = "init" /\ mon.slot \in Slots
      /\ mon' = [mon EXCEPT !.at = "enable"] /\ mon = [at |-> mon.at, slot |-> mon.slot]
  BY DEF InitTransceiver, Typed, Watch
<1>2. SUFFICES ASSUME NEW s \in Slots, s = mon.slot PROVE RowInv'
  BY <1>1
<1>3. mon'.at = "enable" /\ mon'.slot = s
  BY <1>1, <1>2
<1>4. /\ UNCHANGED <<stored, run, level, sync, requests, th>>
      /\ flag' = [flag EXCEPT ![s] = 2]
      /\ chan' = [x \in DOMAIN chan |-> IF SlotOf[x] = s THEN None ELSE chan[x]]
  BY <1>2 DEF InitTransceiver, lists
<1>5. /\ adrift' = adrift \ {r \in Of(s, Routes) : stored[r] = None}
      /\ \/ Routes \subseteq tangled'
         \/ tangled' = tangled /\ \A t \in Threads : th[t].at \in {"idle", "queue"}
  BY <1>2, RowsDisturbed DEF InitTransceiver
<1>6. /\ flag'[s] = 2 /\ \A d \in Slots \ {s} : flag'[d] = flag[d]
      /\ \A r \in Routes : chan'[r] = IF SlotOf[r] = s THEN None ELSE chan[r]
  BY <1>4 DEF TypeOK
<1>7. \A d \in Slots : (Monitored(d) <=> d = s) /\ (Monitored(d)' <=> d = s) /\ At(d)' = At(d)
  BY <1>1, <1>2, <1>3, <1>4 DEF Monitored, At
<1>8. \A t \in Threads : (Adds(t)' <=> Adds(t)) /\ th'[t] = th[t] /\ \A r \in Routes : On(t, r)' <=> On(t, r)
  BY <1>4 DEF Adds, On
<1>9. AtHome'
  BY <1>4 DEF RowInv, AtHome, Queued
<1>10. Alone' /\ Deletes'
  <2>1. CASE Routes \subseteq tangled'
    BY <2>1 DEF Alone, Deletes
  <2>2. CASE \A t \in Threads : th[t].at \in {"idle", "queue"}
    BY <1>8, <2>2 DEF Alone, Deletes, On, Inside
  <2> QED
    BY <1>5, <2>1, <2>2
<1>11. Unused'
  <2> SUFFICES ASSUME NEW d \in Slots, d # s, flag[d] = 0 PROVE Fresh(d)'
    BY <1>6 DEF Unused
  <2> QED
    BY <1>4, <1>6, <1>7, <1>8 DEF RowInv, Unused, Fresh, Of
<1>12. OneSync'
  BY <1>4, <1>6, <1>7 DEF RowInv, OneSync
<1>13. Stopped'
  BY <1>1, <1>3, <1>4, <1>6, <1>7 DEF RowInv, Stopped
<1>14. Cleared'
  BY <1>3 DEF Cleared
<1>15. Matches'
  <2> SUFFICES ASSUME NEW r \in Routes \ (tangled' \cup adrift'), stored[r] # chan'[r], \A t \in Threads : ~On(t, r)
               PROVE  chan'[r] = None /\ ToUse(r, SlotOf[r])'
    BY <1>4, <1>8 DEF Matches
  <2>1. r \notin tangled /\ SlotOf[r] \in Slots
    BY <1>5, RoutesAssumption DEF Items
  <2>2. CASE SlotOf[r] = s
    <3>1. stored[r] = None \/ r \in adrift
      BY <1>1, <1>2, <2>1, <2>2 DEF RowInv, Cleared, Of
    <3> QED
      BY <1>5, <1>6, <2>2, <3>1 DEF Of
  <2>3. CASE SlotOf[r] # s
    <3>1. r \notin adrift /\ stored[r] # chan[r]
      BY <1>5, <1>6, <2>3 DEF Of
    <3>2. chan[r] = None /\ ToUse(r, SlotOf[r])
      BY <1>1, <1>2, <2>1, <2>3, <3>1 DEF RowInv, Matches
    <3> QED
      BY <1>4, <1>6, <1>7, <2>1, <2>3, <3>2 DEF ToUse, Left
  <2> QED
    BY <2>2, <2>3
<1> QED
  BY <1>9, <1>10, <1>11, <1>12, <1>13, <1>14, <1>15 DEF RowInv

LEMMA RowsAddSync ==
  ASSUME Typed, TypeOK, RowInv, NEW s \in Slots, AddSync(s)
  PROVE  RowInv'
<1>1. /\ mon.at = "idle" /\ level[s] = "described" /\ mon' = [at |-> "enable", slot |-> s]
      /\ UNCHANGED <<lock, routes, level, run, requests, th, tangled, adrift>>
  BY DEF AddSync, lists, hist
<1>2. /\ flag'[s] = (IF flag[s] = 0 THEN 1 ELSE 3) /\ sync'[s] = sync[s] + 1 /\ sync[s] \in Nat
      /\ \A d \in Slots \ {s} : flag'[d] = flag[d] /\ sync'[d] = sync[d]
  BY DEF AddSync, TypeOK
<1>3. mon'.at = "enable" /\ \A d \in Slots : ~Monitored(d) /\ (Monitored(d)' <=> d = s)
  BY <1>1 DEF Monitored
<1>4. \A d \in Slots : At(d)' = At(d)
  BY <1>1 DEF At
<1>5. \A t \in Threads : (Adds(t)' <=> Adds(t)) /\ th'[t] = th[t] /\ \A r \in Routes : On(t, r)' <=> On(t, r)
  BY <1>1 DEF Adds, On
<1>6. AtHome' /\ Alone' /\ Deletes'
  BY <1>1, <1>5 DEF RowInv, AtHome, Queued, Alone, Deletes, routes
<1>7. Unused'
  <2> SUFFICES ASSUME NEW d \in Slots, d # s, flag[d] = 0 PROVE Fresh(d)'
    BY <1>2 DEF Unused
  <2> QED
    BY <1>1, <1>2, <1>3, <1>4, <1>5 DEF RowInv, Unused, Fresh, routes
<1>8. OneSync'
  <2> SUFFICES ASSUME NEW d \in Slots, flag'[d] = 1
               PROVE  sync'[d] \in {0, 1} /\ (sync'[d] = 1 => At(d) = {}) /\ \A t, u \in At(d) : t = u
    BY <1>4 DEF OneSync
  <2>1. CASE d = s
    <3>1. Fresh(s)
      BY <1>2, <2>1 DEF RowInv, Unused
    <3> QED
      BY <1>2, <2>1, <3>1 DEF Fresh
  <2>2. CASE d # s
    BY <1>2, <2>2 DEF RowInv, OneSync
  <2> QED
    BY <2>1, <2>2
<1>9. Stopped'
  BY <1>1, <1>2, <1>3 DEF RowInv, Stopped
<1>10. Cleared'
  BY <1>3 DEF Cleared
<1>11. Matches'
  <2> SUFFICES ASSUME NEW r \in Routes \ (tangled \cup adrift), stored[r] # chan[r], \A t \in Threads : ~On(t, r)
               PROVE  chan[r] = None /\ ToUse(r, SlotOf[r])'
    BY <1>1, <1>5 DEF Matches, routes
  <2>1. chan[r] = None /\ ToUse(r, SlotOf[r]) /\ SlotOf[r] \in Slots
    BY <1>1, RoutesAssumption DEF RowInv, Matches, Items
  <2>2. CASE SlotOf[r] = s
    BY <1>1, <1>2, <1>3, <2>1, <2>2 DEF ToUse
  <2>3. CASE SlotOf[r] # s
    BY <1>1, <1>2, <1>3, <1>4, <2>1, <2>3 DEF ToUse, Left
  <2> QED
    BY <2>2, <2>3
<1> QED
  BY <1>6, <1>7, <1>8, <1>9, <1>10, <1>11 DEF RowInv

LEMMA RowsEnable ==
  ASSUME Typed, TypeOK, RowInv, EnableTransceiver
  PROVE  RowInv'
<1>1. /\ mon.at = "enable" /\ mon.slot \in Slots /\ mon' = [at |-> "idle", slot |-> None]
      /\ UNCHANGED <<lock, routes, flag, sync, requests, th, tangled, adrift>>
  BY DEF EnableTransceiver, Typed, Watch, lists, hist
<1>2. SUFFICES ASSUME NEW s \in Slots, s = mon.slot PROVE RowInv'
  BY <1>1
<1>3. /\ mon'.at = "idle" /\ \A d \in Slots : (Monitored(d) <=> d = s) /\ ~Monitored(d)' /\ At(d)' = At(d)
      /\ level[s] = "described"
  <2>1. mon'.at = "idle" /\ \A d \in Slots : (Monitored(d) <=> d = s) /\ ~Monitored(d)' /\ At(d)' = At(d)
    BY <1>1, <1>2 DEF Monitored, At
  <2> QED
    BY <1>1, <2>1 DEF RowInv, Stopped
<1>4. /\ run'[s] = "running" /\ level'[s] = "up"
      /\ \A d \in Slots \ {s} : run'[d] = run[d] /\ level'[d] = level[d]
  BY <1>2, <1>3 DEF EnableTransceiver, TypeOK
<1>5. \A t \in Threads : (Adds(t)' <=> Adds(t)) /\ th'[t] = th[t] /\ \A r \in Routes : On(t, r)' <=> On(t, r)
  BY <1>1 DEF Adds, On
<1>6. AtHome' /\ Alone' /\ Deletes'
  BY <1>1, <1>5 DEF RowInv, AtHome, Queued, Alone, Deletes, routes
<1>7. Unused'
  <2> SUFFICES ASSUME NEW d \in Slots, flag[d] = 0 PROVE Fresh(d)'
    BY <1>1 DEF Unused
  <2>1. Fresh(d) /\ d # s
    BY <1>3 DEF RowInv, Unused, Fresh
  <2> QED
    BY <1>1, <1>3, <1>4, <1>5, <2>1 DEF Fresh, routes
<1>8. OneSync'
  BY <1>1, <1>3 DEF RowInv, OneSync
<1>9. Stopped'
  BY <1>1, <1>3, <1>4 DEF RowInv, Stopped
<1>10. Cleared'
  BY <1>3 DEF Cleared
<1>11. Matches'
  <2> SUFFICES ASSUME NEW r \in Routes \ (tangled \cup adrift), stored[r] # chan[r], \A t \in Threads : ~On(t, r)
               PROVE  chan[r] = None /\ ToUse(r, SlotOf[r])'
    BY <1>1, <1>5 DEF Matches, routes
  <2>1. chan[r] = None /\ ToUse(r, SlotOf[r]) /\ SlotOf[r] \in Slots
    BY <1>1, RoutesAssumption DEF RowInv, Matches, Items
  <2> QED
    BY <1>1, <1>3, <1>4, <2>1 DEF ToUse, Left
<1> QED
  BY <1>6, <1>7, <1>8, <1>9, <1>10, <1>11 DEF RowInv

\* Of the boards.
LEMMA RowsEnvironment ==
  ASSUME Typed, TypeOK, RowInv, Environment
  PROVE  RowInv'
<1>1. /\ UNCHANGED <<lock, routes, flag, sync, requests, th, tangled, mon>> /\ adrift \subseteq adrift'
      /\ \A d \in Slots : (Monitored(d)' <=> Monitored(d)) /\ At(d)' = At(d)
  <2>1. UNCHANGED <<lock, routes, flag, sync, requests, th, tangled, mon>> /\ adrift \subseteq adrift'
    BY DEF Environment, Restart, Described, lists, hist
  <2> QED
    BY <2>1 DEF Monitored, At
<1>2. \A t \in Threads : (Adds(t)' <=> Adds(t)) /\ th'[t] = th[t] /\ \A r \in Routes : On(t, r)' <=> On(t, r)
  BY <1>1 DEF Adds, On
<1>3. AtHome' /\ Alone' /\ Deletes'
  BY <1>1, <1>2 DEF RowInv, AtHome, Queued, Alone, Deletes, routes
<1>4. OneSync'
  BY <1>1 DEF RowInv, OneSync
<1>5. ASSUME NEW s \in Slots, Restart(s) PROVE RowInv'
  <2>1. /\ level'[s] = "down" /\ run'[s] = "pause" /\ mon.slot # s /\ ~Monitored(s)
        /\ \A d \in Slots \ {s} : level'[d] = level[d] /\ run'[d] = run[d]
        /\ adrift' = IF flag[s] = 1 THEN adrift \cup Of(s, Routes) ELSE adrift
    BY <1>5 DEF Restart, TypeOK, Monitored
  <2>2. Unused'
    BY <1>1, <1>2, <2>1 DEF RowInv, Unused, Fresh, routes
  <2>3. Stopped'
    <3>1. mon.at = "init" => mon.slot \in Slots
      BY DEF Typed, Watch
    <3> QED
      BY <1>1, <2>1, <3>1 DEF RowInv, Stopped
  <2>4. Cleared'
    BY <1>1, <1>2, <2>1 DEF RowInv, Cleared, routes, Typed, Watch
  <2>5. Matches'
    <3> SUFFICES ASSUME NEW r \in Routes \ (tangled \cup adrift'), stored[r] # chan[r], \A t \in Threads : ~On(t, r),
                        mon.at # "dead", ~(mon.at = "init" /\ mon.slot = SlotOf[r] /\ stored[r] = None)
                 PROVE  chan[r] = None /\ ToUse(r, SlotOf[r])'
      BY <1>1, <1>2 DEF Matches, routes
    <3>1. chan[r] = None /\ ToUse(r, SlotOf[r]) /\ SlotOf[r] \in Slots
      BY <2>1, RoutesAssumption DEF RowInv, Matches, Items
    <3>2. SlotOf[r] = s => flag[s] # 1
      BY <2>1 DEF Of
    <3> QED
      BY <1>1, <2>1, <3>1, <3>2 DEF ToUse, Left
  <2> QED
    BY <1>3, <1>4, <2>2, <2>3, <2>4, <2>5 DEF RowInv
<1>6. ASSUME NEW s \in Slots, NEW new \in BOOLEAN, Described(s, new) PROVE RowInv'
  <2>1. /\ level[s] = "down" /\ level'[s] = "described"
        /\ \A d \in Slots \ {s} : level'[d] = level[d]
        /\ adrift' = adrift /\ run' = run
    BY <1>6 DEF Described, TypeOK, hist
  <2>2. Unused'
    BY <1>1, <1>2, <2>1 DEF RowInv, Unused, Fresh, routes
  <2>3. Stopped'
    BY <1>1, <2>1 DEF RowInv, Stopped
  <2>4. Cleared'
    BY <1>1, <1>2, <2>1 DEF RowInv, Cleared, routes, Typed, Watch
  <2>5. Matches'
    <3> SUFFICES ASSUME NEW r \in Routes \ (tangled \cup adrift), stored[r] # chan[r], \A t \in Threads : ~On(t, r),
                        mon.at # "dead", ~(mon.at = "init" /\ mon.slot = SlotOf[r] /\ stored[r] = None)
                 PROVE  chan[r] = None /\ ToUse(r, SlotOf[r])'
      BY <1>1, <1>2, <2>1 DEF Matches, routes
    <3>1. chan[r] = None /\ ToUse(r, SlotOf[r]) /\ SlotOf[r] \in Slots
      BY RoutesAssumption DEF RowInv, Matches, Items
    <3> QED
      BY <1>1, <2>1, <3>1 DEF ToUse, Left
  <2> QED
    BY <1>3, <1>4, <2>2, <2>3, <2>4, <2>5 DEF RowInv
<1> QED
  BY <1>5, <1>6 DEF Environment

LEMMA RowsInit == Init => RowInv
<1> SUFFICES ASSUME Init PROVE RowInv
  OBVIOUS
<1>1. /\ lock = [x \in Items |-> FALSE] /\ chan = [r \in Routes |-> None] /\ stored \in Rows
      /\ flag = [s \in Slots |-> IF s \in Early THEN 2 ELSE 0]
      /\ run = [s \in Slots |-> IF s \in Early THEN "running" ELSE "stop"]
      /\ sync = [s \in Slots |-> 0] /\ requests = [s \in Slots |-> <<>>]
      /\ th = [t \in Threads |-> Idle] /\ mon = [at |-> "idle", slot |-> None]
      /\ tangled = {} /\ adrift = {}
  BY DEF Init
<1>2. \A t \in Threads : th[t].at = "idle" /\ th[t].to = None
  BY <1>1 DEF Idle
<1>3. mon.at = "idle" /\ \A s \in Slots : ~Monitored(s) /\ At(s) = {}
  BY <1>1, <1>2 DEF Monitored, At, Threads
<1>4. \A t \in Threads : ~Adds(t) /\ Homely(th[t]) /\ \A r \in Routes : ~On(t, r)
  BY <1>2 DEF Adds, Homely, On, RoutePlaces, Inside
<1>5. AtHome
  <2>1. \A s \in Slots : <<>> \in Seq([route : Of(s, Routes), to : Maybe])
    BY EmptySeq
  <2> QED
    BY <1>1, <1>4, <2>1 DEF AtHome, Queued
<1>6. Alone /\ Deletes
  BY <1>4 DEF Alone, Deletes
<1>7. Unused /\ OneSync /\ Stopped /\ Cleared
  BY <1>1, <1>3, <1>4 DEF Unused, Fresh, OneSync, Stopped, Cleared, Of
<1>8. Matches
  <2> SUFFICES ASSUME NEW r \in Routes, stored[r] # chan[r] PROVE chan[r] = None /\ flag[SlotOf[r]] = 0
    BY DEF Matches, ToUse
  <2>1. SlotOf[r] \in Slots
    BY RoutesAssumption DEF Items
  <2>2. SlotOf[r] \notin Early
    BY <1>1, RoutesAssumption
  <2> QED
    BY <1>1, <2>1, <2>2
<1> QED
  BY <1>5, <1>6, <1>7, <1>8 DEF RowInv

LEMMA RowsNext == RouteInv /\ RowInv /\ [Next]_vars => RowInv'
<1> SUFFICES ASSUME RouteInv, RowInv, [Next]_vars PROVE RowInv'
  OBVIOUS
<1>0. Typed /\ TypeOK
  BY DEF RouteInv
<1>1. CASE UNCHANGED vars
  <2>1. UNCHANGED <<lock, chan, stored, flag, run, level, sync, requests, th, mon, tangled, adrift>>
    BY <1>1 DEF vars, routes, slots, lists, hist
  <2>2. \A s \in Slots : At(s)' = At(s) /\ (Monitored(s)' <=> Monitored(s))
    BY <2>1 DEF At, Monitored
  <2>3. \A t \in Threads : (Adds(t)' <=> Adds(t)) /\ \A r \in Routes : (On(t, r)' <=> On(t, r)) /\ (Left(t, r)' <=> Left(t, r))
    BY <2>1 DEF Adds, On, Left
  <2>4. AtHome' /\ Alone' /\ Deletes'
    BY <2>1, <2>3 DEF RowInv, AtHome, Queued, Alone, Deletes
  <2>5. Unused' /\ OneSync' /\ Stopped'
    BY <2>1, <2>2, <2>3 DEF RowInv, Unused, Fresh, OneSync, Stopped
  <2>6. Cleared'
    BY <2>1, <2>2, <2>3, <1>0 DEF RowInv, Cleared, Typed, Watch
  <2>7. Matches'
    BY <2>1, <2>2, <2>3, RoutesAssumption DEF RowInv, Matches, ToUse, At, Threads, Items
  <2> QED
    BY <2>4, <2>5, <2>6, <2>7 DEF RowInv
<1>2. ASSUME NEW t \in Threads, RouteStep(t) PROVE RowInv'
  BY <1>0, <1>2, RowsRoute, RowsNull
<1>3. ASSUME NEW t \in Webs, WebStep(t) \/ Operator(t) PROVE RowInv'
  <2>1. t \in Threads
    BY DEF Threads
  <2> QED
    BY <1>0, <1>2, <1>3, <2>1, RowsSend, RowsWeb, RowsOperator
<1>4. ASSUME NEW t \in Tasks, TaskStep(t) PROVE RowInv'
  <2>1. t \in Threads
    BY DEF Threads
  <2> QED
    BY <1>0, <1>2, <1>4, <2>1, RowsSend, RowsStart, RowsTaskAside, RowsSynced DEF TaskStep
<1>5. ASSUME MonitorStep PROVE RowInv'
  BY <1>0, <1>5, RowsFree, RowsInitTransceiver, RowsAddSync, RowsEnable DEF MonitorStep
<1> QED
  BY <1>0, <1>1, <1>3, <1>4, <1>5, RowsEnvironment DEF Next

\* The rows of the database are the routes in use, at a slot that is up to date
\* and while nobody is at work, of every route that no two threads worked on at
\* once, and no board was replaced under, and for whose row no operation of the
\* database failed.
THEOREM StoredAreUsed == Spec => []StoredIsUsed
<1>1. Init => RouteInv /\ RowInv
  BY RouteInit, RowsInit
<1>2. RouteInv /\ RowInv /\ [Next]_vars => (RouteInv /\ RowInv)'
  BY RouteNext, RowsNext
<1>3. RouteInv /\ RowInv => StoredIsUsed
  <2> SUFFICES ASSUME RouteInv, RowInv, NEW s \in Slots, Steady(s), NEW r \in Of(s, Routes) \ (adrift \cup tangled)
               PROVE  stored[r] = chan[r]
    BY DEF StoredIsUsed
  <2>1. mon.at = "idle" /\ flag[s] = 2 /\ r \in Routes /\ SlotOf[r] = s
    BY DEF Steady, Rest, Of
  <2>2. \A t \in Threads : ~On(t, r)
    BY DEF Steady, Rest, AtWork, On, Inside
  <2>3. ~ToUse(r, s)
    BY <2>1 DEF ToUse
  <2> QED
    BY <2>1, <2>2, <2>3 DEF RowInv, Matches
<1> QED
  BY <1>1, <1>2, <1>3, PTL DEF Spec

-----------------------------------------------------------------------------
(* What the boards are told *)

Letter == [item : Items, value : Maybe \cup BOOLEAN]

\* The letters b go to board d.
Mailed(b, d) ==
  /\ \A i \in DOMAIN b : SlotOf[b[i].item] = d
  /\ \A x \in Items : Says(b, x) # {} => \E i \in Says(b, x) : \A j \in Says(b, x) : j <= i
Mail ==
  /\ outbox \in [Slots -> [Slots -> Seq(Letter)]]
  /\ \A o, d \in Slots : Mailed(outbox[o][d], d)
  /\ \A t \in Threads :
       /\ th[t].batch \in Seq(Letter) /\ (th[t].at = "post" <=> th[t].batch # <<>>)
       /\ th[t].at = "post" => Mailed(th[t].batch, To(t))
       /\ th[t].at \in {"send", "post"} => th[t].left \subseteq Slots

\* Every letter will be sent.
WillSend(t, s, d) ==
  /\ th[t].at \notin {"idle", "dead", "queue"} /\ th[t].slot = s
  /\ th[t].at \in {"send", "post"} => d \in th[t].left
Senders == \A s, d \in Slots : outbox[s][d] # <<>> => \E t \in Threads : WillSend(t, s, d)

\* A board that is down knows nothing.
Down == \A x \in Items : level[SlotOf[x]] = "down" => told[x] = Default(x)

Quiet(x) == x \in doubtful \cup spoiled \cup tangled
Holds(o, x) == Says(outbox[o][SlotOf[x]], x) # {}
Carries(t, x) == Says(th[t].batch, x) # {}

\* There is a letter about x in at most one list or batch, and the last says
\* what is in force.
Sure ==
  \A x \in Items : ~Quiet(x) =>
    /\ \A o \in Slots : Holds(o, x) =>
         /\ LastWord(outbox[o][SlotOf[x]], x) = Current(x)
         /\ \A p \in Slots : Holds(p, x) => p = o
    /\ \A t \in Threads : Carries(t, x) =>
         /\ LastWord(th[t].batch, x) = Current(x)
         /\ (\A o \in Slots : ~Holds(o, x)) /\ \A u \in Threads : Carries(u, x) => u = t

\* A board that has forgotten x will be told it again.
Serves(w, x) ==
  /\ w.slot = SlotOf[x]
  /\ \/ x \in Channels /\ w.at \in RoutePlaces \cup {"rows", "rewrite", "rewriting", "channels"}
     \/ x \in Routes /\ w.at = "rewrite" /\ x \in w.left
     \/ x \in Routes /\ w.at = "rewriting" /\ (x \in w.left \/ x = w.route)
Ahead(x) ==
  LET s == SlotOf[x]
  IN \/ level[s] = "down"
     \/ level[s] = "described" /\ ~(mon.at = "enable" /\ mon.slot = s)
     \/ sync[s] > 0 /\ (x \in Channels \/ flag[s] # 1)
     \/ \E t \in Tasks : Serves(th[t], x)
Known ==
  mon.at # "dead" => \A x \in Items : ~Quiet(x) =>
    \/ \E o \in Slots : Holds(o, x)
    \/ \E t \in Threads : Carries(t, x)
    \/ told[x] = Current(x)
    \/ told[x] = Default(x) /\ Ahead(x)

ToldInv == Mail /\ Senders /\ Down /\ Sure /\ Known

LEMMA Least ==
  ASSUME NEW S \in SUBSET Nat, S # {}
  PROVE  \E x \in S : \A y \in S : x <= y
<1> DEFINE R == OpToRel(<, Nat)
<1>1. IsWellFoundedOn(R, Nat)
  BY NatLessThanWellFounded
<1>2. \A x, y \in Nat : <<x, y>> \in R <=> x < y
  BY DEF OpToRel
<1> HIDE DEF R
<1>3. PICK x \in S : \A y \in S : ~ (<<y, x>> \in R)
  BY <1>1, WFMin
<1>4. \A y \in S : x \in Nat /\ y \in Nat /\ ~ (y < x)
  BY <1>2, <1>3
<1>5. \A y \in S : x <= y
  BY <1>4
<1> QED
  BY <1>3, <1>5

\* The sequence of a finite set has each of its elements once.
LEMMA EachOnce ==
  ASSUME NEW S, IsFiniteSet(S)
  PROVE  /\ Cardinality(S) \in Nat /\ SetToSeq(S) \in [1..Cardinality(S) -> S]
         /\ \A a, b \in 1..Cardinality(S) : SetToSeq(S)[a] = SetToSeq(S)[b] => a = b
         /\ \A x \in S : \E i \in 1..Cardinality(S) : SetToSeq(S)[i] = x
<1> DEFINE q == SetToSeq(S)
           n == Cardinality(S)
<1>1. PICK f : f \in Bijection(1..n, S)
  BY FS_CardinalityType DEF ExistsBijection
<1>2. f \in [1..n -> S] /\ \A a, b \in DOMAIN f : f[a] = f[b] => a = b
  BY <1>1 DEF Bijection, Injection, IsInjective
<1>3. q \in [1..n -> S] /\ \A a, b \in DOMAIN q : q[a] = q[b] => a = b
  BY <1>2 DEF SetToSeq, IsInjective
<1>4. q \in Injection(1..n, S) /\ n \in Nat
  BY <1>3, FS_CardinalityType DEF Injection, IsInjective
<1>5. Cardinality(1..n) = n
  BY <1>4, FS_Interval
<1> HIDE DEF q, n
<1>6. q \in Surjection(1..n, S)
  BY <1>4, <1>5, FS_Injection DEF n
<1>7. \A x \in S : \E i \in DOMAIN q : q[i] = x
  BY <1>6 DEF Surjection
<1> QED
  BY <1>3, <1>4, <1>7 DEF q, n

\* The last letter about x.
LEMMA LastIs ==
  ASSUME NEW b \in Seq(Letter), NEW x, NEW i \in Says(b, x), \A j \in Says(b, x) : j <= i
  PROVE  LastWord(b, x) = b[i].value
<1>1. \A j \in Says(b, x) : j \in Nat
  BY DEF Says
<1>2. \A k \in Says(b, x) : (\A j \in Says(b, x) : j <= k) => k = i
  BY <1>1
<1>3. (CHOOSE k \in Says(b, x) : \A j \in Says(b, x) : j <= k) = i
  BY <1>2
<1> QED
  BY <1>3 DEF LastWord

\* What is said in front of other letters stays the last word on what those
\* are not about.
LEMMA SaidBefore ==
  ASSUME NEW b \in Seq(Letter), NEW a \in Seq(Letter), NEW d, Mailed(b, d), NEW x \in Items,
         Says(a, x) = Says(b, x), \A i \in Says(b, x) : a[i] = b[i]
  PROVE  Says(b, x) # {} => /\ LastWord(a, x) = LastWord(b, x)
                            /\ \E i \in Says(a, x) : \A j \in Says(a, x) : j <= i
<1> SUFFICES ASSUME Says(b, x) # {}
             PROVE  /\ LastWord(a, x) = LastWord(b, x)
                    /\ \E i \in Says(a, x) : \A j \in Says(a, x) : j <= i
  OBVIOUS
<1>1. PICK i \in Says(b, x) : \A j \in Says(b, x) : j <= i
  BY DEF Mailed
<1>2. LastWord(b, x) = b[i].value /\ LastWord(a, x) = a[i].value
  BY <1>1, LastIs
<1> QED
  BY <1>1, <1>2

LEMMA SaidLast ==
  ASSUME NEW b \in Seq(Letter), NEW d, Mailed(b, d), NEW x \in Items, NEW v \in Maybe \cup BOOLEAN,
         SlotOf[x] = d
  PROVE  LET a == Append(b, [item |-> x, value |-> v])
         IN  /\ a \in Seq(Letter) /\ a # <<>> /\ Mailed(a, d)
             /\ Says(a, x) # {} /\ LastWord(a, x) = v
             /\ \A y \in Items \ {x} : /\ Says(a, y) = Says(b, y)
                                       /\ Says(b, y) # {} => LastWord(a, y) = LastWord(b, y)
<1> DEFINE l == [item |-> x, value |-> v]
           a == Append(b, l)
           n == Len(b)
<1>1. l \in Letter /\ l.item = x /\ l.value = v
  BY DEF Letter
<1>2. n \in Nat /\ DOMAIN b = 1..n
  BY LenProperties
<1>3. a \in Seq(Letter) /\ Len(a) = n + 1 /\ DOMAIN a = 1..(n + 1) /\ a[n + 1] = l /\ \A i \in 1..n : a[i] = b[i]
  BY <1>1, AppendProperties
<1> HIDE DEF a, n, l
<1>4. \A y \in Items \ {x} : Says(a, y) = Says(b, y)
  BY <1>1, <1>2, <1>3 DEF Says
<1>5. \A y \in Items \ {x} : \A i \in Says(b, y) : a[i] = b[i]
  BY <1>2, <1>3 DEF Says
<1>6. n + 1 \in Says(a, x) /\ \A j \in Says(a, x) : j <= n + 1
  BY <1>1, <1>2, <1>3 DEF Says
<1>7. LastWord(a, x) = v
  BY <1>1, <1>3, <1>6, LastIs
<1>8. \A y \in Items \ {x} : Says(b, y) # {} => /\ LastWord(a, y) = LastWord(b, y)
                                                /\ \E i \in Says(a, y) : \A j \in Says(a, y) : j <= i
  BY <1>3, <1>4, <1>5, SaidBefore
<1>9. Mailed(a, d)
  <2>1. \A y \in Items : Says(a, y) # {} => \E i \in Says(a, y) : \A j \in Says(a, y) : j <= i
    BY <1>4, <1>6, <1>8
  <2>2. \A i \in DOMAIN a : SlotOf[a[i].item] = d
    BY <1>1, <1>2, <1>3 DEF Mailed
  <2> QED
    BY <2>1, <2>2 DEF Mailed
<1>10. a # <<>>
  BY <1>2, <1>3
<1> QED
  BY <1>3, <1>4, <1>6, <1>7, <1>8, <1>9, <1>10 DEF a, l

\* The letters b, and then that the channels on are enabled.
With(b, on) == b \o [i \in 1..Cardinality(on) |-> [item |-> SetToSeq(on)[i], value |-> TRUE]]

LEMMA SaidAll ==
  ASSUME NEW b \in Seq(Letter), NEW d, Mailed(b, d), NEW on \in SUBSET Channels,
         \A c \in on : SlotOf[c] = d
  PROVE  /\ With(b, on) \in Seq(Letter) /\ (b # <<>> => With(b, on) # <<>>) /\ Mailed(With(b, on), d)
         /\ \A c \in on : Says(With(b, on), c) # {} /\ LastWord(With(b, on), c) = TRUE
         /\ \A y \in Items \ on :
              /\ Says(With(b, on), y) = Says(b, y)
              /\ Says(b, y) # {} => LastWord(With(b, on), y) = LastWord(b, y)
<1> DEFINE k == Cardinality(on)
           q == SetToSeq(on)
           l == [i \in 1..k |-> [item |-> q[i], value |-> TRUE]]
           a == b \o l
           n == Len(b)
<1>1. IsFiniteSet(on) /\ on \subseteq Items
  BY RoutesAssumption, FS_Subset DEF Items
<1>2. /\ k \in Nat /\ q \in [1..k -> on]
      /\ \A i, j \in 1..k : q[i] = q[j] => i = j
      /\ \A c \in on : \E i \in 1..k : q[i] = c
  BY <1>1, EachOnce
<1> HIDE DEF k, q
<1>3. l \in Seq(Letter) /\ Len(l) = k /\ \A i \in 1..k : l[i].item = q[i] /\ l[i].value = TRUE
  BY <1>1, <1>2 DEF Letter
<1>4. n \in Nat /\ DOMAIN b = 1..n
  BY LenProperties
<1> HIDE DEF l
<1>5. /\ a \in Seq(Letter) /\ Len(a) = n + k /\ DOMAIN a = 1..(n + k)
      /\ \A i \in 1..n : a[i] = b[i]
      /\ \A i \in 1..k : a[n + i] = l[i]
  <2>1. /\ a \in Seq(Letter) /\ Len(a) = n + k
        /\ \A i \in 1..(n + k) : a[i] = IF i <= n THEN b[i] ELSE l[i - n]
    BY <1>3, <1>4, ConcatProperties
  <2>2. DOMAIN a = 1..(n + k)
    BY <2>1, LenProperties
  <2> HIDE DEF a, n
  <2>3. \A i \in 1..n : a[i] = b[i]
    BY <1>2, <1>4, <2>1
  <2>4. \A i \in 1..k : n + i \in 1..(n + k) /\ ~(n + i <= n) /\ (n + i) - n = i
    BY <1>2, <1>4
  <2>5. \A i \in 1..k : a[n + i] = l[i]
    BY <2>1, <2>4
  <2> QED
    BY <2>1, <2>2, <2>3, <2>5
<1> HIDE DEF a, n
<1>6. \A i \in DOMAIN a : i \in DOMAIN b \/ \E j \in 1..k : i = n + j
  <2> SUFFICES ASSUME NEW i \in DOMAIN a, i \notin DOMAIN b PROVE \E j \in 1..k : i = n + j
    OBVIOUS
  <2>1. i \in Nat /\ i > n /\ i <= n + k
    BY <1>2, <1>4, <1>5
  <2>2. i - n \in 1..k /\ i = n + (i - n)
    BY <1>2, <1>4, <2>1
  <2> QED
    BY <2>2
<1>7. \A i \in DOMAIN b : i \in DOMAIN a /\ a[i] = b[i]
  BY <1>2, <1>4, <1>5
<1>8. \A j \in 1..k : n + j \in DOMAIN a /\ a[n + j].item = q[j] /\ a[n + j].value = TRUE
  <2>1. \A j \in 1..k : n + j \in 1..(n + k)
    BY <1>2, <1>4
  <2> QED
    BY <1>3, <1>5, <2>1
<1>9. \A y \in Items \ on : Says(a, y) = Says(b, y) /\ \A i \in Says(b, y) : a[i] = b[i]
  <2>1. \A y \in Items \ on : \A j \in 1..k : a[n + j].item # y
    BY <1>2, <1>8
  <2> QED
    BY <1>6, <1>7, <2>1 DEF Says
<1>10. \A y \in Items \ on : Says(b, y) # {} => /\ LastWord(a, y) = LastWord(b, y)
                                                /\ \E i \in Says(a, y) : \A j \in Says(a, y) : j <= i
  BY <1>5, <1>9, SaidBefore
<1>11. ASSUME NEW c \in on
       PROVE  /\ Says(a, c) # {} /\ LastWord(a, c) = TRUE
              /\ \E i \in Says(a, c) : \A j \in Says(a, c) : j <= i
  <2>1. PICK i \in 1..k : q[i] = c
    BY <1>2
  <2>2. n + i \in Says(a, c)
    BY <1>8, <2>1 DEF Says
  <2>3. \A j \in Says(a, c) : j <= n + i
    <3> SUFFICES ASSUME NEW j \in DOMAIN a, a[j].item = c PROVE j <= n + i
      BY DEF Says
    <3>1. CASE j \in DOMAIN b
      BY <1>4, <2>1, <3>1
    <3>2. CASE \E h \in 1..k : j = n + h
      <4>1. j = n + i
        BY <1>2, <1>8, <2>1, <3>2
      <4> QED
        BY <1>4, <2>1, <4>1
    <3> QED
      BY <1>6, <3>1, <3>2
  <2>4. LastWord(a, c) = TRUE
    BY <1>5, <1>8, <2>1, <2>2, <2>3, LastIs
  <2> QED
    BY <2>2, <2>3, <2>4
<1>12. Mailed(a, d)
  <2>1. \A y \in Items : Says(a, y) # {} => \E i \in Says(a, y) : \A j \in Says(a, y) : j <= i
    BY <1>9, <1>10, <1>11
  <2>2. \A i \in DOMAIN a : SlotOf[a[i].item] = d
    BY <1>2, <1>6, <1>7, <1>8 DEF Mailed
  <2> QED
    BY <2>1, <2>2 DEF Mailed
<1>13. b # <<>> => a # <<>>
  <2>1. b # <<>> => n # 0
    BY EmptySeq DEF n
  <2>2. a = <<>> => Len(a) = 0
    OBVIOUS
  <2> QED
    BY <1>2, <1>4, <1>5, <2>1, <2>2
<1>14. With(b, on) = a
  BY DEF a, l, k, q, With
<1> QED
  BY <1>5, <1>9, <1>10, <1>11, <1>12, <1>13, <1>14

-----------------------------------------------------------------------------
(* Steps that send nothing, and letters that are written *)

\* No thread changes its batch or forgets that it will send the lists of its
\* slot.
Sends ==
  /\ \A t \in Threads :
       /\ th'[t].batch = th[t].batch /\ (th'[t].at = "post" <=> th[t].at = "post")
       /\ th'[t].at \in {"send", "post"} => th'[t].left \subseteq Slots
  /\ \A t \in Threads, o, d \in Slots : WillSend(t, o, d) => WillSend(t, o, d)' \/ outbox[o][d] = <<>>
  /\ mon.at = "dead" => mon'.at = "dead"

\* Of x, nothing is changed but what its board will be told again.
Still(x) ==
  /\ Current(x)' = Current(x) /\ (Quiet(x) => Quiet(x)')
  /\ told'[x] = told[x] \/ (told'[x] = Default(x) /\ (Quiet(x)' \/ Ahead(x)'))
  /\ Ahead(x) => Ahead(x)' \/ Current(x) = Default(x)
  /\ level'[SlotOf[x]] = "down" => level[SlotOf[x]] = "down" \/ told'[x] = Default(x)

LEMMA Kept ==
  ASSUME TypeOK, ToldInv, Sends, UNCHANGED outbox, \A x \in Items : Still(x)
  PROVE  ToldInv'
<1>1. \A o \in Slots, x \in Items : Holds(o, x)' <=> Holds(o, x)
  BY DEF Holds
<1>2. \A t \in Threads, x \in Items : Carries(t, x)' <=> Carries(t, x)
  BY DEF Sends, Carries
<1>3. Mail'
  BY DEF ToldInv, Mail, Sends, To
<1>4. Senders'
  BY DEF ToldInv, Senders, Sends
<1>5. Down'
  BY DEF ToldInv, Down, Still, Default
<1>6. Sure'
  BY <1>1, <1>2 DEF ToldInv, Sure, Still, Sends
<1>7. Known'
  <2> SUFFICES ASSUME mon'.at # "dead", NEW x \in Items, ~Quiet(x)', \A o \in Slots : ~Holds(o, x)',
                      \A t \in Threads : ~Carries(t, x)', told'[x] # Current(x)'
               PROVE  told'[x] = Default(x)' /\ Ahead(x)'
    BY DEF Known
  <2>1. CASE told'[x] # told[x]
    BY <2>1 DEF Still, Default
  <2>2. CASE told'[x] = told[x]
    <3>1. told[x] = Default(x) /\ Ahead(x) /\ Current(x)' = Current(x)
      BY <1>1, <1>2, <2>2 DEF ToldInv, Known, Still, Sends
    <3> QED
      BY <2>2, <3>1 DEF Still, Default
  <2> QED
    BY <2>1, <2>2
<1> QED
  BY <1>3, <1>4, <1>5, <1>6, <1>7 DEF ToldInv

\* Thread t writes to the board of x what is now in force.
LEMMA Written ==
  ASSUME TypeOK, ToldInv, Sends, NEW s \in Slots, NEW x \in Items, NEW v \in Maybe \cup BOOLEAN,
         Tell(s, x, v), Current(x)' = v, told' = told, level' = level,
         spoiled \subseteq spoiled', tangled \subseteq tangled',
         \A y \in Items \ {x} : Current(y)' = Current(y) /\ (Ahead(y) => Ahead(y)' \/ Current(y) = Default(y)),
         \E t \in Threads : \A d \in Slots : WillSend(t, s, d)'
  PROVE  ToldInv'
<1> DEFINE d == SlotOf[x]
           a == Append(outbox[s][d], [item |-> x, value |-> v])
<1>1. d \in Slots /\ outbox[s][d] \in Seq(Letter) /\ Mailed(outbox[s][d], d)
  <2>1. d \in Slots
    BY RoutesAssumption
  <2> HIDE DEF d
  <2> QED
    BY <2>1 DEF ToldInv, Mail
<1>2. /\ a \in Seq(Letter) /\ a # <<>> /\ Mailed(a, d)
      /\ Says(a, x) # {} /\ LastWord(a, x) = v
      /\ \A y \in Items \ {x} : /\ Says(a, y) = Says(outbox[s][d], y)
                                /\ Says(outbox[s][d], y) # {} => LastWord(a, y) = LastWord(outbox[s][d], y)
  BY <1>1, SaidLast
<1>3. outbox' = [outbox EXCEPT ![s][d] = a] /\ outbox \in [Slots -> [Slots -> Seq(Letter)]]
  BY DEF Tell, ToldInv, Mail
<1> HIDE DEF a
<1>4. /\ outbox'[s][d] = a /\ outbox' \in [Slots -> [Slots -> Seq(Letter)]]
      /\ \A o, e \in Slots : o # s \/ e # d => outbox'[o][e] = outbox[o][e]
  BY <1>1, <1>2, <1>3
<1>5. \A y \in Items : SlotOf[y] \in Slots
  BY RoutesAssumption
<1>6. ASSUME NEW y \in Items \ {x}, NEW o \in Slots
      PROVE  /\ Holds(o, y)' <=> Holds(o, y)
             /\ Holds(o, y) => LastWord(outbox'[o][SlotOf[y]], y) = LastWord(outbox[o][SlotOf[y]], y)
  BY <1>2, <1>4, <1>5 DEF Holds
<1>7. /\ Holds(s, x)' /\ LastWord(outbox'[s][SlotOf[x]], x) = v
      /\ \A o \in Slots \ {s} : Holds(o, x)' <=> Holds(o, x)
  BY <1>1, <1>2, <1>4 DEF Holds
<1>8. \A t \in Threads, y \in Items : Carries(t, y)' <=> Carries(t, y)
  BY DEF Sends, Carries
<1>9. /\ x \in doubtful' \/ ~OnTheWay(s, x)
      /\ \A y \in Items \ {x} : Quiet(y) => Quiet(y)'
  BY DEF Tell, Quiet
<1>10. ~OnTheWay(s, x) => (\A o \in Slots \ {s} : ~Holds(o, x)) /\ \A t \in Threads : ~Carries(t, x)
  BY DEF OnTheWay, Holds, Carries, Says
<1>11. Mail'
  <2>1. \A o, e \in Slots : Mailed(outbox'[o][e], e)
    BY <1>1, <1>2, <1>4 DEF ToldInv, Mail
  <2> QED
    BY <1>4, <2>1 DEF ToldInv, Mail, Sends, To
<1>12. Senders'
  <2> SUFFICES ASSUME NEW o \in Slots, NEW e \in Slots, outbox'[o][e] # <<>>
               PROVE  \E t \in Threads : WillSend(t, o, e)'
    BY DEF Senders
  <2>1. CASE o = s
    BY <2>1
  <2>2. CASE o # s
    <3>1. outbox[o][e] # <<>>
      BY <1>4, <2>2
    <3>2. PICK t \in Threads : WillSend(t, o, e)
      BY <3>1 DEF ToldInv, Senders
    <3> QED
      BY <3>1, <3>2 DEF Sends
  <2> QED
    BY <2>1, <2>2
<1>13. Down'
  BY DEF ToldInv, Down, Default
<1>14. Sure'
  <2> SUFFICES ASSUME NEW y \in Items, ~Quiet(y)'
               PROVE  /\ \A o \in Slots : Holds(o, y)' =>
                           /\ LastWord(outbox'[o][SlotOf[y]], y) = Current(y)'
                           /\ \A p \in Slots : Holds(p, y)' => p = o
                      /\ \A t \in Threads : Carries(t, y)' =>
                           /\ LastWord(th'[t].batch, y) = Current(y)'
                           /\ (\A o \in Slots : ~Holds(o, y)') /\ \A u \in Threads : Carries(u, y)' => u = t
    BY DEF Sure
  <2>1. CASE y = x
    <3>1. (\A o \in Slots \ {s} : ~Holds(o, x)) /\ \A t \in Threads : ~Carries(t, x)
      BY <1>9, <1>10, <2>1 DEF Quiet
    <3> QED
      BY <1>7, <1>8, <2>1, <3>1
  <2>2. CASE y # x
    <3>1. ~Quiet(y) /\ Current(y)' = Current(y)
      BY <1>9, <2>2
    <3>2. /\ \A o \in Slots : Holds(o, y) =>
                /\ LastWord(outbox[o][SlotOf[y]], y) = Current(y)
                /\ \A p \in Slots : Holds(p, y) => p = o
          /\ \A t \in Threads : Carries(t, y) =>
                /\ LastWord(th[t].batch, y) = Current(y)
                /\ (\A o \in Slots : ~Holds(o, y)) /\ \A u \in Threads : Carries(u, y) => u = t
      BY <3>1 DEF ToldInv, Sure
    <3>3. \A t \in Threads : th'[t].batch = th[t].batch
      BY DEF Sends
    <3> QED
      BY <1>6, <1>8, <2>2, <3>1, <3>2, <3>3
  <2> QED
    BY <2>1, <2>2
<1>15. Known'
  <2> SUFFICES ASSUME mon'.at # "dead", NEW y \in Items, ~Quiet(y)', \A o \in Slots : ~Holds(o, y)',
                      \A t \in Threads : ~Carries(t, y)', told'[y] # Current(y)'
               PROVE  told'[y] = Default(y)' /\ Ahead(y)'
    BY DEF Known
  <2>1. y # x
    BY <1>7
  <2>2. told[y] = Default(y) /\ Ahead(y) /\ Current(y)' = Current(y) /\ told[y] # Current(y)
    BY <1>6, <1>8, <1>9, <2>1 DEF ToldInv, Known, Sends
  <2> QED
    BY <2>1, <2>2 DEF Default
<1> QED
  BY <1>11, <1>12, <1>13, <1>14, <1>15 DEF ToldInv

\* Only the boards that forget something matter.
LEMMA Unsent ==
  ASSUME TypeOK, ToldInv, Sends, UNCHANGED <<outbox, told, enable, chan, level, doubtful>>,
         spoiled \subseteq spoiled', tangled \subseteq tangled',
         \A x \in Items : Ahead(x) => Ahead(x)' \/ Current(x) = Default(x)
  PROVE  ToldInv'
<1>1. \A x \in Items : Still(x)
  BY DEF Still, Current, Quiet
<1> QED
  BY <1>1, Kept

\* Thread t goes on, and others and the slots are left alone.
Alike(t) ==
  /\ \A u \in Threads \ {t} : th'[u] = th[u]
  /\ UNCHANGED <<slots, mon>> /\ th'[t].batch = th[t].batch

LEMMA AlikeSends ==
  ASSUME ToldInv, NEW t \in Threads, Alike(t), th'[t].at = "post" <=> th[t].at = "post",
         th'[t].at \in {"send", "post"} => th'[t].left \subseteq Slots,
         \A o, d \in Slots : WillSend(t, o, d) => WillSend(t, o, d)' \/ outbox[o][d] = <<>>
  PROVE  Sends
<1>1. \A u \in Threads \ {t} : th'[u] = th[u] /\ \A o, d \in Slots : WillSend(u, o, d)' <=> WillSend(u, o, d)
  BY DEF Alike, WillSend
<1> QED
  BY <1>1 DEF Sends, Alike, ToldInv, Mail

LEMMA AlikeAhead ==
  ASSUME NEW t \in Threads, Alike(t), NEW x \in Items, t \in Tasks /\ Serves(th[t],
         x) => Serves(th'[t], x)
  PROVE  Ahead(x) => Ahead(x)'
<1>1. \A u \in Tasks : Serves(th[u], x) => Serves(th'[u], x)
  BY DEF Alike, Threads
<1> QED
  BY <1>1 DEF Alike, Ahead, slots

Going(t) ==
  /\ th[t].at \in RoutePlaces /\ th'[t].at \in RoutePlaces \cup {Caller(t)}
  /\ th'[t].slot = th[t].slot

LEMMA GoingOn ==
  ASSUME ToldInv, NEW t \in Threads, Alike(t), Going(t)
  PROVE  /\ Sends /\ (\A x \in Items : Ahead(x) => Ahead(x)')
         /\ \A d \in Slots : WillSend(t, th[t].slot, d)'
<1>1. Caller(t) \in {"rows", "empty", "next"} /\ (t \in Tasks => Caller(t) = "rows")
  BY DEF Caller
<1>2. /\ th'[t].at # "post" /\ th[t].at # "post" /\ th'[t].at \notin {"send", "post"}
      /\ th'[t].at \notin {"idle", "dead", "queue"}
  BY <1>1 DEF Going, RoutePlaces, Inside
<1>3. \A d \in Slots : WillSend(t, th[t].slot, d)'
  BY <1>2 DEF WillSend, Going
<1>4. \A o, d \in Slots : WillSend(t, o, d) => WillSend(t, o, d)'
  BY <1>2 DEF WillSend, Going
<1>5. Sends
  BY <1>2, <1>4, AlikeSends
<1>6. \A x \in Items : t \in Tasks /\ Serves(th[t], x) => Serves(th'[t], x)
  BY <1>1 DEF Serves, Going, RoutePlaces, Inside
<1>7. \A x \in Items : Ahead(x) => Ahead(x)'
  BY <1>6, AlikeAhead
<1> QED
  BY <1>3, <1>5, <1>7

\* The steps of a thread on its route.
LEMMA ToldRoute ==
  ASSUME Typed, TypeOK, ToldInv, NEW t \in Threads, RouteStep(t)
  PROVE  ToldInv'
<1>0. DOMAIN th = Threads /\ Work(th[t]) /\ DOMAIN th[t] = Fields
  BY DEF Typed, Works, Work
<1>1. CASE RouteSeen(t)
  <2>1. /\ th[t].at = "route" /\ th'[t].at = "routeFree" /\ th'[t].slot = th[t].slot
        /\ th'[t].batch = th[t].batch /\ \A u \in Threads \ {t} : th'[u] = th[u]
    BY <1>1, <1>0 DEF RouteSeen, Seen, Here, Goto, Fields
  <2>2. UNCHANGED <<slots, mon, told>>
    BY <1>1 DEF RouteSeen, Seen
  <2>3. Alike(t) /\ Going(t)
    BY <2>1, <2>2 DEF Alike, Going, RoutePlaces, Inside
  <2>4. UNCHANGED <<outbox, enable, chan, level, doubtful>>
    BY <1>1, <2>2 DEF RouteSeen, Seen, hist, lists, chans, routes, slots
  <2>5. spoiled \subseteq spoiled' /\ tangled \subseteq tangled'
    BY <1>1 DEF RouteSeen, Seen, hist, lists, chans, routes, slots, Begins
  <2> QED
    BY <2>2, <2>3, <2>4, <2>5, GoingOn, Unsent
<1>2. CASE OldSeen(t)
  <2>1. /\ th[t].at = "old" /\ th'[t].at = "oldFree" /\ th'[t].slot = th[t].slot
        /\ th'[t].batch = th[t].batch /\ \A u \in Threads \ {t} : th'[u] = th[u]
    BY <1>2, <1>0 DEF OldSeen, Seen, Here, Goto, Fields
  <2>2. UNCHANGED <<slots, mon, told>>
    BY <1>2 DEF OldSeen, Seen
  <2>3. Alike(t) /\ Going(t)
    BY <2>1, <2>2 DEF Alike, Going, RoutePlaces, Inside
  <2>4. UNCHANGED <<outbox, enable, chan, level, doubtful>>
    BY <1>2, <2>2 DEF OldSeen, Seen, hist, lists, chans, routes, slots
  <2>5. spoiled \subseteq spoiled' /\ tangled \subseteq tangled'
    BY <1>2 DEF OldSeen, Seen, hist, lists, chans, routes, slots, Begins
  <2> QED
    BY <2>2, <2>3, <2>4, <2>5, GoingOn, Unsent
<1>3. CASE NewSeen(t)
  <2>1. /\ th[t].at = "new" /\ th'[t].at = "newFree" /\ th'[t].slot = th[t].slot
        /\ th'[t].batch = th[t].batch /\ \A u \in Threads \ {t} : th'[u] = th[u]
    BY <1>3, <1>0 DEF NewSeen, Seen, Here, Goto, Fields
  <2>2. UNCHANGED <<slots, mon, told>>
    BY <1>3 DEF NewSeen, Seen
  <2>3. Alike(t) /\ Going(t)
    BY <2>1, <2>2 DEF Alike, Going, RoutePlaces, Inside
  <2>4. UNCHANGED <<outbox, enable, chan, level, doubtful>>
    BY <1>3, <2>2 DEF NewSeen, Seen, hist, lists, chans, routes, slots
  <2>5. spoiled \subseteq spoiled' /\ tangled \subseteq tangled'
    BY <1>3 DEF NewSeen, Seen, hist, lists, chans, routes, slots, Begins
  <2> QED
    BY <2>2, <2>3, <2>4, <2>5, GoingOn, Unsent
<1>4. CASE RouteTake(t)
  <2>1. /\ th[t].at = "routeFree" /\ th'[t].at \in {"new", "old"} /\ th'[t].slot = th[t].slot
        /\ th'[t].batch = th[t].batch /\ \A u \in Threads \ {t} : th'[u] = th[u]
    BY <1>4, <1>0 DEF RouteTake, route, Here, Fields
  <2>2. UNCHANGED <<slots, mon, told>>
    BY <1>4 DEF RouteTake, route
  <2>3. Alike(t) /\ Going(t)
    BY <2>1, <2>2 DEF Alike, Going, RoutePlaces, Inside
  <2>4. UNCHANGED <<outbox, enable, chan, level, doubtful>>
    BY <1>4, <2>2 DEF RouteTake, route, hist, lists, chans, routes, slots
  <2>5. spoiled \subseteq spoiled' /\ tangled \subseteq tangled'
    <3>1. Tangle(lock[route(t)] \/ \E u \in Threads : Here(u, "rewriting") /\ route(u) = route(t), route(t))
      BY <1>4 DEF RouteTake
    <3> QED
      BY <3>1 DEF Tangle, TypeOK
  <2> QED
    BY <2>2, <2>3, <2>4, <2>5, GoingOn, Unsent
<1>5. CASE NullChannel(t)
  <2>1. /\ mon'.at = "dead" /\ spoiled' = Channels /\ tangled' = Routes
        /\ outbox' = [s \in Slots |-> [d \in Slots |-> <<>>]]
        /\ th' = [u \in Threads |-> Dead] /\ told' = told /\ level' = level
    BY <1>5 DEF NullChannel, NoLetters
  <2>2. \A u \in Threads : th'[u].at = "dead" /\ th'[u].batch = <<>>
    BY <2>1 DEF Dead, Idle
  <2>3. \A x \in Items : Quiet(x)'
    BY <2>1 DEF Quiet, Items
  <2>4. <<>> \in Seq(Letter) /\ \A x : Says(<<>>, x) = {}
    BY EmptySeq DEF Says
  <2>5. \A d : Mailed(<<>>, d)
    BY <2>4 DEF Mailed
  <2>6. \A o, d \in Slots : outbox'[o][d] = <<>>
    BY <2>1
  <2>7. Mail'
    <3>1. outbox' \in [Slots -> [Slots -> Seq(Letter)]]
      BY <2>1, <2>4
    <3> QED
      BY <2>2, <2>4, <2>5, <2>6, <3>1 DEF Mail
  <2>8. Senders'
    BY <2>6 DEF Senders
  <2>9. Down'
    BY <2>1 DEF ToldInv, Down, Default
  <2>10. Sure' /\ Known'
    BY <2>1, <2>3 DEF Sure, Known
  <2> QED
    BY <2>7, <2>8, <2>9, <2>10 DEF ToldInv
<1>6. CASE OldTake(t)
  <2>1. /\ th[t].at = "oldFree" /\ th'[t].at = "oldHeld" /\ th'[t].slot = th[t].slot
        /\ th'[t].batch = th[t].batch /\ \A u \in Threads \ {t} : th'[u] = th[u]
    BY <1>6, <1>0 DEF OldTake, ChannelTake, Source, Here, Fields
  <2>2. UNCHANGED <<slots, mon, told>>
    BY <1>6 DEF OldTake, ChannelTake, Source
  <2>3. Alike(t) /\ Going(t)
    BY <2>1, <2>2 DEF Alike, Going, RoutePlaces, Inside
  <2>4. UNCHANGED <<outbox, enable, chan, level, doubtful>>
    BY <1>6, <2>2 DEF OldTake, ChannelTake, Source, hist, lists, chans, routes, slots
  <2>5. spoiled \subseteq spoiled' /\ tangled \subseteq tangled'
    BY <1>6 DEF OldTake, ChannelTake, Source, hist, lists, chans, routes, slots, Begins
  <2> QED
    BY <2>2, <2>3, <2>4, <2>5, GoingOn, Unsent
<1>7. CASE NewTake(t)
  <2>1. /\ th[t].at = "newFree" /\ th'[t].at = "newHeld" /\ th'[t].slot = th[t].slot
        /\ th'[t].batch = th[t].batch /\ \A u \in Threads \ {t} : th'[u] = th[u]
    BY <1>7, <1>0 DEF NewTake, ChannelTake, Source, Here, Fields
  <2>2. UNCHANGED <<slots, mon, told>>
    BY <1>7 DEF NewTake, ChannelTake, Source
  <2>3. Alike(t) /\ Going(t)
    BY <2>1, <2>2 DEF Alike, Going, RoutePlaces, Inside
  <2>4. UNCHANGED <<outbox, enable, chan, level, doubtful>>
    BY <1>7, <2>2 DEF NewTake, ChannelTake, Source, hist, lists, chans, routes, slots
  <2>5. spoiled \subseteq spoiled' /\ tangled \subseteq tangled'
    BY <1>7 DEF NewTake, ChannelTake, Source, hist, lists, chans, routes, slots, Begins
  <2> QED
    BY <2>2, <2>3, <2>4, <2>5, GoingOn, Unsent
<1>8. CASE OldPut(t)
  <2>1. /\ th[t].at = "oldHeld" /\ th'[t].at = "lower" /\ th'[t].slot = th[t].slot
        /\ th'[t].batch = th[t].batch /\ \A u \in Threads \ {t} : th'[u] = th[u]
    BY <1>8, <1>0 DEF OldPut, ReadCounts, Here, Fields
  <2>2. UNCHANGED <<slots, mon, told>>
    BY <1>8 DEF OldPut, ReadCounts
  <2>3. Alike(t) /\ Going(t)
    BY <2>1, <2>2 DEF Alike, Going, RoutePlaces, Inside
  <2>4. Work(th[t]) /\ th[t].slot \in Slots /\ th[t].old \in Channels
    BY <1>0, <2>1 DEF Work, Inside
  <2>5. spoiled \subseteq spoiled' /\ tangled \subseteq tangled'
    BY <1>8 DEF OldPut, ReadCounts, Begins, hist
  <2>6. CASE th[t].seen <= 1
    <3>1. SUFFICES ASSUME NEW x \in Items, x = th[t].old, NEW s \in Slots, s = th[t].slot,
                        NEW v \in Maybe \cup BOOLEAN, v = FALSE PROVE ToldInv'
      BY <2>4 DEF Items, Maybe, Work
    <3>2. Tell(s, x, v)
      BY <1>8, <2>6, <2>4, <3>1 DEF OldPut, ReadCounts
    <3>3. Current(x)' = v
      <4>1. enable' = [enable EXCEPT ![x] = FALSE]
        BY <1>8, <2>6, <3>1 DEF OldPut, ReadCounts
      <4> QED
        BY <2>4, <3>1, <4>1 DEF Current, TypeOK
    <3>4. \A y \in Items \ {x} : Current(y)' = Current(y)
      BY <1>8, <2>6, <2>4, <3>1, RoutesAssumption DEF OldPut, ReadCounts, Current, TypeOK, Items,
         chans, routes
    <3>5. \E u \in Threads : \A d \in Slots : WillSend(u, s, d)'
      BY <2>1, <2>3, <3>1, GoingOn DEF WillSend
    <3>6. level' = level
      BY <2>2 DEF slots
    <3>7. Sends /\ \A y \in Items : Ahead(y) => Ahead(y)'
      BY <2>3, GoingOn
    <3> QED
      BY <2>2, <2>4, <2>5, <3>2, <3>3, <3>4, <3>5, <3>6, <3>7, Written
  <2>7. CASE ~(th[t].seen <= 1)
    <3>1. UNCHANGED <<outbox, enable, chan, level, doubtful>>
      BY <1>8, <2>2, <2>7 DEF OldPut, ReadCounts, chans, routes, slots
    <3> QED
      BY <2>2, <2>3, <2>5, <3>1, GoingOn, Unsent
  <2> QED
    BY <2>6, <2>7
<1>9. CASE LeaveOld(t)
  <2>1. /\ th[t].at = "lower" /\ th'[t].at = "new" /\ th'[t].slot = th[t].slot
        /\ th'[t].batch = th[t].batch /\ \A u \in Threads \ {t} : th'[u] = th[u]
    BY <1>9, <1>0 DEF LeaveOld, Here, Fields
  <2>2. UNCHANGED <<slots, mon, told>>
    BY <1>9 DEF LeaveOld
  <2>3. Alike(t) /\ Going(t)
    BY <2>1, <2>2 DEF Alike, Going, RoutePlaces, Inside
  <2>4. UNCHANGED <<outbox, enable, chan, level, doubtful>>
    BY <1>9, <2>2 DEF LeaveOld, hist, lists, chans, routes, slots
  <2>5. spoiled \subseteq spoiled' /\ tangled \subseteq tangled'
    BY <1>9 DEF LeaveOld, hist, lists, chans, routes, slots, Begins
  <2> QED
    BY <2>2, <2>3, <2>4, <2>5, GoingOn, Unsent
<1>10. CASE NewPut(t)
  <2>1. /\ th[t].at = "newHeld" /\ th'[t].at = "point" /\ th'[t].slot = th[t].slot
        /\ th'[t].batch = th[t].batch /\ \A u \in Threads \ {t} : th'[u] = th[u]
    BY <1>10, <1>0 DEF NewPut, Here, Fields
  <2>2. UNCHANGED <<slots, mon, told>>
    BY <1>10 DEF NewPut
  <2>3. Alike(t) /\ Going(t)
    BY <2>1, <2>2 DEF Alike, Going, RoutePlaces, Inside
  <2>4. Work(th[t]) /\ th[t].slot \in Slots /\ th[t].to \in Channels
    BY <1>0, <2>1 DEF Work, Inside
  <2>5. spoiled \subseteq spoiled' /\ tangled \subseteq tangled'
    BY <1>10 DEF NewPut, Begins, hist
  <2>6. CASE ~enable[th[t].to]
    <3>1. SUFFICES ASSUME NEW x \in Items, x = th[t].to, NEW s \in Slots, s = th[t].slot,
                        NEW v \in Maybe \cup BOOLEAN, v = TRUE PROVE ToldInv'
      BY <2>4 DEF Items, Maybe, Work
    <3>2. Tell(s, x, v)
      BY <1>10, <2>6, <2>4, <3>1 DEF NewPut
    <3>3. Current(x)' = v
      BY <1>10, <2>6, <2>4, <3>1, RoutesAssumption DEF NewPut, Current, TypeOK, Items
    <3>4. \A y \in Items \ {x} : Current(y)' = Current(y)
      BY <1>10, <2>6, <2>4, <3>1, RoutesAssumption DEF NewPut, Current, TypeOK, Items, chans, routes
    <3>5. \E u \in Threads : \A d \in Slots : WillSend(u, s, d)'
      BY <2>1, <2>3, <3>1, GoingOn DEF WillSend
    <3>6. level' = level
      BY <2>2 DEF slots
    <3>7. Sends /\ \A y \in Items : Ahead(y) => Ahead(y)'
      BY <2>3, GoingOn
    <3> QED
      BY <2>2, <2>4, <2>5, <3>2, <3>3, <3>4, <3>5, <3>6, <3>7, Written
  <2>7. CASE ~(~enable[th[t].to])
    <3>1. UNCHANGED <<outbox, enable, chan, level, doubtful>>
      BY <1>10, <2>2, <2>7 DEF NewPut, chans, routes, slots
    <3> QED
      BY <2>2, <2>3, <2>5, <3>1, GoingOn, Unsent
  <2> QED
    BY <2>6, <2>7
<1>11. CASE PointRoute(t)
  <2>1. /\ th[t].at = "point" /\ th'[t].at = "raise" /\ th'[t].slot = th[t].slot
        /\ th'[t].batch = th[t].batch /\ \A u \in Threads \ {t} : th'[u] = th[u]
    BY <1>11, <1>0 DEF PointRoute, ReadCounts, route, Here, Fields
  <2>2. UNCHANGED <<slots, mon, told>>
    BY <1>11 DEF PointRoute, ReadCounts, route
  <2>3. Alike(t) /\ Going(t)
    BY <2>1, <2>2 DEF Alike, Going, RoutePlaces, Inside
  <2>4. Work(th[t]) /\ th[t].slot \in Slots /\ th[t].route \in Routes
    BY <1>0, <2>1 DEF Work, Inside
  <2>5. spoiled \subseteq spoiled' /\ tangled \subseteq tangled'
    BY <1>11 DEF PointRoute, ReadCounts, route, Begins, hist
  <2> QED
    <3>1. SUFFICES ASSUME NEW x \in Items, x = th[t].route, NEW s \in Slots, s = th[t].slot,
                        NEW v \in Maybe \cup BOOLEAN, v = th[t].to PROVE ToldInv'
      BY <2>4 DEF Items, Maybe, Work
    <3>2. Tell(s, x, v)
      BY <1>11, <2>4, <3>1 DEF PointRoute, ReadCounts, route
    <3>3. Current(x)' = v
      BY <1>11, <2>4, <3>1, RoutesAssumption DEF PointRoute, ReadCounts, route, Current, TypeOK,
         Items
    <3>4. \A y \in Items \ {x} : Current(y)' = Current(y)
      BY <1>11, <2>4, <3>1, RoutesAssumption DEF PointRoute, ReadCounts, route, Current, TypeOK,
         Items, chans, routes
    <3>5. \E u \in Threads : \A d \in Slots : WillSend(u, s, d)'
      BY <2>1, <2>3, <3>1, GoingOn DEF WillSend
    <3>6. level' = level
      BY <2>2 DEF slots
    <3>7. Sends /\ \A y \in Items : Ahead(y) => Ahead(y)'
      BY <2>3, GoingOn
    <3> QED
      BY <2>2, <2>4, <2>5, <3>2, <3>3, <3>4, <3>5, <3>6, <3>7, Written
<1>12. CASE SaveRoute(t)
  <2>1. /\ th[t].at = "raise" /\ th'[t].at = Caller(t) /\ th'[t].slot = th[t].slot
        /\ th'[t].batch = th[t].batch /\ \A u \in Threads \ {t} : th'[u] = th[u]
    BY <1>12, <1>0 DEF SaveRoute, Return, Caller, route, Here, Fields
  <2>2. UNCHANGED <<slots, mon, told>>
    BY <1>12 DEF SaveRoute, Return, Caller, route
  <2>3. Alike(t) /\ Going(t)
    BY <2>1, <2>2 DEF Alike, Going, RoutePlaces, Inside
  <2>4. UNCHANGED <<outbox, enable, chan, level, doubtful>>
    BY <1>12, <2>2 DEF SaveRoute, Return, Caller, route, hist, lists, chans, routes, slots
  <2>5. spoiled \subseteq spoiled' /\ tangled \subseteq tangled'
    BY <1>12 DEF SaveRoute, Return, Caller, route, hist, lists, chans, routes, slots, Begins
  <2> QED
    BY <2>2, <2>3, <2>4, <2>5, GoingOn, Unsent
<1>13. CASE UnpointRoute(t)
  <2>1. /\ th[t].at = "lower" /\ th'[t].at = Caller(t) /\ th'[t].slot = th[t].slot
        /\ th'[t].batch = th[t].batch /\ \A u \in Threads \ {t} : th'[u] = th[u]
    BY <1>13, <1>0 DEF UnpointRoute, Return, Caller, route, Here, Fields
  <2>2. UNCHANGED <<slots, mon, told>>
    BY <1>13 DEF UnpointRoute, Return, Caller, route
  <2>3. Alike(t) /\ Going(t)
    BY <2>1, <2>2 DEF Alike, Going, RoutePlaces, Inside
  <2>4. Work(th[t]) /\ th[t].slot \in Slots /\ th[t].route \in Routes
    BY <1>0, <2>1 DEF Work, Inside
  <2>5. spoiled \subseteq spoiled' /\ tangled \subseteq tangled'
    BY <1>13 DEF UnpointRoute, Return, Caller, route, Begins, hist
  <2> QED
    <3>1. SUFFICES ASSUME NEW x \in Items, x = th[t].route, NEW s \in Slots, s = th[t].slot,
                        NEW v \in Maybe \cup BOOLEAN, v = None PROVE ToldInv'
      BY <2>4 DEF Items, Maybe, Work
    <3>2. Tell(s, x, v)
      BY <1>13, <2>4, <3>1 DEF UnpointRoute, Return, Caller, route
    <3>3. Current(x)' = v
      BY <1>13, <2>4, <3>1, RoutesAssumption DEF UnpointRoute, Return, Caller, route, Current,
         TypeOK, Items
    <3>4. \A y \in Items \ {x} : Current(y)' = Current(y)
      BY <1>13, <2>4, <3>1, RoutesAssumption DEF UnpointRoute, Return, Caller, route, Current,
         TypeOK, Items, chans, routes
    <3>5. \E u \in Threads : \A d \in Slots : WillSend(u, s, d)'
      BY <2>1, <2>3, <3>1, GoingOn DEF WillSend
    <3>6. level' = level
      BY <2>2 DEF slots
    <3>7. Sends /\ \A y \in Items : Ahead(y) => Ahead(y)'
      BY <2>3, GoingOn
    <3> QED
      BY <2>2, <2>4, <2>5, <3>2, <3>3, <3>4, <3>5, <3>6, <3>7, Written
<1> QED
  BY <1>1, <1>2, <1>3, <1>4, <1>5, <1>6, <1>7, <1>8, <1>9, <1>10, <1>11, <1>12, <1>13 DEF RouteStep

\* The steps of send_transceiver_params.
LEMMA ToldTake ==
  ASSUME Typed, TypeOK, ToldInv, NEW t \in Threads, TakeBatch(t)
  PROVE  ToldInv'
<1>0. DOMAIN th = Threads /\ Work(th[t]) /\ DOMAIN th[t] = Fields
  BY DEF Typed, Works, Work
<1>1. SUFFICES ASSUME NEW s \in Slots, s = th[t].slot PROVE ToldInv'
  BY <1>0 DEF TakeBatch, Here, Work
<1>2. th[t].at = "send" /\ Full(t) # {} /\ th[t].left \subseteq Slots /\ th[t].batch = <<>>
  BY DEF TakeBatch, Here, ToldInv, Mail
<1>3. Full(t) = {e \in th[t].left : outbox[s][e] # <<>>}
  BY <1>1 DEF Full
<1>4. \E x \in Full(t) : \A y \in Full(t) : x <= y
  BY <1>2, <1>3, Least, RoutesAssumption
<1>5. PICK d \in Full(t) : d = (CHOOSE x \in Full(t) : \A y \in Full(t) : x <= y) /\ \A y \in Full(t) : d <= y
  BY <1>4
<1> DEFINE b == outbox[s][d]
<1>6. /\ outbox' = [outbox EXCEPT ![s][d] = <<>>]
      /\ th' = [th EXCEPT ![t] = [th[t] EXCEPT !.left = {x \in th[t].left : x > d}, !.batch = b, !.at = "post"]]
      /\ UNCHANGED <<chan, enable, slots, told, mon, hist>>
  BY <1>1, <1>5 DEF TakeBatch, chans, routes
<1>7. d \in Slots /\ b # <<>> /\ b \in Seq(Letter) /\ Mailed(b, d)
  BY <1>2, <1>3, <1>5 DEF ToldInv, Mail
<1>8. outbox \in [Slots -> [Slots -> Seq(Letter)]] /\ <<>> \in Seq(Letter)
  BY EmptySeq DEF ToldInv, Mail
<1> HIDE DEF b
<1>9. /\ outbox' \in [Slots -> [Slots -> Seq(Letter)]] /\ outbox'[s][d] = <<>>
      /\ \A o, e \in Slots : o # s \/ e # d => outbox'[o][e] = outbox[o][e]
  BY <1>6, <1>7, <1>8
<1>10. /\ th'[t].batch = b /\ th'[t].at = "post" /\ th'[t].left = {x \in th[t].left : x > d}
       /\ th'[t].slot = th[t].slot /\ \A u \in Threads \ {t} : th'[u] = th[u]
  BY <1>0, <1>6 DEF Fields
<1>11. (\A x : Says(<<>>, x) = {}) /\ \A e : Mailed(<<>>, e)
  BY DEF Says, Mailed
<1>12. Mail'
  <2>1. \A o, e \in Slots : Mailed(outbox'[o][e], e)
    BY <1>9, <1>11 DEF ToldInv, Mail
  <2>2. SlotOf[b[1].item] = d
    <3>1. Len(b) \in Nat /\ Len(b) # 0 /\ DOMAIN b = 1..Len(b)
      BY <1>7, LenProperties, EmptySeq
    <3>2. 1 \in DOMAIN b
      BY <3>1
    <3> QED
      BY <1>7, <3>2 DEF Mailed
  <2>3. /\ th'[t].batch \in Seq(Letter) /\ th'[t].batch # <<>> /\ Mailed(th'[t].batch, To(t)')
        /\ th'[t].left \subseteq Slots
    BY <1>2, <1>7, <1>10, <2>2 DEF To
  <2>4. \A u \in Threads \ {t} : To(u)' = To(u)
    BY <1>10 DEF To
  <2> QED
    BY <1>9, <1>10, <2>1, <2>3, <2>4 DEF ToldInv, Mail
<1>13. Senders'
  <2> SUFFICES ASSUME NEW o \in Slots, NEW e \in Slots, outbox'[o][e] # <<>>
               PROVE  \E u \in Threads : WillSend(u, o, e)'
    BY DEF Senders
  <2>1. (o # s \/ e # d) /\ outbox[o][e] # <<>>
    BY <1>9
  <2>2. PICK u \in Threads : WillSend(u, o, e)
    BY <2>1 DEF ToldInv, Senders
  <2>3. CASE u = t
    <3>1. o = s /\ e \in th[t].left
      BY <1>1, <1>2, <2>2, <2>3 DEF WillSend
    <3>2. e \in Full(t) /\ e # d
      BY <1>3, <2>1, <3>1
    <3>3. e \in Nat /\ d \in Nat /\ d <= e
      BY <1>5, <1>7, <3>2, RoutesAssumption
    <3>4. e > d
      BY <3>2, <3>3
    <3> QED
      BY <1>1, <1>10, <3>1, <3>4 DEF WillSend
  <2>4. CASE u # t
    BY <1>10, <2>2, <2>4 DEF WillSend
  <2> QED
    BY <2>3, <2>4
<1>14. Down'
  BY <1>6 DEF ToldInv, Down, Default, slots
<1>15. \A x \in Items : SlotOf[x] \in Slots
  BY RoutesAssumption
<1>16. \A x \in Items : /\ Quiet(x)' <=> Quiet(x)
                        /\ Current(x)' = Current(x) /\ told'[x] = told[x]
  BY <1>6 DEF Quiet, Current, hist
<1>17. \A x \in Items : Ahead(x) => Ahead(x)'
  <2>1. \A u \in Tasks, x \in Items : Serves(th[u], x) => Serves(th'[u], x)
    BY <1>2, <1>10 DEF Serves, RoutePlaces, Inside, Threads
  <2> QED
    BY <1>6, <2>1 DEF Ahead, slots
<1>18. \A u \in Threads \ {t}, x \in Items : Carries(u, x)' <=> Carries(u, x)
  BY <1>10 DEF Carries
<1>19. ASSUME NEW x \in Items
       PROVE  /\ \A o \in Slots : (Holds(o, x)' <=> Holds(o, x) /\ ~(o = s /\ SlotOf[x] = d))
              /\ \A o \in Slots : Holds(o, x)' => outbox'[o][SlotOf[x]] = outbox[o][SlotOf[x]]
              /\ ~Carries(t, x) /\ (Carries(t, x)' <=> SlotOf[x] = d /\ Holds(s, x))
  <2>1. \A o \in Slots : o = s /\ SlotOf[x] = d => ~Holds(o, x)'
    BY <1>9, <1>11 DEF Holds
  <2>2. \A o \in Slots : ~(o = s /\ SlotOf[x] = d) => outbox'[o][SlotOf[x]] = outbox[o][SlotOf[x]]
    BY <1>9, <1>15
  <2>3. ~Carries(t, x)
    BY <1>2, <1>11 DEF Carries
  <2>4. SlotOf[x] # d => Says(b, x) = {}
    BY <1>7 DEF Mailed, Says
  <2>5. Carries(t, x)' <=> SlotOf[x] = d /\ Holds(s, x)
    BY <1>10, <2>4 DEF Carries, Holds, b
  <2> QED
    BY <2>1, <2>2, <2>3, <2>5 DEF Holds
<1>20. Sure'
  <2> SUFFICES ASSUME NEW x \in Items, ~Quiet(x)'
               PROVE  /\ \A o \in Slots : Holds(o, x)' =>
                           /\ LastWord(outbox'[o][SlotOf[x]], x) = Current(x)'
                           /\ \A p \in Slots : Holds(p, x)' => p = o
                      /\ \A u \in Threads : Carries(u, x)' =>
                           /\ LastWord(th'[u].batch, x) = Current(x)'
                           /\ (\A o \in Slots : ~Holds(o, x)') /\ \A w \in Threads : Carries(w, x)' => w = u
    BY DEF Sure
  <2>1. /\ \A o \in Slots : Holds(o, x) =>
              /\ LastWord(outbox[o][SlotOf[x]], x) = Current(x)
              /\ \A p \in Slots : Holds(p, x) => p = o
        /\ \A u \in Threads : Carries(u, x) =>
              /\ LastWord(th[u].batch, x) = Current(x)
              /\ (\A o \in Slots : ~Holds(o, x)) /\ \A w \in Threads : Carries(w, x) => w = u
    BY <1>16 DEF ToldInv, Sure
  <2>2. \A o \in Slots : Holds(o, x)' =>
           /\ LastWord(outbox'[o][SlotOf[x]], x) = Current(x)'
           /\ \A p \in Slots : Holds(p, x)' => p = o
    BY <1>16, <1>19, <2>1
  <2>3. Carries(t, x)' => /\ LastWord(th'[t].batch, x) = Current(x)'
                          /\ (\A o \in Slots : ~Holds(o, x)') /\ \A w \in Threads : Carries(w, x)' => w = t
    BY <1>10, <1>16, <1>18, <1>19, <2>1 DEF b
  <2>4. ASSUME NEW u \in Threads \ {t}, Carries(u, x)'
        PROVE  /\ LastWord(th'[u].batch, x) = Current(x)'
               /\ (\A o \in Slots : ~Holds(o, x)') /\ \A w \in Threads : Carries(w, x)' => w = u
    BY <1>10, <1>16, <1>18, <1>19, <2>1, <2>4
  <2> QED
    BY <2>2, <2>3, <2>4
<1>21. Known'
  <2> SUFFICES ASSUME mon'.at # "dead", NEW x \in Items, ~Quiet(x)', \A o \in Slots : ~Holds(o, x)',
                      \A u \in Threads : ~Carries(u, x)', told'[x] # Current(x)'
               PROVE  told'[x] = Default(x)' /\ Ahead(x)'
    BY DEF Known
  <2>1. told[x] = Default(x) /\ Ahead(x)
    BY <1>6, <1>16, <1>18, <1>19 DEF ToldInv, Known
  <2> QED
    BY <1>16, <1>17, <2>1 DEF Default
<1> QED
  BY <1>12, <1>13, <1>14, <1>20, <1>21 DEF ToldInv

\* Thread t has sent its batch, or failed to.
LEMMA Away ==
  ASSUME Typed, TypeOK, ToldInv, NEW t \in Threads, Here(t, "post"), Sent(t),
         UNCHANGED <<chan, enable, slots, mon, outbox, spoiled, tangled>>,
                doubtful \subseteq doubtful',
         \A x \in Items : IF Carries(t, x)
           THEN \/ Quiet(x)'
                \/ told'[x] = LastWord(th[t].batch, x) /\ level[SlotOf[x]] # "down"
                \/ told'[x] = told[x] /\ level[SlotOf[x]] = "down"
           ELSE told'[x] = told[x],
         \A x \in Items : told'[x] = told[x] \/ level[SlotOf[x]] # "down"
  PROVE  ToldInv'
<1>0. DOMAIN th = Threads /\ Work(th[t]) /\ DOMAIN th[t] = Fields
  BY DEF Typed, Works, Work
<1>1. /\ th[t].at = "post" /\ th'[t].at = "send" /\ th'[t].batch = <<>> /\ th'[t].left = th[t].left
      /\ th'[t].slot = th[t].slot /\ \A u \in Threads \ {t} : th'[u] = th[u]
  BY <1>0 DEF Here, Sent, Fields
<1>2. \A x : Says(<<>>, x) = {}
  BY DEF Says
<1>3. /\ \A o \in Slots, x \in Items : Holds(o, x)' <=> Holds(o, x)
      /\ \A u \in Threads \ {t}, x \in Items : Carries(u, x)' <=> Carries(u, x)
      /\ \A x \in Items : ~Carries(t, x)' /\ Current(x)' = Current(x) /\ (Quiet(x) => Quiet(x)')
  BY <1>1, <1>2 DEF Holds, Carries, Current, Quiet
<1>4. Mail'
  <2>1. \A u \in Threads \ {t} : To(u)' = To(u)
    BY <1>1 DEF To
  <2>2. <<>> \in Seq(Letter)
    BY EmptySeq
  <2> QED
    BY <1>1, <2>1, <2>2 DEF ToldInv, Mail
<1>5. Senders'
  <2>1. \A u \in Threads, o, d \in Slots : WillSend(u, o, d) => WillSend(u, o, d)'
    BY <1>1 DEF WillSend
  <2> QED
    BY <2>1 DEF ToldInv, Senders
<1>6. Down'
  BY DEF ToldInv, Down, Default, slots
<1>7. \A x \in Items : Ahead(x) => Ahead(x)'
  <2>1. \A u \in Tasks, x \in Items : Serves(th[u], x) => Serves(th'[u], x)
    BY <1>1 DEF Serves, RoutePlaces, Inside, Threads
  <2> QED
    BY <2>1 DEF Ahead, slots
<1>8. Sure'
  BY <1>1, <1>3 DEF ToldInv, Sure
<1>9. Known'
  <2> SUFFICES ASSUME mon'.at # "dead", NEW x \in Items, ~Quiet(x)', \A o \in Slots : ~Holds(o, x)',
                      \A u \in Threads : ~Carries(u, x)', told'[x] # Current(x)'
               PROVE  told'[x] = Default(x)' /\ Ahead(x)'
    BY DEF Known
  <2>1. CASE Carries(t, x)
    <3>1. LastWord(th[t].batch, x) = Current(x)
      BY <1>3, <2>1 DEF ToldInv, Sure
    <3>2. told'[x] = told[x] /\ level[SlotOf[x]] = "down"
      BY <1>3, <2>1, <3>1
    <3> QED
      BY <3>2 DEF ToldInv, Down, Default, Ahead, slots
  <2>2. CASE ~Carries(t, x)
    <3>1. told[x] = Default(x) /\ Ahead(x) /\ told'[x] = told[x]
      BY <1>3, <2>2 DEF ToldInv, Known
    <3> QED
      BY <1>7, <3>1 DEF Default
  <2> QED
    BY <2>1, <2>2
<1> QED
  BY <1>4, <1>5, <1>6, <1>8, <1>9 DEF ToldInv

\* A thread has sent all lists of its slot.
LEMMA NoneLeft ==
  ASSUME ToldInv, NEW t \in Threads, Here(t, "send"), Full(t) = {}, th'[t].at \notin {"send",
         "post"}, Alike(t)
  PROVE  Sends
<1>1. \A o, d \in Slots : WillSend(t, o, d) => outbox[o][d] = <<>>
  BY DEF Here, Full, WillSend
<1> QED
  BY <1>1, AlikeSends DEF Here

LEMMA ToldSend ==
  ASSUME Typed, TypeOK, ToldInv, NEW t \in Threads, SendStep(t)
  PROVE  ToldInv'
<1>0. DOMAIN th = Threads /\ Work(th[t]) /\ DOMAIN th[t] = Fields
  BY DEF Typed, Works, Work
<1>1. CASE TakeBatch(t)
  BY <1>1, ToldTake
<1>2. ASSUME Here(t, "post")
      PROVE  \A x \in Items : Carries(t, x) => SlotOf[x] = To(t)
  BY <1>2 DEF ToldInv, Mail, Mailed, Carries, Says, Here
<1>3. CASE PostBatch(t)
  <2>1. \A x \in Items : told'[x] = IF Carries(t, x) THEN LastWord(th[t].batch, x) ELSE told[x]
    BY <1>3 DEF PostBatch, Carries
  <2>2. Here(t, "post") /\ level[To(t)] # "down" /\ Sent(t) /\ UNCHANGED <<chan, enable, slots, mon, outbox, hist>>
    BY <1>3 DEF PostBatch, chans, routes, lists
  <2> QED
    BY <1>2, <2>1, <2>2, Away DEF hist
<1>4. CASE LoseBatch(t)
  <2>1. Here(t, "post") /\ Sent(t) /\ UNCHANGED <<chan, enable, slots, mon, outbox, told, spoiled, tangled>>
    BY <1>4 DEF LoseBatch, chans, routes, lists
  <2>2. doubtful' = IF level[To(t)] # "down" THEN doubtful \cup {x \in Items : Carries(t, x)} ELSE doubtful
    BY <1>4 DEF LoseBatch, Carries
  <2> QED
    BY <1>2, <2>1, <2>2, Away DEF Quiet
<1>5. CASE AllSent(t)
  <2>1. /\ th[t].at = "send" /\ Full(t) = {} /\ t \in Webs /\ th'[t].at \in {"idle", "queue"}
        /\ th'[t].batch = <<>> /\ th[t].batch = <<>> /\ \A u \in Threads \ {t} : th'[u] = th[u]
    BY <1>0, <1>5 DEF AllSent, Here, Idle, Fields, ToldInv, Mail
  <2>2. UNCHANGED <<chan, enable, slots, mon, outbox, told, hist>>
    BY <1>5 DEF AllSent, chans, routes, lists
  <2>3. Alike(t)
    BY <2>1, <2>2 DEF Alike
  <2>4. Sends
    BY <2>1, <2>3, NoneLeft DEF Here
  <2>5. \A x \in Items : Ahead(x) => Ahead(x)'
    BY <2>1, <2>3, AlikeAhead DEF Serves, RoutePlaces, Inside
  <2> QED
    BY <2>2, <2>4, <2>5, Unsent DEF hist, slots
<1> QED
  BY <1>1, <1>3, <1>4, <1>5 DEF SendStep

\* The other steps for an operator.
LEMMA ToldWeb ==
  ASSUME Typed, TypeOK, ToldInv, NEW t \in Webs, WebStep(t), ~RouteStep(t), ~SendStep(t)
  PROVE  ToldInv'
<1>0. /\ t \in Threads /\ DOMAIN th = Threads /\ Work(th[t]) /\ DOMAIN th[t] = Fields
      /\ th[t].at # "post" => th[t].batch = <<>>
  BY DEF Typed, Works, Work, Threads, ToldInv, Mail
<1>1. ASSUME Alike(t), th[t].at # "post", th'[t].at # "post",
             th'[t].at = "send" => th'[t].left = Slots,
             th[t].at = "queue" \/ (th'[t].at \notin {"idle", "dead", "queue"} /\ th'[t].slot = th[t].slot /\ th[t].at # "send")
      PROVE  Sends /\ \A x \in Items : Ahead(x) => Ahead(x)'
  <2>1. \A o, d \in Slots : WillSend(t, o, d) => WillSend(t, o, d)'
    BY <1>1 DEF WillSend
  <2>2. Sends
    BY <1>0, <1>1, <2>1, AlikeSends
  <2>3. t \notin Tasks
    BY RoutesAssumption
  <2> QED
    BY <1>0, <1>1, <2>2, <2>3, AlikeAhead
<1>2. CASE Refuse(t)
  <2>1. /\ th[t].at = "queue" /\ th'[t].at = "idle" /\ th'[t].batch = th[t].batch
        /\ \A u \in Threads \ {t} : th'[u] = th[u]
    BY <1>0, <1>2 DEF Refuse, Here, Idle
  <2>2. UNCHANGED <<chan, enable, slots, mon, outbox, told, hist>>
    BY <1>2 DEF Refuse, chans, routes, lists
  <2>3. Sends /\ \A x \in Items : Ahead(x) => Ahead(x)'
    BY <1>1, <2>1, <2>2 DEF Alike
  <2> QED
    BY <2>2, <2>3, Unsent DEF hist, slots
<1>3. CASE config_transceiver(t)
  <2>1. /\ th[t].at = "queue" /\ th'[t].at = "next" /\ th'[t].batch = th[t].batch
        /\ \A u \in Threads \ {t} : th'[u] = th[u]
    BY <1>0, <1>3 DEF config_transceiver, Here, Goto, Fields
  <2>2. UNCHANGED <<chan, enable, slots, mon, outbox, told, hist>>
    BY <1>3 DEF config_transceiver, chans, routes, lists
  <2>3. Sends /\ \A x \in Items : Ahead(x) => Ahead(x)'
    BY <1>1, <2>1, <2>2 DEF Alike
  <2> QED
    BY <2>2, <2>3, Unsent DEF hist, slots
<1>4. CASE clean_slot_transceiver_params(t)
  <2>1. /\ th[t].at = "queue" /\ th'[t].at = "idle" /\ th'[t].batch = th[t].batch
        /\ \A u \in Threads \ {t} : th'[u] = th[u]
    BY <1>0, <1>4 DEF clean_slot_transceiver_params, Here, Idle
  <2>2. UNCHANGED <<chan, enable, slots, mon, outbox, spoiled, tangled>>
    BY <1>4 DEF clean_slot_transceiver_params, chans, routes, lists
  <2>3. /\ told' = [x \in Items |-> IF x \in Of(th[t].slot, Routes) THEN None ELSE told[x]]
        /\ doubtful' = doubtful \cup Of(th[t].slot, Routes)
    BY <1>4 DEF clean_slot_transceiver_params
  <2>4. Sends /\ \A x \in Items : Ahead(x) => Ahead(x)'
    BY <1>1, <2>1, <2>2 DEF Alike
  <2>5. \A x \in Items : told'[x] = told[x] \/ (told'[x] = Default(x) /\ x \in doubtful')
    BY <2>3, RoutesAssumption DEF Of, Default
  <2>6. \A x \in Items : Still(x)
    BY <2>2, <2>3, <2>4, <2>5 DEF Still, Current, Quiet, slots
  <2> QED
    BY <2>2, <2>4, <2>6, Kept
<1>5. CASE Dequeue(t)
  <2>1. /\ th[t].at = "next" /\ th'[t].at \in {"next", "route"} /\ th'[t].batch = th[t].batch
        /\ th'[t].slot = th[t].slot /\ \A u \in Threads \ {t} : th'[u] = th[u]
    BY <1>0, <1>5 DEF Dequeue, Begin, Here, Fields
  <2>2. UNCHANGED <<chan, enable, slots, mon, outbox, told, hist>>
    BY <1>5 DEF Dequeue, chans, routes, lists
  <2>3. Sends /\ \A x \in Items : Ahead(x) => Ahead(x)'
    BY <1>1, <2>1, <2>2 DEF Alike
  <2> QED
    BY <2>2, <2>3, Unsent DEF hist, slots
<1>6. CASE Dequeued(t)
  <2>1. /\ th[t].at = "next" /\ th'[t].at = "send" /\ th'[t].left = Slots /\ th'[t].batch = th[t].batch
        /\ th'[t].slot = th[t].slot /\ \A u \in Threads \ {t} : th'[u] = th[u]
    BY <1>0, <1>6 DEF Dequeued, SendFrom, Here, Fields
  <2>2. UNCHANGED <<chan, enable, slots, mon, outbox, told, hist>>
    BY <1>6 DEF Dequeued, chans, routes, lists
  <2>3. Sends /\ \A x \in Items : Ahead(x) => Ahead(x)'
    BY <1>1, <2>1, <2>2 DEF Alike
  <2> QED
    BY <2>2, <2>3, Unsent DEF hist, slots
<1>7. CASE \E r \in Routes : EmptyNext(t, r)
  <2> PICK r \in Routes : EmptyNext(t, r)
    BY <1>7
  <2>1. /\ th[t].at = "empty" /\ th'[t].at \in {"empty", "route"} /\ th'[t].batch = th[t].batch
        /\ th'[t].slot = th[t].slot /\ \A u \in Threads \ {t} : th'[u] = th[u]
    BY <1>0 DEF EmptyNext, Here, Fields
  <2>2. UNCHANGED <<chan, enable, slots, mon, outbox, told, hist>>
    BY DEF EmptyNext, chans, routes, lists
  <2>3. Sends /\ \A x \in Items : Ahead(x) => Ahead(x)'
    BY <1>1, <2>1, <2>2 DEF Alike
  <2> QED
    BY <2>2, <2>3, Unsent DEF hist, slots
<1>8. CASE Emptied(t)
  <2>1. /\ th[t].at = "empty" /\ th'[t].at = "send" /\ th'[t].left = Slots /\ th'[t].batch = th[t].batch
        /\ th'[t].slot = th[t].slot /\ \A u \in Threads \ {t} : th'[u] = th[u]
    BY <1>0, <1>8 DEF Emptied, SendFrom, Here, Fields
  <2>2. UNCHANGED <<chan, enable, slots, mon, outbox, told, hist>>
    BY <1>8 DEF Emptied, chans, routes, lists
  <2>3. Sends /\ \A x \in Items : Ahead(x) => Ahead(x)'
    BY <1>1, <2>1, <2>2 DEF Alike
  <2> QED
    BY <2>2, <2>3, Unsent DEF hist, slots
<1> QED
  BY <1>2, <1>3, <1>4, <1>5, <1>6, <1>7, <1>8 DEF WebStep

LEMMA ToldOperator ==
  ASSUME Typed, TypeOK, ToldInv, NEW t \in Webs, Operator(t)
  PROVE  ToldInv'
<1>0. /\ t \in Threads /\ DOMAIN th = Threads /\ t \notin Tasks
      /\ th[t].at # "post" => th[t].batch = <<>>
  BY RoutesAssumption DEF Typed, Works, Threads, ToldInv, Mail
<1>1. ASSUME NEW s \in Slots, NEW clean \in BOOLEAN, Submit(t, s, clean) PROVE ToldInv'
  <2>1. /\ th[t].at = "idle" /\ th'[t].at \in {"empty", "queue"} /\ th'[t].batch = th[t].batch
        /\ \A u \in Threads \ {t} : th'[u] = th[u]
    BY <1>0, <1>1 DEF Submit, Here, Idle
  <2>2. UNCHANGED <<chan, enable, slots, mon, outbox, told, hist>>
    BY <1>1 DEF Submit, chans, routes, lists
  <2>3. Alike(t) /\ \A o, d \in Slots : ~WillSend(t, o, d)
    BY <2>1, <2>2 DEF Alike, WillSend
  <2>4. Sends /\ \A x \in Items : Ahead(x) => Ahead(x)'
    BY <1>0, <2>1, <2>3, AlikeSends, AlikeAhead
  <2> QED
    BY <2>2, <2>4, Unsent DEF hist, slots
<1>2. ASSUME NEW r \in Routes, NEW c \in Maybe, Ask(t, r, c) PROVE ToldInv'
  <2>1. UNCHANGED <<chan, enable, slots, mon, outbox, told, th, hist>>
    BY <1>2 DEF Ask, chans, routes, lists
  <2>2. Alike(t) /\ (th'[t].at \in {"send", "post"} => th'[t].left \subseteq Slots)
    BY <1>0, <2>1 DEF Alike, ToldInv, Mail
  <2>3. \A o, d \in Slots : WillSend(t, o, d) => WillSend(t, o, d)'
    BY <2>1 DEF WillSend
  <2>4. Sends /\ \A x \in Items : Ahead(x) => Ahead(x)'
    BY <1>0, <2>1, <2>2, <2>3, AlikeSends, AlikeAhead
  <2> QED
    BY <2>1, <2>4, Unsent DEF hist, slots
<1> QED
  BY <1>1, <1>2 DEF Operator, Maybe

\* The steps of sync_transceiver_route_tables.
LEMMA ToldStart ==
  ASSUME Typed, TypeOK, ToldInv, NEW t \in Tasks, NEW s \in Slots, StartSync(t, s)
  PROVE  ToldInv'
<1>1. /\ t \in Threads /\ DOMAIN th = Threads /\ th[t].at = "idle" /\ sync[s] > 0 /\ th[t].batch = <<>>
      /\ UNCHANGED <<chan, enable, flag, level, mon, outbox, told, hist>>
  BY DEF StartSync, Here, Threads, Typed, Works, lists, chans, routes, ToldInv, Mail
<1>2. /\ th'[t].at \in {"rewrite", "rows", "channels"} /\ th'[t].slot = s /\ th'[t].batch = <<>>
      /\ th'[t].left = Of(s, Routes) /\ (flag[s] # 1 => th'[t].at = "rewrite")
      /\ \A u \in Threads \ {t} : th'[u] = th[u]
  BY <1>1 DEF StartSync, Idle
<1>3. \A d \in Slots \ {s} : sync'[d] = sync[d]
  BY DEF StartSync, TypeOK
<1>4. \A u \in Threads, o, d \in Slots : WillSend(u, o, d) => WillSend(u, o, d)'
  BY <1>1, <1>2 DEF WillSend
<1>5. Sends
  BY <1>1, <1>2, <1>4 DEF Sends, ToldInv, Mail
<1>6. ASSUME NEW x \in Items, Ahead(x) PROVE Ahead(x)'
  <2>1. \A u \in Tasks : Serves(th[u], x) => Serves(th'[u], x)
    BY <1>1, <1>2 DEF Serves, RoutePlaces, Inside, Threads
  <2>2. SlotOf[x] \in Slots
    BY RoutesAssumption
  <2>3. CASE SlotOf[x] = s
    <3>1. x \in Channels \/ flag[s] # 1 => Serves(th'[t], x)
      BY <1>2, <2>3 DEF Serves, Of, Items
    <3> QED
      BY <1>1, <1>6, <2>1, <2>3, <3>1 DEF Ahead
  <2>4. CASE SlotOf[x] # s
    BY <1>1, <1>3, <1>6, <2>1, <2>2, <2>4 DEF Ahead
  <2> QED
    BY <2>3, <2>4
<1> QED
  BY <1>1, <1>5, <1>6, Unsent DEF hist

LEMMA ToldRetell ==
  ASSUME Typed, TypeOK, ToldInv, NEW t \in Tasks, RetellChannels(t)
  PROVE  ToldInv'
<1>1. SUFFICES ASSUME NEW s \in Slots, s = th[t].slot PROVE ToldInv'
  BY DEF RetellChannels, RoutesDone, Here, Typed, Works, Work, Threads
<1>20. outbox[s][s] \in Seq(Letter) /\ Mailed(outbox[s][s], s)
  BY DEF ToldInv, Mail
<1>21. SUFFICES ASSUME NEW on \in SUBSET Channels, on = {c \in Of(s, Channels) : enable[c]},
                      NEW b \in Seq(Letter), b = outbox[s][s],
                      NEW a, a = With(b, on)
               PROVE  ToldInv'
  BY <1>20 DEF Of
<1>2. /\ RoutesDone(t) /\ SendFrom(t, "idle")
      /\ outbox' = [outbox EXCEPT ![s][s] = a]
      /\ doubtful' = {x \in on : OnTheWay(s, x)} \cup (doubtful \ on)
      /\ UNCHANGED <<chan, enable, flag, sync, level, mon, told, spoiled, tangled>>
  BY <1>1, <1>21 DEF RetellChannels, With, chans, routes, slots
<1>3. \A c \in on : SlotOf[c] = s /\ enable[c]
  BY <1>21 DEF Of
<1>4. outbox \in [Slots -> [Slots -> Seq(Letter)]]
  BY DEF ToldInv, Mail
<1>5. /\ a \in Seq(Letter) /\ Mailed(a, s)
      /\ \A c \in on : Says(a, c) # {} /\ LastWord(a, c) = TRUE
      /\ \A y \in Items \ on : /\ Says(a, y) = Says(outbox[s][s], y)
                               /\ Says(outbox[s][s], y) # {} => LastWord(a, y) = LastWord(outbox[s][s], y)
  <2>1. Mailed(b, s)
    BY <1>20, <1>21
  <2>2. \A c \in on : SlotOf[c] = s
    BY <1>3
  <2>3. a = With(b, on)
    BY <1>21
  <2>4. /\ With(b, on) \in Seq(Letter) /\ (b # <<>> => With(b, on) # <<>>) /\ Mailed(With(b, on), s)
        /\ \A c \in on : Says(With(b, on), c) # {} /\ LastWord(With(b, on), c) = TRUE
        /\ \A y \in Items \ on :
             /\ Says(With(b, on), y) = Says(b, y)
             /\ Says(b, y) # {} => LastWord(With(b, on), y) = LastWord(b, y)
    BY <2>1, <2>2, SaidAll
  <2> QED
    BY <1>21, <2>3, <2>4
<1>6. /\ outbox' \in [Slots -> [Slots -> Seq(Letter)]] /\ outbox'[s][s] = a
      /\ \A o, e \in Slots : o # s \/ e # s => outbox'[o][e] = outbox[o][e]
  BY <1>2, <1>4, <1>5
<1>7. /\ t \in Threads /\ th[t].at \in {"rows", "rewrite", "channels"} /\ th[t].batch = <<>>
      /\ th[t].at = "rewrite" => \A r \in th[t].left : chan[r] = None
      /\ th'[t].at = "send" /\ th'[t].slot = s /\ th'[t].left = Slots /\ th'[t].batch = th[t].batch
      /\ \A u \in Threads \ {t} : th'[u] = th[u]
  <2>1. t \in Threads /\ DOMAIN th = Threads /\ DOMAIN th[t] = Fields
    BY DEF Typed, Works, Work, Threads
  <2>2. /\ th[t].at \in {"rows", "rewrite", "channels"}
        /\ th[t].at = "rewrite" => \A r \in th[t].left : chan[r] = None
    BY <1>2 DEF RoutesDone, Here
  <2>3. th[t].batch = <<>>
    BY <2>1, <2>2 DEF ToldInv, Mail
  <2> QED
    BY <1>1, <1>2, <2>1, <2>2, <2>3 DEF SendFrom, Fields
<1>8. \A d \in Slots : WillSend(t, s, d)'
  BY <1>7 DEF WillSend
<1>9. Sends
  <2>1. \A u \in Threads, o, d \in Slots : WillSend(u, o, d) => WillSend(u, o, d)'
    BY <1>1, <1>7, <1>8 DEF WillSend
  <2> QED
    BY <1>2, <1>7, <2>1 DEF Sends, ToldInv, Mail
<1>10. \A y \in Items : SlotOf[y] \in Slots
  BY RoutesAssumption
<1>11. ASSUME NEW y \in Items \ on, NEW o \in Slots
       PROVE  /\ Holds(o, y)' <=> Holds(o, y)
              /\ Holds(o, y) => LastWord(outbox'[o][SlotOf[y]], y) = LastWord(outbox[o][SlotOf[y]], y)
  BY <1>5, <1>6, <1>10 DEF Holds
<1>12. ASSUME NEW c \in on
       PROVE  /\ Holds(s, c)' /\ LastWord(outbox'[s][SlotOf[c]], c) = TRUE
              /\ \A o \in Slots \ {s} : Holds(o, c)' <=> Holds(o, c)
              /\ Current(c) = TRUE
  <2>1. c \in Channels /\ SlotOf[c] = s /\ enable[c] \in BOOLEAN /\ enable[c]
    BY <1>3 DEF TypeOK
  <2>2. Current(c) = TRUE
    BY <2>1 DEF Current
  <2> QED
    BY <1>5, <1>6, <2>1, <2>2 DEF Holds
<1>13. \A u \in Threads, y \in Items : /\ Carries(u, y)' <=> Carries(u, y)
                                       /\ Current(y)' = Current(y)
  BY <1>2, <1>9 DEF Sends, Carries, Current
<1>14. /\ \A y \in Items \ on : Quiet(y) <=> Quiet(y)'
       /\ \A c \in on : ~Quiet(c)' => /\ \A o \in Slots \ {s} : ~Holds(o, c)
                                      /\ \A u \in Threads : ~Carries(u, c)
  <2>1. \A c \in on : ~OnTheWay(s, c) => (\A o \in Slots \ {s} : ~Holds(o, c)) /\ \A u \in Threads : ~Carries(u, c)
    BY DEF OnTheWay, Holds, Carries, Says
  <2>2. \A c \in on : c \in doubtful' \/ ~OnTheWay(s, c)
    BY <1>2
  <2> QED
    BY <1>2, <2>1, <2>2 DEF Quiet
<1>15. Mail'
  <2>1. \A o, e \in Slots : Mailed(outbox'[o][e], e)
    BY <1>5, <1>6 DEF ToldInv, Mail
  <2> QED
    BY <1>6, <1>9, <2>1 DEF ToldInv, Mail, Sends, To
<1>16. Senders'
  <2> SUFFICES ASSUME NEW o \in Slots, NEW e \in Slots, outbox'[o][e] # <<>>
               PROVE  \E u \in Threads : WillSend(u, o, e)'
    BY DEF Senders
  <2>1. CASE o = s
    BY <1>7, <1>8, <2>1
  <2>2. CASE o # s
    <3>1. outbox[o][e] # <<>>
      BY <1>6, <2>2
    <3>2. PICK u \in Threads : WillSend(u, o, e)
      BY <3>1 DEF ToldInv, Senders
    <3> QED
      BY <1>9, <3>1, <3>2 DEF Sends
  <2> QED
    BY <2>1, <2>2
<1>17. Down'
  BY <1>2 DEF ToldInv, Down, Default
<1>18. Sure'
  <2> SUFFICES ASSUME NEW y \in Items, ~Quiet(y)'
               PROVE  /\ \A o \in Slots : Holds(o, y)' =>
                           /\ LastWord(outbox'[o][SlotOf[y]], y) = Current(y)'
                           /\ \A p \in Slots : Holds(p, y)' => p = o
                      /\ \A u \in Threads : Carries(u, y)' =>
                           /\ LastWord(th'[u].batch, y) = Current(y)'
                           /\ (\A o \in Slots : ~Holds(o, y)') /\ \A w \in Threads : Carries(w, y)' => w = u
    BY DEF Sure
  <2>1. CASE y \in on
    <3>1. /\ \A o \in Slots \ {s} : ~Holds(o, y)'
          /\ \A u \in Threads : ~Carries(u, y)'
      BY <1>12, <1>13, <1>14, <2>1
    <3>2. LastWord(outbox'[s][SlotOf[y]], y) = TRUE /\ Current(y) = TRUE
      BY <1>12, <2>1
    <3>3. Current(y)' = Current(y)
      BY <1>7, <1>13
    <3> QED
      BY <3>1, <3>2, <3>3
  <2>2. CASE y \notin on
    <3>1. ~Quiet(y) /\ Current(y)' = Current(y) /\ \A u \in Threads : th'[u].batch = th[u].batch
      BY <1>7, <1>13, <1>14, <2>2
    <3>2. /\ \A o \in Slots : Holds(o, y) =>
                /\ LastWord(outbox[o][SlotOf[y]], y) = Current(y)
                /\ \A p \in Slots : Holds(p, y) => p = o
          /\ \A u \in Threads : Carries(u, y) =>
                /\ LastWord(th[u].batch, y) = Current(y)
                /\ (\A o \in Slots : ~Holds(o, y)) /\ \A w \in Threads : Carries(w, y) => w = u
      BY <3>1 DEF ToldInv, Sure
    <3>3. \A o \in Slots : /\ Holds(o, y)' <=> Holds(o, y)
                           /\ Holds(o, y) => LastWord(outbox'[o][SlotOf[y]], y) = LastWord(outbox[o][SlotOf[y]], y)
      BY <1>11, <2>2
    <3>4. \A u \in Threads : Carries(u, y)' <=> Carries(u, y)
      BY <1>13
    <3> QED
      BY <3>1, <3>2, <3>3, <3>4
  <2> QED
    BY <2>1, <2>2
<1>19. Known'
  <2> SUFFICES ASSUME mon'.at # "dead", NEW y \in Items, ~Quiet(y)', \A o \in Slots : ~Holds(o, y)',
                      \A u \in Threads : ~Carries(u, y)', told'[y] # Current(y)'
               PROVE  told'[y] = Default(y)' /\ Ahead(y)'
    BY DEF Known
  <2>1. y \notin on
    BY <1>12
  <2>2. told[y] = Default(y) /\ Ahead(y) /\ told[y] # Current(y)
    <3>1. mon.at # "dead" /\ ~Quiet(y) /\ told[y] # Current(y)
      BY <1>2, <1>7, <1>13, <1>14, <2>1
    <3>2. (\A o \in Slots : ~Holds(o, y)) /\ \A u \in Threads : ~Carries(u, y)
      BY <1>11, <1>13, <2>1
    <3> QED
      BY <3>1, <3>2 DEF ToldInv, Known
  <2>3. ~Serves(th[t], y)
    <3>1. CASE y \in Channels
      <4>1. enable[y] # FALSE
        BY <2>2, <3>1 DEF Default, Current
      <4>2. enable[y]
        BY <3>1, <4>1 DEF TypeOK
      <4> QED
        BY <1>1, <1>21, <2>1, <3>1, <4>2 DEF Serves, Of
    <3>2. CASE y \in Routes
      <4>1. y \notin Channels
        BY <3>2, RoutesAssumption
      <4>2. chan[y] # None
        BY <2>2, <4>1 DEF Default, Current
      <4> QED
        BY <1>7, <4>1, <4>2 DEF Serves
    <3> QED
      BY <3>1, <3>2 DEF Items
  <2>4. \A u \in Tasks : Serves(th[u], y) => Serves(th'[u], y)
    BY <1>7, <2>3 DEF Threads
  <2> QED
    BY <1>2, <2>2, <2>4 DEF Ahead, Default
<1> QED
  BY <1>15, <1>16, <1>17, <1>18, <1>19 DEF ToldInv

LEMMA ToldTask ==
  ASSUME Typed, TypeOK, ToldInv, NEW t \in Tasks,
         \/ (\E r \in Routes : SelectRow(t, r) \/ RewriteRead(t, r))
         \/ SelectFails(t) \/ RewriteWrite(t) \/ Synced(t)
  PROVE  ToldInv'
<1>0. /\ t \in Threads /\ DOMAIN th = Threads /\ Work(th[t]) /\ DOMAIN th[t] = Fields
      /\ th[t].at # "post" => th[t].batch = <<>>
  BY DEF Typed, Works, Work, Threads, ToldInv, Mail
<1>1. ASSUME Alike(t), th[t].at \in {"rows", "rewrite", "rewriting"},
             th'[t].at \in {"rows", "rewrite", "rewriting", "route", "channels"},
             th'[t].slot = th[t].slot
      PROVE  Sends /\ \A s \in Slots : s = th[t].slot => \A d \in Slots : WillSend(t, s, d)'
  <2>1. \A o, d \in Slots : WillSend(t, o, d) => WillSend(t, o, d)'
    BY <1>1 DEF WillSend
  <2>2. Sends
    BY <1>0, <1>1, <2>1, AlikeSends
  <2> QED
    BY <1>1, <2>2 DEF WillSend
<1>2. ASSUME NEW r \in Routes, SelectRow(t, r) PROVE ToldInv'
  <2>1. /\ th[t].at = "rows" /\ th'[t].at \in {"rows", "route"} /\ th'[t].slot = th[t].slot
        /\ th'[t].batch = th[t].batch /\ \A u \in Threads \ {t} : th'[u] = th[u]
    BY <1>0, <1>2 DEF SelectRow, Here, Fields
  <2>2. UNCHANGED <<chan, enable, slots, mon, outbox, told, hist>>
    BY <1>2 DEF SelectRow, chans, routes, lists
  <2>3. Alike(t)
    BY <2>1, <2>2 DEF Alike
  <2>4. \A x \in Items : Serves(th[t], x) => Serves(th'[t], x)
    BY <2>1 DEF Serves, RoutePlaces
  <2> QED
    BY <1>0, <1>1, <2>1, <2>2, <2>3, <2>4, AlikeAhead, Unsent DEF hist, slots
<1>3. ASSUME NEW r \in Routes, RewriteRead(t, r) PROVE ToldInv'
  <2>1. /\ th[t].at = "rewrite" /\ th'[t].at = "rewriting" /\ th'[t].slot = th[t].slot
        /\ th'[t].left = th[t].left \ {r} /\ th'[t].route = r
        /\ th'[t].batch = th[t].batch /\ \A u \in Threads \ {t} : th'[u] = th[u]
    BY <1>0, <1>3 DEF RewriteRead, Here, Fields
  <2>2. UNCHANGED <<chan, enable, slots, mon, outbox, told, tangled, doubtful>> /\ spoiled \subseteq spoiled'
    BY <1>3 DEF RewriteRead, Begins, chans, routes, lists
  <2>3. Alike(t)
    BY <2>1, <2>2 DEF Alike
  <2>4. \A x \in Items : Serves(th[t], x) => Serves(th'[t], x)
    BY <2>1 DEF Serves, RoutePlaces, Inside
  <2> QED
    BY <1>0, <1>1, <2>1, <2>2, <2>3, <2>4, AlikeAhead, Unsent DEF slots
<1>4. CASE RewriteWrite(t)
  <2>1. /\ th[t].at = "rewriting" /\ th'[t].at = "rewrite" /\ th'[t].slot = th[t].slot
        /\ th'[t].left = th[t].left
        /\ th'[t].batch = th[t].batch /\ \A u \in Threads \ {t} : th'[u] = th[u]
    BY <1>0, <1>4 DEF RewriteWrite, Here, Fields
  <2>2. th[t].slot \in Slots /\ th[t].route \in Routes /\ chan[th[t].route] \in Maybe
    BY <1>0, <2>1 DEF Work, TypeOK, Maybe
  <2>3. SUFFICES ASSUME NEW x \in Routes, x = th[t].route, NEW s \in Slots, s = th[t].slot,
                        NEW v \in Maybe \cup BOOLEAN, v = chan[x] PROVE ToldInv'
    BY <2>2
  <2>4. Tell(s, x, v) /\ UNCHANGED <<chan, enable, slots, mon, told, spoiled, tangled>>
    BY <1>4, <2>3 DEF RewriteWrite, routes
  <2>5. Alike(t)
    BY <2>1, <2>4 DEF Alike
  <2>6. Sends /\ \A d \in Slots : WillSend(t, s, d)'
    BY <1>1, <2>1, <2>3, <2>5
  <2>7. \A y \in Items \ {x} : Serves(th[t], y) => Serves(th'[t], y)
    BY <2>1, <2>3 DEF Serves, RoutePlaces, Inside
  <2>8. \A y \in Items \ {x} : Ahead(y) => Ahead(y)'
    BY <1>0, <2>5, <2>7, AlikeAhead
  <2>9. \A y \in Items : Current(y)' = Current(y)
    BY <2>4 DEF Current
  <2>10. x \in Items /\ Current(x) = v
    BY <2>3, RoutesAssumption DEF Current, Items
  <2> QED
    BY <1>0, <2>4, <2>6, <2>8, <2>9, <2>10, Written DEF slots
<1>5. CASE Synced(t)
  <2>1. /\ th[t].at = "send" /\ Full(t) = {} /\ th'[t].at = "idle" /\ th'[t].batch = <<>>
        /\ \A u \in Threads \ {t} : th'[u] = th[u]
    BY <1>0, <1>5 DEF Synced, Here, Idle
  <2>2. /\ UNCHANGED <<chan, enable, sync, level, mon, outbox, told, hist>>
        /\ \A d \in Slots : flag'[d] = 1 => flag[d] = 1
    BY <1>0, <1>5 DEF Synced, chans, routes, lists, TypeOK, Here, Work
  <2>3. Sends
    <3>1. \A u \in Threads, o, d \in Slots : WillSend(u, o, d) => WillSend(u, o, d)' \/ outbox[o][d] = <<>>
      BY <2>1 DEF WillSend, Full
    <3> QED
      BY <1>0, <2>1, <2>2, <3>1 DEF Sends, ToldInv, Mail
  <2>4. \A x \in Items : Ahead(x) => Ahead(x)'
    <3>1. \A u \in Tasks, x \in Items : Serves(th[u], x) => Serves(th'[u], x)
      BY <2>1 DEF Serves, RoutePlaces, Inside, Threads
    <3>2. \A x \in Items : SlotOf[x] \in Slots
      BY RoutesAssumption
    <3> QED
      BY <2>2, <3>1, <3>2 DEF Ahead
  <2> QED
    BY <2>2, <2>3, <2>4, Unsent DEF hist
<1>6. CASE SelectFails(t)
  <2>1. /\ th[t].at = "rows" /\ th'[t].at = "channels" /\ th'[t].slot = th[t].slot
        /\ th'[t].batch = th[t].batch /\ \A u \in Threads \ {t} : th'[u] = th[u]
    BY <1>0, <1>6 DEF SelectFails, Here, Fields
  <2>2. UNCHANGED <<chan, enable, slots, mon, outbox, told, spoiled, tangled, doubtful>>
    BY <1>6 DEF SelectFails, chans, routes, lists
  <2>3. Alike(t)
    BY <2>1, <2>2 DEF Alike
  <2>4. \A x \in Items : Serves(th[t], x) => Serves(th'[t], x)
    BY <2>1 DEF Serves, RoutePlaces, Inside
  <2> QED
    BY <1>0, <1>1, <2>1, <2>2, <2>3, <2>4, AlikeAhead, Unsent DEF slots
<1> QED
  BY <1>2, <1>3, <1>4, <1>5, <1>6

-----------------------------------------------------------------------------
(* The monitor and the boards *)

\* What the monitor does leaves the letters to those who send them, or drops
\* them.
LEMMA Dropped ==
  ASSUME TypeOK, ToldInv, UNCHANGED <<th, told, level>>,
         outbox' \in [Slots -> [Slots -> Seq(Letter)]],
         \A o, d \in Slots : outbox'[o][d] = outbox[o][d] \/ outbox'[o][d] = <<>>
  PROVE  Mail' /\ Senders' /\ Down'
<1>1. \A e : Mailed(<<>>, e)
  BY DEF Says, Mailed
<1>2. \A o, d \in Slots : Mailed(outbox'[o][d], d)
  BY <1>1 DEF ToldInv, Mail
<1>3. Mail'
  BY <1>2 DEF ToldInv, Mail, To
<1>4. Senders'
  <2>1. \A t \in Threads, o, d \in Slots : WillSend(t, o, d) => WillSend(t, o, d)'
    BY DEF WillSend
  <2>2. \A o, d \in Slots : outbox'[o][d] # <<>> => outbox[o][d] # <<>>
    OBVIOUS
  <2> QED
    BY <2>1, <2>2 DEF ToldInv, Senders
<1>5. Down'
  BY DEF ToldInv, Down, Default
<1> QED
  BY <1>3, <1>4, <1>5

\* When nobody is at work, all letters are sent.
LEMMA AllAway ==
  ASSUME ToldInv, ~AtWork
  PROVE  /\ \A o, d \in Slots : outbox[o][d] = <<>>
         /\ \A x \in Items : (\A o \in Slots : ~Holds(o, x)) /\ \A t \in Threads : ~Carries(t, x)
<1>1. \A o, d \in Slots : outbox[o][d] = <<>>
  BY DEF AtWork, ToldInv, Senders, WillSend
<1>2. \A t \in Threads : th[t].batch = <<>>
  BY DEF AtWork, ToldInv, Mail
<1>3. \A x : Says(<<>>, x) = {}
  BY DEF Says
<1>4. \A x \in Items : SlotOf[x] \in Slots
  BY RoutesAssumption
<1> QED
  BY <1>1, <1>2, <1>3, <1>4 DEF Holds, Carries

\* What is disturbed is not promised anything.
LEMMA AllQuiet ==
  ASSUME Mail', Senders', Down', \A x \in Items : Quiet(x)'
  PROVE  ToldInv'
BY DEF ToldInv, Sure, Known

LEMMA ToldFree ==
  ASSUME Typed, TypeOK, ToldInv, NEW s \in Slots, FreeTransceiver(s)
  PROVE  ToldInv'
<1>1. /\ mon.at = "idle" /\ mon'.at = "init" /\ level[s] = "described"
      /\ UNCHANGED <<th, told, level, chan, enable, sync>>
      /\ outbox' = outbox \/ outbox' = [outbox EXCEPT ![s] = NoLetters[s]]
      /\ \A d \in Slots \ {s} : flag'[d] = flag[d]
  BY DEF FreeTransceiver, chans, TypeOK
<1>2. outbox \in [Slots -> [Slots -> Seq(Letter)]]
  BY DEF ToldInv, Mail
<1>3. NoLetters[s] = [d \in Slots |-> <<>>] /\ <<>> \in Seq(Letter)
  BY EmptySeq DEF NoLetters
<1>4. NoLetters[s] \in [Slots -> Seq(Letter)] /\ \A d \in Slots : NoLetters[s][d] = <<>>
  BY <1>3
<1>5. /\ outbox' \in [Slots -> [Slots -> Seq(Letter)]]
      /\ \A o, d \in Slots : outbox'[o][d] = outbox[o][d] \/ outbox'[o][d] = <<>>
  BY <1>1, <1>2, <1>4
<1>6. Mail' /\ Senders' /\ Down'
  BY <1>1, <1>5, Dropped
<1>7. CASE AtWork
  <2>1. spoiled' = Channels /\ tangled' = Routes
    BY <1>7 DEF FreeTransceiver, DisturbOr
  <2> QED
    BY <1>6, <2>1, AllQuiet DEF Quiet, Items
<1>8. CASE ~AtWork
  <2>1. \A x \in Items : Quiet(x) => Quiet(x)'
    BY <1>8 DEF FreeTransceiver, DisturbOr, Quiet
  <2>2. outbox' = outbox
    <3>1. \A o, d \in Slots : outbox'[o][d] = outbox[o][d]
      BY <1>5, <1>8, AllAway
    <3>2. \A o \in Slots : outbox'[o] = outbox[o]
      BY <1>2, <1>5, <3>1
    <3> QED
      BY <1>2, <1>5, <3>2
  <2>3. Sends
    BY <1>1 DEF Sends, ToldInv, Mail, WillSend
  <2>4. \A x \in Items : SlotOf[x] \in Slots
    BY RoutesAssumption
  <2>5. \A x \in Items : Ahead(x) => Ahead(x)'
    BY <1>1, <2>4 DEF Ahead
  <2>6. \A x \in Items : Still(x)
    BY <1>1, <2>1, <2>5 DEF Still, Current
  <2> QED
    BY <2>2, <2>3, <2>6, Kept
<1> QED
  BY <1>7, <1>8

LEMMA ToldInitTransceiver ==
  ASSUME Typed, TypeOK, ToldInv, InitTransceiver
  PROVE  ToldInv'
<1>1. SUFFICES ASSUME NEW s \in Slots, s = mon.slot PROVE ToldInv'
  BY DEF InitTransceiver, Typed, Watch
<1>2. /\ mon.at = "init" /\ mon'.at = "enable" /\ mon'.slot = s
      /\ UNCHANGED <<th, told, level, sync, outbox>>
  BY <1>1 DEF InitTransceiver, lists, Typed, Watch
<1>3. /\ enable' = [x \in DOMAIN enable |-> IF SlotOf[x] = s THEN FALSE ELSE enable[x]]
      /\ chan' = [x \in DOMAIN chan |-> IF SlotOf[x] = s THEN None ELSE chan[x]]
      /\ flag' = [flag EXCEPT ![s] = 2]
  BY <1>1 DEF InitTransceiver
<1>4. Mail' /\ Senders' /\ Down'
  BY <1>2, Dropped DEF ToldInv, Mail
<1>5. CASE AtWork
  <2>1. spoiled' = Channels /\ tangled' = Routes
    BY <1>5 DEF InitTransceiver, DisturbOr
  <2> QED
    BY <1>4, <2>1, AllQuiet DEF Quiet, Items
<1>6. CASE ~AtWork
  <2>1. /\ \A x \in Items : Quiet(x) => Quiet(x)'
        /\ \A x \in Of(s, Items) : told[x] # Default(x) => Quiet(x)'
    BY <1>1, <1>6 DEF InitTransceiver, DisturbOr, Quiet
  <2>2. /\ \A x \in Items : (\A o \in Slots : ~Holds(o, x)) /\ \A t \in Threads : ~Carries(t, x)
        /\ \A x \in Items : (\A o \in Slots : ~Holds(o, x)') /\ \A t \in Threads : ~Carries(t, x)'
    BY <1>2, <1>6, AllAway DEF Holds, Carries
  <2>3. Sure'
    BY <2>2 DEF Sure
  <2>4. \A x \in Items : SlotOf[x] # s => Current(x)' = Current(x)
    BY <1>3 DEF Current, TypeOK, Items
  <2>5. \A x \in Items : SlotOf[x] = s => Current(x)' = Default(x)
    BY <1>3 DEF Current, Default, TypeOK, Items
  <2>6. \A x \in Items : SlotOf[x] \in Slots
    BY RoutesAssumption
  <2>7. \A x \in Items : SlotOf[x] # s => (Ahead(x) => Ahead(x)')
    BY <1>2, <1>3, <2>6 DEF Ahead, TypeOK
  <2>8. Known'
    <3> SUFFICES ASSUME NEW x \in Items, ~Quiet(x)', told'[x] # Current(x)'
                 PROVE  told'[x] = Default(x)' /\ Ahead(x)'
      BY DEF Known
    <3>1. SlotOf[x] # s
      BY <1>2, <2>1, <2>5 DEF Of
    <3>2. told[x] = Default(x) /\ Ahead(x)
      <4>1. mon.at # "dead" /\ ~Quiet(x) /\ told[x] # Current(x)
        BY <1>2, <2>1, <2>4, <3>1
      <4> QED
        BY <2>2, <4>1 DEF ToldInv, Known
    <3> QED
      BY <1>2, <2>7, <3>1, <3>2 DEF Default
  <2> QED
    BY <1>4, <2>3, <2>8 DEF ToldInv
<1> QED
  BY <1>5, <1>6

LEMMA ToldAddSync ==
  ASSUME Typed, TypeOK, RowInv, ToldInv, NEW s \in Slots, AddSync(s)
  PROVE  ToldInv'
<1>1. /\ mon.at = "idle" /\ mon'.at = "enable" /\ mon'.slot = s /\ level[s] = "described"
      /\ UNCHANGED <<th, told, level, chan, enable, outbox, hist>>
  BY DEF AddSync, chans, routes, lists
<1>2. /\ sync'[s] > 0 /\ (flag'[s] = 1 => flag[s] = 0)
      /\ \A d \in Slots \ {s} : sync'[d] = sync[d] /\ flag'[d] = flag[d]
  BY DEF AddSync, TypeOK
<1>3. \A r \in Of(s, Routes) : flag'[s] # 1 \/ chan[r] = None
  BY <1>2 DEF RowInv, Unused, Fresh
<1>4. Sends
  BY <1>1 DEF Sends, ToldInv, Mail, WillSend
<1>5. ASSUME NEW x \in Items, Ahead(x) PROVE Ahead(x)' \/ Current(x) = Default(x)
  <2>1. SlotOf[x] \in Slots
    BY RoutesAssumption
  <2>2. CASE SlotOf[x] = s
    BY <1>2, <1>3, <2>2 DEF Ahead, Current, Default, Of, Items
  <2>3. CASE SlotOf[x] # s
    BY <1>1, <1>2, <1>5, <2>1, <2>3 DEF Ahead
  <2> QED
    BY <2>2, <2>3
<1> QED
  BY <1>1, <1>4, <1>5, Unsent DEF hist

LEMMA ToldEnable ==
  ASSUME Typed, TypeOK, RowInv, ToldInv, EnableTransceiver
  PROVE  ToldInv'
<1>1. SUFFICES ASSUME NEW s \in Slots, s = mon.slot PROVE ToldInv'
  BY DEF EnableTransceiver, Typed, Watch
<1>2. /\ mon.at = "enable" /\ mon'.at = "idle"
      /\ UNCHANGED <<th, told, chan, enable, flag, sync, outbox, hist>>
  BY DEF EnableTransceiver, chans, routes, lists
<1>3. level[s] = "described" /\ level' = [level EXCEPT ![s] = "up"]
  BY <1>1, <1>2 DEF EnableTransceiver, RowInv, Stopped, Monitored
<1>4. Sends
  BY <1>2 DEF Sends, ToldInv, Mail, WillSend
<1>5. ASSUME NEW x \in Items, Ahead(x) PROVE Ahead(x)'
  <2>1. SlotOf[x] \in Slots
    BY RoutesAssumption
  <2>2. CASE SlotOf[x] = s
    BY <1>1, <1>2, <1>3, <1>5, <2>2 DEF Ahead
  <2>3. CASE SlotOf[x] # s
    BY <1>2, <1>3, <1>5, <2>1, <2>3 DEF Ahead, TypeOK
  <2> QED
    BY <2>2, <2>3
<1>6. \A x \in Items : level'[SlotOf[x]] = "down" => level[SlotOf[x]] = "down"
  BY <1>3, RoutesAssumption DEF TypeOK
<1>7. \A x \in Items : Still(x)
  BY <1>2, <1>5, <1>6 DEF Still, Current, Quiet, hist
<1> QED
  BY <1>2, <1>4, <1>7, Kept

LEMMA ToldEnvironment ==
  ASSUME Typed, TypeOK, RowInv, ToldInv, Environment
  PROVE  ToldInv'
<1>1. /\ UNCHANGED <<th, mon, chan, enable, flag, sync, outbox, spoiled, tangled, doubtful>>
  BY DEF Environment, Restart, Described, chans, routes, lists, hist
<1>2. Sends
  BY <1>1 DEF Sends, ToldInv, Mail, WillSend
<1>3. \A x \in Items : SlotOf[x] \in Slots
  BY RoutesAssumption
<1>4. ASSUME NEW s \in Slots, Restart(s) PROVE ToldInv'
  <2>1. /\ level' = [level EXCEPT ![s] = "down"]
        /\ told' = [x \in Items |-> IF SlotOf[x] = s THEN Default(x) ELSE told[x]]
    BY <1>4 DEF Restart
  <2>2. \A x \in Items : SlotOf[x] = s => Ahead(x)' /\ told'[x] = Default(x)
    BY <2>1 DEF Ahead, TypeOK
  <2>3. \A x \in Items : SlotOf[x] # s => /\ Ahead(x) => Ahead(x)'
                                          /\ told'[x] = told[x]
                                          /\ level'[SlotOf[x]] = level[SlotOf[x]]
    BY <1>1, <1>3, <2>1 DEF Ahead, TypeOK
  <2>4. \A x \in Items : Still(x)
    BY <1>1, <2>2, <2>3 DEF Still, Current, Quiet
  <2> QED
    BY <1>1, <1>2, <2>4, Kept
<1>5. ASSUME NEW s \in Slots, NEW new \in BOOLEAN, Described(s, new) PROVE ToldInv'
  <2>1. /\ level[s] = "down" /\ level' = [level EXCEPT ![s] = "described"] /\ told' = told
    BY <1>5 DEF Described
  <2>2. ~(mon.at = "enable" /\ mon.slot = s)
    BY <2>1 DEF RowInv, Stopped, Monitored
  <2>3. \A x \in Items : SlotOf[x] = s => Ahead(x)' /\ level[SlotOf[x]] = "down"
    BY <1>1, <2>1, <2>2 DEF Ahead, TypeOK
  <2>4. \A x \in Items : SlotOf[x] # s => /\ Ahead(x) => Ahead(x)'
                                          /\ level'[SlotOf[x]] = level[SlotOf[x]]
    BY <1>1, <1>3, <2>1 DEF Ahead, TypeOK
  <2>5. \A x \in Items : Still(x)
    BY <1>1, <2>1, <2>3, <2>4 DEF Still, Current, Quiet
  <2> QED
    BY <1>1, <1>2, <2>5, Kept
<1> QED
  BY <1>4, <1>5 DEF Environment

LEMMA ToldInit == Init => ToldInv
<1> SUFFICES ASSUME Init PROVE ToldInv
  OBVIOUS
<1>1. /\ outbox \in [Slots -> [Slots -> Seq(Letter)]] /\ \A o, d \in Slots : outbox[o][d] = <<>>
  BY EmptySeq DEF Init, NoLetters
<1>2. \A t \in Threads : th[t].batch = <<>> /\ th[t].at = "idle"
  BY DEF Init, Idle
<1>3. /\ \A x : Says(<<>>, x) = {}
      /\ \A e : Mailed(<<>>, e)
      /\ <<>> \in Seq(Letter)
  BY EmptySeq DEF Says, Mailed
<1>4. \A x \in Items : SlotOf[x] \in Slots
  BY RoutesAssumption
<1>5. \A x \in Items : told[x] = Default(x) /\ told[x] = Current(x)
  BY DEF Init, Default, Current, Items
<1>6. Mail
  BY <1>1, <1>2, <1>3 DEF Mail
<1>7. \A x \in Items : (\A o \in Slots : ~Holds(o, x)) /\ \A t \in Threads : ~Carries(t, x)
  BY <1>1, <1>2, <1>3, <1>4 DEF Holds, Carries
<1> QED
  BY <1>1, <1>5, <1>6, <1>7 DEF ToldInv, Senders, Down, Sure, Known

LEMMA ToldNext == RouteInv /\ RowInv /\ ToldInv /\ [Next]_vars => ToldInv'
<1> SUFFICES ASSUME RouteInv, RowInv, ToldInv, [Next]_vars PROVE ToldInv'
  OBVIOUS
<1>0. Typed /\ TypeOK
  BY DEF RouteInv
<1>1. CASE UNCHANGED vars
  <2>1. UNCHANGED <<th, mon, outbox, told, enable, chan, level, flag, sync, hist>>
    BY <1>1 DEF vars, chans, routes, slots, lists
  <2>2. Sends
    BY <2>1 DEF Sends, ToldInv, Mail, WillSend
  <2>3. \A x \in Items : Ahead(x) => Ahead(x)'
    BY <2>1 DEF Ahead
  <2> QED
    BY <1>0, <2>1, <2>2, <2>3, Unsent DEF hist
<1>2. ASSUME NEW t \in Webs, WebStep(t) \/ Operator(t) PROVE ToldInv'
  <2>1. t \in Threads
    BY DEF Threads
  <2> QED
    BY <1>0, <1>2, <2>1, ToldRoute, ToldSend, ToldWeb, ToldOperator
<1>3. ASSUME NEW t \in Tasks, TaskStep(t) PROVE ToldInv'
  <2>1. t \in Threads
    BY DEF Threads
  <2> QED
    BY <1>0, <1>3, <2>1, ToldRoute, ToldSend, ToldStart, ToldRetell, ToldTask DEF TaskStep
<1>4. ASSUME MonitorStep PROVE ToldInv'
  BY <1>0, <1>4, ToldFree, ToldInitTransceiver, ToldAddSync, ToldEnable DEF MonitorStep
<1> QED
  BY <1>0, <1>1, <1>2, <1>3, <1>4, ToldEnvironment DEF Next

\* A board that is up to date was told, while nobody is at work, what is in
\* force for each of its channels and routes of which it was not told two
\* things at once, after any restarts of boards.
THEOREM BoardsAreTold == Spec => []BoardsTold
<1>1. Init => RouteInv /\ RowInv /\ ToldInv
  BY RouteInit, RowsInit, ToldInit
<1>2. RouteInv /\ RowInv /\ ToldInv /\ [Next]_vars => (RouteInv /\ RowInv /\ ToldInv)'
  BY RouteNext, RowsNext, ToldNext
<1>3. RouteInv /\ RowInv /\ ToldInv => BoardsTold
  <2> SUFFICES ASSUME RouteInv, RowInv, ToldInv, NEW s \in Slots, Steady(s),
                      NEW x \in Of(s, Items) \ (doubtful \cup spoiled \cup tangled)
               PROVE  told[x] = Current(x)
    BY DEF BoardsTold
  <2>1. /\ ~AtWork /\ mon.at = "idle" /\ level[s] = "up" /\ sync[s] = 0
        /\ x \in Items /\ SlotOf[x] = s /\ ~Quiet(x)
    BY DEF Steady, Rest, Of, Quiet
  <2>2. ~Ahead(x)
    <3>1. \A t \in Tasks : ~Serves(th[t], x)
      BY <2>1 DEF AtWork, Serves, Threads, RoutePlaces, Inside
    <3> QED
      BY <2>1, <3>1 DEF Ahead
  <2>3. (\A o \in Slots : ~Holds(o, x)) /\ \A t \in Threads : ~Carries(t, x)
    BY <2>1, AllAway
  <2> QED
    BY <2>1, <2>2, <2>3 DEF ToldInv, Known
<1> QED
  BY <1>1, <1>2, <1>3, PTL DEF Spec

-----------------------------------------------------------------------------
(* What is counted *)

Entering == {"old", "oldFree", "oldHeld"}
Leaving == Entering \cup {"lower"}
Pointing == {"point", "raise"}

\* Route r is in ref_amount of channel c, and in ref_count of it.
Refs(r, c) ==
  \/ chan[r] = c /\ \A t \in Threads : On(t, r) => th[t].at \in Entering
  \/ \E t \in Threads : On(t, r) /\ th[t].at \in Pointing /\ th[t].to = c
Cnts(r, c) == chan[r] = c /\ \A t \in Threads : On(t, r) => th[t].at \in Leaving
RefsOf(c) == {r \in Routes : Refs(r, c)}
CntsOf(c, s) == {r \in Of(s, Routes) : Cnts(r, c)}

Spoils == tangled # {} => spoiled = Channels

\* A thread on a route knows its channel.
Points ==
  tangled = {} => \A t \in Threads :
    /\ th[t].at \in Leaving => chan[th[t].route] = th[t].old
    /\ th[t].at = "raise" => chan[th[t].route] = th[t].to

\* One thread at a time has a channel locked, and has read its ref_amount.
Owns(t, c) ==
  \/ th[t].at \in {"oldHeld", "lower"} /\ th[t].old = c /\ (th[t].at = "lower" => th[t].to # None)
  \/ th[t].at = "newHeld" /\ th[t].to = c
Owned ==
  \A c \in Channels \ spoiled : \A t \in Threads : Owns(t, c) =>
    /\ lock[c] /\ (th[t].at # "lower" => th[t].seen = ref[c])
    /\ \A u \in Threads : Owns(u, c) => u = t

RefsExact ==
  \A c \in Channels \ spoiled : ref[c] = Cardinality(RefsOf(c)) /\ (enable[c] <=> RefsOf(c) # {})
RefInv == Spoils /\ Points /\ Owned /\ RefsExact

\* Nobody works on a route that is written again.
Rewrites ==
  \A c \in Channels \ spoiled : \A t \in Threads : th[t].at = "rewriting" /\ th[t].old = c =>
    chan[th[t].route] = c /\ \A u \in Threads : ~On(u, th[t].route)

\* One thread at a time is at the counts and the register of a channel, and has
\* read what there is.
Counted ==
  \A c \in Channels \ spoiled : \A t \in Threads : Counting(t, c) =>
    /\ th[t].val = regs[c] /\ (th[t].at # "rewriting" => th[t].seen = count[c][th[t].slot])
    /\ \A u \in Threads : Counting(u, c) => u = t
CntsExact ==
  \A c \in Channels \ spoiled : \A s \in Slots :
    count[c][s] = Cardinality(CntsOf(c, s)) /\ (s \in regs[c] <=> CntsOf(c, s) # {})
CntInv == Rewrites /\ Counted /\ CntsExact

\* Adding and removing one route.
LEMMA OneMore ==
  ASSUME NEW S \in SUBSET Routes, NEW r \in Routes
  PROVE  /\ Cardinality(S) \in Nat /\ (Cardinality(S) = 0 <=> S = {})
         /\ r \notin S => Cardinality(S \cup {r}) = Cardinality(S) + 1
         /\ r \in S => Cardinality(S \ {r}) = Cardinality(S) - 1
<1>1. IsFiniteSet(Items) /\ S \subseteq Items
  BY RoutesAssumption DEF Items
<1>2. IsFiniteSet(S)
  BY <1>1, FS_Subset
<1>3. Cardinality(S) \in Nat /\ (Cardinality(S) = 0 <=> S = {})
  BY <1>2, FS_CardinalityType, FS_EmptySet
<1>4. r \notin S => Cardinality(S \cup {r}) = Cardinality(S) + 1
  BY <1>2, FS_AddElement
<1>5. r \in S => Cardinality(S \ {r}) = Cardinality(S) - 1
  BY <1>2, FS_RemoveElement
<1> QED
  BY <1>3, <1>4, <1>5

LEMMA LessOne ==
  ASSUME NEW n \in Nat, n < Byte
  PROVE  /\ n > 0 => (n + Byte - 1) % Byte = n - 1
         /\ n + 1 < Byte => (n + 1) % Byte = n + 1
BY RoutesAssumption

\* A step of thread t that changes what is so of route r only.
Only(t, r) ==
  /\ \A u \in Threads \ {t} : th'[u] = th[u]
  /\ \A q \in Routes \ {r} : chan'[q] = chan[q] /\ ~On(t, q) /\ ~On(t, q)'

LEMMA OthersStay ==
  ASSUME NEW t \in Threads, NEW r, Only(t, r), NEW q \in Routes \ {r}, NEW c
  PROVE  (Refs(q, c)' <=> Refs(q, c)) /\ (Cnts(q, c)' <=> Cnts(q, c))
<1>1. \A u \in Threads : On(u, q)' <=> On(u, q)
  BY DEF Only, On
<1>2. \A u \in Threads : On(u, q) => th'[u] = th[u]
  BY DEF Only
<1> QED
  BY <1>1, <1>2 DEF Only, Refs, Cnts

LEMMA SetsChange ==
  ASSUME NEW t \in Threads, NEW r \in Routes, Only(t, r), NEW c
  PROVE  /\ (Refs(r, c)' <=> Refs(r, c)) => RefsOf(c)' = RefsOf(c)
         /\ ~Refs(r, c) /\ Refs(r, c)' => RefsOf(c)' = RefsOf(c) \cup {r} /\ r \notin RefsOf(c)
         /\ Refs(r, c) /\ ~Refs(r, c)' => RefsOf(c)' = RefsOf(c) \ {r} /\ r \in RefsOf(c)
         /\ (Cnts(r, c)' <=> Cnts(r, c)) => \A s \in Slots : CntsOf(c, s)' = CntsOf(c, s)
         /\ \A s \in Slots \ {SlotOf[r]} : CntsOf(c, s)' = CntsOf(c, s)
         /\ ~Cnts(r, c) /\ Cnts(r, c)' => LET s == SlotOf[r] IN CntsOf(c, s)' = CntsOf(c, s) \cup {r} /\ r \notin CntsOf(c, s)
         /\ Cnts(r, c) /\ ~Cnts(r, c)' => LET s == SlotOf[r] IN CntsOf(c, s)' = CntsOf(c, s) \ {r} /\ r \in CntsOf(c, s)
<1>1. \A q \in Routes \ {r} : (Refs(q, c)' <=> Refs(q, c)) /\ (Cnts(q, c)' <=> Cnts(q, c))
  BY OthersStay
<1>2. /\ (Refs(r, c)' <=> Refs(r, c)) => RefsOf(c)' = RefsOf(c)
      /\ ~Refs(r, c) /\ Refs(r, c)' => RefsOf(c)' = RefsOf(c) \cup {r} /\ r \notin RefsOf(c)
      /\ Refs(r, c) /\ ~Refs(r, c)' => RefsOf(c)' = RefsOf(c) \ {r} /\ r \in RefsOf(c)
  BY <1>1 DEF RefsOf
<1>3. (Cnts(r, c)' <=> Cnts(r, c)) => \A s \in Slots : CntsOf(c, s)' = CntsOf(c, s)
  BY <1>1 DEF CntsOf, Of
<1>4. \A s \in Slots \ {SlotOf[r]} : CntsOf(c, s)' = CntsOf(c, s)
  BY <1>1 DEF CntsOf, Of
<1>5. SUFFICES ASSUME NEW s, s = SlotOf[r]
               PROVE  /\ ~Cnts(r, c) /\ Cnts(r, c)' => CntsOf(c, s)' = CntsOf(c, s) \cup {r} /\ r \notin CntsOf(c, s)
                      /\ Cnts(r, c) /\ ~Cnts(r, c)' => CntsOf(c, s)' = CntsOf(c, s) \ {r} /\ r \in CntsOf(c, s)
  BY <1>2, <1>3, <1>4
<1> QED
  BY <1>1, <1>5 DEF CntsOf, Of

\* What is so of a route that thread t alone is on, before and after.
LEMMA OnlyOne ==
  ASSUME NEW t \in Threads, NEW r, NEW c
  PROVE  /\ On(t, r) /\ (\A u \in Threads : On(u, r) => u = t) =>
              /\ Refs(r, c) <=> \/ th[t].at \in Entering /\ chan[r] = c
                                \/ th[t].at \in Pointing /\ th[t].to = c
              /\ Cnts(r, c) <=> th[t].at \in Leaving /\ chan[r] = c
         /\ On(t, r)' /\ (\A u \in Threads : On(u, r)' => u = t) =>
              /\ Refs(r, c)' <=> \/ th'[t].at \in Entering /\ chan'[r] = c
                                 \/ th'[t].at \in Pointing /\ th'[t].to = c
              /\ Cnts(r, c)' <=> th'[t].at \in Leaving /\ chan'[r] = c
         /\ (\A u \in Threads : ~On(u, r)) => (Refs(r, c) <=> chan[r] = c) /\ (Cnts(r, c) <=> chan[r] = c)
         /\ (\A u \in Threads : ~On(u, r)') => (Refs(r, c)' <=> chan'[r] = c) /\ (Cnts(r, c)' <=> chan'[r] = c)
<1>1. /\ On(t, r) /\ (\A u \in Threads : On(u, r) => u = t) =>
           /\ Refs(r, c) <=> \/ th[t].at \in Entering /\ chan[r] = c
                             \/ th[t].at \in Pointing /\ th[t].to = c
           /\ Cnts(r, c) <=> th[t].at \in Leaving /\ chan[r] = c
  BY DEF Refs, Cnts
<1>2. /\ On(t, r)' /\ (\A u \in Threads : On(u, r)' => u = t) =>
           /\ Refs(r, c)' <=> \/ th'[t].at \in Entering /\ chan'[r] = c
                              \/ th'[t].at \in Pointing /\ th'[t].to = c
           /\ Cnts(r, c)' <=> th'[t].at \in Leaving /\ chan'[r] = c
  BY DEF Refs, Cnts
<1> QED
  BY <1>1, <1>2 DEF Refs, Cnts

\* A thread keeps what it knows, or is not on a route before or after.
Working(w) == w.at \in Inside \cup {"rewriting"}
Keeps(w, v) ==
  \/ w = v
  \/ ~Working(w) /\ ~Working(v)
  \/ /\ \/ w.at = "old" /\ v.at = "oldFree"
        \/ w.at = "new" /\ v.at = "newFree"
     /\ v.route = w.route /\ v.old = w.old /\ v.to = w.to

LEMMA RefsAside ==
  ASSUME TypeOK', RefInv, \A u \in Threads : Keeps(th[u], th'[u]),
         UNCHANGED <<chans, chan>>, spoiled \subseteq spoiled',
         tangled' = tangled \/ (spoiled' = Channels /\ (tangled' = {} => tangled = {})),
         \A c \in Channels : lock'[c] = lock[c]
  PROVE  RefInv' /\ (CntInv => CntInv')
<1>0. /\ UNCHANGED <<ref, enable, count, regs, chan>> /\ \A c \in Channels \ spoiled' : c \in Channels \ spoiled
      /\ spoiled' \subseteq Channels /\ (tangled' = {} => tangled = {})
  BY DEF chans, TypeOK
<1>1. \A u \in Threads : /\ \A r : On(u, r)' <=> On(u, r)
                         /\ \A c : (Owns(u, c)' <=> Owns(u, c)) /\ (Counting(u, c)' <=> Counting(u, c))
  BY DEF Keeps, Working, On, Owns, Counting, Inside
<1>2. \A u \in Threads : \/ ~Working(th[u]) /\ ~Working(th'[u])
                         \/ /\ th'[u].at \in Entering <=> th[u].at \in Entering
                            /\ th'[u].at \in Leaving <=> th[u].at \in Leaving
                            /\ th'[u].at \in Pointing <=> th[u].at \in Pointing
                            /\ th'[u].at = "raise" <=> th[u].at = "raise"
                            /\ th'[u].at = "rewriting" <=> th[u].at = "rewriting"
                            /\ th'[u].route = th[u].route /\ th'[u].old = th[u].old /\ th'[u].to = th[u].to
  BY DEF Keeps, Working, Inside, Entering, Leaving, Pointing
<1>3. \A u \in Threads : th'[u] = th[u] \/ \A c : ~Owns(u, c) /\ ~Counting(u, c)
  BY DEF Keeps, Working, Owns, Counting, Inside
<1>4. \A u \in Threads : ~Working(th[u]) => \A r : ~On(u, r)
  BY DEF Working, On
<1>5. \A r, c : (Refs(r, c)' <=> Refs(r, c)) /\ (Cnts(r, c)' <=> Cnts(r, c))
  BY <1>0, <1>1, <1>2, <1>4 DEF Refs, Cnts
<1>6. (\A c : RefsOf(c)' = RefsOf(c)) /\ \A c, s : CntsOf(c, s)' = CntsOf(c, s)
  BY <1>5 DEF RefsOf, CntsOf
<1>7. Spoils'
  BY <1>0 DEF RefInv, Spoils
<1>8. Points'
  BY <1>0, <1>2 DEF RefInv, Points, Working, Leaving, Entering, Inside
<1>9. Owned'
  BY <1>0, <1>1, <1>3 DEF RefInv, Owned
<1>10. RefsExact'
  BY <1>0, <1>6 DEF RefInv, RefsExact
<1>11. CntInv => Rewrites'
  <2> SUFFICES ASSUME CntInv PROVE Rewrites'
    OBVIOUS
  <2>1. \A u \in Threads : th'[u].at = "rewriting" =>
           th[u].at = "rewriting" /\ th'[u].route = th[u].route /\ th'[u].old = th[u].old
    BY <1>2 DEF Working
  <2>2. \A c \in Channels \ spoiled : \A u \in Threads : th[u].at = "rewriting" /\ th[u].old = c =>
           chan[th[u].route] = c /\ \A v \in Threads : ~On(v, th[u].route)
    BY DEF CntInv, Rewrites
  <2>3. SUFFICES ASSUME NEW c \in Channels \ spoiled', NEW u \in Threads, th'[u].at = "rewriting", th'[u].old = c,
                        NEW r, r = th[u].route
                 PROVE  chan'[r] = c /\ \A v \in Threads : ~On(v, r)'
    BY <2>1 DEF Rewrites, On
  <2>4. chan[r] = c /\ \A v \in Threads : ~On(v, r)
    BY <1>0, <2>1, <2>2, <2>3
  <2> QED
    BY <1>0, <1>1, <2>4
<1>12. CntInv => Counted'
  BY <1>0, <1>1, <1>3 DEF CntInv, Counted
<1>13. CntInv => CntsExact'
  BY <1>0, <1>6 DEF CntInv, CntsExact
<1> QED
  BY <1>7, <1>8, <1>9, <1>10, <1>11, <1>12, <1>13 DEF RefInv, CntInv

\* There are less routes at a slot than a char can count.
Few == \A s \in Slots : Cardinality(Of(s, Routes)) < Byte

LEMMA FewCount ==
  ASSUME Few, NEW s \in Slots, NEW S \in SUBSET Of(s, Routes)
  PROVE  Cardinality(S) \in Nat /\ Cardinality(S) < Byte
<1>1. IsFiniteSet(Items) /\ Of(s, Routes) \subseteq Items
  BY RoutesAssumption DEF Items, Of
<1>2. IsFiniteSet(Of(s, Routes))
  BY <1>1, FS_Subset
<1>3. Cardinality(S) \in Nat /\ Cardinality(Of(s, Routes)) \in Nat /\ Cardinality(S) <= Cardinality(Of(s, Routes))
  BY <1>2, FS_Subset, FS_CardinalityType
<1> QED
  BY <1>3, RoutesAssumption DEF Few

\* Only thread t moves, and a route that becomes tangled spoils all channels.
Moves(t) ==
  /\ \A u \in Threads \ {t} : th'[u] = th[u]
  /\ spoiled \subseteq spoiled' /\ spoiled' \subseteq Channels
  /\ tangled' = tangled \/ (spoiled' = Channels /\ tangled' # {})

LEMMA PointsStep ==
  ASSUME Typed, RefInv, NEW t \in Threads, Moves(t),
         tangled = {} => \A u \in Threads \ {t} : th[u].at \in Inside => chan'[th[u].route] = chan[th[u].route],
         tangled' = {} => \A q \in Routes : th'[t].route = q =>
           /\ th'[t].at \in Leaving => chan'[q] = th'[t].old
           /\ th'[t].at = "raise" => chan'[q] = th'[t].to,
         th'[t].at \in Inside => th'[t].route \in Routes
  PROVE  Spoils' /\ Points'
<1>1. Spoils' /\ (tangled' = {} => tangled = {})
  BY DEF RefInv, Spoils, Moves
<1>2. SUFFICES ASSUME tangled' = {}, NEW u \in Threads
               PROVE  /\ th'[u].at \in Leaving => chan'[th'[u].route] = th'[u].old
                      /\ th'[u].at = "raise" => chan'[th'[u].route] = th'[u].to
  BY <1>1 DEF Points
<1>3. CASE u = t
  BY <1>2, <1>3 DEF Leaving, Entering, Inside
<1>4. CASE u # t
  BY <1>1, <1>2, <1>4 DEF RefInv, Points, Moves, Leaving, Entering, Inside
<1> QED
  BY <1>3, <1>4

LEMMA OwnedStep ==
  ASSUME RefInv, NEW t \in Threads, Moves(t),
         \A c \in Channels \ spoiled' : \A u \in Threads \ {t} :
           Owns(u, c) => lock'[c] = lock[c] /\ ref'[c] = ref[c],
         \A c \in Channels \ spoiled' : Owns(t, c)' =>
           /\ lock'[c] /\ (th'[t].at # "lower" => th'[t].seen = ref'[c])
           /\ \A u \in Threads \ {t} : ~Owns(u, c)
  PROVE  Owned'
<1>1. \A u \in Threads \ {t}, c \in Channels : (Owns(u, c)' <=> Owns(u, c)) /\ th'[u] = th[u]
  BY DEF Moves, Owns
<1>2. \A c \in Channels \ spoiled' : c \in Channels \ spoiled
  BY DEF Moves
<1>3. \A c \in Channels \ spoiled' : \A u \in Threads \ {t} : Owns(u, c) =>
         /\ lock[c] /\ (th[u].at # "lower" => th[u].seen = ref[c])
         /\ \A v \in Threads \ {t} : Owns(v, c) => v = u
  BY <1>2 DEF RefInv, Owned
<1> QED
  BY <1>1, <1>3 DEF Owned

LEMMA CountedStep ==
  ASSUME CntInv, NEW t \in Threads, Moves(t),
         \A c \in Channels \ spoiled' : \A u \in Threads \ {t} :
           Counting(u, c) => regs'[c] = regs[c] /\ count'[c] = count[c],
         \A c \in Channels \ spoiled' : Counting(t, c)' =>
           /\ th'[t].val = regs'[c] /\ (th'[t].at # "rewriting" => th'[t].seen = count'[c][th'[t].slot])
           /\ \A u \in Threads \ {t} : ~Counting(u, c)
  PROVE  Counted'
<1>1. \A u \in Threads \ {t}, c \in Channels : (Counting(u, c)' <=> Counting(u, c)) /\ th'[u] = th[u]
  BY DEF Moves, Counting
<1>2. \A c \in Channels \ spoiled' : c \in Channels \ spoiled
  BY DEF Moves
<1>3. \A c \in Channels \ spoiled' : \A u \in Threads \ {t} : Counting(u, c) =>
         /\ th[u].val = regs[c] /\ (th[u].at # "rewriting" => th[u].seen = count[c][th[u].slot])
         /\ \A v \in Threads \ {t} : Counting(v, c) => v = u
  BY <1>2 DEF CntInv, Counted
<1> QED
  BY <1>1, <1>3 DEF Counted

LEMMA RewritesStep ==
  ASSUME Typed, CntInv, NEW t \in Threads, Moves(t),
         \A u \in Threads \ {t} : \A q \in Routes :
           th[u].at = "rewriting" /\ th[u].old \notin spoiled' /\ q = th[u].route /\ (\A v \in Threads : ~On(v, q)) =>
             chan'[q] = chan[q] /\ ~On(t, q)',
         \A q \in Routes : th'[t].at = "rewriting" /\ th'[t].old \notin spoiled' /\ q = th'[t].route =>
             chan'[q] = th'[t].old /\ \A u \in Threads : ~On(u, q)',
         th'[t].at = "rewriting" => th'[t].route \in Routes
  PROVE  Rewrites'
<1>1. SUFFICES ASSUME NEW c \in Channels \ spoiled', NEW u \in Threads, th'[u].at = "rewriting", th'[u].old = c,
                      NEW q, q = th'[u].route
               PROVE  chan'[q] = c /\ \A v \in Threads : ~On(v, q)'
  BY DEF Rewrites, On
<1>2. CASE u = t
  BY <1>1, <1>2
<1>3. CASE u # t
  <2>1. th[u].at = "rewriting" /\ th[u].old = c /\ q = th[u].route /\ c \in Channels \ spoiled
    BY <1>1, <1>3 DEF Moves
  <2>2. chan[q] = c /\ \A v \in Threads : ~On(v, q)
    BY <2>1 DEF CntInv, Rewrites
  <2>3. q \in Routes
    BY <2>1 DEF Typed, Works, Work
  <2>4. chan'[q] = chan[q] /\ ~On(t, q)'
    BY <1>1, <1>3, <2>1, <2>2, <2>3
  <2>5. \A v \in Threads \ {t} : On(v, q)' <=> On(v, q)
    BY DEF Moves, On
  <2> QED
    BY <2>2, <2>4, <2>5
<1> QED
  BY <1>2, <1>3

\* While a channel is not spoiled, one thread at a time is on a route.
LEMMA OneOn ==
  ASSUME RowInv, RefInv, NEW t \in Threads, Moves(t), NEW c \in Channels \ spoiled'
  PROVE  /\ c \in Channels \ spoiled /\ tangled = {}
         /\ \A r \in Routes, u \in Threads : On(u, r) => lock[r] /\ \A v \in Threads : On(v, r) => v = u
<1>1. c \in Channels \ spoiled /\ tangled = {}
  BY DEF Moves, RefInv, Spoils
<1> QED
  BY <1>1 DEF RowInv, Alone

\* A step that leaves all sets of users, and what is counted of them.
LEMMA ExactStay ==
  ASSUME NEW t \in Threads, NEW r \in Routes, Only(t, r), Moves(t), RefInv, UNCHANGED <<ref,
         enable>>,
         \A c \in Channels \ spoiled' : (Refs(r, c)' <=> Refs(r, c))
  PROVE  RefsExact'
<1>1. \A c \in Channels \ spoiled' : c \in Channels \ spoiled /\ RefsOf(c)' = RefsOf(c)
  BY SetsChange DEF Moves
<1> QED
  BY <1>1 DEF RefInv, RefsExact

LEMMA CntsStay ==
  ASSUME NEW t \in Threads, NEW r \in Routes, Only(t, r), Moves(t), CntInv, UNCHANGED <<count,
         regs>>,
         \A c \in Channels \ spoiled' : (Cnts(r, c)' <=> Cnts(r, c))
  PROVE  CntsExact'
<1>1. \A c \in Channels \ spoiled' : c \in Channels \ spoiled /\ \A s \in Slots : CntsOf(c, s)' = CntsOf(c, s)
  BY SetsChange DEF Moves
<1> QED
  BY <1>1 DEF CntInv, CntsExact

LEMMA CountsRouteTake ==
  ASSUME Typed, TypeOK, TypeOK', RowInv, RefInv, NEW t \in Threads, RouteTake(t)
  PROVE  RefInv' /\ (CntInv => CntInv')
<1>0. DOMAIN th = Threads /\ Work(th[t]) /\ DOMAIN th[t] = Fields /\ th[t].at = "routeFree"
  BY DEF Typed, Works, Work, RouteTake, Here
<1>1. SUFFICES ASSUME NEW r \in Routes, r = th[t].route PROVE RefInv' /\ (CntInv => CntInv')
  BY <1>0 DEF Work
<1>2. /\ th'[t].at = (IF chan[r] = None THEN "new" ELSE "old") /\ th'[t].route = r /\ th'[t].old = chan[r]
      /\ \A u \in Threads \ {t} : th'[u] = th[u]
      /\ lock' = [lock EXCEPT ![r] = TRUE]
      /\ UNCHANGED <<ref, enable, count, regs, chan>>
      /\ IF lock[r] \/ \E u \in Threads : Here(u, "rewriting") /\ th[u].route = r
         THEN spoiled' = Channels /\ tangled' = tangled \cup {r} ELSE UNCHANGED <<spoiled, tangled>>
  BY <1>0, <1>1 DEF RouteTake, Tangle, route, chans, Fields
<1>3. Moves(t) /\ Only(t, r) /\ \A c \in Channels : lock'[c] = lock[c]
  <2>1. Only(t, r)
    BY <1>0, <1>2 DEF Only, On, Inside
  <2>2. Moves(t)
    BY <1>2 DEF Moves, TypeOK
  <2>3. \A c \in Channels : c # r
    BY RoutesAssumption
  <2> QED
    BY <1>2, <2>1, <2>2, <2>3 DEF TypeOK, Items
<1>4. \A c \in Channels : ~Owns(t, c)' /\ ~Counting(t, c)'
  BY <1>2 DEF Owns, Counting
<1>5. /\ Spoils' /\ Points'
  BY <1>1, <1>2, <1>3, PointsStep DEF Leaving, Entering
<1>6. Owned'
  BY <1>2, <1>3, <1>4, OwnedStep
<1>7. ASSUME NEW c \in Channels \ spoiled'
      PROVE  /\ Refs(r, c)' <=> Refs(r, c)
             /\ Cnts(r, c)' <=> Cnts(r, c)
  <2>1. ~lock[r]
    BY <1>2, <1>7
  <2>2. \A u \in Threads : ~On(u, r)
    BY <1>3, <1>7, <2>1, OneOn
  <2>3. On(t, r)' /\ \A u \in Threads : On(u, r)' => u = t
    BY <1>2, <2>2 DEF On, Inside
  <2>4. c # None
    BY RoutesAssumption DEF Items
  <2>5. /\ (Refs(r, c) <=> chan[r] = c) /\ (Cnts(r, c) <=> chan[r] = c)
        /\ Refs(r, c)' <=> \/ th'[t].at \in Entering /\ chan'[r] = c
                           \/ th'[t].at \in Pointing /\ th'[t].to = c
        /\ Cnts(r, c)' <=> th'[t].at \in Leaving /\ chan'[r] = c
    BY <2>2, <2>3, OnlyOne
  <2> QED
    BY <1>2, <2>4, <2>5 DEF Entering, Leaving, Pointing
<1>8. RefsExact'
  BY <1>2, <1>3, <1>7, ExactStay
<1>9. ASSUME CntInv PROVE CntInv'
  <2>1. Counted'
    BY <1>2, <1>3, <1>4, <1>9, CountedStep
  <2>2. CntsExact'
    BY <1>2, <1>3, <1>7, <1>9, CntsStay
  <2>3. \A u \in Threads \ {t} : \A q \in Routes :
           th[u].at = "rewriting" /\ th[u].old \notin spoiled' /\ q = th[u].route =>
             chan'[q] = chan[q] /\ ~On(t, q)'
    <3>1. ASSUME NEW u \in Threads \ {t}, th[u].at = "rewriting", th[u].old \notin spoiled' PROVE th[u].route # r
      BY <1>2, <3>1 DEF Here, Typed, Works, Work
    <3> QED
      BY <1>2, <3>1 DEF On
  <2>4. Rewrites'
    BY <1>2, <1>3, <1>9, <2>3, RewritesStep
  <2> QED
    BY <2>1, <2>2, <2>4 DEF CntInv
<1> QED
  BY <1>5, <1>6, <1>8, <1>9 DEF RefInv

LEMMA CountsChannelTake ==
  ASSUME Typed, TypeOK, TypeOK', RowInv, RefInv, NEW t \in Threads, OldTake(t) \/ NewTake(t)
  PROVE  RefInv' /\ (CntInv => CntInv')
<1>0. DOMAIN th = Threads /\ Work(th[t]) /\ DOMAIN th[t] = Fields
  BY DEF Typed, Works, Work
<1>1. PICK d \in Channels :
        /\ \/ th[t].at = "oldFree" /\ th'[t].at = "oldHeld" /\ d = th[t].old
           \/ th[t].at = "newFree" /\ th'[t].at = "newHeld" /\ d = th[t].to
        /\ lock' = [lock EXCEPT ![d] = TRUE] /\ th'[t].seen = ref[d]
        /\ spoiled' = IF lock[d] THEN spoiled \cup {d} ELSE spoiled
  <2>1. CASE OldTake(t)
    <3>1. th[t].at = "oldFree" /\ Source(t) = th[t].old /\ th[t].old \in Channels
      BY <1>0, <2>1 DEF OldTake, ChannelTake, Here, Source, Work
    <3> QED
      BY <1>0, <2>1, <3>1 DEF OldTake, ChannelTake, Fields
  <2>2. CASE NewTake(t)
    <3>1. th[t].at = "newFree" /\ Source(t) = th[t].to /\ th[t].to \in Channels
      BY <1>0, <2>2 DEF NewTake, ChannelTake, Here, Source, Work
    <3> QED
      BY <1>0, <2>2, <3>1 DEF NewTake, ChannelTake, Fields
  <2> QED
    BY <2>1, <2>2
<1>2. SUFFICES ASSUME NEW r \in Routes, r = th[t].route PROVE RefInv' /\ (CntInv => CntInv')
  BY <1>0, <1>1 DEF Work, Inside
<1>3. /\ th'[t].route = r /\ th'[t].old = th[t].old /\ th'[t].to = th[t].to
      /\ \A u \in Threads \ {t} : th'[u] = th[u]
      /\ UNCHANGED <<ref, enable, count, regs, chan, tangled>>
  BY <1>0, <1>2 DEF OldTake, NewTake, ChannelTake, chans, routes, Fields
<1>4. Only(t, r)
  BY <1>2, <1>3 DEF Only, On
<1>5. Moves(t)
  BY <1>1, <1>3 DEF Moves, TypeOK
<1>6. \A c \in Channels \ {d} : lock'[c] = lock[c]
  BY <1>1 DEF TypeOK
<1>7. d \notin spoiled' => lock'[d] /\ ~lock[d] /\ \A u \in Threads : ~Owns(u, d)
  <2>1. d \notin spoiled' => lock'[d] /\ ~lock[d] /\ d \notin spoiled
    BY <1>1 DEF TypeOK, Items
  <2> QED
    BY <2>1 DEF RefInv, Owned
<1>8. \A c \in Channels : ~Counting(t, c)' /\ (Owns(t, c)' => c = d)
  BY <1>1, <1>3 DEF Owns, Counting
<1>9. Spoils' /\ Points'
  <2>1. tangled' = {} => /\ th'[t].at \in Leaving => chan'[r] = th'[t].old
                         /\ th'[t].at # "raise"
    BY <1>1, <1>2, <1>3 DEF RefInv, Points, Leaving, Entering
  <2> QED
    BY <1>2, <1>3, <1>5, <2>1, PointsStep
<1>10. Owned'
  <2>1. \A c \in Channels \ spoiled' : \A u \in Threads \ {t} :
           Owns(u, c) => lock'[c] = lock[c] /\ ref'[c] = ref[c]
    BY <1>3, <1>6, <1>7
  <2>2. \A c \in Channels \ spoiled' : Owns(t, c)' =>
           /\ lock'[c] /\ (th'[t].at # "lower" => th'[t].seen = ref'[c])
           /\ \A u \in Threads \ {t} : ~Owns(u, c)
    BY <1>1, <1>3, <1>7, <1>8
  <2> QED
    BY <1>5, <2>1, <2>2, OwnedStep
<1>11. ASSUME NEW c \in Channels \ spoiled'
       PROVE  /\ Refs(r, c)' <=> Refs(r, c)
              /\ Cnts(r, c)' <=> Cnts(r, c)
  <2>1. On(t, r) /\ On(t, r)'
    BY <1>1, <1>2, <1>3 DEF On, Inside
  <2>2. \A u \in Threads : On(u, r) => u = t
    BY <1>5, <2>1, OneOn
  <2>3. \A u \in Threads : On(u, r)' => u = t
    BY <1>3, <2>2 DEF On
  <2>4. /\ Refs(r, c) <=> \/ th[t].at \in Entering /\ chan[r] = c
                          \/ th[t].at \in Pointing /\ th[t].to = c
        /\ Cnts(r, c) <=> th[t].at \in Leaving /\ chan[r] = c
        /\ Refs(r, c)' <=> \/ th'[t].at \in Entering /\ chan'[r] = c
                           \/ th'[t].at \in Pointing /\ th'[t].to = c
        /\ Cnts(r, c)' <=> th'[t].at \in Leaving /\ chan'[r] = c
    BY <2>1, <2>2, <2>3, OnlyOne
  <2> QED
    BY <1>1, <1>3, <2>4 DEF Entering, Leaving, Pointing
<1>12. RefsExact'
  BY <1>3, <1>4, <1>5, <1>11, ExactStay
<1>13. ASSUME CntInv PROVE CntInv'
  <2>1. Counted'
    BY <1>3, <1>5, <1>8, <1>13, CountedStep
  <2>2. CntsExact'
    BY <1>3, <1>4, <1>5, <1>11, <1>13, CntsStay
  <2>3. Rewrites'
    <3>1. th'[t].at # "rewriting" /\ On(t, r)
      BY <1>1, <1>2 DEF On, Inside
    <3>2. \A q \in Routes : On(t, q)' => On(t, q)
      BY <1>3, <3>1 DEF On
    <3> QED
      BY <1>3, <1>5, <1>13, <3>1, <3>2, RewritesStep
  <2> QED
    BY <2>1, <2>2, <2>3 DEF CntInv
<1> QED
  BY <1>9, <1>10, <1>12, <1>13 DEF RefInv

\* Thread t is on route r, and goes on or leaves it.
LEMMA Phase ==
  ASSUME RowInv, RefInv, NEW t \in Threads, NEW r \in Routes, Moves(t), On(t, r),
         th'[t].at \in Inside => th'[t].route = r, NEW c \in Channels \ spoiled'
  PROVE  /\ c \in Channels \ spoiled /\ tangled = {} /\ \A u \in Threads \ {t} : ~On(u, r)
         /\ Refs(r, c) <=> \/ th[t].at \in Entering /\ chan[r] = c
                           \/ th[t].at \in Pointing /\ th[t].to = c
         /\ Cnts(r, c) <=> th[t].at \in Leaving /\ chan[r] = c
         /\ Refs(r, c)' <=> IF th'[t].at \in Inside
                            THEN \/ th'[t].at \in Entering /\ chan'[r] = c
                                 \/ th'[t].at \in Pointing /\ th'[t].to = c
                            ELSE chan'[r] = c
         /\ Cnts(r, c)' <=> (th'[t].at \in Inside => th'[t].at \in Leaving) /\ chan'[r] = c
<1>1. /\ c \in Channels \ spoiled /\ tangled = {} /\ \A u \in Threads \ {t} : ~On(u, r)
  BY OneOn
<1>2. \A u \in Threads \ {t} : ~On(u, r)'
  BY <1>1 DEF Moves, On
<1>3. On(t, r)' <=> th'[t].at \in Inside
  BY DEF On
<1> QED
  BY <1>1, <1>2, <1>3, OnlyOne

\* Only the channel of route r changes.
LEMMA NotOthers ==
  ASSUME Typed, RowInv, NEW t \in Threads, NEW r \in Routes, On(t, r),
         \A q \in Routes \ {r} : chan'[q] = chan[q]
  PROVE  tangled = {} => \A u \in Threads \ {t} : th[u].at \in Inside => chan'[th[u].route] = chan[th[u].route]
<1> SUFFICES ASSUME tangled = {}, NEW u \in Threads \ {t}, th[u].at \in Inside, NEW q, q = th[u].route
             PROVE  chan'[q] = chan[q]
  OBVIOUS
<1>1. q \in Routes /\ On(u, q)
  BY DEF Typed, Works, Work, On
<1>2. q # r
  BY <1>1 DEF RowInv, Alone
<1> QED
  BY <1>1, <1>2

\* What a thread that was on r and is not rewriting leaves to those that do.
LEMMA NotRewritten ==
  ASSUME Typed, CntInv, NEW t \in Threads, NEW r \in Routes, Moves(t), On(t, r),
         th'[t].at \in Inside => th'[t].route = r, th'[t].at # "rewriting",
         \A q \in Routes \ {r} : chan'[q] = chan[q]
  PROVE  Rewrites'
<1>1. \A q \in Routes : On(t, q)' => On(t, q)
  BY DEF On
<1>2. \A q \in Routes : (\A v \in Threads : ~On(v, q)) => q # r
  OBVIOUS
<1> QED
  BY <1>1, <1>2, RewritesStep

LEMMA CountsOldPut ==
  ASSUME Typed, TypeOK, TypeOK', RowInv, RefInv, NEW t \in Threads, OldPut(t)
  PROVE  RefInv' /\ (CntInv => CntInv')
<1>0. DOMAIN th = Threads /\ Work(th[t]) /\ DOMAIN th[t] = Fields /\ th[t].at = "oldHeld"
  BY DEF Typed, Works, Work, OldPut, Here
<1>1. SUFFICES ASSUME NEW r \in Routes, r = th[t].route, NEW d \in Channels, d = th[t].old,
                      NEW s \in Slots, s = th[t].slot
               PROVE  RefInv' /\ (CntInv => CntInv')
  BY <1>0 DEF Work, Inside
<1>2. /\ th'[t].at = "lower" /\ th'[t].route = r /\ th'[t].old = d /\ th'[t].to = th[t].to /\ th'[t].slot = s
      /\ th'[t].seen = count[d][s] /\ th'[t].val = regs[d]
      /\ \A u \in Threads \ {t} : th'[u] = th[u]
  BY <1>0, <1>1 DEF OldPut, ReadCounts, Fields
<1>3. /\ UNCHANGED <<count, regs, chan, tangled>>
      /\ spoiled' = IF \E u \in Threads \ {t} : Counting(u, d) THEN spoiled \cup {d} ELSE spoiled
      /\ ref' = [ref EXCEPT ![d] = th[t].seen - 1]
      /\ enable' = IF th[t].seen <= 1 THEN [enable EXCEPT ![d] = FALSE] ELSE enable
      /\ lock' = IF th[t].to = None THEN [lock EXCEPT ![d] = FALSE] ELSE lock
  BY <1>1 DEF OldPut, ReadCounts, Begins, routes
<1>4. Only(t, r) /\ On(t, r) /\ th'[t].at \in Inside
  BY <1>0, <1>1, <1>2, <1>3 DEF Only, On, Inside
<1>5. Moves(t)
  BY <1>2, <1>3 DEF Moves, TypeOK
<1>6. Owns(t, d) /\ \A c \in Channels : Owns(t, c)' => c = d /\ th[t].to # None
  BY <1>0, <1>1, <1>2 DEF Owns
<1>7. d \notin spoiled' => /\ lock[d] /\ th[t].seen = ref[d]
                           /\ \A u \in Threads \ {t} : ~Owns(u, d)
                           /\ \A u \in Threads \ {t} : ~Counting(u, d)
  <2>1. d \notin spoiled' => d \notin spoiled /\ \A u \in Threads \ {t} : ~Counting(u, d)
    BY <1>3
  <2> QED
    BY <1>0, <1>6, <2>1 DEF RefInv, Owned
<1>8. \A c \in Channels \ {d} : ref'[c] = ref[c] /\ enable'[c] = enable[c] /\ lock'[c] = lock[c]
  BY <1>3 DEF TypeOK, Items
<1>9. Spoils' /\ Points'
  <2>1. tangled' = {} => chan'[r] = d
    BY <1>0, <1>1, <1>3 DEF RefInv, Points, Leaving, Entering
  <2> QED
    BY <1>1, <1>2, <1>3, <1>5, <2>1, PointsStep
<1>10. Owned'
  <2>1. \A c \in Channels \ spoiled' : \A u \in Threads \ {t} :
           Owns(u, c) => lock'[c] = lock[c] /\ ref'[c] = ref[c]
    BY <1>7, <1>8
  <2>2. \A c \in Channels \ spoiled' : Owns(t, c)' =>
           /\ lock'[c] /\ (th'[t].at # "lower" => th'[t].seen = ref'[c])
           /\ \A u \in Threads \ {t} : ~Owns(u, c)
    BY <1>2, <1>3, <1>6, <1>7
  <2> QED
    BY <1>5, <2>1, <2>2, OwnedStep
<1>11. ASSUME NEW c \in Channels \ spoiled'
       PROVE  /\ chan[r] = d /\ c \notin spoiled
              /\ Refs(r, c) <=> c = d
              /\ ~Refs(r, c)'
              /\ Cnts(r, c)' <=> Cnts(r, c)
  <2>1. /\ c \in Channels \ spoiled /\ tangled = {}
        /\ Refs(r, c) <=> \/ th[t].at \in Entering /\ chan[r] = c
                          \/ th[t].at \in Pointing /\ th[t].to = c
        /\ Cnts(r, c) <=> th[t].at \in Leaving /\ chan[r] = c
        /\ Refs(r, c)' <=> \/ th'[t].at \in Entering /\ chan'[r] = c
                           \/ th'[t].at \in Pointing /\ th'[t].to = c
        /\ Cnts(r, c)' <=> th'[t].at \in Leaving /\ chan'[r] = c
    BY <1>2, <1>4, <1>5, Phase
  <2>2. chan[r] = d
    BY <1>0, <1>1, <2>1 DEF RefInv, Points, Leaving, Entering
  <2> QED
    BY <1>0, <1>2, <1>3, <2>1, <2>2 DEF Entering, Leaving, Pointing
<1>12. RefsExact'
  <2>1. SUFFICES ASSUME NEW c \in Channels \ spoiled'
                 PROVE  ref'[c] = Cardinality(RefsOf(c)') /\ (enable'[c] <=> RefsOf(c)' # {})
    BY DEF RefsExact
  <2>2. ref[c] = Cardinality(RefsOf(c)) /\ (enable[c] <=> RefsOf(c) # {})
    BY <1>11 DEF RefInv, RefsExact
  <2>3. CASE c = d
    <3>1. RefsOf(c)' = RefsOf(c) \ {r} /\ r \in RefsOf(c)
      BY <1>4, <1>11, <2>3, SetsChange
    <3>2. RefsOf(c) \in SUBSET Routes /\ RefsOf(c) \ {r} \in SUBSET Routes
      BY DEF RefsOf
    <3>3. /\ Cardinality(RefsOf(c)) \in Nat
          /\ Cardinality(RefsOf(c) \ {r}) = Cardinality(RefsOf(c)) - 1
      BY <3>1, <3>2, OneMore
    <3>4. Cardinality(RefsOf(c) \ {r}) \in Nat /\ (Cardinality(RefsOf(c) \ {r}) = 0 <=> RefsOf(c) \ {r} = {})
      BY <3>2, OneMore
    <3>5. th[t].seen = ref[d]
      BY <1>7, <2>3
    <3>6. ref'[c] = ref[c] - 1 /\ enable'[c] = (IF ref[c] <= 1 THEN FALSE ELSE enable[c])
      BY <1>3, <2>3, <3>5 DEF TypeOK
    <3> DEFINE n == Cardinality(RefsOf(c))
               m == Cardinality(RefsOf(c) \ {r})
    <3>7. n \in Nat /\ m \in Nat /\ m = n - 1 /\ (m = 0 <=> RefsOf(c)' = {}) /\ ref[c] = n /\ enable[c]
      BY <2>2, <3>1, <3>3, <3>4
    <3>8. Cardinality(RefsOf(c)') = m
      BY <3>1
    <3> HIDE DEF n, m
    <3> QED
      BY <3>6, <3>7, <3>8
  <2>4. CASE c # d
    <3>1. RefsOf(c)' = RefsOf(c)
      BY <1>4, <1>11, <2>4, SetsChange
    <3> QED
      BY <1>8, <2>2, <2>4, <3>1
  <2> QED
    BY <2>3, <2>4
<1>13. ASSUME CntInv PROVE CntInv'
  <2>1. Counted'
    <3>1. \A c \in Channels : Counting(t, c)' => c = d
      BY <1>2 DEF Counting
    <3> QED
      BY <1>2, <1>3, <1>5, <1>7, <1>13, <3>1, CountedStep
  <2>2. CntsExact'
    BY <1>3, <1>4, <1>5, <1>11, <1>13, CntsStay
  <2>3. Rewrites'
    BY <1>2, <1>3, <1>4, <1>5, <1>13, NotRewritten
  <2> QED
    BY <2>1, <2>2, <2>3 DEF CntInv
<1> QED
  BY <1>9, <1>10, <1>12, <1>13 DEF RefInv

LEMMA CountsNewPut ==
  ASSUME Typed, TypeOK, TypeOK', RowInv, RefInv, NEW t \in Threads, NewPut(t)
  PROVE  RefInv' /\ (CntInv => CntInv')
<1>0. DOMAIN th = Threads /\ Work(th[t]) /\ DOMAIN th[t] = Fields /\ th[t].at = "newHeld"
  BY DEF Typed, Works, Work, NewPut, Here
<1>1. SUFFICES ASSUME NEW r \in Routes, r = th[t].route, NEW d \in Channels, d = th[t].to
               PROVE  RefInv' /\ (CntInv => CntInv')
  BY <1>0 DEF Work, Inside
<1>2. /\ th'[t].at = "point" /\ th'[t].route = r /\ th'[t].to = d
      /\ \A u \in Threads \ {t} : th'[u] = th[u]
  BY <1>0, <1>1 DEF NewPut, Fields
<1>3. /\ UNCHANGED <<count, regs, chan, spoiled, tangled>>
      /\ ref' = [ref EXCEPT ![d] = th[t].seen + 1]
      /\ enable' = IF ~enable[d] THEN [enable EXCEPT ![d] = TRUE] ELSE enable
      /\ lock' = [lock EXCEPT ![d] = FALSE]
  BY <1>1 DEF NewPut, routes
<1>4. Only(t, r) /\ On(t, r) /\ th'[t].at \in Inside
  BY <1>0, <1>1, <1>2, <1>3 DEF Only, On, Inside
<1>5. Moves(t)
  BY <1>2, <1>3 DEF Moves, TypeOK
<1>6. Owns(t, d) /\ \A c \in Channels : ~Owns(t, c)' /\ ~Counting(t, c)'
  BY <1>0, <1>1, <1>2 DEF Owns, Counting
<1>7. d \notin spoiled => th[t].seen = ref[d] /\ \A u \in Threads \ {t} : ~Owns(u, d)
  BY <1>0, <1>6 DEF RefInv, Owned
<1>8. \A c \in Channels \ {d} : ref'[c] = ref[c] /\ enable'[c] = enable[c] /\ lock'[c] = lock[c]
  BY <1>3 DEF TypeOK, Items
<1>9. Spoils' /\ Points'
  BY <1>1, <1>2, <1>3, <1>5, PointsStep DEF Leaving, Entering
<1>10. Owned'
  <2>1. \A c \in Channels \ spoiled' : \A u \in Threads \ {t} :
           Owns(u, c) => lock'[c] = lock[c] /\ ref'[c] = ref[c]
    BY <1>3, <1>7, <1>8
  <2> QED
    BY <1>5, <1>6, <2>1, OwnedStep
<1>11. ASSUME NEW c \in Channels \ spoiled'
       PROVE  /\ c \notin spoiled /\ ~Refs(r, c)
              /\ Refs(r, c)' <=> c = d
              /\ Cnts(r, c)' <=> Cnts(r, c)
  <2>1. /\ c \in Channels \ spoiled /\ tangled = {}
        /\ Refs(r, c) <=> \/ th[t].at \in Entering /\ chan[r] = c
                          \/ th[t].at \in Pointing /\ th[t].to = c
        /\ Cnts(r, c) <=> th[t].at \in Leaving /\ chan[r] = c
        /\ Refs(r, c)' <=> \/ th'[t].at \in Entering /\ chan'[r] = c
                           \/ th'[t].at \in Pointing /\ th'[t].to = c
        /\ Cnts(r, c)' <=> th'[t].at \in Leaving /\ chan'[r] = c
    BY <1>2, <1>4, <1>5, Phase
  <2> QED
    BY <1>0, <1>2, <1>3, <2>1 DEF Entering, Leaving, Pointing
<1>12. RefsExact'
  <2>1. SUFFICES ASSUME NEW c \in Channels \ spoiled'
                 PROVE  ref'[c] = Cardinality(RefsOf(c)') /\ (enable'[c] <=> RefsOf(c)' # {})
    BY DEF RefsExact
  <2>2. ref[c] = Cardinality(RefsOf(c)) /\ (enable[c] <=> RefsOf(c) # {})
    BY <1>11 DEF RefInv, RefsExact
  <2>3. CASE c = d
    <3>1. RefsOf(c)' = RefsOf(c) \cup {r} /\ r \notin RefsOf(c)
      BY <1>4, <1>11, <2>3, SetsChange
    <3>2. RefsOf(c) \in SUBSET Routes
      BY DEF RefsOf
    <3>3. Cardinality(RefsOf(c) \cup {r}) = Cardinality(RefsOf(c)) + 1
      BY <3>1, <3>2, OneMore
    <3>4. ref'[c] = ref[c] + 1 /\ enable'[c]
      BY <1>3, <1>7, <1>11, <2>3 DEF TypeOK
    <3> QED
      BY <2>2, <3>1, <3>3, <3>4
  <2>4. CASE c # d
    <3>1. RefsOf(c)' = RefsOf(c)
      BY <1>4, <1>11, <2>4, SetsChange
    <3> QED
      BY <1>8, <2>2, <2>4, <3>1
  <2> QED
    BY <2>3, <2>4
<1>13. ASSUME CntInv PROVE CntInv'
  <2>1. Counted'
    BY <1>3, <1>5, <1>6, <1>13, CountedStep
  <2>2. CntsExact'
    BY <1>3, <1>4, <1>5, <1>11, <1>13, CntsStay
  <2>3. Rewrites'
    BY <1>2, <1>3, <1>4, <1>5, <1>13, NotRewritten
  <2> QED
    BY <2>1, <2>2, <2>3 DEF CntInv
<1> QED
  BY <1>9, <1>10, <1>12, <1>13 DEF RefInv

\* One user less or more of channel d at slot s.
LEMMA Lowered ==
  ASSUME Few, Typed, TypeOK, CntInv, NEW t \in Threads, NEW r \in Routes, NEW d \in Channels,
         NEW s \in Slots,
         Only(t, r), th[t].at = "lower", d = th[t].old, s = th[t].slot, s = SlotOf[r], LowerCount(t), spoiled' = spoiled,
         \A c \in Channels \ spoiled : (Cnts(r, c) <=> c = d) /\ ~Cnts(r, c)'
  PROVE  CntsExact' /\ \A c \in Channels \ {d} : count'[c] = count[c] /\ regs'[c] = regs[c]
<1>1. /\ count' = [count EXCEPT ![d][s] = (th[t].seen + Byte - 1) % Byte]
      /\ regs' = IF (th[t].seen + Byte - 1) % Byte <= 0 THEN [regs EXCEPT ![d] = th[t].val \ {s}] ELSE regs
  BY DEF LowerCount
<1>2. /\ count \in [Channels -> [Slots -> 0..(Byte - 1)]] /\ regs \in [Channels -> SUBSET Slots]
  BY DEF TypeOK
<1>3. /\ \A c \in Channels \ {d} : count'[c] = count[c] /\ regs'[c] = regs[c]
      /\ \A e \in Slots \ {s} : count'[d][e] = count[d][e]
      /\ count'[d][s] = (th[t].seen + Byte - 1) % Byte
      /\ regs'[d] = IF (th[t].seen + Byte - 1) % Byte <= 0 THEN th[t].val \ {s} ELSE regs[d]
  BY <1>1, <1>2
<1>4. SUFFICES ASSUME NEW c \in Channels \ spoiled', NEW e \in Slots
               PROVE  count'[c][e] = Cardinality(CntsOf(c, e)') /\ (e \in regs'[c] <=> CntsOf(c, e)' # {})
  BY <1>3 DEF CntsExact
<1>5. c \in Channels \ spoiled /\ count[c][e] = Cardinality(CntsOf(c, e)) /\ (e \in regs[c] <=> CntsOf(c, e) # {})
  BY <1>4 DEF CntInv, CntsExact
<1>6. CASE c # d
  <2>1. CntsOf(c, e)' = CntsOf(c, e)
    BY <1>5, <1>6, SetsChange
  <2> QED
    BY <1>3, <1>5, <1>6, <2>1
<1>7. CASE c = d /\ e # s
  <2>1. CntsOf(c, e)' = CntsOf(c, e)
    BY <1>7, SetsChange
  <2>2. th[t].val = regs[d]
    BY <1>5, <1>7 DEF CntInv, Counted, Counting
  <2> QED
    BY <1>3, <1>5, <1>7, <2>1, <2>2
<1>8. CASE c = d /\ e = s
  <2>1. CntsOf(c, e)' = CntsOf(c, e) \ {r} /\ r \in CntsOf(c, e)
    BY <1>5, <1>8, SetsChange
  <2>2. th[t].val = regs[d] /\ th[t].seen = count[d][s]
    <3>1. Counting(t, d) /\ d \in Channels \ spoiled /\ th[t].at # "rewriting"
      BY <1>5, <1>8 DEF Counting
    <3>2. th[t].val = regs[d] /\ th[t].seen = count[d][th[t].slot]
      BY <3>1 DEF CntInv, Counted
    <3> QED
      BY <3>2
  <2> DEFINE S == CntsOf(c, e)
             n == Cardinality(S)
             m == Cardinality(S \ {r})
  <2>3. S \in SUBSET Routes /\ S \ {r} \in SUBSET Routes /\ S \in SUBSET Of(e, Routes)
    BY DEF CntsOf, Of
  <2>4. n \in Nat /\ n < Byte /\ m = n - 1 /\ m \in Nat /\ (m = 0 <=> S \ {r} = {})
    BY <2>1, <2>3, OneMore, FewCount
  <2>5. th[t].seen = n /\ CntsOf(c, e)' = S \ {r} /\ Cardinality(CntsOf(c, e)') = m /\ S # {}
    BY <1>5, <1>8, <2>1, <2>2
  <2> HIDE DEF S, n, m
  <2>6. (n + Byte - 1) % Byte = m
    BY <2>4, LessOne
  <2>7. count'[c][e] = m /\ regs'[c] = IF m <= 0 THEN regs[d] \ {s} ELSE regs[d]
    BY <1>3, <1>8, <2>2, <2>5, <2>6
  <2>8. e \in regs[d]
    BY <1>5, <1>8, <2>5 DEF S
  <2>9. m <= 0 <=> m = 0
    BY <2>4
  <2> QED
    BY <1>8, <2>4, <2>5, <2>7, <2>8, <2>9
<1> QED
  BY <1>6, <1>7, <1>8

LEMMA Raised ==
  ASSUME Few, Typed, TypeOK, CntInv, NEW t \in Threads, NEW r \in Routes, NEW d \in Channels,
         NEW s \in Slots,
         Only(t, r), th[t].at = "raise", d = th[t].to, s = th[t].slot, s = SlotOf[r], RaiseCount(t), spoiled' = spoiled,
         \A c \in Channels \ spoiled : ~Cnts(r, c) /\ (Cnts(r, c)' <=> c = d)
  PROVE  CntsExact' /\ \A c \in Channels \ {d} : count'[c] = count[c] /\ regs'[c] = regs[c]
<1>1. /\ count' = [count EXCEPT ![d][s] = IF th[t].seen <= 0 THEN 1 ELSE (count[d][s] + 1) % Byte]
      /\ regs' = [regs EXCEPT ![d] = th[t].val \cup {s}]
  BY DEF RaiseCount
<1>2. /\ count \in [Channels -> [Slots -> 0..(Byte - 1)]] /\ regs \in [Channels -> SUBSET Slots]
  BY DEF TypeOK
<1>3. /\ \A c \in Channels \ {d} : count'[c] = count[c] /\ regs'[c] = regs[c]
      /\ \A e \in Slots \ {s} : count'[d][e] = count[d][e]
      /\ count'[d][s] = IF th[t].seen <= 0 THEN 1 ELSE (count[d][s] + 1) % Byte
      /\ regs'[d] = th[t].val \cup {s}
  BY <1>1, <1>2
<1>4. SUFFICES ASSUME NEW c \in Channels \ spoiled', NEW e \in Slots
               PROVE  count'[c][e] = Cardinality(CntsOf(c, e)') /\ (e \in regs'[c] <=> CntsOf(c, e)' # {})
  BY <1>3 DEF CntsExact
<1>5. c \in Channels \ spoiled /\ count[c][e] = Cardinality(CntsOf(c, e)) /\ (e \in regs[c] <=> CntsOf(c, e) # {})
  BY <1>4 DEF CntInv, CntsExact
<1>6. CASE c # d
  <2>1. CntsOf(c, e)' = CntsOf(c, e)
    BY <1>5, <1>6, SetsChange
  <2> QED
    BY <1>3, <1>5, <1>6, <2>1
<1>7. CASE c = d /\ e # s
  <2>1. CntsOf(c, e)' = CntsOf(c, e)
    BY <1>7, SetsChange
  <2>2. th[t].val = regs[d]
    BY <1>5, <1>7 DEF CntInv, Counted, Counting
  <2> QED
    BY <1>3, <1>5, <1>7, <2>1, <2>2
<1>8. CASE c = d /\ e = s
  <2>1. CntsOf(c, e)' = CntsOf(c, e) \cup {r} /\ r \notin CntsOf(c, e)
    BY <1>5, <1>8, SetsChange
  <2>2. th[t].val = regs[d] /\ th[t].seen = count[d][s]
    <3>1. Counting(t, d) /\ d \in Channels \ spoiled /\ th[t].at # "rewriting"
      BY <1>5, <1>8 DEF Counting
    <3>2. th[t].val = regs[d] /\ th[t].seen = count[d][th[t].slot]
      BY <3>1 DEF CntInv, Counted
    <3> QED
      BY <3>2
  <2> DEFINE S == CntsOf(c, e)
             n == Cardinality(S)
             m == Cardinality(S \cup {r})
  <2>3. S \in SUBSET Routes /\ S \in SUBSET Of(e, Routes) /\ S \cup {r} \in SUBSET Of(e, Routes)
    BY <1>8 DEF CntsOf, Of
  <2>4. n \in Nat /\ n < Byte /\ m = n + 1 /\ m < Byte
    BY <2>1, <2>3, OneMore, FewCount
  <2>5. th[t].seen = n /\ count[d][s] = n /\ Cardinality(CntsOf(c, e)') = m /\ CntsOf(c, e)' # {}
    BY <1>5, <1>8, <2>1, <2>2
  <2> HIDE DEF S, n, m
  <2>6. (n + 1) % Byte = m
    BY <2>4, LessOne
  <2>7. count'[c][e] = IF n <= 0 THEN 1 ELSE m
    BY <1>3, <1>8, <2>5, <2>6
  <2>8. count'[c][e] = m
    BY <2>4, <2>7
  <2> QED
    BY <1>3, <1>8, <2>5, <2>8
<1> QED
  BY <1>6, <1>7, <1>8

LEMMA CountsLeaveOld ==
  ASSUME Typed, TypeOK, TypeOK', RowInv, RefInv, NEW t \in Threads, LeaveOld(t)
  PROVE  RefInv' /\ (Few /\ CntInv => CntInv')
<1>0. DOMAIN th = Threads /\ Work(th[t]) /\ DOMAIN th[t] = Fields /\ th[t].at = "lower" /\ th[t].to # None
  BY DEF Typed, Works, Work, LeaveOld, Here
<1>1. SUFFICES ASSUME NEW r \in Routes, r = th[t].route, NEW d \in Channels, d = th[t].old,
                      NEW s \in Slots, s = th[t].slot
               PROVE  RefInv' /\ (Few /\ CntInv => CntInv')
  BY <1>0 DEF Work, Inside
<1>2. /\ th'[t].at = "new" /\ th'[t].route = r /\ th'[t].to = th[t].to
      /\ \A u \in Threads \ {t} : th'[u] = th[u]
  BY <1>0, <1>1 DEF LeaveOld, Fields
<1>3. /\ UNCHANGED <<ref, enable, chan, spoiled, tangled>> /\ LowerCount(t)
      /\ lock' = [lock EXCEPT ![d] = FALSE]
  BY <1>1 DEF LeaveOld, hist
<1>4. Only(t, r) /\ On(t, r) /\ th'[t].at \in Inside
  BY <1>0, <1>1, <1>2, <1>3 DEF Only, On, Inside
<1>5. Moves(t)
  BY <1>2, <1>3 DEF Moves, TypeOK
<1>6. Owns(t, d) /\ Counting(t, d) /\ \A c \in Channels : ~Owns(t, c)' /\ ~Counting(t, c)'
  BY <1>0, <1>1, <1>2 DEF Owns, Counting
<1>7. d \notin spoiled => \A u \in Threads \ {t} : ~Owns(u, d)
  BY <1>6 DEF RefInv, Owned
<1>8. \A c \in Channels \ {d} : lock'[c] = lock[c]
  BY <1>3 DEF TypeOK, Items
<1>9. Spoils' /\ Points'
  BY <1>1, <1>2, <1>3, <1>5, PointsStep DEF Leaving, Entering
<1>10. Owned'
  <2>1. \A c \in Channels \ spoiled' : \A u \in Threads \ {t} :
           Owns(u, c) => lock'[c] = lock[c] /\ ref'[c] = ref[c]
    BY <1>3, <1>7, <1>8
  <2> QED
    BY <1>5, <1>6, <2>1, OwnedStep
<1>11. ASSUME NEW c \in Channels \ spoiled'
       PROVE  /\ ~Refs(r, c) /\ ~Refs(r, c)'
              /\ (Cnts(r, c) <=> c = d) /\ ~Cnts(r, c)'
  <2>1. /\ c \in Channels \ spoiled /\ tangled = {}
        /\ Refs(r, c) <=> \/ th[t].at \in Entering /\ chan[r] = c
                          \/ th[t].at \in Pointing /\ th[t].to = c
        /\ Cnts(r, c) <=> th[t].at \in Leaving /\ chan[r] = c
        /\ Refs(r, c)' <=> \/ th'[t].at \in Entering /\ chan'[r] = c
                           \/ th'[t].at \in Pointing /\ th'[t].to = c
        /\ Cnts(r, c)' <=> th'[t].at \in Leaving /\ chan'[r] = c
    BY <1>2, <1>4, <1>5, Phase
  <2>2. chan[r] = d
    BY <1>0, <1>1, <2>1 DEF RefInv, Points, Leaving
  <2> QED
    BY <1>0, <1>2, <2>1, <2>2 DEF Entering, Leaving, Pointing
<1>12. RefsExact'
  BY <1>3, <1>4, <1>5, <1>11, ExactStay
<1>13. ASSUME Few, CntInv PROVE CntInv'
  <2>1. s = SlotOf[r]
    BY <1>0, <1>1 DEF RowInv, AtHome, Homely, RoutePlaces, Inside, Of
  <2>2. CntsExact' /\ \A c \in Channels \ {d} : count'[c] = count[c] /\ regs'[c] = regs[c]
    BY <1>0, <1>1, <1>3, <1>4, <1>11, <1>13, <2>1, Lowered
  <2>3. d \notin spoiled => \A u \in Threads \ {t} : ~Counting(u, d)
    BY <1>6, <1>13 DEF CntInv, Counted
  <2>4. Counted'
    BY <1>3, <1>5, <1>6, <1>13, <2>2, <2>3, CountedStep
  <2>5. Rewrites'
    BY <1>2, <1>3, <1>4, <1>5, <1>13, NotRewritten
  <2> QED
    BY <2>2, <2>4, <2>5 DEF CntInv
<1> QED
  BY <1>9, <1>10, <1>12, <1>13 DEF RefInv

LEMMA CountsUnpoint ==
  ASSUME Typed, TypeOK, TypeOK', RowInv, RefInv, NEW t \in Threads, UnpointRoute(t)
  PROVE  RefInv' /\ (Few /\ CntInv => CntInv')
<1>0. DOMAIN th = Threads /\ Work(th[t]) /\ DOMAIN th[t] = Fields /\ th[t].at = "lower" /\ th[t].to = None
  BY DEF Typed, Works, Work, UnpointRoute, Here
<1>1. SUFFICES ASSUME NEW r \in Routes, r = th[t].route, NEW d \in Channels, d = th[t].old,
                      NEW s \in Slots, s = th[t].slot
               PROVE  RefInv' /\ (Few /\ CntInv => CntInv')
  BY <1>0 DEF Work, Inside
<1>2. /\ th'[t].at \in {"rows", "empty", "next"}
      /\ \A u \in Threads \ {t} : th'[u] = th[u]
  BY <1>0, <1>1 DEF UnpointRoute, Return, Caller, Fields
<1>3. /\ UNCHANGED <<ref, enable, spoiled, tangled>> /\ LowerCount(t)
      /\ lock' = [lock EXCEPT ![r] = FALSE]
      /\ chan' = [chan EXCEPT ![r] = None]
  BY <1>1 DEF UnpointRoute, route
<1>4. Only(t, r) /\ On(t, r) /\ th'[t].at \notin Inside
  BY <1>0, <1>1, <1>2, <1>3 DEF Only, On, Inside, TypeOK
<1>5. Moves(t)
  BY <1>2, <1>3 DEF Moves, TypeOK
<1>6. Counting(t, d) /\ \A c \in Channels : ~Owns(t, c)' /\ ~Counting(t, c)'
  BY <1>0, <1>1, <1>2 DEF Owns, Counting
<1>7. \A c \in Channels : c # r /\ c # None
  BY RoutesAssumption DEF Items
<1>8. (\A c \in Channels : lock'[c] = lock[c]) /\ chan'[r] = None /\ \A q \in Routes \ {r} : chan'[q] = chan[q]
  BY <1>3, <1>7 DEF TypeOK, Items
<1>9. Spoils' /\ Points'
  <2>1. tangled = {} => \A u \in Threads \ {t} : th[u].at \in Inside => chan'[th[u].route] = chan[th[u].route]
    BY <1>4, <1>8, NotOthers
  <2> QED
    BY <1>2, <1>4, <1>5, <2>1, PointsStep DEF Leaving, Entering
<1>10. Owned'
  BY <1>3, <1>5, <1>6, <1>8, OwnedStep
<1>11. ASSUME NEW c \in Channels \ spoiled'
       PROVE  /\ ~Refs(r, c) /\ ~Refs(r, c)'
              /\ (Cnts(r, c) <=> c = d) /\ ~Cnts(r, c)'
  <2>1. /\ c \in Channels \ spoiled /\ tangled = {}
        /\ Refs(r, c) <=> \/ th[t].at \in Entering /\ chan[r] = c
                          \/ th[t].at \in Pointing /\ th[t].to = c
        /\ Cnts(r, c) <=> th[t].at \in Leaving /\ chan[r] = c
        /\ Refs(r, c)' <=> chan'[r] = c
        /\ Cnts(r, c)' <=> chan'[r] = c
    BY <1>4, <1>5, Phase
  <2>2. chan[r] = d
    BY <1>0, <1>1, <2>1 DEF RefInv, Points, Leaving
  <2> QED
    BY <1>0, <1>7, <1>8, <2>1, <2>2 DEF Entering, Leaving, Pointing
<1>12. RefsExact'
  BY <1>3, <1>4, <1>5, <1>11, ExactStay
<1>13. ASSUME Few, CntInv PROVE CntInv'
  <2>1. s = SlotOf[r]
    BY <1>0, <1>1 DEF RowInv, AtHome, Homely, RoutePlaces, Inside, Of
  <2>2. CntsExact' /\ \A c \in Channels \ {d} : count'[c] = count[c] /\ regs'[c] = regs[c]
    BY <1>0, <1>1, <1>3, <1>4, <1>11, <1>13, <2>1, Lowered
  <2>3. d \notin spoiled => \A u \in Threads \ {t} : ~Counting(u, d)
    BY <1>6, <1>13 DEF CntInv, Counted
  <2>4. Counted'
    BY <1>3, <1>5, <1>6, <1>13, <2>2, <2>3, CountedStep
  <2>5. Rewrites'
    BY <1>2, <1>4, <1>5, <1>8, <1>13, NotRewritten
  <2> QED
    BY <2>2, <2>4, <2>5 DEF CntInv
<1> QED
  BY <1>9, <1>10, <1>12, <1>13 DEF RefInv

LEMMA CountsPoint ==
  ASSUME Typed, TypeOK, TypeOK', RowInv, RefInv, NEW t \in Threads, PointRoute(t)
  PROVE  RefInv' /\ (CntInv => CntInv')
<1>0. DOMAIN th = Threads /\ Work(th[t]) /\ DOMAIN th[t] = Fields /\ th[t].at = "point"
  BY DEF Typed, Works, Work, PointRoute, Here
<1>1. SUFFICES ASSUME NEW r \in Routes, r = th[t].route, NEW d \in Channels, d = th[t].to,
                      NEW s \in Slots, s = th[t].slot
               PROVE  RefInv' /\ (CntInv => CntInv')
  BY <1>0 DEF Work, Inside
<1>2. /\ th'[t].at = "raise" /\ th'[t].route = r /\ th'[t].to = d /\ th'[t].slot = s
      /\ th'[t].seen = count[d][s] /\ th'[t].val = regs[d]
      /\ \A u \in Threads \ {t} : th'[u] = th[u]
  BY <1>0, <1>1 DEF PointRoute, ReadCounts, Fields
<1>3. /\ UNCHANGED <<ref, enable, count, regs, lock, tangled>>
      /\ spoiled' = IF \E u \in Threads \ {t} : Counting(u, d) THEN spoiled \cup {d} ELSE spoiled
      /\ chan' = [chan EXCEPT ![r] = d]
  BY <1>1 DEF PointRoute, ReadCounts, Begins, chans, route
<1>4. Only(t, r) /\ On(t, r) /\ th'[t].at \in Inside
  BY <1>0, <1>1, <1>2, <1>3 DEF Only, On, Inside, TypeOK
<1>5. Moves(t)
  BY <1>2, <1>3 DEF Moves, TypeOK
<1>6. \A c \in Channels : ~Owns(t, c)' /\ (Counting(t, c)' => c = d)
  BY <1>2 DEF Owns, Counting
<1>7. d \notin spoiled' => \A u \in Threads \ {t} : ~Counting(u, d)
  BY <1>3
<1>8. chan'[r] = d /\ \A q \in Routes \ {r} : chan'[q] = chan[q]
  BY <1>3 DEF TypeOK
<1>9. Spoils' /\ Points'
  <2>1. tangled = {} => \A u \in Threads \ {t} : th[u].at \in Inside => chan'[th[u].route] = chan[th[u].route]
    BY <1>4, <1>8, NotOthers
  <2> QED
    BY <1>1, <1>2, <1>5, <1>8, <2>1, PointsStep DEF Leaving, Entering
<1>10. Owned'
  BY <1>3, <1>5, <1>6, OwnedStep
<1>11. ASSUME NEW c \in Channels \ spoiled'
       PROVE  (Refs(r, c)' <=> Refs(r, c)) /\ (Cnts(r, c)' <=> Cnts(r, c))
  <2>1. /\ Refs(r, c) <=> \/ th[t].at \in Entering /\ chan[r] = c
                          \/ th[t].at \in Pointing /\ th[t].to = c
        /\ Cnts(r, c) <=> th[t].at \in Leaving /\ chan[r] = c
        /\ Refs(r, c)' <=> \/ th'[t].at \in Entering /\ chan'[r] = c
                           \/ th'[t].at \in Pointing /\ th'[t].to = c
        /\ Cnts(r, c)' <=> th'[t].at \in Leaving /\ chan'[r] = c
    BY <1>2, <1>4, <1>5, Phase
  <2> QED
    BY <1>0, <1>1, <1>2, <2>1 DEF Entering, Leaving, Pointing
<1>12. RefsExact'
  BY <1>3, <1>4, <1>5, <1>11, ExactStay
<1>13. ASSUME CntInv PROVE CntInv'
  <2>1. Counted'
    BY <1>2, <1>3, <1>5, <1>6, <1>7, <1>13, CountedStep
  <2>2. CntsExact'
    BY <1>3, <1>4, <1>5, <1>11, <1>13, CntsStay
  <2>3. Rewrites'
    BY <1>2, <1>4, <1>5, <1>8, <1>13, NotRewritten
  <2> QED
    BY <2>1, <2>2, <2>3 DEF CntInv
<1> QED
  BY <1>9, <1>10, <1>12, <1>13 DEF RefInv

LEMMA CountsSave ==
  ASSUME Typed, TypeOK, TypeOK', RowInv, RefInv, NEW t \in Threads, SaveRoute(t)
  PROVE  RefInv' /\ (Few /\ CntInv => CntInv')
<1>0. DOMAIN th = Threads /\ Work(th[t]) /\ DOMAIN th[t] = Fields /\ th[t].at = "raise"
  BY DEF Typed, Works, Work, SaveRoute, Here
<1>1. SUFFICES ASSUME NEW r \in Routes, r = th[t].route, NEW d \in Channels, d = th[t].to,
                      NEW s \in Slots, s = th[t].slot
               PROVE  RefInv' /\ (Few /\ CntInv => CntInv')
  BY <1>0 DEF Work, Inside
<1>2. /\ th'[t].at \in {"rows", "empty", "next"}
      /\ \A u \in Threads \ {t} : th'[u] = th[u]
  BY <1>0, <1>1 DEF SaveRoute, Return, Caller, Fields
<1>3. /\ UNCHANGED <<ref, enable, chan, spoiled, tangled>> /\ RaiseCount(t)
      /\ lock' = [lock EXCEPT ![r] = FALSE]
  BY <1>1 DEF SaveRoute, route
<1>4. Only(t, r) /\ On(t, r) /\ th'[t].at \notin Inside
  BY <1>0, <1>1, <1>2, <1>3 DEF Only, On, Inside
<1>5. Moves(t)
  BY <1>2, <1>3 DEF Moves, TypeOK
<1>6. Counting(t, d) /\ \A c \in Channels : ~Owns(t, c)' /\ ~Counting(t, c)'
  BY <1>0, <1>1, <1>2 DEF Owns, Counting
<1>7. \A c \in Channels : c # r
  BY RoutesAssumption
<1>8. \A c \in Channels : lock'[c] = lock[c]
  BY <1>3, <1>7 DEF TypeOK, Items
<1>9. Spoils' /\ Points'
  BY <1>2, <1>3, <1>4, <1>5, PointsStep DEF Leaving, Entering
<1>10. Owned'
  BY <1>3, <1>5, <1>6, <1>8, OwnedStep
<1>11. ASSUME NEW c \in Channels \ spoiled'
       PROVE  /\ Refs(r, c)' <=> Refs(r, c)
              /\ ~Cnts(r, c) /\ (Cnts(r, c)' <=> c = d)
  <2>1. /\ c \in Channels \ spoiled /\ tangled = {}
        /\ Refs(r, c) <=> \/ th[t].at \in Entering /\ chan[r] = c
                          \/ th[t].at \in Pointing /\ th[t].to = c
        /\ Cnts(r, c) <=> th[t].at \in Leaving /\ chan[r] = c
        /\ Refs(r, c)' <=> chan'[r] = c
        /\ Cnts(r, c)' <=> chan'[r] = c
    BY <1>4, <1>5, Phase
  <2>2. chan[r] = d
    BY <1>0, <1>1, <2>1 DEF RefInv, Points
  <2> QED
    BY <1>0, <1>1, <1>3, <2>1, <2>2 DEF Entering, Leaving, Pointing
<1>12. RefsExact'
  BY <1>3, <1>4, <1>5, <1>11, ExactStay
<1>13. ASSUME Few, CntInv PROVE CntInv'
  <2>1. s = SlotOf[r]
    BY <1>0, <1>1 DEF RowInv, AtHome, Homely, RoutePlaces, Inside, Of
  <2>2. CntsExact' /\ \A c \in Channels \ {d} : count'[c] = count[c] /\ regs'[c] = regs[c]
    BY <1>0, <1>1, <1>3, <1>4, <1>11, <1>13, <2>1, Raised
  <2>3. d \notin spoiled => \A u \in Threads \ {t} : ~Counting(u, d)
    BY <1>6, <1>13 DEF CntInv, Counted
  <2>4. Counted'
    BY <1>3, <1>5, <1>6, <1>13, <2>2, <2>3, CountedStep
  <2>5. Rewrites'
    BY <1>2, <1>3, <1>4, <1>5, <1>13, NotRewritten
  <2> QED
    BY <2>2, <2>4, <2>5 DEF CntInv
<1> QED
  BY <1>9, <1>10, <1>12, <1>13 DEF RefInv

LEMMA OffRoute ==
  ASSUME NEW t \in Threads, Moves(t), UNCHANGED chan, \A q \in Routes : ~On(t, q) /\ ~On(t, q)'
  PROVE  /\ (\A c : RefsOf(c)' = RefsOf(c)) /\ \A c, s : CntsOf(c, s)' = CntsOf(c, s)
         /\ RefInv /\ UNCHANGED <<ref, enable>> => RefsExact'
         /\ CntInv /\ UNCHANGED <<count, regs>> => CntsExact'
<1>1. Only(t, None) /\ None \notin Routes
  BY RoutesAssumption DEF Only, Moves, Items
<1>2. \A q \in Routes : \A c : (Refs(q, c)' <=> Refs(q, c)) /\ (Cnts(q, c)' <=> Cnts(q, c))
  BY <1>1, OthersStay
<1>3. (\A c : RefsOf(c)' = RefsOf(c)) /\ \A c, s : CntsOf(c, s)' = CntsOf(c, s)
  BY <1>2 DEF RefsOf, CntsOf, Of
<1>4. \A c \in Channels \ spoiled' : c \in Channels \ spoiled
  BY DEF Moves
<1> QED
  BY <1>3, <1>4 DEF RefInv, RefsExact, CntInv, CntsExact

LEMMA CountsRewriteRead ==
  ASSUME Typed, TypeOK, TypeOK', RowInv, RefInv, NEW t \in Tasks, NEW r \in Routes, RewriteRead(t,
         r)
  PROVE  RefInv' /\ (CntInv => CntInv')
<1>0. t \in Threads /\ DOMAIN th = Threads /\ DOMAIN th[t] = Fields /\ th[t].at = "rewrite"
  BY DEF Typed, Works, Work, RewriteRead, Here, Threads
<1>1. SUFFICES ASSUME NEW d \in Channels, d = chan[r] PROVE RefInv' /\ (CntInv => CntInv')
  BY DEF RewriteRead, TypeOK
<1>2. /\ th'[t].at = "rewriting" /\ th'[t].route = r /\ th'[t].old = d /\ th'[t].val = regs[d]
      /\ \A u \in Threads \ {t} : th'[u] = th[u]
  BY <1>0, <1>1 DEF RewriteRead, Fields
<1>3. /\ UNCHANGED <<ref, enable, count, regs, chan, lock, tangled>>
      /\ spoiled' = IF lock[r] \/ \E u \in Threads \ {t} : Counting(u, d) THEN spoiled \cup {d} ELSE spoiled
  BY <1>1 DEF RewriteRead, Begins, chans, routes
<1>4. \A q \in Routes : ~On(t, q) /\ ~On(t, q)'
  BY <1>0, <1>2 DEF On, Inside
<1>5. Moves(t)
  BY <1>0, <1>2, <1>3 DEF Moves, TypeOK
<1>6. \A c \in Channels : ~Owns(t, c)' /\ (Counting(t, c)' => c = d)
  BY <1>2 DEF Owns, Counting
<1>7. d \notin spoiled' => d \notin spoiled /\ ~lock[r] /\ \A u \in Threads \ {t} : ~Counting(u, d)
  BY <1>3
<1>8. Spoils' /\ Points'
  BY <1>0, <1>2, <1>3, <1>5, PointsStep DEF Leaving, Entering, Inside
<1>9. Owned'
  BY <1>0, <1>3, <1>5, <1>6, OwnedStep
<1>10. RefsExact'
  BY <1>0, <1>3, <1>4, <1>5, OffRoute
<1>11. ASSUME CntInv PROVE CntInv'
  <2>1. Counted'
    BY <1>0, <1>2, <1>3, <1>5, <1>6, <1>7, <1>11, CountedStep
  <2>2. CntsExact'
    BY <1>0, <1>3, <1>4, <1>5, <1>11, OffRoute
  <2>3. d \notin spoiled' => \A u \in Threads : ~On(u, r)'
    <3>1. d \notin spoiled' => \A u \in Threads : ~On(u, r)
      BY <1>0, <1>5, <1>7, OneOn
    <3> QED
      BY <1>2, <1>4, <3>1 DEF On
  <2>4. Rewrites'
    BY <1>0, <1>1, <1>2, <1>3, <1>4, <1>5, <1>11, <2>3, RewritesStep
  <2> QED
    BY <2>1, <2>2, <2>4 DEF CntInv
<1> QED
  BY <1>8, <1>9, <1>10, <1>11 DEF RefInv

LEMMA CountsRewriteWrite ==
  ASSUME Typed, TypeOK, TypeOK', RowInv, RefInv, NEW t \in Tasks, RewriteWrite(t)
  PROVE  RefInv' /\ (CntInv => CntInv')
<1>0. t \in Threads /\ DOMAIN th = Threads /\ Work(th[t]) /\ DOMAIN th[t] = Fields /\ th[t].at = "rewriting"
  BY DEF Typed, Works, Work, RewriteWrite, Here, Threads
<1>1. SUFFICES ASSUME NEW r \in Routes, r = th[t].route, NEW d \in Channels, d = th[t].old,
                      NEW s \in Slots, s = th[t].slot
               PROVE  RefInv' /\ (CntInv => CntInv')
  BY <1>0 DEF Work
<1>2. /\ th'[t].at = "rewrite" /\ \A u \in Threads \ {t} : th'[u] = th[u]
  BY <1>0 DEF RewriteWrite, Fields
<1>3. /\ UNCHANGED <<ref, enable, count, chan, lock, spoiled, tangled>>
      /\ regs' = [regs EXCEPT ![d] = th[t].val \cup {s}]
  BY <1>1 DEF RewriteWrite, routes
<1>4. \A q \in Routes : ~On(t, q) /\ ~On(t, q)'
  BY <1>0, <1>2 DEF On, Inside
<1>5. Moves(t)
  BY <1>0, <1>2, <1>3 DEF Moves, TypeOK
<1>6. Counting(t, d) /\ \A c \in Channels : ~Owns(t, c)' /\ ~Counting(t, c)'
  BY <1>0, <1>1, <1>2 DEF Owns, Counting
<1>7. Spoils' /\ Points'
  BY <1>0, <1>2, <1>3, <1>5, PointsStep DEF Leaving, Entering, Inside
<1>8. Owned'
  BY <1>0, <1>3, <1>5, <1>6, OwnedStep
<1>9. RefsExact'
  BY <1>0, <1>3, <1>4, <1>5, OffRoute
<1>10. ASSUME CntInv PROVE CntInv'
  <2>1. d \notin spoiled => th[t].val = regs[d] /\ \A u \in Threads \ {t} : ~Counting(u, d)
    BY <1>0, <1>6, <1>10 DEF CntInv, Counted
  <2>2. \A c \in Channels \ {d} : regs'[c] = regs[c]
    BY <1>3 DEF TypeOK
  <2>3. Counted'
    BY <1>0, <1>3, <1>5, <1>6, <1>10, <2>1, <2>2, CountedStep
  <2>4. d \notin spoiled => s \in regs[d]
    <3>1. SlotOf[r] = s
      BY <1>0, <1>1 DEF RowInv, AtHome, Homely, Of
    <3>2. d \notin spoiled => chan[r] = d /\ \A u \in Threads : ~On(u, r)
      BY <1>0, <1>1, <1>10 DEF CntInv, Rewrites
    <3>3. d \notin spoiled => r \in CntsOf(d, s)
      BY <3>1, <3>2 DEF CntsOf, Cnts, Of
    <3> QED
      BY <1>10, <3>3 DEF CntInv, CntsExact
  <2>5. \A c \in Channels \ spoiled' : regs'[c] = regs[c]
    <3>1. d \notin spoiled => regs'[d] = regs[d]
      BY <1>3, <2>1, <2>4 DEF TypeOK
    <3> QED
      BY <1>3, <2>2, <3>1
  <2>6. CntsExact'
    <3>1. \A c, e : CntsOf(c, e)' = CntsOf(c, e)
      BY <1>0, <1>3, <1>4, <1>5, OffRoute
    <3> QED
      BY <1>3, <1>10, <2>5, <3>1 DEF CntInv, CntsExact
  <2>7. Rewrites'
    BY <1>0, <1>2, <1>3, <1>4, <1>5, <1>10, RewritesStep
  <2> QED
    BY <2>3, <2>6, <2>7 DEF CntInv
<1> QED
  BY <1>7, <1>8, <1>9, <1>10 DEF RefInv

\* Nothing is promised of spoiled channels.
LEMMA AllSpoiled ==
  ASSUME spoiled' = Channels, Points'
  PROVE  RefInv' /\ CntInv'
BY DEF RefInv, CntInv, Spoils, Owned, RefsExact, Rewrites, Counted, CntsExact

LEMMA CountsNull ==
  ASSUME NEW t \in Threads, NullChannel(t)
  PROVE  RefInv' /\ CntInv'
<1>1. spoiled' = Channels /\ \A u \in Threads : th'[u].at = "dead"
  BY DEF NullChannel, Dead, Idle
<1>2. Points'
  BY <1>1 DEF Points, Leaving, Entering
<1> QED
  BY <1>1, <1>2, AllSpoiled

LEMMA CountsFree ==
  ASSUME Typed, TypeOK, TypeOK', RefInv, NEW s \in Slots, FreeTransceiver(s)
  PROVE  RefInv' /\ (CntInv => CntInv')
<1>1. UNCHANGED <<lock, chans, chan, th>>
  BY DEF FreeTransceiver
<1>2. \A u \in Threads : Keeps(th[u], th'[u])
  BY <1>1 DEF Keeps
<1>3. CASE AtWork
  <2>1. spoiled' = Channels /\ tangled' = Routes
    BY <1>3 DEF FreeTransceiver, DisturbOr
  <2>2. spoiled \subseteq spoiled' /\ (tangled' = {} => tangled = {})
    BY <2>1 DEF TypeOK
  <2> QED
    BY <1>1, <1>2, <2>1, <2>2, RefsAside
<1>4. CASE ~AtWork
  <2>1. spoiled \subseteq spoiled' /\ tangled' = tangled
    BY <1>4 DEF FreeTransceiver, DisturbOr
  <2> QED
    BY <1>1, <1>2, <2>1, RefsAside
<1> QED
  BY <1>3, <1>4

LEMMA CountsInitTransceiver ==
  ASSUME Typed, TypeOK, TypeOK', RefInv, InitTransceiver
  PROVE  RefInv' /\ (CntInv => CntInv')
<1>1. SUFFICES ASSUME NEW s \in Slots, s = mon.slot PROVE RefInv' /\ (CntInv => CntInv')
  BY DEF InitTransceiver, Typed, Watch
<1>2. /\ UNCHANGED <<th, regs>>
      /\ ref' = [x \in DOMAIN ref |-> IF SlotOf[x] = s THEN 0 ELSE ref[x]]
      /\ enable' = [x \in DOMAIN enable |-> IF SlotOf[x] = s THEN FALSE ELSE enable[x]]
      /\ chan' = [x \in DOMAIN chan |-> IF SlotOf[x] = s THEN None ELSE chan[x]]
      /\ count' = [x \in DOMAIN count |-> IF SlotOf[x] = s THEN [d \in Slots |-> 0] ELSE count[x]]
  BY <1>1 DEF InitTransceiver
<1>3. CASE AtWork
  <2>1. spoiled' = Channels /\ tangled' = Routes
    BY <1>3 DEF InitTransceiver, DisturbOr
  <2>2. Points'
    BY <1>2, <2>1 DEF Points, Typed, Works, Work, Leaving, Entering, Inside
  <2> QED
    BY <2>1, <2>2, AllSpoiled
<1>4. CASE ~AtWork
  <2>1. /\ spoiled' = spoiled \cup {c \in Channels : \E r \in Users(c) : s \in {SlotOf[c], SlotOf[r]}}
        /\ tangled' = tangled
    BY <1>1, <1>4 DEF InitTransceiver, DisturbOr
  <2>2. \A u \in Threads : th[u].at \in {"idle", "queue"} /\ th'[u] = th[u]
    BY <1>2, <1>4 DEF AtWork
  <2>3. \A u \in Threads : /\ \A r : ~On(u, r) /\ ~On(u, r)'
                           /\ \A c : ~Owns(u, c)' /\ ~Counting(u, c)'
    BY <2>2 DEF On, Inside, Owns, Counting
  <2>4. Spoils'
    BY <2>1 DEF RefInv, Spoils, TypeOK
  <2>5. Points' /\ Owned' /\ Rewrites' /\ Counted'
    BY <2>2, <2>3 DEF Points, Owned, Rewrites, Counted, Leaving, Entering
  <2>6. \A r, c : /\ Refs(r, c) <=> chan[r] = c
                  /\ Refs(r, c)' <=> chan'[r] = c
                  /\ Cnts(r, c) <=> chan[r] = c
                  /\ Cnts(r, c)' <=> chan'[r] = c
    BY <2>3 DEF Refs, Cnts
  <2>7. ASSUME NEW c \in Channels \ spoiled'
        PROVE  /\ c \in Channels \ spoiled
               /\ RefsOf(c)' = RefsOf(c) /\ \A e \in Slots : CntsOf(c, e)' = CntsOf(c, e)
               /\ SlotOf[c] = s => RefsOf(c) = {} /\ \A e \in Slots : CntsOf(c, e) = {}
    <3>1. \A r \in Routes : chan[r] = c => SlotOf[r] # s /\ SlotOf[c] # s
      BY <2>1, <2>7 DEF Users
    <3>2. c # None
      BY RoutesAssumption DEF Items
    <3>3. \A r \in Routes : chan'[r] = c <=> chan[r] = c
      BY <1>2, <3>1, <3>2 DEF TypeOK
    <3>4. c \notin spoiled
      BY <2>1, <2>7
    <3> QED
      BY <2>6, <3>1, <3>3, <3>4 DEF RefsOf, CntsOf, Of
  <2>8. Cardinality({}) = 0
    BY FS_EmptySet
  <2>9. RefsExact'
    <3> SUFFICES ASSUME NEW c \in Channels \ spoiled'
                 PROVE  ref'[c] = Cardinality(RefsOf(c)') /\ (enable'[c] <=> RefsOf(c)' # {})
      BY DEF RefsExact
    <3>1. ref[c] = Cardinality(RefsOf(c)) /\ (enable[c] <=> RefsOf(c) # {})
      BY <2>7 DEF RefInv, RefsExact
    <3>2. /\ ref'[c] = (IF SlotOf[c] = s THEN 0 ELSE ref[c])
          /\ enable'[c] = (IF SlotOf[c] = s THEN FALSE ELSE enable[c])
      BY <1>2 DEF TypeOK
    <3> QED
      BY <2>7, <2>8, <3>1, <3>2
  <2>10. ASSUME CntInv PROVE CntsExact'
    <3> SUFFICES ASSUME NEW c \in Channels \ spoiled', NEW e \in Slots
                 PROVE  count'[c][e] = Cardinality(CntsOf(c, e)') /\ (e \in regs'[c] <=> CntsOf(c, e)' # {})
      BY DEF CntsExact
    <3>1. count[c][e] = Cardinality(CntsOf(c, e)) /\ (e \in regs[c] <=> CntsOf(c, e) # {})
      BY <2>7, <2>10 DEF CntInv, CntsExact
    <3>2. count'[c][e] = (IF SlotOf[c] = s THEN 0 ELSE count[c][e]) /\ regs' = regs
      BY <1>2 DEF TypeOK
    <3> QED
      BY <2>7, <2>8, <3>1, <3>2
  <2> QED
    BY <2>4, <2>5, <2>9, <2>10 DEF RefInv, CntInv
<1> QED
  BY <1>3, <1>4


\* Steps away from the counts, and the first steps to a lock.
LEMMA CountsAside ==
  ASSUME Typed, TypeOK', RefInv, NEW t \in Threads,
         \A u \in Threads \ {t} : th'[u] = th[u],
         Keeps(th[t], th'[t]), UNCHANGED <<chans, chan, lock, spoiled, tangled>>
  PROVE  RefInv' /\ (CntInv => CntInv')
<1>1. \A u \in Threads : Keeps(th[u], th'[u])
  BY DEF Keeps
<1> QED
  BY <1>1, RefsAside

LEMMA CountsSeen ==
  ASSUME Typed, TypeOK', RefInv, NEW t \in Threads, RouteSeen(t) \/ OldSeen(t) \/ NewSeen(t)
  PROVE  RefInv' /\ (CntInv => CntInv')
<1>0. DOMAIN th = Threads /\ Work(th[t]) /\ DOMAIN th[t] = Fields
  BY DEF Typed, Works, Work
<1>1. UNCHANGED <<chans, chan, lock, spoiled, tangled>>
  BY DEF RouteSeen, OldSeen, NewSeen, Seen, routes, hist
<1>2. /\ \/ th[t].at = "route" /\ th'[t].at = "routeFree"
         \/ th[t].at = "old" /\ th'[t].at = "oldFree"
         \/ th[t].at = "new" /\ th'[t].at = "newFree"
      /\ th'[t].route = th[t].route /\ th'[t].old = th[t].old /\ th'[t].to = th[t].to
      /\ \A u \in Threads \ {t} : th'[u] = th[u]
  BY <1>0 DEF RouteSeen, OldSeen, NewSeen, Seen, Here, Goto, Fields
<1>3. Keeps(th[t], th'[t])
  BY <1>2 DEF Keeps, Working, Inside
<1> QED
  BY <1>1, <1>2, <1>3, CountsAside

LEMMA CountsRoute ==
  ASSUME Typed, TypeOK, TypeOK', RowInv, RefInv, NEW t \in Threads, RouteStep(t)
  PROVE  RefInv' /\ (Few /\ CntInv => CntInv')
<1>1. CASE RouteSeen(t) \/ OldSeen(t) \/ NewSeen(t)
  BY <1>1, CountsSeen
<1>2. CASE RouteTake(t) \/ NullChannel(t) \/ OldTake(t) \/ NewTake(t)
  BY <1>2, CountsRouteTake, CountsNull, CountsChannelTake
<1>3. CASE OldPut(t) \/ LeaveOld(t) \/ UnpointRoute(t)
  BY <1>3, CountsOldPut, CountsLeaveOld, CountsUnpoint
<1>4. CASE NewPut(t) \/ PointRoute(t) \/ SaveRoute(t)
  BY <1>4, CountsNewPut, CountsPoint, CountsSave
<1> QED
  BY <1>1, <1>2, <1>3, <1>4 DEF RouteStep

LEMMA CountsSend ==
  ASSUME Typed, TypeOK', RefInv, NEW t \in Threads, SendStep(t)
  PROVE  RefInv' /\ (CntInv => CntInv')
<1>0. DOMAIN th = Threads /\ DOMAIN th[t] = Fields
  BY DEF Typed, Works, Work
<1>1. UNCHANGED <<chans, chan, lock, spoiled, tangled>>
  BY DEF SendStep, TakeBatch, PostBatch, LoseBatch, AllSent, routes, hist
<1>2. th[t].at \in {"send", "post"} /\ \A u \in Threads \ {t} : th'[u] = th[u]
  BY <1>0 DEF SendStep, TakeBatch, PostBatch, LoseBatch, AllSent, Sent, Here
<1>3. th'[t].at \in {"send", "post", "idle", "queue"}
  <2>1. CASE TakeBatch(t)
    BY <1>0, <2>1 DEF TakeBatch, Fields
  <2>2. CASE PostBatch(t) \/ LoseBatch(t)
    BY <1>0, <2>2 DEF PostBatch, LoseBatch, Sent, Fields
  <2>3. CASE AllSent(t)
    BY <1>0, <2>3 DEF AllSent, Idle, Fields
  <2> QED
    BY <2>1, <2>2, <2>3 DEF SendStep
<1>4. Keeps(th[t], th'[t])
  BY <1>2, <1>3 DEF Keeps, Working, Inside
<1> QED
  BY <1>1, <1>2, <1>4, CountsAside

LEMMA CountsWeb ==
  ASSUME Typed, TypeOK', RefInv, NEW t \in Webs,
         \/ Refuse(t) \/ config_transceiver(t) \/ clean_slot_transceiver_params(t)
         \/ Dequeue(t) \/ Dequeued(t) \/ (\E r \in Routes : EmptyNext(t, r)) \/ Emptied(t)
         \/ Operator(t)
  PROVE  RefInv' /\ (CntInv => CntInv')
<1>0. t \in Threads /\ DOMAIN th = Threads /\ DOMAIN th[t] = Fields
  BY DEF Typed, Works, Work, Threads
<1>1. UNCHANGED <<chans, chan, lock, spoiled, tangled>>
  BY DEF Refuse, config_transceiver, clean_slot_transceiver_params, Dequeue, Dequeued,
         EmptyNext, Emptied, Operator, Submit, Ask, routes, hist
<1>2. th[t].at \in {"queue", "next", "empty", "idle"} /\ \A u \in Threads \ {t} : th'[u] = th[u]
  <2>1. th[t].at \in {"queue", "next", "empty", "idle"}
    BY DEF Refuse, config_transceiver, clean_slot_transceiver_params, Dequeue, Dequeued,
           EmptyNext, Emptied, Operator, Submit, Ask, Here
  <2>2. CASE Refuse(t) \/ config_transceiver(t) \/ clean_slot_transceiver_params(t)
    BY <1>0, <2>1, <2>2 DEF Refuse, config_transceiver, clean_slot_transceiver_params, Goto
  <2>3. CASE Dequeue(t) \/ Dequeued(t)
    BY <1>0, <2>1, <2>3 DEF Dequeue, Dequeued, Begin, SendFrom
  <2>4. CASE (\E r \in Routes : EmptyNext(t, r)) \/ Emptied(t)
    BY <1>0, <2>1, <2>4 DEF EmptyNext, Emptied, SendFrom
  <2>5. CASE Operator(t)
    BY <1>0, <2>1, <2>5 DEF Operator, Submit, Ask
  <2> QED
    BY <2>1, <2>2, <2>3, <2>4, <2>5
<1>3. th'[t].at \in {"queue", "next", "empty", "idle", "route", "send"}
  <2>2. CASE Refuse(t) \/ config_transceiver(t) \/ clean_slot_transceiver_params(t)
    BY <1>0, <2>2 DEF Refuse, config_transceiver, clean_slot_transceiver_params, Goto, Idle, Fields
  <2>3. CASE Dequeue(t) \/ Dequeued(t)
    BY <1>0, <1>2, <2>3 DEF Dequeue, Dequeued, Begin, SendFrom, Fields
  <2>4. CASE (\E r \in Routes : EmptyNext(t, r)) \/ Emptied(t)
    BY <1>0, <2>4 DEF EmptyNext, Emptied, SendFrom, Fields
  <2>5. CASE \E s \in Slots, clean \in BOOLEAN : Submit(t, s, clean)
    BY <1>0, <2>5 DEF Submit, Idle, Fields
  <2>6. CASE \E r \in Routes, c \in Channels \cup {None} : Ask(t, r, c)
    BY <1>2, <2>6 DEF Ask
  <2> QED
    BY <2>2, <2>3, <2>4, <2>5, <2>6 DEF Operator
<1>4. Keeps(th[t], th'[t])
  BY <1>2, <1>3 DEF Keeps, Working, Inside
<1> QED
  BY <1>0, <1>1, <1>2, <1>4, CountsAside

LEMMA CountsTaskAside ==
  ASSUME Typed, TypeOK', RefInv, NEW t \in Tasks,
         \/ \E s \in Slots : StartSync(t, s)
         \/ \E r \in Routes : SelectRow(t, r)
         \/ SelectFails(t) \/ RetellChannels(t) \/ Synced(t)
  PROVE  RefInv' /\ (CntInv => CntInv')
<1>0. t \in Threads /\ DOMAIN th = Threads /\ DOMAIN th[t] = Fields
  BY DEF Typed, Works, Work, Threads
<1>1. UNCHANGED <<chans, chan, lock, spoiled, tangled>>
  BY DEF StartSync, SelectRow, SelectFails, RetellChannels, Synced, routes, hist
<1>2. th[t].at \in {"idle", "rows", "rewrite", "channels", "send"} /\ \A u \in Threads \ {t} : th'[u] = th[u]
  BY <1>0 DEF StartSync, SelectRow, SelectFails, RetellChannels, Synced, SendFrom, RoutesDone, Here
<1>3. th'[t].at \in {"idle", "rows", "rewrite", "channels", "send", "route"}
  <2>1. CASE \E s \in Slots : StartSync(t, s)
    <3>1. PICK s \in Slots, at \in {"idle", "rows", "rewrite", "channels", "send", "route"} :
            th' = [th EXCEPT ![t] = [Idle EXCEPT !.at = at, !.slot = s, !.left = Of(s, Routes)]]
      BY <2>1 DEF StartSync
    <3> QED
      BY <1>0, <3>1 DEF Idle
  <2>2. CASE \E r \in Routes : SelectRow(t, r)
    BY <1>0, <1>2, <2>2 DEF SelectRow, Fields
  <2>3. CASE RetellChannels(t)
    BY <1>0, <2>3 DEF RetellChannels, SendFrom, Fields
  <2>4. CASE Synced(t)
    BY <1>0, <2>4 DEF Synced, Idle, Fields
  <2>5. CASE SelectFails(t)
    BY <1>0, <2>5 DEF SelectFails, Fields
  <2> QED
    BY <2>1, <2>2, <2>3, <2>4, <2>5
<1>4. Keeps(th[t], th'[t])
  BY <1>2, <1>3 DEF Keeps, Working, Inside
<1> QED
  BY <1>0, <1>1, <1>2, <1>4, CountsAside

LEMMA CountsBoards ==
  ASSUME TypeOK', RefInv,
         \/ \E s \in Slots : AddSync(s)
         \/ EnableTransceiver \/ Environment \/ UNCHANGED vars
  PROVE  RefInv' /\ (CntInv => CntInv')
<1>1. UNCHANGED <<th, chans, chan, lock, spoiled, tangled>>
  BY DEF AddSync, EnableTransceiver, Environment, Restart, Described, vars, routes, hist
<1>2. \A u \in Threads : Keeps(th[u], th'[u])
  BY <1>1 DEF Keeps
<1> QED
  BY <1>1, <1>2, RefsAside

LEMMA CountsInit == Init => RefInv /\ CntInv
<1> SUFFICES ASSUME Init PROVE RefInv /\ CntInv
  OBVIOUS
<1>1. \A t \in Threads : th[t] = Idle
  BY DEF Init
<1>2. \A t \in Threads : th[t].at = "idle"
  BY <1>1 DEF Idle
<1>3. \A t \in Threads : /\ \A r : ~On(t, r)
                         /\ \A c : ~Owns(t, c) /\ ~Counting(t, c)
  BY <1>2 DEF On, Inside, Owns, Counting
<1>4. Spoils /\ Points /\ Owned /\ Rewrites /\ Counted
  BY <1>2, <1>3 DEF Init, Spoils, Points, Owned, Rewrites, Counted, Leaving, Entering
<1>5. \A c \in Channels : RefsOf(c) = {} /\ \A s \in Slots : CntsOf(c, s) = {}
  <2>1. \A r \in Routes : \A c \in Channels : ~Refs(r, c) /\ ~Cnts(r, c)
    BY <1>3, RoutesAssumption DEF Init, Refs, Cnts, Items
  <2> QED
    BY <2>1 DEF RefsOf, CntsOf, Of
<1>6. Cardinality({}) = 0
  BY FS_EmptySet
<1>7. RefsExact
  BY <1>5, <1>6 DEF Init, RefsExact
<1>8. CntsExact
  BY <1>5, <1>6 DEF Init, CntsExact
<1> QED
  BY <1>4, <1>7, <1>8 DEF RefInv, CntInv

LEMMA CountsStep ==
  ASSUME RouteInv, TypeOK', RowInv, RefInv, [Next]_vars
  PROVE  RefInv' /\ (Few /\ CntInv => CntInv')
<1>0. Typed /\ TypeOK
  BY DEF RouteInv
<1>1. ASSUME NEW t \in Webs, WebStep(t) \/ Operator(t) PROVE RefInv' /\ (Few /\ CntInv => CntInv')
  <2>1. t \in Threads
    BY DEF Threads
  <2>2. CASE RouteStep(t)
    BY <1>0, <2>1, <2>2, CountsRoute
  <2>3. CASE SendStep(t)
    BY <1>0, <2>1, <2>3, CountsSend
  <2>4. CASE ~RouteStep(t) /\ ~SendStep(t)
    BY <1>0, <1>1, <2>4, CountsWeb DEF WebStep
  <2> QED
    BY <2>2, <2>3, <2>4
<1>2. ASSUME NEW t \in Tasks, TaskStep(t) PROVE RefInv' /\ (Few /\ CntInv => CntInv')
  <2>1. t \in Threads
    BY DEF Threads
  <2>2. CASE RouteStep(t)
    BY <1>0, <2>1, <2>2, CountsRoute
  <2>3. CASE SendStep(t)
    BY <1>0, <2>1, <2>3, CountsSend
  <2>4. CASE (\E r \in Routes : RewriteRead(t, r)) \/ RewriteWrite(t)
    BY <1>0, <2>4, CountsRewriteRead, CountsRewriteWrite
  <2>5. CASE ~RouteStep(t) /\ ~SendStep(t) /\ ~((\E r \in Routes : RewriteRead(t, r)) \/ RewriteWrite(t))
    BY <1>0, <1>2, <2>5, CountsTaskAside DEF TaskStep
  <2> QED
    BY <2>2, <2>3, <2>4, <2>5
<1>3. ASSUME MonitorStep PROVE RefInv' /\ (Few /\ CntInv => CntInv')
  BY <1>0, <1>3, CountsFree, CountsInitTransceiver, CountsBoards DEF MonitorStep
<1> QED
  BY <1>0, <1>1, <1>2, <1>3, CountsBoards DEF Next

LEMMA RefsNext == RouteInv /\ RowInv /\ RefInv /\ [Next]_vars => RefInv'
BY RouteNext, CountsStep DEF RouteInv

LEMMA CountsNext ==
  ASSUME Few
  PROVE  RouteInv /\ RowInv /\ RefInv /\ CntInv /\ [Next]_vars => CntInv'
BY RouteNext, CountsStep DEF RouteInv

\* With nobody at work, what is counted is the users of a channel.
LEMMA CountsAtRest ==
  ASSUME Rest
  PROVE  \A c \in Channels : RefsOf(c) = Users(c) /\ \A s : CntsOf(c, s) = {r \in Users(c) : SlotOf[r] = s}
<1>1. \A t \in Threads : \A r : ~On(t, r)
  BY DEF Rest, AtWork, On, Inside
<1> QED
  BY <1>1 DEF RefsOf, CntsOf, Refs, Cnts, Users, Of

\* Of a channel at which no two threads were at once and no board of which was
\* replaced, ref_amount is the number of its users, whenever nobody is at work,
\* and the channel is enabled if and only if it has any (transceiver_route_add,
\* transceiver_route_del).
THEOREM AmountsAreExact ==
  Spec => [](Rest => \A c \in Channels \ spoiled :
                       ref[c] = Cardinality(Users(c)) /\ enable[c] = (Users(c) # {}))
<1> DEFINE Exact == Rest => \A c \in Channels \ spoiled :
                              ref[c] = Cardinality(Users(c)) /\ enable[c] = (Users(c) # {})
<1>1. Init => RouteInv /\ RowInv /\ RefInv
  BY RouteInit, RowsInit, CountsInit
<1>2. RouteInv /\ RowInv /\ RefInv /\ [Next]_vars => (RouteInv /\ RowInv /\ RefInv)'
  BY RouteNext, RowsNext, RefsNext
<1>3. RouteInv /\ RowInv /\ RefInv => Exact
  BY CountsAtRest DEF RouteInv, TypeOK, RefInv, RefsExact
<1> QED
  BY <1>1, <1>2, <1>3, PTL DEF Spec

\* The same of ref_count and of the bit of every interface in the register of
\* the channel, if no slot has more routes than a char counts: ref_count is one
\* (transfer/transceiver.h:34), and route_qty, which the board reports
\* (transfer/transceiver.c:563), is not limited to that.
THEOREM CountsAreExact ==
  ASSUME \A s \in Slots : Cardinality(Of(s, Routes)) < Byte
  PROVE  Spec => []CountsExact
<1>0. Few
  BY DEF Few
<1>1. Init => RouteInv /\ RowInv /\ RefInv /\ CntInv
  BY RouteInit, RowsInit, CountsInit
<1>2. RouteInv /\ RowInv /\ RefInv /\ CntInv /\ [Next]_vars => (RouteInv /\ RowInv /\ RefInv /\ CntInv)'
  BY <1>0, RouteNext, RowsNext, RefsNext, CountsNext
<1>3. RouteInv /\ RefInv /\ CntInv => CountsExact
  <2> SUFFICES ASSUME RouteInv, RefInv, CntInv, Rest, NEW c \in Channels \ spoiled
               PROVE  /\ ref[c] = Cardinality(Users(c))
                      /\ enable[c] = (Users(c) # {})
                      /\ \A s \in Slots : /\ count[c][s] = Cardinality({r \in Users(c) : SlotOf[r] = s})
                                          /\ (s \in regs[c]) = (\E r \in Users(c) : SlotOf[r] = s)
    BY DEF CountsExact
  <2>1. RefsOf(c) = Users(c) /\ \A s : CntsOf(c, s) = {r \in Users(c) : SlotOf[r] = s}
    BY CountsAtRest
  <2>2. ref[c] = Cardinality(Users(c)) /\ enable[c] = (Users(c) # {})
    BY <2>1 DEF RouteInv, TypeOK, RefInv, RefsExact
  <2>3. ASSUME NEW s \in Slots
        PROVE  /\ count[c][s] = Cardinality({r \in Users(c) : SlotOf[r] = s})
               /\ (s \in regs[c]) = (\E r \in Users(c) : SlotOf[r] = s)
    <3>1. count[c][s] = Cardinality(CntsOf(c, s)) /\ (s \in regs[c] <=> CntsOf(c, s) # {})
      BY DEF CntInv, CntsExact
    <3>2. CntsOf(c, s) # {} <=> \E r \in Users(c) : SlotOf[r] = s
      BY <2>1
    <3>3. count[c][s] = Cardinality({r \in Users(c) : SlotOf[r] = s})
      BY <2>1, <3>1
    <3>4. (s \in regs[c]) = (\E r \in Users(c) : SlotOf[r] = s)
      <4>1. CASE s \in regs[c]
        <5>1. (s \in regs[c]) = TRUE
          BY <4>1
        <5>2. (\E r \in Users(c) : SlotOf[r] = s) = TRUE
          BY <4>1, <3>1, <3>2
        <5> QED
          BY <5>1, <5>2
      <4>2. CASE s \notin regs[c]
        <5>1. (s \in regs[c]) = FALSE
          BY <4>2
        <5>2. (\E r \in Users(c) : SlotOf[r] = s) = FALSE
          BY <4>2, <3>1, <3>2
        <5> QED
          BY <5>1, <5>2
      <4> QED
        BY <4>1, <4>2
    <3> QED
      BY <3>3, <3>4
  <2> QED
    BY <2>2, <2>3
<1> QED
  BY <1>1, <1>2, <1>3, PTL DEF Spec

=============================================================================
