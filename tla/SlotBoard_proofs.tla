--------------------------- MODULE SlotBoard_proofs ---------------------------
(***************************************************************************)
(* Theorems about module SlotBoard, for any boards, any number of          *)
(* descriptions under way and any number of plugs, reports and faults.     *)
(*                                                                         *)
(* While no update was lost everything in the slot is about one board b    *)
(* (Epoch): one description at a time is under way, the monitor of         *)
(* httpd.bin works for a board that was described since it was plugged in  *)
(* (Served), and a board of another sort than the one the transceivers     *)
(* were initialised for is marked as changed (Marked).                     *)
(***************************************************************************)
EXTENDS SlotBoard, TLAPS

\* The description of b has come in.
Served(b) == info = b /\ (known = b \/ \E t \in Tasks : describe[t] = "store")

\* One description at a time, of board b.
OneBoard(b) ==
  /\ board \in {b, None}
  /\ \A t, u \in Tasks : describe[t] # "idle" /\ describe[u] # "idle" => t = u
  /\ \A t \in Tasks :
       /\ describe[t] \notin {"idle", "read"} => got[t] = b
       /\ describe[t] \in {"webfile", "same"} => known = b
       /\ describe[t] \in {"webfileNew", "clear", "fetch"} =>
            known # b /\ (boardChanged \/ Sort[known] = Sort[b])
       /\ describe[t] = "store" => info = b

\* httpd.bin will initialise the transceivers.
Awaited == boardChanged \/ webMon = "init"
Marked(b) ==
  /\ Awaited \/ Sort[inited] = Sort[known] \/ \E t \in Tasks : describe[t] = "store"
  /\ \A t \in Tasks : describe[t] = "store" => Awaited \/ Sort[inited] = Sort[b]
  /\ ~boardChanged /\ known = b => info = b

\* What the monitors have tested still holds.
Tested(b) ==
  /\ webMon # "test" => Served(b)
  /\ webMon # "test" /\ ~stale.web => flag = 3 /\ isok
  /\ (flag \in {3, 4} \/ monitor \in {"add", "three"}) /\ isok => Served(b)
  /\ webMon \in {"enable", "four"} => Sort[inited] = Sort[info]
  /\ webMon = "four" => trans # "stop"
  /\ flag = 4 => webMon = "test" /\ isok /\ trans # "stop" /\ Sort[inited] = Sort[info]

Epoch(b) == OneBoard(b) /\ Marked(b) /\ Tested(b)
EpochInv == ~lost => \E b \in Maybe : Epoch(b)

-----------------------------------------------------------------------------
(* Types *)

Described ==
  /\ board \in Maybe /\ known \in Maybe /\ info \in Maybe /\ inited \in Maybe
  /\ describe \in [Tasks -> Stage] /\ got \in [Tasks -> Maybe]
Levels ==
  /\ linked \in 0 .. 1 /\ unlinked \in 0 .. 1 /\ flag \in 0 .. 4
  /\ spi \in {"stop", "pause", "run"} /\ trans \in {"stop", "pause", "run"}
Flags ==
  /\ held \in BOOLEAN /\ booting \in BOOLEAN /\ shown \in BOOLEAN /\ last \in BOOLEAN /\ changed \in BOOLEAN
  /\ isok \in BOOLEAN /\ boardChanged \in BOOLEAN
  /\ lost \in BOOLEAN /\ gaveUp \in BOOLEAN /\ early \in BOOLEAN

LEMMA MonitorTypes ==
  ASSUME TypeOK, MonitorStep
  PROVE Described' /\ Levels' /\ Flags'
<1>1. Described'
  BY DEF TypeOK, Described, Maybe, Stage, MonitorStep, read_slots_status, TestLink, StartSpi, PluggedIn, PulledOut, PauseSpi, DisableTransceiver, TestDescribe, AddDescribe, RaiseToThree, check_fpga_irq, env, link, desc, hist, web
<1>2. Levels'
  BY DEF TypeOK, Levels, MonitorStep, read_slots_status, TestLink, StartSpi, PluggedIn, PulledOut, PauseSpi, DisableTransceiver, TestDescribe, AddDescribe, RaiseToThree, check_fpga_irq, check_slot_in_status, LinkedCount, UnlinkedCount, env, link, desc, hist, web
<1>3. Flags'
  <2>1. ASSUME read_slots_status PROVE Flags'
    BY <2>1 DEF TypeOK, Flags, read_slots_status, check_slot_in_status, env, link, desc, hist, web
  <2>2. ASSUME TestLink PROVE Flags'
    BY <2>2 DEF TypeOK, Flags, TestLink, check_slot_in_status, env, link, desc, hist, web
  <2>3. ASSUME StartSpi PROVE Flags'
    BY <2>3 DEF TypeOK, Flags, StartSpi, check_slot_in_status, env, link, desc, hist, web
  <2>4. ASSUME PluggedIn PROVE Flags'
    BY <2>4 DEF TypeOK, Flags, PluggedIn, check_slot_in_status, env, link, desc, hist, web
  <2>5. ASSUME PulledOut PROVE Flags'
    BY <2>5 DEF TypeOK, Flags, PulledOut, check_slot_in_status, env, link, desc, hist, web
  <2>6. ASSUME PauseSpi PROVE Flags'
    BY <2>6 DEF TypeOK, Flags, PauseSpi, check_slot_in_status, env, link, desc, hist, web
  <2>7. ASSUME DisableTransceiver PROVE Flags'
    BY <2>7 DEF TypeOK, Flags, DisableTransceiver, check_slot_in_status, env, link, desc, hist, web
  <2>8. ASSUME TestDescribe PROVE Flags'
    BY <2>8 DEF TypeOK, Flags, TestDescribe, check_slot_in_status, env, link, desc, hist, web
  <2>9. ASSUME NEW t \in Tasks, AddDescribe(t) PROVE Flags'
    BY <2>9 DEF TypeOK, Flags, AddDescribe, check_slot_in_status, env, link, desc, hist, web
  <2>10. ASSUME RaiseToThree PROVE Flags'
    BY <2>10 DEF TypeOK, Flags, RaiseToThree, check_slot_in_status, env, link, desc, hist, web
  <2>11. ASSUME check_fpga_irq PROVE Flags'
    BY <2>11 DEF TypeOK, Flags, check_fpga_irq, check_slot_in_status, env, link, desc, hist, web
  <2> QED BY <2>1, <2>2, <2>3, <2>4, <2>5, <2>6, <2>7, <2>8, <2>9, <2>10, <2>11 DEF MonitorStep
<1> QED BY <1>1, <1>2, <1>3

LEMMA ResetTypes ==
  ASSUME TypeOK, NEW a \in {"irq", "operator"}, ResetStep(a)
  PROVE Described' /\ Levels' /\ Flags'
<1>1. Described'
  BY DEF TypeOK, Described, Maybe, Stage, ResetStep, suspend_slot_board, ResetStatus, ResetCounts, ResetTransfers, resume_slot_board, Hold, Release, env, link, desc, hist, web
<1>2. Levels'
  BY DEF TypeOK, Levels, ResetStep, suspend_slot_board, ResetStatus, ResetCounts, ResetTransfers, resume_slot_board, env, link, desc, hist, web
<1>3. Flags'
  <2>1. ASSUME suspend_slot_board(a) PROVE Flags'
    BY <2>1 DEF TypeOK, Flags, suspend_slot_board, Hold, Release, env, link, desc, hist, web
  <2>2. ASSUME ResetStatus(a) PROVE Flags'
    BY <2>2 DEF TypeOK, Flags, ResetStatus, Hold, Release, env, link, desc, hist, web
  <2>3. ASSUME ResetCounts(a) PROVE Flags'
    BY <2>3 DEF TypeOK, Flags, ResetCounts, Hold, Release, env, link, desc, hist, web
  <2>4. ASSUME ResetTransfers(a) PROVE Flags'
    BY <2>4 DEF TypeOK, Flags, ResetTransfers, Hold, Release, env, link, desc, hist, web
  <2>5. ASSUME resume_slot_board(a) PROVE Flags'
    BY <2>5 DEF TypeOK, Flags, resume_slot_board, Hold, Release, env, link, desc, hist, web
  <2> QED BY <2>1, <2>2, <2>3, <2>4, <2>5 DEF ResetStep
<1> QED BY <1>1, <1>2, <1>3

LEMMA IrqTypes ==
  ASSUME TypeOK, IrqStep, ~ResetStep("irq")
  PROVE Described' /\ Levels' /\ Flags'
<1>1. Described'
  BY DEF TypeOK, Described, Maybe, Stage, IrqStep, GetIrqEvents, NoIrqEvents, EventsDone, StartIgnored, StartSeen, ResetSeen, HotSeen, CoolSeen, RaiseToTwo, Event, env, link, desc, hist, web
<1>2. Levels'
  <2>1. ASSUME GetIrqEvents PROVE Levels'
    BY <2>1 DEF TypeOK, Levels, GetIrqEvents, Event, env, link, desc, hist, web
  <2>2. ASSUME NoIrqEvents PROVE Levels'
    BY <2>2 DEF TypeOK, Levels, NoIrqEvents, Event, env, link, desc, hist, web
  <2>3. ASSUME EventsDone PROVE Levels'
    BY <2>3 DEF TypeOK, Levels, EventsDone, Event, env, link, desc, hist, web
  <2>4. ASSUME StartIgnored PROVE Levels'
    BY <2>4 DEF TypeOK, Levels, StartIgnored, Event, env, link, desc, hist, web
  <2>5. ASSUME StartSeen PROVE Levels'
    BY <2>5 DEF TypeOK, Levels, StartSeen, Event, env, link, desc, hist, web
  <2>6. ASSUME ResetSeen PROVE Levels'
    BY <2>6 DEF TypeOK, Levels, ResetSeen, Event, env, link, desc, hist, web
  <2>7. ASSUME HotSeen PROVE Levels'
    BY <2>7 DEF TypeOK, Levels, HotSeen, Event, env, link, desc, hist, web
  <2>8. ASSUME CoolSeen PROVE Levels'
    BY <2>8 DEF TypeOK, Levels, CoolSeen, Event, env, link, desc, hist, web
  <2>9. ASSUME RaiseToTwo PROVE Levels'
    BY <2>9 DEF TypeOK, Levels, RaiseToTwo, Event, env, link, desc, hist, web
  <2> QED BY <2>1, <2>2, <2>3, <2>4, <2>5, <2>6, <2>7, <2>8, <2>9 DEF IrqStep
<1>3. Flags'
  <2>1. ASSUME GetIrqEvents PROVE Flags'
    BY <2>1 DEF TypeOK, Flags, GetIrqEvents, Event, env, link, desc, hist, web
  <2>2. ASSUME NoIrqEvents PROVE Flags'
    BY <2>2 DEF TypeOK, Flags, NoIrqEvents, Event, env, link, desc, hist, web
  <2>3. ASSUME EventsDone PROVE Flags'
    BY <2>3 DEF TypeOK, Flags, EventsDone, Event, env, link, desc, hist, web
  <2>4. ASSUME StartIgnored PROVE Flags'
    BY <2>4 DEF TypeOK, Flags, StartIgnored, Event, env, link, desc, hist, web
  <2>5. ASSUME StartSeen PROVE Flags'
    BY <2>5 DEF TypeOK, Flags, StartSeen, Event, env, link, desc, hist, web
  <2>6. ASSUME ResetSeen PROVE Flags'
    BY <2>6 DEF TypeOK, Flags, ResetSeen, Event, env, link, desc, hist, web
  <2>7. ASSUME HotSeen PROVE Flags'
    BY <2>7 DEF TypeOK, Flags, HotSeen, Event, env, link, desc, hist, web
  <2>8. ASSUME CoolSeen PROVE Flags'
    BY <2>8 DEF TypeOK, Flags, CoolSeen, Event, env, link, desc, hist, web
  <2>9. ASSUME RaiseToTwo PROVE Flags'
    BY <2>9 DEF TypeOK, Flags, RaiseToTwo, Event, env, link, desc, hist, web
  <2> QED BY <2>1, <2>2, <2>3, <2>4, <2>5, <2>6, <2>7, <2>8, <2>9 DEF IrqStep
<1> QED BY <1>1, <1>2, <1>3

LEMMA DescribeTypes ==
  ASSUME TypeOK, NEW t \in Tasks, DescribeStep(t)
  PROVE Described' /\ Levels' /\ Flags'
<1>1. Described'
  BY DEF TypeOK, Described, Maybe, Stage, DescribeStep, ReadSummary, GiveUp, CompareBoard, update_slot_webfile, SameBoard, ClearDescription, receive_slot_boardinfo, StoreType, Describe, Forget, ShowError, env, link, desc, hist, web
<1>2. Levels'
  BY DEF TypeOK, Levels, DescribeStep, ReadSummary, GiveUp, CompareBoard, update_slot_webfile, SameBoard, ClearDescription, receive_slot_boardinfo, StoreType, ShowError, env, link, desc, hist, web
<1>3. Flags'
  <2>1. ASSUME ReadSummary(t) PROVE Flags'
    BY <2>1 DEF TypeOK, Flags, ReadSummary, ShowError, env, link, desc, hist, web
  <2>2. ASSUME NEW from, GiveUp(t, from) PROVE Flags'
    BY <2>2 DEF TypeOK, Flags, GiveUp, ShowError, env, link, desc, hist, web
  <2>3. ASSUME CompareBoard(t) PROVE Flags'
    BY <2>3 DEF TypeOK, Flags, CompareBoard, ShowError, env, link, desc, hist, web
  <2>4. ASSUME update_slot_webfile(t) PROVE Flags'
    BY <2>4 DEF TypeOK, Flags, update_slot_webfile, ShowError, env, link, desc, hist, web
  <2>5. ASSUME SameBoard(t) PROVE Flags'
    BY <2>5 DEF TypeOK, Flags, SameBoard, ShowError, env, link, desc, hist, web
  <2>6. ASSUME ClearDescription(t) PROVE Flags'
    BY <2>6 DEF TypeOK, Flags, ClearDescription, ShowError, env, link, desc, hist, web
  <2>7. ASSUME receive_slot_boardinfo(t) PROVE Flags'
    BY <2>7 DEF TypeOK, Flags, receive_slot_boardinfo, ShowError, env, link, desc, hist, web
  <2>8. ASSUME StoreType(t) PROVE Flags'
    BY <2>8 DEF TypeOK, Flags, StoreType, ShowError, env, link, desc, hist, web
  <2> QED BY <2>1, <2>2, <2>3, <2>4, <2>5, <2>6, <2>7, <2>8 DEF DescribeStep
<1> QED BY <1>1, <1>2, <1>3

LEMMA WebTypes ==
  ASSUME TypeOK, WebStep
  PROVE Described' /\ Levels' /\ Flags'
<1>1. Described'
  BY DEF TypeOK, Described, Maybe, Stage, WebStep, TestDescribed, TestChanged, InitTransceiver, EnableTransceiver, RaiseToFour, env, link, desc, hist, web
<1>2. Levels'
  BY DEF TypeOK, Levels, WebStep, TestDescribed, TestChanged, InitTransceiver, EnableTransceiver, RaiseToFour, env, link, desc, hist, web
<1>3. Flags'
  <2>1. ASSUME TestDescribed PROVE Flags'
    BY <2>1 DEF TypeOK, Flags, TestDescribed, env, link, desc, hist, web
  <2>2. ASSUME TestChanged PROVE Flags'
    BY <2>2 DEF TypeOK, Flags, TestChanged, env, link, desc, hist, web
  <2>3. ASSUME InitTransceiver PROVE Flags'
    BY <2>3 DEF TypeOK, Flags, InitTransceiver, env, link, desc, hist, web
  <2>4. ASSUME EnableTransceiver PROVE Flags'
    BY <2>4 DEF TypeOK, Flags, EnableTransceiver, env, link, desc, hist, web
  <2>5. ASSUME RaiseToFour PROVE Flags'
    BY <2>5 DEF TypeOK, Flags, RaiseToFour, env, link, desc, hist, web
  <2> QED BY <2>1, <2>2, <2>3, <2>4, <2>5 DEF WebStep
<1> QED BY <1>1, <1>2, <1>3

LEMMA EnvironmentTypes ==
  ASSUME TypeOK, Environment
  PROVE Described' /\ Levels' /\ Flags'
<1>1. Described'
  BY DEF TypeOK, Described, Maybe, Stage, Environment, Plug, Pull, Report, OperatorResets, OtherSlotReset, env, link, desc, hist, web
<1>2. Levels'
  BY DEF TypeOK, Levels, Environment, Plug, Pull, Report, OperatorResets, OtherSlotReset, env, link, desc, hist, web
<1>3. Flags'
  <2>1. ASSUME NEW b \in Boards, Plug(b) PROVE Flags'
    BY <2>1 DEF TypeOK, Flags, Plug, env, link, desc, hist, web
  <2>2. ASSUME Pull PROVE Flags'
    BY <2>2 DEF TypeOK, Flags, Pull, env, link, desc, hist, web
  <2>3. ASSUME NEW e \in {"reset", "hot", "cool"}, Report(e) PROVE Flags'
    BY <2>3 DEF TypeOK, Flags, Report, env, link, desc, hist, web
  <2>4. ASSUME OperatorResets PROVE Flags'
    BY <2>4 DEF TypeOK, Flags, OperatorResets, env, link, desc, hist, web
  <2>5. ASSUME OtherSlotReset PROVE Flags'
    BY <2>5 DEF TypeOK, Flags, OtherSlotReset, env, link, desc, hist, web
  <2> QED BY <2>1, <2>2, <2>3, <2>4, <2>5 DEF Environment
<1> QED BY <1>1, <1>2, <1>3

LEMMA BootTypes ==
  ASSUME TypeOK, Boot
  PROVE Described' /\ Levels' /\ Flags'
<1>1. Described'
  BY DEF TypeOK, Described, Boot, env, link, desc, hist, web
<1>2. Levels'
  BY DEF TypeOK, Levels, Boot, env, link, desc, hist, web
<1>3. Flags'
  BY DEF TypeOK, Flags, Boot, env, link, desc, hist, web
<1> QED BY <1>1, <1>2, <1>3

LEMMA TypeStep == ASSUME TypeOK, [Next]_vars PROVE TypeOK'
<1>1. CASE UNCHANGED vars
  BY <1>1 DEF TypeOK, vars, env, link, desc, hist, web
<1>2. CASE Next
  <2>1. Described' /\ Levels' /\ Flags'
    BY <1>2, MonitorTypes, IrqTypes, ResetTypes, DescribeTypes, WebTypes, EnvironmentTypes, BootTypes
       DEF Next, AndStale
  <2>2. stale' \in [link : BOOLEAN, web : BOOLEAN]
    BY <1>2 DEF Next, AndStale
  <2> QED BY <2>1, <2>2 DEF TypeOK, Described, Levels, Flags
<1> QED BY <1>1, <1>2

-----------------------------------------------------------------------------
(* One board at a time *)

\* What the history says of the monitor of httpd.bin when nothing changed the
\* level behind its back.
Still == webMon' # "test" /\ ~stale'.web => ~stale.web /\ flag' = flag

\* Nothing of the description and of the web monitor changes; the level may
\* fall, but rises to 3 and 4 elsewhere only.
Calm ==
  /\ UNCHANGED <<isok, boardChanged, known, info, inited, describe, got, webMon>>
  /\ board' \in {board, None} /\ trans' \in {trans, "pause"}
  /\ flag' = flag \/ flag' \notin {3, 4}
  /\ monitor' = monitor \/ monitor' \notin {"add", "three"}

LEMMA CalmKeeps ==
  ASSUME NEW b \in Maybe, Epoch(b), Calm, Still PROVE Epoch(b)'
<1>1. OneBoard(b)'
  BY DEF Epoch, OneBoard, Calm
<1>2. Marked(b)'
  BY DEF Epoch, Marked, Awaited, Calm
<1>3. Served(b)' <=> Served(b)
  BY DEF Served, Calm
<1>4. Tested(b)'
  BY <1>3 DEF Epoch, Tested, Calm, Still
<1> QED BY <1>1, <1>2, <1>4 DEF Epoch

LEMMA CalmMonitor ==
  ASSUME \/ read_slots_status \/ TestLink \/ StartSpi \/ PluggedIn \/ PulledOut \/ PauseSpi
         \/ DisableTransceiver \/ check_fpga_irq
  PROVE Calm
BY DEF Calm, read_slots_status, TestLink, StartSpi, PluggedIn, PulledOut, PauseSpi, DisableTransceiver,
       check_fpga_irq, Monitor, env, link, desc, hist, web

LEMMA CalmReset == ASSUME NEW a, ResetStep(a) PROVE Calm
BY DEF Calm, ResetStep, suspend_slot_board, ResetStatus, ResetCounts, ResetTransfers, resume_slot_board,
       Hold, Release, env, link, desc, hist, web

LEMMA CalmIrq == ASSUME IrqStep PROVE Calm
<1>1. CASE ResetStep("irq")
  BY <1>1, CalmReset
<1>2. CASE ~ResetStep("irq")
  <2>1. CASE GetIrqEvents \/ NoIrqEvents \/ EventsDone
    BY <2>1 DEF Calm, GetIrqEvents, NoIrqEvents, EventsDone, env, link, desc, hist, web
  <2>2. CASE StartIgnored \/ StartSeen \/ ResetSeen \/ HotSeen \/ CoolSeen
    BY <2>2 DEF Calm, StartIgnored, StartSeen, ResetSeen, HotSeen, CoolSeen, Event, env, desc, hist, web
  <2>3. CASE RaiseToTwo
    BY <2>3 DEF Calm, RaiseToTwo, env, desc, web
  <2> QED BY <1>2, <2>1, <2>2, <2>3 DEF IrqStep
<1> QED BY <1>1, <1>2

LEMMA CalmEnvironment ==
  ASSUME Boot \/ Pull \/ (\E e \in {"reset", "hot", "cool"} : Report(e)) \/ OperatorResets \/ OtherSlotReset
  PROVE Calm
BY DEF Calm, Boot, Pull, Report, OperatorResets, OtherSlotReset, env, link, desc, hist, web

\* The rest of the steps, each with what it changes.

LEMMA TestDescribeKeeps ==
  ASSUME NEW b \in Maybe, Epoch(b), TestDescribe, Still PROVE Epoch(b)'
<1>1. CASE monitor' = "irq"
  <2>1. Calm
    BY <1>1 DEF Calm, TestDescribe, env, link, desc, hist, web
  <2> QED BY <2>1, CalmKeeps
<1>2. CASE monitor' # "irq"
  <2>1. /\ UNCHANGED <<board, boardChanged, known, info, inited, describe, got, webMon, flag, trans>>
        /\ flag = 2 /\ ~isok'
    BY <1>2 DEF TestDescribe, env, link, desc, hist, web
  <2>2. OneBoard(b)' /\ Marked(b)'
    BY <2>1 DEF Epoch, OneBoard, Marked, Awaited
  <2>3. Served(b)' <=> Served(b)
    BY <2>1 DEF Served
  <2>4. Tested(b)'
    BY <2>1, <2>3 DEF Epoch, Tested, Still
  <2> QED BY <2>2, <2>4 DEF Epoch
<1> QED BY <1>1, <1>2

LEMMA AddDescribeKeeps ==
  ASSUME TypeOK, NEW b \in Maybe, Epoch(b), NEW t \in Tasks, AddDescribe(t), ~lost', Still PROVE Epoch(b)'
<1>1. /\ UNCHANGED <<board, isok, boardChanged, known, info, inited, got, webMon, flag, trans>>
      /\ monitor = "add"
      /\ describe' = [describe EXCEPT ![t] = "read"]
      /\ \A u \in Tasks : describe[u] = "idle"
  BY DEF AddDescribe, Monitor, env, link, desc, hist, web
<1>2. \A u \in Tasks : describe'[u] = IF u = t THEN "read" ELSE "idle"
  BY <1>1 DEF TypeOK
<1>3. OneBoard(b)' /\ Marked(b)'
  <2>1. OneBoard(b)'
    <3>1. board' = board /\ boardChanged' = boardChanged /\ known' = known /\ info' = info /\ got' = got
      BY <1>1
    <3>2. board \in {b, None}
      BY DEF Epoch, OneBoard
    <3> QED BY <1>2, <3>1, <3>2 DEF OneBoard
  <2>2. Marked(b)'
    BY <1>1 DEF Epoch, Marked, Awaited
  <2> QED BY <2>1, <2>2
<1>4. Served(b) => Served(b)'
  BY <1>1, <1>2 DEF Served
<1>5. Tested(b)'
  BY <1>1, <1>4 DEF Epoch, Tested, Still
<1> QED BY <1>3, <1>5 DEF Epoch

LEMMA RaiseToThreeKeeps ==
  ASSUME NEW b \in Maybe, Epoch(b), RaiseToThree, Still PROVE Epoch(b)'
<1>1. /\ UNCHANGED <<board, isok, boardChanged, known, info, inited, describe, got, webMon, trans>>
      /\ monitor = "three" /\ monitor' = "irq" /\ flag' = 3
  BY DEF RaiseToThree, Monitor, env, link, desc, hist, web
<1>2. OneBoard(b)' /\ Marked(b)'
  BY <1>1 DEF Epoch, OneBoard, Marked, Awaited
<1>3. Served(b)' <=> Served(b)
  BY <1>1 DEF Served
<1>4. Tested(b)'
  BY <1>1, <1>3 DEF Epoch, Tested, Still
<1> QED BY <1>2, <1>4 DEF Epoch

\* A step of the description t, which is the only one.
LEMMA OnlyOne ==
  ASSUME TypeOK, NEW b \in Maybe, Epoch(b), NEW t \in Tasks, NEW from, NEW to, from # "idle",
         Describe(t, from, to)
  PROVE /\ describe[t] = from
        /\ \A u \in Tasks : u # t => describe[u] = "idle"
        /\ \A u \in Tasks : describe'[u] = IF u = t THEN to ELSE "idle"
<1>1. describe \in [Tasks -> Stage] /\ describe[t] = from /\ describe' = [describe EXCEPT ![t] = to]
  BY DEF Describe, TypeOK
<1>2. \A u \in Tasks : u # t => describe[u] = "idle"
  BY <1>1 DEF Epoch, OneBoard
<1> QED BY <1>1, <1>2

LEMMA ReadSummaryKeeps ==
  ASSUME TypeOK, NEW b \in Maybe, Epoch(b), NEW t \in Tasks, ReadSummary(t), Still PROVE Epoch(b)'
<1>1. /\ UNCHANGED <<board, isok, boardChanged, known, info, inited, webMon, flag, monitor, trans>>
      /\ Describe(t, "read", "compare") /\ got' = [got EXCEPT ![t] = board] /\ board # None
  BY DEF ReadSummary, Answers, env, link, hist, web
<1>2. /\ describe[t] = "read" /\ \A u \in Tasks : u # t => describe[u] = "idle"
      /\ \A u \in Tasks : describe'[u] = IF u = t THEN "compare" ELSE "idle"
  BY <1>1, OnlyOne
<1>3. got'[t] = b
  BY <1>1 DEF Epoch, OneBoard, TypeOK
<1>4. OneBoard(b)'
  BY <1>1, <1>2, <1>3 DEF Epoch, OneBoard
<1>5. Marked(b)'
  BY <1>1, <1>2 DEF Epoch, Marked, Awaited
<1>6. Served(b) => Served(b)'
  BY <1>1, <1>2 DEF Served
<1>7. Tested(b)'
  BY <1>1, <1>6 DEF Epoch, Tested, Still
<1> QED BY <1>4, <1>5, <1>7 DEF Epoch

LEMMA GiveUpKeeps ==
  ASSUME TypeOK, NEW b \in Maybe, Epoch(b), NEW t \in Tasks, NEW from \in {"read", "fetch"},
         GiveUp(t, from), Still
  PROVE Epoch(b)'
<1>1. /\ UNCHANGED <<board, isok, boardChanged, known, info, inited, webMon, flag, monitor, trans>>
      /\ Describe(t, from, "idle") /\ got' = [got EXCEPT ![t] = None]
  BY DEF GiveUp, Forget, env, link, hist, web
<1>2. /\ describe[t] = from /\ \A u \in Tasks : u # t => describe[u] = "idle"
      /\ \A u \in Tasks : describe'[u] = "idle"
  BY <1>1, OnlyOne
<1>3. OneBoard(b)'
  BY <1>1, <1>2 DEF Epoch, OneBoard
<1>4. Marked(b)'
  BY <1>1, <1>2 DEF Epoch, Marked, Awaited
<1>5. Served(b) => Served(b)'
  BY <1>1, <1>2 DEF Served
<1>6. Tested(b)'
  BY <1>1, <1>5 DEF Epoch, Tested, Still
<1> QED BY <1>3, <1>4, <1>6 DEF Epoch

LEMMA CompareBoardKeeps ==
  ASSUME TypeOK, NEW b \in Maybe, Epoch(b), NEW t \in Tasks, CompareBoard(t), ~lost', Still PROVE Epoch(b)'
<1> DEFINE new == got[t] # known
           told == Sort[got[t]] # Sort[known]
<1>1. /\ UNCHANGED <<board, isok, known, info, inited, got, webMon, flag, monitor, trans>>
      /\ Describe(t, "compare", IF new THEN "webfileNew" ELSE "webfile")
      /\ ~(boardChanged /\ ~told)
  BY DEF CompareBoard, env, link, hist, web
<1>2. /\ describe[t] = "compare" /\ \A u \in Tasks : u # t => describe[u] = "idle"
      /\ \A u \in Tasks : describe'[u] = IF u = t THEN IF new THEN "webfileNew" ELSE "webfile" ELSE "idle"
  <2>1. CASE new
    <3>1. Describe(t, "compare", "webfileNew")
      BY <1>1, <2>1
    <3>2. /\ describe[t] = "compare" /\ \A u \in Tasks : u # t => describe[u] = "idle"
          /\ \A u \in Tasks : describe'[u] = IF u = t THEN "webfileNew" ELSE "idle"
      BY <3>1, OnlyOne
    <3> QED BY <2>1, <3>2
  <2>2. CASE ~new
    <3>1. Describe(t, "compare", "webfile")
      BY <1>1, <2>2
    <3>2. /\ describe[t] = "compare" /\ \A u \in Tasks : u # t => describe[u] = "idle"
          /\ \A u \in Tasks : describe'[u] = IF u = t THEN "webfile" ELSE "idle"
      BY <3>1, OnlyOne
    <3> QED BY <2>2, <3>2
  <2> QED BY <2>1, <2>2
<1>3. boardChanged' <=> told
  BY DEF CompareBoard
<1>4. got[t] = b
  BY <1>2 DEF Epoch, OneBoard
<1>5. OneBoard(b)'
  BY <1>1, <1>2, <1>3, <1>4 DEF Epoch, OneBoard
<1>6. Marked(b)'
  BY <1>1, <1>2, <1>3 DEF Epoch, Marked, Awaited
<1>7. Served(b) => Served(b)'
  BY <1>1, <1>2 DEF Served
<1>8. Tested(b)'
  BY <1>1, <1>7 DEF Epoch, Tested, Still
<1> QED BY <1>5, <1>6, <1>8 DEF Epoch

LEMMA WebfileKeeps ==
  ASSUME TypeOK, NEW b \in Maybe, Epoch(b), NEW t \in Tasks, update_slot_webfile(t), Still PROVE Epoch(b)'
<1>1. /\ UNCHANGED <<board, isok, boardChanged, known, info, inited, got, webMon, flag, monitor, trans>>
      /\ Describe(t, "webfile", "same") \/ Describe(t, "webfileNew", "clear")
  BY DEF update_slot_webfile, env, link, hist, web
<1>2. /\ describe[t] \in {"webfile", "webfileNew"} /\ \A u \in Tasks : u # t => describe[u] = "idle"
      /\ \A u \in Tasks : describe'[u] = IF u = t THEN IF describe[t] = "webfile" THEN "same" ELSE "clear" ELSE "idle"
  <2>1. CASE Describe(t, "webfile", "same")
    BY <2>1, OnlyOne
  <2>2. CASE Describe(t, "webfileNew", "clear")
    <3>1. /\ describe[t] = "webfileNew" /\ \A u \in Tasks : u # t => describe[u] = "idle"
          /\ \A u \in Tasks : describe'[u] = IF u = t THEN "clear" ELSE "idle"
      BY <2>2, OnlyOne
    <3> QED BY <3>1
  <2> QED BY <1>1, <2>1, <2>2
<1>3. OneBoard(b)'
  BY <1>1, <1>2 DEF Epoch, OneBoard
<1>4. Marked(b)'
  BY <1>1, <1>2 DEF Epoch, Marked, Awaited
<1>5. Served(b) => Served(b)'
  BY <1>1, <1>2 DEF Served
<1>6. Tested(b)'
  BY <1>1, <1>5 DEF Epoch, Tested, Still
<1> QED BY <1>3, <1>4, <1>6 DEF Epoch

LEMMA SameBoardKeeps ==
  ASSUME TypeOK, NEW b \in Maybe, Epoch(b), NEW t \in Tasks, SameBoard(t), ~lost', Still PROVE Epoch(b)'
<1>1. /\ UNCHANGED <<board, known, info, inited, webMon, flag, monitor, trans>>
      /\ Describe(t, "same", "idle") /\ got' = [got EXCEPT ![t] = None] /\ ~boardChanged
  BY DEF SameBoard, Forget, env, link, hist, web
<1>2. isok' /\ ~boardChanged'
  BY DEF SameBoard
<1>3. /\ describe[t] = "same" /\ \A u \in Tasks : u # t => describe[u] = "idle"
      /\ \A u \in Tasks : describe'[u] = "idle"
  BY <1>1, OnlyOne
<1>4. known = b
  BY <1>3 DEF Epoch, OneBoard
<1>5. info = b
  BY <1>1, <1>4 DEF Epoch, Marked
<1>6. OneBoard(b)'
  BY <1>1, <1>3 DEF Epoch, OneBoard
<1>7. Marked(b)'
  BY <1>1, <1>2, <1>3, <1>5 DEF Epoch, Marked, Awaited
<1>8. Served(b)'
  BY <1>1, <1>4, <1>5 DEF Served
<1>9. Tested(b)'
  BY <1>1, <1>2, <1>8 DEF Epoch, Tested, Still
<1> QED BY <1>6, <1>7, <1>9 DEF Epoch

LEMMA ClearDescriptionKeeps ==
  ASSUME TypeOK, NEW b \in Maybe, Epoch(b), NEW t \in Tasks, ClearDescription(t), Still PROVE Epoch(b)'
<1>1. /\ UNCHANGED <<board, boardChanged, known, inited, got, webMon, flag, monitor, trans>>
      /\ Describe(t, "clear", "fetch")
  BY DEF ClearDescription, env, link, hist, web
<1>2. ~isok'
  BY DEF ClearDescription
<1>3. /\ describe[t] = "clear" /\ \A u \in Tasks : u # t => describe[u] = "idle"
      /\ \A u \in Tasks : describe'[u] = IF u = t THEN "fetch" ELSE "idle"
  BY <1>1, OnlyOne
<1>4. known # b
  BY <1>3 DEF Epoch, OneBoard
<1>5. ~Served(b)
  BY <1>3, <1>4 DEF Served
<1>6. OneBoard(b)'
  BY <1>1, <1>3 DEF Epoch, OneBoard
<1>7. Marked(b)'
  BY <1>1, <1>3, <1>4 DEF Epoch, Marked, Awaited
<1>8. webMon = "test" /\ flag # 4
  BY <1>5 DEF Epoch, Tested
<1>9. Tested(b)'
  BY <1>1, <1>2, <1>8 DEF Tested
<1> QED BY <1>6, <1>7, <1>9 DEF Epoch

LEMMA ReceiveKeeps ==
  ASSUME TypeOK, NEW b \in Maybe, Epoch(b), NEW t \in Tasks, receive_slot_boardinfo(t), Still PROVE Epoch(b)'
<1>1. /\ UNCHANGED <<board, boardChanged, known, inited, got, webMon, flag, monitor, trans>>
      /\ Describe(t, "fetch", "store") /\ board # None /\ info' = board
  BY DEF receive_slot_boardinfo, Answers, env, link, hist, web
<1>2. isok'
  BY DEF receive_slot_boardinfo
<1>3. /\ describe[t] = "fetch" /\ \A u \in Tasks : u # t => describe[u] = "idle"
      /\ \A u \in Tasks : describe'[u] = IF u = t THEN "store" ELSE "idle"
  BY <1>1, OnlyOne
<1>4. known # b /\ info' = b /\ (boardChanged \/ Sort[known] = Sort[b])
  BY <1>1, <1>3 DEF Epoch, OneBoard
<1>5. ~Served(b)
  BY <1>3, <1>4 DEF Served
<1>6. OneBoard(b)'
  BY <1>1, <1>3, <1>4 DEF Epoch, OneBoard
<1>7. Marked(b)'
  BY <1>1, <1>3, <1>4 DEF Epoch, Marked, Awaited
<1>8. webMon = "test" /\ flag # 4
  BY <1>5 DEF Epoch, Tested
<1>9. Served(b)'
  BY <1>3, <1>4 DEF Served
<1>10. Tested(b)'
  BY <1>1, <1>2, <1>8, <1>9 DEF Tested
<1> QED BY <1>6, <1>7, <1>10 DEF Epoch

LEMMA StoreTypeKeeps ==
  ASSUME TypeOK, NEW b \in Maybe, Epoch(b), NEW t \in Tasks, StoreType(t), Still PROVE Epoch(b)'
<1>1. /\ UNCHANGED <<board, isok, boardChanged, info, inited, webMon, flag, monitor, trans>>
      /\ Describe(t, "store", "idle") /\ known' = got[t] /\ got' = [got EXCEPT ![t] = None]
  BY DEF StoreType, Forget, env, link, hist, web
<1>2. /\ describe[t] = "store" /\ \A u \in Tasks : u # t => describe[u] = "idle"
      /\ \A u \in Tasks : describe'[u] = "idle"
  BY <1>1, OnlyOne
<1>3. known' = b /\ info = b
  BY <1>1, <1>2 DEF Epoch, OneBoard
<1>4. OneBoard(b)'
  BY <1>1, <1>2 DEF Epoch, OneBoard
<1>5. Marked(b)'
  BY <1>1, <1>2, <1>3 DEF Epoch, Marked, Awaited
<1>6. Served(b)'
  BY <1>1, <1>3 DEF Served
<1>7. Tested(b)'
  BY <1>1, <1>6 DEF Epoch, Tested, Still
<1> QED BY <1>4, <1>5, <1>7 DEF Epoch

LEMMA DescribeKeeps ==
  ASSUME TypeOK, NEW b \in Maybe, Epoch(b), NEW t \in Tasks, DescribeStep(t), ~lost', Still PROVE Epoch(b)'
BY ReadSummaryKeeps, GiveUpKeeps, CompareBoardKeeps, WebfileKeeps, SameBoardKeeps, ClearDescriptionKeeps,
   ReceiveKeeps, StoreTypeKeeps DEF DescribeStep

\* The monitor of httpd.bin.
LEMMA WebKeeps ==
  ASSUME TypeOK, NEW b \in Maybe, Epoch(b), WebStep, ~lost', Still PROVE Epoch(b)'
<1>1. CASE TestDescribed
  <2>1. /\ UNCHANGED <<board, isok, boardChanged, known, info, inited, describe, got, flag, monitor, trans>>
        /\ webMon = "test" /\ webMon' = "changed" /\ flag = 3 /\ isok
    BY <1>1 DEF TestDescribed, Web, env, link, desc, hist
  <2>2. OneBoard(b)' /\ Marked(b)'
    BY <2>1 DEF Epoch, OneBoard, Marked, Awaited
  <2>3. Served(b) /\ (Served(b)' <=> Served(b))
    BY <2>1 DEF Epoch, Tested, Served
  <2>4. Tested(b)'
    BY <2>1, <2>3 DEF Tested
  <2> QED BY <2>2, <2>4 DEF Epoch
<1>2. CASE TestChanged
  <2>1. /\ UNCHANGED <<board, isok, known, info, inited, describe, got, flag, monitor, trans>>
        /\ webMon = "changed" /\ webMon' = IF boardChanged THEN "init" ELSE "enable"
    BY <1>2 DEF TestChanged, env, link, hist
  <2>2. ~boardChanged'
    BY <1>2 DEF TestChanged
  <2>3. Served(b) /\ (Served(b)' <=> Served(b))
    BY <2>1 DEF Epoch, Tested, Served
  <2>4. \A t \in Tasks : describe[t] \notin {"webfileNew", "clear", "fetch"}
    <3>1. ASSUME NEW t \in Tasks, describe[t] \in {"webfileNew", "clear", "fetch"} PROVE FALSE
      <4>1. known # b
        BY <3>1 DEF Epoch, OneBoard
      <4>2. PICK u \in Tasks : describe[u] = "store"
        BY <2>3, <4>1 DEF Served
      <4> QED BY <3>1, <4>2 DEF Epoch, OneBoard
    <3> QED BY <3>1
  <2>5. OneBoard(b)'
    BY <2>1, <2>4 DEF Epoch, OneBoard
  <2>6. Marked(b)'
    BY <2>1, <2>3 DEF Epoch, Marked, Awaited, Served
  <2>7. Tested(b)'
    BY <2>1, <2>3 DEF Epoch, Tested, Marked, Awaited, Served, Still
  <2> QED BY <2>5, <2>6, <2>7 DEF Epoch
<1>3. CASE InitTransceiver
  <2>1. /\ UNCHANGED <<board, isok, boardChanged, known, info, describe, got, flag, monitor>>
        /\ webMon = "init" /\ webMon' = "enable" /\ inited' = info
    BY <1>3 DEF InitTransceiver, Web, env, link, desc, hist
  <2>2. OneBoard(b)' /\ Marked(b)'
    <3>1. OneBoard(b)'
      BY <2>1 DEF Epoch, OneBoard
    <3>2. Marked(b)'
      BY <2>1 DEF Epoch, Tested, Served, Marked, Awaited
    <3> QED BY <3>1, <3>2
  <2>3. Served(b)' <=> Served(b)
    BY <2>1 DEF Served
  <2>4. Tested(b)'
    BY <2>1, <2>3 DEF Epoch, Tested, Still
  <2> QED BY <2>2, <2>4 DEF Epoch
<1>4. CASE EnableTransceiver
  <2>1. /\ UNCHANGED <<board, isok, boardChanged, known, info, inited, describe, got, flag, monitor>>
        /\ webMon = "enable" /\ webMon' = "four" /\ trans' = "run"
    BY <1>4 DEF EnableTransceiver, Web, env, link, desc, hist
  <2>2. OneBoard(b)' /\ Marked(b)'
    BY <2>1 DEF Epoch, OneBoard, Marked, Awaited
  <2>3. Served(b)' <=> Served(b)
    BY <2>1 DEF Served
  <2>4. Tested(b)'
    BY <2>1, <2>3 DEF Epoch, Tested, Still
  <2> QED BY <2>2, <2>4 DEF Epoch
<1>5. CASE RaiseToFour
  <2>1. /\ UNCHANGED <<board, isok, boardChanged, known, info, inited, describe, got, monitor, trans>>
        /\ webMon = "four" /\ webMon' = "test" /\ flag' = 4 /\ ~stale.web
    BY <1>5 DEF RaiseToFour, Web, env, link, desc, web
  <2>2. OneBoard(b)' /\ Marked(b)'
    BY <2>1 DEF Epoch, OneBoard, Marked, Awaited
  <2>3. Served(b)' <=> Served(b)
    BY <2>1 DEF Served
  <2>4. Tested(b)'
    BY <2>1, <2>3 DEF Epoch, Tested
  <2> QED BY <2>2, <2>4 DEF Epoch
<1> QED BY <1>1, <1>2, <1>3, <1>4, <1>5 DEF WebStep

\* A board that is plugged into a settled slot begins an epoch of its own.
LEMMA PlugBegins ==
  ASSUME TypeOK, NEW b \in Boards, Plug(b), ~lost' PROVE Epoch(b)'
<1>1. /\ UNCHANGED <<isok, boardChanged, known, info, inited, describe, got, webMon, flag, monitor, trans>>
      /\ board' = b /\ Settled
  BY DEF Plug, link, desc, web
<1>2. OneBoard(b)'
  BY <1>1 DEF OneBoard, Settled
<1>3. Marked(b)'
  BY <1>1 DEF Marked, Awaited, Settled
<1>4. Tested(b)'
  BY <1>1 DEF Tested, Settled
<1> QED BY <1>2, <1>3, <1>4 DEF Epoch

-----------------------------------------------------------------------------
LEMMA EpochInit == ASSUME Init PROVE EpochInv
<1>1. /\ board = None /\ flag = 0 /\ webMon = "test" /\ monitor = "debounce"
      /\ known = info /\ inited = known
      /\ \A t \in Tasks : describe[t] = "idle"
  BY DEF Init
<1>2. OneBoard(None)
  BY <1>1 DEF OneBoard
<1>3. Marked(None)
  BY <1>1 DEF Marked, Awaited
<1>4. Tested(None)
  BY <1>1 DEF Tested
<1> QED BY <1>2, <1>3, <1>4 DEF EpochInv, Epoch, Maybe

\* Only a board that is plugged in ends the history of what was lost.
LEMMA LostStays ==
  ASSUME Next, ~(\E b \in Boards : Plug(b)), lost PROVE lost'
<1>1. CASE MonitorStep
  BY <1>1 DEF MonitorStep, read_slots_status, TestLink, StartSpi, PluggedIn, PulledOut, PauseSpi, DisableTransceiver,
     TestDescribe, AddDescribe, RaiseToThree, check_fpga_irq, hist
<1>2. ASSUME NEW a, ResetStep(a) PROVE lost'
  BY <1>2 DEF ResetStep, suspend_slot_board, ResetStatus, ResetCounts, ResetTransfers, resume_slot_board, hist
<1>3. CASE IrqStep /\ ~ResetStep("irq")
  BY <1>3 DEF IrqStep, GetIrqEvents, NoIrqEvents, EventsDone, StartIgnored, StartSeen, ResetSeen,
              HotSeen, CoolSeen, RaiseToTwo, hist
<1>4. ASSUME NEW t \in Tasks, DescribeStep(t) PROVE lost'
  BY <1>4 DEF DescribeStep, ReadSummary, GiveUp, CompareBoard, update_slot_webfile, SameBoard, ClearDescription,
              receive_slot_boardinfo, StoreType, ShowError, hist
<1>5. CASE WebStep
  BY <1>5 DEF WebStep, TestDescribed, TestChanged, InitTransceiver, EnableTransceiver, RaiseToFour, hist
<1>6. CASE Boot
  BY <1>6 DEF Boot, hist
<1>7. CASE Environment
  BY <1>7 DEF Environment, Pull, Report, OperatorResets, OtherSlotReset, hist
<1> QED BY <1>1, <1>2, <1>3, <1>4, <1>5, <1>6, <1>7 DEF Next, AndStale

LEMMA EpochStep == ASSUME TypeOK, EpochInv, [Next]_vars PROVE EpochInv'
<1>1. CASE UNCHANGED vars
  <2>1. Calm /\ Still
    BY <1>1 DEF Calm, Still, vars, env, link, desc, web
  <2>2. lost' = lost
    BY <1>1 DEF vars, hist
  <2> QED BY <2>1, <2>2, CalmKeeps DEF EpochInv
<1>2. CASE Next
  <2> SUFFICES ASSUME ~lost' PROVE (\E b \in Maybe : Epoch(b))'
    BY DEF EpochInv
  <2>1. Still
    BY <1>2 DEF Next, AndStale, Still
  <2>2. CASE \E b \in Boards : Plug(b)
    BY <2>2, PlugBegins DEF Maybe
  <2>3. CASE ~(\E b \in Boards : Plug(b))
    <3>1. PICK b \in Maybe : Epoch(b)
      BY <1>2, <2>3, LostStays DEF EpochInv
    <3>2. CASE MonitorStep
      <4>1. ASSUME Calm PROVE Epoch(b)'
        BY <2>1, <3>1, <4>1, CalmKeeps
      <4> QED BY <2>1, <3>1, <3>2, <4>1, CalmMonitor, TestDescribeKeeps, AddDescribeKeeps, RaiseToThreeKeeps
              DEF MonitorStep
    <3>3. CASE IrqStep \/ ResetStep("operator") \/ Boot \/ Environment
      <4>1. Calm
        BY <2>3, <3>3, CalmIrq, CalmReset, CalmEnvironment DEF Environment
      <4> QED BY <2>1, <3>1, <4>1, CalmKeeps
    <3>4. CASE \E t \in Tasks : DescribeStep(t)
      BY <2>1, <3>1, <3>4, DescribeKeeps
    <3>5. CASE WebStep
      BY <2>1, <3>1, <3>5, WebKeeps
    <3> QED BY <1>2, <3>2, <3>3, <3>4, <3>5 DEF Next, AndStale
  <2> QED BY <2>2, <2>3
<1> QED BY <1>1, <1>2

\* All words of the slot keep their ranges.
THEOREM TypeCorrect == Spec => []TypeOK
<1>1. Init => TypeOK
  <2> SUFFICES ASSUME Init PROVE TypeOK
    OBVIOUS
  <2>1. Described
    BY DEF Init, Described, Maybe, Stage
  <2>2. Levels
    BY DEF Init, Levels
  <2>3. Flags
    BY DEF Init, Flags
  <2>4. stale \in [link : BOOLEAN, web : BOOLEAN]
    BY DEF Init
  <2> QED BY <2>1, <2>2, <2>3, <2>4 DEF TypeOK, Described, Levels, Flags
<1> QED BY <1>1, TypeStep, PTL DEF Spec

\* While no update was lost a slot at level 4 has its transceivers set up for
\* a board of the sort it knows, whichever boards come and go and however the steps of
\* its four threads interleave.
THEOREM LevelFourIsConfigured == Spec => []FourIsConfigured
<1>1. TypeOK /\ EpochInv => FourIsConfigured
  BY DEF EpochInv, Epoch, Tested, FourIsConfigured
<1>2. TypeOK /\ EpochInv /\ [Next]_vars => EpochInv'
  BY EpochStep
<1> QED BY <1>1, <1>2, EpochInit, TypeCorrect, PTL DEF Spec
=============================================================================
