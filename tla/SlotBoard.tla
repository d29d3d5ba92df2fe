------------------------------ MODULE SlotBoard ------------------------------
(***************************************************************************)
(* One slot of the chassis and the board in it, from the moment it is      *)
(* plugged in until its transceivers run, and back.                        *)
(*                                                                         *)
(* Four threads write the words of the slot in shared memory, none of      *)
(* which has a lock: the monitor of dcp3000.bin (main.c) debounces the     *)
(* connect line, starts and pauses the SPI and looks at the interrupts; a  *)
(* task of its pool reads the events of the board and acts on them;        *)
(* another, added when run_flag is 2, describes the board (system.c,       *)
(* update_slot_boardinfo); the monitor of httpd.bin (webmain.c) sets the   *)
(* transceivers up and raises run_flag from 3 to 4.  An operator may reset *)
(* the board.                                                              *)
(*                                                                         *)
(* lost is a history: a word was written by a thread that had tested it    *)
(* before somebody else changed it, or an announcement of the board was    *)
(* not acted on.  It begins afresh with a board that is plugged into a     *)
(* slot where nobody is at work for the last one and what is known of that *)
(* one is complete, or marked as changed.                                  *)
(* The board itself, its connect line and its SPI are external.            *)
(***************************************************************************)
EXTENDS Naturals, Sequences

CONSTANTS
  Boards,     \* boards that can be plugged in, by type and version
  None,       \* no board
  Sort,       \* their version, and their type but for its low byte
  Tasks,      \* bound: descriptions under way at once
  MaxPlugs,   \* bound: boards plugged in
  MaxReports, \* bound: what boards and operators do of their own accord
  MaxFaults   \* bound: SPI transfers that fail although nothing forbids them

ASSUME SlotBoardAssumption ==
  /\ None \notin Boards /\ \A b \in Boards : Sort[b] # Sort[None]
  /\ {MaxPlugs, MaxReports, MaxFaults} \subseteq Nat

VARIABLES
  board,     \* the board in the slot
  held,      \* the slot's bit of REG_FPGA_SLOT_RESET_CONTROL is 0
  booting,   \* the board will announce that it started
  pending,   \* irq_events in the board; its interrupt is up unless empty
  shown,     \* slot_status is not SLOT_STATUS_NULL
  last, linked, unlinked, \* last_link_status, linked_count, unlinked_count
  changed,   \* link_changed
  flag,      \* slot_info[slot].run_flag
  spi,       \* spi_masters[slot].run_flag
  trans,     \* transceiver[slot].run_flag
  isok,      \* boardinfo_isok
  boardChanged, \* slot_info[slot].board_changed
  known,     \* board_type and board_version
  info,      \* the description in slot_board_list
  inited,    \* the board the transceivers were initialised for
  monitor,   \* where moniter_task of dcp3000.bin is
  pc,        \* where the event task ("irq") and the operator are
  batch,     \* board_event_logs[slot].irq_events
  describe,  \* where each update_slot_boardinfo is
  got,       \* the summary it read
  webMon,    \* where moniter_task of httpd.bin is
  stale,     \* history: the words a monitor tested were written since
  lost,      \* history, see above
  gaveUp,    \* history: a description was given up
  early,     \* history: the board was pulled out while slot_status was NULL
  plugs, reports, faults

env == <<board, held, booting, pending, plugs, reports, early>>
link == <<shown, last, linked, unlinked, changed>>
desc == <<describe, got, isok, boardChanged, known, info>>
hist == <<lost, gaveUp, faults>>
web == <<webMon, inited>>
vars == <<env, link, flag, spi, trans, desc, web, stale, monitor, pc, batch, hist>>

Maybe == Boards \cup {None}
Stage == {"idle", "read", "compare", "webfile", "webfileNew", "same", "clear", "fetch", "store"}

\* Init after init_sysinfo, which reads the descriptions saved on disk.
Init ==
  /\ board = None /\ held = FALSE /\ booting = FALSE /\ pending = <<>>
  /\ plugs = 0 /\ reports = 0 /\ early = FALSE
  /\ shown = FALSE /\ last = FALSE /\ linked = 0 /\ unlinked = 0 /\ changed = FALSE
  /\ flag = 0 /\ spi = "stop" /\ trans = "stop"
  /\ isok = FALSE /\ boardChanged = FALSE
  /\ known \in Maybe /\ info = known /\ inited = known
  /\ monitor = "debounce" /\ batch = <<>>
  /\ pc = [a \in {"irq", "operator"} |-> "idle"]
  /\ describe = [t \in Tasks |-> "idle"] /\ got = [t \in Tasks |-> None]
  /\ webMon = "test" /\ stale = [link |-> FALSE, web |-> FALSE]
  /\ lost = FALSE /\ gaveUp = FALSE /\ faults = 0

-----------------------------------------------------------------------------
(* The board (external) *)

\* Nobody is still at work for the last board, or has left its level or half of
\* its description behind.
Settled ==
  /\ boardChanged \/ (known = info /\ Sort[inited] = Sort[info])
  /\ flag = 0 /\ ~shown /\ ~changed /\ monitor \in {"debounce", "link", "describe", "irq"}
  /\ \A a \in DOMAIN pc : pc[a] = "idle"
  /\ \A t \in Tasks : describe[t] = "idle"
  /\ webMon = "test"

Plug(b) ==
  /\ board = None /\ plugs < MaxPlugs
  /\ board' = b /\ booting' = ~held /\ plugs' = plugs + 1
  /\ lost' = ~Settled /\ gaveUp' = FALSE /\ early' = FALSE
  /\ UNCHANGED <<held, pending, reports, faults, link, flag, spi, trans, desc, web, monitor, pc, batch>>

Pull ==
  /\ board # None
  /\ board' = None /\ booting' = FALSE /\ pending' = <<>> /\ early' = ~shown
  /\ UNCHANGED <<held, plugs, reports, link, flag, spi, trans, desc, web, monitor, pc, batch, hist>>

\* The application of the board is up and says so.
Boot ==
  /\ booting
  /\ booting' = FALSE /\ pending' = Append(pending, "start")
  /\ UNCHANGED <<board, held, plugs, reports, early, link, flag, spi, trans, desc, web, monitor, pc, batch, hist>>

\* It reports a temperature, or that it resets itself and will boot again.
Report(e) ==
  /\ board # None /\ ~held /\ ~booting /\ reports < MaxReports
  /\ reports' = reports + 1 /\ pending' = Append(pending, e)
  /\ booting' = (e = "reset")
  /\ UNCHANGED <<board, held, plugs, early, link, flag, spi, trans, desc, web, monitor, pc, batch, hist>>

\* REG_FPGA_SLOT_RESET_CONTROL: a board in reset forgets what it had to say.
Hold ==
  /\ held' = TRUE /\ booting' = FALSE /\ pending' = <<>>
  /\ UNCHANGED <<board, plugs, reports, early>>
Release ==
  /\ held' = FALSE /\ booting' = (booting \/ (held /\ board # None))
  /\ UNCHANGED <<board, pending, plugs, reports, early>>

Answers == spi = "run" /\ board # None /\ ~held
Fault == ~Answers \/ faults < MaxFaults
CountFault == faults' = IF Answers THEN faults + 1 ELSE faults

-----------------------------------------------------------------------------
(* moniter_task of dcp3000.bin *)

Monitor(from, to) == monitor = from /\ monitor' = to

\* linked_count and unlinked_count, before they are looked at.
LinkedCount ==
  CASE board = None -> linked
    [] board # None /\ ~last -> 1
    [] OTHER -> IF shown THEN linked ELSE linked + 1

UnlinkedCount ==
  CASE board # None -> unlinked
    [] board = None /\ last -> 1
    [] OTHER -> IF shown THEN unlinked + 1 ELSE unlinked

\* A line that was the same more than SLOT_LINK_CHANGED_CHECK_TIMES times
\* makes a change.
check_slot_in_status ==
  LET plugIn == board # None /\ ~shown /\ LinkedCount > 1
      pullOut == board = None /\ shown /\ UnlinkedCount > 1
  IN /\ last' = (board # None)
     /\ shown' = ((shown \/ plugIn) /\ ~pullOut)
     /\ changed' = (changed \/ plugIn \/ pullOut)
     /\ linked' = IF plugIn THEN 0 ELSE LinkedCount
     /\ unlinked' = IF pullOut THEN 0 ELSE UnlinkedCount

read_slots_status ==
  /\ Monitor("debounce", "link")
  /\ check_slot_in_status
  /\ UNCHANGED <<env, flag, spi, trans, desc, web, pc, batch, hist>>

TestLink ==
  /\ monitor = "link"
  /\ monitor' = IF ~changed THEN "describe" ELSE IF shown THEN "start" ELSE "out"
  /\ changed' = FALSE
  /\ UNCHANGED <<env, shown, last, linked, unlinked, flag, spi, trans, desc, web, pc, batch, hist>>

\* Mutant of StartSpi: nothing is resumed after a pause.
StartOnce ==
  /\ Monitor("start", "in")
  /\ spi' = IF spi = "stop" THEN "run" ELSE spi
  /\ UNCHANGED <<env, link, flag, trans, desc, web, pc, batch, hist>>

\* start_spi_transfer_task, or resume_spi_transfer_task after a pause.
StartSpi ==
  /\ Monitor("start", "in")
  /\ spi' = "run"
  /\ UNCHANGED <<env, link, flag, trans, desc, web, pc, batch, hist>>

\* An announcement that was acted on, or a reset, since the test of the link
\* is undone.
PluggedIn ==
  /\ Monitor("in", "describe")
  /\ flag' = 1
  /\ lost' = (lost \/ stale.link)
  /\ UNCHANGED <<env, link, spi, trans, desc, web, pc, batch, gaveUp, faults>>

PulledOut ==
  /\ Monitor("out", "pause")
  /\ flag' = 0
  /\ UNCHANGED <<env, link, spi, trans, desc, web, pc, batch, hist>>

\* Mutant of PauseSpi: the worker goes on.
LeaveSpi ==
  /\ Monitor("pause", "disable")
  /\ UNCHANGED <<env, link, flag, spi, trans, desc, web, pc, batch, hist>>

PauseSpi ==
  /\ Monitor("pause", "disable")
  /\ spi' = "pause"
  /\ UNCHANGED <<env, link, flag, trans, desc, web, pc, batch, hist>>

DisableTransceiver ==
  /\ Monitor("disable", "describe")
  /\ trans' = "pause"
  /\ UNCHANGED <<env, link, flag, spi, desc, web, pc, batch, hist>>

TestDescribe ==
  /\ monitor = "describe"
  /\ IF flag = 2 /\ spi = "run"
     THEN monitor' = "add" /\ isok' = FALSE
     ELSE monitor' = "irq" /\ UNCHANGED isok
  /\ UNCHANGED <<env, link, flag, spi, trans, describe, got, boardChanged, known, info, web, pc, batch, hist>>

\* Two descriptions under way undo each other's results.
AddDescribe(t) ==
  /\ Monitor("add", "three")
  /\ describe[t] = "idle"
  /\ describe' = [describe EXCEPT ![t] = "read"]
  /\ lost' = (lost \/ \E u \in Tasks : describe[u] # "idle")
  /\ UNCHANGED <<env, link, flag, spi, trans, got, isok, boardChanged, known, info, web, pc, batch, gaveUp, faults>>

RaiseToThree ==
  /\ Monitor("three", "irq")
  /\ flag' = 3
  /\ lost' = (lost \/ flag # 2)
  /\ UNCHANGED <<env, link, spi, trans, desc, web, pc, batch, gaveUp, faults>>

\* An event task whose mask bit is set is refused (module ThreadPool).
check_fpga_irq ==
  /\ Monitor("irq", "debounce")
  /\ IF pending # <<>>
     THEN /\ flag' = IF flag = 0 THEN 1 ELSE flag
          /\ spi' = IF flag = 0 THEN "run" ELSE spi
          /\ pc' = IF pc["irq"] = "idle" THEN [pc EXCEPT !["irq"] = "read"] ELSE pc
     ELSE UNCHANGED <<flag, spi, pc>>
  /\ UNCHANGED <<env, link, trans, desc, web, batch, hist>>

-----------------------------------------------------------------------------
(* slot_board_action, the event task *)

At(a, from, to) == pc[a] = from /\ pc' = [pc EXCEPT ![a] = to]

GetIrqEvents ==
  /\ Answers /\ At("irq", "read", "event")
  /\ batch' = pending /\ pending' = <<>>
  /\ UNCHANGED <<board, held, booting, plugs, reports, early, link, flag, spi, trans, desc, web, monitor, hist>>

NoIrqEvents ==
  /\ Fault /\ At("irq", "read", "idle")
  /\ CountFault
  /\ UNCHANGED <<env, link, flag, spi, trans, desc, web, monitor, batch, lost, gaveUp>>

EventsDone ==
  /\ batch = <<>> /\ At("irq", "event", "idle")
  /\ UNCHANGED <<env, link, flag, spi, trans, desc, web, monitor, batch, hist>>

\* An event above level 0 is shown; "start" may have that level.  A start is
\* acted on only if the slot was counted as plugged in.
Event(e, to) ==
  /\ batch # <<>> /\ Head(batch) = e /\ At("irq", "event", to)
  /\ batch' = Tail(batch)
  /\ shown' \in {TRUE} \cup (IF e = "start" THEN {shown} ELSE {})
  /\ UNCHANGED <<env, last, linked, unlinked, changed, spi, trans, desc, web, monitor>>

StartIgnored ==
  /\ flag = 0 /\ Event("start", "event")
  /\ lost' = TRUE
  /\ UNCHANGED <<flag, gaveUp, faults>>
StartSeen == flag # 0 /\ Event("start", "two") /\ UNCHANGED <<flag, hist>>
ResetSeen == Event("reset", "status") /\ UNCHANGED <<flag, hist>>
HotSeen == Event("hot", "hold") /\ UNCHANGED <<flag, hist>>
CoolSeen ==
  /\ Event("cool", IF flag = 0 THEN "release" ELSE "event")
  /\ UNCHANGED <<flag, hist>>

RaiseToTwo ==
  /\ At("irq", "two", "event")
  /\ flag' = 2 /\ shown' = TRUE
  /\ lost' = (lost \/ flag = 0)
  /\ UNCHANGED <<env, last, linked, unlinked, changed, spi, trans, desc, web, monitor, batch, gaveUp, faults>>

-----------------------------------------------------------------------------
(* suspend_slot_board, reset_slot_board_status and resume_slot_board, by the
   event task or by reset_slot_board of an operator *)

OperatorResets ==
  /\ reports < MaxReports /\ board # None
  /\ At("operator", "idle", "hold")
  /\ reports' = reports + 1
  /\ UNCHANGED <<board, held, booting, pending, plugs, early, link, flag, spi, trans, desc, web, monitor, batch, hist>>

suspend_slot_board(a) ==
  /\ At(a, "hold", "status")
  /\ Hold
  /\ UNCHANGED <<link, flag, spi, trans, desc, web, monitor, batch, hist>>

ResetStatus(a) ==
  /\ At(a, "status", "counts")
  /\ shown' = FALSE /\ flag' = 0
  /\ UNCHANGED <<env, last, linked, unlinked, changed, spi, trans, desc, web, monitor, batch, hist>>

ResetCounts(a) ==
  /\ At(a, "counts", "spi")
  /\ last' = FALSE /\ linked' = 0 /\ unlinked' = 0
  /\ UNCHANGED <<env, shown, changed, flag, spi, trans, desc, web, monitor, batch, hist>>

\* Too late if the monitor has counted the slot as plugged in again, or has
\* started the SPI for an interrupt.
ResetTransfers(a) ==
  /\ At(a, "spi", IF a = "irq" THEN "event" ELSE "release")
  /\ spi' = "pause" /\ trans' = "pause"
  /\ lost' = (lost \/ shown \/ flag # 0)
  /\ UNCHANGED <<env, link, flag, desc, web, monitor, batch, gaveUp, faults>>

resume_slot_board(a) ==
  /\ At(a, "release", IF a = "irq" THEN "event" ELSE "idle")
  /\ Release
  /\ UNCHANGED <<link, flag, spi, trans, desc, web, monitor, batch, hist>>

\* httpd.bin resets another slot: its own copy of the mask lets this one go.
OtherSlotReset ==
  /\ held /\ reports < MaxReports
  /\ held' = FALSE /\ booting' = (board # None) /\ reports' = reports + 1
  /\ lost' = TRUE
  /\ UNCHANGED <<board, pending, plugs, early, link, flag, spi, trans, desc, web, monitor, pc, batch, gaveUp, faults>>

-----------------------------------------------------------------------------
(* update_slot_boardinfo *)

Describe(t, from, to) == describe[t] = from /\ describe' = [describe EXCEPT ![t] = to]
Forget(t) == got' = [got EXCEPT ![t] = None]

ReadSummary(t) ==
  /\ Answers /\ Describe(t, "read", "compare")
  /\ got' = [got EXCEPT ![t] = board]
  /\ UNCHANGED <<env, link, flag, spi, trans, isok, boardChanged, known, info, web, monitor, pc, batch, hist>>

\* Shown on a slot that was reset meanwhile, the error hides the board from
\* the debouncing.
ShowError == shown' = TRUE /\ lost' = (lost \/ ~shown)

\* A transfer failed: of the summary after three attempts (slot_status stays),
\* of the description at once.
GiveUp(t, from) ==
  /\ Fault /\ Describe(t, from, "idle")
  /\ CountFault /\ gaveUp' = TRUE /\ Forget(t)
  /\ IF from = "fetch" THEN ShowError ELSE UNCHANGED <<shown, lost>>
  /\ UNCHANGED <<env, last, linked, unlinked, changed, flag, spi, trans, isok, boardChanged, known, info, web, monitor, pc, batch>>

\* Mutant of CompareBoard: httpd.bin is not told of a new version.
CompareBoardQuiet(t) ==
  LET new == got[t] # known
  IN /\ Describe(t, "compare", IF new THEN "webfileNew" ELSE "webfile")
     /\ boardChanged' = FALSE
     /\ UNCHANGED <<env, link, flag, spi, trans, got, isok, known, info, web, monitor, pc, batch, hist>>

\* httpd.bin is told of a board of another sort only, although any other board
\* is described anew; a change nobody has served yet is forgotten when a board
\* of the same sort is compared.
CompareBoard(t) ==
  LET new == got[t] # known
      told == Sort[got[t]] # Sort[known]
  IN /\ Describe(t, "compare", IF new THEN "webfileNew" ELSE "webfile")
     /\ boardChanged' = told
     /\ lost' = (lost \/ (boardChanged /\ ~told))
     /\ UNCHANGED <<env, link, flag, spi, trans, got, isok, known, info, web, monitor, pc, batch, gaveUp, faults>>

\* The web files may fail to come; the description goes on without them.
update_slot_webfile(t) ==
  /\ \/ Describe(t, "webfile", "same") \/ Describe(t, "webfileNew", "clear")
  /\ \/ UNCHANGED <<shown, lost, faults>>
     \/ Fault /\ CountFault /\ ShowError
  /\ UNCHANGED <<env, last, linked, unlinked, changed, flag, spi, trans, got, isok, boardChanged, known, info, web, monitor, pc, batch, gaveUp>>

SameBoard(t) ==
  /\ Describe(t, "same", "idle")
  /\ boardChanged' = FALSE /\ isok' = TRUE /\ Forget(t)
  /\ lost' = (lost \/ boardChanged)
  /\ UNCHANGED <<env, link, flag, spi, trans, known, info, web, monitor, pc, batch, gaveUp, faults>>

ClearDescription(t) ==
  /\ Describe(t, "clear", "fetch")
  /\ isok' = FALSE /\ info' = None
  /\ UNCHANGED <<env, link, flag, spi, trans, got, boardChanged, known, web, monitor, pc, batch, hist>>

receive_slot_boardinfo(t) ==
  /\ Answers /\ Describe(t, "fetch", "store")
  /\ info' = board /\ isok' = TRUE
  /\ UNCHANGED <<env, link, flag, spi, trans, got, boardChanged, known, web, monitor, pc, batch, hist>>

StoreType(t) ==
  /\ Describe(t, "store", "idle")
  /\ known' = got[t] /\ Forget(t)
  /\ UNCHANGED <<env, link, flag, spi, trans, isok, boardChanged, info, web, monitor, pc, batch, hist>>

-----------------------------------------------------------------------------
(* moniter_task of httpd.bin *)

Web(from, to) == webMon = from /\ webMon' = to

TestDescribed ==
  /\ Web("test", "changed")
  /\ flag = 3 /\ isok
  /\ UNCHANGED <<env, link, flag, spi, trans, desc, inited, monitor, pc, batch, hist>>

\* sync_transceiver_route_tables leaves the channels as they are.
TestChanged ==
  /\ webMon = "changed"
  /\ webMon' = IF boardChanged THEN "init" ELSE "enable"
  /\ boardChanged' = FALSE
  /\ UNCHANGED <<env, link, flag, spi, trans, describe, got, isok, known, info, inited, monitor, pc, batch, hist>>

\* free_transceiver (not the first time), init_ and allocate_transceiver.
InitTransceiver ==
  /\ Web("init", "enable")
  /\ trans' \in {trans, "stop"} /\ inited' = info
  /\ UNCHANGED <<env, link, flag, spi, desc, monitor, pc, batch, hist>>

EnableTransceiver ==
  /\ Web("enable", "four")
  /\ trans' = "run"
  /\ UNCHANGED <<env, link, flag, spi, desc, inited, monitor, pc, batch, hist>>

RaiseToFour ==
  /\ Web("four", "test")
  /\ flag' = 4
  /\ lost' = (lost \/ stale.web)
  /\ UNCHANGED <<env, link, spi, trans, desc, inited, monitor, pc, batch, gaveUp, faults>>

-----------------------------------------------------------------------------
MonitorStep ==
  \/ read_slots_status \/ TestLink \/ StartSpi \/ PluggedIn
  \/ PulledOut \/ PauseSpi \/ DisableTransceiver
  \/ TestDescribe \/ (\E t \in Tasks : AddDescribe(t)) \/ RaiseToThree
  \/ check_fpga_irq
ResetStep(a) ==
  \/ suspend_slot_board(a) \/ ResetStatus(a) \/ ResetCounts(a)
  \/ ResetTransfers(a) \/ resume_slot_board(a)
IrqStep ==
  \/ GetIrqEvents \/ NoIrqEvents \/ EventsDone \/ StartIgnored \/ StartSeen
  \/ ResetSeen \/ HotSeen \/ CoolSeen \/ RaiseToTwo \/ ResetStep("irq")
DescribeStep(t) ==
  \/ ReadSummary(t) \/ GiveUp(t, "read") \/ CompareBoard(t)
  \/ update_slot_webfile(t) \/ SameBoard(t) \/ ClearDescription(t)
  \/ receive_slot_boardinfo(t) \/ GiveUp(t, "fetch") \/ StoreType(t)
WebStep ==
  \/ TestDescribed \/ TestChanged \/ InitTransceiver \/ EnableTransceiver \/ RaiseToFour
Environment ==
  \/ (\E b \in Boards : Plug(b)) \/ Pull
  \/ (\E e \in {"reset", "hot", "cool"} : Report(e))
  \/ OperatorResets \/ OtherSlotReset

\* The history of what the two monitors act on goes along with every step:
\* written by somebody else since they decided.
LinkDecided == changed \/ monitor \in {"start", "in"}
AndStale(A) ==
  /\ A
  /\ stale' = [link |-> LinkDecided' /\ (stale.link \/ (LinkDecided /\ (flag' # flag \/ shown' # shown))),
               web |-> webMon' # "test" /\ (stale.web \/ flag' # flag)]

Next == AndStale(
  \/ MonitorStep \/ IrqStep \/ (\E t \in Tasks : DescribeStep(t)) \/ WebStep
  \/ ResetStep("operator") \/ Boot \/ Environment)

Spec == Init /\ [][Next]_vars

\* Every thread is scheduled, a confirmed reset is carried out, and a board
\* that boots says so.
FairSpec ==
  /\ Spec
  /\ WF_vars(AndStale(MonitorStep)) /\ WF_vars(AndStale(IrqStep)) /\ WF_vars(AndStale(WebStep))
  /\ \A t \in Tasks : WF_vars(AndStale(DescribeStep(t)))
  /\ WF_vars(AndStale(ResetStep("operator"))) /\ WF_vars(AndStale(Boot))

-----------------------------------------------------------------------------
(* Properties *)

\* All words keep their ranges.
TypeOK ==
  /\ board \in Maybe /\ known \in Maybe /\ info \in Maybe /\ inited \in Maybe
  /\ held \in BOOLEAN /\ booting \in BOOLEAN /\ shown \in BOOLEAN /\ last \in BOOLEAN /\ changed \in BOOLEAN
  /\ isok \in BOOLEAN /\ boardChanged \in BOOLEAN /\ stale \in [link : BOOLEAN, web : BOOLEAN]
  /\ lost \in BOOLEAN /\ gaveUp \in BOOLEAN /\ early \in BOOLEAN
  /\ linked \in 0 .. 1 /\ unlinked \in 0 .. 1 /\ flag \in 0 .. 4
  /\ spi \in {"stop", "pause", "run"} /\ trans \in {"stop", "pause", "run"}
  /\ describe \in [Tasks -> Stage] /\ got \in [Tasks -> Maybe]

\* A slot at level 4 has its transceivers set up for a board of the sort it
\* knows, unless an update was lost on the way.  The board itself may be another:
\* a difference in the low byte of the type alone changes the description and
\* not the transceivers.
FourIsConfigured ==
  flag = 4 /\ ~lost => isok /\ trans # "stop" /\ Sort[inited] = Sort[info]

\* A board that stays in the slot and is not held in reset ends up described,
\* with its transceivers initialised for its sort and running; the only ways out
\* are a description that was given up and the updates recorded in lost.
BoardComesUp ==
  <>[](board # None /\ ~held) =>
    <>[](lost \/ gaveUp \/ (/\ flag = 4 /\ isok /\ spi = "run" /\ trans = "run"
                            /\ known = board /\ info = board /\ Sort[inited] = Sort[board]))

\* A slot that stays empty ends up shown as empty, whatever tasks for the
\* board that was in it were still under way; and nothing runs for it.
EmptyIsQuiet ==
  <>[](board = None) =>
    <>[](~shown /\ (lost \/ early \/ (flag = 0 /\ spi # "run" /\ trans # "run")))
=============================================================================
