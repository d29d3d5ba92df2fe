---------------------------- MODULE Supervision -----------------------------
(***************************************************************************)
(* Start-up and supervision of the three processes.                        *)
(*                                                                         *)
(* watchd.bin (watchdog.c) starts the web server, starts it again when it  *)
(* dies, and once a second feeds the hardware watchdog or counts how long  *)
(* dcp3000.bin has not reported.  dcp3000.bin (main.c) climbs run_flag     *)
(* from 1 to 4 and runs the monitor, which zeroes the count every turn.    *)
(* httpd.bin (webmain.c, mux/mux.c) waits for 4 and climbs to 7, doing one *)
(* piece of work that must not be repeated at each level.  The processes   *)
(* share run_flag and the watchdog words without any lock.                 *)
(*                                                                         *)
(* Time is discrete: Second passes only when watchd has finished its turn  *)
(* and the monitor, if healthy, has not let MaxTurn sleeps of watchd pass  *)
(* without a turn (it turns every 10 ms); a pending signal, the two writes *)
(* of a switch and the creation of the monitor take no second.  The device *)
(* /dev/misc/watchdog, fork and the signals are external.                  *)
(***************************************************************************)
EXTENDS Integers

CONSTANTS
  SwTimeout,    \* wdt_sw_timeout: seconds before watchd reboots
  HwTimeout,    \* wdt_hw_timeout: seconds before the device resets the board
  MaxTurn,      \* sleeps of watchd in which a healthy monitor turns
  MaxDeaths,    \* bound: deaths of the web server
  MaxSwitches   \* bound: times an operator switches the watchdog on or off

ASSUME SupervisionAssumption ==
  /\ {SwTimeout, HwTimeout, MaxTurn} \subseteq Nat \ {0}
  /\ {MaxDeaths, MaxSwitches} \subseteq Nat

VARIABLES
  flag,      \* sysinfo->run_flag
  enable,    \* wdt->enable
  timeout,   \* wdt->timeout
  watch,     \* sysinfo->watchdog_enable
  fd,        \* watchdog_fd of watchd: -1 closed, 0 failed, 1 open
  hw,        \* seconds left in the device, 0 when it is not armed
  dog,       \* where the loop of watchd is
  loaded,    \* the value of wdt->timeout that watchd is incrementing
  main,      \* where the main thread of dcp3000.bin is
  monitor,   \* moniter_task of dcp3000.bin
  late,      \* sleeps of watchd since the last with a turn of the monitor
  web,       \* where httpd.bin is
  child,     \* a SIGCHLD is pending in watchd
  operator,  \* what the operator is in the middle of
  started,   \* history: how often each piece of start-up work was begun
  deaths,    \* history, bounded: deaths of the web server
  switches,  \* history, bounded: uses of the switch
  rebooted   \* who reset the board, if anybody

mainVars == <<main, monitor, late>>
webVars == <<web, started, deaths>>
dogVars == <<fd, hw, dog, loaded>>
wdtVars == <<enable, timeout>>
operatorVars == <<operator, switches>>
vars == <<flag, wdtVars, watch, dogVars, mainVars, webVars, child, operatorVars, rebooted>>

Work == {"sync", "init", "remux"}
MainPc == {"shm", "sysinfo", "fpga", "watchdog", "monitor", "three", "four", "wait", "dead"}
WebPc == {"down", "wait", "five", "raise5", "sync", "six", "raise6", "init", "seven", "raise7", "remux", "up", "stuck"}

Init ==
  /\ flag = 1
  /\ enable = FALSE /\ timeout = 0 /\ watch = FALSE
  /\ fd = -1 /\ hw = 0 /\ dog = "test" /\ loaded = 0
  /\ main = "shm" /\ monitor = "none" /\ late = 0
  /\ web = "wait" /\ started = [w \in Work |-> 0] /\ deaths = 0
  /\ child = FALSE
  /\ operator = "idle" /\ switches = 0
  /\ rebooted = "no"

-----------------------------------------------------------------------------
(* dcp3000.bin *)

Main(from, to) == main = from /\ main' = to

\* open_global_shm clears both words of the watchdog.
OpenSharedMemory ==
  /\ Main("shm", "sysinfo")
  /\ enable' = FALSE /\ timeout' = 0
  /\ UNCHANGED <<flag, watch, dogVars, monitor, late, webVars, child, operatorVars, rebooted>>

\* init_sysinfo: the stored setting of the watchdog is whatever it was.
InitSysinfo ==
  /\ Main("sysinfo", "fpga")
  /\ flag' = 1
  /\ watch' \in BOOLEAN
  /\ UNCHANGED <<wdtVars, dogVars, monitor, late, webVars, child, operatorVars, rebooted>>

FpgaReady ==
  /\ Main("fpga", "watchdog")
  /\ flag' = 2
  /\ UNCHANGED <<wdtVars, watch, dogVars, monitor, late, webVars, child, operatorVars, rebooted>>

\* Mutant of ArmWatchdog: armed whatever the setting says.
ArmAlways ==
  /\ Main("watchdog", "monitor")
  /\ enable' = TRUE
  /\ UNCHANGED <<flag, timeout, watch, dogVars, monitor, late, webVars, child, operatorVars, rebooted>>

ArmWatchdog ==
  /\ Main("watchdog", "monitor")
  /\ enable' = (enable \/ watch)
  /\ UNCHANGED <<flag, timeout, watch, dogVars, monitor, late, webVars, child, operatorVars, rebooted>>

StartMonitor ==
  /\ Main("monitor", "three")
  /\ monitor' = "alive" /\ late' = 0
  /\ UNCHANGED <<flag, wdtVars, watch, dogVars, webVars, child, operatorVars, rebooted>>

ServersStarted ==
  /\ Main("three", "four")
  /\ flag' = 3
  /\ UNCHANGED <<wdtVars, watch, dogVars, monitor, late, webVars, child, operatorVars, rebooted>>

LetWebStart ==
  /\ Main("four", "wait")
  /\ flag' = 4
  /\ UNCHANGED <<wdtVars, watch, dogVars, monitor, late, webVars, child, operatorVars, rebooted>>

\* One turn of moniter_task: the slots (module SpiTransfer) and the feeding.
MonitorTurn ==
  /\ monitor = "alive"
  /\ timeout' = IF watch THEN 0 ELSE timeout
  /\ late' = IF dog = "sleep" THEN 0 ELSE late
  /\ UNCHANGED <<flag, enable, watch, dogVars, main, monitor, webVars, child, operatorVars, rebooted>>

MonitorHangs ==
  /\ monitor = "alive"
  /\ monitor' = "hung"
  /\ UNCHANGED <<flag, wdtVars, watch, dogVars, main, late, webVars, child, operatorVars, rebooted>>

\* The process crashes, or returns early on one of the checks of main.
MainDies ==
  /\ main # "dead"
  /\ main' = "dead" /\ monitor' = "none"
  /\ UNCHANGED <<flag, wdtVars, watch, dogVars, late, webVars, child, operatorVars, rebooted>>

-----------------------------------------------------------------------------
(* The operator switches the watchdog, from the front panel or the web;    *)
(* the panel offers its menus from level 5 on.                             *)

SwitchOn ==
  /\ operator = "idle" /\ switches < MaxSwitches /\ flag > 4 /\ main # "dead"
  /\ enable' = TRUE
  /\ operator' = "on" /\ switches' = switches + 1
  /\ UNCHANGED <<flag, timeout, watch, dogVars, mainVars, webVars, child, rebooted>>

SwitchOff ==
  /\ operator = "idle" /\ switches < MaxSwitches /\ flag > 4 /\ main # "dead"
  /\ enable' = FALSE
  /\ operator' = "off" /\ switches' = switches + 1
  /\ UNCHANGED <<flag, timeout, watch, dogVars, mainVars, webVars, child, rebooted>>

\* The second half of watchdog_open and watchdog_close.
RememberSwitch ==
  /\ operator # "idle"
  /\ watch' = (operator = "on")
  /\ operator' = "idle"
  /\ UNCHANGED <<flag, wdtVars, dogVars, mainVars, webVars, child, switches, rebooted>>

-----------------------------------------------------------------------------
(* httpd.bin *)

Web(from, to) == web = from /\ web' = to

\* Mutant of WebMayStart: the web server starts at level 2.
WebStartsEarly ==
  /\ Web("wait", "five")
  /\ flag >= 2
  /\ UNCHANGED <<flag, wdtVars, watch, dogVars, mainVars, started, deaths, child, operatorVars, rebooted>>

\* main of webmain.c polls run_flag every 100 ms.
WebMayStart ==
  /\ Web("wait", "five")
  /\ flag >= 4
  /\ UNCHANGED <<flag, wdtVars, watch, dogVars, mainVars, started, deaths, child, operatorVars, rebooted>>

\* Mutant of TestLevel: the level is not looked at.
TestNothing(level, from, raise, next) ==
  /\ Web(from, raise)
  /\ UNCHANGED <<flag, wdtVars, watch, dogVars, mainVars, started, deaths, child, operatorVars, rebooted>>

\* The level is not to be raised if an earlier incarnation of the web server
\* has been there.
TestLevel(level, from, raise, next) ==
  /\ Web(from, IF flag < level THEN raise ELSE next)
  /\ UNCHANGED <<flag, wdtVars, watch, dogVars, mainVars, started, deaths, child, operatorVars, rebooted>>

\* Raise run_flag to level, whatever it is by now, and begin the work of it.
Climb(level, raise, work) ==
  /\ Web(raise, work)
  /\ flag' = level /\ started' = [started EXCEPT ![work] = @ + 1]
  /\ UNCHANGED <<wdtVars, watch, dogVars, mainVars, deaths, child, operatorVars, rebooted>>

SyncRoutes == TestLevel(5, "five", "raise5", "six") \/ Climb(5, "raise5", "sync")
InitMuxFpga == TestLevel(6, "six", "raise6", "seven") \/ Climb(6, "raise6", "init")
FirstRemux == TestLevel(7, "seven", "raise7", "up") \/ Climb(7, "raise7", "remux")

FinishWork ==
  /\ web \in Work
  /\ web' = CASE web = "sync" -> "six" [] web = "init" -> "seven" [] web = "remux" -> "up"
  /\ UNCHANGED <<flag, wdtVars, watch, dogVars, mainVars, started, deaths, child, operatorVars, rebooted>>

\* thread_pool_destroy waits for a pool that never comes to rest (module
\* ThreadPool says how).
PoolHangs ==
  /\ web \in {"init", "remux"}
  /\ web' = "stuck"
  /\ UNCHANGED <<flag, wdtVars, watch, dogVars, mainVars, started, deaths, child, operatorVars, rebooted>>

WebDies ==
  /\ web # "down" /\ deaths < MaxDeaths
  /\ web' = "down" /\ child' = TRUE /\ deaths' = deaths + 1
  /\ UNCHANGED <<flag, wdtVars, watch, dogVars, mainVars, started, operatorVars, rebooted>>

-----------------------------------------------------------------------------
(* watchd.bin *)

\* Mutant of SIGCHLD_Handler: the limit is one level too high.
HandlerTooLate ==
  /\ child
  /\ child' = FALSE
  /\ web' = IF flag > 5 THEN "wait" ELSE web
  /\ dog' = IF dog = "sleep" THEN "test" ELSE dog
  /\ UNCHANGED <<flag, wdtVars, watch, fd, hw, loaded, mainVars, started, deaths, operatorVars, rebooted>>

\* The signal also ends the sleep of the main loop.
SIGCHLD_Handler ==
  /\ child
  /\ child' = FALSE
  /\ web' = IF flag > 4 THEN "wait" ELSE web
  /\ dog' = IF dog = "sleep" THEN "test" ELSE dog
  /\ UNCHANGED <<flag, wdtVars, watch, fd, hw, loaded, mainVars, started, deaths, operatorVars, rebooted>>

\* Mutant of OpenDevice: the device gets the timeout of the software.
OpenWithSwTimeout ==
  /\ dog = "test" /\ enable /\ fd < 0
  /\ \/ fd' = 1 /\ hw' = SwTimeout /\ dog' = "sleep" /\ UNCHANGED enable
     \/ fd' = 0 /\ enable' = FALSE /\ UNCHANGED <<hw, dog>>
  /\ UNCHANGED <<flag, timeout, watch, loaded, mainVars, webVars, child, operatorVars, rebooted>>

\* The device: closing it disarms it, opening and feeding start it anew.
OpenDevice ==
  /\ dog = "test" /\ enable /\ fd < 0
  /\ \/ /\ fd' = 1 /\ hw' = HwTimeout
        /\ dog' = "sleep" /\ UNCHANGED enable
     \/ /\ fd' = 0 /\ enable' = FALSE       \* the open failed: no sleep
        /\ UNCHANGED <<hw, dog>>
  /\ UNCHANGED <<flag, timeout, watch, loaded, mainVars, webVars, child, operatorVars, rebooted>>

CloseDevice ==
  /\ dog = "test" /\ ~enable
  /\ fd' = -1 /\ hw' = 0
  /\ dog' = "sleep"
  /\ UNCHANGED <<flag, wdtVars, watch, loaded, mainVars, webVars, child, operatorVars, rebooted>>

Feed ==
  /\ dog = "test" /\ enable /\ fd >= 0
  /\ timeout = 0
  /\ hw' = IF fd = 1 THEN HwTimeout ELSE hw
  /\ dog' = "count"
  /\ UNCHANGED <<flag, wdtVars, watch, fd, loaded, mainVars, webVars, child, operatorVars, rebooted>>

\* Mutant of NotFed: the count has no limit.
NotFedNoLimit ==
  /\ dog = "test" /\ enable /\ fd >= 0
  /\ timeout # 0
  /\ loaded' = timeout
  /\ dog' \in {"count", "store"}
  /\ UNCHANGED <<flag, wdtVars, watch, fd, hw, mainVars, webVars, child, operatorVars, rebooted>>

\* The build may or may not read wdt->timeout again for the increment.
NotFed ==
  /\ dog = "test" /\ enable /\ fd >= 0
  /\ timeout # 0 /\ timeout <= SwTimeout
  /\ loaded' = timeout
  /\ dog' \in {"count", "store"}
  /\ UNCHANGED <<flag, wdtVars, watch, fd, hw, mainVars, webVars, child, operatorVars, rebooted>>

Reboot ==
  /\ dog = "test" /\ enable /\ fd >= 0
  /\ timeout > SwTimeout
  /\ flag' = 0 /\ rebooted' = "software"
  /\ dog' = "ended"
  /\ UNCHANGED <<wdtVars, watch, fd, hw, loaded, mainVars, webVars, child, operatorVars>>

\* wdt->timeout++ is a load and a store; the monitor may write in between.
CountLoad ==
  /\ dog = "count"
  /\ loaded' = timeout
  /\ dog' = "store"
  /\ UNCHANGED <<flag, wdtVars, watch, fd, hw, mainVars, webVars, child, operatorVars, rebooted>>

\* Mutant of CountStore: the increment is lost.
CountNothing ==
  /\ dog = "store"
  /\ timeout' = loaded
  /\ dog' = "sleep"
  /\ UNCHANGED <<flag, enable, watch, fd, hw, loaded, mainVars, webVars, child, operatorVars, rebooted>>

CountStore ==
  /\ dog = "store"
  /\ timeout' = loaded + 1
  /\ dog' = "sleep"
  /\ UNCHANGED <<flag, enable, watch, fd, hw, loaded, mainVars, webVars, child, operatorVars, rebooted>>

\* A second passes, for watchd's sleep(1), the device and the monitor.
Second ==
  /\ dog = "sleep" /\ operator = "idle" /\ ~child /\ main # "monitor"
  /\ monitor = "alive" => late < MaxTurn
  /\ dog' = "test"
  /\ hw' = IF hw > 0 THEN hw - 1 ELSE 0
  /\ rebooted' = IF hw = 1 THEN "hardware" ELSE rebooted
  /\ late' = IF monitor = "alive" THEN late + 1 ELSE 0
  /\ UNCHANGED <<flag, wdtVars, watch, fd, loaded, main, monitor, webVars, child, operatorVars>>

-----------------------------------------------------------------------------
MainStep == \/ OpenSharedMemory \/ InitSysinfo \/ FpgaReady \/ ArmWatchdog
            \/ StartMonitor \/ ServersStarted \/ LetWebStart
WebStep == WebMayStart \/ SyncRoutes \/ InitMuxFpga \/ FirstRemux \/ FinishWork
DogStep == OpenDevice \/ CloseDevice \/ Feed \/ NotFed \/ Reboot \/ CountLoad \/ CountStore
Accident == MonitorHangs \/ MainDies \/ WebDies \/ PoolHangs
Operate == SwitchOn \/ SwitchOff

\* Nothing is modelled after a reset of the board.
BeforeReset(A) == rebooted = "no" /\ A

Next == BeforeReset(
  \/ MainStep \/ MonitorTurn \/ WebStep \/ DogStep \/ SIGCHLD_Handler
  \/ RememberSwitch \/ Second \/ Operate \/ Accident)

Spec == Init /\ [][Next]_vars

\* Every thread is scheduled, an operator finishes what he confirmed, and
\* time goes on; nothing is promised of operators and accidents.
FairSpec ==
  /\ Spec
  /\ WF_vars(BeforeReset(MainStep)) /\ WF_vars(BeforeReset(WebStep))
  /\ WF_vars(BeforeReset(DogStep))
  /\ WF_vars(BeforeReset(MonitorTurn)) /\ WF_vars(BeforeReset(SIGCHLD_Handler))
  /\ WF_vars(BeforeReset(RememberSwitch)) /\ WF_vars(BeforeReset(Second))

-----------------------------------------------------------------------------
(* Properties *)

\* All words keep their ranges; the count never runs far past the limit at
\* which watchd reboots.
TypeOK ==
  /\ flag \in 0..7 /\ enable \in BOOLEAN /\ watch \in BOOLEAN
  /\ timeout \in 0..(SwTimeout + 1) /\ loaded \in 0..(SwTimeout + 1)
  /\ fd \in {-1, 0, 1} /\ hw \in 0..HwTimeout
  /\ dog \in {"test", "count", "store", "sleep", "ended"}
  /\ main \in MainPc /\ monitor \in {"none", "alive", "hung"}
  /\ late \in 0..MaxTurn
  /\ web \in WebPc /\ child \in BOOLEAN
  /\ started \in [Work -> Nat]
  /\ operator \in {"idle", "on", "off"}
  /\ deaths \in 0..MaxDeaths /\ switches \in 0..MaxSwitches
  /\ rebooted \in {"no", "software", "hardware"}

\* A system whose monitor turns is never reset, whatever the operator
\* switches, however watchd's counting and the monitor's zeroing interleave,
\* and although each death of the web server cuts a second of watchd short.
HealthyIsNotReset ==
  rebooted # "no" => monitor = "hung" \/ main = "dead"

\* When the monitor stops, it is watchd that reboots, in an orderly way,
\* before the device cuts the board off (watchdog.c, lines 57 to 66).
SoftwareFirst == rebooted # "hardware"

\* A web server that is started again does not repeat what an earlier one
\* began: routes, PID filters and the first multiplex are set up once
\* (webmain.c 560 to 574, mux.c 2676).
WorkOnce == \A w \in Work : started[w] <= 1

\* Two processes write run_flag; the level they announce never goes back
\* while the system runs.
LevelGrows == [][flag' >= flag \/ rebooted' # "no"]_vars

\* With the watchdog switched on for good, a monitor that stopped, for any
\* reason and at any moment of the start-up, leads to a reboot.
HungIsReset ==
  <>[](enable /\ (monitor = "hung" \/ main = "dead")) => <>(rebooted # "no")

\* The web server died before the level at which watchd starts it again.
Lost == web = "down" /\ ~child /\ flag <= 4

\* The start-up reaches level 7 with the web server up for good, through
\* deaths of the web server, unless it died too early to be started again,
\* or waits for good for one of its pools, which nobody watches over, or the
\* main process is gone.
Settles ==
  \/ <>[](web = "up" /\ flag = 7) \/ <>[](web = "stuck")
  \/ <>(Lost \/ main = "dead" \/ rebooted # "no")
=============================================================================
