------------------------- MODULE Supervision_proofs -------------------------
(* Proofs about Supervision for every timeout and every bound. *)
EXTENDS Supervision, TLAPS

\* The level of run_flag at which each piece of work of httpd.bin begins.
LevelOf == [w \in Work |-> CASE w = "sync" -> 5 [] w = "init" -> 6 [] w = "remux" -> 7]

TypeInv ==
  /\ flag \in 0..7
  /\ main \in MainPc /\ web \in WebPc
  /\ started \in [Work -> Nat]
  /\ rebooted \in {"no", "software", "hardware"}

\* Who may have written run_flag last: main below 4, the web server above.
\* watchd leaves 0 behind, but only with the reboot.
Levels ==
  rebooted = "no" =>
    /\ main \in {"shm", "sysinfo", "fpga"} => flag = 1
    /\ main \in {"watchdog", "monitor", "three"} => flag = 2
    /\ main = "four" => flag = 3
    /\ flag < 4 => web \in {"wait", "down"}
    /\ web = "raise5" => flag < 5
    /\ web = "raise6" => flag < 6
    /\ web = "raise7" => flag < 7

\* The level stands for the work that was begun.
LevelTells ==
  \A w \in Work :
    /\ started[w] <= 1
    /\ rebooted = "no" /\ flag < LevelOf[w] => started[w] = 0

IInv == TypeInv /\ Levels /\ LevelTells

LEMMA IInvInit == Init => IInv
BY DEF Init, IInv, TypeInv, Levels, LevelTells, Work, MainPc, WebPc, LevelOf

\* The variables of IInv are left alone.
Frame == UNCHANGED <<flag, main, web, started, rebooted>>

LEMMA IInvFrame == IInv /\ Frame => IInv' /\ flag' >= flag
BY DEF IInv, TypeInv, Levels, LevelTells, Frame

LEMMA IInvMain ==
  ASSUME IInv, rebooted = "no", MainStep
  PROVE  IInv' /\ flag' >= flag
<1> USE DEF IInv, TypeInv, Levels, LevelTells, LevelOf, Work, MainPc, Main
<1>1. CASE OpenSharedMemory
  BY <1>1 DEF OpenSharedMemory, webVars
<1>2. CASE InitSysinfo
  BY <1>2 DEF InitSysinfo, webVars
<1>3. CASE FpgaReady
  BY <1>3 DEF FpgaReady, webVars
<1>4. CASE ArmWatchdog
  BY <1>4 DEF ArmWatchdog, webVars
<1>5. CASE StartMonitor
  BY <1>5 DEF StartMonitor, webVars
<1>6. CASE ServersStarted
  BY <1>6 DEF ServersStarted, webVars
<1>7. CASE LetWebStart
  BY <1>7 DEF LetWebStart, webVars
<1> QED
  BY <1>1, <1>2, <1>3, <1>4, <1>5, <1>6, <1>7 DEF MainStep

\* Climbing to a level of which the work has not begun.
LEMMA IInvClimb ==
  ASSUME IInv, rebooted = "no",
         NEW level, NEW raise \in {"raise5", "raise6", "raise7"}, NEW work \in Work,
         level = LevelOf[work], web = raise => flag < level, Climb(level, raise, work)
  PROVE  IInv' /\ flag' >= flag
<1>1. level \in 5..7 /\ work \in WebPc
  BY DEF LevelOf, Work, WebPc
<1>2. UNCHANGED <<main, rebooted>>
  BY DEF Climb, mainVars
<1>3. /\ web = raise /\ web' = work /\ flag < level
      /\ flag' = level /\ started' = [started EXCEPT ![work] = @ + 1]
  BY DEF Climb, Web
<1>4. started[work] = 0
  BY <1>3 DEF IInv, LevelTells
<1>5. TypeInv'
  BY <1>1, <1>2, <1>3, <1>4 DEF IInv, TypeInv
<1>6. flag >= 4
  BY <1>3 DEF IInv, TypeInv, Levels
<1>7. Levels'
  BY <1>1, <1>2, <1>3, <1>6 DEF IInv, TypeInv, Levels, Work
<1>8. LevelTells'
  BY <1>1, <1>2, <1>3, <1>4 DEF IInv, TypeInv, LevelTells, LevelOf, Work
<1> QED
  BY <1>1, <1>3, <1>5, <1>7, <1>8 DEF IInv, TypeInv

\* The test before it.
LEMMA IInvTest ==
  ASSUME IInv, rebooted = "no",
         NEW level \in 5..7, NEW from \in {"five", "six", "seven"}, NEW raise \in WebPc,
         NEW next \in {"six", "seven", "up"},
         <<level, raise>> \in {<<5, "raise5">>, <<6, "raise6">>, <<7, "raise7">>},
         TestLevel(level, from, raise, next)
  PROVE  IInv' /\ flag' >= flag
<1>1. /\ UNCHANGED <<flag, main, started, rebooted>>
      /\ web = from /\ web' = IF flag < level THEN raise ELSE next
  BY DEF TestLevel, Web, mainVars
<1>2. flag \in 4..7
  BY <1>1 DEF IInv, TypeInv, Levels
<1>3. TypeInv'
  BY <1>1 DEF IInv, TypeInv, WebPc
<1>4. Levels'
  BY <1>1, <1>2 DEF IInv, TypeInv, Levels
<1>5. LevelTells'
  BY <1>1 DEF IInv, LevelTells
<1> QED
  BY <1>1, <1>2, <1>3, <1>4, <1>5 DEF IInv

LEMMA IInvWeb ==
  ASSUME IInv, rebooted = "no", WebStep \/ WebDies \/ PoolHangs
  PROVE  IInv' /\ flag' >= flag
<1>1. CASE WebMayStart
  BY <1>1 DEF WebMayStart, Web, mainVars, IInv, TypeInv, Levels, LevelTells, WebPc
<1>2. CASE SyncRoutes
  <2>1. LevelOf["sync"] = 5
    BY DEF LevelOf, Work
  <2>2. web = "raise5" => flag < 5
    BY DEF IInv, Levels
  <2> QED
    BY <1>2, <2>1, <2>2, IInvClimb, IInvTest DEF SyncRoutes, Work, WebPc
<1>3. CASE InitMuxFpga
  <2>1. LevelOf["init"] = 6
    BY DEF LevelOf, Work
  <2>2. web = "raise6" => flag < 6
    BY DEF IInv, Levels
  <2> QED
    BY <1>3, <2>1, <2>2, IInvClimb, IInvTest DEF InitMuxFpga, Work, WebPc
<1>4. CASE FirstRemux
  <2>1. LevelOf["remux"] = 7
    BY DEF LevelOf, Work
  <2>2. web = "raise7" => flag < 7
    BY DEF IInv, Levels
  <2> QED
    BY <1>4, <2>1, <2>2, IInvClimb, IInvTest DEF FirstRemux, Work, WebPc
<1>5. CASE FinishWork
  BY <1>5 DEF FinishWork, Work, mainVars, IInv, TypeInv, Levels, LevelTells, WebPc
<1>6. CASE WebDies
  BY <1>6 DEF WebDies, mainVars, IInv, TypeInv, Levels, LevelTells, WebPc
<1>7. CASE PoolHangs
  BY <1>7 DEF PoolHangs, mainVars, IInv, TypeInv, Levels, LevelTells, WebPc
<1> QED
  BY <1>1, <1>2, <1>3, <1>4, <1>5, <1>6, <1>7 DEF WebStep

\* What watchd, the monitor, the operator and the passing of time do.
LEMMA IInvDog ==
  ASSUME IInv, rebooted = "no",
         DogStep \/ SIGCHLD_Handler \/ Second \/ MonitorTurn \/ RememberSwitch \/ Operate
         \/ MonitorHangs \/ MainDies
  PROVE  IInv' /\ (flag' >= flag \/ rebooted' # "no")
<1>1. CASE OpenDevice \/ CloseDevice \/ Feed \/ NotFed \/ CountLoad \/ CountStore
  BY <1>1, IInvFrame
     DEF OpenDevice, CloseDevice, Feed, NotFed, CountLoad, CountStore, mainVars, webVars, Frame
<1>2. CASE Reboot
  BY <1>2 DEF Reboot, mainVars, webVars, IInv, TypeInv, Levels, LevelTells
<1>3. CASE SIGCHLD_Handler
  BY <1>3 DEF SIGCHLD_Handler, mainVars, IInv, TypeInv, Levels, LevelTells, WebPc
<1>4. CASE Second
  BY <1>4 DEF Second, webVars, IInv, TypeInv, Levels, LevelTells
<1>5. CASE MonitorTurn \/ RememberSwitch \/ Operate \/ MonitorHangs
  BY <1>5, IInvFrame
     DEF MonitorTurn, RememberSwitch, Operate, SwitchOn, SwitchOff, MonitorHangs,
         mainVars, webVars, Frame
<1>6. CASE MainDies
  BY <1>6 DEF MainDies, webVars, IInv, TypeInv, Levels, LevelTells, MainPc
<1> QED
  BY <1>1, <1>2, <1>3, <1>4, <1>5, <1>6 DEF DogStep

LEMMA IInvNext ==
  ASSUME IInv, [Next]_vars
  PROVE  IInv' /\ (flag' >= flag \/ rebooted' # "no")
<1>1. CASE UNCHANGED vars
  BY <1>1, IInvFrame DEF vars, mainVars, webVars, Frame
<1>2. CASE Next
  BY <1>2, IInvMain, IInvWeb, IInvDog DEF Next, BeforeReset, Accident
<1> QED
  BY <1>1, <1>2

\* Each piece of start-up work is begun at most once, however often the web
\* server dies and is started again (webmain.c 560 to 574, mux.c 2676).
THEOREM WorkIsDoneOnce == Spec => []WorkOnce
<1>1. IInv /\ [Next]_vars => IInv'
  BY IInvNext
<1>2. IInv => WorkOnce
  BY DEF IInv, LevelTells, WorkOnce
<1> QED
  BY <1>1, <1>2, IInvInit, PTL DEF Spec

\* run_flag never goes back while the board runs, although two processes
\* write it without a lock.
THEOREM LevelNeverFalls == Spec => LevelGrows
<1>1. IInv /\ [Next]_vars => IInv'
  BY IInvNext
<1>2. IInv /\ [Next]_vars => [flag' >= flag \/ rebooted' # "no"]_vars
  BY IInvNext
<1> QED
  BY <1>1, <1>2, IInvInit, PTL DEF Spec, LevelGrows

-----------------------------------------------------------------------------
(* Types *)

\* What watchd is about to store is at most one more than its limit, because
\* it reboots instead of counting beyond it.
CountBelow ==
  /\ dog = "count" => timeout <= SwTimeout
  /\ dog = "store" => loaded <= SwTimeout

TInv == TypeOK /\ CountBelow

LEMMA Bounds ==
  /\ SwTimeout \in Nat \ {0} /\ HwTimeout \in Nat \ {0} /\ MaxTurn \in Nat \ {0}
  /\ MaxDeaths \in Nat /\ MaxSwitches \in Nat
BY SupervisionAssumption

LEMMA TInvInit == Init => TInv
<1> SUFFICES ASSUME Init PROVE TInv
  OBVIOUS
<1>1. started \in [Work -> Nat]
  BY DEF Init
<1>2. enable \in BOOLEAN /\ watch \in BOOLEAN /\ child \in BOOLEAN
  BY Zenon DEF Init
<1>3. /\ flag = 1 /\ timeout = 0 /\ fd = -1 /\ hw = 0 /\ dog = "test" /\ loaded = 0
      /\ main = "shm" /\ monitor = "none" /\ late = 0 /\ web = "wait" /\ deaths = 0
      /\ operator = "idle" /\ switches = 0 /\ rebooted = "no"
  BY Zenon DEF Init
<1> QED
  BY <1>1, <1>2, <1>3, Bounds DEF TInv, TypeOK, CountBelow, MainPc, WebPc

LEMMA TInvMain ==
  ASSUME TInv, MainStep
  PROVE  TInv'
<1> USE Bounds DEF TInv, TypeOK, CountBelow, MainPc, Main, dogVars, webVars,
                                  wdtVars, operatorVars
<1>1. CASE OpenSharedMemory
  <2>1. enable' \in BOOLEAN
    BY <1>1, Zenon DEF OpenSharedMemory
  <2>2. /\ timeout' = 0 /\ main' = "sysinfo"
        /\ UNCHANGED <<flag, watch, dogVars, monitor, late, webVars, child, operatorVars, rebooted>>
    BY <1>1, Zenon DEF OpenSharedMemory, Main
  <2> QED
    BY <2>1, <2>2
<1>2. CASE InitSysinfo
  BY <1>2 DEF InitSysinfo
<1>3. CASE FpgaReady
  BY <1>3 DEF FpgaReady
<1>4. CASE ArmWatchdog
  BY <1>4 DEF ArmWatchdog
<1>5. CASE StartMonitor
  BY <1>5 DEF StartMonitor
<1>6. CASE ServersStarted
  BY <1>6 DEF ServersStarted
<1>7. CASE LetWebStart
  BY <1>7 DEF LetWebStart
<1> QED
  BY <1>1, <1>2, <1>3, <1>4, <1>5, <1>6, <1>7 DEF MainStep

LEMMA TInvWeb ==
  ASSUME TInv, WebStep \/ PoolHangs \/ WebDies
  PROVE  TInv'
<1>1. UNCHANGED <<wdtVars, watch, dogVars, mainVars, operatorVars, rebooted>>
  BY DEF WebStep, WebMayStart, SyncRoutes, InitMuxFpga, FirstRemux, TestLevel, Climb, FinishWork, PoolHangs, WebDies
<1>2. flag' \in 0..7
  BY DEF TInv, TypeOK, WebStep, WebMayStart, SyncRoutes, InitMuxFpga, FirstRemux, TestLevel, Climb,
         FinishWork, PoolHangs, WebDies
<1>6. child' \in BOOLEAN
  <2>1. child' = child \/ child' = TRUE
    BY Zenon DEF WebStep, WebMayStart, SyncRoutes, InitMuxFpga, FirstRemux, TestLevel, Climb, FinishWork, PoolHangs, WebDies
  <2> QED
    BY <2>1, Zenon DEF TInv, TypeOK
<1>3. web' \in WebPc
  BY DEF TInv, TypeOK, WebPc, Work, Web, WebStep, WebMayStart, SyncRoutes, InitMuxFpga,
         FirstRemux, TestLevel, Climb, FinishWork, PoolHangs, WebDies
<1>4. started' \in [Work -> Nat]
  BY DEF TInv, TypeOK, WebStep, WebMayStart, SyncRoutes, InitMuxFpga, FirstRemux, TestLevel, Climb,
         FinishWork, PoolHangs, WebDies
<1>5. deaths' \in 0..MaxDeaths
  <2>1. CASE WebDies
    BY <2>1, Bounds DEF WebDies, TInv, TypeOK
  <2>2. CASE WebStep \/ PoolHangs
    BY <2>2 DEF TInv, TypeOK, WebStep, WebMayStart, SyncRoutes, InitMuxFpga, FirstRemux, TestLevel, Climb,
                FinishWork, PoolHangs
  <2> QED
    BY <2>1, <2>2
<1> QED
  BY <1>1, <1>2, <1>3, <1>4, <1>5, <1>6
  DEF TInv, TypeOK, CountBelow, wdtVars, dogVars, mainVars, operatorVars

LEMMA TInvDog ==
  ASSUME TInv, DogStep
  PROVE  TInv'
<1> USE Bounds DEF TInv, TypeOK, CountBelow, mainVars, webVars, wdtVars, operatorVars
<1>1. CASE OpenDevice
  <2>1. enable' \in BOOLEAN
    BY <1>1, Zenon DEF OpenDevice
  <2>2. /\ fd' \in {0, 1} /\ hw' \in {hw, HwTimeout} /\ dog' \in {"test", "sleep"}
        /\ UNCHANGED <<flag, timeout, watch, loaded, mainVars, webVars, child, operatorVars, rebooted>>
    BY <1>1, Zenon DEF OpenDevice
  <2> QED
    BY <2>1, <2>2
<1>2. CASE CloseDevice
  BY <1>2 DEF CloseDevice
<1>3. CASE Feed
  BY <1>3 DEF Feed
<1>4. CASE NotFed
  BY <1>4 DEF NotFed
<1>5. CASE Reboot
  BY <1>5 DEF Reboot
<1>6. CASE CountLoad
  BY <1>6 DEF CountLoad
<1>7. CASE CountStore
  BY <1>7 DEF CountStore
<1> QED
  BY <1>1, <1>2, <1>3, <1>4, <1>5, <1>6, <1>7 DEF DogStep

LEMMA TInvOther ==
  ASSUME TInv,
         \/ SIGCHLD_Handler \/ Second \/ MonitorTurn \/ RememberSwitch \/ Operate
         \/ MonitorHangs \/ MainDies
  PROVE  TInv'
<1> USE Bounds DEF TInv, TypeOK, CountBelow, mainVars, webVars, dogVars, wdtVars,
                                  operatorVars
<1>1. CASE SIGCHLD_Handler
  BY <1>1 DEF SIGCHLD_Handler, WebPc
<1>2. CASE Second
  BY <1>2 DEF Second
<1>3. CASE MonitorTurn
  BY <1>3 DEF MonitorTurn
<1>4. CASE RememberSwitch
  BY <1>4 DEF RememberSwitch
<1>5. CASE Operate
  <2>1. enable' \in BOOLEAN
    BY <1>5, Zenon DEF Operate, SwitchOn, SwitchOff
  <2>2. /\ switches < MaxSwitches /\ switches' = switches + 1 /\ operator' \in {"on", "off"}
        /\ UNCHANGED <<flag, timeout, watch, dogVars, mainVars, webVars, child, rebooted>>
    BY <1>5, Zenon DEF Operate, SwitchOn, SwitchOff
  <2> QED
    BY <2>1, <2>2
<1>6. CASE MonitorHangs
  BY <1>6 DEF MonitorHangs
<1>7. CASE MainDies
  BY <1>7 DEF MainDies, MainPc
<1> QED
  BY <1>1, <1>2, <1>3, <1>4, <1>5, <1>6, <1>7

LEMMA TInvNext == TInv /\ [Next]_vars => TInv'
<1> SUFFICES ASSUME TInv, [Next]_vars PROVE TInv'
  OBVIOUS
<1>1. CASE UNCHANGED vars
  BY <1>1 DEF vars, mainVars, webVars, dogVars, wdtVars, operatorVars, TInv, TypeOK, CountBelow
<1>2. CASE Next
  BY <1>2, TInvMain, TInvWeb, TInvDog, TInvOther DEF Next, BeforeReset, Accident
<1> QED
  BY <1>1, <1>2

\* All words keep their ranges; in particular the count never passes the limit
\* of watchd by more than one, although the monitor writes it without a lock.
THEOREM TypeCorrect == Spec => []TypeOK
<1>1. TInv => TypeOK
  BY DEF TInv
<1> QED
  BY <1>1, TInvInit, TInvNext, PTL DEF Spec

-----------------------------------------------------------------------------
(* Who resets the board *)

\* The sleeps in which a healthy monitor does not turn, those that the deaths
\* of the web server cut short and those that switching hides fit into the
\* limit of watchd; the device leaves watchd the time to reach its own.
TimeoutsFit ==
  /\ SwTimeout + 1 >= MaxTurn + MaxDeaths + MaxTurn * MaxSwitches
  /\ HwTimeout >= SwTimeout + MaxTurn + MaxTurn * MaxSwitches + 3

Healthy == monitor # "hung" /\ main # "dead"

\* The monitor does not clear the count, or is about not to.
Off == operator = "off" \/ ~watch

\* Sleeps cut short by the death of the web server.
Cut == deaths - (IF child THEN 1 ELSE 0)

\* While the watchdog is switched the monitor turns and leaves the count: a
\* use of the switch is worth the longest time between two turns.
Slack == MaxTurn * switches

\* How far watchd can have counted, and how long it can have fed nothing.
Since == IF Off THEN 0 ELSE late
CountLimit == Cut + Slack + Since
AgeLimit == Slack + Since

\* Seconds since the device was opened or fed.
Age == IF hw > 0 THEN HwTimeout - hw ELSE 0

Setting ==
  /\ main \in {"shm", "sysinfo", "fpga", "watchdog"} =>
       ~enable /\ fd = -1 /\ timeout = 0 /\ dog \in {"test", "sleep"}
  /\ main \in {"shm", "sysinfo", "fpga", "watchdog", "monitor"} =>
       monitor = "none" /\ late = 0 /\ operator = "idle"
  /\ main \in {"three", "four", "wait"} => monitor # "none"
  /\ main = "dead" => monitor = "none"
  /\ enable => watch \/ operator = "on"
  /\ operator = "off" => ~enable
  /\ fd # 1 => hw = 0
  /\ child => deaths >= 1

CountInv ==
  Healthy =>
    /\ dog \in {"sleep", "test"} => timeout <= CountLimit
    /\ dog = "test" /\ enable /\ fd >= 0 => timeout + 1 <= CountLimit
    /\ dog = "count" => timeout + 1 <= CountLimit
    /\ dog = "store" => loaded + 1 <= CountLimit

\* The second and third case are those in which the test of watchd feeds or
\* closes the device next.
AgeInv ==
  Healthy =>
    /\ dog \in {"count", "store"} => Age <= AgeLimit
    /\ dog = "sleep" => Age <= AgeLimit \/ (timeout = 0 /\ ~Off /\ Age <= MaxTurn + Slack)
    /\ dog = "test" => \/ Age <= AgeLimit
                       \/ timeout = 0 /\ ~Off /\ Age <= MaxTurn + Slack + 1
                       \/ ~enable /\ Off /\ operator # "on" /\ Age <= Slack + 1

\* Without the monitor every second not fed is counted.
DeadInv ==
  ~Healthy =>
    /\ dog = "sleep" => Age <= timeout + MaxTurn + Slack
    /\ dog \in {"test", "count"} => Age <= timeout + MaxTurn + Slack + 1
    /\ dog = "store" => Age <= loaded + MaxTurn + Slack + 1

ResetInv ==
  /\ HealthyIsNotReset /\ SoftwareFirst
  /\ rebooted = "no" => Setting /\ CountInv /\ AgeInv /\ DeadInv

Inv == Setting /\ CountInv /\ AgeInv /\ DeadInv

LEMMA SlackNat == TInv => Slack \in Nat /\ Slack <= MaxTurn * MaxSwitches
<1> SUFFICES ASSUME TInv PROVE Slack \in Nat /\ Slack <= MaxTurn * MaxSwitches
  OBVIOUS
<1>1. switches \in Nat /\ switches <= MaxSwitches /\ MaxTurn \in Nat /\ MaxSwitches \in Nat
  BY Bounds DEF TInv, TypeOK
<1>2. PICK d \in Nat : MaxSwitches = switches + d
  <2>1. MaxSwitches - switches \in Nat /\ MaxSwitches = switches + (MaxSwitches - switches)
    BY <1>1
  <2> QED
    BY <2>1
<1>3. MaxTurn * MaxSwitches = MaxTurn * switches + MaxTurn * d
  BY <1>1, <1>2
<1>4. MaxTurn * switches \in Nat /\ MaxTurn * d \in Nat
  BY <1>1, <1>2
<1> QED
  BY <1>3, <1>4 DEF Slack

LEMMA SlackSame == switches' = switches => Slack' = Slack
BY DEF Slack

LEMMA SlackGrows == TInv /\ switches' = switches + 1 => Slack' = Slack + MaxTurn
BY Bounds DEF Slack, TInv, TypeOK

LEMMA InvInit == Init => ResetInv
BY Bounds DEF Init, ResetInv, HealthyIsNotReset, SoftwareFirst, Setting, CountInv, AgeInv, DeadInv,
              Healthy, Off, Cut, Slack, Since, CountLimit, AgeLimit, Age

LEMMA InvMain ==
  ASSUME TInv, IInv, Inv, rebooted = "no", MainStep
  PROVE  Inv'
<1> USE Bounds, SlackNat, SlackSame
        DEF TInv, TypeOK, Inv, Setting, CountInv, AgeInv, DeadInv, Healthy, Off, Cut, Since,
            CountLimit, AgeLimit, Age, MainPc, Main, dogVars, webVars, wdtVars, operatorVars
<1>1. CASE OpenSharedMemory
  BY <1>1 DEF OpenSharedMemory
<1>2. CASE InitSysinfo
  BY <1>2 DEF InitSysinfo
<1>3. CASE FpgaReady
  BY <1>3 DEF FpgaReady
<1>4. CASE ArmWatchdog
  BY <1>4 DEF ArmWatchdog
<1>5. CASE StartMonitor
  BY <1>5 DEF StartMonitor
<1>6. CASE ServersStarted
  BY <1>6 DEF ServersStarted
<1>7. CASE LetWebStart
  BY <1>7 DEF LetWebStart
<1> QED
  BY <1>1, <1>2, <1>3, <1>4, <1>5, <1>6, <1>7 DEF MainStep

LEMMA InvWeb ==
  ASSUME TInv, Inv, WebStep \/ PoolHangs \/ WebDies
  PROVE  Inv'
<1>1. UNCHANGED <<wdtVars, watch, dogVars, mainVars, operatorVars, rebooted>>
  BY DEF WebStep, WebMayStart, SyncRoutes, InitMuxFpga, FirstRemux, TestLevel, Climb, FinishWork, PoolHangs, WebDies
<1>2. Cut' >= Cut /\ (child' => deaths' >= 1)
  <2>1. CASE WebDies
    BY <2>1 DEF WebDies, TInv, TypeOK, Cut
  <2>2. CASE WebStep \/ PoolHangs
    BY <2>2 DEF TInv, TypeOK, WebStep, WebMayStart, SyncRoutes, InitMuxFpga, FirstRemux, TestLevel, Climb,
                FinishWork, PoolHangs, Cut, Inv, Setting
  <2> QED
    BY <2>1, <2>2
<1>3. Cut \in Int /\ Cut' \in Int
  BY TInvWeb DEF TInv, TypeOK, Cut
<1> QED
  BY <1>1, <1>2, <1>3, SlackNat, SlackSame
  DEF TInv, TypeOK, Inv, Setting, CountInv, AgeInv, DeadInv, Healthy, Off, Since, CountLimit, AgeLimit,
      Age, wdtVars, dogVars, mainVars, operatorVars

LEMMA InvDog ==
  ASSUME TInv, Inv, rebooted = "no", DogStep
  PROVE  Inv'
<1> USE Bounds, SlackNat, SlackSame
        DEF TInv, TypeOK, Inv, Setting, CountInv, AgeInv, DeadInv, Healthy, Off, Cut, Since,
            CountLimit, AgeLimit, Age, mainVars, webVars, wdtVars, operatorVars
<1>1. CASE OpenDevice
  <2>1. CASE fd' = 1
    <3>1. /\ enable /\ hw' = HwTimeout /\ dog = "test" /\ dog' = "sleep" /\ enable' = enable
          /\ UNCHANGED <<flag, timeout, watch, loaded, mainVars, webVars, child, operatorVars, rebooted>>
      <4>1. ~(fd' = 0)
        BY <2>1
      <4> QED
        BY <1>1, <4>1, Zenon DEF OpenDevice
    <3>2. Setting' /\ CountInv'
      BY <2>1, <3>1
    <3>3. Age' = 0 /\ Since' \in Nat /\ Slack' \in Nat
      BY <3>1
    <3>4. AgeInv' /\ DeadInv'
      <4> HIDE DEF Age, Since
      <4> QED
        BY <3>1, <3>3
    <3> QED
      BY <3>2, <3>4
  <2>2. CASE fd' # 1
    <3>1. /\ fd' = 0 /\ ~enable' /\ hw' = hw /\ dog = "test" /\ dog' = dog /\ enable /\ fd < 0
          /\ UNCHANGED <<flag, timeout, watch, loaded, mainVars, webVars, child, operatorVars, rebooted>>
      <4>1. ~(fd' = 1)
        BY <2>2
      <4> QED
        BY <1>1, <4>1, Zenon DEF OpenDevice
    <3> QED
      BY <3>1
  <2> QED
    BY <2>1, <2>2
<1>2. CASE CloseDevice
  BY <1>2 DEF CloseDevice
<1>3. CASE Feed
  BY <1>3 DEF Feed
<1>4. CASE NotFed
  BY <1>4 DEF NotFed
<1>5. CASE Reboot
  BY <1>5 DEF Reboot
<1>6. CASE CountLoad
  BY <1>6 DEF CountLoad
<1>7. CASE CountStore
  BY <1>7 DEF CountStore
<1> QED
  BY <1>1, <1>2, <1>3, <1>4, <1>5, <1>6, <1>7 DEF DogStep

LEMMA InvOther ==
  ASSUME TInv, IInv, Inv, rebooted = "no", rebooted' = "no",
         \/ SIGCHLD_Handler \/ Second \/ MonitorTurn \/ RememberSwitch \/ SwitchOn \/ SwitchOff
         \/ MonitorHangs \/ MainDies
  PROVE  Inv'
<1> USE Bounds, SlackNat, SlackSame
        DEF TInv, TypeOK, Inv, Setting, CountInv, AgeInv, DeadInv, Healthy, Off, Cut, Since,
            CountLimit, AgeLimit, Age, MainPc, mainVars, webVars, dogVars, wdtVars, operatorVars
<1>1. CASE SIGCHLD_Handler
  BY <1>1 DEF SIGCHLD_Handler
<1>2. CASE Second
  BY <1>2 DEF Second
<1>3. CASE MonitorTurn
  BY <1>3 DEF MonitorTurn
<1>4. CASE RememberSwitch
  BY <1>4 DEF RememberSwitch
<1>5. CASE SwitchOn
  BY <1>5, SlackGrows DEF SwitchOn, IInv, TypeInv, Levels
<1>6. CASE SwitchOff
  BY <1>6, SlackGrows DEF SwitchOff, IInv, TypeInv, Levels
<1>7. CASE MonitorHangs
  BY <1>7 DEF MonitorHangs
<1>8. CASE MainDies
  BY <1>8 DEF MainDies
<1> QED
  BY <1>1, <1>2, <1>3, <1>4, <1>5, <1>6, <1>7, <1>8

\* watchd reboots a system only if its monitor has stopped.
LEMMA RebootNext ==
  ASSUME TimeoutsFit, TInv, Inv, Reboot
  PROVE  ~Healthy'
<1> SUFFICES ASSUME Healthy PROVE FALSE
  BY DEF Reboot, mainVars, Healthy
<1>1. timeout + 1 <= CountLimit /\ timeout > SwTimeout
  BY DEF Inv, CountInv, Reboot
<1>2. Cut <= MaxDeaths /\ Cut \in Int /\ Since <= MaxTurn /\ Since \in Int
  BY Bounds DEF TInv, TypeOK, Cut, Since
<1>3. MaxTurn * MaxSwitches \in Int
  BY Bounds
<1> QED
  BY <1>1, <1>2, <1>3, SlackNat, Bounds DEF CountLimit, TInv, TypeOK, TimeoutsFit

\* The device is fed, closed or overtaken by watchd before its last second.
LEMMA SecondNext ==
  ASSUME TimeoutsFit, TInv, Inv, Second
  PROVE  hw # 1
<1> SUFFICES ASSUME hw = 1 PROVE FALSE
  OBVIOUS
<1>1. Age = HwTimeout - 1 /\ dog = "sleep"
  BY DEF Age, Second
<1>2. Age <= timeout + MaxTurn + Slack
  <2>1. CASE Healthy
    BY <1>1, <2>1, SlackNat, Bounds DEF Inv, AgeInv, AgeLimit, Since, TInv, TypeOK
  <2>2. CASE ~Healthy
    BY <1>1, <2>2 DEF Inv, DeadInv
  <2> QED
    BY <2>1, <2>2
<1>3. MaxTurn * MaxSwitches \in Int
  BY Bounds
<1> QED
  BY <1>1, <1>2, <1>3, SlackNat, Bounds DEF TInv, TypeOK, TimeoutsFit

LEMMA ResetNext ==
  ASSUME TimeoutsFit, TInv, IInv, ResetInv, [Next]_vars
  PROVE  ResetInv'
<1>1. CASE UNCHANGED vars
  BY <1>1 DEF vars, mainVars, webVars, dogVars, wdtVars, operatorVars, ResetInv, HealthyIsNotReset,
              SoftwareFirst, Setting, CountInv, AgeInv, DeadInv, Healthy, Off, Cut, Slack, Since,
              CountLimit, AgeLimit, Age
<1>2. CASE Next
  <2>1. rebooted = "no" /\ Inv
    BY <1>2 DEF Next, BeforeReset, ResetInv, Inv
  <2>2. CASE Reboot
    BY <2>1, <2>2, RebootNext
    DEF Reboot, ResetInv, HealthyIsNotReset, SoftwareFirst, Healthy
  <2>3. CASE Second
    <3>1. rebooted' = "no"
      BY <2>1, <2>3, SecondNext DEF Second
    <3> QED
      BY <2>1, <2>3, <3>1, InvOther DEF ResetInv, Inv, HealthyIsNotReset, SoftwareFirst
  <2>4. CASE ~Reboot /\ ~Second
    <3>1. rebooted' = "no"
      BY <1>2, <2>1, <2>4
      DEF Next, BeforeReset, MainStep, WebStep, DogStep, Operate, Accident, OpenSharedMemory,
          InitSysinfo, FpgaReady, ArmWatchdog, StartMonitor, ServersStarted, LetWebStart,
          MonitorTurn, MonitorHangs, MainDies, SwitchOn, SwitchOff, RememberSwitch, WebMayStart,
          SyncRoutes, InitMuxFpga, FirstRemux, TestLevel, Climb, FinishWork, PoolHangs, WebDies, SIGCHLD_Handler,
          OpenDevice, CloseDevice, Feed, NotFed, CountLoad, CountStore
    <3>2. Inv'
      BY <1>2, <2>1, <2>4, <3>1, InvMain, InvWeb, InvDog, InvOther
      DEF Next, BeforeReset, Operate, Accident
    <3> QED
      BY <3>1, <3>2 DEF ResetInv, Inv, HealthyIsNotReset, SoftwareFirst
  <2> QED
    BY <2>2, <2>3, <2>4
<1> QED
  BY <1>1, <1>2

\* A system whose monitor turns is never reset, however watchd's counting, the
\* monitor's clearing, the operator's switching and the deaths of the web
\* server interleave, for all timeouts that fit.
THEOREM HealthyNeverReset ==
  ASSUME TimeoutsFit
  PROVE  Spec => []HealthyIsNotReset
<1>1. TInv /\ IInv /\ ResetInv /\ [Next]_vars => ResetInv'
  BY ResetNext
<1>2. IInv /\ [Next]_vars => IInv'
  BY IInvNext
<1>3. ResetInv => HealthyIsNotReset
  BY DEF ResetInv
<1> QED
  BY <1>1, <1>2, <1>3, InvInit, IInvInit, TInvInit, TInvNext, PTL DEF Spec

\* Whatever stops and whenever, watchd reboots before the device cuts the
\* board off, for all timeouts that fit.
THEOREM DeviceNeverFirst ==
  ASSUME TimeoutsFit
  PROVE  Spec => []SoftwareFirst
<1>1. TInv /\ IInv /\ ResetInv /\ [Next]_vars => ResetInv'
  BY ResetNext
<1>2. IInv /\ [Next]_vars => IInv'
  BY IInvNext
<1>3. ResetInv => SoftwareFirst
  BY DEF ResetInv
<1> QED
  BY <1>1, <1>2, <1>3, InvInit, IInvInit, TInvInit, TInvNext, PTL DEF Spec
=============================================================================
