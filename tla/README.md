# DCP3000: a verification project in TLA+

DCP3000 is the controller software of a modular digital-TV platform: a main
board with an ARM processor and an FPGA, seven slots for boards that it drives
over SPI, a front panel, TS-over-IP ports and a web interface.  The sources are
in `dcp3000/app_src/`; paths below are relative to it.

## 1. Inventory

### Processes

| process | main file | what it runs |
|---|---|---|
| `watchd.bin` | `watchdog.c` | creates the shared memory, starts the web server again when it dies, feeds or lets expire the hardware watchdog |
| `dcp3000.bin` | `main.c` | owner of the SPI bus: slot monitor, board interrupts, IPC server, front panel, transceiver routes, event log |
| `httpd.bin` | `webmain.c`, `web/`, `mux/` | embedded web server, multiplexer, capture of PSI/SI, upgrade |
| `debug_tools.bin` | `debugmain.c` | command line for service |
| `upgrade.bin` | `upgrade.c` | upgrade of main board and slot boards from a shell |

They share one System V segment with the system state (`sysinfo`, slot
information, SPI queues' handles, transceivers, TSoIP channels) and one
segment, key 723, that carries messages.

### Components, their state and operations

| component | sources | state | operations | what makes it right |
|---|---|---|---|---|
| thread pool | `utils/thread_pool.c` | task list, semaphore, task counter, mask words, `doflag` | add a task, worker loop, wait, destroy | every task runs once, in order; a task is never stranded; destroy returns, after the work |
| SPI master | `transfer/spi.c`, `transfer/spi_xyf.c` | per slot: task queue, `run_flag`, transfer in progress | add / insert a task, worker, pause, resume, wait for the end | a waiter comes back, and when it does its task is no longer in use |
| shared-memory messages | `ipcmsg/shmem_obj.c`, `ipcmsg/shmem_msg.c`, `shmmsg_client.c`, `ipcmsgsrv.c` | one mailbox, reader/writer count, reader timestamp, writer semaphore | send, receive with timeout, request / reply | a request is served once, a reply reaches its requester |
| catalogue messages | `ipcmsg/ipcmsg.c`, `ipcmsg/ipcmsg_query_req.c` | list of items and catalogue of a message | build, send, dispatch, query | items arrive complete and in order |
| event log | `event/eventlog.c` | file: header (cursor, count, last serial) and a ring of records | add, clean, read by index, ascending, descending, by serial | the newest records are kept and found under their numbers; a crash or a second process does no harm |
| board events | `event/board_event.c` | events read from a slot board | read at an interrupt | each event handled once |
| slots | `main.c`, `system.c` | per slot: status, link counters, `run_flag`, information valid flags | debounce of insertion, monitor, interrupt task, information update | a pulled board is never treated as running, a running one is described |
| start-up and watchdog | `watchdog.c`, `main.c`, `webmain.c` | `sysinfo->run_flag` 0..7, watchdog count | start-up chain, SIGCHLD restart, feed, reboot | the processes start in order; a hang leads to a reboot |
| TSoIP input backup | `tsoip/tsoip_backup.c` | per channel: source in use, which source is on which FPGA channel, error counts | switch source, check main source, monitor | the FPGA receives the source the channel says it uses |
| TSoIP channels | `tsoip/tsoip.c` | channel parameters and bit rates | set, enable, read | FPGA agrees with the parameters |
| transceivers | `transfer/transceiver.c` | routes between slots | enable, disable, synchronise | no route through an absent board |
| timers and periodic tasks | `utils/system.c` | time base, condition, flags | wait with timeout, period, delayed run | a wake-up is not lost |
| circular lists, lists, maps | `utils/cirArrList.c`, `cirqueue.c`, `list.c`, `arraylist.c`, `duList.c`, `hash*.c` | the containers | insert, remove, resize | they are the sequences and maps they stand for |
| parameters | `parameter.c`, `sqlite3/` | parameters in memory and in a database | save later, load, default, upload | what was saved is loaded after a crash |
| upgrade | `upgrade.c`, `flash/` | upgrade status, flash partitions | write program, slot board | an interrupted upgrade is not taken for a good one |
| multiplexer, capture | `mux/` | programme tables, PID maps, captured sections | capture, edit, generate tables, apply | tables sent are the tables edited |
| web and JSON | `web/` | sessions, request handlers | login, request | |
| front panel | `front_panel/` | menu position | key, refresh | |
| time | `ntp/`, `rtc.c` | frequency estimate | query, adjust | |
| hardware access | `fpga.c`, `gpio.c`, `lm73.c`, `board_info.c`, `scan_mac.c` | registers | read, write | |

### How they interact

* The slot monitor and the interrupt poll of `main.c` run in one thread, 10 ms
  a turn; they add tasks to the *async pool* (8 threads) of `system.c`.  The
  tasks talk to boards through the SPI master of their slot.
* The IPC server thread of `main.c` receives requests from the mailbox and
  adds one task per request to a pool of four threads; each task does an SPI
  transfer and sends its answer through the same mailbox.
* `httpd.bin` runs its own copy of the slot monitor, the multiplexer and the
  capture on pools of their own, and reaches boards through the mailbox.
* Every process appends to the same event log file.

### Where the behaviour is hard

Almost nothing shared between threads and processes is protected as its names
suggest: counters, masks, flags and the reader/writer count of the mailbox are
plain memory, read and written in separate instructions; waits poll with
`usleep`; flags that one thread tests are changed by another between the test
and the use; files and flash are written in several steps without a journal.
`PROJECT.json` lists every hazard at its line.

Many of these hazards do bite: the code has no defence, and no document claims
one.  The models then go through the bad behaviour and a *history variable*
(`torn`, `forced`, `lost`, `spoiled`, `adrift` and so on) records that it
happened; the properties say what holds otherwise.  Such a property is no answer to the
hazard that its history excuses, and `PROJECT.json` does not list it there: the
hazard has a note that names the action in which it is modelled.

Hazards that are left out of that list because a reader or a memory checker
finds them faster than a model, or because they show as a term of a hazard that
is listed: `ipcmsgsrv.c:488` (an answer built from a freed task) and `:522` (the
handler of a LED request writes `slot_status`), `transfer/spi.c:934` (a write
that always reports success) and `:744` (`check_spi_transfer_status` compares a
length with a flag value), `eventlog.c:73` (a death in the first start), `:448`
(a serial number beyond the last returns the oldest records)
and `:499` (a buffer shorter than the number of records asked for), `system.c:439` (each process has its own copy of the mask of held slots; in
`SlotBoard` as `OtherSlotReset`), `transceiver.c:995` (a list is taken into a
buffer sized by an earlier count) and `:1269` (refused requests stay queued and
are carried out with the next ones; in `TransceiverRoutes` as `Refuse`).

## 2. Plan

### Modules that exist

| module | what it is | uses |
|---|---|---|
| `TaskQueue` | abstract: what a user of a thread pool relies on | |
| `ThreadPool` | `utils/thread_pool.c`, step by step | implements `TaskQueue` |
| `SlotCalls` | abstract: what a caller of the SPI master relies on | |
| `SpiTransfer` | tasks of one slot in `transfer/spi.c`, the heap they live in | implements `SlotCalls`; its step `Move` stands for `SpiProcedural` |
| `SpiProcedural` | one procedural transfer, register by register | |
| `EventLog` | `event/eventlog.c` on its file | |
| `Supervision` | `watchdog.c` with the start-up of `main.c`, `webmain.c`, `mux/mux.c` | its step `MonitorTurn` stands for the monitor of `SlotBoard` |
| `MessageChannel` | `ipcmsg/shmem_*.c`, `shmmsg_client.c`, server of `ipcmsgsrv.c` | its step `Serve` stands for a call of `SpiTransfer`, its `pool` for `ThreadPool` (as `TaskQueue`) |
| `SlotBoard` | one slot: debounce, events, description, levels | its transfers stand for calls of `SpiTransfer`, its tasks for those of `ThreadPool` |
| `TransceiverRoutes` | `transfer/transceiver.c`: routes and channels of several slots | `Restart`, `Described` stand for `SlotBoard` |
| `*_proofs` | theorems | extend the module of that name |
| `MC_*` | instances for TLC | extend the module of that name |

### What is left, in this order

1. The shared parts of two modules composed: `SlotBoard` with `TransceiverRoutes`
   (a board that restarts while httpd initialises it), `MessageChannel` with
   `SpiTransfer` (a caller that times out while its task is still queued).
2. `SpiFile`: block transfer with retries; `Containers`: `cirArrList.c` and
   `cirqueue.c` shown to implement sequences; `CatalogueMessages`.
3. `Parameters` (delayed save and crash), `Upgrade` (phases and crash), the PID
   loops and the section collector of `mux/`.
4. Theorems about the modules of 1 to 3.  Every invariant and action property
   that a run checks today is proved (section 5).

An earlier plan had two more components.  The switch of TSoIP inputs
(`tsoip/tsoip_backup.c`) is dead code: `monitor_tsoip_in`, its only caller, is
never started.  The periodic tasks of `utils/system.c` are started by it and by
a debug command only.

## 3. The modules

Variables have the names of the code where it has one; `PROJECT.json` ("map")
gives the lines of each definition.  Properties are named in *italics* below.
A definition whose comment begins with "Mutant of" is a plausible mistake in the
definition that follows it: it is not part of the model and is used to see that a
property can fail.

### ThreadPool and TaskQueue

State: the list (`queue`), the value of the semaphore (`sem`), `cur_queue_size`
(`size`), `task_mask` (`mask`), `doflag`, the holder of `queue_lock` (`lock`),
per thread a program counter, what it has loaded of `size` and `mask`
(`sizeReg`, `maskReg`) and the task it is adding or running (`cur`).

Actions: `AddTask` to `Post` are `thread_pool_add_task`; `TryWait` to
`DecSizeStore` the loop of `thread_routine`; `Wait`, `WaitEnd`, `Destroy`,
`DestroyEnd` the functions of the owner.  What happens under `queue_lock` is one
step when no other thread can see the difference; each read-modify-write of the
two words the lock does not protect is a load and a store.  `Temporary` says which
of the two uses of the code is meant: the pool of `system.c` that is kept, or the
pools of `mux.c` which their only caller fills, waits for and destroys.

* *TokenBacked*: the semaphore, the workers that took a unit and the callers
  that are about to post one add up to the length of the list.
* *FifoOnce*: the list is the newest tasks in order, each earlier one is done or
  in the hands of exactly one worker.
* *EveryTaskRuns*: under fair scheduling, whatever the two words say.
* *ImplementsTaskQueue*: a refinement.  `TaskQueue` lets a pool abandon its list
  only while nothing runs, which is as much as `thread_pool_destroy` keeps.

### SpiTransfer and SlotCalls

State: the two run flags of a slot (`run` for `spi_masters[].run_flag`, `mod`
for `spi_master_module[].run_flag`), its `queue` of pointers, the `heap` of task
cells with their contents (`task`), the worker (`wpc`, `wcur`), each caller
(`pc`, `cell`, `ret`) and each thread that controls the slot (`ctl`).  `moved`
remembers the outcome on the wire of the call a caller is in, and `owner` who
allocated a cell; both are history.

A cell that is freed can be allocated again while an old pointer to it is in the
queue: the model then lets the worker write the task of somebody else, as the
program would.  A second `free` of a cell either does nothing or aborts the
process (`aborted`, after which nothing happens).

* *TaskOwned*, *ReturnsOwnOutcome*, *ImplementsCalls*: while nobody pauses or
  ends the slot (`Commands = {}`).  With pauses the first two are false: the
  worker's `list_empty` frees tasks that their callers free too.
* *NoTaskLeaks*, *PauseReleases*, *PauseDrains*, *WorkerEnds*: with pauses, ends
  and restarts at any moment.

### SpiProcedural

State: the request, the bytes left to write and to read, the flags and the
status of the task, what its `data` points to, the blocks allocated, and whether
the board believes it is in a transfer.  Each register access is an action that
succeeds or fails.  The length of a reply is a signed word from the board
(`spi.c:191`), of which only the upper bound is tested; the one of a read of
fixed length (`readFixed`) is the caller's.  A length of -1 gets a block of size 0, moves
nothing, has a 0 written in front of its block and is marked `TRANSFER_OK`; below -1
`malloc` fails and the program ends (`pc = "exit"`).

* *MemoryAccounted*: the text is freed once and the reply handed over or freed; the
  byte in front of the block is named in it, for a length of -1.
* *BoardReleased*: a transfer leaves the board in it only if a word was lost.
* *SuccessIsComplete*: a caller is told of success, that is the status and, of a
  reply, a length that is not negative, only if all was moved and the board released.
  All three speak about all exits of the function together.

### EventLog

State: the file (`head`, `ring`), the process that holds the lock, per process
the copy of the header (`mem`), the file offset (shared by the threads of the
process) and the static record (`rec`), per thread its place in `add_log` or
`clean_logs` or one of the calls that read.  Each `lseek`, `read` and `write` is a
step; `Write` puts a value where the offset is, not where it was meant to go.
`Crash` kills a process at any step and drops its locks, `Restart` is
`init_eventlogs` over an existing file.

`GetLogs` to `RdUnlock` are the calls that read (`get_log`, `get_logs_asc`, `_desc`,
`_by_sn`, `get_loginfo`), with what they were asked for (`ask`): the lock that
readers share (`readers`), the header, the tests of the request (`Ask`), the
records.  `Ask` keeps the code's early returns, two of which leave the file
locked (`eventlog.c:303`, `:325`): the lock stays until the next call of the process
or its death.  `TakeMutex` is `mutex_lock` of `get_logs_asc`, whose unlock is
commented out (`:356`): a second ascending read or a clean in the same process
waits for ever, as in the code.

* *HeaderExact*: with no death, the header is that of all records added by all
  processes since the last clean.
* *CrashKeepsLog*: with deaths, the records before the cursor are the last ones
  added, in order; at most the oldest is damaged.
* *ReadsRight*: by index, ascending, descending and by serial number the calls return
  the records of the log that were asked for, whatever other processes add meanwhile.
  A request whose first record is in the last slot of the ring is left
  out, because the code computes index 0 for it, which `read_logs` turns
  into 1: it is answered with the records from the first slot on, which is not what
  the comments of the calls promise (`eventlog.c:306`, `:361`, `:417`).

### Supervision

State: `run_flag` (`flag`), the words of the watchdog (`enable`, `timeout`,
`watch`), the device (`fd`, `hw`), and where `watchd.bin` (`dog`, `loaded`),
`dcp3000.bin` (`main`, `monitor`, `late`), `httpd.bin` (`web`, `started`) and an
operator are.  The increment of `timeout` in `watchd.bin` is a load and a store,
or one test that reuses the loaded value: a compiler may do either.  The web server
tests `run_flag` (`TestLevel`) and raises it (`Climb`) in two steps.  `PoolHangs`: the
work of levels 6 and 7 ends in `thread_pool_destroy`, which may never return
(a lost decrement of `cur_queue_size`, module `ThreadPool`).

Time: `Second` is the `sleep(1)` of `watchd.bin`.  It cannot pass while a
signal is pending, while an operator is between the two writes of a switch, while
`main` creates its monitor, or when a healthy monitor (10 ms a turn in the code)
has had no turn in `MaxTurn` sleeps.

* *HealthyIsNotReset*, *SoftwareFirst*, *HungIsReset*: what the watchdog is for.
* *WorkOnce*, *LevelGrows*, *Settles*: what the start-up levels are for.  *Settles*
  names the ways not to get there: a web server that died at level 4 or below, which
  nothing starts again, one that is stuck in `thread_pool_destroy`, a dead main
  process, a reset.

Assumed: one operator at a time (two could interleave the two words of a switch,
`system.c:729` to `745`), no failing `fork`, no orderly stop by SIGTERM;
`SIGCHLD` interrupts the sleep.

### MessageChannel

State: the semaphore of the writers, `rw_count`, the mailbox with its addressee,
per process whether the time stamp is new to it (`fresh`) and the one message
buffer through which its threads send and receive (`note`), per thread its place
and what it loaded (`reg`) or carries (`out`, `in`), the server's `pool`.  Every
change of the semaphore and of `rw_count` is a load or test and, later, a store;
so are the test of the time stamp (`Wake`) and its copy (`Remember`).  A client may time
out at any time.  A process may die at any step, with all its threads, and start
again with another process id; what it had locked stays locked.

`Clients` are threads and `Process` says whose: `debug_tools.bin` has one thread
that calls, `httpd.bin` has many, which share the client object, the time stamp
and the process id (`shmmsg_client.c:16`).  What a client sends is what is in the
buffer when it gets to copy it (`Text`), which may be the request of another
thread, sent twice, or a text nobody asked for (number 0).

Histories name what the code does not protect against: `torn`, an update of
`rw_count` was lost, or its owner died in it; `forced`, the semaphore was set while the
mailbox was in use; `slipped`, requests written between the wake and the look of
the listener; `gaveUp`, requests whose caller timed out.

* *LockExact*: until `torn`, the counter is a readers' and writers' lock.
* *UnreadIsKept*: nothing unread is overwritten except after `forced` or `torn`.
* *ServedOnce*: a request of a process with one thread is carried out once, twice
  if it slipped, never more.
* *OwnReply*: a caller that is the only one of its process gets its own answer, or,
  after a request of its process was given up or carried out twice, an earlier one
  of the same life of that process.
* *ProcessReply*: a caller gets an answer to a request of its own process and life.
  For the threads of `httpd.bin` this is all that holds: one thread takes the
  answer of another with no timeout and no fault.
* *CallsReturn*: until `torn` every call ends, with an answer or a timeout.

Left out: a time stamp read half old and half new, the time base that the
threads of a process share, the three writes of `send_shmmsg` one by one, the bytes of a text
that another thread has freed, and where the bytes of a reply land if another thread has set
`msgdata` meanwhile.

The model shows two consequences that no document mentions.  After lost
updates `rw_count` can stay above 0, so that no writer ever gets in again, or
fall to -2, so that readers do not.  And one timeout of a receiver, or one request
served twice, shifts the answers: each later call of that process is given the answer to
the one before.

### SlotBoard

State: the board with its reset line and what it has to say (`board`, `held`,
`booting`, `pending`); the debounced link (`shown`, `last`, `linked`, `unlinked`,
`changed`); the level of the slot (`flag`, `run_flag` 0 to 4), its transfers (`spi`)
and transceivers (`trans`); the description (`isok`, `boardChanged`, `known`,
`info`, `inited`); and where the monitor of `dcp3000.bin`, the event task, the
operator, each description and the monitor of `httpd.bin` are.  Each test and each
write of a word of the slot is a step of its own.

`lost` is set when a thread writes a word that somebody changed since it tested
it, when an announcement is ignored, when two descriptions overlap or one takes
back the mark of another, and when the other process lets the slot go.  It
starts afresh only when a board is plugged into a slot that is `Settled`: nobody
is at work for the last board, and what is known of it is whole or marked as
changed.  `gaveUp`: a description failed; `early`: the board left before it was
counted as plugged in; `stale` feeds `lost`.

`update_slot_boardinfo` compares boards in two ways: by version and by board type
without its low byte, which decides whether `httpd.bin` is told, and by
the whole type, which decides whether the board is described anew (`system.c:1374`
to `1389`).  `Sort` is what the first comparison sees.  A board that differs in
the low byte alone is described, and reaches level 4, with the transceivers of the
board before it; the properties therefore speak of the sort.

* *FourIsConfigured*: a slot at level 4 has its transceivers set up for a board of
  the sort that is described.
* *BoardComesUp*: a board that stays ends up described, running, at level 4, its
  transceivers set up for its sort.
* *EmptyIsQuiet*: a slot that stays empty ends up shown as empty, with nothing running.

### TransceiverRoutes

State: per channel and route its lock byte, the use count of a channel in total
(`ref`) and by interface (`count`, a char), its bits in the register map (`regs`), the
channel of a route (`chan`) and its row in the database (`stored`); per slot
`transceiver_flag`, `run_flag`, the level of the board, the requests of operators
and the lists of what boards are to be told; what each board was told (`told`);
the threads of the web server and the tasks; the monitor of `httpd.bin`.

A lock is tested and taken in two steps.  Counts and register are read in one
step and written in another, outside the lock, as in the code.  `NullChannel` is
the death of `httpd.bin` when a route is deleted between the look and the lock.

`dcp3000.bin` holds the same database open, so every access to it can fail: a
write (`Write`) then leaves the row as it is, which the code only prints, and a read
(`SelectFails`) leaves the remaining rows unused although `transceiver_flag`
becomes 2 all the same.  A failure counts as an event and sets the route adrift; a later write of
the same row that succeeds ends that.

Four histories say what has gone wrong: `spoiled` channels (counted by two at
once, or their board was replaced), `tangled` routes (two threads on the same
one), `adrift` routes (the row was not kept up to date, or the database failed), `doubtful` items (a board
was told two things at once, or could not be told).

* *CountsExact*: at rest, counts, enable and register of an unspoiled channel are
  those of the routes that use it.
* *StoredIsUsed*: at rest, the rows are the routes in use.
* *BoardsTold*: at rest, a board knows what is in force, also after it restarted.
* *LocksHeld*: a lock that is set has a holder that will clear it.
* *SyncPending*: a board that is up and not up to date will be brought up to date.

## 4. The runs

| run | instance | states | shows |
|---|---|---|---|
| `pool_kept` | 2 workers, 2 callers, 1 mask bit, 3 tasks | 150 000 | *TokenBacked*, *FifoOnce*, *EveryTaskRuns* |
| `pool_temporary` | 2 workers, 1 owner, 1 mask bit, 3 tasks | 15 000 | *ImplementsTaskQueue* |
| `pool_finished` | as above without mask | | *FinishedAtDestroy* is violated |
| `spi_steady` | 3 callers, 3 cells, no commands | 220 000 | *TypeOK*, *TaskOwned*, *ReturnsOwnOutcome*, *ImplementsCalls* |
| `spi_pulled` | 1 caller, 2 cells, 2 controllers, pause and end | 600 000 | *NoTaskLeaks*, *PauseReleases*, *PauseDrains*, *WorkerEnds* |
| `spi_procedural` | chunks of 2, lengths -2 to 6 | 1 050 | *MemoryAccounted*, *BoardReleased*, *SuccessIsComplete* |
| `log_procs` | 2 processes, ring of 3, 4 adds, 1 clean, 1 read of three kinds, 2 deaths | 10 314 000 | *HeaderExact*, *CrashKeepsLog*, *ReadsRight* |
| `log_threads` | 2 threads of one process | | *LastSnIsLast* is violated |
| `supervision` | 1 death of the web server, 2 switches | 95 000 | *TypeOK*, *HealthyIsNotReset*, *SoftwareFirst*, *WorkOnce*, *LevelGrows*, *HungIsReset*, *Settles* |
| `message_channel` | 1 client, listener, 1 handler, 2 requests, 1 death | 474 000 | *TypeOK*, *LockExact*, *UnreadIsKept*, *ServedOnce*, *OwnReply*, *ProcessReply*, *CallsReturn* |
| `slot_board` | 2 boards of one sort, one of them gone, 1 description at a time, 1 plug, 1 report, 1 fault | 827 000 | *FourIsConfigured*, *BoardComesUp*, *EmptyIsQuiet* |
| `transceiver_routes` | 2 slots, 2 channels, 2 routes, 1 web thread, 1 task, 2 events | 956 000 | *CountsExact*, *StoredIsUsed*, *BoardsTold*, *LocksHeld*, *SyncPending* |

`TypeOK` of the other modules is in no run because it is proved (section 5).

### Bounds and why they are enough

* `MaxTasks = 3` with two workers: both workers can be busy with a task waiting,
  and an update of `size` or `mask` can be lost while a third task is added.
* Three callers and three cells in `spi_steady`: one task with the worker, one
  queued, one being built.  One caller with two cells in `spi_pulled`: after a
  pause its next task can get the very cell that is still in the queue, or the
  other one.  `MaxQueue` bounds the tasks linked.  Two controllers: one can
  resume or start while the other pauses or ends.
* `Chunk = 2` with lengths 1, 2, 3, 5 and replies -2 to 6: below, at and above
  one and two chunks, an empty reply, one longer than `MaxData`, and both kinds of
  negative length.
* Ring of three with four records: it is filled and wraps around, and a death can
  hit a record before and after that.  Two deaths: one in each process, or twice in
  the same.  One read, of the oldest record by its index or of a whole log by
  distance from the end or by serial number, puts a reader of each kind of lock among
  the writers; of a log that is too short for it `get_logs_asc` goes away with the
  file locked.  An instance with all requests a ring of three can be asked for,
  indices it has not included, two reads, five records and no death was explored
  once without error (989 000 states), and `ReadsAreRight` covers all requests.
* `SwTimeout = 3`, `HwTimeout = 9`, `MaxTurn = 1` stand for 40 s, 60 s and a monitor
  that turns a hundred times a second.  A switch off and on can add a
  few seconds to the count of `watchd.bin`, a death of the web server cuts a
  sleep short: `TimeoutsFit` (section 5) says how much room the two timeouts need
  for that.  The bounds of the run meet it exactly.
* One client, two requests and one death in `message_channel`: a late answer
  meets the next request, an answer to a dead process its successor, and listener,
  client and handler use the lock at once.  Answers to another process need two
  of them: `AnswersAreOwn` and `RepliesAreOwn` are proved for any number.
* The process in `message_channel` has one thread, because *ServedOnce* and *OwnReply*
  are about such processes and two threads with liveness are too many states.  An
  instance with two threads of one process, of which one sends the request of the
  other, takes its answer, or sends when the text is gone, was explored once for
  *LockExact*, *UnreadIsKept* and *ProcessReply* up to the first lost update of the
  lock, without error (1 036 000 states); the theorems about these are for any
  number of threads.
* One plug in `slot_board`: the slot knows no board or another one of the same sort,
  which is the case in which the description and what `httpd.bin` is told part (`Replaced`
  leaves the other starts out); the board that is plugged in is the known one from its
  second description on; a reboot of its own, a reset by an operator or a hot spell (`MaxReports = 1`)
  and a transfer that fails (`MaxFaults = 1`) meet the plug and the pull.  Two
  boards with three plugs, two tasks and two reports were simulated for *FourIsConfigured* without an
  error, and `LevelFourIsConfigured` covers all numbers and sorts.
* Two routes of two slots share the channels of one in `transceiver_routes`, so that a
  channel is used from its own and from another slot; `Byte = 4` is reached from
  below (0 minus 1 is 3).  The web thread and the task are the two that can meet
  in a lock; two events allow a request with two routes, a request and a
  restart of a board, or either of the two and a failure of the database.  All five properties of the run are proved for any number of
  slots, channels, routes, threads and events.

Every run that sets `CHECK_DEADLOCK FALSE` has a bound that the behaviour can
use up (tasks, records, transfers), or ends by design (a reset board, an aborted
process).  `spi_steady` never stops and is checked for deadlock.

### Fairness

Weak fairness of each thread: the scheduler of the system runs every thread that
can go on, and every wait of the code is a poll.  A task's process and a
transfer are assumed to return (the transfer has no unbounded loop); the work that
waits for a pool is not (`PoolHangs`).  Nothing is
assumed of what starts by itself: new calls, commands of controllers,
operators, deaths, hangs, timeouts and pulled boards.  In `Supervision` the passing of
time is fair too; in `SlotBoard` a reset that an operator confirmed is carried
out and a board that boots says so; in `MessageChannel` a timeout is one of the
steps of its thread, so that a call without an answer ends.
`TransceiverRoutes` has no temporal property: its waits are polls of a plain lock,
which fairness of single steps does not end if others keep taking it.  That nobody waits
for something that will never come is stated as *LocksHeld* and *SyncPending*.

### Findings

* `pool_finished`: `cur_queue_size` is decremented without the lock
  (`thread_pool.c:123`).  A lost update makes `thread_pool_destroy` drop a task.
  The opposite loss makes it poll for ever; the run checks only the first, and
  `Supervision` has the second as `PoolHangs`.
* `log_threads`: the `fcntl` lock of `add_log` does not exclude threads of the
  same process and the mutex that would is commented out.

## 5. The proofs

Proved for every value of the constants that meets the assumption of the module
(`PoolAssumption`, `SpiAssumption`, `ProceduralAssumption`, `LogAssumption`,
`SupervisionAssumption`, `ChannelAssumption`, `SlotBoardAssumption`,
`RoutesAssumption`), which TLC evaluates in every run of the module.  Each proof
module starts with the invariant and has one lemma per group of actions.

**ThreadPool_proofs.**  `TypeCorrect` and `SemaphoreMatchesList` (*TokenBacked*).
The type invariant needs `MaskedAdd`: between the check of a mask bit and the
store there is one.  *TokenBacked* alone is not inductive, for it says nothing
after a shutdown and `WaitEnd` writes `doflag`: `Phase` says which threads can be where for each value of
`doflag`.  `TasksRunInOrderOnce` (*FifoOnce*) comes from `OnceInv`: the list is a
suffix of the tasks added, in order, and each earlier one is done or with one
worker.  `PoolIsTaskQueue` is the refinement *ImplementsTaskQueue*, step by step.

**SpiTransfer_proofs.**  With pauses, resumes and ends of the slot at any time:
`TypeCorrect`, from `Placed` (a caller holds a cell exactly between `malloc` and
`free`) and `Ready` (only the worker dequeues); and `NoTaskIsLeaked`.  With
`Commands = {}`: `TasksAreOwned` and `OwnOutcomeIsReturned`, from the invariant
`SteadyInv`, which adds to *TaskOwned* that nothing empties the queue
(`Unbroken`), that a task on its way is not marked as ended (`NotEnded`) and that
from the end of the transfer on the outcome is in the task (`Known`): without
the last two a caller could take the flag of another call for its own.
`SlotServesCalls` proves the safety half of *ImplementsCalls* from `CallsInv`,
which adds that a served task is not due again (`Fresh`) and that a returning call
has an outcome (`Answered`).  Unlike the run `spi_steady`, these theorems include callers that
jump the queue.

**SpiProcedural_proofs.**  `TypeCorrect`, `MemoryIsAccounted`, `BoardIsReleased`,
`ReportedSuccessIsComplete`, for any chunk, buffer and text and any signed length of a reply.  The
invariant says for each place what is allocated (`Text`, `Reply`), what is left to
move (`Left`), when the outcome is known (`Outcome`) and when the board was told
(`Told`).

**EventLog_proofs.**  `TypeCorrect`, `HeaderIsExact`, `CrashesKeepTheLog`, for any
number of processes, any ring and any number of deaths, if every process logs
from one thread (`OneThread`; the run `log_threads` shows that this is needed).
The lock then excludes everybody else, and a reader's all writers (`Alone`); and `Progress` states, step by step, what the call
under way has read and written so far; `CursorExact` (the cursor is the place of
the last record added, whoever died), `Kept` (the records behind it) and `Exact`
(the numbers, while nobody died) rest on it.  The arithmetic of the ring is in
a few lemmas about remainders.  `ReadsAreRight` (*ReadsRight*) speaks of a reader at
the moment it reads the records: its lock is still there, so the header it read is that of the file,
which `Exact` fixes while nobody died; and the slot that it
computes for its k-th record is the slot of that record (`Served`), by index, from
the end and by number (`AllKinds`).

**Supervision_proofs.**  `WorkIsDoneOnce` (*WorkOnce*) and `LevelNeverFalls`
(*LevelGrows*), for any number of deaths of the web server.  `Levels` says which
process may have written `run_flag` last; `LevelTells` that a level not reached means work not begun.
The test of a level and its raise being two steps, `LevelTells` holds at each place between them.
`TypeCorrect` needs `CountBelow`, because the count is written from a loaded
value.  `HealthyNeverReset` and `DeviceNeverFirst` assume `TimeoutsFit`: the limit of
`watchd.bin` leaves room for the sleeps in which a healthy monitor does not turn,
those that deaths of the web server cut short and those that switching hides,
and the device's is longer than that by the same and three more.  `ResetInv` bounds count and age of
the last feeding by those three terms.  The assumption is sufficient, not
claimed to be necessary: it charges `MaxTurn` to every switch.

**MessageChannel_proofs.**  `TypeCorrect`; `LockIsExact`, which is inductive as it
stands, because it speaks about a lost update by `torn`; `UnreadMessageIsKept`,
from `OneRight` (at most one writer has the right to the mailbox, or `forced`);
`AnswersAreOwn` (*ProcessReply*), for any number of threads in a process and without
a condition on the lock, from `Addressed` (what is in the mailbox is addressed to
the process and life of its request); `RequestIsServedOnce`, from `OwnNote` (a process with one
thread sends what it asked) and `SentOnce` (its request is in one place only:
with its writer, in the mailbox, with the listener, in the pool or served).
`RepliesAreOwn` is *OwnReply*.  Both speak of a process with one thread, among any number of
processes with any number of them.  It rests on `Settled`: while no update of the lock was lost, a
request has at most as many answers as it was served times, and anything that
is pending of a client other than its present call is a request it gave
up or that was carried out twice, or a younger one.  `Busy` says what a client holds at each step,
which tells the present call from the earlier ones.

**SlotBoard_proofs.**  `TypeCorrect` and `LevelFourIsConfigured`, for any boards and sorts,
plugs, reports and faults.  The invariant is `Epoch`: while no update was lost there is a
board that everything in the slot is about, one description of it at a time is
under way (`OneBoard`), a description of a sort the transceivers were not set up for is marked
(`Marked`), and what the monitors have tested still holds (`Tested`).  The proof
attempt is where the last condition of `Settled` comes from: without it the
half-written description of an earlier board could pass as that of the next.

**TransceiverRoutes_proofs.**  Everything the run checks, in four parts, for any
boards, channels, routes and threads, of which only slots and items must be
finite in number.

* `TypeCorrect`; `LocksAreHeld`, inductive once the threads are typed (`Work`: a
  thread between two locks knows its route and channel); `SyncIsPending`, from `AllComing`, which says the same of the slot that the
  monitor is about to raise.
* `StoredAreUsed` (*StoredIsUsed*), from `RowInv`.  At rest a row is the channel
  of its route; on the way there (`Matches`) a thread may be at work on the route,
  the row may still be to be used, or its board is being replaced.  That each of these
  ends as it should takes that one thread works on a route (`Alone`), that a
  deleted route has no row from the moment its lock is taken (`Deletes`), that
  the rows of a slot are used by one task (`OneSync`), which finds every route
  unused (`Unused`), and that, but for rows that a failed access left behind, nothing is added to a slot
  between `free_transceiver` and `init_transceiver` (`Stopped`, `Cleared`).
* `BoardsAreTold` (*BoardsTold*), from `ToldInv`.  A letter is in one list or
  with one thread and the last about an item says what is in force (`Sure`); every list with a letter has a
  thread that will send it (`Senders`); a board that does not know an item will
  be told: there is a letter, or the board has forgotten and a synchronisation is
  still to come or to reach the item (`Known`, `Ahead`).
* `AmountsAreExact` (the first two lines of *CountsExact*), from `RefInv`: the
  users of a channel, counting a thread that is between raising `ref_amount` and
  pointing the route (`RefsExact`); the thread that has read `ref_amount`
  holds the lock and nobody else does (`Owned`).  `CountsAreExact` (all of
  *CountsExact*), from `CntInv`: the counts and the register have no lock, so it
  is `spoiled`, not a lock, that keeps a second thread from what one has read
  (`Counted`), and the task that writes a register again does so for a route
  that nobody changes (`Rewrites`).  Its hypothesis, less than `Byte` routes per
  slot, is needed: `ref_count` is a `char` (`transceiver.h:34`) and wraps around with more
  users from one slot, and `route_qty` comes from the board (`transceiver.c:563`)
  without a limit of that size.

Only model-checked:

* everything under fairness, which the prover cannot do: *EveryTaskRuns*,
  *PauseReleases*, *PauseDrains*, *WorkerEnds*, *HungIsReset*, *Settles*,
  *CallsReturn*, *BoardComesUp*, *EmptyIsQuiet*, the liveness half of
  *ImplementsCalls*.  Its safety half is `SlotServesCalls`.

The hypotheses of single theorems (`Commands = {}`, `OneThread`, `TimeoutsFit`, the
bound on routes) are met by the instances of the runs that check the same
properties.

## 6. What is not modelled

`PROJECT.json` names every component with its status.

* Dead code at this commit: the switch of TSoIP inputs and the periodic tasks
  that belong to it (section 2), `posix_shmem.c`, the setters of the thread pool.
* Left for later (section 2): file transfer over SPI, catalogue messages,
  containers, parameters, upgrade, and of `mux/` the PID loops and the
  collection of sections.
* Sequential code whose substance is data: web handlers, menus, the parsing of
  descriptors, the tables of the multiplexer, the registers of TSoIP channels,
  hardware access, time, service tools.
* Vendored libraries (appweb with mbedtls and pcre, readline, sqlite, cJSON,
  character tables), which are most of the lines of the repository and not this
  program.

Of the modelled parts: `get_logs_with_condition`, a first start of the log that
dies half way, the orderly stop of the processes, the transceivers of slot 6 and
of the main board, whose interface is computed, the reading of bit rates, and the text
of descriptions, names and versions.  A process that dies is in `EventLog`, `Supervision`
and `MessageChannel`, not in `SlotBoard`; `TransceiverRoutes` has one of the deaths its own
code causes, that of a route deleted between look and lock; the other, a request to
delete a route that the board no longer has (`transceiver.c:1193`, a null pointer), is
not in it, because its boards keep their routes.

Read while modelling and stated by no property, because no run was spent on
them: `check_spi_transfer_status` never reports an error, and `get_logs_by_sn` with a
number beyond the last returns the oldest records (section 1).  In the models but
contradicting no text of the repository, hence no finding: a reply of length -1 that is
marked as a success, the mutex of `get_logs_asc`, the file lock of a refused read,
`thread_pool_destroy` that never returns, threads of `httpd.bin` that take each other's
replies, a board with the transceivers of another of its sort, routes that a failing
database leaves behind.
