# A TLA+ model of sysSentry

sysSentry is the hardware inspection framework of openEuler: a daemon (`syssentry`)
that runs inspection tasks as child processes, a daemon (`xalarmd`) that carries alarms
between processes and switches kernel events on and off for those who subscribe to
them, the client libraries of both, and a set of plugins. This directory holds TLA+
modules of its concurrent core, configurations that check them with TLC, and proofs
checked with TLAPS. Paths below are relative to the repository; `syssentry/` and
`xalarm/` stand for `src/services/syssentry/` and `src/services/xalarm/`.

## 1. The system

| Part | State it keeps | Operations | What is hard | What makes it correct |
|---|---|---|---|---|
| **syssentry: supervision** (`syssentry/syssentry.py`, `global_values.py`, `cron_process.py`, `callbacks.py`, `heartbeat.py`, `load_mods.py`) | one object per task: `runtime_status`, `pid`, `period_enabled`, `pre_done`, `last_heartbeat`, `last_exec_timestamp`, the contents of its `.mod` file | `sentryctl start/stop/reload`, start at boot, the period loop, heartbeats, `clean_child` | the SIGCHLD handler runs between any two steps of the main thread; signals coalesce; pids are recycled; every command may fail half way; the daemon waits for commands whose exit its own handler reaps | no process of a task escapes; never two unsignalled processes of a task; prepared before started; conflict=down respected; the main loop never stops; a waiting task is run; a stop lasts |
| **syssentry: alarms** (`syssentry/alarm.py`) | a list of alarms per alarm id, the last first | the receiving thread inserts and clears, `sentryctl get_alarm` reads | tasks share an id with different clear times and report as processes of their own; seconds and milliseconds; the list is cut at the first old alarm; a text that is no JSON | the answer is exactly what is in range, but for what an older alarm hides; the list does not grow for ever |
| **xalarmd** (`xalarm/xalarm_server.py`, `xalarm_transfer.py`, `xalarm_events.py`) | `fd_to_socket`, `fd_to_events`, `enabled_events`; the switches under `/proc` | accept and register, clean up, transmit, sysSentry going down | four threads, two locks, and `accept()` under neither; descriptors are reused during a removal; drivers are loaded and unloaded behind its back | the books agree; the limit holds; no event is switched off under a subscriber, and none stays on without one |
| **libxalarm** (`src/libs/libxalarm/register_xalarm.c`) | `g_register_info`; a `struct alarm_register` per handle | register, upgrade, unregister, get event, report | the receiving thread reads what the caller writes, without a lock; descriptors outlive their owner | the callback is not called when it is gone; no descriptor of others is touched; unregister returns |
| **soc_ring_sentry** (`src/sentryPlugins/soc_ring_sentry/tc_ring_one.c`) | a pattern and a flag per NUMA node, the bit under test | create, bind, scan, cancel, join | a thread per core, one barrier, a mutex per node, cancellation | all scan the same prepared bit; the test ends; nothing is released while it is used |
| **sentry_msg_monitor** (`src/sentryPlugins/sentry_msg_monitor/sentry_msg_monitor.c`, `bmc_log_lib.c`) | a sender and a receiver thread, a socket each; the queues of the kernel helper device | report with retries, acknowledge, register again, tell the BMC | each thread cancels the other; a failed get closes a number that is closed again; late and second answers | a message is reported once; the BMC hears what the kernel took, unless that call fails; nobody waits for ever; it registers again |
| sentryCollector | samples per disk, stage and type | read, answer a question | lists shared without a lock | the two lists of a disk stay in step |
| avg_block_io, ai_block_io | windows of latencies | push, judge | partly filled windows | a verdict is about a full window |
| **hbm_online_repair** (`src/sentryPlugins/hbm_online_repair/`) | drivers loaded, a trace instance, records in EFI variables, pages taken out of use | read an event, record, isolate, find the device, repair, bring back, tell the BMC | every call may fail and the process may die anywhere | what the BMC hears is so, though a word may be lost; the budgets hold; only repaired memory comes back |
| cpu_sentry, catlib | a patrol of the kernel | start, poll, stop | a stop between two steps | a stopped patrol stays stopped |
| **bmc_ras_sentry** (`src/sentryPlugins/bmc_ras_sentry/src/`) | the events subscribed to, the BMC's switches it has turned, a query's position | parse, adopt a changed configuration, query page by page, report, stop | three threads; the list moves under a query; a stop between a test and a sleep | no event of a resting list is missed; the switches are put back; a signal ends it |
| pyxalarm, pySentryCollector, pySentryNotify | one connection | register, report, ask | the receiving thread | as libxalarm |
| configuration, protocols, logging, packaging, selftest | | | | |

**How they interact.** `sentryctl` talks to syssentry through a socket that the main
loop serves, one message at a time; tasks send heartbeats through another. Plugins
report alarms with `xalarm_report` to xalarmd, which sends them to every client whose
filter names them; syssentry is such a client. Clients that name kernel events (OOM,
panic, reboot, ...) in their registration make xalarmd write the switches of the
sentry drivers, which the task sentry_msg_monitor loads (`task_pre`) and unloads
(`task_post`). xalarmd watches the state of `sysSentry.service` over D-Bus. When it goes
down, xalarmd forgets what it switched on and tells its clients, and
`xalarm_get_event` fails in them.

PROJECT.json lists every part, what of it is modelled, and under `hazards` forty places
where it is hard to test. The survey noted more, of smaller weight or of parts that are
not modelled: the second RUNNING of `cron_process.py:164`, the interval that a reload
changes under a running task (`load_mods.py:452`), the parsing of heartbeat intervals
(`load_mods.py:134`), a control client that sends half a head (`syssentry.py:301`), a
result of an unexpected JSON type (`syssentry.py:239`), the test of the connection limit without the lock
(`xalarm_transfer.py:98`), a newcomer that sends nothing (`:108`), an alarm sent again from
its first byte after a partial send (`:196`), failed writes of switches
(`xalarm_events.py:207`), a failed registration in pyxalarm (`register_xalarm.py:122`),
partial receives of alarms (`register_xalarm.c:146`), threads of the ring test that cannot
be created (`tc_ring_one.c:455`) or run before they are bound (`:418`), cores that go
offline during it (`:427`), all cores blacklisted (`:279`), a `receiver` that is cancelled
before it is assigned (`sentry_msg_monitor.c:728`), words to the BMC that are lost with a
failing call nobody looks at (`sentry_msg_monitor.c:665`, `non-standard-hbm-repair.c:432`), switches of the BMC left on by a killed plugin
(`cbmcrassentry.cpp:856`), a window list that is tested and then indexed while it changes
(`collect_server.py:99`, `collect_io.py:371`), lines lost before `clear()`
(`collect_io.py:374`), a SIGTERM while the collector starts (`collectd.py:44`), its single
server thread (`collect_server.py:201`), `reach_size` (`avg_block_io.py:157`), a median of a
partly filled window (`sliding_window.py:109`), and the patrol that is waited for without a
limit (`cpu_patrol.c:244`).

## 2. The modules

| Module | What it is |
|---|---|
| `Supervisor` | What syssentry promises of the processes it starts, in 3 actions |
| `RingTest` | What the ring test promises: one bit after the other, scanned by all |
| `Bridge` | What sentry_msg_monitor promises: each message once, in order, one answer, the truth |
| `PageCare` | What hbm_online_repair promises of the memory it takes out of use |
| `SentryDaemon` | syssentry's main thread, SIGCHLD handler, children, operator |
| `Xalarmd` | xalarmd's four threads, its clients, the drivers |
| `LibXalarm` | a process that uses both interfaces of libxalarm |
| `SentryAlarm` | an alarm id, from `xalarm_report` to `get_alarm` |
| `SocRing` | the ring test of soc_ring_sentry |
| `MsgMonitor` | one life of sentry_msg_monitor between the kernel, xalarmd and the BMC |
| `HbmRepair` | hbm_online_repair over any number of lives |
| `BmcRas` | one life of bmc_ras_sentry |
| `MC...` | small instances of each, for TLC |
| `SentryDaemonProofs`, `XalarmdProofs`, ... | the theorems about each, with their proofs; a module extends the one it is about |

The first four are abstract specifications. The module that implements one instantiates it
with a refinement mapping:

| Module | Instance, specification | Mapping |
|---|---|---|
| `SentryDaemon` | `Supervised`, `SupervisedSpec` | the processes of each task that were not signalled |
| `SocRing` | `Test`, `InLockstep` | the threads that have yet to scan the bit: all of them from the choice of the bit to the first scan; the test is off once a thread is cancelled |
| `MsgMonitor` | `Promised`, `Bridged` | `failed` counts the failed reports of a message until xalarmd has it, though the code's counter is cleared one step later |
| `HbmRepair` | `Care`, `Cared` | `Phase`, `Hand` and `Said`: where the request in hand is, its pages, and the words the BMC heard; `missed` is a call of notice_BMC that failed, `blind` is `cut`; nothing of a request outlives the process, the pages and `blind` do |

The components meet through what they do to each other, stated as actions of
the environment: Xalarmd's `SentryDown`, `Load` and `Unload` are what SentryDaemon does
to it, LibXalarm's `Sends` and `Hangs` what Xalarmd does, and Xalarmd's `Client` actions
what LibXalarm does. MsgMonitor is a program on top of LibXalarm's event interface: its
`Keep`, `Drop`, `XalarmdStops` and `SentryDown` are Xalarmd's, its `GetEvent` and
`Unregister` are LibXalarm's, with the numbers of the two sockets kept; HbmRepair and
BmcRas are tasks that SentryDaemon starts again and stops.

### SentryDaemon

`pc` is where the main thread is: in one of the loops of `main_loop()` and
`clean_child()` (onstart, poll, events, period, beat, clean, off), or inside a `start()` or
`stop()`, whose `cur` is the task and whose `caller` the loop it returns to. `proc` is the
process table, `child` what the current call has just spawned. `hbLate` and `due` say
that an interval has passed; `asked` is a history variable, the last answer the
operator got.

| Code | Actions |
|---|---|
| `main_loop` | OnstartTask, Poll, LoopDone, PeriodTask, HeartbeatCheck |
| `task_start`, `task_stop`, `reload_single_mod` | TaskStart, TaskStopIdle, TaskStopRunning, Reload |
| `heartbeat_recv`, `hb_timeout_chk_interval` | HeartbeatRecv, HeartbeatCheck |
| `InspectTask.start`, `PeriodTask.start`, `pre`, `check_conflict`, `load_env_file`, `onstart_handle`, `period_tasks_handle` | StartChecks, RunCommand..., PreOver, ConflictOver, KillOver, StartPopen, StartPopenFails, StartEnvRaises, StartSetPid, StartSetRunning, SetRunningAgain, StartFailed |
| `stop`, `post`, `clean_child` | StopCommand, StopReturn, PostOver, NoPost, CleanTask, CleanTerm |
| `sigchld_handler` | HandlerEnter, HandlerReap, HandlerUnknown, HandlerEmpty |
| the kernel | Exit, IntervalPasses, HeartbeatLate, Terminate |

Points that are easy to miss and are in the model:

- Python runs a signal handler in the main thread before its next step (`MainRuns`),
  once for any number of exits. The handler leaves its loop when `waitpid` returns a
  child no task remembers (HandlerUnknown); the others stay zombies until the next
  SIGCHLD, or until `subprocess` reaps them at the next Popen (`Cleaned`).
- The order in which `waitpid` returns children is any order, and a pid that several
  tasks remember may be found in any of them.
- An OSError of a command or of an env file that has gone is swallowed by
  `except socket.error` when it comes from the control socket, ends `main()` when it
  comes from another loop, and ends `clean_child` itself (`Raise`); the daemon then exits with
  code 0, so that systemd does not start it again.
- `check_conflict` looks in the output of ps for the `task_start` now in force, which a
  reload may have changed since a process was started. A process keeps the text it was
  started with (`cmd`); ps shows it if shlex.split left it as it was (`Plain`), and `Listed`
  is what check_conflict must find, whoever's process it is. It may find more: an editor of
  the file, or any line that contains the text.
- A run_cmd() with several commands is one command; stop commands act when they are
  spawned, on the remembered pid, on all processes of the task, or on none.

### Xalarmd

`kept` is `fd_to_socket`, `subs` is `fd_to_events`, `enabled` is `enabled_events`, `on` are
the switches as they are. Under `event_state_lock` a whole registration or
unregistration is one step (`Register`, `Unregister`). Under `fd_to_socket_lock` each
statement of a removal is a step (`Remove`, `RemovalOrder`), for the conn thread
accepts, and reads registrations, without that lock. The conn thread is `Accept`
(first test of the limit), `Scan("conn")`, `Recheck`, `RecvRegistration / RecvNothing /
RecvTimeout`, `Keep`; the clean thread `Scan("clean")`; transmission of alarms
`Scan("main")`, which finds the broken pipes; the monitor `SentryDown`, `ClearEnabled`,
`Broadcast`. A client connects once; one that comes back is another client.

### LibXalarm

A call of the callback interface is the list of statements it has left (`todo`), the
receiving thread has its own program counter, and descriptors are a table of owners, so
that closing one twice closes whatever is there: xalarm_get_event closes the descriptor
when it fails, and xalarm_unregister_event does it again. `doubled` is a history variable,
that it hit a number somebody had got meanwhile. pyxalarm's class has the same shape and
is not modelled on its own.

### SentryAlarm

Alarms carry a time stamp and the task their text names; a text that is no JSON names none.
Reporters are processes, as the tasks that share an id are; they stamp and send
in two steps, so that one may overtake another. `Read` is what get_alarm_result goes
through, `Raises` that json.loads fails on one of them, whoever's it is, which ends
sysSentry (`Get`), `Answer` what it returns otherwise. `Hidden` says which alarms a
question does not reach. The bounds are `MaxNow` seconds and
`MaxAlarms` alarms.

### SocRing

`Script` is the list of statements a thread executes for one bit, barrier waits included.
The barrier is the set of threads that wait, wherever they wait. A thread may run on any
node until the main thread has bound it (`Where`). `Disturbed` are the reads that the
hardware may spoil. The scan of a space is one step.

### MsgMonitor

`main`, `sender` and `receiver` are where the threads are, `cancelled` those with a
cancellation pending. The kernel's device is `queue`, `waiting` (messages it wants an
answer to) and `accepted` (answers it took). Sockets are numbers in one table `fds`, given
out lowest first: `xalarm_get_event` closes the number it could not read from, and
`xalarm_unregister_event` closes it once more, whatever it is by then (`CloseNumber`;
`crossed` remembers that it was the other thread's). `told` are the words to the BMC,
`untold` those lost because popen or ipmitool failed: nobody looks at what
report_result_to_bmc returns (`TellBmc`).

| Code | Actions |
|---|---|
| `main` | Start, CreateSender, CreateReceiver, Join |
| `sender_thread`, `xalarm_report_event` | SenderOpen, Read, Socket, SendTo, CloseReport (with the retry), SenderEnds |
| `receiver_thread`, `xalarm_register_event`, `xalarm_get_event`, `xalarm_unregister_event` | ReceiverOpen, Connect, SendRegistration, GetEvent, Unregister, Acknowledge, ReceiverEnds |
| `report_result_to_bmc` | TellBmc |
| `pthread_cancel`, the cleanup handlers | Cancel, CancelNobody, SenderCancelled, ReceiverCancelled |
| the kernel, xalarmd, its clients | Raise, TimeOut, Answer, XalarmdStops, XalarmdStarts, Keep, Drop, SentryDown |

There is no cancellation point in the ioctl nor after `pthread_cancel`, and cancelling
a name that is no thread's (`receiver` before it is assigned, a sender already joined) does
nothing or ends the process. `send` without MSG_NOSIGNAL kills the process when xalarmd
has dropped the connection already.

### HbmRepair

`pc` goes through a life of the process: drivers, trace instance, size of the EFI files,
the poll loop, and for a request the record (`flash`, `write`, `seal`), the budget and the
pages (`isolate`, `offline`), the search for a device (`opendir`, `devices`), `query`,
`repair`, `after`, `done`. Every call that changes the kernel's state is a step with a
disjunct in which it fails; `Die` ends the process between any two steps, `StartAgain`
is syssentry's period. `page`, `size`, `mutable`, `loaded`, `tracing` and `ring` are the
kernel's and outlive it; `total` is `flash_total_size`, `told` the calls of `notice_BMC`
for the request in hand, each with its code and whether the BMC heard it. Any of them may
fail, without limit (`Notice`). Three variables are history: `unstated`, the bytes
get_var_size failed to tell; `unsealed`, the variables whose flag could not be set again or
whose write a death cut off; and `cut`, that a request passed the threshold by a
HardwareCorrupted that has more digits than `%5d` reads. The trace buffers are a set of events, a page that was read is `batch`.

| Code | Actions |
|---|---|
| `main`, `handle_all_drivers` | LoadFirst, LoadSecond, UnloadFirst, UnloadLast |
| `toggle_ras_event`, `handle_ras_events`, `read_ras_event_all_cpus` | EnableTrace, Listen, PollSignal, PollFails, ReadPage, DisableTrace |
| `get_flash_total_size`, `write_fault_info_to_flash`, `write_variable` | GetFlashTotalSize, SkipFlash, MakeMutable, WriteVariable, MakeImmutable |
| `hbmc_hbm_page_isolate` | CheckCorrupted, OfflinePage |
| `hbm_repair_handler`, `hbmc_hbm_repair`, `hbmc_hbm_after_repair` | OpenDir, TryDevice, NoDeviceLeft, Query, Repair, ReleasePage, AfterRepair |
| `decode_hisi_common_section` | TakeEvent, Done |

### BmcRas

`main`, `monitor` and `worker` are the three threads, `setter` the one call of
`SetBMCEvents` (main's, later configMonitor's). A configuration is the set of the codes it
subscribes to. `open` is `m_BMCOpenEvents`, cleared and filled under its mutex; `ours` is
`m_BMCBlockIoChange`, `switch` the BMC's own. The worker reads the list by index, a page at a
time, while `ListChanges` may move it; `mutex` is held from the test of `m_running` to the
sleep, so that `Stop` and `Notify` of the main thread cannot fall in between.

## 3. The runs

| Run | Question | Instance, and why it is enough | Distinct states |
|---|---|---|---|
| `daemon_core` | Does a process of a task ever escape the daemon? Does it implement Supervisor? | a oneshot and a period task, 3 recycled pids: two tasks and a command at once, or an old process beside a new one and a command | 2.7 M |
| `daemon_lifecycle` | With pre, post, env file, failing commands, heartbeats, conflict=down and kill, and a task_start that reloads change: is a task ever started unprepared, or beside a process that ps shows with the task_start in force? | one period task, 3 recycled pids, 4 contents of the `.mod` file: as it is, without heartbeat and with another task_start, with kill, with a quoted task_start | 1.95 M |
| `daemon_live` | Does the main loop live, does a waiting task run, does shutdown end, does a stop last? | one period task with pre and post, reloads that disable it, 3 pids, no recycling and no heartbeat (section 6) | 87 k |
| `daemon_exit_lost` | expected violation, section 6 | one task, 2 pids | |
| `xalarm_books` | Do the books agree? Does the limit hold? Is an event ever switched off under a subscriber? | 3 clients, 3 descriptors, 2 places, a switchable and a critical event; failing switches, restarts, drivers that come and go | 760 k |
| `xalarm_live` | Are closed clients dropped, and events nobody wants switched off? | as above with one silent client, without failing writes, restarts, or sysSentry going down (section 6) | 231 k |
| `libx` | Is the callback ever called when it is gone, or a wanted alarm thrown away? Are descriptors respected? Does `xalarm_UnRegister` return? | one handle, which may be unregistered after an error, 2 descriptors, 2 ids, one alarm on its way per connection, upgrades | 1.1 M |
| `alarm_list` | What does `get_alarm` answer, leave out and raise, for every range? Is the list cleared? | 2 reporters, 2 tasks with clear times 1 and 2, alarms that are no JSON, 5 seconds, 4 alarms: each age below, at and above each limit, and each overtaking | 626 k |
| `soc_ring` | Do all threads scan the same prepared bit, end, and leave nothing in use? Does the test implement RingTest? | 3 cores on 2 nodes and a blacklisted one, 3 bits in 2 words, 3 rounds, a core that may fail, threads that cannot be created or bound | 38 k |
| `msg_monitor` | Does the BMC hear what the kernel took? Does the program implement Bridge: no message lost, doubled or out of order? Does anybody wait for ever? Does the bridge come back, and are later messages acknowledged? | a message that is refused, an OOM, and a reboot answered twice; one failing call anywhere, that of ipmitool too, and one stop of xalarmd or sysSentry or a dropped client; 2 numbers | 344 k |
| `hbm_repair` | Is what the BMC hears so? Do both budgets hold? Does the program implement PageCare, over all its lives? Is every event read? | 3 requests out of a row of two pages, a page no device has, cache mode and noise; 2 failing calls or deaths anywhere, and any notice lost; budgets of two pages and of two records; one digit of HardwareCorrupted is read, and two pages and one of the kernel's have two | 369 k |
| `bmc_ras` | Is a query complete? Are the BMC's switches put back? Does the program end in order, and is a lasting event reported? | 2 events of 2 codes, pages of one event, 2 configurations and a bad one, 2 changes of list or file, a failing call | 367 k |

The instances have two of what has to be told apart and one more where reuse matters: a
third pid makes room for a command beside an old and a new process; a third
descriptor lets a newcomer take the number that a removal has just closed while two
clients are kept; a third round lets the special test meet every state the first
left; two answers to one reboot are a late and a timely one in every order; two
failures are one and another while the first is being undone. Symmetry is used for pids, descriptors and clients with the same
wish, and only in runs without liveness.
`CHECK_DEADLOCK FALSE` is set everywhere: daemons end, a test ends, clients connect a
bounded number of times, and clocks are bounded.

Every property of every passing run has a mutant, a definition of the model changed as a
bug in the code would change it, under which TLC finds the property violated
(PROJECT.json, `mutants`; the mutated operators stand before the originals in the modules).

**Fairness.** SentryDaemon: the main thread and the handler go on (they are one Python
thread; `run_cmd` waits only for commands), commands end, intervals pass. Task processes
need not end; requests, heartbeats and signals need not come. A control client is
assumed to finish the message it began, for `recv` on its socket has no time limit.
Xalarmd: the conn thread, a removal under way, and the scan the clean thread makes once a
second; no alarm has to come, clients do as they like. LibXalarm: a call under way and
the receiving thread go on, and the callback returns. SocRing: every thread that can
run does. MsgMonitor: the threads go on where they can, a cancellation is acted upon at the
next cancellation point, xalarmd is started again (`Restart=` of its unit) and reads the
registrations it is sent, and an event that reached xalarmd is answered once; the kernel
need not raise anything. HbmRepair: the process goes on, and syssentry starts it again
while it is wanted. BmcRas: the threads go on, and `Stop` gets the lock that the worker
leaves free for whole intervals (the one strong fairness); lists, files and signals need not
change or come.

## 4. What is proved

For every value of the constants (any tasks, pids, clients, descriptors, messages, cores,
pages, limits and settings of the switches), from the constants' named assumptions, and
where a line says so from one hypothesis more, which the module names and defines:

| Theorem | Says | Hypothesis |
|---|---|---|
| `SentryDaemonProofs!TypeCorrect` | `TypeOK`: statuses are those `set_runtime_status` accepts for the type of the task | |
| `SentryDaemonProofs!TrackedAlways` | `Tracked` | |
| `SentryDaemonProofs!Refinement` | SentryDaemon implements Supervisor | |
| `SentryDaemonProofs!ConflictAlways` | `ConflictRefused` | |
| `SentryDaemonProofs!PreparedAlways` | `PreparedBeforeStart` | |
| `SentryDaemonProofs!StopAlways` | `StopSticks` | `NoMixup` |
| `XalarmdProofs!TypeCorrect` | `TypeOK` | |
| `XalarmdProofs!AccountedAlways` | `Accounted` | |
| `XalarmdProofs!BoundedAlways` | `Bounded` | |
| `XalarmdProofs!ServedAlways` | `SubscriberServed` | |
| `XalarmdProofs!OffAlways` | `OffWhenUnused` | `Undisturbed` |
| `LibXalarmProofs!Invariance` | what each statement of a call finds, `CallInv` | |
| `LibXalarmProofs!CallbackAlways` | `CallbackSafe` | |
| `LibXalarmProofs!DeliveredAlways` | `WantedDelivered` | |
| `LibXalarmProofs!OwnedAlways` | `Owned` | |
| `SentryAlarmProofs!Invariance` | the list is the newest part of what arrived | |
| `SentryAlarmProofs!ClearedAlways` | `Cleared` | |
| `SentryAlarmProofs!CompleteAlways` | `Complete` | |
| `SentryAlarmProofs!NothingHiddenAlone` | `NothingHidden`: no recent alarm is left out | `OneReporter` |
| `SocRingProofs!Invariance` | the threads are in step, `RingInv` | |
| `SocRingProofs!ReleasedAlways` | `ReleasedUnused` | |
| `SocRingProofs!StopsAlways` | `StopsAtFault`: no further bit after a fault | |
| `SocRingProofs!ScanReadyAlways` | `ScanReady` | `Shared` |
| `SocRingProofs!NobodyLeftAlways` | `NobodyLeft`: unless the test is called off, a thread that ends leaves nobody at an earlier barrier | |
| `SocRingProofs!LockstepAlways` | `InLockstep`: SocRing implements RingTest | |
| `MsgMonitorProofs!Invariance` | whose socket is whose, and what each thread works on, `MonitorInv` | |
| `MsgMonitorProofs!TruthAlways` | `BmcTruth` | |
| `MsgMonitorProofs!FateAlways` | `Fate`: a message reaches xalarmd once, or there is a reason | |
| `MsgMonitorProofs!BridgeAlways` | `Bridged`: MsgMonitor implements Bridge | |
| `MsgMonitorProofs!AwakenedAlways` | `Awakened`: a thread that ends has cancelled the other, or is the second to end | |
| `HbmRepairProofs!Invariance` | the handler's variables fit the request in hand, `RepairInv` | |
| `HbmRepairProofs!BackOnlyAlways` | `BackOnlyRepaired`: a page comes back only after a repair | |
| `HbmRepairProofs!IsolationAlways` | `Isolation` | |
| `HbmRepairProofs!ReadableKept` | the threshold is kept, whatever passes | `Readable` |
| `HbmRepairProofs!HonestAlways` | `Honest` | `Distinct` |
| `HbmRepairProofs!CareAlways` | `Cared`: HbmRepair implements PageCare | `Distinct` |
| `HbmRepairProofs!EfiKeptAlways` | `EfiKept` | |
| `BmcRasProofs!Typed` | `TypeOK` | |
| `BmcRasProofs!OrderlyAlways` | `OrderlyEnd` | |
| `BmcRasProofs!BlockIoAlways` | `BlockIo` | |
| `BmcRasProofs!CompleteAlways` | `Complete` | |

**The hypotheses.** Each excludes what makes the property false, not what makes it hard;
section 6 shows what happens without it. `OneReporter` and `Readable` belong to two
theorems that say when an exception of `Complete` and `Isolation` cannot occur; those
properties themselves are proved, and checked, without them.

- `NoMixup`: the kernel hands out no pid that a task still remembers, and period tasks
  have no heartbeat. Else an exit is taken for that of a task stopped meanwhile.
- `Undisturbed`: writes to the switches succeed, sysSentry does not go down, and xalarmd is
  not restarted. Each of them makes xalarmd forget an event that stays on.
- `OneReporter`: the alarms of an id come from one process, hence in the order of their times.
- `Shared`: every node has a core that takes part and is not the last one. A thread is bound
  before the next is created, so that only the last may run elsewhere than it was told.
- `Readable`: page_isolation_threshold, with what the kernel takes out of use itself, has
  no more digits than are read of HardwareCorrupted. The default threshold, 3355443 kB against
  the five digits read, does not satisfy it, and then a request is never refused.
- `Distinct`: an event names no page twice. With a page named twice, "online failed" is
  told although a second try brought the page back, which does no harm.

**SentryDaemon.** `Tracked` says that an unsignalled process of a task is the one the
task object remembers while RUNNING, or the one `start()` is recording. It is not inductive:
a start that found its task RUNNING would lose a process. The inductive invariant is
`TypeOK /\ Control /\ Starting /\ Cleaning /\ Tracked`. `Control` ties the main
thread's locals to where it is. `Starting` says that a task whose `start()` has come past
the checks is not RUNNING: the tests of `task_start`, of oneshot tasks, and of
WAITING in the period loop are what establishes it, and only a `start()` ends it; a
period task that is RUNNING has a timestamp, which keeps the period loop from marking it
EXITED. `Cleaning` says that the tasks `clean_child` has visited have no unsignalled
process. Refinement needs `Tracked` for Supervisor's `Launch` (no other process of
the task) and `Cleaning` for `Close`.

`ConflictRefused` and `PreparedBeforeStart` are about the step that calls Popen, and what
it relies on was found out several steps earlier. `Checked` carries it there: task_pre has
succeeded, and with conflict=down nothing is `Listed`. In between the handler
reaps, processes exit and commands are spawned and end, none of which adds a process of a
task or changes what ps shows of one; `Quieter` says so of the process table, once for all
these steps, and no reload is served before the start is over. For `StopSticks`,
`StopInv` says that a task whose stop succeeded is not WAITING and will not be
made so: whether its process is reaped before or after, `period_enabled` is off while it
is RUNNING (`Stopping`), and a process that is not reaped belongs to a RUNNING task
(`Present`).

**Xalarmd.** `Accounted` needs to know what a removal under way and the conn thread are
doing. The inductive invariant is `TypeOK /\ ConnThreadOK /\ MetOnce /\ Removing /\
Accounted /\ Served /\ Room`. `ConnThreadOK`: the newcomer has a descriptor nobody else
keeps, with no events before its registration was read. `MetOnce`: a client is accepted
once, and neither descriptors nor clients are in the books twice. `Removing`: the
descriptors being removed are kept, their clients have closed, and exactly between "close"
and "delete" the descriptor may be another client's already; that the subscription is
discarded before the close is what saves the newcomer's. `Served`: what a
subscriber wants is on the books, hence `StillNeeded` protects it. `Room`: between the
test of the limit and `Keep` nobody else keeps a client. `OffWhenUnused` follows from
`Known`: what is on is in `enabled_events`, while a driver is there.

**LibXalarm.** A call's remaining statements are what its earlier ones left to do, so
the invariant lists what a call finds at each of them (`Control`, one disjunct
per point of a call: `Resting`, `Reg5Finds`, ...). `CallbackSafe` and `WantedDelivered` follow
from it directly: while the thread exists the callback is set. `Owned` needs besides that a
registered handle's number is a descriptor (`HasFd`), whoever's, also after an error. Who
owns what (`Kept`) is inductive up to the step that sets `doubled`: a failed get closes a
number that is the handle's, and the unregistration after it one that is free, or
`doubled` is set.

**SentryAlarm.** `ListInv`: the list is the beginning of what arrived, within a clear
time of the last arrival; no alarm is ahead of the clock (`AlarmInv`). That is `Cleared`, for
any order of arrival. `LostInv` says that the first alarm that was cut off is too old for any
range. Both together give `ReadsRecent`: what is read is the beginning of what arrived, all
of it is recent, and the first alarm that is not read is not. Hence an alarm is read if and
only if none before it, nor itself, is too old for the range; and a recent one behind one
that is not has overtaken it (`Hidden`), for it has the later time and arrived before. What is
answered is then a matter of places: the list that was read and the list of what arrived
agree as far as the first goes, so that the alarms of a task stand at the same places of both
(`Part`), and json.loads meets a text that is no JSON exactly if one stands there. With one
reporter `OrderInv` carries the order of the stamps through the socket to the list, and
nothing is hidden.

**SocRing.** `RingInv` is the argument for a barrier: no thread is more than one
stretch of `Script` away from another (`InStep`), threads are created in the order of their
cores (`Started`), those that are joined have ended (`Ended`), and whoever is about to
choose a bit has seen the verdicts of all (`Quiet`). `ReleasedUnused` and `StopsAtFault`
follow. For `ScanReady`, `Located` says that a bound thread is on its node, and `Flags` what
the flag of a node means in each stretch; `Shared` is what makes some bound thread visit
each node.

That the threads end together is not in `RingInv`, for each counts its rounds on its own.
`EndInv` adds `Agree`: counted from the next verdict, the counts are alike. `LastTest`
follows: when one thread has ended every other is past the choice of a bit and will end at
its verdict, and unless somebody was cancelled it is there already (`NobodyLeft`). With
`Calm` (no fault is known before the pattern is set) and `Told` (only a main thread that
cancels has cancelled, and it reports once) each step maps to one of RingTest: the choice of
a bit to `Choose`, the scan to `Scan`, a last verdict and a death by cancellation to `End`,
`Cancel` to `CallOff`, and main's last step to `Report`; everything between is a stutter.

**MsgMonitor.** `Held` says whose socket a number is, `InHand` what each thread has in
hand, `Born` which threads there are yet. `BmcTruth` needs to follow an answer: the kernel
takes one for each message (`OneAnswer`), and one that it took is told, or lost with the call that
was to tell it (`Missed`), or is about to be (`Pending`), one of them only (`ToldOf`). `FateInv` partitions the messages: not read yet
(`Unseen`), in hand with as many failures as tries (`Underway`), and settled (`Done`).

Bridge needs two facts more. `InOrder`: the messages raised are the first ones of the
kernel's order, the queue is the end of them, and the message in hand stands just before the
queue; hence all earlier ones are `Done` when its turn comes. `Heard`: an answer on its way to
the kernel is to a message that xalarmd got. Then `Read` and `Socket` stutter, `SendTo` is
`Deliver` if it gets through, `CloseReport` is `Fail` if the report did not, `Acknowledge` is
`Accept` if the kernel takes the answer, `TellBmc` is `Tell` or, if it fails, `Miss`.

`Awakened` is what makes the end of a thread the end of the program:
`Calls` says who may have cancelled whom, and that a receiver ends only with the sender ended
or cancelled. It is the safety part of `EndsTogether`.

**HbmRepair.** `Handled`: the loops stay within the request. `Taken`: from the last
`offline_page` until a repair succeeds none of the pages is in use, which is what
`BackOnlyRepaired` rests on. `Silent`: the BMC is told nothing before the end, unless the device
that has the address said -ENXIO, and that device is not asked again. `Isolation` needs
`Room` (what is still to be taken out of use was counted by `CheckCorrupted`, unless the
number was cut), `Honest` needs `Released` (`bad` says whether a page did not come back) and
`SoFar` (what was told of a first device is still so at the end). None of them asks whether
a notice was heard. Die and StartAgain
are steps like any other: all of it holds over any number of lives.

`EfiKept` is two invariants. `SealedInv`: a mutable variable is the one being written, or
`unsealed` names it; only a flag that cannot be set and a death put one there. `FlashInv`: the program's `total` falls short of the sum of the files' sizes
by no more than their attributes and what it was not told, and a record is written only
where the sum leaves room. The sum is stated as the number of bytes of the files, each byte a
pair of its file and its place (`Bytes`): a write adds a set of pairs, and cardinalities of
disjoint sets add up without an induction over the files.

For PageCare, `CareInv` is the invariants of `Isolation` and `Honest` together, with the
hypothesis of the latter. Each handler step is one of its actions:
`CheckCorrupted` is `Begin` or `Refuse`, `OfflinePage` is `TakeOut`, the search for a device
stutters or is `GiveUp` of no page with a word to the BMC, `Repair` is `Repaired` if it
succeeds, `ReleasePage` is `Return` or `GiveUp` as the repair went, `Done` and `Die`
are `End`. That pages are all out of use when one of them is given up, and that nothing was
told before a repair, is what `Taken` and `Silent` say.

**BmcRas.** `OrderlyEnd`: the worker holds `m_mutex` from the test of `m_running` to the
sleep (`SleepInv`), and one result is told whichever thread ends first (`ResultInv`).
`BlockIo`: `SetBMCEvents` has one caller at a time (`CallerInv`), and a switch that is on was
on before or is remembered as ours (`Remembered`), so that `Right` holds for the kinds of
disks it has come to. `Complete`: while the list stays as it is, each event before `index` was passed
on once (`Counted`), and the page is what comes next (`PageNext`).

All these invariants were checked with TLC on the runs' instances before they were proved.

**Only model-checked**: liveness, which is out of the prover's reach. That is `MainLoopLives`,
`WaitingRuns`, `ShutdownEnds`, `ClosedAreDropped`, `UnRegisterReturns`, `TestEnds`,
`EndsTogether`, `Recovered`, `Answered`, `EventRead`, `Ends` and `Reported`. Every other
property of the passing runs has its theorem.

## 5. What is not modelled

- Of the modelled parts: parsing and validation of `.mod` files and of messages,
  `result_info`, log and pid files, contents of alarms and the filter that selects their
  receivers, byte streams (a partial send of an alarm to a slow client, a partial receive),
  `xalarm_Report` and the like, which keep no state, calls made from inside the callback,
  hotplug of cores, the tables with which hbm_online_repair decodes an event and
  bmc_ras_sentry decorates an alarm.
- sentryCollector. Its threads share lists without a lock, and what one would want of
  them does not hold: the server tests the length of a list and indexes it while the
  collecting thread has popped and not yet inserted (`collect_server.py:99`); the updating
  thread pops and appends a window while the appending thread asks whether it has two members, and
  that thread then returns for good (`collect_io.py:371`, `:403`). What is left, lists
  that grow no further than `max_save`, is a guard of the code.
- avg_block_io, ai_block_io, cpu_sentry and catlib: sequential computations and
  pipelines of programs; the patrol of the kernel itself is not in the repository.
- xalarmd's configuration, the D-Bus and signal handling around it, libsentry's loops
  around read, write, send and recv, packaging, and the self tests.
- 242 034 of the repository's 252 552 lines of C, the two `vmlinux_*.h` of the eBPF
  collector, are generated descriptions of kernel types.

## 6. Divergences

Where a document, a comment or a name promises what the code does not do. One has a run
of its own, whose counterexample is the evidence, `daemon_exit_lost`: a task process that
exits before `start()` recorded its pid stays RUNNING for ever (`global_values.py:179`).
sentryctl start refuses a RUNNING task, and a stop does not change that: `InspectTask.stop`
sets no status, and `PeriodTask.stop` (`cron_process.py:50`) sets EXITED only if the task is
not RUNNING. A heartbeat timeout ends it, if the task has a heartbeat, or a restart of the
daemon. The others can be seen by changing a constant or the property as the second column
says:

| Property | Change | What happens |
|---|---|---|
| `TimeoutNeedsHeartbeat` | `daemon_lifecycle` | A reload that switches the heartbeat off makes the interval -1, and `hb_timeout_chk_interval` (`heartbeat.py:38`) fails the task at once |
| `StoppedIsPosted` | `daemon_live` | stop of a WAITING task sets EXITED (`callbacks.py:87`): no `task_post`, `period_enabled` stays set |
| `StopSticks` | `daemon_lifecycle`, RunFails and PidReuse FALSE | a process that outlived its heartbeat exits after the operator's stop (`callbacks.py:86`), the handler sees `period_enabled` and makes it WAITING |
| `StopSticks` | `daemon_core` | the same through a recycled pid: the exit of another process |
| `ConflictRefused`, with the conclusion `Instances(t) = {}` | `daemon_lifecycle` | a reload changes task_start (`load_mods.py:449`), a heartbeat timeout fails the task, and check_conflict, which looks for the new text (`global_values.py:231`), lets it start beside the old process; `docs/zh/master/developer_guide.md:56` promises that "down" refuses |
| the same, for `conf[t].cmd \notin Plain` | `daemon_lifecycle` | a task_start with quotes is not what ps shows of the process, for Popen gets it split: no conflict is ever found |
| `OffWhenUnused` | `xalarm_live`, SentryStops TRUE | sysSentry fails, nobody runs `task_post`, the drivers stay loaded, and `clear_enabled_events_state` (`xalarm_events.py:291`) forgets what is on (or a client that registers meanwhile has them loaded) |
| `OffWhenUnused` | `xalarm_live`, Restarts TRUE | `enabled_events` is not kept over a restart of xalarmd, and the switches stay as they are |
| `OffWhenUnused` | `xalarm_live`, SwitchFails TRUE | `disable_event` takes a failed write for success (`xalarm_events.py:207`) |
| `AllTold` | `xalarm_live`, SentryStops TRUE | a client registered but not yet kept is not told (`xalarm_server.py:168`) |
| `RegisteredStays` | `xalarm_live` | a client whose register call returned is dropped when the server is full or it is slow or silent (`xalarm_transfer.py:119`) |
| `WantedDelivered` | `libx`, `Wanted` without the exception of "set" | `set_alarm_id` clears the bitmap before it fills it (`register_xalarm.c:180`): a wanted alarm is dropped |
| `Owned` | `libx`, without `doubled` | after an error `xalarm_get_event` has closed the descriptor, and the `xalarm_unregister_event` that `docs/zh/master/developer_guide.md:275` advises closes it again (`register_xalarm.c:818`), by then perhaps a file of the rest of the program |
| `Complete` | `alarm_list`, without `Hidden` | the list is in the order of arrival, and its reading ends at the first old time stamp (`alarm.py:152`): a recent alarm that overtook that one is not shown |
| `Survives` | `alarm_list` | an alarm whose text is no JSON makes `get_alarm` raise (`alarm.py:176`), and sysSentry ends |
| `PatternReady` | `soc_ring`, AloneLast for NodeOf, NCores 2, Skipped {}, LoopCnt 2, NoFault, CreateFails FALSE | the last thread, alone on its node, may prepare one node and scan another, because it is bound to its core after it was created (`tc_ring_one.c:418`), against the comment at `:604`: a fault is reported that is none |
| `(mainPc = "cancel") ~> (mainPc = "done")` | `soc_ring` | when a thread cannot be created the others wait at a barrier nobody fills, which is no cancellation point, and `pthread_join` (`tc_ring_one.c:455`) does not return |
| `Recovered` | `msg_monitor`, without `crossed` | the number that was closed twice (`sentry_msg_monitor.c:632`) was the sender's socket: the receiver registers under a number the sender closes, or reads the sender's socket for ever |
| `EndsTogether` | `msg_monitor`, without `receiver # "none"` | a sender that fails at once cancels a `receiver` that is not assigned yet (`sentry_msg_monitor.c:728`); main joins it and waits for the receiver, which lives on alone: no message is reported any more |
| `BmcTruth` | `msg_monitor`, without `untold` | popen or ipmitool fails, `report_result_to_bmc` says so (`bmc_log_lib.c:154`) and nobody looks (`sentry_msg_monitor.c:665`, `:674`): the BMC never hears of a success the kernel took |
| `pc = "done" /\ Flat => \E k \in DOMAIN told : told[k].heard` | `hbm_repair` | notice_BMC fails at its socket, connect or write (`non-standard-hbm-repair.c:432`, `:446`, `:500`), and no caller looks: the BMC hears nothing of the request, although its pages are out of use |
| `Isolation` | `hbm_repair`, without `cut` | `%5d` reads five digits of HardwareCorrupted (`non-standard-hbm-repair.c:402`); the default threshold has seven (`hbm_online_repair.c:19`), so that it refuses no request at all |
| `ToldOnce` with 1 for 2 | `hbm_repair` | -ENXIO of the repair itself reads like that of the query (`non-standard-hbm-repair.c:712`): the search goes on and the BMC is told twice |

Two more are visible in the modules' actions without a property of their own:
`handle_all_drivers` returns at the first driver that fails (`hbm_online_repair.c:93`), so
that hisi_mem_ras stays loaded when page_eject cannot be (HbmRepair, `LoadSecond`); and a
killed bmc_ras_sentry leaves the BMC's switches on, which its next life takes for someone
else's and never puts back (`cbmcrassentry.cpp:856`; BmcRas, `Marks`).

Where a run leaves such a case out (heartbeats in `daemon_live`, SentryStops in
`xalarm_live`), or a property names an exception (`crossed`, `doubled`, `Hidden`, `cut`,
`untold`, `receiver # "none"`, the half of set_alarm_id), it is because the property does not
hold there; the table says so rather than the run. The exceptions `doubled`, `Hidden`, `cut`
and `untold` are exact: the run reaches them, and short of them the property is proved.
SocRing further assumes that the last thread's node has another thread, that some core takes
part, and that no core goes offline.

## 7. The plan

Done: SentryDaemon with Supervisor, Xalarmd, LibXalarm, SentryAlarm, SocRing, MsgMonitor,
HbmRepair and BmcRas; the proof of every safety property and action property that the
runs check; the abstract specifications Supervisor, RingTest, Bridge and PageCare, each
with its refinement checked and proved. Left:

1. Proofs: an abstract specification of BmcRas, an event list that is passed on once
   (`Complete`), with its refinement.
2. `CpuPatrol` (cpu_patrol.c, cpu_sentry.py): a stopped patrol stays stopped, unless the stop
   falls between the test of the flag and the start (`cpu_patrol.c:237`).
3. `AlarmStream` (partial sends and receives), `ModConf` (the conversions of load_mods.py), the
   windows of avg_block_io and ai_block_io as folds.
