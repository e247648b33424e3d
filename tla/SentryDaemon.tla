---------------------------- MODULE SentryDaemon ----------------------------
(***************************************************************************)
(* The supervision core of the sysSentry daemon: the main thread of        *)
(* syssentry.py with the task objects of global_values.py (oneshot) and    *)
(* cron_process.py (period), the request handlers of callbacks.py, the     *)
(* heartbeat checks of heartbeat.py, and the SIGCHLD handler.              *)
(*                                                                         *)
(* The main thread is sequential, but two things interleave with it:       *)
(*   - children exit at any moment, also while a start() is half done;     *)
(*   - Python runs sigchld_handler in the main thread, between any two of  *)
(*     its steps, once for any number of exits that happened meanwhile.    *)
(*                                                                         *)
(* What the model leaves out: result_info, log files, the bytes on the     *)
(* sockets, and of the command lines everything but task_start, which      *)
(* check_conflict looks for in the output of ps.                           *)
(* A run_cmd() with several commands is one command.  The stop command     *)
(* acts the moment it is spawned.                                          *)
(***************************************************************************)
EXTENDS Integers, FiniteSets

CONSTANTS
  Oneshot,    \* the tasks whose .mod file says type=oneshot
  Period,     \* the tasks whose .mod file says type=period
  HasPre,     \* the tasks with a task_pre command
  HasPost,    \* the tasks with a task_post command
  HasEnv,     \* the tasks with an env_file, which may have gone since it was checked
  Cmds,       \* the texts task_start may have
  Plain,      \* those ps shows of a process that was started with them.  Popen gets what
              \* shlex.split made of the text: one with quotes in it is not shown as it was
  NoCmd,      \* what ps shows of anything else
  Conf,       \* Conf[t]: the contents the .mod file of t may have, at load and at each reload
  Pids,       \* the process identifiers the kernel hands out
  None,       \* owner of a process that is no task's; also "no task"
  PidReuse,   \* TRUE: the kernel may hand out a pid that a task still remembers
  EarlyExit,  \* TRUE: a child may exit before start() has recorded it
  RunFails,   \* TRUE: spawning a task_pre, task_post, ps or kill command may raise OSError
  MayStop     \* TRUE: the daemon may receive SIGTERM or SIGINT

Task == Oneshot \cup Period
NoPid == -1

\* The part of a .mod file that a reload takes over: heartbeat_interval > 0,
\* enabled=yes, onstart, conflict, task_start.
ConfType == [hb : BOOLEAN, enabled : BOOLEAN, onstart : BOOLEAN,
             conflict : {"up", "down", "kill"}, cmd : Cmds]

ASSUME TaskAssumption ==
  /\ Oneshot \cap Period = {}
  /\ None \notin Task
  /\ HasPre \subseteq Task /\ HasPost \subseteq Task /\ HasEnv \subseteq Task
ASSUME ConfAssumption == Conf \in [Task -> (SUBSET ConfType) \ {{}}]
ASSUME CmdAssumption == Plain \subseteq Cmds /\ NoCmd \notin Cmds
ASSUME PidAssumption == NoPid \notin Pids
ASSUME SwitchAssumption ==
  /\ PidReuse \in BOOLEAN /\ EarlyExit \in BOOLEAN
  /\ RunFails \in BOOLEAN /\ MayStop \in BOOLEAN

VARIABLES
  conf,           \* conf[t]: the configuration in force
  status,         \* runtime_status
  pid,            \* pid, -1 before the first start; never reset afterwards
  periodEnabled,  \* period_enabled
  preDone,        \* pre_done
  hbSeen,         \* last_heartbeat > 0
  hbLate,         \* more than heartbeat_interval has passed since last_heartbeat
  ran,            \* last_exec_timestamp # 0
  due,            \* interval has passed since last_exec_timestamp
  proc,           \* the process table: state, owner, whether it was sent SIGTERM, and
                  \* the task_start a task's process was started with
  sigchld,        \* SIGCHLD pending for the Python handler
  inHandler,      \* sigchld_handler is running
  exitFlag,       \* exit_flag
  pc,             \* where the main thread is
  caller,         \* the loop that called the start() or stop() in progress
  cur,            \* the task object whose start() or stop() is in progress
  todo,           \* the tasks the current loop over TasksMap still has to visit
  events,         \* the sockets epoll reported and the loop has not served yet
  child,          \* the process just spawned by start() or run_cmd()
  asked           \* history: the last request the operator was told succeeded

taskVars == <<status, pid, periodEnabled, preDone, hbSeen, hbLate, ran, due>>
sigVars  == <<sigchld, inHandler, exitFlag>>
mainVars == <<pc, caller, cur, todo, events, child>>
vars     == <<conf, taskVars, proc, sigVars, mainVars, asked>>

-----------------------------------------------------------------------------
(* Processes. *)

Free   == [st |-> "free", owner |-> None, termed |-> FALSE, cmd |-> NoCmd]
Zombie == [st |-> "zombie", owner |-> None, termed |-> FALSE, cmd |-> NoCmd]
ProcType == [st : {"free", "live", "zombie"}, owner : Task \cup {None}, termed : BOOLEAN,
             cmd : Cmds \cup {NoCmd}]

IsLive(p) == proc[p].st = "live"

\* The running processes of task t.
Instances(t) == {p \in Pids : IsLive(p) /\ proc[p].owner = t}

\* subprocess._cleanup, which every Popen calls first: it reaps the children
\* whose Popen object was dropped, and tells nobody.
Cleaned == [p \in Pids |-> IF proc[p].st = "zombie" THEN Free ELSE proc[p]]

\* Popen: the new process gets a pid no process has.
CanFork(p) == Cleaned[p].st = "free" /\ (PidReuse \/ \A t \in Task : pid[t] # p)
Spawned(o, p) == [Cleaned EXCEPT ![p] =
                    [st |-> "live", owner |-> o, termed |-> FALSE,
                     cmd |-> IF o = None THEN NoCmd ELSE conf[o].cmd]]

\* Popen raised OSError: no such program, or no process to be had.
ForkFails == proc' = Cleaned

\* The process table P after SIGTERM to the pids in S (os.kill, or a kill
\* command): no process has the pid, or it is a zombie, and nothing happens.
Signalled(P, S) == [p \in Pids |-> IF p \in S /\ P[p].st = "live"
                                   THEN [P[p] EXCEPT !.termed = TRUE]
                                   ELSE P[p]]

-----------------------------------------------------------------------------
(* The main thread. *)

\* Python runs the handler of a pending signal before the next step of the
\* main thread, and the main thread waits while the handler runs.
MainRuns == ~sigchld /\ ~inHandler

At(loc) == pc = loc /\ MainRuns

Stopped == {"EXITED", "FAILED", "NONZERO_EXITED"}
OneshotStatus == {"RUNNING", "EXITED", "NONZERO_EXITED", "FAILED"}
PeriodStatus  == {"RUNNING", "WAITING", "FAILED", "EXITED"}

\* The loops of main_loop() and clean_child(), and the place a start() or
\* stop() called from one of them returns to.
LoopOf(who) == IF who = "control" THEN "events" ELSE who

Call(t, who, loc) == cur' = t /\ caller' = who /\ pc' = loc
Goto(loc) == pc' = loc /\ UNCHANGED <<caller, cur>>
ReturnTo(loc) == pc' = loc /\ cur' = None /\ caller' = "none" /\ child' = NoPid
Return == ReturnTo(LoopOf(caller))

\* start() returned True: onstart_handle() of either class and
\* period_tasks_handle() set RUNNING once more.
StartSucceeded == IF caller = "control" THEN Return ELSE Goto("again") /\ UNCHANGED child

\* An OSError nobody caught.  Served from a socket it ends in the
\* "except socket.error" of main_loop(), which drops the other events; from a
\* loop outside that try it ends main(), whose finally clause runs
\* clean_child(); within clean_child() it ends the process.
Raise ==
  CASE caller = "control" -> ReturnTo("period") /\ events' = {} /\ todo' = Period
    [] caller = "clean"   -> ReturnTo("off") /\ UNCHANGED <<events, todo>>
    [] OTHER              -> ReturnTo("clean") /\ events' = {} /\ todo' = Task

InitialConf == conf \in {c \in [Task -> ConfType] : \A t \in Task : c[t] \in Conf[t]}

Init ==
  /\ InitialConf
  /\ status = [t \in Task |-> IF t \in Period THEN "WAITING" ELSE "EXITED"]
  /\ pid = [t \in Task |-> NoPid]
  /\ periodEnabled = [t \in Task |-> TRUE]
  /\ preDone = [t \in Task |-> FALSE]
  /\ hbSeen = [t \in Task |-> FALSE]
  /\ hbLate = [t \in Task |-> FALSE]
  /\ ran = [t \in Task |-> FALSE]
  /\ due = [t \in Task |-> FALSE]
  /\ proc = [p \in Pids |-> Free]
  /\ sigchld = FALSE /\ inHandler = FALSE /\ exitFlag = FALSE
  /\ pc = "onstart" /\ caller = "none" /\ cur = None
  /\ todo = Task /\ events = {} /\ child = NoPid
  /\ asked = [t \in Task |-> "run"]

-----------------------------------------------------------------------------
(* main_loop(): the start-up loop, and the events of one epoll round. *)

OnstartTask(t) ==
  /\ At("onstart") /\ t \in todo
  /\ todo' = todo \ {t}
  /\ IF conf[t].enabled /\ conf[t].onstart /\ (t \in Period => periodEnabled[t])
     THEN Call(t, "onstart", "start")
     ELSE UNCHANGED <<pc, caller, cur>>
  /\ UNCHANGED <<conf, taskVars, proc, sigVars, events, child, asked>>

\* The end of each loop, and what main_loop() does next.
LoopDone ==
  /\ \/ At("onstart") /\ todo = {} /\ pc' = "poll" /\ todo' = {}
     \/ At("events") /\ events = {} /\ pc' = "period" /\ todo' = Period
     \/ At("period") /\ todo = {} /\ pc' = "beat" /\ todo' = Task
     \/ At("beat") /\ todo = {} /\ pc' = "poll" /\ todo' = {}
     \/ At("clean") /\ todo = {} /\ pc' = "off" /\ todo' = {}
  /\ UNCHANGED <<conf, taskVars, proc, sigVars, caller, cur, events, child, asked>>

Poll ==
  /\ At("poll")
  /\ IF exitFlag
     THEN pc' = "clean" /\ todo' = Task /\ UNCHANGED events
     ELSE /\ pc' = "events" /\ UNCHANGED todo
          /\ events' \in SUBSET {"control", "heartbeat"}
  /\ UNCHANGED <<conf, taskVars, proc, sigVars, caller, cur, child, asked>>

\* One event of kind e is taken off the list.
Serve(e) == At("events") /\ e \in events /\ events' = events \ {e}

\* Mutant of MayStart: task_start without the test for RUNNING.
MayStartAny(t) == conf[t].enabled

\* task_start: enabled, and not running already.
MayStart(t) == conf[t].enabled /\ status[t] # "RUNNING"

\* sentryctl start: refused, or handed to the task.
TaskStart(t) ==
  /\ Serve("control")
  /\ IF MayStart(t)
     THEN Call(t, "control", "start") /\ asked' = [asked EXCEPT ![t] = "run"]
     ELSE UNCHANGED <<pc, caller, cur, asked>>
  /\ UNCHANGED <<conf, taskVars, proc, sigVars, todo, child>>

\* sentryctl stop of a task that is not RUNNING: "task already stopped", or a
\* WAITING task becomes EXITED.  Nothing else is touched.
TaskStopIdle(t) ==
  /\ Serve("control")
  /\ conf[t].enabled => status[t] # "RUNNING"
  /\ IF conf[t].enabled
     THEN /\ status' = [status EXCEPT ![t] = IF @ = "WAITING" THEN "EXITED" ELSE @]
          /\ asked' = [asked EXCEPT ![t] = "stop"]
     ELSE UNCHANGED <<status, asked>>
  /\ UNCHANGED <<conf, pid, periodEnabled, preDone, hbSeen, hbLate, ran, due,
                 proc, sigVars, pc, caller, cur, todo, child>>

\* sentryctl stop of a RUNNING task calls its stop().
TaskStopRunning(t) ==
  /\ Serve("control")
  /\ conf[t].enabled /\ status[t] = "RUNNING"
  /\ periodEnabled' = [periodEnabled EXCEPT ![t] = FALSE]
  /\ Call(t, "control", "stop")
  /\ asked' = [asked EXCEPT ![t] = "stop"]
  /\ UNCHANGED <<conf, status, pid, preDone, hbSeen, hbLate, ran, due,
                 proc, sigVars, todo, child>>

\* sentryctl reload: the file is read again; last_heartbeat, period_enabled, the
\* status and the process stay as they are, under whatever task_start it runs.
Reload(t) ==
  /\ Serve("control")
  /\ \E c \in Conf[t] : conf' = [conf EXCEPT ![t] = c]
  /\ UNCHANGED <<taskVars, proc, sigVars, pc, caller, cur, todo, child, asked>>

\* A heartbeat that names task t.
HeartbeatRecv(t) ==
  /\ Serve("heartbeat")
  /\ IF status[t] = "RUNNING" /\ conf[t].hb
     THEN /\ hbSeen' = [hbSeen EXCEPT ![t] = TRUE]
          /\ hbLate' = [hbLate EXCEPT ![t] = FALSE]
     ELSE UNCHANGED <<hbSeen, hbLate>>
  /\ UNCHANGED <<conf, status, pid, periodEnabled, preDone, ran, due,
                 proc, sigVars, pc, caller, cur, todo, child, asked>>

-----------------------------------------------------------------------------
(* main_loop(): the period and heartbeat loops that end each round. *)

\* Mutant of ReadyToRun: any task that does not run is due again.
ReadyIfNotRunning(t) == status[t] # "RUNNING" /\ (ran[t] => due[t])

\* Mutant of ReadyToRun: the first run needs a timestamp too.
ReadyIfRanBefore(t) == status[t] = "WAITING" /\ ran[t] /\ due[t]

\* A waiting task runs when it never ran, or its interval is over.
ReadyToRun(t) == status[t] = "WAITING" /\ (ran[t] => due[t])

PeriodTask(t) ==
  LET active == conf[t].enabled /\ periodEnabled[t] IN
  /\ At("period") /\ t \in todo
  /\ todo' = todo \ {t}
  /\ IF active /\ ~conf[t].onstart /\ ~ran[t]
     THEN status' = [status EXCEPT ![t] = "EXITED"] /\ UNCHANGED <<pc, caller, cur>>
     ELSE /\ UNCHANGED status
          /\ IF active /\ ReadyToRun(t)
             THEN Call(t, "period", "start")
             ELSE UNCHANGED <<pc, caller, cur>>
  /\ UNCHANGED <<conf, pid, periodEnabled, preDone, hbSeen, hbLate, ran, due,
                 proc, sigVars, events, child, asked>>

\* hb_timeout_chk_interval.  With the heartbeat switched off the interval is -1
\* and every heartbeat ever seen is late.
HeartbeatCheck(t) ==
  /\ At("beat") /\ t \in todo
  /\ todo' = todo \ {t}
  /\ IF status[t] = "RUNNING" /\ hbSeen[t] /\ (conf[t].hb => hbLate[t])
     THEN /\ status' = [status EXCEPT ![t] = "FAILED"]
          /\ proc' = Signalled(proc, {pid[t]})
     ELSE UNCHANGED <<status, proc>>
  /\ UNCHANGED <<conf, pid, periodEnabled, preDone, hbSeen, hbLate, ran, due,
                 sigVars, pc, caller, cur, events, child, asked>>

-----------------------------------------------------------------------------
(* Commands start() and stop() run and wait for: task_pre, task_post, ps and *)
(* kill, all through subprocess.run.                                         *)

WaitLoc(loc) ==
  CASE loc = "start"    -> "prewait"
    [] loc = "conflict" -> "conflictwait"
    [] loc = "kill"     -> "killwait"
    [] loc = "postfail" -> "postfailwait"
    [] loc = "poststop" -> "poststopwait"

\* post() runs after a failed pre() and at the end of stop(); what follows it.
PostLocs == {"postfail", "poststop"}
AfterPost == IF pc \in {"postfail", "postfailwait"} THEN "failed" ELSE "stopped"

\* Mutant of RunsCommand: task_pre runs before the first start only.
RunsPreOnce ==
  \/ pc = "start" /\ cur \in HasPre /\ ~preDone[cur] /\ ~ran[cur]
  \/ pc \in {"conflict", "kill"}
  \/ pc \in PostLocs /\ cur \in HasPost

RunsCommand ==
  \/ pc = "start" /\ cur \in HasPre /\ ~preDone[cur]
  \/ pc \in {"conflict", "kill"}
  \/ pc \in PostLocs /\ cur \in HasPost

\* post() forgets that pre() was done before it runs its commands.
PostForgetsPre ==
  preDone' = IF pc \in PostLocs THEN [preDone EXCEPT ![cur] = FALSE] ELSE preDone

RunCommand ==
  /\ MainRuns /\ RunsCommand
  /\ \E p \in Pids : CanFork(p) /\ proc' = Spawned(None, p) /\ child' = p
  /\ PostForgetsPre
  /\ Goto(WaitLoc(pc))
  /\ UNCHANGED <<conf, status, pid, periodEnabled, hbSeen, hbLate, ran, due,
                 sigVars, todo, events, asked>>

RunCommandRaises ==
  /\ RunFails
  /\ MainRuns /\ RunsCommand
  /\ ForkFails
  /\ PostForgetsPre
  /\ Raise
  /\ UNCHANGED <<conf, status, pid, periodEnabled, hbSeen, hbLate, ran, due, sigVars, asked>>

\* Mutant of CommandOver: run() insists on reaping the command itself.
CommandReapedHere(loc) ==
  /\ pc = loc /\ ~inHandler
  /\ proc[child].st = "zombie"
  /\ child' = NoPid

\* The command is over: run() reaped it itself, or the SIGCHLD handler did and
\* the wait found no such child.
CommandOver(loc) ==
  /\ pc = loc /\ ~inHandler
  /\ ~IsLive(child)
  /\ proc[child].st = "free" => ~sigchld
  /\ child' = NoPid

Reaped == [proc EXCEPT ![child] = Free]

PreOver ==
  /\ CommandOver("prewait")
  /\ proc' = Reaped
  /\ \/ /\ preDone' = [preDone EXCEPT ![cur] = TRUE]
        /\ Goto("start") /\ UNCHANGED status
     \/ /\ status' = [status EXCEPT ![cur] = "FAILED"]   \* it wrote to stderr
        /\ Goto("postfail") /\ UNCHANGED preDone
  /\ UNCHANGED <<conf, pid, periodEnabled, hbSeen, hbLate, ran, due,
                 sigVars, todo, events, asked>>

PostOver ==
  /\ CommandOver("postfailwait") \/ CommandOver("poststopwait")
  /\ proc' = Reaped
  /\ Goto(AfterPost)
  /\ UNCHANGED <<conf, taskVars, sigVars, todo, events, asked>>

NoPost ==
  /\ MainRuns /\ pc \in PostLocs /\ cur \notin HasPost
  /\ Goto(AfterPost)
  /\ UNCHANGED <<conf, taskVars, proc, sigVars, todo, events, child, asked>>

\* Mutant of Listed: a process that was sent SIGTERM is taken to be gone.
ListedUnsignalled(t) ==
  {p \in Pids : /\ IsLive(p) /\ ~proc[p].termed
                /\ conf[t].cmd \in Plain /\ proc[p].cmd = conf[t].cmd}

\* The processes, of any task, that ps shows with the task_start now in force.
Listed(t) ==
  {p \in Pids : IsLive(p) /\ conf[t].cmd \in Plain /\ proc[p].cmd = conf[t].cmd}

\* check_conflict: ps lists these, and maybe others whose command line merely
\* contains task_start.  A process started before a reload changed it may be missed.
ConflictOver ==
  /\ CommandOver("conflictwait")
  /\ proc' = Reaped
  /\ \E listed \in BOOLEAN :
       /\ Listed(cur) # {} => listed
       /\ Goto(CASE ~listed -> "popen"
                 [] listed /\ conf[cur].conflict = "kill" -> "kill"
                 [] OTHER -> "failed")
  /\ UNCHANGED <<conf, taskVars, sigVars, todo, events, asked>>

\* The kill commands of conflict=kill sent SIGTERM to what ps listed; nobody waits
\* for its effect.
KillOver ==
  /\ CommandOver("killwait")
  /\ \E S \in SUBSET {p \in Pids : proc[p].owner # None} :
       /\ Listed(cur) \subseteq S
       /\ proc' = [Signalled(proc, S) EXCEPT ![child] = Free]
  /\ Goto("popen")
  /\ UNCHANGED <<conf, taskVars, sigVars, todo, events, asked>>

-----------------------------------------------------------------------------
(* start() *)

StartChecks ==
  /\ At("start") /\ ~RunsCommand
  /\ periodEnabled' = [periodEnabled EXCEPT ![cur] = TRUE]
  /\ IF cur \in Oneshot /\ status[cur] \notin Stopped
     THEN StartSucceeded       \* "task is running, please wait to finish"
     ELSE /\ Goto(IF conf[cur].conflict = "up" THEN "popen" ELSE "conflict")
          /\ UNCHANGED child
  /\ UNCHANGED <<conf, status, pid, preDone, hbSeen, hbLate, ran, due,
                 proc, sigVars, todo, events, asked>>

\* upgrade_period_timestamp, which PeriodTask.start runs whether Popen raised or not.
UpgradeTimestamp ==
  /\ ran' = IF cur \in Period THEN [ran EXCEPT ![cur] = TRUE] ELSE ran
  /\ due' = IF cur \in Period THEN [due EXCEPT ![cur] = FALSE] ELSE due

StartPopen ==
  /\ At("popen")
  /\ \E p \in Pids : CanFork(p) /\ proc' = Spawned(cur, p) /\ child' = p
  /\ UpgradeTimestamp
  /\ Goto("setpid")
  /\ UNCHANGED <<conf, status, pid, periodEnabled, preDone, hbSeen, hbLate,
                 sigVars, todo, events, asked>>

StartPopenFails ==
  /\ At("popen")
  /\ ForkFails
  /\ UpgradeTimestamp
  /\ status' = [status EXCEPT ![cur] = "FAILED"]
  /\ Goto("failed")
  /\ UNCHANGED <<conf, pid, periodEnabled, preDone, hbSeen, hbLate,
                 sigVars, todo, events, child, asked>>

\* load_env_file opens a file that was there when the .mod file was read.
StartEnvRaises ==
  /\ At("popen") /\ cur \in HasEnv
  /\ Raise
  /\ UNCHANGED <<conf, taskVars, proc, sigVars, asked>>

StartSetPid ==
  /\ At("setpid")
  /\ pid' = [pid EXCEPT ![cur] = child]
  /\ Goto("setrun")
  /\ UNCHANGED <<conf, status, periodEnabled, preDone, hbSeen, hbLate, ran, due,
                 proc, sigVars, todo, events, child, asked>>

\* The Popen object dies when start() returns; its __del__ reaps a zombie.
StartSetRunning ==
  /\ At("setrun")
  /\ status' = [status EXCEPT ![cur] = "RUNNING"]
  /\ hbSeen' = IF conf[cur].hb THEN [hbSeen EXCEPT ![cur] = TRUE] ELSE hbSeen
  /\ hbLate' = IF conf[cur].hb THEN [hbLate EXCEPT ![cur] = FALSE] ELSE hbLate
  /\ proc' = [proc EXCEPT ![child] = IF @.st = "zombie" THEN Free ELSE @]
  /\ StartSucceeded
  /\ UNCHANGED <<conf, pid, periodEnabled, preDone, ran, due,
                 sigVars, todo, events, asked>>

\* onstart_handle() and period_tasks_handle() repeat what start() did.
SetRunningAgain ==
  /\ At("again")
  /\ status' = [status EXCEPT ![cur] = "RUNNING"]
  /\ Return
  /\ UNCHANGED <<conf, pid, periodEnabled, preDone, hbSeen, hbLate, ran, due,
                 proc, sigVars, todo, events, asked>>

StartFailed ==
  /\ At("failed")
  /\ Return
  /\ UNCHANGED <<conf, taskVars, proc, sigVars, todo, events, asked>>

-----------------------------------------------------------------------------
(* stop() *)

\* InspectTask.stop does something only when RUNNING, PeriodTask.stop always:
\* the stop command may use $pid, or find the task's processes by name, or miss.
StopCommand ==
  /\ At("stop")
  /\ IF cur \in Period \/ status[cur] = "RUNNING"
     THEN /\ Goto("poststop")
          /\ \/ \E p \in Pids, S \in {{}, {pid[cur]}, Instances(cur)} :
                  CanFork(p) /\ proc' = Signalled(Spawned(None, p), S)
             \/ ForkFails
     ELSE Goto("stopped") /\ UNCHANGED proc
  /\ UNCHANGED <<conf, taskVars, sigVars, todo, events, child, asked>>

StopReturn ==
  /\ At("stopped")
  /\ status' = IF cur \in Period /\ status[cur] # "RUNNING"
               THEN [status EXCEPT ![cur] = "EXITED"] ELSE status
  /\ IF caller = "clean" THEN Goto("term") /\ UNCHANGED child ELSE Return
  /\ UNCHANGED <<conf, pid, periodEnabled, preDone, hbSeen, hbLate, ran, due,
                 proc, sigVars, todo, events, asked>>

\* clean_child: stop(), then SIGTERM to the recorded pid.
CleanTask(t) ==
  /\ At("clean") /\ t \in todo
  /\ periodEnabled' = [periodEnabled EXCEPT ![t] = FALSE]
  /\ Call(t, "clean", "stop")
  /\ UNCHANGED <<conf, status, pid, preDone, hbSeen, hbLate, ran, due,
                 proc, sigVars, todo, events, child, asked>>

\* Mutant of KillTarget: clean_child relies on the stop command alone.
KillNobody(t) == {}

\* Whom os.kill(task.pid, SIGTERM) is meant for.
KillTarget(t) == {pid[t]}

CleanTerm ==
  /\ At("term")
  /\ proc' = Signalled(proc, KillTarget(cur))
  /\ todo' = todo \ {cur}
  /\ Return
  /\ UNCHANGED <<conf, taskVars, sigVars, events, asked>>

-----------------------------------------------------------------------------
(* Signals, exits and time. *)

\* start() holds the process it spawned and has not finished recording it.
Recording == pc \in {"setpid", "setrun", "again"}

Exit(p) ==
  /\ IsLive(p)
  /\ Recording /\ p = child => EarlyExit
  /\ proc' = [proc EXCEPT ![p] = Zombie]
  /\ sigchld' = TRUE
  /\ UNCHANGED <<conf, taskVars, inHandler, exitFlag, mainVars, asked>>

HandlerEnter ==
  /\ sigchld /\ ~inHandler
  /\ sigchld' = FALSE /\ inHandler' = TRUE
  /\ UNCHANGED <<conf, taskVars, proc, exitFlag, mainVars, asked>>

\* Mutant of ExitStatus: the exit of any task is treated as a period task's.
ExitStatusUntyped(t) ==
  IF periodEnabled[t] THEN {"WAITING"} ELSE {"EXITED", "FAILED"}

\* What sigchld_handler makes of the exit of t's process.
ExitStatus(t) ==
  CASE t \in Period /\ periodEnabled[t]  -> {"WAITING"}
    [] t \in Period /\ ~periodEnabled[t] -> {"EXITED", "FAILED"}
    [] OTHER -> {"EXITED", "NONZERO_EXITED", "FAILED"}

\* waitpid returned p, and get_task_by_pid found a task that remembers p.
HandlerReap(p, t) ==
  /\ inHandler /\ proc[p].st = "zombie" /\ pid[t] = p
  /\ proc' = [proc EXCEPT ![p] = Free]
  /\ \E s \in ExitStatus(t) : status' = [status EXCEPT ![t] = s]
  /\ UNCHANGED <<conf, pid, periodEnabled, preDone, hbSeen, hbLate, ran, due,
                 sigVars, mainVars, asked>>

\* waitpid returned a child no task remembers: the handler leaves its loop.
HandlerUnknown(p) ==
  /\ inHandler /\ proc[p].st = "zombie" /\ \A t \in Task : pid[t] # p
  /\ proc' = [proc EXCEPT ![p] = Free]
  /\ inHandler' = FALSE
  /\ UNCHANGED <<conf, taskVars, sigchld, exitFlag, mainVars, asked>>

HandlerEmpty ==
  /\ inHandler /\ \A p \in Pids : proc[p].st # "zombie"
  /\ inHandler' = FALSE
  /\ UNCHANGED <<conf, taskVars, proc, sigchld, exitFlag, mainVars, asked>>

Terminate ==
  /\ MayStop /\ ~exitFlag
  /\ exitFlag' = TRUE
  /\ UNCHANGED <<conf, taskVars, proc, sigchld, inHandler, mainVars, asked>>

IntervalPasses(t) ==
  /\ ran[t] /\ ~due[t]
  /\ due' = [due EXCEPT ![t] = TRUE]
  /\ UNCHANGED <<conf, status, pid, periodEnabled, preDone, hbSeen, hbLate, ran,
                 proc, sigVars, mainVars, asked>>

HeartbeatLate(t) ==
  /\ hbSeen[t] /\ ~hbLate[t]
  /\ hbLate' = [hbLate EXCEPT ![t] = TRUE]
  /\ UNCHANGED <<conf, status, pid, periodEnabled, preDone, hbSeen, ran, due,
                 proc, sigVars, mainVars, asked>>

-----------------------------------------------------------------------------

Dispatch(t) == \/ OnstartTask(t) \/ TaskStart(t) \/ TaskStopIdle(t) \/ TaskStopRunning(t)
               \/ Reload(t) \/ HeartbeatRecv(t)
               \/ HeartbeatCheck(t) \/ CleanTask(t)

StartStep == \/ RunCommand \/ RunCommandRaises
             \/ PreOver \/ PostOver \/ NoPost \/ ConflictOver \/ KillOver
             \/ StartChecks \/ StartPopen \/ StartPopenFails \/ StartEnvRaises
             \/ StartSetPid \/ StartSetRunning \/ SetRunningAgain \/ StartFailed

StopStep == StopCommand \/ StopReturn \/ CleanTerm

MainStep == \/ Poll \/ LoopDone
            \/ \E t \in Task : Dispatch(t)
            \/ \E t \in Period : PeriodTask(t)
            \/ StartStep \/ StopStep

HandlerStep == \/ HandlerEnter \/ HandlerEmpty
               \/ \E p \in Pids : HandlerUnknown(p) \/ \E t \in Task : HandlerReap(p, t)

Environment == \/ \E p \in Pids : Exit(p)
               \/ Terminate
               \/ \E t \in Task : IntervalPasses(t) \/ HeartbeatLate(t)

Next == MainStep \/ HandlerStep \/ Environment

Spec == Init /\ [][Next]_vars

\* Fairness.  The main thread and the handler run when they can.  Commands that
\* run_cmd() or stop() spawned come to an end.  Intervals pass.  No task process
\* is bound to end, and no request, heartbeat or signal is bound to come.
Fairness ==
  /\ WF_vars(MainStep) /\ WF_vars(HandlerStep)
  /\ \A p \in Pids : WF_vars(proc[p].owner = None /\ Exit(p))
  /\ \A t \in Task : WF_vars(IntervalPasses(t))

FairSpec == Spec /\ Fairness

-----------------------------------------------------------------------------
(* Properties. *)

Callers == {"onstart", "control", "period", "clean"}
StartLocs == {"start", "conflict", "kill", "popen", "setpid", "setrun", "again",
              "postfail", "failed", "prewait", "conflictwait", "killwait", "postfailwait"}
StopLocs == {"stop", "poststop", "poststopwait", "stopped", "term"}
LoopLocs == {"onstart", "poll", "events", "period", "beat", "clean", "off"}
WaitLocs == {"prewait", "conflictwait", "killwait", "postfailwait", "poststopwait"}

\* Type correctness; each runtime_status is one that set_runtime_status accepts
\* for the type of its task.
TypeOK ==
  /\ conf \in [Task -> ConfType]
  /\ status \in [Task -> OneshotStatus \cup PeriodStatus]
  /\ \A t \in Oneshot : status[t] \in OneshotStatus
  /\ \A t \in Period : status[t] \in PeriodStatus
  /\ pid \in [Task -> Pids \cup {NoPid}]
  /\ periodEnabled \in [Task -> BOOLEAN] /\ preDone \in [Task -> BOOLEAN]
  /\ hbSeen \in [Task -> BOOLEAN] /\ hbLate \in [Task -> BOOLEAN]
  /\ ran \in [Task -> BOOLEAN] /\ due \in [Task -> BOOLEAN]
  /\ proc \in [Pids -> ProcType]
  /\ sigchld \in BOOLEAN /\ inHandler \in BOOLEAN /\ exitFlag \in BOOLEAN
  /\ pc \in StartLocs \cup StopLocs \cup LoopLocs
  /\ caller \in Callers \cup {"none"}
  /\ cur \in Task \cup {None}
  /\ todo \subseteq Task
  /\ events \subseteq {"control", "heartbeat"}
  /\ child \in Pids \cup {NoPid}
  /\ asked \in [Task -> {"run", "stop"}]

\* Processes of t that nobody sent SIGTERM.
Unsignalled(t) == {p \in Instances(t) : ~proc[p].termed}

\* No process of a task escapes the daemon: one that was not sent SIGTERM is the
\* one whose pid the task object holds, or the one start() is about to record.
\* Everything that stops, kills or times out a task goes by that pid.
Tracked ==
  \A t \in Task : \A p \in Unsignalled(t) :
    \/ pid[t] = p /\ status[t] = "RUNNING"
    \/ cur = t /\ child = p /\ pc \in {"setpid", "setrun"}

\* conflict=down refuses to start a task while a process runs that ps shows with its
\* task_start, be it one that was sent SIGTERM and takes its time (check_conflict,
\* developer_guide.md:56).  A process started under another task_start, before a reload,
\* is no conflict to the code, nor is any when task_start is not what ps shows.
ConflictRefused ==
  [][\A t \in Task :
       conf[t].conflict = "down" /\ conf[t].cmd \in Plain /\ Instances(t)' \ Instances(t) # {}
         => ~\E p \in Pids : IsLive(p) /\ proc[p].cmd = conf[t].cmd]_vars

\* What the daemon promises of the processes it starts, stated by Supervisor.tla:
\* one unsignalled process per task, none started once it shuts down, none left
\* when it is done (an exception that cuts clean_child() short is never "done").
Phase == IF pc = "off" /\ todo = {} THEN "closed"
         ELSE IF pc \in {"clean", "off"} \/ caller = "clean" THEN "closing" ELSE "serving"

Supervised == INSTANCE Supervisor WITH running <- [t \in Task |-> Unsignalled(t)],
                                       phase <- Phase

SupervisedSpec == Supervised!Spec

\* developer_guide.md:50 and note 3: a task with a task_pre command is started only
\* after that command succeeded, once for every post().
PreparedBeforeStart ==
  [][\A t \in HasPre : Instances(t)' \ Instances(t) # {} => preDone[t]]_vars

\* installation_and_usage.md:107: a task shown as RUNNING is running.
RunningIsRunning ==
  \A t \in Task :
    status[t] = "RUNNING" /\ pc = "poll" /\ MainRuns => pid[t] \in Pids /\ IsLive(pid[t])

\* A task the operator stopped is not run again by the period loop.
StopSticks ==
  [][\A t \in Period : Instances(t)' \ Instances(t) # {} /\ caller = "period" => asked[t] = "run"]_vars

\* developer_guide.md:53: with the heartbeat switched off nobody times a task out.
\* The code does not keep it, and no run checks it: README, Divergences.
TimeoutNeedsHeartbeat ==
  [][\A t \in Task : pc = "beat" /\ status[t] = "RUNNING" /\ status'[t] = "FAILED" => conf[t].hb]_vars

\* post() docstring: it is executed after stop().  A stop that was accepted leaves
\* no task prepared.  The code does not keep it, and no run checks it: README,
\* Divergences.
StoppedIsPosted ==
  \A t \in HasPost : asked[t] = "stop" /\ pc = "poll" => ~preDone[t]

\* main_loop() never blocks: it comes back to its sockets until it is told to stop.
MainLoopLives == []<>(pc \in {"poll", "off"})

\* A waiting period task is run when its interval is over, whatever requests and
\* exits come in between, unless somebody stops or disables it.
WaitingRuns ==
  \A t \in Period : (status[t] = "WAITING" /\ conf[t].enabled /\ periodEnabled[t])
    ~> (status[t] # "WAITING" \/ ~conf[t].enabled \/ ~periodEnabled[t] \/ exitFlag)

\* A daemon that was told to stop stops.
ShutdownEnds == exitFlag ~> pc = "off"
=============================================================================
