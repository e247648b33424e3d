------------------------- MODULE SentryDaemonProofs -------------------------
(***************************************************************************)
(* Proofs about SentryDaemon, for every set of tasks, every set of pids    *)
(* and every setting of the switches.                                      *)
(***************************************************************************)
EXTENDS SentryDaemon, TLAPS

\* Where the main thread is says what its local variables hold.
Control ==
  /\ pc \in StartLocs => cur \in Task /\ caller \in {"onstart", "control", "period"}
  /\ pc \in StopLocs => cur \in Task /\ caller \in {"control", "clean"}
  /\ pc \in LoopLocs => cur = None /\ caller = "none"
  /\ pc \in WaitLocs \cup {"setpid", "setrun"} => child \in Pids
  /\ caller = "clean" => cur \in todo

\* A start() in progress: its task does not run until the last step says so.
Starting ==
  /\ pc \in StartLocs \ {"again", "failed", "postfail", "postfailwait"} => status[cur] # "RUNNING"
  /\ pc = "setrun" => pid[cur] = child
  /\ pc \in {"setpid", "setrun", "again"} /\ cur \in Period => ran[cur]
  /\ \A t \in Period : status[t] = "RUNNING" => ran[t]
  /\ pc = "onstart" \/ caller = "onstart" => \A t \in todo : status[t] # "RUNNING"
  /\ caller = "onstart" => cur \notin todo

\* clean_child() has dealt with the tasks it does not have to visit any more.
Cleaning ==
  pc \in {"clean", "off"} \/ caller = "clean"
    => \A t \in Task \ todo : Unsignalled(t) = {}

IInv == TypeOK /\ Control /\ Starting /\ Cleaning /\ Tracked

-----------------------------------------------------------------------------
(* The process table. *)

\* What the operators on the process table return.
LEMMA ProcOps ==
  ASSUME TypeOK
  PROVE  /\ Cleaned \in [Pids -> ProcType]
         /\ \A p \in Pids, o \in Task \cup {None} : Spawned(o, p) \in [Pids -> ProcType]
         /\ \A P \in [Pids -> ProcType] : \A S : Signalled(P, S) \in [Pids -> ProcType]
         /\ Free \in ProcType /\ Zombie \in ProcType
<1> USE DEF TypeOK, Cleaned, Spawned, Signalled, Free, Zombie, ProcType
<1>1. Cleaned \in [Pids -> ProcType] /\ Free \in ProcType /\ Zombie \in ProcType
  OBVIOUS
<1>2. ASSUME NEW p \in Pids, NEW o \in Task \cup {None}
      PROVE  Spawned(o, p) \in [Pids -> ProcType]
  <2>1. (IF o = None THEN NoCmd ELSE conf[o].cmd) \in Cmds \cup {NoCmd}
    BY DEF ConfType
  <2> QED
    BY <1>1, <2>1
<1>3. ASSUME NEW P \in [Pids -> ProcType], NEW S
      PROVE  Signalled(P, S) \in [Pids -> ProcType]
  <2>1. \A p \in Pids : P[p] \in ProcType /\ [P[p] EXCEPT !.termed = TRUE] \in ProcType
    OBVIOUS
  <2> QED
    BY <2>1
<1> QED
  BY <1>1, <1>2, <1>3

-----------------------------------------------------------------------------
(* Types. *)

\* Every location a step leads to is a location.
LEMMA Locations ==
  /\ \A w \in Callers : LoopOf(w) \in LoopLocs
  /\ \A l \in {"start", "conflict", "kill", "postfail", "poststop"} :
       WaitLoc(l) \in WaitLocs
  /\ WaitLocs \subseteq StartLocs \cup StopLocs
  /\ AfterPost \in {"failed", "stopped"}
BY DEF LoopOf, WaitLoc, AfterPost, Callers, LoopLocs, StartLocs, StopLocs, WaitLocs

\* main() creates the tasks with their values in their types (load_tasks, syssentry.py).
LEMMA InitTypeOK == Init => TypeOK
<1> SUFFICES ASSUME Init PROVE TypeOK
  OBVIOUS
<1>1. conf \in [Task -> ConfType]
  BY DEF Init, InitialConf
<1> QED
  BY <1>1, TaskAssumption
     DEF Init, TypeOK, Free, ProcType, NoPid, Task, OneshotStatus, PeriodStatus,
         StartLocs, StopLocs, LoopLocs, Callers

\* The main thread's own loops keep every variable in its type.
LEMMA DispatchTypeOK ==
  ASSUME TypeOK, Control, Poll \/ LoopDone \/ (\E t \in Task : Dispatch(t))
                            \/ (\E t \in Period : PeriodTask(t))
  PROVE  TypeOK'
<1> USE TaskAssumption, ConfAssumption
        DEF TypeOK, taskVars, sigVars, Task, Callers, StartLocs, StopLocs, LoopLocs
<1>1. CASE Poll \/ LoopDone
  BY <1>1 DEF Poll, LoopDone
<1>2. ASSUME NEW t \in Task, OnstartTask(t) PROVE TypeOK'
  BY <1>2 DEF OnstartTask, Call
<1>3. ASSUME NEW t \in Task, TaskStart(t) PROVE TypeOK'
  BY <1>3 DEF TaskStart, Call, Serve
<1>4. ASSUME NEW t \in Task, TaskStopIdle(t) PROVE TypeOK'
  BY <1>4 DEF TaskStopIdle, Serve, OneshotStatus, PeriodStatus
<1>5. ASSUME NEW t \in Task, TaskStopRunning(t) PROVE TypeOK'
  BY <1>5 DEF TaskStopRunning, Call, Serve
<1>6. ASSUME NEW t \in Task, Reload(t) PROVE TypeOK'
  <2>1. Conf[t] \subseteq ConfType
    BY ConfAssumption
  <2> QED
    BY <1>6, <2>1 DEF Reload, Serve
<1>7. ASSUME NEW t \in Task, HeartbeatRecv(t) PROVE TypeOK'
  <2>1. hbSeen' \in [Task -> BOOLEAN] /\ hbLate' \in [Task -> BOOLEAN]
    <3>1. CASE UNCHANGED <<hbSeen, hbLate>>
      BY <3>1
    <3>2. CASE /\ hbSeen' = [hbSeen EXCEPT ![t] = TRUE]
               /\ hbLate' = [hbLate EXCEPT ![t] = FALSE]
      BY <3>2
    <3> QED
      BY <1>7, <3>1, <3>2 DEF HeartbeatRecv
  <2> QED
    BY <1>7, <2>1 DEF HeartbeatRecv, Serve
<1>8. ASSUME NEW t \in Task, HeartbeatCheck(t) PROVE TypeOK'
  <2>1. proc' \in [Pids -> ProcType]
    BY <1>8, ProcOps DEF HeartbeatCheck
  <2> QED
    BY <1>8, <2>1 DEF HeartbeatCheck, OneshotStatus, PeriodStatus
<1>9. ASSUME NEW t \in Task, CleanTask(t) PROVE TypeOK'
  BY <1>9 DEF CleanTask, Call
<1>10. ASSUME NEW t \in Period, PeriodTask(t) PROVE TypeOK'
  BY <1>10 DEF PeriodTask, Call, OneshotStatus, PeriodStatus
<1> QED
  BY <1>1, <1>2, <1>3, <1>4, <1>5, <1>6, <1>7, <1>8, <1>9, <1>10 DEF Dispatch

\* An exception keeps its type too.
LEMMA RaiseTypeOK ==
  ASSUME TypeOK, Control, Raise, caller \in Callers
  PROVE  /\ pc' \in LoopLocs /\ caller' = "none" /\ cur' = None /\ child' = NoPid
         /\ todo' \subseteq Task /\ events' \subseteq {"control", "heartbeat"}
BY DEF TypeOK, Raise, ReturnTo, Callers, LoopLocs, Task

\* start() and stop() keep every variable in its type.
LEMMA CallTypeOK ==
  ASSUME TypeOK, Control, StartStep \/ StopStep
  PROVE  TypeOK'
<1> USE DEF TypeOK, taskVars, sigVars, Control, Callers, StartLocs, StopLocs, LoopLocs, WaitLocs
<1>1. CASE RunCommand
  <2>1. proc' \in [Pids -> ProcType] /\ child' \in Pids
    BY <1>1, ProcOps DEF RunCommand
  <2>2. pc \in {"start", "conflict", "kill", "postfail", "poststop"} /\ cur \in Task
    BY <1>1 DEF RunCommand, RunsCommand, PostLocs
  <2>3. preDone' \in [Task -> BOOLEAN]
    BY <1>1 DEF RunCommand, PostForgetsPre
  <2> QED
    BY <1>1, <2>1, <2>2, <2>3, Locations DEF RunCommand, Goto
<1>2. CASE RunCommandRaises
  <2>1. proc' \in [Pids -> ProcType]
    BY <1>2, ProcOps DEF RunCommandRaises, ForkFails
  <2>2. caller \in Callers
    BY <1>2 DEF RunCommandRaises, RunsCommand, PostLocs
  <2>3. preDone' \in [Task -> BOOLEAN]
    BY <1>2 DEF RunCommandRaises, PostForgetsPre
  <2> QED
    BY <1>2, <2>1, <2>2, <2>3, RaiseTypeOK DEF RunCommandRaises
<1>3. CASE PreOver
  <2>1. proc' \in [Pids -> ProcType]
    BY <1>3, ProcOps DEF PreOver, Reaped
  <2>2. preDone' \in [Task -> BOOLEAN]
    BY <1>3 DEF PreOver
  <2>3. pc' \in {"start", "postfail"} /\ UNCHANGED <<caller, cur>>
    BY <1>3 DEF PreOver, Goto
  <2>4. /\ status' \in [Task -> OneshotStatus \cup PeriodStatus]
        /\ \A t \in Oneshot : status'[t] \in OneshotStatus
        /\ \A t \in Period : status'[t] \in PeriodStatus
    <3>1. CASE UNCHANGED status
      BY <3>1
    <3>2. CASE status' = [status EXCEPT ![cur] = "FAILED"]
      <4>1. cur \in Task
        BY <1>3 DEF PreOver, CommandOver
      <4> QED
        BY <3>2, <4>1, TaskAssumption DEF OneshotStatus, PeriodStatus, Task
    <3> QED
      BY <1>3, <3>1, <3>2 DEF PreOver
  <2> QED
    BY <1>3, <2>1, <2>2, <2>3, <2>4 DEF PreOver, CommandOver
<1>4. CASE PostOver \/ NoPost
  <2>1. proc' \in [Pids -> ProcType]
    BY <1>4, ProcOps DEF PostOver, NoPost, Reaped
  <2> QED
    BY <1>4, <2>1, Locations DEF PostOver, NoPost, CommandOver, Goto
<1>5. CASE ConflictOver
  <2>1. proc' \in [Pids -> ProcType]
    BY <1>5, ProcOps DEF ConflictOver, Reaped
  <2>2. pc' \in {"popen", "kill", "failed"} /\ UNCHANGED <<caller, cur>>
    BY <1>5 DEF ConflictOver, Goto
  <2> QED
    BY <1>5, <2>1, <2>2 DEF ConflictOver, CommandOver
<1>6. CASE KillOver
  <2>1. PICK S : proc' = [Signalled(proc, S) EXCEPT ![child] = Free]
    BY <1>6 DEF KillOver
  <2>2. proc' \in [Pids -> ProcType]
    BY <2>1, ProcOps
  <2> QED
    BY <1>6, <2>2 DEF KillOver, CommandOver, Goto
<1>7. CASE StartChecks \/ StartSetPid \/ SetRunningAgain \/ StartFailed
  <2>1. CASE StartChecks
    <3>1. pc' \in LoopLocs \cup StartLocs /\ caller' \in Callers \cup {"none"}
          /\ cur' \in Task \cup {None} /\ child' \in Pids \cup {NoPid}
      BY <2>1, Locations DEF StartChecks, StartSucceeded, Goto, Return, ReturnTo, At
    <3> QED
      BY <2>1, <3>1 DEF StartChecks
  <2>2. CASE StartSetPid
    BY <2>2 DEF StartSetPid, Goto, At
  <2>3. CASE SetRunningAgain
    BY <2>3, Locations DEF SetRunningAgain, Return, ReturnTo, OneshotStatus, PeriodStatus, At
  <2>4. CASE StartFailed
    BY <2>4, Locations DEF StartFailed, Return, ReturnTo, At
  <2> QED
    BY <1>7, <2>1, <2>2, <2>3, <2>4
<1>8. CASE StartPopen
  <2>1. proc' \in [Pids -> ProcType] /\ child' \in Pids
    BY <1>8, ProcOps DEF StartPopen
  <2> QED
    BY <1>8, <2>1 DEF StartPopen, UpgradeTimestamp, Goto
<1>9. CASE StartPopenFails
  <2>1. proc' \in [Pids -> ProcType]
    BY <1>9, ProcOps DEF StartPopenFails, ForkFails
  <2> QED
    BY <1>9, <2>1
       DEF StartPopenFails, UpgradeTimestamp, Goto, OneshotStatus, PeriodStatus, At
<1>10. CASE StartEnvRaises
  <2>1. caller \in Callers
    BY <1>10 DEF StartEnvRaises, At
  <2> QED
    BY <1>10, <2>1, RaiseTypeOK DEF StartEnvRaises
<1>11. CASE StartSetRunning
  <2>1. proc' \in [Pids -> ProcType]
    BY <1>11, ProcOps DEF StartSetRunning
  <2>2. hbSeen' \in [Task -> BOOLEAN]
    BY <1>11 DEF StartSetRunning
  <2>3. hbLate' \in [Task -> BOOLEAN]
    BY <1>11 DEF StartSetRunning
  <2> QED
    BY <1>11, <2>1, <2>2, <2>3, Locations
       DEF StartSetRunning, StartSucceeded, Goto, Return, ReturnTo, OneshotStatus,
           PeriodStatus, At
<1>12. CASE StopCommand
  <2>1. proc' \in [Pids -> ProcType]
    <3>1. CASE UNCHANGED proc \/ ForkFails
      BY <3>1, ProcOps DEF ForkFails
    <3>2. ASSUME NEW p \in Pids, NEW S, proc' = Signalled(Spawned(None, p), S)
          PROVE  proc' \in [Pids -> ProcType]
      BY <3>2, ProcOps
    <3> QED
      BY <1>12, <3>1, <3>2 DEF StopCommand
  <2> QED
    BY <1>12, <2>1 DEF StopCommand, Goto, At
<1>13. CASE StopReturn
  BY <1>13, Locations
     DEF StopReturn, Goto, Return, ReturnTo, OneshotStatus, PeriodStatus, At
<1>14. CASE CleanTerm
  <2>1. proc' \in [Pids -> ProcType]
    BY <1>14, ProcOps DEF CleanTerm
  <2> QED
    BY <1>14, <2>1, Locations DEF CleanTerm, Return, ReturnTo, At
<1> QED
  BY <1>1, <1>2, <1>3, <1>4, <1>5, <1>6, <1>7, <1>8, <1>9, <1>10, <1>11, <1>12, <1>13,
     <1>14 DEF StartStep, StopStep

\* So do the handler and the environment.
LEMMA SignalTypeOK ==
  ASSUME TypeOK, HandlerStep \/ Environment
  PROVE  TypeOK'
<1> USE DEF TypeOK, taskVars, sigVars, mainVars
<1>1. ASSUME NEW p \in Pids, Exit(p) PROVE TypeOK'
  BY <1>1, ProcOps DEF Exit
<1>2. ASSUME NEW p \in Pids, HandlerUnknown(p) PROVE TypeOK'
  BY <1>2, ProcOps DEF HandlerUnknown
<1>3. ASSUME NEW p \in Pids, NEW t \in Task, HandlerReap(p, t) PROVE TypeOK'
  <2>1. proc' \in [Pids -> ProcType]
    BY <1>3, ProcOps DEF HandlerReap
  <2>2. ExitStatus(t) \subseteq IF t \in Period THEN PeriodStatus ELSE OneshotStatus
    BY DEF ExitStatus, PeriodStatus, OneshotStatus
  <2>3. /\ status' \in [Task -> OneshotStatus \cup PeriodStatus]
        /\ \A u \in Oneshot : status'[u] \in OneshotStatus
        /\ \A u \in Period : status'[u] \in PeriodStatus
    BY <1>3, <2>2, TaskAssumption DEF HandlerReap, Task
  <2> QED
    BY <1>3, <2>1, <2>3 DEF HandlerReap
<1>4. CASE HandlerEnter \/ HandlerEmpty \/ Terminate
  BY <1>4 DEF HandlerEnter, HandlerEmpty, Terminate
<1>5. ASSUME NEW t \in Task, IntervalPasses(t) \/ HeartbeatLate(t) PROVE TypeOK'
  BY <1>5 DEF IntervalPasses, HeartbeatLate
<1> QED
  BY <1>1, <1>2, <1>3, <1>4, <1>5 DEF HandlerStep, Environment

\* So every step does.
LEMMA NextTypeOK ==
  ASSUME TypeOK, Control, [Next]_vars
  PROVE  TypeOK'
<1>1. CASE UNCHANGED vars
  BY <1>1 DEF TypeOK, vars, taskVars, sigVars, mainVars
<1>2. CASE Next
  BY <1>2, DispatchTypeOK, CallTypeOK, SignalTypeOK DEF Next, MainStep
<1> QED
  BY <1>1, <1>2

-----------------------------------------------------------------------------
(* Control: what the local variables hold at each location. *)

\* Every call of start() and stop(), with its waits, keeps the locals of the main
\* thread as Control says.
LEMMA NextControl ==
  ASSUME TypeOK, Control, [Next]_vars
  PROVE  Control'
<1> USE TaskAssumption
        DEF Control, Callers, StartLocs, StopLocs, LoopLocs, WaitLocs, taskVars, sigVars
<1>1. CASE UNCHANGED vars \/ HandlerStep \/ Environment
  <2>1. UNCHANGED mainVars
    BY <1>1 DEF vars, HandlerStep, Environment, HandlerEnter, HandlerEmpty, HandlerUnknown,
                HandlerReap, Exit, Terminate, IntervalPasses, HeartbeatLate
  <2> QED
    BY <2>1 DEF mainVars
<1>2. CASE Poll \/ LoopDone
  BY <1>2 DEF Poll, LoopDone, At, TypeOK
<1>3. ASSUME NEW t \in Task, Dispatch(t) PROVE Control'
  BY <1>3 DEF Dispatch, OnstartTask, TaskStart, TaskStopIdle, TaskStopRunning, Reload,
              HeartbeatRecv, HeartbeatCheck, CleanTask, Serve, Call, At
<1>4. ASSUME NEW t \in Period, PeriodTask(t) PROVE Control'
  BY <1>4 DEF PeriodTask, Call, At, Task
<1>5. CASE RunCommand
  BY <1>5 DEF RunCommand, RunsCommand, PostLocs, Goto, WaitLoc
<1>6. CASE RunCommandRaises \/ StartEnvRaises
  BY <1>6 DEF RunCommandRaises, StartEnvRaises, RunsCommand, PostLocs, Raise, ReturnTo, At
<1>7. CASE PreOver \/ PostOver \/ NoPost \/ ConflictOver \/ KillOver
  BY <1>7 DEF PreOver, PostOver, NoPost, ConflictOver, KillOver, CommandOver, Goto,
              AfterPost, PostLocs
<1>8. CASE StartChecks \/ StartPopen \/ StartPopenFails \/ StartSetPid
  BY <1>8 DEF StartChecks, StartPopen, StartPopenFails, StartSetPid, StartSucceeded,
              Goto, Return, ReturnTo, LoopOf, At
<1>9. CASE StartSetRunning \/ SetRunningAgain \/ StartFailed
  BY <1>9 DEF StartSetRunning, SetRunningAgain, StartFailed, StartSucceeded,
              Goto, Return, ReturnTo, LoopOf, At
<1>10. CASE StopStep
  BY <1>10 DEF StopStep, StopCommand, StopReturn, CleanTerm, Goto, Return, ReturnTo, LoopOf, At
<1> QED
  BY <1>1, <1>2, <1>3, <1>4, <1>5, <1>6, <1>7, <1>8, <1>9, <1>10
     DEF Next, MainStep, StartStep

-----------------------------------------------------------------------------
(* Starting and Tracked: the pid a task holds is that of its process. *)

\* No process of cur is unsignalled while a start() of cur has not spawned one,
\* and afterwards it is the one just spawned.
LEMMA StartHasNone ==
  ASSUME IInv
  PROVE  /\ pc \in {"start", "conflict", "kill", "popen", "prewait", "conflictwait", "killwait"}
              => Unsignalled(cur) = {}
         /\ pc \in {"setpid", "setrun"} => Unsignalled(cur) \subseteq {child}
         /\ pc \in StopLocs => Unsignalled(cur) \subseteq {pid[cur]}
         /\ \A t \in Task : status[t] # "RUNNING" /\ (cur = t => pc \notin {"setpid", "setrun"})
              => Unsignalled(t) = {}
         /\ \A t \in Task : cur # t => Unsignalled(t) \subseteq {pid[t]}
BY DEF IInv, Control, Starting, Tracked, StartLocs, StopLocs

\* How the steps change the unsignalled processes: forking a command, signalling,
\* reaping and the exit of a process add none; a start adds the process spawned.
LEMMA UnsignalledSteps ==
  ASSUME TypeOK, NEW t \in Task
  PROVE  /\ UNCHANGED proc => Unsignalled(t)' = Unsignalled(t)
         /\ ForkFails => Unsignalled(t)' = Unsignalled(t)
         /\ \A p \in Pids : CanFork(p) /\ proc' = Spawned(None, p)
              => Unsignalled(t)' = Unsignalled(t)
         /\ \A p \in Pids : \A S : CanFork(p) /\ proc' = Signalled(Spawned(None, p), S)
              => Unsignalled(t)' = Unsignalled(t) \ S
         /\ \A S : proc' = Signalled(proc, S) => Unsignalled(t)' = Unsignalled(t) \ S
         /\ \A p \in Pids : ~IsLive(p) /\ proc' = [proc EXCEPT ![p] = Free]
              => Unsignalled(t)' = Unsignalled(t)
         /\ \A p \in Pids : proc' = [proc EXCEPT ![p] = Zombie]
              => Unsignalled(t)' = Unsignalled(t) \ {p}
         /\ \A p \in Pids, u \in Task : CanFork(p) /\ proc' = Spawned(u, p)
              => Unsignalled(t)' = IF u = t THEN Unsignalled(t) \cup {p} ELSE Unsignalled(t)
<1> USE TaskAssumption
        DEF TypeOK, ProcType, Unsignalled, Instances, IsLive, Cleaned, Free, Zombie
<1>1. UNCHANGED proc => Unsignalled(t)' = Unsignalled(t)
  OBVIOUS
<1>2. ForkFails => Unsignalled(t)' = Unsignalled(t)
  BY DEF ForkFails
<1>3. \A p \in Pids : CanFork(p) /\ proc' = Spawned(None, p) => Unsignalled(t)' = Unsignalled(t)
  BY DEF CanFork, Spawned
<1>4. \A p \in Pids : \A S : CanFork(p) /\ proc' = Signalled(Spawned(None, p), S)
        => Unsignalled(t)' = Unsignalled(t) \ S
  BY DEF CanFork, Spawned, Signalled
<1>5. \A S : proc' = Signalled(proc, S) => Unsignalled(t)' = Unsignalled(t) \ S
  BY DEF Signalled
<1>6. \A p \in Pids : ~IsLive(p) /\ proc' = [proc EXCEPT ![p] = Free]
        => Unsignalled(t)' = Unsignalled(t)
  OBVIOUS
<1>7. \A p \in Pids : proc' = [proc EXCEPT ![p] = Zombie]
        => Unsignalled(t)' = Unsignalled(t) \ {p}
  OBVIOUS
<1>8. \A p \in Pids, u \in Task : CanFork(p) /\ proc' = Spawned(u, p)
        => Unsignalled(t)' = IF u = t THEN Unsignalled(t) \cup {p} ELSE Unsignalled(t)
  BY DEF CanFork, Spawned
<1> QED
  BY <1>1, <1>2, <1>3, <1>4, <1>5, <1>6, <1>7, <1>8

\* No step but the Popen of a start() gives a task a process.
LEMMA UnsignalledShrinks ==
  ASSUME TypeOK, Control, [Next]_vars, ~StartPopen, NEW t \in Task
  PROVE  Unsignalled(t)' \subseteq Unsignalled(t)
<1>1. CASE UNCHANGED vars \/ Poll \/ LoopDone \/ HandlerEnter \/ HandlerEmpty \/ Terminate
  <2>1. UNCHANGED proc
    BY <1>1 DEF vars, Poll, LoopDone, HandlerEnter, HandlerEmpty, Terminate
  <2> QED
    BY <2>1, UnsignalledSteps
<1>2. ASSUME NEW u \in Task, Dispatch(u) PROVE Unsignalled(t)' \subseteq Unsignalled(t)
  <2>1. UNCHANGED proc \/ proc' = Signalled(proc, {pid[u]})
    BY <1>2 DEF Dispatch, OnstartTask, TaskStart, TaskStopIdle, TaskStopRunning, Reload,
                HeartbeatRecv, HeartbeatCheck, CleanTask
  <2> QED
    BY <2>1, UnsignalledSteps
<1>3. ASSUME NEW u \in Task, PeriodTask(u) \/ IntervalPasses(u) \/ HeartbeatLate(u)
      PROVE  Unsignalled(t)' \subseteq Unsignalled(t)
  BY <1>3, UnsignalledSteps DEF PeriodTask, IntervalPasses, HeartbeatLate
<1>4. CASE RunCommand \/ RunCommandRaises \/ StartPopenFails
  BY <1>4, UnsignalledSteps DEF RunCommand, RunCommandRaises, StartPopenFails
<1>5. CASE PreOver \/ PostOver \/ ConflictOver \/ KillOver
  <2>1. child \in Pids /\ ~IsLive(child)
    BY <1>5 DEF PreOver, PostOver, ConflictOver, KillOver, CommandOver, Control, WaitLocs
  <2>2. CASE proc' = Reaped
    BY <2>1, <2>2, UnsignalledSteps DEF Reaped
  <2>3. CASE KillOver
    <3>1. PICK S : proc' = [Signalled(proc, S) EXCEPT ![child] = Free]
      BY <2>3 DEF KillOver
    <3> QED
      BY <2>1, <3>1
         DEF Unsignalled, Instances, IsLive, Signalled, Free, TypeOK, ProcType
  <2> QED
    BY <1>5, <2>2, <2>3 DEF PreOver, PostOver, ConflictOver
<1>6. CASE NoPost \/ StartChecks \/ StartEnvRaises \/ StartSetPid \/ SetRunningAgain
           \/ StartFailed \/ StopReturn
  <2>1. UNCHANGED proc
    BY <1>6 DEF NoPost, StartChecks, StartEnvRaises, StartSetPid, SetRunningAgain,
                StartFailed, StopReturn
  <2> QED
    BY <2>1, UnsignalledSteps
<1>7. CASE StartSetRunning
  <2>1. child \in Pids
    BY <1>7 DEF StartSetRunning, At, Control
  <2> QED
    BY <1>7, <2>1
       DEF StartSetRunning, Unsignalled, Instances, IsLive, Free, TypeOK, ProcType
<1>8. CASE StopCommand
  BY <1>8, UnsignalledSteps DEF StopCommand
<1>9. CASE CleanTerm
  BY <1>9, UnsignalledSteps DEF CleanTerm
<1>10. ASSUME NEW p \in Pids, Exit(p) PROVE Unsignalled(t)' \subseteq Unsignalled(t)
  BY <1>10, UnsignalledSteps DEF Exit
<1>11. ASSUME NEW p \in Pids, HandlerUnknown(p) \/ (\E u \in Task : HandlerReap(p, u))
       PROVE  Unsignalled(t)' \subseteq Unsignalled(t)
  <2>1. proc' = [proc EXCEPT ![p] = Free] /\ ~IsLive(p)
    BY <1>11 DEF HandlerUnknown, HandlerReap, IsLive
  <2> QED
    BY <2>1, UnsignalledSteps
<1> QED
  BY <1>1, <1>2, <1>3, <1>4, <1>5, <1>6, <1>7, <1>8, <1>9, <1>10, <1>11
     DEF Next, MainStep, StartStep, StopStep, HandlerStep, Environment, Task

\* Starting is kept by every step.
LEMMA NextStarting ==
  ASSUME IInv, [Next]_vars
  PROVE  Starting'
<1> USE TaskAssumption
        DEF IInv, Starting, TypeOK, Control, StartLocs, StopLocs, LoopLocs, WaitLocs, Task,
            taskVars, sigVars, mainVars
<1>1. CASE UNCHANGED vars \/ Poll \/ LoopDone \/ HandlerEnter \/ HandlerEmpty \/ Terminate
  BY <1>1 DEF vars, Poll, LoopDone, HandlerEnter, HandlerEmpty, Terminate, At
<1>2. ASSUME NEW t \in Task, Dispatch(t) PROVE Starting'
  <2>1. CASE OnstartTask(t)
    BY <2>1 DEF OnstartTask, Call, At
  <2>2. CASE TaskStart(t) \/ Reload(t) \/ HeartbeatRecv(t)
    BY <2>2 DEF TaskStart, MayStart, Reload, HeartbeatRecv, Serve, Call, At
  <2>3. CASE TaskStopIdle(t) \/ TaskStopRunning(t)
    BY <2>3 DEF TaskStopIdle, TaskStopRunning, Serve, Call, At
  <2>4. CASE HeartbeatCheck(t) \/ CleanTask(t)
    BY <2>4 DEF HeartbeatCheck, CleanTask, Call, At
  <2> QED
    BY <1>2, <2>1, <2>2, <2>3, <2>4 DEF Dispatch
<1>3. ASSUME NEW t \in Period, PeriodTask(t) PROVE Starting'
  BY <1>3 DEF PeriodTask, ReadyToRun, Call, At
<1>4. CASE RunCommand
  BY <1>4 DEF RunCommand, RunsCommand, PostLocs, Goto, WaitLoc
<1>5. CASE RunCommandRaises \/ StartEnvRaises
  BY <1>5 DEF RunCommandRaises, StartEnvRaises, RunsCommand, PostLocs, Raise, ReturnTo, At
<1>6. CASE PreOver
  BY <1>6 DEF PreOver, CommandOver, Goto
<1>7. CASE PostOver \/ NoPost \/ ConflictOver \/ KillOver
  BY <1>7 DEF PostOver, NoPost, ConflictOver, KillOver, CommandOver, Goto, AfterPost, PostLocs
<1>8. CASE StartChecks
  BY <1>8 DEF StartChecks, StartSucceeded, Goto, Return, ReturnTo, LoopOf, At, Stopped
<1>9. CASE StartPopen
  BY <1>9 DEF StartPopen, UpgradeTimestamp, Goto, At
<1>10. CASE StartPopenFails
  BY <1>10 DEF StartPopenFails, UpgradeTimestamp, Goto, At
<1>11. CASE StartSetPid
  BY <1>11 DEF StartSetPid, Goto, At
<1>12. CASE StartSetRunning
  BY <1>12 DEF StartSetRunning, StartSucceeded, Goto, Return, ReturnTo, LoopOf, At
<1>13. CASE SetRunningAgain \/ StartFailed
  BY <1>13 DEF SetRunningAgain, StartFailed, Return, ReturnTo, LoopOf, At
<1>14. CASE StopStep
  BY <1>14 DEF StopStep, StopCommand, StopReturn, CleanTerm, Goto, Return, ReturnTo, LoopOf, At
<1>15. ASSUME NEW p \in Pids, Exit(p) \/ HandlerUnknown(p) PROVE Starting'
  BY <1>15 DEF Exit, HandlerUnknown
<1>16. ASSUME NEW p \in Pids, NEW t \in Task, HandlerReap(p, t) PROVE Starting'
  <2>1. \A s \in ExitStatus(t) : s # "RUNNING"
    BY DEF ExitStatus
  <2> QED
    BY <1>16, <2>1 DEF HandlerReap
<1>17. ASSUME NEW t \in Task, IntervalPasses(t) \/ HeartbeatLate(t) PROVE Starting'
  BY <1>17 DEF IntervalPasses, HeartbeatLate
<1> QED
  BY <1>1, <1>2, <1>3, <1>4, <1>5, <1>6, <1>7, <1>8, <1>9, <1>10, <1>11, <1>12, <1>13,
     <1>14, <1>15, <1>16, <1>17 DEF Next, MainStep, StartStep, HandlerStep, Environment

\* Tracked is kept by every step: a step that takes RUNNING or the pid from a task
\* leaves it without an unsignalled process.
LEMMA NextTracked ==
  ASSUME IInv, [Next]_vars
  PROVE  Tracked'
<1> DEFINE Held(t, p) == \/ pid[t] = p /\ status[t] = "RUNNING"
                         \/ cur = t /\ child = p /\ pc \in {"setpid", "setrun"}
<1> SUFFICES ASSUME NEW t \in Task, NEW p \in Unsignalled(t)' PROVE Held(t, p)'
  BY DEF Tracked
<1> USE DEF IInv, taskVars, sigVars, mainVars
<1>1. CASE StartPopen
  <2>1. cur \in Task /\ Unsignalled(cur) = {}
    BY <1>1, StartHasNone DEF StartPopen, At, Control, StartLocs
  <2>2. p \in Unsignalled(t) \/ (t = cur /\ p = child')
    BY <1>1, <2>1, UnsignalledSteps DEF StartPopen
  <2>3. CASE t = cur
    BY <1>1, <2>1, <2>2, <2>3 DEF StartPopen, Goto
  <2>4. CASE t # cur
    <3>1. p \in Unsignalled(t) /\ pid[t] = p /\ status[t] = "RUNNING"
      BY <2>2, <2>4 DEF Tracked
    <3> QED
      BY <1>1, <3>1 DEF StartPopen
  <2> QED
    BY <2>3, <2>4
<1> SUFFICES ASSUME ~StartPopen PROVE Held(t, p)'
  BY <1>1
<1>2. p \in Unsignalled(t) /\ Held(t, p)
  BY UnsignalledShrinks DEF Tracked
<1>3. CASE UNCHANGED <<status, pid, cur, child, pc>>
  BY <1>2, <1>3
<1>4. CASE StartSetPid
  <2>1. t = cur => p = child
    BY <1>2, <1>4, StartHasNone DEF StartSetPid, At
  <2>2. cur \in Task
    BY <1>4 DEF StartSetPid, At, Control, StartLocs
  <2> QED
    BY <1>2, <1>4, <2>1, <2>2 DEF StartSetPid, Goto, At, TypeOK
<1>5. CASE StartSetRunning
  <2>1. cur \in Task /\ pid[cur] = child
    BY <1>5 DEF StartSetRunning, At, Control, StartLocs, Starting
  <2> QED
    BY <1>2, <1>5, <2>1 DEF StartSetRunning, TypeOK
<1> SUFFICES ASSUME ~StartSetPid, ~StartSetRunning PROVE Held(t, p)'
  BY <1>4, <1>5
<1>6. ASSUME UNCHANGED <<status, pid>>, pc \notin {"setpid", "setrun"} PROVE Held(t, p)'
  BY <1>2, <1>6
<1>7. ASSUME UNCHANGED pid, pc \notin {"setpid", "setrun"},
             \A u \in Task : status[u] = "RUNNING" => status'[u] = "RUNNING"
      PROVE  Held(t, p)'
  BY <1>2, <1>7
<1>8. CASE UNCHANGED vars \/ Poll \/ LoopDone
  BY <1>3, <1>6, <1>8 DEF vars, Poll, LoopDone, At
<1>9. ASSUME NEW u \in Task, Dispatch(u) PROVE Held(t, p)'
  <2>1. CASE OnstartTask(u) \/ TaskStart(u) \/ TaskStopRunning(u) \/ Reload(u)
             \/ HeartbeatRecv(u) \/ CleanTask(u)
    BY <1>6, <2>1 DEF OnstartTask, TaskStart, TaskStopRunning, Reload, HeartbeatRecv,
                      CleanTask, Serve, At
  <2>2. CASE TaskStopIdle(u)
    BY <1>7, <2>2 DEF TaskStopIdle, Serve, At, TypeOK
  <2>3. CASE HeartbeatCheck(u)
    <3>1. CASE UNCHANGED status
      BY <1>6, <2>3, <3>1 DEF HeartbeatCheck, At
    <3>2. CASE proc' = Signalled(proc, {pid[u]}) /\ status' = [status EXCEPT ![u] = "FAILED"]
      <4>1. Unsignalled(t)' = Unsignalled(t) \ {pid[u]}
        BY <3>2, UnsignalledSteps
      <4>2. t # u
        BY <1>2, <2>3, <4>1 DEF HeartbeatCheck, At
      <4> QED
        BY <1>2, <2>3, <3>2, <4>2 DEF HeartbeatCheck, At, TypeOK
    <3> QED
      BY <2>3, <3>1, <3>2 DEF HeartbeatCheck
  <2> QED
    BY <1>9, <2>1, <2>2, <2>3 DEF Dispatch
<1>10. ASSUME NEW u \in Period, PeriodTask(u) PROVE Held(t, p)'
  <2>1. status[u] = "RUNNING" => ran[u]
    BY DEF Starting
  <2> QED
    BY <1>7, <1>10, <2>1 DEF PeriodTask, At, TypeOK
<1>11. CASE RunCommand \/ RunCommandRaises \/ PostOver \/ NoPost \/ ConflictOver \/ KillOver
             \/ StartChecks \/ StartEnvRaises \/ StartFailed \/ StopCommand \/ CleanTerm
  BY <1>6, <1>11
     DEF RunCommand, RunCommandRaises, RunsCommand, PostOver, NoPost, ConflictOver, KillOver,
         CommandOver, StartChecks, StartEnvRaises, StartFailed, StopCommand, CleanTerm, At, PostLocs
<1>12. CASE PreOver \/ StartPopenFails
  <2>1. cur \in Task /\ Unsignalled(cur) = {} /\ pc \notin {"setpid", "setrun"}
    BY <1>12, StartHasNone DEF PreOver, CommandOver, StartPopenFails, At, Control, StartLocs
  <2>2. t # cur
    BY <1>2, <2>1
  <2> QED
    BY <1>2, <1>12, <2>1, <2>2 DEF PreOver, StartPopenFails, TypeOK
<1>13. CASE SetRunningAgain \/ StopReturn
  <2>1. cur \in Task
    BY <1>13 DEF SetRunningAgain, StopReturn, At, Control, StartLocs, StopLocs
  <2> QED
    BY <1>7, <1>13, <2>1 DEF SetRunningAgain, StopReturn, At, TypeOK
<1>14. CASE Environment
  BY <1>3, <1>14 DEF Environment, Exit, Terminate, IntervalPasses, HeartbeatLate
<1>15. CASE HandlerEnter \/ HandlerEmpty \/ (\E q \in Pids : HandlerUnknown(q))
  BY <1>3, <1>15 DEF HandlerEnter, HandlerEmpty, HandlerUnknown
<1>16. ASSUME NEW q \in Pids, NEW u \in Task, HandlerReap(q, u) PROVE Held(t, p)'
  <2>1. p # q
    BY <1>2, <1>16 DEF HandlerReap, Unsignalled, Instances, IsLive
  <2> QED
    BY <1>2, <1>16, <2>1 DEF HandlerReap, TypeOK
<1> QED
  BY <1>8, <1>9, <1>10, <1>11, <1>12, <1>13, <1>14, <1>15, <1>16
     DEF Next, MainStep, StartStep, StopStep, HandlerStep

\* Cleaning is kept by every step.
LEMMA NextCleaning ==
  ASSUME IInv, [Next]_vars
  PROVE  Cleaning'
<1> DEFINE Closing == pc \in {"clean", "off"} \/ caller = "clean"
<1> SUFFICES ASSUME Closing', NEW t \in Task, t \notin todo' PROVE Unsignalled(t)' = {}
  BY DEF Cleaning
<1> USE DEF IInv, taskVars, sigVars, mainVars
<1>1. ~StartPopen
  BY DEF StartPopen, At, Control, StartLocs, Goto
<1>2. Unsignalled(t)' \subseteq Unsignalled(t)
  BY <1>1, UnsignalledShrinks
<1>3. ASSUME Closing, t \notin todo PROVE Unsignalled(t)' = {}
  BY <1>2, <1>3 DEF Cleaning
<1>4. CASE CleanTerm
  <2>1. CASE t = cur
    <3>1. pc \in StopLocs
      BY <1>4 DEF CleanTerm, At, StopLocs
    <3>2. Unsignalled(cur) \subseteq {pid[cur]}
      BY <3>1, StartHasNone
    <3>3. Unsignalled(t)' = Unsignalled(t) \ {pid[cur]}
      BY <1>4, UnsignalledSteps DEF CleanTerm, KillTarget
    <3> QED
      BY <2>1, <3>2, <3>3
  <2>2. CASE t # cur
    BY <1>3, <1>4, <2>2 DEF CleanTerm, At, Return, ReturnTo, LoopOf, Control, StopLocs
  <2> QED
    BY <2>1, <2>2
<1>5. ASSUME UNCHANGED <<todo, pc, caller>> PROVE Unsignalled(t)' = {}
  BY <1>3, <1>5
<1>6. CASE UNCHANGED vars \/ HandlerStep \/ Environment
  BY <1>5, <1>6 DEF vars, HandlerStep, Environment, HandlerEnter, HandlerEmpty, HandlerUnknown,
                    HandlerReap, Exit, Terminate, IntervalPasses, HeartbeatLate
<1>7. CASE Poll \/ LoopDone
  BY <1>3, <1>7 DEF Poll, LoopDone, At, Control, LoopLocs
<1>8. ASSUME NEW u \in Task, Dispatch(u) PROVE Unsignalled(t)' = {}
  BY <1>3, <1>8 DEF Dispatch, OnstartTask, TaskStart, TaskStopIdle, TaskStopRunning, Reload,
                    HeartbeatRecv, HeartbeatCheck, CleanTask, Serve, Call, At, Control, LoopLocs
<1>9. ASSUME NEW u \in Period, PeriodTask(u) PROVE Unsignalled(t)' = {}
  BY <1>9 DEF PeriodTask, Call, At, Control, LoopLocs
<1>10. CASE RunCommandRaises \/ StartEnvRaises
  BY <1>3, <1>10 DEF RunCommandRaises, StartEnvRaises, RunsCommand, PostLocs, Raise, ReturnTo, At,
                     Control, StartLocs, StopLocs
<1>11. CASE RunCommand \/ PreOver \/ PostOver \/ NoPost \/ ConflictOver \/ KillOver
  BY <1>3, <1>11
     DEF RunCommand, PreOver, PostOver, NoPost, ConflictOver, KillOver, CommandOver, Goto,
         AfterPost, WaitLoc, PostLocs, RunsCommand, Control, StartLocs, StopLocs
<1>12. CASE StartChecks \/ StartPopenFails \/ StartSetPid \/ StartSetRunning
            \/ SetRunningAgain \/ StartFailed
  BY <1>12 DEF StartChecks, StartPopenFails, StartSetPid, StartSetRunning, SetRunningAgain,
               StartFailed, StartSucceeded, Goto, Return, ReturnTo, LoopOf, At, Control, StartLocs
<1>13. CASE StopCommand \/ StopReturn
  BY <1>3, <1>13 DEF StopCommand, StopReturn, Goto, Return, ReturnTo, LoopOf, At, Control, StopLocs
<1> QED
  BY <1>1, <1>4, <1>6, <1>7, <1>8, <1>9, <1>10, <1>11, <1>12, <1>13
     DEF Next, MainStep, StartStep, StopStep

-----------------------------------------------------------------------------
(* The invariants. *)

\* The inductive invariant holds when main() enters its loop.
LEMMA InitIInv == Init => IInv
<1> SUFFICES ASSUME Init PROVE IInv
  OBVIOUS
<1>1. TypeOK
  BY InitTypeOK
<1>2. \A t \in Task : Unsignalled(t) = {}
  BY DEF Init, Unsignalled, Instances, IsLive, Free
<1>3. Control /\ Starting /\ Cleaning /\ Tracked
  BY <1>2, TaskAssumption DEF Init, Control, Starting, Cleaning, Tracked, StartLocs, StopLocs, LoopLocs, WaitLocs, Task
<1> QED
  BY <1>1, <1>3 DEF IInv

\* Every step of the main thread, the handler, a child or the environment keeps it.
LEMMA NextIInv == IInv /\ [Next]_vars => IInv'
BY NextTypeOK, NextControl, NextStarting, NextTracked, NextCleaning DEF IInv

\* In every reachable state the main thread's locals, the statuses, the pids and the
\* process table agree as the inductive invariant says.
THEOREM Invariance == Spec => []IInv
BY InitIInv, NextIInv, PTL DEF Spec

\* Every variable keeps its type, whatever tasks, pids and switches there are: the
\* statuses sigchld_handler and set_runtime_status assign are those of the task's type.
THEOREM TypeCorrect == Spec => []TypeOK
BY Invariance, PTL DEF IInv

\* No process of a task escapes the daemon: it was sent SIGTERM, or the task object
\* of a RUNNING task holds its pid, or start() is about to record it.
THEOREM TrackedAlways == Spec => []Tracked
BY Invariance, PTL DEF IInv

-----------------------------------------------------------------------------
(* The daemon implements Supervisor. *)

\* How a step moves the phase.
LEMMA PhaseSteps ==
  ASSUME IInv, [Next]_vars
  PROVE  \/ Phase' = Phase
         \/ Phase = "serving" /\ Phase' = "closing"
         \/ Phase = "closing" /\ Phase' = "closed" /\ todo = {} /\ pc = "clean" /\ UNCHANGED proc
<1> USE DEF IInv, Control, TypeOK, Phase, StartLocs, StopLocs, LoopLocs, WaitLocs, taskVars, sigVars
<1>1. CASE UNCHANGED vars \/ HandlerStep \/ Environment
  <2>1. UNCHANGED mainVars
    BY <1>1 DEF vars, HandlerStep, Environment, HandlerEnter, HandlerEmpty, HandlerUnknown,
                HandlerReap, Exit, Terminate, IntervalPasses, HeartbeatLate
  <2> QED
    BY <2>1 DEF mainVars
<1>2. CASE Poll \/ LoopDone
  BY <1>2 DEF Poll, LoopDone, At
<1>3. ASSUME NEW u \in Task, Dispatch(u)
      PROVE  Phase' = Phase
  BY <1>3 DEF Dispatch, OnstartTask, TaskStart, TaskStopIdle, TaskStopRunning, Reload,
              HeartbeatRecv, HeartbeatCheck, CleanTask, Serve, Call, At
<1>4. ASSUME NEW u \in Period, PeriodTask(u) PROVE Phase' = Phase
  BY <1>4 DEF PeriodTask, Call, At
<1>5. CASE RunCommandRaises \/ StartEnvRaises
  BY <1>5 DEF RunCommandRaises, StartEnvRaises, RunsCommand, PostLocs, Raise, ReturnTo, At
<1>6. CASE RunCommand \/ PreOver \/ PostOver \/ NoPost \/ ConflictOver \/ KillOver
  BY <1>6 DEF RunCommand, PreOver, PostOver, NoPost, ConflictOver, KillOver, CommandOver, Goto,
              AfterPost, WaitLoc, PostLocs, RunsCommand
<1>7. CASE StartChecks \/ StartPopen \/ StartPopenFails \/ StartSetPid \/ StartSetRunning
            \/ SetRunningAgain \/ StartFailed
  BY <1>7 DEF StartChecks, StartPopen, StartPopenFails, StartSetPid, StartSetRunning,
              SetRunningAgain, StartFailed, StartSucceeded, Goto, Return, ReturnTo, LoopOf, At
<1>8. CASE StopStep
  BY <1>8 DEF StopStep, StopCommand, StopReturn, CleanTerm, Goto, Return, ReturnTo, LoopOf, At
<1> QED
  BY <1>1, <1>2, <1>3, <1>4, <1>5, <1>6, <1>7, <1>8 DEF Next, MainStep, StartStep

\* The daemon starts up as the supervisor does: in service, no process unsignalled.
LEMMA InitSupervised == Init => Supervised!Init
BY DEF Init, Supervised!Init, Phase, Unsignalled, Instances, IsLive, Free

\* Every step of the daemon is a step of the supervisor, or changes nothing it sees.
LEMMA NextSupervised ==
  ASSUME IInv, [Next]_vars
  PROVE  [Supervised!Next]_Supervised!vars
<1> DEFINE R == [t \in Task |-> Unsignalled(t)]
<1>1. CASE StartPopen
  <2>1. cur \in Task /\ Unsignalled(cur) = {} /\ Phase = "serving" /\ Phase' = "serving"
    BY <1>1, StartHasNone
       DEF StartPopen, At, IInv, Control, StartLocs, Goto, Phase
  <2>2. PICK p \in Pids : CanFork(p) /\ proc' = Spawned(cur, p)
    BY <1>1 DEF StartPopen
  <2>3. \A u \in Task : p \notin Unsignalled(u)
    BY <2>2 DEF CanFork, Cleaned, Unsignalled, Instances, IsLive
  <2>4. \A u \in Task : Unsignalled(u)' = IF u = cur THEN {p} ELSE Unsignalled(u)
    BY <2>1, <2>2, UnsignalledSteps DEF IInv
  <2>5. R' = [R EXCEPT ![cur] = {p}]
    BY <2>1, <2>4
  <2>6. Supervised!Launch(cur, p)
    BY <2>1, <2>3, <2>5 DEF Supervised!Launch
  <2> QED
    BY <2>1, <2>2, <2>6 DEF Supervised!Next
<1>2. CASE ~StartPopen
  <2>1. \A t \in Task : Unsignalled(t)' \subseteq Unsignalled(t)
    BY <1>2, UnsignalledShrinks DEF IInv
  <2>2. R' \in [Task -> SUBSET Pids]
    BY DEF Unsignalled, Instances
  <2>3. CASE Phase' = Phase \/ (Phase = "serving" /\ Phase' = "closing")
    <3>1. Supervised!Leave
      BY <2>1, <2>2, <2>3 DEF Supervised!Leave
    <3> QED
      BY <3>1 DEF Supervised!Next
  <2>4. CASE Phase = "closing" /\ Phase' = "closed" /\ todo = {} /\ pc = "clean" /\ UNCHANGED proc
    <3>1. \A t \in Task : Unsignalled(t) = {}
      BY <2>4 DEF IInv, Cleaning
    <3>2. UNCHANGED R
      BY <2>4 DEF Unsignalled, Instances, IsLive
    <3>3. Supervised!Close
      BY <2>4, <3>1, <3>2 DEF Supervised!Close
    <3> QED
      BY <3>3 DEF Supervised!Next
  <2> QED
    BY <2>3, <2>4, PhaseSteps
<1> QED
  BY <1>1, <1>2

\* The daemon keeps the promise of Supervisor.tla: it never launches a second process
\* of a task beside one it has not told to terminate, launches none while it closes,
\* and a clean_child() that comes to its end leaves none that was not told.
THEOREM Refinement == Spec => SupervisedSpec
<1>1. Init => Supervised!Init
  BY InitSupervised
<1>2. IInv /\ [Next]_vars => [Supervised!Next]_Supervised!vars
  BY NextSupervised
<1> QED
  BY <1>1, <1>2, Invariance, PTL DEF Spec, SupervisedSpec, Supervised!Spec

-----------------------------------------------------------------------------
(* What start() has found out when it comes to Popen. *)

\* The process table P holds what proc holds, or less, or a command just spawned.
Quieter(P) ==
  \A p \in Pids :
    /\ P[p].st = "live" => \/ /\ IsLive(p)
                              /\ P[p].owner = proc[p].owner /\ P[p].cmd = proc[p].cmd
                           \/ CanFork(p) /\ P[p].owner = None /\ P[p].cmd = NoCmd
    /\ P[p].st = "zombie" => proc[p].st # "free"

\* Every operation on the process table but the Popen of a start() makes it quieter.
LEMMA QuieterOps ==
  ASSUME TypeOK
  PROVE  /\ Quieter(proc) /\ Quieter(Cleaned)
         /\ \A p \in Pids : CanFork(p) => Quieter(Spawned(None, p))
         /\ \A P \in [Pids -> ProcType] : \A S : Quieter(P) => Quieter(Signalled(P, S))
         /\ \A P \in [Pids -> ProcType], p \in Pids : Quieter(P) => Quieter([P EXCEPT ![p] = Free])
         /\ \A p \in Pids : IsLive(p) => Quieter([proc EXCEPT ![p] = Zombie])
<1> USE DEF TypeOK, ProcType, Quieter, IsLive
<1>1. Quieter(proc) /\ Quieter(Cleaned)
  BY DEF Cleaned, Free
<1>2. ASSUME NEW p \in Pids, CanFork(p) PROVE Quieter(Spawned(None, p))
  BY <1>2 DEF Spawned, Cleaned, Free
<1>3. ASSUME NEW P \in [Pids -> ProcType], NEW S, Quieter(P) PROVE Quieter(Signalled(P, S))
  BY <1>3 DEF Signalled
<1>4. ASSUME NEW P \in [Pids -> ProcType], NEW p \in Pids, Quieter(P)
      PROVE  Quieter([P EXCEPT ![p] = Free])
  BY <1>4 DEF Free
<1>5. ASSUME NEW p \in Pids, IsLive(p) PROVE Quieter([proc EXCEPT ![p] = Zombie])
  BY <1>5 DEF Zombie
<1> QED
  BY <1>1, <1>2, <1>3, <1>4, <1>5

\* Only the Popen of a start() gives a task a process.
LEMMA QuieterSteps ==
  ASSUME TypeOK, Control, [Next]_vars, ~StartPopen
  PROVE  Quieter(proc')
<1>0. proc \in [Pids -> ProcType] /\ Cleaned \in [Pids -> ProcType]
      /\ (\A p \in Pids : Spawned(None, p) \in [Pids -> ProcType])
      /\ (\A S : Signalled(proc, S) \in [Pids -> ProcType])
  BY ProcOps DEF TypeOK
<1>1. UNCHANGED proc \/ ForkFails => Quieter(proc')
  BY QuieterOps DEF ForkFails
<1>2. CASE UNCHANGED vars \/ Poll \/ LoopDone \/ HandlerEnter \/ HandlerEmpty \/ Terminate
  BY <1>1, <1>2 DEF vars, Poll, LoopDone, HandlerEnter, HandlerEmpty, Terminate
<1>3. ASSUME NEW u \in Task, Dispatch(u) PROVE Quieter(proc')
  <2>1. UNCHANGED proc \/ proc' = Signalled(proc, {pid[u]})
    BY <1>3 DEF Dispatch, OnstartTask, TaskStart, TaskStopIdle, TaskStopRunning, Reload,
                HeartbeatRecv, HeartbeatCheck, CleanTask
  <2> QED
    BY <1>0, <2>1, QuieterOps
<1>4. ASSUME NEW u \in Task, PeriodTask(u) \/ IntervalPasses(u) \/ HeartbeatLate(u)
      PROVE  Quieter(proc')
  BY <1>1, <1>4 DEF PeriodTask, IntervalPasses, HeartbeatLate
<1>5. CASE RunCommand
  BY <1>5, QuieterOps DEF RunCommand
<1>6. CASE RunCommandRaises \/ StartPopenFails
  BY <1>1, <1>6 DEF RunCommandRaises, StartPopenFails
<1>7. CASE PreOver \/ PostOver \/ ConflictOver \/ KillOver
  <2>1. child \in Pids
    BY <1>7 DEF PreOver, PostOver, ConflictOver, KillOver, CommandOver, Control, WaitLocs
  <2>2. proc' = Reaped \/ \E S : proc' = [Signalled(proc, S) EXCEPT ![child] = Free]
    BY <1>7 DEF PreOver, PostOver, ConflictOver, KillOver
  <2> QED
    BY <1>0, <2>1, <2>2, QuieterOps DEF Reaped
<1>8. CASE NoPost \/ StartChecks \/ StartEnvRaises \/ StartSetPid \/ SetRunningAgain
           \/ StartFailed \/ StopReturn
  BY <1>1, <1>8 DEF NoPost, StartChecks, StartEnvRaises, StartSetPid, SetRunningAgain,
                    StartFailed, StopReturn
<1>9. CASE StartSetRunning
  <2>1. child \in Pids
    BY <1>9 DEF StartSetRunning, At, Control
  <2>2. proc' = proc \/ proc' = [proc EXCEPT ![child] = Free]
    BY <1>0, <1>9, <2>1 DEF StartSetRunning
  <2> QED
    BY <1>0, <2>1, <2>2, QuieterOps
<1>10. CASE StopCommand
  <2>1. ASSUME NEW p \in Pids, NEW S, CanFork(p), proc' = Signalled(Spawned(None, p), S)
        PROVE  Quieter(proc')
    BY <1>0, <2>1, QuieterOps
  <2> QED
    BY <1>1, <1>10, <2>1 DEF StopCommand
<1>11. CASE CleanTerm
  BY <1>0, <1>11, QuieterOps DEF CleanTerm
<1>12. ASSUME NEW p \in Pids, Exit(p) PROVE Quieter(proc')
  BY <1>12, QuieterOps DEF Exit
<1>13. ASSUME NEW p \in Pids, HandlerUnknown(p) \/ (\E u \in Task : HandlerReap(p, u))
       PROVE  Quieter(proc')
  BY <1>0, <1>13, QuieterOps DEF HandlerUnknown, HandlerReap
<1> QED
  BY <1>2, <1>3, <1>4, <1>5, <1>6, <1>7, <1>8, <1>9, <1>10, <1>11, <1>12, <1>13
     DEF Next, MainStep, StartStep, StopStep, HandlerStep, Environment, Task

\* A new process of a task is the one its start() just spawned.
LEMMA OnlyPopen ==
  ASSUME TypeOK, Control, [Next]_vars, NEW t \in Task
  PROVE  /\ ~StartPopen => Instances(t)' \subseteq Instances(t)
         /\ t # cur => Instances(t)' \subseteq Instances(t)
<1>0. t # None
  BY TaskAssumption
<1>1. CASE ~StartPopen
  <2>1. Quieter(proc')
    BY <1>1, QuieterSteps
  <2> QED
    BY <1>0, <1>1, <2>1 DEF Quieter, Instances, IsLive
<1>2. CASE StartPopen
  <2>1. PICK p \in Pids : CanFork(p) /\ proc' = Spawned(cur, p)
    BY <1>2 DEF StartPopen
  <2>2. \A q \in Pids \ {p} : proc'[q] = Cleaned[q]
    BY <2>1 DEF Spawned, Cleaned
  <2>3. proc'[p].owner = cur
    BY <2>1 DEF Spawned, Cleaned
  <2>4. t # cur => Instances(t)' \subseteq Instances(t)
    BY <2>2, <2>3 DEF Cleaned, Free, Instances, IsLive
  <2> QED
    BY <1>2, <2>4
<1> QED
  BY <1>1, <1>2

\* No other step makes ps show a process more with the task_start in force.
LEMMA ListedShrinks ==
  ASSUME TypeOK, Control, [Next]_vars, ~StartPopen, NEW t \in Task, UNCHANGED conf
  PROVE  Listed(t)' \subseteq Listed(t)
<1>1. Quieter(proc')
  BY QuieterSteps
<1>2. conf[t].cmd # NoCmd
  BY CmdAssumption DEF TypeOK, ConfType
<1> QED
  BY <1>1, <1>2 DEF Quieter, Listed, IsLive

\* Between the checks of start() and Popen: task_pre has succeeded, and check_conflict has
\* found what the configuration asks for.  With conflict=down ps has shown no process.
Checked ==
  /\ pc \in {"conflict", "conflictwait", "kill", "killwait", "popen"} /\ cur \in HasPre => preDone[cur]
  /\ pc \in {"kill", "killwait"} => conf[cur].conflict = "kill"
  /\ pc = "popen" /\ conf[cur].conflict = "down" => Listed(cur) = {}

\* Every step keeps what start() has found out, for its task gets no process meanwhile.
LEMMA NextChecked == IInv /\ Checked /\ [Next]_vars => Checked'
<1> SUFFICES ASSUME IInv, Checked, [Next]_vars PROVE Checked'
  OBVIOUS
<1> USE DEF IInv
<1>0. pc = "popen" => cur \in Task
  BY DEF Control, StartLocs
<1>1. ASSUME UNCHANGED <<conf, pc, cur>>, preDone' = preDone, ~StartPopen PROVE Checked'
  BY <1>0, <1>1, ListedShrinks DEF Checked
<1>2. ASSUME pc' \notin {"conflict", "conflictwait", "kill", "killwait", "popen"} PROVE Checked'
  BY <1>2 DEF Checked
<1> USE DEF taskVars, sigVars, mainVars
<1>3. CASE UNCHANGED vars \/ HandlerStep \/ Environment
  <2>1. UNCHANGED <<conf, pc, cur, preDone>> /\ ~StartPopen
    BY <1>3 DEF vars, HandlerStep, Environment, HandlerEnter, HandlerEmpty, HandlerUnknown,
                HandlerReap, Exit, Terminate, IntervalPasses, HeartbeatLate, StartPopen, Goto, At
  <2> QED
    BY <1>1, <2>1
<1>4. CASE Poll \/ LoopDone
  BY <1>2, <1>4 DEF Poll, LoopDone, At
<1>5. ASSUME NEW t \in Task, Dispatch(t) PROVE Checked'
  BY <1>2, <1>5 DEF Dispatch, OnstartTask, TaskStart, TaskStopIdle, TaskStopRunning, Reload,
                    HeartbeatRecv, HeartbeatCheck, CleanTask, Serve, Call, At
<1>6. ASSUME NEW t \in Period, PeriodTask(t) PROVE Checked'
  BY <1>2, <1>6 DEF PeriodTask, Call, At
<1>7. CASE RunCommand
  BY <1>7 DEF RunCommand, RunsCommand, PostLocs, PostForgetsPre, Goto, WaitLoc, Checked
<1>8. CASE RunCommandRaises \/ StartEnvRaises
  BY <1>2, <1>8 DEF RunCommandRaises, StartEnvRaises, Raise, ReturnTo
<1>9. CASE PreOver \/ PostOver \/ NoPost
  BY <1>2, <1>9 DEF PreOver, PostOver, NoPost, Goto, AfterPost
<1>10. CASE ConflictOver
  <2>1. pc = "conflictwait" /\ cur \in Task /\ UNCHANGED <<conf, preDone, cur>>
        /\ pc' \in {"popen", "kill", "failed"}
    BY <1>10 DEF ConflictOver, CommandOver, Control, StartLocs, Goto
  <2>2. pc' = "kill" => conf[cur].conflict = "kill"
    BY <1>10 DEF ConflictOver, Goto
  <2>3. pc' = "popen" => Listed(cur) = {}
    BY <1>10 DEF ConflictOver, Goto
  <2>4. Listed(cur)' \subseteq Listed(cur)
    <3>1. ~StartPopen
      BY <2>1 DEF StartPopen, At
    <3> QED
      BY <2>1, <3>1, ListedShrinks
  <2> QED
    BY <2>1, <2>2, <2>3, <2>4 DEF Checked
<1>11. CASE KillOver
  BY <1>11 DEF KillOver, CommandOver, Goto, Checked
<1>12. CASE StartChecks
  <2>1. pc = "start" /\ cur \in Task /\ caller \in {"onstart", "control", "period"}
        /\ (cur \in HasPre => preDone[cur]) /\ UNCHANGED <<conf, preDone>>
    BY <1>12 DEF StartChecks, RunsCommand, At, Control, StartLocs
  <2>2. CASE StartSucceeded
    BY <1>2, <2>1, <2>2 DEF StartSucceeded, Return, ReturnTo, LoopOf, Goto
  <2>3. CASE Goto(IF conf[cur].conflict = "up" THEN "popen" ELSE "conflict")
    BY <2>1, <2>3 DEF Goto, Checked
  <2> QED
    BY <1>12, <2>2, <2>3 DEF StartChecks
<1>13. CASE StartPopen \/ StartPopenFails \/ StartSetPid \/ StartSetRunning \/ SetRunningAgain
            \/ StartFailed
  BY <1>2, <1>13 DEF StartPopen, StartPopenFails, StartSetPid, StartSetRunning, SetRunningAgain,
                     StartFailed, StartSucceeded, Goto, Return, ReturnTo, LoopOf, At, Control, StartLocs
<1>14. CASE StopStep
  BY <1>2, <1>14 DEF StopStep, StopCommand, StopReturn, CleanTerm, Goto, Return, ReturnTo, LoopOf, At,
                     Control, StopLocs
<1> QED
  BY <1>3, <1>4, <1>5, <1>6, <1>7, <1>8, <1>9, <1>10, <1>11, <1>12, <1>13, <1>14
     DEF Next, MainStep, StartStep

\* In every reachable state start() has checked what it relies on.
LEMMA CheckedAlways == Spec => []Checked
<1>1. Init => Checked
  BY DEF Init, Checked
<1> QED
  BY <1>1, NextChecked, Invariance, PTL DEF Spec

\* A step that gives task t a process is the Popen of t's start().
LEMMA NewProcess ==
  ASSUME TypeOK, Control, [Next]_vars, NEW t \in Task, Instances(t)' \ Instances(t) # {}
  PROVE  StartPopen /\ cur = t /\ pc = "popen"
BY OnlyPopen DEF StartPopen, At

\* ConflictRefused: check_conflict with conflict=down starts no task while a process runs
\* that ps shows with the task_start in force, although children come and go between ps
\* and Popen, and reloads have changed task_start any number of times.
THEOREM ConflictAlways == Spec => ConflictRefused
<1>1. IInv /\ Checked /\ [Next]_vars
        => [\A t \in Task :
              conf[t].conflict = "down" /\ conf[t].cmd \in Plain /\ Instances(t)' \ Instances(t) # {}
                => ~\E p \in Pids : IsLive(p) /\ proc[p].cmd = conf[t].cmd]_vars
  BY NewProcess DEF IInv, Checked, Listed
<1> QED
  BY <1>1, CheckedAlways, Invariance, PTL DEF Spec, ConflictRefused

\* PreparedBeforeStart: no task with a task_pre command is started unless that command has
\* succeeded since the last post().
THEOREM PreparedAlways == Spec => PreparedBeforeStart
<1>1. IInv /\ Checked /\ [Next]_vars
        => [\A t \in HasPre : Instances(t)' \ Instances(t) # {} => preDone[t]]_vars
  BY NewProcess, TaskAssumption DEF IInv, Checked
<1> QED
  BY <1>1, CheckedAlways, Invariance, PTL DEF Spec, PreparedBeforeStart

-----------------------------------------------------------------------------
(* A stop sticks. *)

\* The kernel hands out no pid that a task remembers, and no configuration of a period task
\* has a heartbeat.  Without either an exit may be taken for that of a task that was stopped
\* in the meantime, which waits for its next turn then.
NoMixup == ~PidReuse /\ \A t \in Period : \A c \in Conf[t] : ~c.hb

\* No period task is timed out.
NoTimeout == \A t \in Period : ~conf[t].hb /\ ~hbSeen[t]

\* A period task whose process has not been reaped is RUNNING, or about to be.
Present ==
  \A t \in Period : pid[t] \in Pids /\ proc[pid[t]].st # "free" =>
    status[t] = "RUNNING" \/ (cur = t /\ pc = "setrun")

\* A task whose stop() succeeded neither waits nor will when its process exits.
Stopping ==
  \A t \in Period : asked[t] = "stop" =>
    status[t] # "WAITING" /\ (status[t] = "RUNNING" => ~periodEnabled[t])

\* The task being started was not stopped by the operator; before main_loop() none was.
Wanted ==
  /\ pc = "onstart" \/ caller = "onstart" => \A t \in Task : asked[t] = "run"
  /\ pc \in StartLocs => asked[cur] = "run"

StopInv == NoTimeout /\ Present /\ Stopping /\ Wanted

\* No configuration brings a heartbeat in.
LEMMA NextNoTimeout ==
  ASSUME NoMixup
  PROVE  IInv /\ NoTimeout /\ [Next]_vars => NoTimeout'
<1> SUFFICES ASSUME IInv, NoTimeout, [Next]_vars PROVE NoTimeout'
  OBVIOUS
<1>0. conf \in [Task -> ConfType] /\ hbSeen \in [Task -> BOOLEAN] /\ Period \subseteq Task
  BY DEF IInv, TypeOK, Task
<1>1. CASE UNCHANGED <<conf, hbSeen>>
  BY <1>1 DEF NoTimeout
<1>2. ASSUME NEW t \in Task, Reload(t) PROVE NoTimeout'
  <2>1. PICK c \in Conf[t] : conf' = [conf EXCEPT ![t] = c]
    BY <1>2 DEF Reload
  <2>2. t \in Period => ~c.hb
    BY <2>1 DEF NoMixup
  <2>3. hbSeen' = hbSeen
    BY <1>2 DEF Reload, taskVars
  <2> QED
    BY <1>0, <2>1, <2>2, <2>3 DEF NoTimeout
<1>3. ASSUME NEW t \in Task, HeartbeatRecv(t) PROVE NoTimeout'
  BY <1>0, <1>3 DEF HeartbeatRecv, NoTimeout
<1>4. CASE StartSetRunning
  BY <1>0, <1>4 DEF StartSetRunning, At, NoTimeout
<1>5. ASSUME NEW t \in Task, OnstartTask(t) \/ TaskStart(t) \/ TaskStopIdle(t) \/ TaskStopRunning(t)
                             \/ HeartbeatCheck(t) \/ CleanTask(t) \/ PeriodTask(t)
      PROVE  UNCHANGED <<conf, hbSeen>>
  BY <1>5 DEF OnstartTask, TaskStart, TaskStopIdle, TaskStopRunning, HeartbeatCheck, CleanTask,
              PeriodTask, taskVars
<1>6. CASE Poll \/ LoopDone \/ StopStep \/ HandlerStep \/ Environment \/ UNCHANGED vars
  <2>1. UNCHANGED <<conf, hbSeen>>
    BY <1>6 DEF Poll, LoopDone, StopStep, StopCommand, StopReturn, CleanTerm, HandlerStep, HandlerEnter,
                HandlerEmpty, HandlerUnknown, HandlerReap, Environment, Exit, Terminate, IntervalPasses,
                HeartbeatLate, vars, taskVars
  <2> QED
    BY <1>1, <2>1
<1>7. CASE StartStep /\ ~StartSetRunning
  <2>1. UNCHANGED <<conf, hbSeen>>
    BY <1>7 DEF StartStep, RunCommand, RunCommandRaises, PreOver, PostOver, NoPost, ConflictOver, KillOver,
                StartChecks, StartPopen, StartPopenFails, StartEnvRaises, StartSetPid, SetRunningAgain,
                StartFailed, taskVars
  <2> QED
    BY <1>1, <2>1
<1> QED
  BY <1>0, <1>1, <1>2, <1>3, <1>4, <1>5, <1>6, <1>7 DEF Next, MainStep, Dispatch

\* No step but the recording of a pid gives a task's pid a process that was not there.
LEMMA PidsKept ==
  ASSUME NoMixup, IInv, [Next]_vars, ~StartSetPid, NEW t \in Period
  PROVE  /\ pid'[t] = pid[t]
         /\ pid[t] \in Pids /\ proc'[pid[t]].st # "free" => proc[pid[t]].st # "free"
<1> USE DEF IInv
<1>0. t \in Task
  BY DEF Task
<1>1. pid' = pid
  BY DEF Next, MainStep, Dispatch, StartStep, StopStep, HandlerStep, Environment, OnstartTask, TaskStart,
         TaskStopIdle, TaskStopRunning, Reload, HeartbeatRecv, HeartbeatCheck, CleanTask, PeriodTask, Poll,
         LoopDone, RunCommand, RunCommandRaises, PreOver, PostOver, NoPost, ConflictOver, KillOver,
         StartChecks, StartPopen, StartPopenFails, StartEnvRaises, StartSetRunning, SetRunningAgain,
         StartFailed, StopCommand, StopReturn, CleanTerm, HandlerEnter, HandlerEmpty, HandlerUnknown,
         HandlerReap, Exit, Terminate, IntervalPasses, HeartbeatLate, vars, taskVars
<1>2. ASSUME pid[t] \in Pids PROVE ~CanFork(pid[t])
  BY <1>0 DEF CanFork, NoMixup
<1>3. CASE StartPopen
  <2>1. PICK p \in Pids : CanFork(p) /\ proc' = Spawned(cur, p)
    BY <1>3 DEF StartPopen
  <2>2. \A q \in Pids \ {p} : proc'[q] = Cleaned[q]
    BY <2>1 DEF Spawned, Cleaned
  <2>3. \A q \in Pids : Cleaned[q].st # "free" => proc[q].st # "free"
    BY DEF Cleaned, Free
  <2> QED
    BY <1>1, <1>2, <2>1, <2>2, <2>3
<1>4. CASE ~StartPopen
  <2>1. Quieter(proc')
    BY <1>4, QuieterSteps
  <2>2. ASSUME NEW q \in Pids, ~CanFork(q), proc'[q].st # "free" PROVE proc[q].st # "free"
    <3>1. proc'[q].st \in {"live", "zombie"}
      <4>1. TypeOK'
        BY NextTypeOK
      <4> QED
        BY <2>2, <4>1 DEF TypeOK, ProcType
    <3> QED
      BY <2>1, <2>2, <3>1 DEF Quieter, IsLive
  <2> QED
    BY <1>1, <1>2, <2>2
<1> QED
  BY <1>3, <1>4

\* What the steps do to the status of a period task that nobody times out.
LEMMA StatusSteps ==
  ASSUME IInv, NoTimeout, [Next]_vars, NEW t \in Period, status'[t] # status[t]
  PROVE  \/ cur = t /\ pc \in {"setrun", "again"} /\ status'[t] = "RUNNING"
         \/ status[t] # "RUNNING" /\ status'[t] \in {"EXITED", "FAILED"} /\ pc # "setrun"
         \/ /\ pid[t] \in Pids /\ proc[pid[t]].st = "zombie" /\ proc'[pid[t]].st = "free"
            /\ (status'[t] = "WAITING" => periodEnabled[t])
            /\ status'[t] \in {"WAITING", "EXITED", "FAILED"}
            /\ UNCHANGED <<pid, mainVars, asked, periodEnabled>>
<1> USE DEF IInv
<1>0. t \in Task /\ status \in [Task -> OneshotStatus \cup PeriodStatus]
  BY DEF TypeOK, Task
<1>1. ASSUME NEW u \in Task, TaskStopIdle(u)
      PROVE  status[t] # "RUNNING" /\ status'[t] \in {"EXITED", "FAILED"} /\ pc # "setrun"
  BY <1>0, <1>1 DEF TaskStopIdle, Serve, At
<1>2. ASSUME NEW u \in Task, HeartbeatCheck(u) PROVE FALSE
  BY <1>0, <1>2 DEF HeartbeatCheck, NoTimeout
<1>3. ASSUME NEW u \in Period, PeriodTask(u)
      PROVE  status[t] # "RUNNING" /\ status'[t] \in {"EXITED", "FAILED"} /\ pc # "setrun"
  <2>1. u = t /\ ~ran[u] /\ status'[t] = "EXITED"
    BY <1>0, <1>3 DEF PeriodTask
  <2>2. pc # "setrun"
    BY <1>3 DEF PeriodTask, At
  <2> QED
    BY <2>1, <2>2 DEF Starting
<1>4. CASE PreOver \/ StartPopenFails
  <2>1. pc \in {"prewait", "popen"}
    BY <1>4 DEF PreOver, CommandOver, StartPopenFails, At
  <2>2. cur = t /\ status'[t] = "FAILED"
    BY <1>0, <1>4 DEF PreOver, StartPopenFails
  <2> QED
    BY <2>1, <2>2 DEF Starting, StartLocs
<1>5. CASE StartSetRunning \/ SetRunningAgain
  BY <1>0, <1>5 DEF StartSetRunning, SetRunningAgain, At
<1>6. CASE StopReturn
  BY <1>0, <1>6 DEF StopReturn, At
<1>7. ASSUME NEW p \in Pids, NEW u \in Task, HandlerReap(p, u)
      PROVE  /\ pid[t] \in Pids /\ proc[pid[t]].st = "zombie" /\ proc'[pid[t]].st = "free"
             /\ (status'[t] = "WAITING" => periodEnabled[t])
             /\ status'[t] \in {"WAITING", "EXITED", "FAILED"}
             /\ UNCHANGED <<pid, mainVars, asked, periodEnabled>>
  <2>1. u = t /\ pid[t] = p /\ proc[p].st = "zombie" /\ status'[t] \in ExitStatus(t)
    BY <1>0, <1>7 DEF HandlerReap
  <2>2. proc'[p].st = "free"
    BY <1>7 DEF HandlerReap, Free, TypeOK
  <2>3. ExitStatus(t) \subseteq {"WAITING", "EXITED", "FAILED"} /\ ("WAITING" \in ExitStatus(t) => periodEnabled[t])
    BY DEF ExitStatus
  <2> QED
    BY <1>7, <2>1, <2>2, <2>3 DEF HandlerReap
<1> QED
  BY <1>1, <1>2, <1>3, <1>4, <1>5, <1>6, <1>7
     DEF Next, MainStep, Dispatch, StartStep, StopStep, HandlerStep, Environment, OnstartTask, TaskStart,
         TaskStopRunning, Reload, HeartbeatRecv, CleanTask, Poll, LoopDone, RunCommand, RunCommandRaises,
         PostOver, NoPost, ConflictOver, KillOver, StartChecks, StartPopen, StartEnvRaises, StartSetPid,
         StartFailed, StopCommand, CleanTerm, HandlerEnter, HandlerEmpty, HandlerUnknown, Exit, Terminate,
         IntervalPasses, HeartbeatLate, vars, taskVars

\* A period task stays RUNNING until its process is reaped.
LEMMA NextPresent ==
  ASSUME NoMixup
  PROVE  IInv /\ NoTimeout /\ Present /\ [Next]_vars => Present'
<1> SUFFICES ASSUME IInv, NoTimeout, Present, [Next]_vars, NEW t \in Period,
                    pid'[t] \in Pids, proc'[pid'[t]].st # "free"
             PROVE  status'[t] = "RUNNING" \/ (cur' = t /\ pc' = "setrun")
  BY DEF Present
<1>0. t \in Task /\ pid \in [Task -> Pids \cup {NoPid}] /\ status \in [Task -> OneshotStatus \cup PeriodStatus]
  BY DEF IInv, TypeOK, Task
<1>1. CASE StartSetPid
  <2>1. CASE cur = t
    BY <1>1, <2>1 DEF StartSetPid, Goto
  <2>2. CASE cur # t
    BY <1>0, <1>1, <2>2 DEF StartSetPid, At, Present
  <2> QED
    BY <2>1, <2>2
<1>2. CASE ~StartSetPid
  <2>1. status[t] = "RUNNING" \/ (cur = t /\ pc = "setrun")
    BY <1>2, PidsKept DEF Present
  <2>2. CASE status'[t] # status[t]
    BY <2>1, <2>2, StatusSteps
  <2>3. CASE status'[t] = status[t] /\ status[t] # "RUNNING"
    <3>1. ~StartSetRunning
      BY <1>0, <2>1, <2>3 DEF StartSetRunning, At, IInv, TypeOK
    <3>2. UNCHANGED <<cur, pc>>
      BY <2>1, <2>3, <3>1
         DEF Next, MainStep, Dispatch, StartStep, StopStep, HandlerStep, Environment, OnstartTask, TaskStart,
             TaskStopIdle, TaskStopRunning, Reload, HeartbeatRecv, HeartbeatCheck, CleanTask, PeriodTask, Poll,
             LoopDone, RunCommand, RunCommandRaises, RunsCommand, PostLocs, PreOver, PostOver, NoPost,
             ConflictOver, KillOver, CommandOver, StartChecks, StartPopen, StartPopenFails, StartEnvRaises,
             StartSetPid, SetRunningAgain, StartFailed, StopCommand, StopReturn, CleanTerm, HandlerEnter,
             HandlerEmpty, HandlerUnknown, HandlerReap, Exit, Terminate, IntervalPasses, HeartbeatLate, vars,
             mainVars, Serve, At
    <3> QED
      BY <2>1, <2>3, <3>2
  <2> QED
    BY <2>1, <2>2, <2>3
<1> QED
  BY <1>1, <1>2

\* Only the operator changes what was asked, and only the checks of start() enable a task.
LEMMA AskedSteps ==
  ASSUME IInv, [Next]_vars, NEW t \in Period
  PROVE  /\ asked'[t] = "stop" /\ asked[t] # "stop"
              => /\ status'[t] \notin {"WAITING", "RUNNING"} \/ (status'[t] = "RUNNING" /\ ~periodEnabled'[t])
                 /\ pc = "events"
         /\ periodEnabled'[t] /\ ~periodEnabled[t] => cur = t /\ pc = "start"
<1> USE DEF IInv
<1>0. t \in Task /\ asked \in [Task -> {"run", "stop"}] /\ status \in [Task -> OneshotStatus \cup PeriodStatus]
      /\ periodEnabled \in [Task -> BOOLEAN]
  BY DEF TypeOK, Task
<1>1. CASE UNCHANGED <<asked, periodEnabled>>
  BY <1>1
<1>2. ASSUME NEW u \in Task, TaskStart(u) PROVE asked'[t] \in {asked[t], "run"} /\ UNCHANGED periodEnabled
  BY <1>0, <1>2 DEF TaskStart, taskVars
<1>3. ASSUME NEW u \in Task, TaskStopIdle(u)
      PROVE  /\ asked'[t] = "stop" /\ asked[t] # "stop" => status'[t] \notin {"WAITING", "RUNNING"}
             /\ UNCHANGED periodEnabled /\ pc = "events"
  BY <1>0, <1>3 DEF TaskStopIdle, Serve, At
<1>4. ASSUME NEW u \in Task, TaskStopRunning(u)
      PROVE  /\ asked'[t] = "stop" /\ asked[t] # "stop" => status'[t] = "RUNNING" /\ ~periodEnabled'[t]
             /\ (periodEnabled'[t] => periodEnabled[t]) /\ pc = "events"
  BY <1>0, <1>4 DEF TaskStopRunning, Serve, At
<1>5. ASSUME NEW u \in Task, CleanTask(u)
      PROVE  (periodEnabled'[t] => periodEnabled[t]) /\ UNCHANGED asked
  BY <1>0, <1>5 DEF CleanTask
<1>6. CASE StartChecks
  BY <1>0, <1>6 DEF StartChecks, At
<1> QED
  BY <1>1, <1>2, <1>3, <1>4, <1>5, <1>6
     DEF Next, MainStep, Dispatch, StartStep, StopStep, HandlerStep, Environment, OnstartTask, Reload,
         HeartbeatRecv, HeartbeatCheck, PeriodTask, Poll, LoopDone, RunCommand, RunCommandRaises, PreOver,
         PostOver, NoPost, ConflictOver, KillOver, StartPopen, StartPopenFails, StartEnvRaises, StartSetPid,
         StartSetRunning, SetRunningAgain, StartFailed, StopCommand, StopReturn, CleanTerm, HandlerEnter,
         HandlerEmpty, HandlerUnknown, HandlerReap, Exit, Terminate, IntervalPasses, HeartbeatLate, vars, taskVars

\* A start() is under way only for a task that nobody stopped: the period loop starts what
\* waits, main_loop() begins before anybody is served, and control means that it is asked for.
LEMMA NextWanted == IInv /\ Stopping /\ Wanted /\ [Next]_vars => Wanted'
<1> SUFFICES ASSUME IInv, Stopping, Wanted, [Next]_vars PROVE Wanted'
  OBVIOUS
<1> USE DEF IInv, Control, StartLocs, StopLocs, LoopLocs, WaitLocs, taskVars, sigVars
<1>0. asked \in [Task -> {"run", "stop"}] /\ Period \subseteq Task
  BY DEF TypeOK, Task
<1>1. ASSUME asked' = asked, cur' = cur, caller' = caller, pc' \in StartLocs => pc \in StartLocs,
             pc' = "onstart" => pc = "onstart"
      PROVE  Wanted'
  BY <1>1 DEF Wanted
<1>2. ASSUME asked' = asked, pc' \notin StartLocs, caller' = "none",
             pc' = "onstart" => pc = "onstart" \/ caller = "onstart"
      PROVE  Wanted'
  BY <1>2 DEF Wanted
<1>3. CASE UNCHANGED vars \/ HandlerStep \/ Environment
  <2>1. UNCHANGED <<mainVars, asked>>
    BY <1>3 DEF vars, HandlerStep, Environment, HandlerEnter, HandlerEmpty, HandlerUnknown,
                HandlerReap, Exit, Terminate, IntervalPasses, HeartbeatLate
  <2> QED
    BY <1>1, <2>1 DEF mainVars
<1>4. CASE Poll \/ LoopDone
  BY <1>1, <1>4 DEF Poll, LoopDone, At
<1>5. ASSUME NEW t \in Task, OnstartTask(t) PROVE Wanted'
  BY <1>5 DEF OnstartTask, Call, At, Wanted
<1>6. ASSUME NEW t \in Task, TaskStart(t) PROVE Wanted'
  BY <1>0, <1>6 DEF TaskStart, Serve, Call, At, Wanted
<1>7. ASSUME NEW t \in Task, TaskStopIdle(t) \/ TaskStopRunning(t) \/ CleanTask(t) PROVE Wanted'
  BY <1>7 DEF TaskStopIdle, TaskStopRunning, CleanTask, Serve, Call, At, Wanted
<1>8. ASSUME NEW t \in Task, Reload(t) \/ HeartbeatRecv(t) \/ HeartbeatCheck(t) PROVE Wanted'
  BY <1>1, <1>8 DEF Reload, HeartbeatRecv, HeartbeatCheck
<1>9. ASSUME NEW t \in Period, PeriodTask(t) PROVE Wanted'
  <2>1. asked' = asked /\ pc = "period"
    BY <1>9 DEF PeriodTask, At
  <2>2. CASE UNCHANGED <<pc, caller, cur>>
    BY <1>1, <2>1, <2>2
  <2>3. CASE status[t] = "WAITING" /\ Call(t, "period", "start")
    <3>1. asked[t] = "run"
      BY <1>0, <2>3 DEF Stopping
    <3> QED
      BY <2>1, <2>3, <3>1 DEF Call, Wanted
  <2> QED
    BY <1>9, <2>2, <2>3 DEF PeriodTask, ReadyToRun
<1>10. CASE RunCommand
  BY <1>1, <1>10 DEF RunCommand, RunsCommand, PostLocs, Goto, WaitLoc
<1>11. CASE RunCommandRaises \/ StartEnvRaises
  BY <1>2, <1>11 DEF RunCommandRaises, StartEnvRaises, RunsCommand, PostLocs, Raise, ReturnTo, At
<1>12. CASE PreOver \/ PostOver \/ NoPost \/ ConflictOver \/ KillOver
  BY <1>1, <1>12 DEF PreOver, PostOver, NoPost, ConflictOver, KillOver, CommandOver, Goto, AfterPost, PostLocs
<1>13. CASE StartChecks \/ StartPopen \/ StartPopenFails \/ StartSetPid \/ StartSetRunning
             \/ SetRunningAgain \/ StartFailed
  BY <1>1, <1>2, <1>13 DEF StartChecks, StartPopen, StartPopenFails, StartSetPid, StartSetRunning,
     SetRunningAgain, StartFailed, StartSucceeded, Goto, Return, ReturnTo, LoopOf, At
<1>14. CASE StopStep
  BY <1>1, <1>2, <1>14 DEF StopStep, StopCommand, StopReturn, CleanTerm, Goto, Return, ReturnTo, LoopOf, At
<1> QED
  BY <1>3, <1>4, <1>5, <1>6, <1>7, <1>8, <1>9, <1>10, <1>11, <1>12, <1>13, <1>14
     DEF Next, MainStep, Dispatch, StartStep

\* A stopped task goes back neither to WAITING nor to RUNNING with its next turn ahead.
LEMMA NextStopping ==
  ASSUME NoMixup
  PROVE  IInv /\ StopInv /\ [Next]_vars => Stopping'
<1> SUFFICES ASSUME IInv, StopInv, [Next]_vars, NEW t \in Period, asked'[t] = "stop"
             PROVE  status'[t] # "WAITING" /\ (status'[t] = "RUNNING" => ~periodEnabled'[t])
  BY DEF Stopping
<1> USE DEF StopInv
<1>1. CASE asked[t] # "stop"
  BY <1>1, AskedSteps
<1>2. CASE asked[t] = "stop"
  <2>0. status[t] # "WAITING" /\ (status[t] = "RUNNING" => ~periodEnabled[t])
    BY <1>2 DEF Stopping
  <2>1. ~(cur = t /\ pc \in StartLocs)
    BY <1>2 DEF Wanted
  <2>2. periodEnabled'[t] => periodEnabled[t]
    BY <2>1, AskedSteps DEF StartLocs
  <2>3. CASE status'[t] = status[t]
    BY <2>0, <2>2, <2>3
  <2>4. CASE status'[t] # status[t]
    <3>1. pid[t] \in Pids /\ proc[pid[t]].st # "free" => status[t] = "RUNNING"
      BY <2>1 DEF Present, StartLocs
    <3> QED
      BY <2>0, <2>1, <2>4, <3>1, StatusSteps DEF StartLocs
  <2> QED
    BY <2>3, <2>4
<1> QED
  BY <1>1, <1>2

\* StopSticks: while no exit can be mixed up with another, a period task that the operator
\* stopped is not run again by the period loop, whenever its process exits.
THEOREM StopAlways ==
  ASSUME NoMixup
  PROVE  Spec => StopSticks
<1>1. Init => StopInv
  <2> SUFFICES ASSUME Init PROVE StopInv
    OBVIOUS
  <2>1. NoTimeout
    BY DEF Init, InitialConf, NoTimeout, NoMixup, Task
  <2>2. Present /\ Stopping /\ Wanted
    BY PidAssumption DEF Init, Present, Stopping, Wanted, StartLocs, Task
  <2> QED
    BY <2>1, <2>2 DEF StopInv
<1>2. IInv /\ StopInv /\ [Next]_vars => StopInv'
  BY NextNoTimeout, NextPresent, NextStopping, NextWanted DEF StopInv
<1>3. IInv /\ StopInv /\ [Next]_vars
        => [\A t \in Period : Instances(t)' \ Instances(t) # {} /\ caller = "period"
                                => asked[t] = "run"]_vars
  <2> SUFFICES ASSUME IInv, StopInv, [Next]_vars, NEW t \in Period, Instances(t)' \ Instances(t) # {}
               PROVE  asked[t] = "run"
    OBVIOUS
  <2>1. cur = t /\ pc = "popen"
    BY NewProcess DEF IInv, Task
  <2> QED
    BY <2>1 DEF StopInv, Wanted, StartLocs
<1> QED
  BY <1>1, <1>2, <1>3, Invariance, PTL DEF Spec, StopSticks

=============================================================================
