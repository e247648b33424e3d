------------------------------- MODULE BmcRas -------------------------------
(***************************************************************************)
(* bmc_ras_sentry: one life of the plugin.  The main thread reads the      *)
(* configuration, starts the worker and waits for a signal or for the      *)
(* worker's end; configMonitor adopts a changed configuration; the worker  *)
(* reads the BMC's list of events page by page, passes the subscribed ones *)
(* to xalarmd, and waits for a patrol interval.                            *)
(*                                                                         *)
(* A configuration is the set of the codes of the events it subscribes to: *)
(* the log level and the interval only matter to the time things take.     *)
(* The tables of disks, read once when the program starts, decorate the    *)
(* alarms and are left out.                                                *)
(***************************************************************************)
EXTENDS Naturals, Sequences, FiniteSetsExt, SequencesExt

CONSTANTS
  Events,      \* events the BMC may list
  Lists,       \* the lists it may begin with
  Code,        \* of each: its alarm type code
  BlockCode,   \* BMC_BLOCK_IO_CODE: what needs the BMC's detection of slow disks
  Configs,     \* the sets of codes that the configuration file may name
  Bad,         \* a configuration ParseConfig refuses
  Types,       \* kinds of disks with a switch of their own in the BMC
  PageSize,    \* events the BMC puts into one response
  MaxChanges,  \* bound: changes of the BMC's list and of the configuration file
  MaxFaults    \* bound: calls that fail

ASSUME ConfigAssumption == Bad \notin Configs /\ Configs \subseteq SUBSET (Range(Code) \cup {BlockCode})
ASSUME ListAssumption == \A l \in Lists : l \in Seq(Events) /\ IsInjective(l)
ASSUME BoundAssumption == Types # {} /\ PageSize \in Nat \ {0} /\ MaxChanges \in Nat /\ MaxFaults \in Nat

VARIABLES
  main, monitor, worker, \* where each thread is
  setter,   \* where the one call of SetBMCEvents is: of main, later of configMonitor
  todo,     \* the kinds of disks it has not come to
  exit,     \* g_exit
  running,  \* m_running
  mutex,    \* who holds m_mutex between two steps
  file,     \* the configuration file
  changed,  \* its time is not the last one configMonitor saw
  config,   \* the configuration adopted last
  open,     \* m_BMCOpenEvents
  ours,     \* m_BMCBlockIoChange
  switch,   \* the BMC's switches
  list,     \* the BMC's events, the newest first
  index, page, total, \* QueryEvents: currentIndex, what is left of the response, totalEvents
  ret,      \* of the last QueryEvents
  results,  \* the results told to syssentry
  changes, faults,
  first,    \* history: the switches before the program touched them
  failed,   \* history: the kinds of disks a command failed for
  sent,     \* history: per event, how often this query passed it to xalarm_Report
  done,     \* history: the events xalarmd has got
  stable,   \* history: the list has not changed since this query began
  kept      \* history: the codes subscribed all through this query

threads == <<main, monitor, worker>>
setting == <<setter, todo, open, ours, switch, failed>>
query == <<index, page, total, ret, sent, stable, kept>>
shared == <<exit, running, mutex>>
conf == <<file, changed, config>>
vars == <<threads, setting, query, shared, conf, list, results, changes, faults, first, done>>

Init ==
  /\ main = "parse" /\ monitor = "none" /\ worker = "none" /\ setter = "idle" /\ todo = {}
  /\ exit = FALSE /\ running = FALSE /\ mutex = "free"
  /\ file \in Configs \cup {Bad} /\ changed = FALSE /\ config = {} /\ open = {}
  /\ ours = [t \in Types |-> FALSE] /\ switch \in [Types -> BOOLEAN] /\ first = switch
  /\ list \in Lists /\ index = 0 /\ page = << >> /\ total = 0 /\ ret = "ok" /\ results = << >>
  /\ changes = 0 /\ faults = 0 /\ failed = {}
  /\ sent = [e \in Events |-> 0] /\ done = {} /\ stable = FALSE /\ kept = {}

Fault == faults < MaxFaults /\ faults' = faults + 1
Fine == UNCHANGED faults

Go(v, step) == v' = step

-----------------------------------------------------------------------------
(* SetBMCEvents *)

\* Mutant of OpenLocked: no lock.
NeverLocked == FALSE

\* The lock_guard of m_BMCOpenEventsMutex: held between the clearing and the filling.
OpenLocked == setter = "fill"

BeginSet(new) == setter' = "clear" /\ config' = new

ClearEvents ==
  /\ setter = "clear" /\ Go(setter, "fill") /\ open' = {}
  /\ UNCHANGED <<threads, todo, ours, switch, failed, query, shared, conf, list, results,
                 changes, faults, first, done>>

\* The events are open; IsOpenBMCBlockIo is asked without the lock.
OpenEvents ==
  /\ setter = "fill" /\ Go(setter, "switch") /\ open' = config
  /\ kept' = kept \cap config /\ todo' = Types
  /\ UNCHANGED <<threads, ours, switch, failed, index, page, total, ret, sent, stable, shared,
                 conf, list, results, changes, faults, first, done>>

\* Mutant of Marks: what is on counts as ours, whoever switched it.
MarksAny(t) == TRUE

\* OpenBMCBlockIo takes the switch for its own only when it found it off.
Marks(t) == ~switch[t]

\* OpenBMCBlockIo: nothing when the switch cannot be read; what became of the command that
\* sets it is not looked at.
OpenBlockIo(t) ==
  \/ Fine /\ switch' = [switch EXCEPT ![t] = TRUE] /\ UNCHANGED failed
          /\ ours' = [ours EXCEPT ![t] = @ \/ Marks(t)]
  \/ Fault /\ failed' = failed \cup {t} /\ UNCHANGED switch
           /\ ours' \in {ours, [ours EXCEPT ![t] = @ \/ Marks(t)]}

CloseBlockIo(t) ==
  /\ ours' = [ours EXCEPT ![t] = FALSE]
  /\ \/ Fine /\ switch' = [switch EXCEPT ![t] = FALSE] /\ UNCHANGED failed
     \/ Fault /\ failed' = failed \cup {t} /\ UNCHANGED switch

SwitchOne ==
  /\ setter = "switch"
  /\ \E t \in todo :
       /\ todo' = todo \ {t}
       /\ setter' = IF todo' = {} THEN "idle" ELSE setter
       /\ CASE BlockCode \in open -> OpenBlockIo(t)
            [] BlockCode \notin open /\ ours[t] -> CloseBlockIo(t)
            [] OTHER -> UNCHANGED <<ours, switch, failed, faults>>
  /\ UNCHANGED <<threads, open, query, shared, conf, list, results, changes, first, done>>

Setter == ClearEvents \/ OpenEvents \/ SwitchOne

-----------------------------------------------------------------------------
(* The main thread. *)

\* Without a configuration the program ends and reports nothing.
Parse ==
  /\ main = "parse"
  /\ \/ file = Bad /\ Go(main, "ended") /\ UNCHANGED <<setter, config>>
     \/ file # Bad /\ Go(main, "set") /\ BeginSet(file)
  /\ UNCHANGED <<monitor, worker, todo, open, ours, switch, failed, query, shared, file, changed,
                 list, results, changes, faults, first, done>>

StartMonitor ==
  /\ main = "set" /\ setter = "idle" /\ Go(main, "start") /\ Go(monitor, "begin")
  /\ UNCHANGED <<worker, setting, query, shared, conf, list, results, changes, faults, first, done>>

\* Start: without an address of the BMC there is no worker.
Start ==
  /\ main = "start" /\ Go(main, "loop")
  /\ \/ Fine /\ running' = TRUE /\ Go(worker, "test") /\ UNCHANGED results
     \/ Fault /\ results' = Append(results, "FAIL") /\ UNCHANGED <<running, worker>>
  /\ UNCHANGED <<monitor, setting, query, exit, mutex, conf, list, changes, first, done>>

\* Mutant of LoopOver: only a signal ends the loop.
OnSignalOnly == exit

\* The main thread wakes at the latest every three seconds, and the signal handler wakes
\* it only if it happens to be waiting.
LoopOver == exit \/ ~running

Loop ==
  /\ main = "loop" /\ LoopOver /\ Go(main, "stop") /\ exit' = TRUE
  /\ UNCHANGED <<monitor, worker, setting, query, running, mutex, conf, list, results, changes,
                 faults, first, done>>

\* Mutant of StopWhen: the flag is set without the lock.
StopAtOnce == TRUE

\* Stop takes m_mutex, so that the worker is not between its test and its sleep.
StopWhen == mutex = "free"

Stop ==
  /\ main = "stop" /\ StopWhen /\ Go(main, "notify") /\ running' = FALSE
  /\ UNCHANGED <<monitor, worker, setting, query, exit, mutex, conf, list, results, changes,
                 faults, first, done>>

Notify ==
  /\ main = "notify" /\ Go(main, "join")
  /\ worker' = IF worker = "waiting" THEN "woken" ELSE worker
  /\ UNCHANGED <<monitor, setting, query, shared, conf, list, results, changes, faults, first, done>>

\* Stop joins the worker, main joins configMonitor; then the pid file is released.
Join ==
  /\ \/ main = "join" /\ worker \in {"none", "over"} /\ Go(main, "joinMonitor") /\ UNCHANGED todo
     \/ main = "joinMonitor" /\ monitor = "over" /\ Go(main, "destroy") /\ todo' = Types
  /\ UNCHANGED <<monitor, worker, setter, open, ours, switch, failed, query, shared, conf, list,
                 results, changes, faults, first, done>>

\* ~CBMCRasSentry
Destroy ==
  /\ main = "destroy"
  /\ \E t \in todo :
       /\ todo' = todo \ {t} /\ main' = IF todo' = {} THEN "ended" ELSE main
       /\ IF ours[t] THEN CloseBlockIo(t) ELSE UNCHANGED <<ours, switch, failed, faults>>
  /\ UNCHANGED <<monitor, worker, setter, open, query, shared, conf, list, results, changes,
                 first, done>>

Main == Parse \/ StartMonitor \/ Start \/ Loop \/ Stop \/ Notify \/ Join \/ Destroy

-----------------------------------------------------------------------------
(* configMonitor *)

\* It asks for the time of the file only now: a change since main read it is never seen.
MonitorBegin ==
  /\ monitor = "begin" /\ Go(monitor, "sleep") /\ changed' = FALSE
  /\ UNCHANGED <<main, worker, setting, query, shared, file, config, list, results, changes,
                 faults, first, done>>

MonitorEnd ==
  /\ monitor = "sleep" /\ exit /\ Go(monitor, "over")
  /\ UNCHANGED <<main, worker, setting, query, shared, conf, list, results, changes, faults,
                 first, done>>

\* Ten seconds are over and the file has changed.  A configuration that is refused is not
\* looked at again.
MonitorReads ==
  /\ monitor = "sleep" /\ ~exit /\ changed /\ changed' = FALSE
  /\ IF file # Bad /\ file # config
     THEN Go(monitor, "setting") /\ BeginSet(file)
     ELSE UNCHANGED <<monitor, setter, config>>
  /\ UNCHANGED <<main, worker, todo, open, ours, switch, failed, query, shared, file, list,
                 results, changes, faults, first, done>>

MonitorSet ==
  /\ monitor = "setting" /\ setter = "idle" /\ Go(monitor, "sleep")
  /\ UNCHANGED <<main, worker, setting, query, shared, conf, list, results, changes, faults,
                 first, done>>

Monitor == MonitorBegin \/ MonitorEnd \/ MonitorReads \/ MonitorSet

-----------------------------------------------------------------------------
(* SentryWorker *)

work == <<main, monitor, setting, exit, conf, list, changes, first>>

\* while (m_running), and then the lock
WorkerTest ==
  /\ worker = "test"
  /\ IF running THEN Go(worker, "lock") ELSE Go(worker, "report")
  /\ UNCHANGED <<work, query, running, mutex, results, faults, done>>

BeginQuery ==
  /\ worker = "lock" /\ mutex = "free" /\ mutex' = "worker" /\ Go(worker, "page")
  /\ index' = 0 /\ ret' = "ok" /\ sent' = [e \in Events |-> 0] /\ stable' = TRUE
  /\ kept' = CASE setter = "clear" -> open \cap config
               [] setter = "fill"  -> config
               [] OTHER            -> open
  /\ UNCHANGED <<work, page, total, running, results, faults, done>>

QueryFails == ret' = "failed" /\ worker' = "report" /\ mutex' = "free"

\* The BMC answers with what its list holds now.
QueryPage ==
  /\ worker = "page" /\ UNCHANGED <<index, sent, stable, kept>>
  /\ \/ Fault /\ QueryFails /\ UNCHANGED <<page, total>>
     \/ /\ Fine /\ page' = SubSeq(list, index + 1, Min({index + PageSize, Len(list)}))
        /\ total' = Len(list) /\ UNCHANGED <<ret, mutex>>
        /\ IF page' = << >> THEN Go(worker, "check") ELSE Go(worker, "alarms")
  /\ UNCHANGED <<work, running, results, done>>

\* ReportAlarm: the lock is held for the test only; xalarm_Report may fail.
ReportAlarm ==
  /\ worker = "alarms" /\ page # << >> /\ ~OpenLocked
  /\ page' = Tail(page)
  /\ LET e == Head(page)
     IN  /\ index' = index + 1
         /\ IF Code[e] \in open
            THEN /\ sent' = [sent EXCEPT ![e] = @ + 1]
                 /\ \/ Fine /\ done' = done \cup {e}
                    \/ Fault /\ UNCHANGED done
            ELSE UNCHANGED <<sent, done, faults>>
  /\ UNCHANGED <<work, worker, total, ret, stable, kept, running, mutex, results>>

\* Mutant of LastPage: the events still to come are not asked for.
OnePageOnly == TRUE

\* The count of the events read reaches what the last response called the total.
LastPage == index = total

PageDone ==
  /\ worker = "alarms" /\ page = << >>
  /\ CASE LastPage -> Go(worker, "check") /\ UNCHANGED <<ret, mutex>>
       [] ~LastPage /\ index < total -> Go(worker, "page") /\ UNCHANGED <<ret, mutex>>
       [] OTHER -> QueryFails
  /\ UNCHANGED <<work, index, page, total, sent, stable, kept, running, results, faults, done>>

\* wait_for: the predicate is asked under the lock, which the sleep then gives up.
CheckStop ==
  /\ worker = "check"
  /\ IF running THEN Go(worker, "block") /\ UNCHANGED mutex ELSE Go(worker, "report") /\ mutex' = "free"
  /\ UNCHANGED <<work, query, running, results, faults, done>>

Block ==
  /\ worker = "block" /\ Go(worker, "waiting") /\ mutex' = "free"
  /\ UNCHANGED <<work, query, running, results, faults, done>>

\* The patrol interval is over.
TimeOut ==
  /\ worker = "waiting" /\ mutex = "free"
  /\ worker' = IF running THEN "test" ELSE "report"
  /\ UNCHANGED <<work, query, running, mutex, results, faults, done>>

Wake ==
  /\ worker = "woken" /\ mutex = "free"
  /\ worker' = IF running THEN "waiting" ELSE "report"
  /\ UNCHANGED <<work, query, running, mutex, results, faults, done>>

ReportResult ==
  /\ worker = "report" /\ Go(worker, "over") /\ running' = FALSE
  /\ results' = Append(results, IF ret = "ok" THEN "PASS" ELSE "FAIL")
  /\ UNCHANGED <<work, query, mutex, faults, done>>

Worker == \/ WorkerTest \/ BeginQuery \/ QueryPage \/ ReportAlarm \/ PageDone
          \/ CheckStop \/ Block \/ TimeOut \/ Wake \/ ReportResult

-----------------------------------------------------------------------------
(* The rest of the world. *)

\* The BMC puts an event before the others or drops one.
ListChanges ==
  /\ changes < MaxChanges /\ changes' = changes + 1 /\ stable' = FALSE
  /\ \/ \E e \in Events \ Range(list) : list' = <<e>> \o list
     \/ \E k \in DOMAIN list : list' = RemoveAt(list, k)
  /\ UNCHANGED <<threads, setting, index, page, total, ret, sent, kept, shared, conf, results,
                 faults, first, done>>

WriteConfig ==
  /\ changes < MaxChanges /\ changes' = changes + 1
  /\ changed' = TRUE /\ file' \in (Configs \cup {Bad}) \ {file}
  /\ UNCHANGED <<threads, setting, query, shared, config, list, results, faults, first, done>>

\* SIGTERM or SIGINT; the handler is set before anything else.
Signal ==
  /\ ~exit /\ main # "ended" /\ exit' = TRUE
  /\ UNCHANGED <<threads, setting, query, running, mutex, conf, list, results, changes, faults,
                 first, done>>

Next == Main \/ Monitor \/ Setter \/ Worker \/ ListChanges \/ WriteConfig \/ Signal

Spec == Init /\ [][Next]_vars

\* Every thread goes on: commands return, and sleeps are bounded.  Stop gets the lock some
\* time: the worker leaves it alone for whole intervals, of seconds at least.
FairSpec ==
  Spec /\ WF_vars(Main) /\ WF_vars(Monitor) /\ WF_vars(Setter) /\ WF_vars(Worker) /\ SF_vars(Stop)

-----------------------------------------------------------------------------
\* Type invariant: the variables of the threads and of the BMC have their types.
TypeOK ==
  /\ main \in {"parse", "set", "start", "loop", "stop", "notify", "join", "joinMonitor",
               "destroy", "ended"}
  /\ monitor \in {"none", "begin", "sleep", "setting", "over"}
  /\ worker \in {"none", "test", "lock", "page", "alarms", "check", "block", "waiting", "woken",
                 "report", "over"}
  /\ setter \in {"idle", "clear", "fill", "switch"} /\ todo \subseteq Types
  /\ {exit, running, changed, stable} \subseteq BOOLEAN /\ mutex \in {"free", "worker"}
  /\ file \in Configs \cup {Bad} /\ config \in Configs \cup {{}} /\ open \in Configs \cup {{}}
  /\ {ours, switch, first} \subseteq [Types -> BOOLEAN] /\ failed \subseteq Types
  /\ list \in Seq(Events) /\ page \in Seq(Events) /\ {index, total} \subseteq Nat
  /\ ret \in {"ok", "failed"} /\ results \in Seq({"PASS", "FAIL"})
  /\ sent \in [Events -> Nat] /\ done \subseteq Events
  /\ changes \in 0 .. MaxChanges /\ faults \in 0 .. MaxFaults

\* The variables have their types, and a query of a list that did not change passes on each
\* event subscribed all the time once: no page is skipped or read twice, and an event is
\* never looked up while SetBMCEvents has cleared the map (QueryEvents, ReportAlarm).
Complete ==
  /\ TypeOK
  /\ worker = "check" /\ stable =>
       \A e \in Events :
         Code[e] \in kept => sent[e] = IF e \in Range(list) THEN 1 ELSE 0

\* The BMC's detection of slow disks is on while its event is subscribed, and otherwise,
\* and when the program has ended, as the program found it, where no command failed.
BlockIo ==
  /\ setter = "idle" /\ main \notin {"parse", "destroy", "ended"} =>
       \A t \in Types \ failed : switch[t] = (first[t] \/ BlockCode \in open)
  /\ main = "ended" => \A t \in Types \ failed : switch[t] = first[t]

\* Once m_running is cleared the worker does not sleep through another interval, and
\* syssentry has been told one result when the program ends.
OrderlyEnd ==
  /\ worker = "waiting" => running \/ main = "notify"
  /\ Len(results) <= 1
  /\ main = "ended" => results # << >> \/ monitor = "none"

\* A signal, or the end of the worker, ends the program (main, Stop).
Ends == exit \/ worker = "over" ~> main = "ended"

\* An event that stays in the BMC's list and is subscribed reaches xalarmd in the end, also
\* when the list moved under a query or a report failed, if the program is not stopped.
Reported ==
  \A e \in Events :
    [](e \in Range(list) /\ Code[e] \in open) ~> (e \in done \/ exit)
=============================================================================
