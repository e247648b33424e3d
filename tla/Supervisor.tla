----------------------------- MODULE Supervisor -----------------------------
(***************************************************************************)
(* What sysSentry promises of the processes of its tasks, whatever the     *)
(* daemon does to keep the promise: at most one process per task that was  *)
(* not told to terminate; no process is launched once the daemon closes;   *)
(* the daemon is closed only when every process is gone or told to go.     *)
(***************************************************************************)
CONSTANTS Task, Pids

VARIABLES
  running,   \* running[t]: the processes of t that were not told to terminate
  phase      \* "serving", then "closing", then "closed"

vars == <<running, phase>>

Init == running = [t \in Task |-> {}] /\ phase = "serving"

Launch(t, p) ==
  /\ phase = "serving"
  /\ running[t] = {}
  /\ \A u \in Task : p \notin running[u]
  /\ running' = [running EXCEPT ![t] = {p}]
  /\ UNCHANGED phase

\* Processes exit, or are told to terminate; an exception may close the daemon.
Leave ==
  /\ running' \in [Task -> SUBSET Pids]
  /\ \A t \in Task : running'[t] \subseteq running[t]
  /\ phase' = phase \/ (phase = "serving" /\ phase' = "closing")

Close == phase = "closing" /\ phase' = "closed" /\ UNCHANGED running
                          /\ \A t \in Task : running[t] = {}

Next == Leave \/ Close \/ \E t \in Task, p \in Pids : Launch(t, p)

Spec == Init /\ [][Next]_vars
=============================================================================
