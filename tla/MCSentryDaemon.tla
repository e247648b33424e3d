--------------------------- MODULE MCSentryDaemon ---------------------------
(* Instances of SentryDaemon for TLC. *)
EXTENDS SentryDaemon, TLC

CONSTANTS
  o, p,         \* a oneshot task, a period task
  p1, p2, p3,
  a, b, q       \* texts of task_start; q has quotes in it

\* The process identifiers are interchangeable.
PidSymmetry == Permutations(Pids)

Default == [hb |-> FALSE, enabled |-> TRUE, onstart |-> TRUE, conflict |-> "up", cmd |-> a]

\* One configuration per task, the same at every reload.
ConfDefault == [t \in Task |-> {Default}]

\* A reload may switch the heartbeat and the start at boot, changes what is done about
\* an instance that is still there, and changes the command that is started.
Watched == [Default EXCEPT !.hb = TRUE, !.conflict = "down"]
ConfReload == [t \in Task |-> {Watched,
                               [Watched EXCEPT !.hb = FALSE, !.cmd = b],
                               [Watched EXCEPT !.onstart = FALSE, !.conflict = "kill"],
                               [Watched EXCEPT !.cmd = q]}]

\* A reload may switch the task on and off.
ConfEnable == [t \in Task |-> {Default, [Default EXCEPT !.enabled = FALSE]}]
=============================================================================
