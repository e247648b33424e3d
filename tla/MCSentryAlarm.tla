---------------------------- MODULE MCSentryAlarm ----------------------------
(* Instances of SentryAlarm for TLC. *)
EXTENDS SentryAlarm, TLC

CONSTANTS r1, r2, ai_block_io, avg_block_io

\* The two tasks that share an id have different clear times.
ClearTimesDef == <<1, 2>>

\* The two reporters are alike.
ReportersAlike == Permutations(Reporters)
=============================================================================
