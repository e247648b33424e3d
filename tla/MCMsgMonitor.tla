----------------------------- MODULE MCMsgMonitor -----------------------------
(* A message that is not reported, one that is, and a reboot, for MsgMonitor. *)
EXTENDS MsgMonitor

CONSTANTS reboot, oom, corrected

OrderDef == <<corrected, oom, reboot>>
KindDef ==
  [m \in Msgs |-> CASE m = reboot -> "reboot" [] m = oom -> "other" [] OTHER -> "refused"]
AnswersDef == [m \in Msgs |-> IF m = reboot THEN 2 ELSE 1]
=============================================================================
