----------------------------- MODULE MCLibXalarm -----------------------------
(* Instances of LibXalarm for TLC. *)
EXTENDS LibXalarm

CONSTANTS h1, f1, f2, oom, panic, down

=============================================================================
