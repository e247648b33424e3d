------------------------------ MODULE MCXalarmd ------------------------------
(* Instances of Xalarmd for TLC. *)
EXTENDS Xalarmd, TLC

CONSTANTS a, b, c, f1, f2, f3, oom, panic

\* Every client wants the event that may be switched off, two of them the critical one.
WantsDef == [x \in Clients |-> IF x = a THEN {oom} ELSE {oom, panic}]

\* Descriptors are interchangeable, and so are the clients with the same wish.
Alike == {x @@ y : x \in Permutations(Fds), y \in Permutations(Clients \ {a})}
=============================================================================
