----------------------------- MODULE MCSocRing -----------------------------
(* Small machines for SocRing. *)
EXTENDS SocRing

\* The last core to be started shares its node; the blacklisted core 1 is on none.
TwoNodes == [c \in Core |-> CASE c = 0 -> "a" [] c = 1 -> NoNode [] OTHER -> "b"]

\* The last core to be started is alone on its node.
AloneLast == [c \in Core |-> IF c = NCores - 1 THEN "b" ELSE "a"]

FaultyPairs == {<<0, 1>>}
NoFault == {}
SpecialBits == {1, 2}
=============================================================================
