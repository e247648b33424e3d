------------------------------ MODULE MCBmcRas ------------------------------
(* Two events of two codes for BmcRas; one of the codes is of slow disks. *)
EXTENDS BmcRas

CONSTANTS e1, e2, slow, raid, nvme

CodeDef == [e \in Events |-> IF e = e2 THEN slow ELSE raid]
ListsDef == {<<e1, e2>>}
ConfigsDef == {{slow, raid}, {raid}}
=============================================================================
