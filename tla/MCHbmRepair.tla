---------------------------- MODULE MCHbmRepair ----------------------------
(* A small machine for HbmRepair: a row of two pages, an address fault at a third, *)
(* which no device has, a request in cache mode and an event that is none.         *)
EXTENDS HbmRepair

CONSTANTS row, cell, cached, noise, p1, p2, p3, v1, d1, d2

KindDef == [r \in Requests |->
  CASE r = row -> "sppr" [] r = cell -> "acls" [] r = cached -> "cache" [] OTHER -> "other"]
PagesDef == [r \in Requests |->
  CASE r = row -> <<p1, p2>> [] r = cell -> <<p3>> [] OTHER -> << >>]
VarDef == [r \in Requests |-> IF r = cell THEN NoVar ELSE v1]
HomeDef == [p \in Pages |-> IF p = p3 THEN NoDevice ELSE d1]
=============================================================================
