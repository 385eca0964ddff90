---------------------------- MODULE MCCacheTables ----------------------------
(***************************************************************************)
(* CacheTables for TLC: two executions of one process and one of another,  *)
(* all of which use the same tables.                                       *)
(***************************************************************************)
EXTENDS CacheTables

MCProcOf == [e \in Execs |-> IF e = "other process" THEN "p2" ELSE "p1"]

MCSetOf == [e \in Execs |-> "t1"]
=============================================================================
