----------------------------- MODULE MCPidFile ------------------------------
(* One process with one PidFile instance, another with one or two. *)
EXTENDS PidFile

CONSTANTS i1, i2, i3, p1, p2

MCPidOf == [i \in Instances |-> IF i = i1 THEN p1 ELSE p2]
=============================================================================
