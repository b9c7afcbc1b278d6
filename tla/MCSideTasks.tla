----------------------------- MODULE MCSideTasks -----------------------------
(* Instances of SideTasks for TLC. *)
EXTENDS SideTasks

CONSTANTS initialize, restart, a1, a2
BothCommands == {initialize, restart}
TwoArrays == {a1, a2}
=============================================================================
