----------------------------- MODULE MCPerfRotation -----------------------------
(***************************************************************************)
(* Counters mode with three groups and the code's PHASES_BETWEEN_SWITCHES; *)
(* six and a half turns, so that every group has its second turn, and up   *)
(* to two records that are not samples anywhere among them.                *)
(***************************************************************************)
EXTENDS PerfRotation
=================================================================================
