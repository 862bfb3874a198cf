------------------------------- MODULE MCMemTraffic -------------------------------
(***************************************************************************)
(* A counter that wraps around at 4 instead of 2^24, over four turns, with *)
(* bursts of up to a whole turn between any two reads.                     *)
(***************************************************************************)
EXTENDS MemTraffic
===================================================================================
