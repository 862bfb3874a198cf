--------------------------- MODULE MCTBenchIntegrated ---------------------------
(***************************************************************************)
(* Three worker threads.  The limits are such that the run can end both    *)
(* ways: the application's limit is one request below WarmupReqs +         *)
(* MaxReqs, and the workers may overrun it by two.                         *)
(***************************************************************************)
EXTENDS TBenchIntegrated
=================================================================================
