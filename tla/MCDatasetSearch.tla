---------------------------- MODULE MCDatasetSearch ----------------------------
(***************************************************************************)
(* Three trials and the evaluation of the optimum, for the three kinds of  *)
(* workload, with up to three faults or interrupts: one trial with any two *)
(* of them after another that went wrong quietly.                          *)
(***************************************************************************)
EXTENDS DatasetSearch
================================================================================
