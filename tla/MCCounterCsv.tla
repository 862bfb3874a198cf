------------------------------ MODULE MCCounterCsv -------------------------------
(***************************************************************************)
(* Lists of up to five names drawn from four events: one is unknown to the *)
(* machine, one is counted in every group anyway; groups of two rotating   *)
(* events.  A name may be given twice on the command line.  One PMU        *)
(* accepts everything, the other one refuses e1 with e2, and a second      *)
(* counter of INST_RETIRED.                                                *)
(***************************************************************************)
EXTENDS CounterCsv

MCEvents == {"e1", "e2", "INST_RETIRED", "unknown"}
MCSupported == {"e1", "e2", "INST_RETIRED"}
MCPMUs == {{}, {{"e1", "e2"}, {"INST_RETIRED"}}}
==================================================================================
