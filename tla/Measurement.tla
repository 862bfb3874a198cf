------------------------------ MODULE Measurement ------------------------------
(***************************************************************************)
(* What one TailBench measurement promises, whichever way client and       *)
(* server are put together: the client starts up, warms up without         *)
(* recording anything, enters its region of interest (ROI) at most once    *)
(* and from the warm-up only, records samples one at a time in the ROI     *)
(* only, and at last writes them, all of them and once, to the latency     *)
(* file.  Nothing happens after that.                                      *)
(*                                                                         *)
(* This is what class Client offers (the statuses of client.h and the      *)
(* functions of client.cpp that assign them or look at them), stripped of  *)
(* threads, locks, barriers and messages.  TBenchIntegrated and            *)
(* TBenchNetworked implement it.                                           *)
(***************************************************************************)
EXTENDS Integers

VARIABLES
  status,    \* "INIT", "WARMUP" or "ROI"
  samples,   \* samples recorded so far
  file       \* length of the latency file, or -1 while there is none

mvars == <<status, samples, file>>

Init ==
  /\ status = "INIT"
  /\ samples = 0
  /\ file = -1

Running == file = -1

\* The arrival distribution exists: requests may be sent.
BeginWarmup ==
  /\ Running
  /\ status = "INIT"
  /\ status' = "WARMUP"
  /\ UNCHANGED <<samples, file>>

\* The samples start from nothing.
BeginRoi ==
  /\ Running
  /\ status = "WARMUP"
  /\ status' = "ROI"
  /\ samples' = 0
  /\ UNCHANGED file

Record ==
  /\ Running
  /\ status = "ROI"
  /\ samples' = samples + 1
  /\ UNCHANGED <<status, file>>

\* The end of the run, in the ROI or, if the application stops early, before it.
Write ==
  /\ Running
  /\ file' = samples
  /\ UNCHANGED <<status, samples>>

Next == BeginWarmup \/ BeginRoi \/ Record \/ Write

Spec == Init /\ [][Next]_mvars
================================================================================
