--------------------------- MODULE MCNetworkedServer ---------------------------
(***************************************************************************)
(* Three clients, the fewest for which an erasure during a broadcast       *)
(* matters, and two workers: one broadcasts while the other receives.  The *)
(* application's limit is beyond the end of the measurement, so workers go *)
(* on answering clients that have left, and FINISH is broadcast twice.     *)
(***************************************************************************)
EXTENDS NetworkedServer
================================================================================
