---------------------------- MODULE MCTBenchNetworked ----------------------------
(***************************************************************************)
(* Two senders and, as the code starts as many, two receivers, and two     *)
(* server threads: enough for senders to pass the limit together and for   *)
(* messages to overtake each other.  The limit of 0 admits one request at  *)
(* a time, so a second one in flight is the race at the test.  The         *)
(* application's limit is one request below the end of the measurement and *)
(* may be overrun by one, so FINISH comes from sendResp in some behaviours *)
(* and from finish in others.                                              *)
(***************************************************************************)
EXTENDS TBenchNetworked
==================================================================================
