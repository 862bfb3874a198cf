------------------------------ MODULE MCMrcSampling ------------------------------
(***************************************************************************)
(* The plans of the 12-way cache of the Broadwell testbed (seven slices)   *)
(* and of a 3-way cache (three slices), with intervals of a few phases     *)
(* instead of the harness's 50 and 500.                                    *)
(***************************************************************************)
EXTENDS MrcSampling

\* One thread, two whole rounds, signals up to two phases late.
OneThread ==
  [threads |-> 1, cores |-> 5, cos |-> 4, ways |-> 12, warmup |-> 3, profile |-> 17,
   phases |-> 27, columns |-> 2, queue |-> 2, misses |-> 2, lead |-> 3]

\* Two threads, a first round that the second one cuts short.
TwoThreads ==
  [threads |-> 2, cores |-> 3, cos |-> 3, ways |-> 3, warmup |-> 2, profile |-> 4,
   phases |-> 8, columns |-> 3, queue |-> 1, misses |-> 1, lead |-> 2]

MCConfigs == {OneThread, TwoThreads}
MCLag == {[OneThread EXCEPT !.queue = 1, !.misses = 0]}
MCIndex == {[TwoThreads EXCEPT !.profile = 8, !.phases = 9]}
==================================================================================
