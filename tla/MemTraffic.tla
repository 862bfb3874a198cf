-------------------------------- MODULE MemTraffic --------------------------------
(***************************************************************************)
(* Memory-traffic accounting of one profiled thread: initCmt,              *)
(* getMemTrafficDelta and updateMemTraffic of datamime-profiler.cpp, with  *)
(* the counter of lltools/include/cmt.h.                                   *)
(*                                                                         *)
(* The hardware counts the traffic of the thread's RMID in a register of   *)
(* 24 bits that wraps around.  Every handler call reads it twice: once     *)
(* inside getMemTrafficDelta, and once more for memTrafficLast.  The       *)
(* thread runs on meanwhile, so the two reads are two steps.  Traffic is   *)
(* counted in units of the CMT multiplier.                                 *)
(***************************************************************************)
EXTENDS Integers

CONSTANTS
  Max,         \* getMemTrafficMax: 2^24
  MaxBurst,    \* bound: traffic of one hardware step
  MaxTraffic   \* bound: traffic of a behaviour

ASSUME TrafficAssumption ==
  /\ Max \in Nat \ {0}
  /\ MaxBurst \in Nat /\ MaxBurst <= Max
  /\ MaxTraffic \in Nat

VARIABLES
  ctr,      \* hardware: the counter of the RMID
  last,     \* tinfo.memTrafficLast
  total,    \* tinfo.memTrafficTotal
  pc,       \* "idle", or "second" between the two reads
  traffic,  \* history: all traffic of the thread
  initial,  \* history: traffic when initCmt ran
  first,    \* history: traffic at the latest read for the delta
  base,     \* history: traffic when memTrafficLast was read
  gap,      \* history: traffic between the two reads of each call
  late      \* history: 1 once two calls were a full turn of the counter apart

trafficVars == <<ctr, last, total, pc, traffic, initial, first, base, gap, late>>

\* initCmt, with any value in the counter of the RMID.
TrafficInit ==
  /\ ctr \in 0..(Max - 1)
  /\ last = ctr
  /\ total = 0
  /\ pc = "idle"
  /\ traffic = ctr
  /\ initial = ctr
  /\ first = ctr
  /\ base = ctr
  /\ gap = 0
  /\ late = 0

\* External: the thread moves n units; the counter wraps around at Max.
Traffic(n) ==
  /\ traffic + n <= MaxTraffic
  /\ traffic' = traffic + n
  /\ ctr' = IF ctr + n >= Max THEN ctr + n - Max ELSE ctr + n
  /\ UNCHANGED <<last, total, pc, initial, first, base, gap, late>>

\* Mutated form: a counter that did not move is taken for one that wrapped.
GetMemTrafficDeltaEager(now, memTrafficLast) ==
  IF now <= memTrafficLast THEN (Max - memTrafficLast) + now
                           ELSE now - memTrafficLast

\* getMemTrafficDelta
GetMemTrafficDelta(now, memTrafficLast) ==
  IF now < memTrafficLast THEN (Max - memTrafficLast) + now
                          ELSE now - memTrafficLast

\* updateMemTraffic, first statement.
AddDelta ==
  /\ pc = "idle"
  /\ total' = total + GetMemTrafficDelta(ctr, last)
  /\ pc' = "second"
  /\ first' = traffic
  /\ late' = IF traffic - base >= Max THEN 1 ELSE late
  /\ UNCHANGED <<ctr, last, traffic, initial, base, gap>>

\* Mutated form: memTrafficLast is left as it was.
ReadLastStale ==
  /\ pc = "second"
  /\ pc' = "idle"
  /\ base' = traffic
  /\ gap' = gap + (traffic - first)
  /\ UNCHANGED <<ctr, last, total, traffic, initial, first, late>>

\* updateMemTraffic, second statement.
ReadLast ==
  /\ pc = "second"
  /\ last' = ctr
  /\ pc' = "idle"
  /\ base' = traffic
  /\ gap' = gap + (traffic - first)
  /\ UNCHANGED <<ctr, total, traffic, initial, first, late>>

TrafficNext == (\E n \in 1..MaxBurst : Traffic(n)) \/ AddDelta \/ ReadLast

TrafficSpec == TrafficInit /\ [][TrafficNext]_trafficVars

-----------------------------------------------------------------------------------
\* Every variable keeps its type.
TrafficTypeOK ==
  /\ ctr \in 0..(Max - 1) /\ last \in 0..(Max - 1)
  /\ total \in Nat
  /\ pc \in {"idle", "second"}
  /\ traffic \in Nat /\ initial \in Nat /\ first \in Nat /\ base \in Nat
  /\ gap \in Nat
  /\ late \in {0, 1}

(***************************************************************************)
(* The hardware counter against the history: since memTrafficLast was read *)
(* it made no turn, one turn, or more.  The inductive strengthening of the *)
(* two properties below, with the order of the reads.                      *)
(***************************************************************************)
Turns ==
  /\ \/ traffic - ctr = base - last
     \/ traffic - ctr = base - last + Max
     \/ traffic - ctr >= base - last + 2 * Max
  /\ initial <= base /\ base <= traffic
  /\ pc = "second" => base <= first /\ first <= traffic
  /\ total + gap <= (IF pc = "idle" THEN base ELSE first) - initial
  /\ late = 0 => total + gap = (IF pc = "idle" THEN base ELSE first) - initial

\* The reported traffic is never more than the thread really caused, however often
\* the counter wraps around and wherever the handler calls fall.
NeverOvercounts == total <= traffic - initial

\* What is missing from the report is the traffic between the two reads of each
\* call, and nothing else, as long as calls come less than a turn apart.
LostOnlyBetweenReads ==
  (pc = "idle" /\ late = 0) => total = base - initial - gap
===================================================================================
