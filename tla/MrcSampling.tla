------------------------------- MODULE MrcSampling -------------------------------
(***************************************************************************)
(* Miss-curve estimation (-m) of profiler/datamime-profiler.cpp:           *)
(* generate_profiling_plan, set_cacheways_to_cores, the MRC part of        *)
(* sigthyme_handler, and share_all_cache_ways of cache_utils.cpp.          *)
(*                                                                         *)
(* Every mrc_invoke_monitor_len phases the handler of thread 0 starts a    *)
(* round: it gives the profiled thread the ways of the first slice of the  *)
(* plan and everyone else the remaining ways.  Each later handler call of  *)
(* the profiled thread stores a point of its curve and moves to the next   *)
(* slice; after the last slice the curve is published, and after the       *)
(* curve of the last thread all ways are shared again.                     *)
(*                                                                         *)
(* Counter arithmetic is abstracted.  Every handler call after the first   *)
(* copies values[] to the last*Ctr fields before it reads the next record, *)
(* so the difference the next call uses covers the one record read last,   *)
(* or is zero when nothing was read.  `delta' is that difference: NoPhase, *)
(* or the number of ways the measured phase ran with.  The first call of a *)
(* thread finds values[] still empty; should it come inside a round, which *)
(* takes two threads, it reads beyond its end (line 763).  The model takes *)
(* that as NoPhase, and no property depends on it.  memTrafficTotal is     *)
(* sampled at the same points.  loggingMRCFlags is set and cleared in one  *)
(* call, enable_array_scans changes with monitorStartFlag, and             *)
(* firstMRCInvocation only protects an idempotent assignment.              *)
(***************************************************************************)
EXTENDS Integers, Sequences, FiniteSets

CONSTANT
  Configs   \* the profiles considered

(***************************************************************************)
(* A profile: the machine, the arguments, and the bounds of the model.     *)
(***************************************************************************)
Config(c) ==
  /\ c.threads \in Nat \ {0}
  /\ c.cores \in Nat /\ c.cores >= c.threads
  /\ c.cos \in Nat /\ c.cos >= 3
  /\ c.ways \in 3..16
  /\ c.warmup \in Nat /\ c.warmup >= 2
  /\ c.profile \in Nat \ {0}
  /\ {c.phases, c.columns, c.queue, c.misses, c.lead} \subseteq Nat

ASSUME MrcAssumption == \A c \in Configs : Config(c)

VARIABLES
  conf,          \* the profile, the same all along
  phases,        \* tinfo.phases
  buf,           \* kernel: the sample records not read yet, each one the
                 \* number of ways its phase ran with
  pending,       \* kernel: SIGTHYME signals not handled yet
  delta,         \* values[] - last*Ctr as the next handler call will see it
  misses,        \* handler calls that read no sample, so far
  monitorStart,  \* monitorStartFlag
  idx,           \* sampleSlicesIdx
  profiled,      \* thr_idx_profiled_global
  invokeLen,     \* mrc_invoke_monitor_len
  sampling,      \* currentlySampling: [ways, state] of each core
  cos,           \* CAT: class of service of each core
  cbm,           \* CAT: ways of each class of service
  points,        \* xPoints and yPoints_*: [x, y, round] for each slice
  curves,        \* tinfo.mrc_est_index
  published,     \* history: the curve each thread published last
  round,         \* history: rounds started so far
  start,         \* history: the phase of thread 0 at which it started
  fault,         \* an index is out of bounds
  done           \* state.done

kernelVars == <<buf, pending, misses>>
catVars == <<sampling, cos, cbm>>
vars == <<conf, phases, kernelVars, delta, monitorStart, idx, profiled, invokeLen,
          catVars, points, curves, published, round, start, fault, done>>

NumThreads == conf.threads  \* num_profiled_threads
NumCores == conf.cores      \* state.num_logical_cores
NumCos == conf.cos          \* classes of service (CATController::getNumCos)
CacheWays == conf.ways      \* state.cache_num_ways
Warmup == conf.warmup       \* mrc_warmup_interval
Profile == conf.profile     \* mrc_profile_interval
NumPhases == conf.phases    \* args.num_phases
EstColumns == conf.columns  \* columns of mrcEstimates and ipcCurveEstimates
MaxQueue == conf.queue      \* bound: phases that end before the handler runs
MaxMisses == conf.misses    \* bound: handler calls that read no sample
MaxLead == conf.lead        \* bound: phases a thread may be ahead of thread 0

Threads == 0..(NumThreads - 1)
Cores == 0..(NumCores - 1)
Classes == 0..(NumCos - 1)
Ways == 0..(CacheWays - 1)

NoPhase == 0

\* generate_profiling_plan: the ways of the profiled thread, slice by slice.
Plan ==
  CASE CacheWays = 16 -> <<15, 15, 11, 7, 4, 2, 1>>
    [] CacheWays = 15 -> <<14, 14, 10, 7, 4, 2, 1>>
    [] CacheWays = 14 -> <<13, 13, 9, 6, 4, 2, 1>>
    [] CacheWays = 13 -> <<12, 12, 9, 6, 4, 2, 1>>
    [] CacheWays \in 10..12 -> <<CacheWays - 1, CacheWays - 1, 8, 6, 4, 2, 1>>
    [] CacheWays \in 8..9 -> <<CacheWays - 1, CacheWays - 1, 6, 4, 3, 2, 1>>
    [] CacheWays \in 3..7 ->
         [i \in 1..CacheWays |-> IF i = 1 THEN CacheWays - 1 ELSE CacheWays + 1 - i]

NumSlices == Len(Plan)

\* The ways of COS1 in slice s; with 12 ways the first two slices avoid way 0.
ProfiledWays(s) ==
  IF CacheWays = 12 /\ s <= 2 THEN 1..11 ELSE 0..(Plan[s] - 1)

SharedWays(s) == Ways \ ProfiledWays(s)

NoPoint == [x |-> 0, y |-> NoPhase, round |-> 0]

Init ==
  /\ conf \in Configs
  /\ phases = [t \in Threads |-> 0]
  /\ buf = [t \in Threads |-> <<>>]
  /\ pending = [t \in Threads |-> 0]
  /\ delta = [t \in Threads |-> NoPhase]
  /\ misses = 0
  /\ monitorStart = FALSE
  /\ idx = -1
  /\ profiled = 0
  /\ invokeLen = Warmup
  /\ sampling = [c \in Cores |-> [ways |-> 0, state |-> 0]]
  /\ cos = [c \in Cores |-> IF c < NumCos THEN c ELSE NumCos - 1]
  /\ cbm = [k \in Classes |-> Ways]
  /\ points = [t \in Threads |-> [s \in 1..NumSlices |-> NoPoint]]
  /\ curves = [t \in Threads |-> 0]
  /\ published = [t \in Threads |-> <<>>]
  /\ round = 0
  /\ start = 0
  /\ fault = FALSE
  /\ done = FALSE

WaysOf(t) == Cardinality(cbm[cos[t]])

\* External: a phase of thread t ends; record and signal are queued.
PhaseEnd(t) ==
  /\ t \in Threads
  /\ pending[t] < MaxQueue
  /\ phases[t] + pending[t] < phases[0] + MaxLead
  /\ buf' = [buf EXCEPT ![t] = Append(@, WaysOf(t))]
  /\ pending' = [pending EXCEPT ![t] = @ + 1]
  /\ UNCHANGED <<phases, delta, misses, monitorStart, idx, profiled, invokeLen>>
  /\ UNCHANGED <<catVars, points, curves, published, round, start, fault, done, conf>>

\* Mutated forms: the classes are mixed up, and COS2 keeps the ways of COS1.
SetCachewaysSwapped(s, p) ==
  /\ cbm' = [cbm EXCEPT ![1] = ProfiledWays(s), ![2] = SharedWays(s)]
  /\ cos' = [c \in Cores |-> IF c = p THEN 2 ELSE 1]
  /\ sampling' =
       [c \in Cores |->
          [ways  |-> Cardinality(IF c = p THEN ProfiledWays(s) ELSE SharedWays(s)),
           state |-> 1]]

SetCachewaysOverlap(s, p) ==
  /\ cbm' = [cbm EXCEPT ![1] = ProfiledWays(s), ![2] = Ways]
  /\ cos' = [c \in Cores |-> IF c = p THEN 1 ELSE 2]
  /\ sampling' =
       [c \in Cores |->
          [ways  |-> Cardinality(IF c = p THEN ProfiledWays(s) ELSE Ways),
           state |-> 1]]

(***************************************************************************)
(* set_cacheways_to_cores(slice s, p), core p being the thread's index:    *)
(* COS1 for the profiled core, COS2 for all others, and currentlySampling  *)
(* says how many ways each core has and that it has no sample of them yet. *)
(***************************************************************************)
SetCachewaysToCores(s, p) ==
  /\ cbm' = [cbm EXCEPT ![1] = ProfiledWays(s), ![2] = SharedWays(s)]
  /\ cos' = [c \in Cores |-> IF c = p THEN 1 ELSE 2]
  /\ sampling' =
       [c \in Cores |->
          [ways  |-> Cardinality(IF c = p THEN ProfiledWays(s) ELSE SharedWays(s)),
           state |-> 1]]

\* share_all_cache_ways: the classes in use get all ways; the cores beyond the
\* number of classes share the last one.
ShareAllCacheWays ==
  /\ cbm' = [k \in Classes |-> IF k < NumCores THEN Ways ELSE cbm[k]]
  /\ cos' = [c \in Cores |-> IF c < NumCos THEN c ELSE NumCos - 1]
  /\ sampling' = sampling

(***************************************************************************)
(* Handler call number n of thread t at the beginning of a round.  Only    *)
(* the master starts one, and only before the last phase.                  *)
(***************************************************************************)
StartRound(t, n) ==
  /\ n % invokeLen = 0
  /\ IF t = 0 /\ n < NumPhases
       THEN /\ invokeLen' = Profile
            /\ monitorStart' = TRUE
            /\ SetCachewaysToCores(1, profiled)
            /\ idx' = 1
            /\ round' = round + 1
            /\ start' = n
       ELSE UNCHANGED <<invokeLen, monitorStart, catVars, idx, round, start>>
  /\ UNCHANGED <<points, curves, published, profiled, fault>>

\* xPoints, yPoints_ipc and yPoints_mpki of t after the sample of this call.
Stored(t) ==
  [points[t] EXCEPT
     ![idx].x = sampling[t].ways,
     ![idx].y = IF delta[t] = NoPhase THEN @ ELSE delta[t],
     ![idx].round = IF delta[t] = NoPhase THEN @ ELSE round]

\* The points a curve is interpolated from: the first, a warm-up, is replaced.
CurvePoints(ps) == [ps EXCEPT ![1] = ps[2]]

\* Mutated form: the flag stays set after the last thread.
NextThreadKeepsOn ==
  /\ idx' = 0
  /\ IF profiled + 1 >= NumThreads
       THEN profiled' = 0 /\ UNCHANGED monitorStart /\ ShareAllCacheWays
       ELSE profiled' = profiled + 1 /\ UNCHANGED <<monitorStart, catVars>>

\* The profiled thread has its curve: the next one, or the end of the round.
NextThread ==
  /\ idx' = 0
  /\ IF profiled + 1 >= NumThreads
       THEN profiled' = 0 /\ monitorStart' = FALSE /\ ShareAllCacheWays
       ELSE profiled' = profiled + 1 /\ UNCHANGED <<monitorStart, catVars>>

\* The last slice was sampled by t.
LastSlice(t, ps) ==
  IF t # profiled
    THEN /\ points' = [points EXCEPT ![t] = ps]
         /\ sampling' = [sampling EXCEPT ![t].state = 0]
         /\ UNCHANGED <<idx, profiled, monitorStart, cos, cbm>>
         /\ UNCHANGED <<curves, published, fault>>
    ELSE IF curves[t] >= EstColumns
      THEN /\ fault' = TRUE
           /\ UNCHANGED <<points, catVars, idx, profiled, monitorStart>>
           /\ UNCHANGED <<curves, published>>
      ELSE /\ points' = [points EXCEPT ![t] = CurvePoints(ps)]
           /\ curves' = [curves EXCEPT ![t] = @ + 1]
           /\ published' = [published EXCEPT ![t] = CurvePoints(ps)]
           /\ NextThread
           /\ UNCHANGED fault

\* Mutated forms: the plan moves on although the counters did not, and the
\* comparison is inverted.
SampledIgnoresError(t) == TRUE

SampledInverted(t) == delta[t] = NoPhase

\* The sample of this call was collected (currentlySampling(t, 1) becomes 0, not 5).
Sampled(t) == delta[t] # NoPhase

\* A slice before the last: the profiled thread moves on once it has its sample.
NextSlice(t, ps) ==
  /\ points' = [points EXCEPT ![t] = ps]
  /\ IF t = profiled /\ Sampled(t)
       THEN /\ SetCachewaysToCores(idx + 1, profiled)
            /\ idx' = idx + 1
       ELSE /\ sampling' = [sampling EXCEPT ![t].state = IF Sampled(t) THEN 0 ELSE 5]
            /\ UNCHANGED <<idx, cos, cbm>>
  /\ UNCHANGED <<profiled, monitorStart, curves, published, fault>>

\* Handler call number n of thread t during a round.
Sample(t, n) ==
  /\ n % invokeLen # 0
  /\ monitorStart
  /\ IF idx < 1
       THEN /\ fault' = TRUE
            /\ UNCHANGED <<points, catVars, idx, profiled, monitorStart>>
            /\ UNCHANGED <<curves, published>>
       ELSE IF idx = NumSlices /\ Sampled(t)
         THEN LastSlice(t, Stored(t))
         ELSE NextSlice(t, Stored(t))
  /\ UNCHANGED <<invokeLen, round, start>>

\* Handler call number n of thread t outside a round.
Idle(t, n) ==
  /\ n % invokeLen # 0
  /\ ~monitorStart
  /\ UNCHANGED <<points, catVars, idx, profiled, monitorStart, curves>>
  /\ UNCHANGED <<published, fault, invokeLen, round, start>>

\* read_counters takes the next sample record, or a record of another kind.
ReadCounters(t) ==
  \/ /\ buf[t] # <<>>
     /\ delta' = [delta EXCEPT ![t] = Head(buf[t])]
     /\ buf' = [buf EXCEPT ![t] = Tail(@)]
     /\ UNCHANGED misses
  \/ /\ misses < MaxMisses
     /\ misses' = misses + 1
     /\ delta' = [delta EXCEPT ![t] = NoPhase]
     /\ UNCHANGED buf

\* sigthyme_handler: one queued signal of t, handled to its end.
SigthymeHandler(t) ==
  LET n == phases[t] + 1
  IN /\ t \in Threads
     /\ pending[t] > 0
     /\ pending' = [pending EXCEPT ![t] = @ - 1]
     /\ phases' = [phases EXCEPT ![t] = n]
     /\ StartRound(t, n) \/ Sample(t, n) \/ Idle(t, n)
     /\ ReadCounters(t)
     /\ done' = (done \/ (t = 0 /\ n >= NumPhases))
     /\ UNCHANGED conf

Ended == (done \/ fault) /\ UNCHANGED vars

Next ==
  \/ ~done /\ ~fault /\ \E t \in Threads : PhaseEnd(t) \/ SigthymeHandler(t)
  \/ Ended

Spec == Init /\ [][Next]_vars

AllThreads == UNION {0..(c.threads - 1) : c \in Configs}

\* The profiled threads run and queued signals are delivered.
FairSpec ==
  /\ Spec
  /\ \A t \in AllThreads : WF_vars(~done /\ ~fault /\ PhaseEnd(t))
  /\ \A t \in AllThreads : WF_vars(~done /\ ~fault /\ SigthymeHandler(t))

----------------------------------------------------------------------------------
\* The vectors of points and the matrix of estimates are indexed within their
\* bounds, for as many threads as are profiled (README.md:50).
IndexInBounds == ~fault

(***************************************************************************)
(* A published curve has a point for every slice of the plan, labelled     *)
(* with the ways the plan gives it, and each one was measured in the round *)
(* that publishes it: errors and rounds cut short leave nothing behind.    *)
(***************************************************************************)
CurveComplete ==
  \A t \in Threads : published[t] # <<>> =>
    /\ \A s \in 2..NumSlices : published[t][s].x = Plan[s]
    /\ \A s, r \in 1..NumSlices : published[t][s].round = published[t][r].round

(***************************************************************************)
(* The point of a curve at w ways was measured with w ways, as "the plan   *)
(* is to allocate the target thread 11->8->6->4->2->1 way(s)"              *)
(* (datamime-profiler.cpp:350) promises.                                   *)
(***************************************************************************)
SampledUnderItsWays ==
  \A t \in Threads : published[t] # <<>> =>
    \A s \in 1..NumSlices : published[t][s].y = published[t][s].x

\* The handler calls of thread 0 from the start of a round to the next start, at
\* least: the first round is followed by the next multiple of Profile.
RoundGap == Profile - (Warmup % Profile)

\* Every round has the time for its slices and for the calls that find nothing.
RoundsApart == RoundGap > NumSlices + MaxMisses

\* And for reading the records of its phases that its last call leaves behind, up
\* to one for each queued signal and each call that found nothing.
RecordsDrain == RoundGap >= NumSlices + 2 * MaxMisses + MaxQueue

(***************************************************************************)
(* With one thread, no published point was measured with fewer ways than   *)
(* it is labelled with: the handler looks at counters that are at least    *)
(* one phase old, and the plan only shrinks.  Only a round that comes      *)
(* before the records of the last one are read may find phases of its      *)
(* small slices in its first points.                                       *)
(***************************************************************************)
MeasuredWithAtLeast ==
  (NumThreads = 1 /\ RecordsDrain) =>
    \A t \in Threads : published[t] # <<>> =>
      \A s \in 1..NumSlices : published[t][s].y >= published[t][s].x

(***************************************************************************)
(* During a round the profiled core has the ways of the slice to itself,   *)
(* and they are the ways currentlySampling reports; outside a round every  *)
(* core may use the whole cache.                                           *)
(***************************************************************************)
CachePartition ==
  /\ (monitorStart /\ ~fault /\ idx > 0) =>
       /\ cbm[cos[profiled]] = ProfiledWays(idx)
       /\ sampling[profiled].ways = Cardinality(cbm[cos[profiled]])
       /\ \A c \in Cores \ {profiled} : cbm[cos[c]] \cap cbm[cos[profiled]] = {}
  /\ ~monitorStart => \A c \in Cores : cbm[cos[c]] = Ways

\* With one thread a round takes one handler call per slice, and one more for
\* each call that finds the counters unchanged, until the call that ends the profile.
RoundBounded ==
  (monitorStart /\ ~fault /\ ~done /\ NumThreads = 1) =>
    phases[0] <= start + NumSlices - 1 + misses

(***************************************************************************)
(* With one thread, and rounds far enough apart for the calls that find    *)
(* nothing, every round publishes its curve before the profile is done,    *)
(* except one that started too near its end.                               *)
(***************************************************************************)
CurveEventually ==
  (NumThreads = 1 /\ RoundsApart) =>
    <>(done /\ (curves[0] = round \/ start + NumSlices + misses > NumPhases))
==================================================================================
