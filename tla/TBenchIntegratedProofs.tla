------------------------- MODULE TBenchIntegratedProofs -------------------------
(***************************************************************************)
(* TLAPS proofs about the integrated TailBench server, for every finite    *)
(* set of worker threads and every value of the limits.                    *)
(***************************************************************************)
EXTENDS TBenchIntegrated, FiniteSetTheorems, TLAPS

USE DEF At, Goto

\* Every variable of the harness keeps the type its declaration gives it.
THEOREM TypeCorrect == Spec => []TypeOK
<1>1. Init => TypeOK
  BY DEF Init, ClientInit, TypeOK, ClientTypeOK, ClientStatus, Labels, NoFile
<1>2. TypeOK /\ [Next]_vars => TypeOK'
  <2> SUFFICES ASSUME TypeOK, [Next]_vars
               PROVE  TypeOK'
    OBVIOUS
  <2> USE DEF TypeOK, ClientTypeOK, ClientStatus, Labels, NoFile
  <2>1. CASE UNCHANGED vars
    BY <2>1 DEF vars, clientVars, serverVars
  <2>2. ASSUME NEW t \in Threads, Loop(t)
        PROVE  TypeOK'
    BY <2>2 DEF Loop, serverVars
  <2>3. ASSUME NEW t \in Threads, RecvReq(t)
        PROVE  TypeOK'
    <3>1. UNCHANGED <<finishedReqs, numReqsProcessed, lats, sampled>>
      BY <2>3 DEF RecvReq
    <3>2. reqInfo' \in [Threads -> Nat]
      BY <2>3 DEF RecvReq
    <3>3. CASE EnterStartReq(t)
      BY <3>1, <3>2, <3>3 DEF EnterStartReq, BarrierArrive
    <3>4. CASE LeaveBarrier1(t)
      BY <3>1, <3>2, <3>4 DEF LeaveBarrier1, BarrierLeave
    <3>5. CASE InitOnce(t)
      BY <3>1, <3>2, <3>5 DEF InitOnce, CreateDist, BarrierArrive
    <3>6. CASE LeaveBarrier2(t)
      BY <3>1, <3>2, <3>6 DEF LeaveBarrier2, BarrierLeave
    <3>7. CASE NewReq(t, "serve")
      BY <3>1, <3>2, <3>7 DEF NewReq
    <3>8. QED
      BY <2>3, <3>3, <3>4, <3>5, <3>6, <3>7 DEF RecvReq, StartReq
  <2>4. ASSUME NEW t \in Threads, SendRespFini(t)
        PROVE  TypeOK'
    <3>1. inFlightReqs' \subseteq Nat
      BY <2>4 DEF SendRespFini, FiniReq
    <3>2. QED
      BY <2>4, <3>1 DEF SendRespFini, FiniReq
  <2>5. ASSUME NEW t \in Threads, SendRespCount(t)
        PROVE  TypeOK'
    BY <2>5 DEF SendRespCount, StartRoi, DumpStats
  <2>6. ASSUME NEW t \in Threads, Processed(t)
        PROVE  TypeOK'
    BY <2>6 DEF Processed
  <2>7. CASE ServerFinish
    BY <2>7 DEF ServerFinish, DumpStats, clientVars
  <2>8. QED
    BY <2>1, <2>2, <2>3, <2>4, <2>5, <2>6, <2>7 DEF Next, Worker, Ended
<1>3. QED
  BY <1>1, <1>2, PTL DEF Spec

---------------------------------------------------------------------------------
\* Cardinalities of sets of threads.
LEMMA ThreadSets ==
  ASSUME NEW S, S \subseteq Threads
  PROVE  /\ IsFiniteSet(S)
         /\ Cardinality(S) \in Nat
         /\ N \in Nat
         /\ Cardinality(S) <= N
         /\ \A t \in Threads \ S : Cardinality(S) <= N - 1
<1>1. IsFiniteSet(S) /\ Cardinality(S) <= N
  BY FS_Subset, ThreadsAssumption DEF N
<1>2. Cardinality(S) \in Nat /\ N \in Nat
  BY <1>1, FS_CardinalityType, ThreadsAssumption DEF N
<1>3. ASSUME NEW t \in Threads \ S
      PROVE  Cardinality(S) <= N - 1
  <2>1. Cardinality(Threads \ {t}) = N - 1 /\ IsFiniteSet(Threads \ {t})
    BY <1>3, FS_RemoveElement, ThreadsAssumption DEF N
  <2>2. S \in SUBSET (Threads \ {t})
    BY <1>3
  <2>3. QED
    BY <2>1, <2>2, FS_Subset
<1>4. QED
  BY <1>1, <1>2, <1>3

(***************************************************************************)
(* SampleAccounting is preserved by a step that leaves the samples, the    *)
(* count and the set of counting threads alone.                            *)
(***************************************************************************)
LEMMA QuietStep ==
  ASSUME SampleAccounting,
         UNCHANGED <<samples, finishedReqs, sampled>>,
         Counting' = Counting,
         status' = "ROI" => status = "ROI"
  PROVE  SampleAccounting'
  BY DEF SampleAccounting, N

(***************************************************************************)
(* The inductive invariant behind LatsWithinThreads: recording a sample    *)
(* and counting its request in two critical sections never lets the two    *)
(* tallies drift apart by more than the threads in between.                *)
(***************************************************************************)
THEOREM SampleAccountingHolds == Spec => [](TypeOK /\ SampleAccounting)
<1>1. Init => SampleAccounting
  BY DEF Init, ClientInit, SampleAccounting
<1>2. TypeOK /\ SampleAccounting /\ [Next]_vars => SampleAccounting'
  <2> SUFFICES ASSUME TypeOK, SampleAccounting, [Next]_vars
               PROVE  SampleAccounting'
    OBVIOUS
  <2> USE DEF TypeOK, ClientTypeOK
  <2>1. CASE UNCHANGED vars
    BY <2>1, QuietStep DEF vars, clientVars, serverVars, Counting
  <2>2. ASSUME NEW t \in Threads, Loop(t)
        PROVE  SampleAccounting'
    BY <2>2, QuietStep DEF Loop, serverVars, Counting
  <2>3. ASSUME NEW t \in Threads, RecvReq(t)
        PROVE  SampleAccounting'
    <3>1. UNCHANGED <<samples, finishedReqs, sampled>>
      BY <2>3 DEF RecvReq, StartReq, EnterStartReq, LeaveBarrier1, InitOnce,
                  LeaveBarrier2, NewReq
    <3>2. /\ pc[t] # "count"
          /\ \E l \in Labels \ {"count"} : Goto(t, l)
      BY <2>3 DEF RecvReq, StartReq, EnterStartReq, LeaveBarrier1, InitOnce,
                  LeaveBarrier2, NewReq, Labels
    <3>3. Counting' = Counting
      BY <3>2 DEF Counting
    <3>4. status' = "ROI" => status = "ROI"
      BY <2>3 DEF RecvReq, StartReq, EnterStartReq, LeaveBarrier1, InitOnce,
                  LeaveBarrier2, NewReq, CreateDist
    <3>5. QED
      BY <3>1, <3>3, <3>4, QuietStep
  <2>4. ASSUME NEW t \in Threads, SendRespFini(t)
        PROVE  SampleAccounting'
    <3>1. Counting' = Counting \cup {t} /\ t \notin Counting
      BY <2>4 DEF SendRespFini, Counting
    <3>2. Cardinality(Counting') = Cardinality(Counting) + 1
      BY <3>1, ThreadSets, FS_AddElement DEF Counting
    <3>3. Cardinality(sampled \cup {t}) = Cardinality(sampled) + 1
      BY <3>1, ThreadSets, FS_AddElement DEF SampleAccounting
    <3>4. /\ Cardinality(Counting) \in Nat
          /\ Cardinality(sampled) \in Nat
          /\ N \in Nat
      BY ThreadSets DEF Counting
    <3>5. CASE status = "ROI"
      <4>1. /\ samples' = samples + 1
            /\ sampled' = sampled \cup {t}
            /\ UNCHANGED <<status, finishedReqs>>
        BY <2>4, <3>5 DEF SendRespFini, FiniReq
      <4>2. sampled' \subseteq Counting'
        BY <3>1, <4>1 DEF SampleAccounting
      <4>3. QED
        BY <3>2, <3>3, <3>4, <3>5, <4>1, <4>2, LimitsAssumption
        DEF SampleAccounting, N
    <3>6. CASE status # "ROI"
      <4>1. UNCHANGED <<status, sampled>>
        BY <2>4, <3>6 DEF SendRespFini
      <4>2. QED
        BY <3>1, <3>6, <4>1 DEF SampleAccounting
    <3>7. QED
      BY <3>5, <3>6
  <2>5. ASSUME NEW t \in Threads, SendRespCount(t)
        PROVE  SampleAccounting'
    <3>1. Counting' = Counting \ {t} /\ t \in Counting
      BY <2>5 DEF SendRespCount, Counting
    <3>2. Cardinality(Counting') = Cardinality(Counting) - 1
      <4>1. IsFiniteSet(Counting)
        BY ThreadSets DEF Counting
      <4>2. QED
        BY <3>1, <4>1, FS_RemoveElement
    <3>3. Counting' \subseteq Threads /\ t \in Threads \ Counting'
      BY <3>1 DEF Counting
    <3>4. /\ Cardinality(Counting') \in Nat
          /\ Cardinality(Counting') <= N - 1
          /\ N \in Nat
      BY <3>3, ThreadSets
    <3>5. Cardinality(sampled) \in Nat /\ IsFiniteSet(sampled)
      BY ThreadSets
    <3>6. CASE finishedReqs + 1 = WarmupReqs
      <4>1. samples' = 0 /\ sampled' = {} /\ finishedReqs' = WarmupReqs
        BY <2>5, <3>6 DEF SendRespCount, StartRoi
      <4>2. Cardinality(sampled') = 0
        BY <4>1, FS_EmptySet
      <4>3. QED
        BY <3>4, <4>1, <4>2, LimitsAssumption DEF SampleAccounting, N
    <3>7. CASE finishedReqs + 1 # WarmupReqs
      <4>1. /\ UNCHANGED <<samples, status>>
            /\ sampled' = sampled \ {t}
            /\ finishedReqs' = finishedReqs + 1
        BY <2>5, <3>7 DEF SendRespCount
      <4>2. Cardinality(sampled') \in {Cardinality(sampled), Cardinality(sampled) - 1}
        BY <3>5, <4>1, FS_RemoveElement
      <4>3. sampled' \subseteq Counting'
        BY <3>1, <4>1 DEF SampleAccounting
      <4>4. Cardinality(Counting) \in Nat
        BY ThreadSets DEF Counting
      <4>5. QED
        BY <3>2, <3>4, <3>5, <4>1, <4>2, <4>3, <4>4, LimitsAssumption
        DEF SampleAccounting, N
    <3>8. QED
      BY <3>6, <3>7
  <2>6. ASSUME NEW t \in Threads, Processed(t)
        PROVE  SampleAccounting'
    BY <2>6, QuietStep DEF Processed, Counting
  <2>7. CASE ServerFinish
    BY <2>7, QuietStep DEF ServerFinish, clientVars, Counting
  <2>8. QED
    BY <2>1, <2>2, <2>3, <2>4, <2>5, <2>6, <2>7 DEF Next, Worker, Ended
<1>3. QED
  BY <1>1, <1>2, TypeCorrect, PTL DEF Spec

\* The arithmetic of the bound: a threads hold a sample, b threads are counting.
LEMMA Drift ==
  ASSUME NEW s \in Nat, NEW f \in Nat, NEW w \in Nat, NEW n \in Nat,
         NEW a \in Nat, NEW b \in Nat,
         a <= n - 1, s <= (f - w) + a, (f - w) + b <= s + n - 1
  PROVE  s <= (f - w) + (n - 1) /\ s >= (f - w) - (n - 1)
  OBVIOUS

(***************************************************************************)
(* The latency file written at the end of the run holds the samples of the *)
(* requests counted after the warm-up, up to N - 1 more or fewer, for any  *)
(* number of worker threads and any TBENCH_WARMUPREQS and TBENCH_MAXREQS.  *)
(***************************************************************************)
THEOREM LatsWithinThreadsHolds == Spec => []LatsWithinThreads
<1>1. Init => LatsWithinThreads
  BY DEF Init, ClientInit, LatsWithinThreads, exited
<1>2. /\ TypeOK /\ SampleAccounting
      /\ TypeOK' /\ SampleAccounting'
      /\ LatsWithinThreads
      /\ [Next]_vars
      => LatsWithinThreads'
  <2> SUFFICES ASSUME TypeOK, SampleAccounting, TypeOK', SampleAccounting',
                      LatsWithinThreads, [Next]_vars, exited', status' = "ROI"
               PROVE  /\ lats' <= (finishedReqs' - WarmupReqs) + (N - 1)
                      /\ lats' >= (finishedReqs' - WarmupReqs) - (N - 1)
    BY DEF LatsWithinThreads, N
  <2>1. CASE UNCHANGED vars
    BY <2>1 DEF vars, clientVars, serverVars, LatsWithinThreads, exited
  <2>2. ASSUME NEW t \in Threads, SendRespCount(t), ~exited
        PROVE  /\ lats' <= (finishedReqs' - WarmupReqs) + (N - 1)
               /\ lats' >= (finishedReqs' - WarmupReqs) - (N - 1)
    <3>1. lats' = samples'
      BY <2>2 DEF SendRespCount, DumpStats, exited
    <3>2. sampled' \subseteq Threads /\ t \in Threads \ sampled'
      BY <2>2 DEF SendRespCount, TypeOK
    <3>3. Cardinality(sampled') \in Nat /\ Cardinality(sampled') <= N - 1
      BY <3>2, ThreadSets
    <3>4. Cardinality(Counting') \in Nat /\ N \in Nat
      <4>1. Counting' \subseteq Threads
        BY DEF Counting
      <4>2. QED
        BY <4>1, ThreadSets
    <3>5. /\ samples' <= (finishedReqs' - WarmupReqs) + Cardinality(sampled')
          /\ (finishedReqs' - WarmupReqs) + Cardinality(Counting')
               <= samples' + N - 1
      BY DEF SampleAccounting, N
    <3>6. samples' \in Nat /\ finishedReqs' \in Nat
      BY DEF TypeOK, ClientTypeOK
    <3>7. WarmupReqs \in Nat
      BY LimitsAssumption
    <3>8. /\ samples' <= (finishedReqs' - WarmupReqs) + (N - 1)
          /\ samples' >= (finishedReqs' - WarmupReqs) - (N - 1)
      BY <3>3, <3>4, <3>5, <3>6, <3>7, Drift
    <3>9. QED
      BY <3>1, <3>8
  <2>3. CASE ServerFinish
    <3>1. /\ lats' = samples
          /\ UNCHANGED <<samples, finishedReqs, sampled, status, pc>>
          /\ Counting = {}
      BY <2>3 DEF ServerFinish, DumpStats, clientVars, Counting
    <3>2. sampled = {}
      BY <3>1 DEF SampleAccounting
    <3>3. Cardinality(sampled) = 0 /\ Cardinality(Counting) = 0
      BY <3>1, <3>2, FS_EmptySet
    <3>4. N \in Nat /\ N >= 1
      BY ThreadsAssumption, FS_EmptySet, FS_CardinalityType DEF N
    <3>5. /\ samples <= (finishedReqs - WarmupReqs) + Cardinality(sampled)
          /\ (finishedReqs - WarmupReqs) + Cardinality(Counting)
               <= samples + N - 1
      BY <3>1 DEF SampleAccounting
    <3>6. QED
      BY <3>1, <3>3, <3>4, <3>5, LimitsAssumption DEF TypeOK, ClientTypeOK
  <2>4. ASSUME NEW t \in Threads,
               Loop(t) \/ RecvReq(t) \/ SendRespFini(t) \/ Processed(t),
               ~exited
        PROVE  FALSE
    BY <2>4 DEF Loop, RecvReq, SendRespFini, Processed, serverVars, exited
  <2>5. QED
    BY <2>1, <2>2, <2>3, <2>4 DEF Next, Worker, Ended
<1>3. QED
  BY <1>1, <1>2, SampleAccountingHolds, PTL DEF Spec

---------------------------------------------------------------------------------
\* The start-up before the first barrier has opened, and after it has.
Gathering ==
  /\ released = {}
  /\ waiting = {t \in Threads : At(t, "barrier1")}
  /\ \A t \in Threads : pc[t] \in {"loop", "startReq", "barrier1", "done"}

Opened ==
  /\ waiting = {}
  /\ released = {t \in Threads : At(t, "barrier1")}
  /\ \A t \in Threads : pc[t] \in {"barrier1", "init"}

(***************************************************************************)
(* The inductive invariant of the start-up and of the two statuses that    *)
(* follow it: as long as there is no dist the threads gather at the first  *)
(* barrier or come out of it, and nothing has been counted; in the ROI the *)
(* warm-up has been counted.                                               *)
(***************************************************************************)
StatusInv ==
  /\ dist = "nullptr" => status = "INIT" /\ finishedReqs = 0 /\ (Gathering \/ Opened)
  /\ dist # "nullptr" => status # "INIT" /\ \A t \in Threads : pc[t] # "barrier1"
  /\ status = "ROI" => finishedReqs >= WarmupReqs

\* A thread that moves between labels outside the start-up leaves Gathering alone.
LEMMA QuietMove ==
  ASSUME TypeOK, StatusInv, NEW t \in Threads, NEW l \in Labels,
         pc[t] \notin {"barrier1", "init"},
         l \in {"loop", "startReq", "done"} \/ dist # "nullptr",
         l # "barrier1",
         Goto(t, l),
         UNCHANGED <<waiting, released, dist, status, finishedReqs>>
  PROVE  StatusInv'
<1> USE DEF TypeOK, ClientTypeOK
<1>1. CASE dist # "nullptr"
  BY <1>1 DEF StatusInv
<1>2. CASE dist = "nullptr"
  <2>1. Gathering
    BY <1>2 DEF StatusInv, Opened
  <2>2. Gathering'
    BY <1>2, <2>1 DEF Gathering
  <2>3. QED
    BY <1>2, <2>2 DEF StatusInv
<1>3. QED
  BY <1>1, <1>2

\* StatusInv is an invariant, for any number of threads.
THEOREM StatusInvHolds == Spec => [](TypeOK /\ StatusInv)
<1>1. Init => StatusInv
  BY DEF Init, ClientInit, StatusInv, Gathering
<1>2. TypeOK /\ StatusInv /\ [Next]_vars => StatusInv'
  <2> SUFFICES ASSUME TypeOK, StatusInv, [Next]_vars
               PROVE  StatusInv'
    OBVIOUS
  <2> USE DEF TypeOK, ClientTypeOK
  <2>1. CASE UNCHANGED vars
    BY <2>1 DEF vars, clientVars, serverVars, StatusInv, Gathering, Opened
  <2>2. ASSUME NEW t \in Threads, Loop(t)
        PROVE  StatusInv'
    BY <2>2, QuietMove DEF Loop, serverVars, Labels
  <2>3. ASSUME NEW t \in Threads, RecvReq(t)
        PROVE  StatusInv'
    <3>1. UNCHANGED finishedReqs
      BY <2>3 DEF RecvReq
    <3>2. CASE EnterStartReq(t)
      <4>1. CASE status # "INIT"
        <5>1. dist # "nullptr"
          BY <4>1 DEF StatusInv
        <5>2. QED
          BY <3>1, <3>2, <4>1, <5>1, QuietMove DEF EnterStartReq, Labels
      <4>2. CASE status = "INIT"
        <5>1. dist = "nullptr" /\ Gathering
          BY <3>2, <4>2 DEF EnterStartReq, StatusInv, Opened
        <5>2. UNCHANGED <<status, dist>> /\ BarrierArrive(t) /\ Goto(t, "barrier1")
          BY <3>2, <4>2 DEF EnterStartReq
        <5>3. CASE waiting \cup {t} = Threads
          <6>1. \A u \in Threads : pc'[u] = "barrier1"
            BY <5>1, <5>2, <5>3 DEF Gathering
          <6>2. waiting' = {} /\ released' = Threads
            BY <5>2, <5>3 DEF BarrierArrive
          <6>3. Opened'
            BY <6>1, <6>2 DEF Opened
          <6>4. QED
            BY <3>1, <4>2, <5>1, <5>2, <6>3 DEF StatusInv
        <5>4. CASE waiting \cup {t} # Threads
          <6>1. waiting' = waiting \cup {t} /\ released' = {}
            BY <5>1, <5>2, <5>4 DEF BarrierArrive, Gathering
          <6>2. Gathering'
            BY <5>1, <5>2, <6>1 DEF Gathering
          <6>3. QED
            BY <3>1, <4>2, <5>1, <5>2, <6>2 DEF StatusInv
        <5>5. QED
          BY <5>3, <5>4
      <4>3. QED
        BY <4>1, <4>2
    <3>3. CASE LeaveBarrier1(t)
      <4>1. dist = "nullptr" /\ Opened
        BY <3>3 DEF LeaveBarrier1, BarrierLeave, StatusInv, Gathering
      <4>2. Opened'
        BY <3>3, <4>1 DEF LeaveBarrier1, BarrierLeave, Opened
      <4>3. QED
        BY <3>1, <3>3, <4>1, <4>2 DEF LeaveBarrier1, StatusInv
    <3>4. CASE InitOnce(t)
      <4>1. CASE dist = "nullptr"
        <5>1. Opened /\ released = {}
          BY <3>4, <4>1 DEF InitOnce, BarrierArrive, StatusInv, Gathering
        <5>2. \A u \in Threads : pc[u] = "init"
          BY <5>1 DEF Opened
        <5>3. /\ dist' # "nullptr" /\ status' = "WARMUP"
              /\ \A u \in Threads : pc'[u] # "barrier1"
          BY <3>4, <4>1, <5>2 DEF InitOnce, CreateDist
        <5>4. QED
          BY <5>3 DEF StatusInv
      <4>2. CASE dist # "nullptr"
        BY <3>1, <3>4, <4>2 DEF InitOnce, CreateDist, StatusInv
      <4>3. QED
        BY <4>1, <4>2
    <3>5. CASE LeaveBarrier2(t)
      <4>1. dist # "nullptr"
        BY <3>5 DEF LeaveBarrier2, StatusInv, Gathering, Opened
      <4>2. QED
        BY <3>1, <3>5, <4>1 DEF LeaveBarrier2, StatusInv
    <3>6. CASE NewReq(t, "serve")
      <4>1. dist # "nullptr"
        BY <3>6 DEF NewReq, StatusInv, Gathering, Opened
      <4>2. QED
        BY <3>1, <3>6, <4>1 DEF NewReq, StatusInv
    <3>7. QED
      BY <2>3, <3>2, <3>3, <3>4, <3>5, <3>6 DEF RecvReq, StartReq
  <2>4. ASSUME NEW t \in Threads, SendRespFini(t)
        PROVE  StatusInv'
    <3>1. dist # "nullptr"
      BY <2>4 DEF SendRespFini, StatusInv, Gathering, Opened
    <3>2. QED
      BY <2>4, <3>1 DEF SendRespFini, StatusInv
  <2>5. ASSUME NEW t \in Threads, SendRespCount(t)
        PROVE  StatusInv'
    <3>1. dist # "nullptr"
      BY <2>5 DEF SendRespCount, StatusInv, Gathering, Opened
    <3>2. /\ UNCHANGED dist
          /\ finishedReqs' = finishedReqs + 1
          /\ \A u \in Threads : pc'[u] # "barrier1"
          /\ \/ status' = "ROI" /\ finishedReqs' = WarmupReqs
             \/ UNCHANGED status
      BY <2>5, <3>1 DEF SendRespCount, StartRoi, StatusInv
    <3>3. QED
      BY <3>1, <3>2, LimitsAssumption DEF StatusInv
  <2>6. ASSUME NEW t \in Threads, Processed(t)
        PROVE  StatusInv'
    BY <2>6, QuietMove DEF Processed, Labels
  <2>7. CASE ServerFinish
    BY <2>7 DEF ServerFinish, clientVars, StatusInv, Gathering, Opened
  <2>8. QED
    BY <2>1, <2>2, <2>3, <2>4, <2>5, <2>6, <2>7 DEF Next, Worker, Ended
<1>3. QED
  BY <1>1, <1>2, TypeCorrect, PTL DEF Spec

(***************************************************************************)
(* No thread dereferences a null dist in startReq, serves a request in     *)
(* INIT, or is still at the first barrier when dist is created.            *)
(***************************************************************************)
THEOREM StartupOrderHolds == Spec => []StartupOrder
<1>1. StatusInv => StartupOrder
  BY DEF StatusInv, StartupOrder, Gathering, Opened
<1>2. QED
  BY <1>1, StatusInvHolds, PTL

(***************************************************************************)
(* The integrated server implements the abstract measurement: whatever the *)
(* threads' interleaving, the ROI begins once and from the warm-up,        *)
(* samples are recorded one at a time in the ROI only, and the one latency *)
(* file holds all of them.                                                 *)
(***************************************************************************)
THEOREM Refinement == Spec => ImplementsMeasurement
<1>1. Init => M!Init
  BY DEF Init, ClientInit, NoFile, M!Init
<1>2. TypeOK /\ StatusInv /\ [Next]_vars => [M!Next]_(M!mvars)
  <2> SUFFICES ASSUME TypeOK, StatusInv, [Next]_vars
               PROVE  M!Next \/ UNCHANGED <<status, samples, lats>>
    BY DEF M!mvars
  <2> USE DEF TypeOK, ClientTypeOK, exited, NoFile, M!Running
  <2>1. CASE UNCHANGED vars
    BY <2>1 DEF vars, clientVars, serverVars
  <2>2. ASSUME NEW t \in Threads, Loop(t) \/ Processed(t)
        PROVE  UNCHANGED <<status, samples, lats>>
    BY <2>2 DEF Loop, Processed, serverVars
  <2>3. ASSUME NEW t \in Threads, RecvReq(t), ~exited
        PROVE  M!BeginWarmup \/ UNCHANGED <<status, samples, lats>>
    <3>1. UNCHANGED lats
      BY <2>3 DEF RecvReq
    <3>2. CASE InitOnce(t) /\ dist = "nullptr"
      BY <2>3, <3>1, <3>2 DEF InitOnce, CreateDist, StatusInv, M!BeginWarmup
    <3>3. CASE InitOnce(t) /\ dist # "nullptr"
      BY <3>1, <3>3 DEF InitOnce, CreateDist
    <3>4. CASE EnterStartReq(t) \/ LeaveBarrier1(t) \/ LeaveBarrier2(t)
                 \/ NewReq(t, "serve")
      BY <3>1, <3>4 DEF EnterStartReq, LeaveBarrier1, LeaveBarrier2, NewReq
    <3>5. QED
      BY <2>3, <3>2, <3>3, <3>4 DEF RecvReq, StartReq
  <2>4. ASSUME NEW t \in Threads, SendRespFini(t), ~exited
        PROVE  M!Record \/ UNCHANGED <<status, samples, lats>>
    BY <2>4 DEF SendRespFini, FiniReq, M!Record
  <2>5. ASSUME NEW t \in Threads, SendRespCount(t), ~exited
        PROVE  M!BeginRoi \/ M!Write \/ UNCHANGED <<status, samples, lats>>
    <3>1. status # "INIT"
      BY <2>5 DEF SendRespCount, StatusInv, Gathering, Opened
    <3>2. CASE finishedReqs + 1 = WarmupReqs
      <4>1. status = "WARMUP"
        BY <3>1, <3>2, LimitsAssumption DEF StatusInv, ClientStatus
      <4>2. QED
        BY <2>5, <3>2, <4>1 DEF SendRespCount, StartRoi, M!BeginRoi
    <3>3. CASE finishedReqs + 1 # WarmupReqs
      BY <2>5, <3>3 DEF SendRespCount, DumpStats, M!Write
    <3>4. QED
      BY <3>2, <3>3
  <2>6. ASSUME ServerFinish, ~exited
        PROVE  M!Write
    BY <2>6 DEF ServerFinish, DumpStats, clientVars, M!Write
  <2>7. QED
    BY <2>1, <2>2, <2>3, <2>4, <2>5, <2>6 DEF Next, Worker, Ended, M!Next
<1>3. QED
  BY <1>1, <1>2, StatusInvHolds, PTL DEF Spec, ImplementsMeasurement, M!Spec

---------------------------------------------------------------------------------
\* The ids in flight have been handed out: startedReqs is a fresh id.
IdsHandedOut == \A r \in inFlightReqs : r < startedReqs

(***************************************************************************)
(* The assert of finiReq holds for any number of threads.  The invariant   *)
(* it needs is that ids are never reused, so that startReq's new id is     *)
(* neither in flight nor held by another thread.                           *)
(***************************************************************************)
THEOREM FindsRequestHolds == Spec => []FindsRequest
<1>1. Init => IdsHandedOut /\ FindsRequest
  BY DEF Init, ClientInit, IdsHandedOut, FindsRequest, Serving
<1>2. TypeOK /\ IdsHandedOut /\ FindsRequest /\ [Next]_vars
      => (IdsHandedOut /\ FindsRequest)'
  <2> SUFFICES ASSUME TypeOK, IdsHandedOut, FindsRequest, [Next]_vars
               PROVE  (IdsHandedOut /\ FindsRequest)'
    OBVIOUS
  <2> USE DEF TypeOK, ClientTypeOK, IdsHandedOut, FindsRequest, Serving
  <2>1. CASE UNCHANGED vars
    BY <2>1 DEF vars, clientVars, serverVars
  <2>2. ASSUME NEW t \in Threads, NEW l \in Labels \ {"serve"}, Goto(t, l),
               UNCHANGED <<reqInfo, inFlightReqs, startedReqs>>
        PROVE  (IdsHandedOut /\ FindsRequest)'
    BY <2>2
  <2>3. ASSUME NEW t \in Threads, Loop(t) \/ SendRespCount(t) \/ Processed(t)
        PROVE  (IdsHandedOut /\ FindsRequest)'
    BY <2>2, <2>3 DEF Loop, SendRespCount, Processed, Labels, serverVars
  <2>4. ASSUME NEW t \in Threads, RecvReq(t)
        PROVE  (IdsHandedOut /\ FindsRequest)'
    <3>1. CASE NewReq(t, "serve")
      <4>1. /\ reqInfo' = [reqInfo EXCEPT ![t] = startedReqs]
            /\ inFlightReqs' = inFlightReqs \cup {startedReqs}
            /\ startedReqs' = startedReqs + 1
            /\ Goto(t, "serve")
        BY <2>4, <3>1 DEF RecvReq, NewReq
      <4>2. IdsHandedOut'
        BY <4>1
      <4>3. \A u \in Threads \ {t} : At(u, "serve") => reqInfo[u] < startedReqs
        OBVIOUS
      <4>4. QED
        BY <4>1, <4>2, <4>3
    <3>2. CASE ~NewReq(t, "serve")
      <4>1. UNCHANGED <<reqInfo, inFlightReqs, startedReqs>>
        BY <2>4, <3>2 DEF RecvReq, StartReq, EnterStartReq, LeaveBarrier1,
                         InitOnce, LeaveBarrier2
      <4>2. \E l \in Labels \ {"serve"} : Goto(t, l)
        BY <2>4, <3>2 DEF RecvReq, StartReq, EnterStartReq, LeaveBarrier1,
                         InitOnce, LeaveBarrier2, Labels
      <4>3. QED
        BY <4>1, <4>2, <2>2
    <3>3. QED
      BY <3>1, <3>2
  <2>5. ASSUME NEW t \in Threads, SendRespFini(t)
        PROVE  (IdsHandedOut /\ FindsRequest)'
    <3>1. /\ At(t, "serve")
          /\ inFlightReqs' = inFlightReqs \ {reqInfo[t]}
          /\ UNCHANGED <<reqInfo, startedReqs>>
          /\ Goto(t, "count")
      BY <2>5 DEF SendRespFini, FiniReq
    <3>2. QED
      BY <3>1
  <2>6. CASE ServerFinish
    BY <2>6 DEF ServerFinish, clientVars
  <2>7. QED
    BY <2>1, <2>3, <2>4, <2>5, <2>6 DEF Next, Worker, Ended
<1>3. QED
  BY <1>1, <1>2, TypeCorrect, PTL DEF Spec

---------------------------------------------------------------------------------
\* Threads with a request, and threads that have passed the loop's test.
InService == {t \in Threads : pc[t] \in {"serve", "count", "processed"}}

Admitted == {t \in Threads : pc[t] \notin {"loop", "done"}}

(***************************************************************************)
(* The two counters: every request begun has been processed or is in       *)
(* service, and a thread is admitted only while the processed ones leave   *)
(* room, when it is not itself among the admitted.                         *)
(***************************************************************************)
OverrunInv ==
  /\ startedReqs = numReqsProcessed + Cardinality(InService)
  /\ Admitted # {} =>
       numReqsProcessed + Cardinality(Admitted) <= NumReqsToProcess + N - 1
  /\ numReqsProcessed <= NumReqsToProcess + N - 1

LEMMA InServiceSets ==
  ASSUME TypeOK
  PROVE  /\ InService \subseteq Threads
         /\ Admitted \subseteq Threads
         /\ IsFiniteSet(InService) /\ IsFiniteSet(Admitted)
         /\ Cardinality(InService) \in Nat
         /\ Cardinality(Admitted) \in Nat
         /\ Cardinality(InService) <= Cardinality(Admitted)
         /\ N \in Nat \ {0}
<1>1. InService \subseteq Admitted /\ Admitted \subseteq Threads
  BY DEF InService, Admitted
<1>2. IsFiniteSet(Admitted) /\ Cardinality(InService) <= Cardinality(Admitted)
  BY <1>1, ThreadSets, FS_Subset
<1>3. N # 0
  BY ThreadsAssumption, FS_EmptySet DEF N
<1>4. QED
  BY <1>1, <1>2, <1>3, ThreadSets

THEOREM StartedOverrunHolds == Spec => []StartedOverrun
<1> USE DEF TypeOK, ClientTypeOK
<1>1. Init => OverrunInv
  <2> SUFFICES ASSUME Init PROVE OverrunInv
    OBVIOUS
  <2>1. InService = {} /\ Admitted = {}
    BY DEF Init, InService, Admitted
  <2>2. N \in Nat \ {0}
    BY ThreadsAssumption, FS_EmptySet, FS_CardinalityType DEF N
  <2>3. QED
    BY <2>1, <2>2, FS_EmptySet, LimitsAssumption DEF Init, ClientInit, OverrunInv
<1>2. TypeOK /\ OverrunInv /\ [Next]_vars => OverrunInv'
  <2> SUFFICES ASSUME TypeOK, OverrunInv, [Next]_vars
               PROVE  OverrunInv'
    OBVIOUS
  <2>0. /\ IsFiniteSet(InService) /\ IsFiniteSet(Admitted)
        /\ Cardinality(InService) \in Nat /\ Cardinality(Admitted) \in Nat
        /\ N \in Nat \ {0}
        /\ NumReqsToProcess \in Nat
        /\ startedReqs \in Nat /\ numReqsProcessed \in Nat
        /\ pc \in [Threads -> Labels]
    BY InServiceSets, LimitsAssumption
  <2>1. ASSUME UNCHANGED <<startedReqs, numReqsProcessed>>,
               InService' = InService, Admitted' = Admitted
        PROVE  OverrunInv'
    BY <2>1 DEF OverrunInv, N
  <2>2. CASE UNCHANGED vars
    BY <2>1, <2>2 DEF vars, clientVars, serverVars, InService, Admitted
  <2>3. ASSUME NEW t \in Threads, Loop(t)
        PROVE  OverrunInv'
    <3>1. InService' = InService
          /\ UNCHANGED <<startedReqs, numReqsProcessed>>
      BY <2>0, <2>3 DEF Loop, InService, serverVars
    <3>2. CASE numReqsProcessed < NumReqsToProcess
      <4>1. Admitted' = Admitted \cup {t} /\ t \in Threads \ Admitted
        BY <2>0, <2>3, <3>2 DEF Loop, Admitted
      <4>2. Cardinality(Admitted') = Cardinality(Admitted) + 1
        BY <4>1, <2>0, FS_AddElement
      <4>3. Cardinality(Admitted) <= N - 1
        BY <4>1, ThreadSets DEF Admitted
      <4>4. QED
        BY <2>0, <3>1, <3>2, <4>2, <4>3 DEF OverrunInv, N
    <3>3. CASE ~(numReqsProcessed < NumReqsToProcess)
      <4>1. Admitted' = Admitted
        BY <2>0, <2>3, <3>3 DEF Loop, Admitted
      <4>2. QED
        BY <2>1, <3>1, <4>1
    <3>4. QED
      BY <3>2, <3>3
  <2>4. ASSUME NEW t \in Threads, RecvReq(t)
        PROVE  OverrunInv'
    <3>1. UNCHANGED numReqsProcessed
      BY <2>4 DEF RecvReq
    <3>2. Admitted' = Admitted
      BY <2>0, <2>4 DEF RecvReq, StartReq, EnterStartReq, LeaveBarrier1, InitOnce,
                        LeaveBarrier2, NewReq, Admitted
    <3>3. CASE NewReq(t, "serve")
      <4>1. /\ InService' = InService \cup {t} /\ t \notin InService
            /\ startedReqs' = startedReqs + 1
        BY <2>0, <3>3 DEF NewReq, InService
      <4>2. Cardinality(InService') = Cardinality(InService) + 1
        BY <4>1, <2>0, FS_AddElement
      <4>3. QED
        BY <2>0, <3>1, <3>2, <4>1, <4>2 DEF OverrunInv, N
    <3>4. CASE ~NewReq(t, "serve")
      <4>1. InService' = InService /\ UNCHANGED startedReqs
        BY <2>0, <2>4, <3>4 DEF RecvReq, StartReq, EnterStartReq, LeaveBarrier1,
                                InitOnce, LeaveBarrier2, InService
      <4>2. QED
        BY <2>1, <3>1, <3>2, <4>1
    <3>5. QED
      BY <3>3, <3>4
  <2>5. ASSUME NEW t \in Threads, SendRespFini(t) \/ SendRespCount(t)
        PROVE  OverrunInv'
    <3>1. InService' = InService /\ Admitted' = Admitted
      BY <2>0, <2>5 DEF SendRespFini, SendRespCount, InService, Admitted
    <3>2. QED
      BY <2>1, <2>5, <3>1 DEF SendRespFini, SendRespCount
  <2>6. ASSUME NEW t \in Threads, Processed(t)
        PROVE  OverrunInv'
    <3>1. /\ InService' = InService \ {t} /\ t \in InService
          /\ Admitted' = Admitted \ {t} /\ t \in Admitted
          /\ numReqsProcessed' = numReqsProcessed + 1
          /\ UNCHANGED startedReqs
      BY <2>0, <2>6 DEF Processed, InService, Admitted
    <3>2. /\ Cardinality(InService') = Cardinality(InService) - 1
          /\ Cardinality(Admitted') = Cardinality(Admitted) - 1
      BY <2>0, <3>1, FS_RemoveElement
    <3>3. Cardinality(Admitted) - 1 \in Nat
      <4>1. IsFiniteSet(Admitted \ {t})
        BY <2>0, FS_RemoveElement
      <4>2. QED
        BY <3>1, <3>2, <4>1, FS_CardinalityType
    <3>4. QED
      BY <2>0, <3>1, <3>2, <3>3 DEF OverrunInv, N
  <2>7. CASE ServerFinish
    BY <2>1, <2>7 DEF ServerFinish, clientVars, InService, Admitted
  <2>8. QED
    BY <2>2, <2>3, <2>4, <2>5, <2>6, <2>7 DEF Next, Worker, Ended
<1>3. TypeOK /\ OverrunInv => StartedOverrun
  <2> SUFFICES ASSUME TypeOK, OverrunInv PROVE StartedOverrun
    OBVIOUS
  <2>1. CASE Admitted = {}
    <3>1. InService = {}
      BY <2>1 DEF InService, Admitted
    <3>2. QED
      BY <3>1, FS_EmptySet, InServiceSets, LimitsAssumption DEF OverrunInv, StartedOverrun
  <2>2. CASE Admitted # {}
    BY <2>2, InServiceSets, LimitsAssumption DEF OverrunInv, StartedOverrun
  <2>3. QED
    BY <2>1, <2>2
<1>4. QED
  BY <1>1, <1>2, <1>3, TypeCorrect, PTL DEF Spec
=================================================================================
