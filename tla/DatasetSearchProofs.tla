--------------------------- MODULE DatasetSearchProofs ---------------------------
(***************************************************************************)
(* TLAPS proofs about the dataset search, for every number of trials and   *)
(* of faults.                                                              *)
(***************************************************************************)
EXTENDS DatasetSearch, TLAPS

Labels == {"trial", "spawn", "pidfile", "wait", "load", "mrc", "mrcWait",
           "counters", "countersWait", "teardown", "cost", "best",
           "end", "exit", "noDump", "traceback"}

\* The part of the state the proofs need the types of.
TypeOK ==
  /\ pc \in Labels
  /\ runs \in 0..MaxIter
  /\ best \in {None} \cup 0..(MaxIter - 1)
  /\ costs \in Seq(Int)
  /\ model \in Int /\ appParams \in Int
  /\ stopAsked \in Int
  /\ faults \in Nat

\* Where the trials are: trial number `runs' is under way, or all are over.
TrialInv ==
  /\ pc # "traceback" => Len(costs) = runs
  /\ Len(costs) <= runs
  /\ pc \notin {"best", "end", "exit", "noDump", "traceback"} /\ best = None
       => runs < MaxIter
  /\ pc \in {"best", "end"} \/ best # None => runs = MaxIter
  /\ pc \in {"cost", "best"} => best = None

\* The tid file is this trial's from Prepare on, and so is the thread read from it.
TidInv ==
  /\ pc \in {"spawn", "pidfile", "wait"} => tidfile \in {None, current}
  /\ pc \in {"load", "mrc", "mrcWait", "counters", "countersWait"}
       => profiledTids = current

\* What the application of the trial was given, and what the rows were measured with.
ParamsInv ==
  badModel = "no" =>
    /\ pc = "spawn" /\ wltype = "dnn" => model = currentParams
    /\ pc \in {"pidfile", "wait", "load", "mrc", "mrcWait", "counters",
               "countersWait", "teardown", "cost"} => appParams = currentParams
    /\ \A i \in 1..Len(costs) : costs[i] = i - 1

\* An interrupt of the counters profile leads to the end of the script, and nothing
\* else does to its exit.
StopInv ==
  stopAsked # None =>
    /\ stopAsked = current
    /\ Len(costs) <= stopAsked
    /\ \/ pc = "countersWait" /\ interrupted # "no"
       \/ pc = "teardown" /\ receivedSigint = "yes"
       \/ pc \in {"exit", "noDump", "traceback"}

ExitInv ==
  \/ pc = "countersWait" /\ interrupted # "no"
  \/ pc = "teardown" /\ receivedSigint = "yes"
  \/ pc = "exit"
  => stopAsked = current

\* Between trials there is nothing of a trial.
CleanInv == pc \in {"trial", "cost", "best", "end", "exit"} => NothingLeft

\* Undisturbed, each file is complete by the time it is read.
UndisturbedInv ==
  faults = 0 =>
    /\ pc \notin {"noDump", "traceback"}
    /\ app # "dead" /\ badModel = "no"
    /\ pc \in {"spawn", "pidfile", "wait", "load", "mrc", "mrcWait"} => counters = "none"
    /\ pc \in {"counters", "countersWait", "teardown", "cost"} => mrc = "full"
    /\ pc \in {"teardown", "cost"} => counters = "full"
    /\ profiler # "none" => pc \in {"mrcWait", "countersWait"}
    /\ profiler = "ended" /\ pc = "mrcWait" => mrc = "full"
    /\ profiler = "ended" /\ pc = "countersWait" => counters = "full"
    /\ interrupted = "no"

SearchInv ==
  TypeOK /\ TrialInv /\ TidInv /\ ParamsInv /\ StopInv /\ ExitInv /\ CleanInv
    /\ UndisturbedInv

(***************************************************************************)
(* The inductive invariant of the search: where it is in its trials, whose *)
(* tid file and parameters are in use, where an interrupt has led it, and  *)
(* what it has written if nothing disturbed it.                            *)
(***************************************************************************)
THEOREM SearchInvHolds == Spec => []SearchInv
<1> USE DatasetSearchAssumption DEF None, Stale, Opt, current, currentParams
<1>1. Init => SearchInv
  BY DEF Init, SearchInv, TypeOK, TrialInv, TidInv, ParamsInv, StopInv, ExitInv,
         CleanInv, NothingLeft, UndisturbedInv, Labels
<1>2. SearchInv /\ [Next]_vars => SearchInv'
  <2> SUFFICES ASSUME SearchInv, [Next]_vars
               PROVE  SearchInv'
    OBVIOUS
  <2> USE DEF SearchInv, TypeOK, TrialInv, TidInv, ParamsInv, StopInv, ExitInv, CleanInv,
              NothingLeft, UndisturbedInv, procVars, profVars, searchVars, historyVars
  <2>1. CASE UNCHANGED vars
    BY <2>1 DEF vars
  <2>2. CASE Prepare
    BY <2>2 DEF Prepare, CleanTidfile, CreateModel, Labels
  <2>3. CASE Spawn
    BY <2>3 DEF Spawn, Labels
  <2>4. CASE WritePid
    BY <2>4 DEF WritePid, Labels
  <2>5. CASE ReadTid
    BY <2>5 DEF ReadTid, Labels
  <2>6. CASE StartLoad
    BY <2>6 DEF StartLoad, Labels
  <2>7. CASE StartProfiler
    BY <2>7 DEF StartProfiler, Labels
  <2>8. CASE MakeCsv
    BY <2>8 DEF MakeCsv, Labels
  <2>9. CASE Teardown
    BY <2>9 DEF Teardown, Labels
  <2>10. CASE Cost
    <3>1. /\ pc = "cost" /\ best = None /\ Len(costs) = runs /\ runs < MaxIter
          /\ runs' = runs + 1
          /\ stopAsked = None
          /\ UNCHANGED <<procVars, profVars, best, faults, historyVars, wltype>>
      BY <2>10 DEF Cost
    <3>2. runs' \in 0..MaxIter
      BY <3>1
    <3>3. CASE {mrc, counters} # {"full"} /\ pc' = "traceback" /\ UNCHANGED costs
      BY <3>1, <3>2, <3>3 DEF Labels
    <3>4. CASE /\ pc' = IF runs' < MaxIter THEN "trial" ELSE "best"
               /\ costs' = Append(costs, appParams)
      <4>1. /\ costs' \in Seq(Int)
            /\ Len(costs') = runs'
            /\ \A i \in 1..Len(costs) : costs'[i] = costs[i]
            /\ costs'[Len(costs')] = appParams
        BY <3>1, <3>4
      <4>2. badModel = "no" => \A i \in 1..Len(costs') : costs'[i] = i - 1
        BY <3>1, <4>1
      <4>3. TypeOK' /\ TrialInv' /\ CleanInv'
        BY <3>1, <3>2, <3>4, <4>1 DEF Labels
      <4>4. TidInv' /\ ParamsInv' /\ StopInv' /\ ExitInv' /\ UndisturbedInv'
        BY <3>1, <3>4, <4>2
      <4>5. QED
        BY <4>3, <4>4
    <3>5. QED
      BY <2>10, <3>3, <3>4 DEF Cost
  <2>11. CASE Best
    BY <2>11 DEF Best, Labels
  <2>12. CASE AppUp
    BY <2>12 DEF AppUp, Labels
  <2>13. CASE ProfilerEnds
    BY <2>13 DEF ProfilerEnds, ProfilerLeaves, cutShort
  <2>14. CASE AppDies
    BY <2>14 DEF AppDies, Fault
  <2>15. CASE LoadDies
    BY <2>15 DEF LoadDies, Fault
  <2>16. CASE ProfilerFails
    BY <2>16 DEF ProfilerFails, ProfilerLeaves, Fault
  <2>17. ASSUME NEW to \in {"script", "group"}, Interrupt(to)
         PROVE  SearchInv'
    BY <2>17 DEF Interrupt, Labels, Over, Fault
  <2>18. CASE Spin \/ Hang \/ Stopped
    BY <2>1, <2>18 DEF Spin, Hang, Stopped
  <2>19. QED
    BY <2>1, <2>2, <2>3, <2>4, <2>5, <2>6, <2>7, <2>8, <2>9, <2>10, <2>11, <2>12,
       <2>13, <2>14, <2>15, <2>16, <2>17, <2>18 DEF Next, Script
<1>3. QED
  BY <1>1, <1>2, PTL DEF Spec

(***************************************************************************)
(* Whatever tid file earlier trials or invocations left, and whichever     *)
(* process dies, the profiler is attached to a thread of the application   *)
(* of the current trial.                                                   *)
(***************************************************************************)
THEOREM ProfilesOwnThreadHolds == Spec => []ProfilesOwnThread
<1>1. SearchInv => ProfilesOwnThread
  BY DEF SearchInv, TidInv, ProfilesOwnThread
<1>2. QED
  BY <1>1, SearchInvHolds, PTL

(***************************************************************************)
(* Every row of cost.out was measured with the parameters of its own row   *)
(* in params.out, as long as every model was created.                      *)
(***************************************************************************)
THEOREM CostIsOfItsParamsHolds == Spec => []CostIsOfItsParams
<1>1. SearchInv => CostIsOfItsParams
  BY DEF SearchInv, TrialInv, ParamsInv, CostIsOfItsParams
<1>2. QED
  BY <1>1, SearchInvHolds, PTL

(***************************************************************************)
(* After an interrupt of the counters profile no trial is begun and no     *)
(* cost is reported.                                                       *)
(***************************************************************************)
THEOREM InterruptStopsHolds == Spec => []InterruptStops
<1>1. SearchInv => InterruptStops
  BY DEF SearchInv, StopInv, InterruptStops
<1>2. QED
  BY <1>1, SearchInvHolds, PTL

(***************************************************************************)
(* The script ends with a cost for every trial, or with its clean-up done  *)
(* after an interrupt of the counters profile; in any other way only after *)
(* a fault or an interrupt.                                                *)
(***************************************************************************)
THEOREM EndsInOrderHolds == Spec => []EndsInOrder
<1>1. SearchInv => EndsInOrder
  BY DEF SearchInv, TypeOK, TrialInv, StopInv, ExitInv, CleanInv, UndisturbedInv,
         EndsInOrder
<1>2. QED
  BY <1>1, SearchInvHolds, PTL
==================================================================================
