------------------------------ MODULE DatasetSearch ------------------------------
(***************************************************************************)
(* The dataset search: search/search_dataset.py, the run() methods of      *)
(* apps/workloads.py, profile_threads of profiler/harness.py and the cost  *)
(* and read_profile methods of search/workload_base.py.  One script runs   *)
(* the trials one after the other.  In each trial it starts an application *)
(* with the trial's parameters, waits for the file in which a worker       *)
(* thread saves its id, has the profiler measure that thread twice (miss   *)
(* curves, then counters), ends the application and computes the trial's   *)
(* cost from the profiler's files.  After MaxIter trials it evaluates the  *)
(* best parameters once more.                                              *)
(*                                                                         *)
(* The script shares the machine with processes it does not control: the   *)
(* application or the load generator may die, the profiler may be          *)
(* interrupted, a model may fail to be created, and the user may send      *)
(* SIGINT to the script or, with ^C, to every process of its group.  Their *)
(* number is bounded by MaxFaults.  A trial is named by its number, and so *)
(* are its parameters, its application, that application's thread and its  *)
(* files, whose names contain the number and the thread id.                *)
(***************************************************************************)
EXTENDS Integers, Sequences

CONSTANTS
  MaxIter,           \* -m
  MaxFaults          \* bound: faults and interrupts

ASSUME DatasetSearchAssumption == MaxIter \in Nat \ {0} /\ MaxFaults \in Nat

None == -1
Stale == -2          \* left by an earlier invocation of the script
Opt == MaxIter       \* the evaluation of the optimum, header opt/opt

VARIABLES
  wltype,            \* "dnn", "tbench" (Xapian and Silo) or "memcached"
  pc,                \* where the script is
  runs,              \* wl.runs
  best,              \* optimum_params: a trial, or None before the end
  model,             \* dnn: the trial whose parameters custom_model.pt has
  tidfile,           \* the trial whose application wrote it, None or Stale
  app,               \* "none", "starting", "serving", "dead"
  appParams,         \* the trial whose parameters the application uses
  load,              \* mutilate: "none", "up", "dead"
  pidfiles,          \* server.pid, client.pid
  profiledTids,      \* the trial whose application's thread is profiled
  profiler,          \* "none", "running", "ended"
  interrupted,       \* KeyboardInterrupt in this call of profile_threads
  receivedSigint,    \* what the last call of profile_threads returned
  mrc, counters,     \* the trial's files: "none", "short", "full"
  costs,             \* cost.out: the parameters each row was measured with
  faults,            \* how many so far
  badModel,          \* history: a model was not created
  stopAsked          \* history: the trial whose counters profile was interrupted

procVars == <<app, appParams, load, pidfiles, tidfile, model>>
profVars == <<profiledTids, profiler, interrupted, receivedSigint, mrc, counters>>
searchVars == <<runs, best, costs>>
historyVars == <<badModel, stopAsked>>
vars == <<wltype, pc, procVars, profVars, searchVars, faults, historyVars>>

current == IF best = None THEN runs ELSE Opt

\* The parameters the application of the current run is given.
currentParams == IF best = None THEN runs ELSE best

\* "exit" after a SIGINT, "noDump" from profile_threads, both by sys.exit.
Over == pc \in {"end", "exit", "noDump", "traceback"}

Init ==
  /\ wltype \in {"dnn", "tbench", "memcached"}
  /\ pc = "trial"
  /\ runs = 0 /\ best = None /\ costs = <<>>
  /\ model \in {None, Stale}
  /\ tidfile \in {None, Stale}
  /\ app = "none" /\ appParams = None /\ load = "none" /\ pidfiles = {}
  /\ profiledTids = None /\ profiler = "none"
  /\ interrupted = "no" /\ receivedSigint = "no"
  /\ mrc = "none" /\ counters = "none"
  /\ faults = 0 /\ badModel = "no" /\ stopAsked = None

----------------------------------------------------------------------------------
\* Mutated form: the file of the previous run stays.
CleanTidfileNot == UNCHANGED tidfile

CleanTidfile == tidfile' = None

\* Mutated form: the script does not wait for create-model.py.
CreateModelNoWait == UNCHANGED <<model, badModel, faults>>

(***************************************************************************)
(* create-model.py runs to its end; its exit status is not looked at, so   *)
(* when it fails the application gets the model of an earlier trial.       *)
(***************************************************************************)
CreateModel ==
  \/ /\ model' = currentParams
     /\ UNCHANGED <<badModel, faults>>
  \/ /\ faults < MaxFaults
     /\ faults' = faults + 1
     /\ badModel' = "yes"
     /\ UNCHANGED model

\* run(), up to the start of the application.
Prepare ==
  /\ pc = "trial"
  /\ CleanTidfile
  /\ IF wltype = "dnn" THEN CreateModel ELSE UNCHANGED <<model, badModel, faults>>
  /\ pc' = "spawn"
  /\ mrc' = "none" /\ counters' = "none"
  /\ UNCHANGED <<wltype, app, appParams, load, pidfiles, searchVars, stopAsked>>
  /\ UNCHANGED <<profiledTids, profiler, interrupted, receivedSigint>>

\* Popen; without a model the dnn server does not come up.
Spawn ==
  /\ pc = "spawn"
  /\ appParams' = IF wltype = "dnn" THEN model ELSE currentParams
  /\ app' = IF appParams' = None THEN "dead" ELSE "starting"
  /\ pc' = "pidfile"
  /\ UNCHANGED <<wltype, load, pidfiles, tidfile, model, profVars, searchVars>>
  /\ UNCHANGED <<faults, historyVars>>

\* Mutated form: the tid file is cleaned up when the application has started.
WritePidCleansLate ==
  /\ pc = "pidfile"
  /\ pidfiles' = pidfiles \cup {"server.pid"}
  /\ tidfile' = None
  /\ pc' = "wait"
  /\ UNCHANGED <<wltype, app, appParams, load, model, profVars, searchVars>>
  /\ UNCHANGED <<faults, historyVars>>

WritePid ==
  /\ pc = "pidfile"
  /\ pidfiles' = pidfiles \cup {"server.pid"}
  /\ pc' = "wait"
  /\ UNCHANGED <<wltype, app, appParams, load, tidfile, model, profVars, searchVars>>
  /\ UNCHANGED <<faults, historyVars>>

\* The busy loop on the tid file, and the thread id read from it.
ReadTid ==
  /\ pc = "wait"
  /\ tidfile # None
  /\ profiledTids' = tidfile
  /\ pc' = IF wltype = "memcached" THEN "load" ELSE "mrc"
  /\ UNCHANGED <<wltype, procVars, profiler, interrupted, receivedSigint, mrc, counters>>
  /\ UNCHANGED <<searchVars, faults, historyVars>>

\* Memcached: mutilate loads the records, a second mutilate makes the load.
StartLoad ==
  /\ pc = "load"
  /\ load' = "up"
  /\ pidfiles' = pidfiles \cup {"client.pid"}
  /\ pc' = "mrc"
  /\ UNCHANGED <<wltype, app, appParams, tidfile, model, profVars, searchVars>>
  /\ UNCHANGED <<faults, historyVars>>

(***************************************************************************)
(* profile_threads: tid_to_tgid raises when the thread has gone, otherwise *)
(* the profiler is started.  The main thread of a dead application, which  *)
(* is the worker in dnn and may be in the others, is a zombie and still    *)
(* has its entry in /proc.                                                 *)
(***************************************************************************)
StartProfiler ==
  /\ pc \in {"mrc", "counters"}
  /\ \/ /\ app = "dead"
        /\ pc' = "traceback"
        /\ UNCHANGED <<profiler, interrupted>>
     \/ /\ profiler' = "running"
        /\ interrupted' = "no"
        /\ pc' = IF pc = "mrc" THEN "mrcWait" ELSE "countersWait"
  /\ UNCHANGED <<wltype, procVars, profiledTids, receivedSigint, mrc, counters>>
  /\ UNCHANGED <<searchVars, faults, historyVars>>

\* The profiler ends, with all its phases or, if it was cut short, with fewer or
\* without its files.  Its exit status is not looked at.
ProfilerLeaves(result) ==
  /\ profiler = "running"
  /\ profiler' = "ended"
  /\ IF pc = "mrcWait" THEN mrc' = result /\ UNCHANGED counters
                       ELSE counters' = result /\ UNCHANGED mrc
  /\ UNCHANGED <<wltype, pc, procVars, profiledTids, interrupted, receivedSigint>>
  /\ UNCHANGED <<searchVars, historyVars>>

cutShort == app = "dead" \/ interrupted = "group"

\* The clock of the profile is the cycles of the profiled thread: a memcached worker
\* that gets no requests makes no phases.
idle == load = "dead" /\ ~cutShort

ProfilerEnds ==
  /\ ~idle
  /\ \E result \in IF cutShort THEN {"none", "short"} ELSE {"full"} :
       ProfilerLeaves(result)
  /\ UNCHANGED faults

\* Mutated form: only the counters file of the second profile is looked for.
MakeCsvGroupedOnly ==
  /\ pc \in {"mrcWait", "countersWait"}
  /\ profiler = "ended"
  /\ profiler' = "none"
  /\ receivedSigint' = IF interrupted = "no" THEN "no" ELSE "yes"
  /\ \/ counters = "none" /\ pc' = "noDump"
     \/ counters = "short" /\ pc' = "traceback"
     \/ counters # "none" /\ pc' = IF pc = "mrcWait" THEN "counters" ELSE "teardown"
  /\ UNCHANGED <<wltype, procVars, profiledTids, interrupted, mrc, counters>>
  /\ UNCHANGED <<searchVars, faults, historyVars>>

(***************************************************************************)
(* profiler.wait() has returned: the csv is made from the counters file of *)
(* the second profile or, when there is none, of the first; without either *)
(* the script exits where it is, and a file that stops in its header may   *)
(* raise.  run() keeps the value returned by the second call only.         *)
(***************************************************************************)
MakeCsv ==
  /\ pc \in {"mrcWait", "countersWait"}
  /\ profiler = "ended"
  /\ profiler' = "none"
  /\ receivedSigint' = IF interrupted = "no" THEN "no" ELSE "yes"
  /\ LET file == IF counters = "none" THEN mrc ELSE counters
     IN \/ file = "none" /\ pc' = "noDump"
        \/ file = "short" /\ pc' = "traceback"
        \/ file # "none" /\ pc' = IF pc = "mrcWait" THEN "counters" ELSE "teardown"
  /\ UNCHANGED <<wltype, procVars, profiledTids, interrupted, mrc, counters>>
  /\ UNCHANGED <<searchVars, faults, historyVars>>

\* Mutated form: the interrupt is forgotten.
TeardownGoesOn ==
  /\ pc = "teardown"
  /\ app' = "none" /\ load' = "none"
  /\ pidfiles' = {}
  /\ tidfile' = IF wltype = "memcached" THEN tidfile ELSE None
  /\ pc' = IF best = None THEN "cost" ELSE "end"
  /\ UNCHANGED <<wltype, appParams, model, profVars, searchVars, faults, historyVars>>

\* The end of run(): memcached's tid file is left for the next run to remove.
Teardown ==
  /\ pc = "teardown"
  /\ app' = "none" /\ load' = "none"
  /\ pidfiles' = {}
  /\ tidfile' = IF wltype = "memcached" THEN tidfile ELSE None
  /\ pc' = IF receivedSigint = "yes" THEN "exit"
           ELSE IF best = None THEN "cost" ELSE "end"
  /\ UNCHANGED <<wltype, appParams, model, profVars, searchVars, faults, historyVars>>

(***************************************************************************)
(* bayesopt_objective_fn after run(): a file that is missing, or too short *)
(* to make statistics of, raises; otherwise a row is written and the trial *)
(* completed.                                                              *)
(***************************************************************************)
Cost ==
  /\ pc = "cost"
  /\ runs' = runs + 1
  /\ \/ /\ {mrc, counters} # {"full"}
        /\ pc' = "traceback"
        /\ UNCHANGED costs
     \/ /\ "none" \notin {mrc, counters}
        /\ pc' = IF runs' < MaxIter THEN "trial" ELSE "best"
        /\ costs' = Append(costs, appParams)
  /\ UNCHANGED <<wltype, procVars, profVars, best, faults, historyVars>>

\* get_best_parameters and outcfg.yml; -s skips the last evaluation.
Best ==
  /\ pc = "best"
  /\ best' \in 0..(MaxIter - 1)
  /\ pc' \in {"trial", "end"}
  /\ UNCHANGED <<wltype, procVars, profVars, runs, costs, faults, historyVars>>

Script ==
  \/ Prepare \/ Spawn \/ WritePid \/ ReadTid \/ StartLoad
  \/ StartProfiler \/ MakeCsv \/ Teardown \/ Cost \/ Best

----------------------------------------------------------------------------------
\* tBenchServerThreadStart (memcached: its worker): the thread saves its id.
AppUp ==
  /\ app = "starting"
  /\ app' = "serving"
  /\ tidfile' = current
  /\ UNCHANGED <<wltype, pc, appParams, load, pidfiles, model, profVars, searchVars>>
  /\ UNCHANGED <<faults, historyVars>>

Fault == faults < MaxFaults /\ faults' = faults + 1

AppDies ==
  /\ Fault
  /\ app \in {"starting", "serving"}
  /\ app' = "dead"
  /\ UNCHANGED <<wltype, pc, appParams, load, pidfiles, tidfile, model, profVars>>
  /\ UNCHANGED <<searchVars, historyVars>>

ProfilerFails ==
  /\ Fault
  /\ \E result \in {"none", "short"} : ProfilerLeaves(result)

LoadDies ==
  /\ Fault
  /\ load = "up"
  /\ load' = "dead"
  /\ UNCHANGED <<wltype, pc, app, appParams, pidfiles, tidfile, model, profVars>>
  /\ UNCHANGED <<searchVars, historyVars>>

(***************************************************************************)
(* SIGINT to the script alone or to the group.  The one place that expects *)
(* it is profiler.wait(), and there only once.                             *)
(***************************************************************************)
Interrupt(to) ==
  /\ Fault
  /\ ~Over
  /\ IF pc \in {"mrcWait", "countersWait"} /\ interrupted = "no"
       THEN /\ interrupted' = to
            /\ stopAsked' = IF pc = "countersWait" THEN current ELSE stopAsked
            /\ UNCHANGED pc
       ELSE /\ pc' = "traceback"
            /\ UNCHANGED <<interrupted, stopAsked>>
  /\ app' = IF to = "group" /\ app # "none" THEN "dead" ELSE app
  /\ load' = IF to = "group" /\ load # "none" THEN "dead" ELSE load
  /\ UNCHANGED <<wltype, appParams, pidfiles, tidfile, model, searchVars, badModel>>
  /\ UNCHANGED <<profiledTids, profiler, receivedSigint, mrc, counters>>

\* A go of the busy loop on the tid file; profiler.wait() of an idle thread's profile.
Spin == pc = "wait" /\ tidfile = None /\ UNCHANGED vars
Hang == profiler = "running" /\ idle /\ UNCHANGED vars

Stopped == Over /\ UNCHANGED vars

Next ==
  \/ Script
  \/ AppUp
  \/ ProfilerEnds
  \/ AppDies \/ LoadDies \/ ProfilerFails
  \/ \E to \in {"script", "group"} : Interrupt(to)
  \/ Spin \/ Hang \/ Stopped

Spec == Init /\ [][Next]_vars

\* The script and the application run; the profiler of a thread that is busy or dead
\* ends (ProfilerLifecycle).
FairSpec ==
  /\ Spec
  /\ WF_vars(Script)
  /\ WF_vars(AppUp)
  /\ WF_vars(ProfilerEnds)

----------------------------------------------------------------------------------
(***************************************************************************)
(* The thread that is profiled belongs to the application of this very     *)
(* trial, although the tid file of an earlier trial or of an earlier       *)
(* invocation may be there when the trial begins (workloads.py:53).        *)
(***************************************************************************)
ProfilesOwnThread ==
  pc \in {"mrc", "mrcWait", "counters", "countersWait"} => profiledTids = current

(***************************************************************************)
(* Row i of cost.out was measured with the parameters in row i of          *)
(* params.out: the optimizer is told the cost of what it asked for.  The   *)
(* exception is a model that was not created, since the exit status of     *)
(* create-model.py is ignored (workloads.py:71): the row then has the cost *)
(* of an earlier trial's model.                                            *)
(***************************************************************************)
CostIsOfItsParams ==
  /\ Len(costs) <= runs
  /\ badModel = "no" => \A i \in 1..Len(costs) : costs[i] = i - 1

\* Nothing of a trial is there: no process, and no pid file.
NothingLeft == app = "none" /\ load = "none" /\ pidfiles = {}

(***************************************************************************)
(* How the script ends.  By itself only after a cost for every trial, if   *)
(* no interrupt was meant to stop it; by an exit with the clean-up done    *)
(* only if the counters profile of the current run was interrupted.  The   *)
(* two ends that may leave the application, mutilate and the pid files     *)
(* behind, sys.exit in profile_threads (harness.py:166) and a traceback,   *)
(* never come unless a process failed or was interrupted: undisturbed, no  *)
(* file is missing or too short for the step that reads it.                *)
(***************************************************************************)
EndsInOrder ==
  /\ pc = "end" => NothingLeft /\ Len(costs) = MaxIter /\ stopAsked = None
  /\ pc = "exit" => NothingLeft /\ stopAsked = current
  /\ pc \in {"noDump", "traceback"} => faults > 0

(***************************************************************************)
(* An interrupt during the second profile of a trial ends the search       *)
(* before another trial begins, and without a cost for this one.  One      *)
(* during the first does not: its value is overwritten                     *)
(* (workloads.py:126), so the search goes on unless the same ^C took the   *)
(* application with it.                                                    *)
(***************************************************************************)
InterruptStops ==
  stopAsked # None => current = stopAsked /\ Len(costs) <= stopAsked

\* The loop on the tid file of an application that died before writing it.
SpinsForEver == pc = "wait" /\ tidfile = None /\ app = "dead"

\* profiler.wait() when mutilate has died and memcached has not.
HangsForEver == profiler = "running" /\ idle

(***************************************************************************)
(* The search ends, unless the application dies before its worker has      *)
(* written the tid file, and the script waits for that file for ever, or   *)
(* mutilate dies, and it waits for ever for the profile of an idle thread, *)
(* which a first SIGINT to the script does not end (harness.py:148).       *)
(***************************************************************************)
SearchEnds == <>[](Over \/ SpinsForEver \/ HangsForEver)
==================================================================================
