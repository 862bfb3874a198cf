--------------------------- MODULE ProfilerLifecycle ---------------------------
(***************************************************************************)
(* How a profile ends: profile(), the termination part of                  *)
(* sigthyme_handler, ThreadInfo::flush and fini_handler of                 *)
(* profiler/datamime-profiler.cpp.                                         *)
(*                                                                         *)
(* The main thread waits for ptrace reports of the profiled threads; the   *)
(* signal handler runs between any two of its statements.  When the leader *)
(* (tidx 0) has its num_phases, the handler sends it SIGSTOP; its stop     *)
(* makes the main loop detach it and send SIGSTOP to the others, whose     *)
(* stops detach them in turn.  A thread's perf events are never closed, so *)
(* SIGTHYME may still come for a thread that has left tid_map.             *)
(*                                                                         *)
(* thr[t] is what the kernel knows of thread t: traced and running         *)
(* ("run"), a report to collect ("stop" for SIGSTOP, "signal" for another  *)
(* signal or the end of a group stop, "group" for a group stop, "exit",    *)
(* "killed"), left in its group stop ("listen"), dead and collected        *)
(* ("gone"), or detached ("free").                                         *)
(***************************************************************************)
EXTENDS Naturals

CONSTANTS
  Threads,     \* args.profiled_tids
  Leader,      \* the one with tidx 0
  Modes,       \* what args.mrc_est_mode may be: "mrc", "counters"
  NumPhases,   \* args.num_phases (-n)
  MayExit,     \* threads that may exit while they are profiled
  Outside,     \* signals from outside that may come, each at most once
  MaxPhases,   \* bound: phases of one thread
  None

ASSUME LifecycleAssumption ==
  /\ Leader \in Threads /\ None \notin Threads
  /\ Modes \subseteq {"mrc", "counters"} /\ Modes # {}
  /\ NumPhases \in Nat \ {0} /\ MaxPhases \in Nat
  /\ MayExit \subseteq Threads
  /\ Outside \subseteq {"SIGUSR1", "SIGTSTP", "SIGSTOP", "SIGKILL", "SIGINT"}

VARIABLES
  mode,      \* args.mrc_est_mode
  thr,       \* kernel: state of each profiled thread
  sigstop,   \* kernel: threads with a SIGSTOP pending
  ran,       \* kernel: phases each thread has run
  pending,   \* kernel: SIGTHYME queued for each thread's events
  came,      \* the signals and exits from outside so far
  phases,    \* tinfo.phases; each phase adds a row to the output buffer
  saved,     \* rows of each thread on disk
  closed,    \* threads whose files flush() has closed
  tidMap,    \* keys of tid_map, without the dummy thread
  done,      \* state.done
  firstFinished,  \* state.first_finished_thread
  pc,        \* the main thread's place in profile()
  cur,       \* pid
  status,    \* status
  over       \* how the profiler ended: "no", "returned", "exit", "crashed"

kernel == <<thr, sigstop, ran, pending, came>>
vars == <<mode, thr, sigstop, ran, pending, came, phases, saved, closed, tidMap,
          done, firstFinished, pc, cur, status, over>>

\* main up to the call of profile(): every thread in tid_map, attached, armed.
Init ==
  /\ mode \in Modes
  /\ thr = [t \in Threads |-> "run"]
  /\ sigstop = {} /\ came = {} /\ closed = {}
  /\ ran = [t \in Threads |-> 0]
  /\ pending = [t \in Threads |-> 0]
  /\ phases = [t \in Threads |-> 0]
  /\ saved = [t \in Threads |-> 0]
  /\ tidMap = Threads
  /\ done = FALSE /\ firstFinished = None
  /\ pc = "wait" /\ cur = None /\ status = "none" /\ over = "no"

---------------------------------------------------------------------------------
(***************************************************************************)
(* External: the kernel and the profiled threads.                          *)
(***************************************************************************)

\* A phase of t ends, traced or not: its event overflows and SIGTHYME is queued.
Overflow(t) ==
  /\ over = "no"
  /\ thr[t] \in {"run", "free"} /\ ran[t] < MaxPhases
  /\ ran' = [ran EXCEPT ![t] = @ + 1]
  /\ pending' = [pending EXCEPT ![t] = @ + 1]
  /\ UNCHANGED <<mode, thr, sigstop, came, phases, saved, closed, tidMap, done,
                 firstFinished, pc, cur, status, over>>

\* A traced thread takes its pending SIGSTOP and stops for the tracer.
TakeStop(t) ==
  /\ over = "no"
  /\ thr[t] = "run" /\ t \in sigstop
  /\ sigstop' = sigstop \ {t}
  /\ thr' = [thr EXCEPT ![t] = "stop"]
  /\ UNCHANGED <<mode, ran, pending, came, phases, saved, closed, tidMap, done,
                 firstFinished, pc, cur, status, over>>

Exit(t) ==
  /\ over = "no"
  /\ t \in MayExit /\ thr[t] = "run"
  /\ thr' = [thr EXCEPT ![t] = "exit"]
  /\ sigstop' = sigstop \ {t}
  /\ came' = came \cup {"exit"}
  /\ UNCHANGED <<mode, ran, pending, phases, saved, closed, tidMap, done,
                 firstFinished, pc, cur, status, over>>

\* A signal from outside reaches thread t (SIGKILL: the whole process).
Signal(s, t) ==
  /\ over = "no"
  /\ s \in Outside \ came /\ thr[t] = "run"
  /\ came' = came \cup {s}
  /\ CASE s = "SIGUSR1" -> thr' = [thr EXCEPT ![t] = "signal"] /\ UNCHANGED sigstop
       [] s = "SIGTSTP" -> thr' = [thr EXCEPT ![t] = "group"] /\ UNCHANGED sigstop
       [] s = "SIGSTOP" -> sigstop' = sigstop \cup {t} /\ UNCHANGED thr
       [] s = "SIGKILL" ->
            /\ thr' = [u \in Threads |->
                         IF thr[u] \in {"exit", "gone"} THEN thr[u]
                         ELSE IF thr[u] = "free" THEN "gone" ELSE "killed"]
            /\ sigstop' = {}
       [] OTHER -> FALSE
  /\ UNCHANGED <<mode, ran, pending, phases, saved, closed, tidMap, done,
                 firstFinished, pc, cur, status, over>>

\* SIGCONT: a thread left in its group stop reports the end of it.
Continue(t) ==
  /\ over = "no"
  /\ thr[t] = "listen"
  /\ thr' = [thr EXCEPT ![t] = "signal"]
  /\ UNCHANGED <<mode, sigstop, ran, pending, came, phases, saved, closed, tidMap,
                 done, firstFinished, pc, cur, status, over>>

---------------------------------------------------------------------------------
\* tgkill(SIGSTOP) to a set of threads: a dead one does not notice.
Tgkill(T) == sigstop' = sigstop \cup {t \in T : thr[t] \notin {"exit", "killed", "gone"}}

\* Mutated forms: the leader is stopped again at each later phase; the profile
\* ends a phase early.
TerminateAgain(t, n) ==
  IF t = Leader /\ n >= NumPhases
    THEN /\ done' = TRUE
         /\ firstFinished' = t
         /\ Tgkill({t})
    ELSE UNCHANGED <<done, firstFinished, sigstop>>

TerminateEarly(t, n) ==
  IF t = Leader /\ n + 1 >= NumPhases
    THEN /\ done' = TRUE
         /\ firstFinished' = t
         /\ IF firstFinished = None THEN Tgkill({t}) ELSE UNCHANGED sigstop
    ELSE UNCHANGED <<done, firstFinished, sigstop>>

\* sigthyme_handler, the termination condition, n being the incremented phases.
Terminate(t, n) ==
  IF t = Leader /\ n >= NumPhases
    THEN /\ done' = TRUE
         /\ IF firstFinished = None
              THEN firstFinished' = t /\ Tgkill({t})
              ELSE UNCHANGED <<firstFinished, sigstop>>
    ELSE UNCHANGED <<done, firstFinished, sigstop>>

(***************************************************************************)
(* sigthyme_handler for a signal of thread t.  A thread that was erased is *)
(* looked up as a null pointer, and one whose files are closed is written  *)
(* through a freed FILE: both are taken as a crash.                        *)
(***************************************************************************)
SigthymeHandler(t) ==
  /\ over = "no"
  /\ pending[t] > 0
  /\ pending' = [pending EXCEPT ![t] = @ - 1]
  /\ IF t \in tidMap \ closed
       THEN /\ phases' = [phases EXCEPT ![t] = @ + 1]
            /\ Terminate(t, phases[t] + 1)
            /\ UNCHANGED over
       ELSE /\ over' = "crashed"
            /\ UNCHANGED <<phases, done, firstFinished, sigstop>>
  /\ UNCHANGED <<mode, thr, ran, came, saved, closed, tidMap, pc, cur, status>>

---------------------------------------------------------------------------------
(***************************************************************************)
(* profile().                                                              *)
(***************************************************************************)

\* exit() and the return from main flush every open stream.
ExitFlushes == saved' = [t \in Threads |-> IF t \in closed THEN saved[t] ELSE phases[t]]

\* std::exit(1)
Fail ==
  /\ over' = "exit"
  /\ ExitFlushes
  /\ UNCHANGED <<thr, pc>>

\* Mutated form: the loop forgets to count the dummy thread out.
WaitPidEndsEarly ==
  /\ over = "no" /\ pc = "wait"
  /\ IF \E t \in Threads : tidMap \subseteq {t}
       THEN /\ over' = "returned"
            /\ ExitFlushes
            /\ UNCHANGED <<thr, pc, cur, status>>
       ELSE \E t \in Threads :
              /\ thr[t] \in {"stop", "signal", "group", "exit", "killed"}
              /\ cur' = t /\ status' = thr[t]
              /\ thr' = IF thr[t] \in {"exit", "killed"}
                          THEN [thr EXCEPT ![t] = "gone"] ELSE thr
              /\ pc' = "report"
              /\ UNCHANGED <<saved, over>>
  /\ UNCHANGED <<mode, sigstop, ran, pending, came, phases, closed, tidMap, done,
                 firstFinished>>

\* The loop condition (the dummy thread stays in tid_map), then waitpid, which
\* collects a dead thread.
WaitPid ==
  /\ over = "no" /\ pc = "wait"
  /\ IF tidMap = {}
       THEN /\ over' = "returned"
            /\ ExitFlushes
            /\ UNCHANGED <<thr, pc, cur, status>>
       ELSE \E t \in Threads :
              /\ thr[t] \in {"stop", "signal", "group", "exit", "killed"}
              /\ cur' = t /\ status' = thr[t]
              /\ thr' = IF thr[t] \in {"exit", "killed"}
                          THEN [thr EXCEPT ![t] = "gone"] ELSE thr
              /\ pc' = "report"
              /\ UNCHANGED <<saved, over>>
  /\ UNCHANGED <<mode, sigstop, ran, pending, came, phases, closed, tidMap, done,
                 firstFinished>>

\* WIFEXITED
ReportExited ==
  /\ over = "no" /\ pc = "report" /\ status = "exit"
  /\ pc' = "flush"
  /\ UNCHANGED <<mode, kernel, phases, saved, closed, tidMap, done, firstFinished,
                 cur, status, over>>

\* A stop that is not SIGSTOP: PTRACE_CONT or PTRACE_LISTEN, which fail on a thread
\* killed since.
ReportSignal ==
  /\ over = "no" /\ pc = "report" /\ status \in {"signal", "group"}
  /\ IF thr[cur] = status
       THEN /\ thr' = [thr EXCEPT ![cur] = IF status = "group" THEN "listen" ELSE "run"]
            /\ pc' = "wait"
            /\ UNCHANGED <<saved, over>>
       ELSE Fail
  /\ UNCHANGED <<mode, sigstop, ran, pending, came, phases, closed, tidMap, done,
                 firstFinished, cur, status>>

\* PTRACE_DETACH without a signal: the thread runs on.  It fails on a dead thread.
Detach ==
  IF thr[cur] = "stop"
    THEN /\ thr' = [thr EXCEPT ![cur] = "free"]
         /\ pc' = "flush"
         /\ UNCHANGED <<saved, over>>
    ELSE Fail

\* SIGSTOP, or death by a signal: the wind-down if state.done, else only death is
\* expected.
ReportStop ==
  /\ over = "no" /\ pc = "report" /\ status \in {"stop", "killed"}
  /\ IF done THEN Detach
     ELSE IF status = "killed" THEN pc' = "flush" /\ UNCHANGED <<thr, saved, over>>
     ELSE Fail
  /\ UNCHANGED <<mode, sigstop, ran, pending, came, phases, closed, tidMap, done,
                 firstFinished, cur, status>>

(***************************************************************************)
(* ThreadInfo::flush.  With the files of counters mode, where mrc_outfile  *)
(* and ipc_outfile are NULL, fflush(NULL) writes out every stream of the   *)
(* process and fclose(NULL) comes next (FcloseNull).                       *)
(***************************************************************************)
Flush ==
  /\ over = "no" /\ pc = "flush"
  /\ saved' = [t \in Threads |->
                 IF (t = cur \/ mode = "counters") /\ t \notin closed
                   THEN phases[t] ELSE saved[t]]
  /\ closed' = closed \cup {cur}
  /\ pc' = IF mode = "counters" THEN "fclose" ELSE "erase"
  /\ UNCHANGED <<mode, kernel, phases, tidMap, done, firstFinished, cur, status, over>>

\* fclose(NULL) is undefined; the C library's dereferences it.
FcloseNull ==
  /\ over = "no" /\ pc = "fclose"
  /\ over' = "crashed"
  /\ UNCHANGED <<mode, kernel, phases, saved, closed, tidMap, done, firstFinished, pc,
                 cur, status>>

\* Mutated form: the others are not told.
EraseTellsNobody ==
  /\ over = "no" /\ pc = "erase"
  /\ tidMap' = tidMap \ {cur}
  /\ pc' = "wait"
  /\ UNCHANGED <<mode, kernel, phases, saved, closed, done, firstFinished, cur, status,
                 over>>

\* tid_map.erase(pid); after the detach of the first finished thread, SIGSTOP to
\* the threads that are left.
Erase ==
  /\ over = "no" /\ pc = "erase"
  /\ tidMap' = tidMap \ {cur}
  /\ IF status = "stop" /\ cur = firstFinished
       THEN Tgkill(tidMap \ {cur}) ELSE UNCHANGED sigstop
  /\ pc' = "wait"
  /\ UNCHANGED <<mode, thr, ran, pending, came, phases, saved, closed, done,
                 firstFinished, cur, status, over>>

\* fini_handler, on SIGINT: tid_map is emptied ...
FiniHandler ==
  /\ over = "no" /\ pc # "exiting"
  /\ "SIGINT" \in Outside \ came
  /\ came' = came \cup {"SIGINT"}
  /\ tidMap' = {}
  /\ pc' = "exiting"
  /\ UNCHANGED <<mode, thr, sigstop, ran, pending, phases, saved, closed, done,
                 firstFinished, cur, status, over>>

\* ... and then exit(2), unless a SIGTHYME comes in between.
FiniExit ==
  /\ over = "no" /\ pc = "exiting"
  /\ Fail
  /\ UNCHANGED <<mode, sigstop, ran, pending, came, phases, closed, tidMap, done,
                 firstFinished, cur, status>>

Main ==
  WaitPid \/ ReportExited \/ ReportSignal \/ ReportStop \/ Flush \/ FcloseNull \/ Erase
    \/ FiniExit

Next ==
  \/ Main
  \/ FiniHandler
  \/ \E t \in Threads :
       \/ Overflow(t) \/ TakeStop(t) \/ Exit(t) \/ Continue(t)
       \/ SigthymeHandler(t)
       \/ \E s \in Outside : Signal(s, t)

Spec == Init /\ [][Next]_vars

(***************************************************************************)
(* The main thread goes on when it can; a queued signal is delivered; a    *)
(* traced thread takes its SIGSTOP.  Nothing is assumed of the profiled    *)
(* program or of the signals from outside.                                 *)
(***************************************************************************)
FairSpec ==
  /\ Spec
  /\ WF_vars(Main)
  /\ \A t \in Threads : WF_vars(SigthymeHandler(t)) /\ WF_vars(TakeStop(t))

---------------------------------------------------------------------------------
\* What happened besides the phases is nothing the wind-down does not expect.
Quiet == came \subseteq {"SIGUSR1", "SIGTSTP"}

\* A SIGSTOP the profiler sends never reaches a thread it no longer traces, and
\* profile() returns with no thread stopped.
DetachedRuns ==
  "SIGSTOP" \notin came =>
    /\ \A t \in sigstop : thr[t] # "free"
    /\ over = "returned" => \A t \in Threads : thr[t] \in {"free", "gone"}

\* A SIGSTOP that is pending or reported when the tracer dies stops the thread for good.
LeftStopped == sigstop \cup {t \in Threads : thr[t] = "stop"}

(***************************************************************************)
(* Whom the profiler leaves stopped.  Nobody it has detached, and nobody   *)
(* when profile() returns.  If nothing disturbs it, never the leader, so a *)
(* profile of one thread leaves nobody stopped, however it ends.  The      *)
(* exception is mrc mode with more threads: a late SIGTHYME of a thread    *)
(* that was erased crashes the profiler in the middle of the wind-down,    *)
(* and threads not yet detached keep the SIGSTOP they were sent.           *)
(***************************************************************************)
LeftStoppedOnlyByCrash ==
  /\ DetachedRuns
  /\ (over # "no" /\ Quiet) =>
       /\ LeftStopped \subseteq tidMap \ {Leader}
       /\ LeftStopped # {} => over = "crashed" /\ mode = "mrc"

\* However the profiler ends after state.done was set, by a return or by a crash, the
\* rows of the num_phases phases of the leader are on disk.
ProfileSaved ==
  (over # "no" /\ done /\ Quiet) => saved[Leader] >= NumPhases

\* profile() returns only when the leader was done or every thread has died, with
\* every row of every thread on disk.
ReturnsComplete ==
  over = "returned" =>
    /\ done \/ \A t \in Threads : thr[t] = "gone"
    /\ \A t \in Threads : saved[t] = phases[t]

\* Once the leader has its phases the profiler ends, unless a thread is left in a
\* group stop, if the leader does not exit before its own SIGSTOP.
WindsDown == done ~> (over # "no" \/ \E t \in Threads : thr[t] = "listen")

\* "handle reaching the desired number of phases by detaching all profiled threads":
\* if nothing disturbs it, the end of a profile leaves no thread in tid_map.
DetachesAll == (over # "no" /\ done /\ Quiet) => tidMap = {}
=================================================================================
