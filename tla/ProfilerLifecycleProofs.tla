------------------------- MODULE ProfilerLifecycleProofs -------------------------
(***************************************************************************)
(* TLAPS proofs about the end of a profile, for every set of threads, any  *)
(* number of phases and any signals from outside.                          *)
(***************************************************************************)
EXTENDS ProfilerLifecycle, TLAPS

ThreadStates == {"run", "stop", "signal", "group", "listen", "exit", "killed",
                 "gone", "free"}

\* The part of the state the proof needs the types of.
TypeInv ==
  /\ thr \in [Threads -> ThreadStates]
  /\ sigstop \subseteq Threads
  /\ tidMap \subseteq Threads
  /\ done => firstFinished = Leader
  /\ ~done => firstFinished = None

\* A thread leaves the tracer, and then tid_map, only when the profile is done.
TracedInv ==
  /\ pc # "exiting" => \A t \in Threads : thr[t] \notin {"free", "gone"} => t \in tidMap
  /\ \A t \in Threads : thr[t] = "free" => done
  /\ \A t \in Threads : thr[t] = "free" =>
        t \notin tidMap \/ (cur = t /\ pc \in {"flush", "fclose", "erase"})
  /\ pc \in {"report", "flush", "fclose", "erase"} => cur \in tidMap
  /\ pc = "report" /\ status \in {"exit", "killed"} => thr[cur] = "gone"
  /\ pc \in {"flush", "fclose", "erase"} => thr[cur] \in {"free", "gone"}

\* The stops are the profiler's own: first the leader's, then, when the leader has
\* been erased, the others'; no thread is sent a second one.
StopsInv ==
  \A t \in Threads :
    /\ t \in sigstop \/ thr[t] = "stop" => done
    /\ t \in sigstop => thr[t] \notin {"stop", "free"}
    /\ (t \in sigstop \/ thr[t] = "stop") /\ Leader \in tidMap => t = Leader

LifecycleInv ==
  over = "no" => TypeInv /\ TracedInv /\ ("SIGSTOP" \notin came => StopsInv)

(***************************************************************************)
(* The wind-down never sends SIGSTOP to a thread it has detached or is     *)
(* about to detach, and profile() returns only with every thread detached  *)
(* or dead.                                                                *)
(***************************************************************************)
THEOREM LifecycleInvHolds == Spec => [](LifecycleInv /\ DetachedRuns)
<1> USE LifecycleAssumption
<1>1. Init => LifecycleInv /\ DetachedRuns
  BY DEF Init, LifecycleInv, TypeInv, TracedInv, StopsInv, DetachedRuns, ThreadStates
<1>2. LifecycleInv /\ over = "no" /\ Next => LifecycleInv'
  <2> SUFFICES ASSUME TypeInv, TracedInv, "SIGSTOP" \notin came => StopsInv,
                      over = "no", Next, over' = "no"
               PROVE  TypeInv' /\ TracedInv' /\ ("SIGSTOP" \notin came' => StopsInv')
    BY DEF LifecycleInv
  <2> USE DEF TypeInv, TracedInv, StopsInv, ThreadStates
  <2>1. CASE WaitPid
    BY <2>1 DEF WaitPid
  <2>2. CASE ReportExited
    BY <2>2 DEF ReportExited, kernel
  <2>3. CASE ReportSignal
    BY <2>3 DEF ReportSignal, Fail
  <2>4. CASE ReportStop
    <3>1. /\ pc = "report" /\ pc' = "flush" /\ cur \in tidMap
          /\ UNCHANGED <<sigstop, came, tidMap, done, firstFinished, cur>>
      BY <2>4 DEF ReportStop, Detach, Fail
    <3>2. CASE UNCHANGED thr /\ status = "killed"
      BY <3>1, <3>2
    <3>3. CASE done /\ thr[cur] = "stop" /\ thr' = [thr EXCEPT ![cur] = "free"]
      <4>1. TypeInv'
        BY <3>1, <3>3
      <4>2. TracedInv'
        BY <3>1, <3>3
      <4>3. "SIGSTOP" \notin came' => StopsInv'
        BY <3>1, <3>3
      <4>4. QED
        BY <4>1, <4>2, <4>3
    <3>4. QED
      BY <2>4, <3>2, <3>3 DEF ReportStop, Detach, Fail
  <2>5. CASE Flush
    BY <2>5 DEF Flush, kernel
  <2>6. CASE Erase
    <3>1. /\ pc = "erase" /\ pc' = "wait" /\ cur \in tidMap
          /\ tidMap' = tidMap \ {cur}
          /\ UNCHANGED <<thr, came, done, firstFinished, cur>>
      BY <2>6 DEF Erase
    <3>2. \/ UNCHANGED sigstop
          \/ /\ cur = firstFinished
             /\ sigstop' = sigstop \cup {t \in tidMap \ {cur} :
                                          thr[t] \notin {"exit", "killed", "gone"}}
      BY <2>6 DEF Erase, Tgkill
    <3>3. TypeInv'
      BY <3>1, <3>2
    <3>4. TracedInv'
      BY <3>1
    <3>5. ASSUME "SIGSTOP" \notin came
          PROVE  StopsInv'
      <4>1. CASE UNCHANGED sigstop
        BY <3>1, <3>5, <4>1
      <4>2. ASSUME cur = firstFinished,
                   sigstop' = sigstop \cup {t \in tidMap \ {cur} :
                                             thr[t] \notin {"exit", "killed", "gone"}}
            PROVE  StopsInv'
        <5>1. done /\ cur = Leader /\ Leader \in tidMap /\ Leader \notin tidMap'
          BY <3>1, <4>2
        <5>2. \A t \in tidMap \ {cur} : thr[t] \notin {"stop", "free"}
          BY <3>1, <3>5, <5>1
        <5>3. QED
          BY <3>1, <3>5, <4>2, <5>1, <5>2
      <4>3. QED
        BY <3>2, <4>1, <4>2
    <3>6. QED
      BY <3>1, <3>3, <3>4, <3>5
  <2>7. CASE FiniHandler
    BY <2>7 DEF FiniHandler
  <2>8. ASSUME NEW t \in Threads, Overflow(t)
        PROVE  TypeInv' /\ TracedInv' /\ ("SIGSTOP" \notin came' => StopsInv')
    BY <2>8 DEF Overflow
  <2>9. ASSUME NEW t \in Threads, TakeStop(t)
        PROVE  TypeInv' /\ TracedInv' /\ ("SIGSTOP" \notin came' => StopsInv')
    BY <2>9 DEF TakeStop
  <2>10. ASSUME NEW t \in Threads, Exit(t)
         PROVE  TypeInv' /\ TracedInv' /\ ("SIGSTOP" \notin came' => StopsInv')
    BY <2>10 DEF Exit
  <2>11. ASSUME NEW t \in Threads, Continue(t)
         PROVE  TypeInv' /\ TracedInv' /\ ("SIGSTOP" \notin came' => StopsInv')
    BY <2>11 DEF Continue
  <2>12. ASSUME NEW t \in Threads, SigthymeHandler(t)
         PROVE  TypeInv' /\ TracedInv' /\ ("SIGSTOP" \notin came' => StopsInv')
    BY <2>12 DEF SigthymeHandler, Terminate, Tgkill
  <2>13. ASSUME NEW t \in Threads, NEW s \in Outside, Signal(s, t)
         PROVE  TypeInv' /\ TracedInv' /\ ("SIGSTOP" \notin came' => StopsInv')
    BY <2>13 DEF Signal
  <2>14. QED
    BY <2>1, <2>2, <2>3, <2>4, <2>5, <2>6, <2>7, <2>8, <2>9, <2>10, <2>11, <2>12,
       <2>13 DEF Next, Main, FcloseNull, FiniExit, Fail
<1>3. LifecycleInv /\ DetachedRuns /\ [Next]_vars
      => LifecycleInv' /\ DetachedRuns'
  <2> SUFFICES ASSUME LifecycleInv, DetachedRuns, [Next]_vars
               PROVE  LifecycleInv' /\ DetachedRuns'
    OBVIOUS
  <2>1. CASE UNCHANGED vars
    BY <2>1 DEF vars, LifecycleInv, TypeInv, TracedInv, StopsInv, DetachedRuns
  <2>2. CASE Next
    <3>1. over = "no"
      BY <2>2 DEF Next, Main, WaitPid, ReportExited, ReportSignal, ReportStop, Flush,
                  FcloseNull, Erase, FiniExit, FiniHandler, Overflow, TakeStop, Exit,
                  Continue, SigthymeHandler, Signal
    <3>2. LifecycleInv'
      BY <1>2, <2>2, <3>1
    <3>3. CASE over' = "no"
      BY <3>2, <3>3 DEF LifecycleInv, StopsInv, TypeInv, DetachedRuns
    <3>4. CASE over' = "returned"
      <4>1. /\ pc = "wait" /\ tidMap = {}
            /\ UNCHANGED <<thr, sigstop, came>>
        BY <2>2, <3>1, <3>4 DEF Next, Main, WaitPid, ReportExited, ReportSignal,
             ReportStop, Detach, Flush, FcloseNull, Erase, FiniExit, Fail, FiniHandler,
             Overflow, TakeStop, Exit, Continue, SigthymeHandler, Signal
      <4>2. QED
        BY <3>1, <3>4, <4>1
        DEF LifecycleInv, TypeInv, TracedInv, StopsInv, ThreadStates, DetachedRuns
    <3>5. CASE over' \notin {"no", "returned"}
      <4>1. UNCHANGED <<thr, sigstop, came>>
        BY <2>2, <3>1, <3>5 DEF Next, Main, WaitPid, ReportExited, ReportSignal, kernel,
             ReportStop, Detach, Flush, FcloseNull, Erase, FiniExit, Fail, FiniHandler,
             Overflow, TakeStop, Exit, Continue, SigthymeHandler, Signal
      <4>2. QED
        BY <3>2, <3>5, <4>1 DEF DetachedRuns
    <3>6. QED
      BY <3>2, <3>3, <3>4, <3>5
  <2>3. QED
    BY <2>1, <2>2
<1>4. QED
  BY <1>1, <1>3, PTL DEF Spec

----------------------------------------------------------------------------------
(***************************************************************************)
(* What is on disk.  A thread's rows do not change after its files are     *)
(* closed.  If nothing disturbs the profile, threads are only detached,    *)
(* the leader first: a thread that is closed or erased has the leader      *)
(* closed before it, and in counters mode no thread is erased.             *)
(***************************************************************************)
SavedInv ==
  /\ phases \in [Threads -> Nat]
  /\ saved \in [Threads -> Nat]
  /\ closed \subseteq Threads
  /\ \A t \in closed : saved[t] = phases[t]
  /\ done => phases[Leader] >= NumPhases
  /\ mode \in Modes

OrderInv ==
  /\ \A t \in Threads : thr[t] \notin {"exit", "killed", "gone"}
  /\ \A t \in Threads : t \in closed \/ t \notin tidMap => Leader \in closed
  /\ Leader \in closed => thr[Leader] = "free"
  /\ mode = "counters" => Leader \in tidMap /\ pc # "erase"
  /\ pc = "report" => status \in {"stop", "signal", "group"} /\ thr[cur] = status
  /\ pc = "flush" => cur = Leader \/ Leader \in closed
  /\ pc \in {"fclose", "erase"} => Leader \in closed
  /\ pc # "exiting"

RowsInv == over = "no" => SavedInv /\ (Quiet => OrderInv)

(***************************************************************************)
(* However the profiler ends once the leader has its num_phases, by a      *)
(* return, an error or a crash in the handler, the leader's rows are on    *)
(* disk; and profile() returns only with every row of every thread saved.  *)
(***************************************************************************)
THEOREM RowsOnDisk == Spec => [](RowsInv /\ ProfileSaved /\ ReturnsComplete)
<1> USE LifecycleAssumption
<1>1. Init => RowsInv /\ ProfileSaved /\ ReturnsComplete
  BY DEF Init, RowsInv, SavedInv, OrderInv, ProfileSaved, ReturnsComplete
<1>2. LifecycleInv /\ RowsInv /\ over = "no" /\ Next => RowsInv'
  <2> SUFFICES ASSUME TypeInv, TracedInv, "SIGSTOP" \notin came => StopsInv,
                      SavedInv, Quiet => OrderInv, over = "no", Next, over' = "no"
               PROVE  SavedInv' /\ (Quiet' => OrderInv')
    BY DEF LifecycleInv, RowsInv
  <2>0. Quiet' => Quiet /\ OrderInv /\ StopsInv /\ "SIGSTOP" \notin came
    BY DEF Next, Main, WaitPid, ReportExited, ReportSignal, ReportStop, Flush, kernel,
           FcloseNull, Erase, FiniExit, FiniHandler, Overflow, TakeStop, Exit,
           Continue, SigthymeHandler, Signal, Quiet
  <2> USE DEF TypeInv, SavedInv, OrderInv, ThreadStates
  <2>1. CASE WaitPid
    BY <2>0, <2>1 DEF WaitPid
  <2>2. CASE ReportExited
    BY <2>0, <2>2 DEF ReportExited, kernel
  <2>3. CASE ReportSignal
    BY <2>0, <2>3 DEF ReportSignal, Fail
  <2>4. CASE ReportStop
    BY <2>0, <2>4 DEF ReportStop, Detach, Fail, StopsInv, TracedInv
  <2>5. CASE Flush
    <3>1. cur \in Threads /\ closed' = closed \cup {cur}
      BY <2>5 DEF Flush, TracedInv
    <3>2. /\ \A t \in closed : saved'[t] = saved[t]
          /\ saved'[cur] = phases[cur]
          /\ saved' \in [Threads -> Nat]
          /\ UNCHANGED <<mode, phases, done, thr, tidMap, cur, status>>
          /\ pc = "flush" /\ pc' = IF mode = "counters" THEN "fclose" ELSE "erase"
      BY <2>5, <3>1 DEF Flush, kernel
    <3>3. thr[cur] \in {"free", "gone"}
      BY <3>2 DEF TracedInv
    <3>4. QED
      BY <2>0, <3>1, <3>2, <3>3
  <2>6. CASE Erase
    BY <2>0, <2>6 DEF Erase
  <2>7. CASE FiniHandler
    BY <2>0, <2>7 DEF FiniHandler, Quiet
  <2>8. ASSUME NEW t \in Threads, Overflow(t)
        PROVE  SavedInv' /\ (Quiet' => OrderInv')
    BY <2>0, <2>8 DEF Overflow
  <2>9. ASSUME NEW t \in Threads, TakeStop(t)
        PROVE  SavedInv' /\ (Quiet' => OrderInv')
    BY <2>0, <2>9 DEF TakeStop
  <2>10. ASSUME NEW t \in Threads, Exit(t)
        PROVE  SavedInv' /\ (Quiet' => OrderInv')
    BY <2>0, <2>10 DEF Exit, Quiet
  <2>11. ASSUME NEW t \in Threads, Continue(t)
        PROVE  SavedInv' /\ (Quiet' => OrderInv')
    BY <2>0, <2>11 DEF Continue
  <2>12. ASSUME NEW t \in Threads, SigthymeHandler(t)
        PROVE  SavedInv' /\ (Quiet' => OrderInv')
    <3>1. /\ t \in tidMap \ closed
          /\ phases' = [phases EXCEPT ![t] = @ + 1]
          /\ Terminate(t, phases[t] + 1)
          /\ UNCHANGED <<mode, thr, saved, closed, tidMap, pc, cur, status>>
      BY <2>12 DEF SigthymeHandler
    <3>2. /\ phases' \in [Threads -> Nat]
          /\ \A u \in closed : phases'[u] = phases[u]
          /\ phases'[Leader] >= phases[Leader]
      BY <3>1
    <3>3. CASE done
      BY <2>0, <3>1, <3>2, <3>3
    <3>4. CASE ~done /\ t = Leader /\ phases[t] + 1 >= NumPhases
      <4>1. phases'[Leader] >= NumPhases
        BY <3>1, <3>4
      <4>2. QED
        BY <2>0, <3>1, <3>2, <4>1
    <3>5. CASE ~done /\ UNCHANGED done
      BY <2>0, <3>1, <3>2, <3>5
    <3>6. QED
      BY <3>1, <3>3, <3>4, <3>5 DEF Terminate
  <2>13. ASSUME NEW t \in Threads, NEW s \in Outside, Signal(s, t)
        PROVE  SavedInv' /\ (Quiet' => OrderInv')
    <3>1. /\ thr[t] = "run" /\ came' = came \cup {s}
          /\ UNCHANGED <<mode, phases, saved, closed, tidMap, done, pc, cur, status>>
      BY <2>13 DEF Signal
    <3>2. SavedInv'
      BY <3>1
    <3>3. ASSUME Quiet'
          PROVE  OrderInv'
      <4>1. thr' = [thr EXCEPT ![t] = "signal"] \/ thr' = [thr EXCEPT ![t] = "group"]
        BY <2>13, <3>1, <3>3 DEF Signal, Quiet
      <4>2. OrderInv
        BY <2>0, <3>3
      <4>3. /\ \A u \in Threads : thr'[u] = thr[u] \/ thr'[u] \in {"signal", "group"}
            /\ \A u \in Threads : thr[u] # "run" => thr'[u] = thr[u]
        BY <3>1, <4>1
      <4>4. pc = "report" => cur \in Threads
        BY DEF TracedInv
      <4>5. QED
        BY <3>1, <4>2, <4>3, <4>4
    <3>4. QED
      BY <3>2, <3>3
  <2>14. QED
    BY <2>1, <2>2, <2>3, <2>4, <2>5, <2>6, <2>7, <2>8, <2>9, <2>10, <2>11, <2>12, <2>13
    DEF Next, Main, FcloseNull, FiniExit, Fail
<1>3. LifecycleInv /\ RowsInv /\ ProfileSaved /\ ReturnsComplete /\ [Next]_vars
      => RowsInv' /\ ProfileSaved' /\ ReturnsComplete'
  <2> SUFFICES ASSUME LifecycleInv, RowsInv, ProfileSaved, ReturnsComplete, [Next]_vars
               PROVE  RowsInv' /\ ProfileSaved' /\ ReturnsComplete'
    OBVIOUS
  <2>1. CASE UNCHANGED vars
    BY <2>1 DEF vars, RowsInv, SavedInv, OrderInv, Quiet, ProfileSaved, ReturnsComplete
  <2>2. CASE Next
    <3>1. over = "no"
      BY <2>2 DEF Next, Main, WaitPid, ReportExited, ReportSignal, ReportStop, Flush,
                  FcloseNull, Erase, FiniExit, FiniHandler, Overflow, TakeStop, Exit,
                  Continue, SigthymeHandler, Signal
    <3>2. RowsInv'
      BY <1>2, <2>2, <3>1
    <3>3. TypeInv /\ TracedInv /\ SavedInv /\ (Quiet => OrderInv)
      BY <3>1 DEF LifecycleInv, RowsInv
    <3>4. CASE over' = "no"
      BY <3>2, <3>4 DEF ProfileSaved, ReturnsComplete
    <3>5. ASSUME over' # "no"
          PROVE  /\ UNCHANGED <<thr, came, done, phases, closed>>
                 /\ \/ over' = "crashed" /\ UNCHANGED saved
                       /\ (pc = "fclose" \/ \E t \in Threads : t \notin tidMap \ closed)
                    \/ over' = "exit" /\ ExitFlushes
                    \/ over' = "returned" /\ ExitFlushes /\ tidMap = {} /\ pc = "wait"
      BY <2>2, <3>1, <3>5 DEF Next, Main, WaitPid, ReportExited, ReportSignal, kernel,
           ReportStop, Detach, Flush, FcloseNull, Erase, FiniExit, Fail, FiniHandler,
           Overflow, TakeStop, Exit, Continue, SigthymeHandler, Signal
    <3>6. ASSUME over' # "no", ExitFlushes
          PROVE  saved' = phases
      BY <3>3, <3>6 DEF ExitFlushes, SavedInv
    <3>7. ASSUME over' # "no"
          PROVE  ProfileSaved'
      BY <3>3, <3>5, <3>6, <3>7 DEF SavedInv, OrderInv, Quiet, ProfileSaved
    <3>8. ASSUME over' # "no"
          PROVE  ReturnsComplete'
      BY <3>3, <3>5, <3>6, <3>8 DEF TypeInv, TracedInv, SavedInv, ReturnsComplete
    <3>9. QED
      BY <3>2, <3>4, <3>7, <3>8
  <2>3. QED
    BY <2>1, <2>2
<1>4. QED
  BY <1>1, <1>3, LifecycleInvHolds, PTL DEF Spec

(***************************************************************************)
(* Whom the profiler leaves stopped, at every end: nobody it has detached; *)
(* undisturbed, never the leader; and the others only if the handler       *)
(* crashes in mrc mode before they are detached.                           *)
(***************************************************************************)
THEOREM LeftStoppedOnlyByCrashHolds == Spec => []LeftStoppedOnlyByCrash
<1> USE LifecycleAssumption
<1> DEFINE Leaves == (over # "no" /\ Quiet) =>
             /\ LeftStopped \subseteq tidMap \ {Leader}
             /\ LeftStopped # {} => over = "crashed" /\ mode = "mrc"
<1>1. Init => Leaves
  BY DEF Init
<1>2. LifecycleInv /\ RowsInv /\ Leaves /\ [Next]_vars => Leaves'
  <2> SUFFICES ASSUME LifecycleInv, RowsInv, Leaves, [Next]_vars, over' # "no", Quiet'
               PROVE  /\ LeftStopped' \subseteq tidMap' \ {Leader}
                      /\ LeftStopped' # {} => over' = "crashed" /\ mode' = "mrc"
    OBVIOUS
  <2>1. CASE UNCHANGED vars
    BY <2>1 DEF vars, LeftStopped, Quiet
  <2>2. CASE Next
    <3>1. over = "no"
      BY <2>2 DEF Next, Main, WaitPid, ReportExited, ReportSignal, ReportStop, Flush,
                  FcloseNull, Erase, FiniExit, FiniHandler, Overflow, TakeStop, Exit,
                  Continue, SigthymeHandler, Signal
    <3>2. /\ UNCHANGED <<mode, thr, sigstop, came, tidMap, done>>
          /\ \/ /\ over' = "crashed"
                /\ pc = "fclose" \/ \E t \in Threads : t \notin tidMap \ closed
             \/ over' = "returned" /\ tidMap = {} /\ pc = "wait"
             \/ over' = "exit" /\ pc = "exiting"
             \/ /\ over' = "exit" /\ pc = "report"
                /\ status \notin {"stop", "signal", "group"} \/ thr[cur] # status
             \/ over' = "exit" /\ pc = "report" /\ status = "stop" /\ ~done
      BY <2>2, <3>1 DEF Next, Main, WaitPid, ReportExited, ReportSignal, kernel,
           ReportStop, Detach, Flush, FcloseNull, Erase, FiniExit, Fail, FiniHandler,
           Overflow, TakeStop, Exit, Continue, SigthymeHandler, Signal
    <3>3. Quiet /\ "SIGSTOP" \notin came
      BY <3>2 DEF Quiet
    <3>4. TypeInv /\ TracedInv /\ StopsInv /\ SavedInv /\ OrderInv
      BY <3>1, <3>3 DEF LifecycleInv, RowsInv
    <3>5. over' # "exit"
      BY <3>2, <3>4 DEF TypeInv, TracedInv, StopsInv, OrderInv
    <3>6. LeftStopped \subseteq tidMap
      BY <3>4 DEF TypeInv, TracedInv, StopsInv, OrderInv, LeftStopped
    <3>7. over' = "crashed" => Leader \notin LeftStopped
      BY <3>2, <3>4 DEF TypeInv, StopsInv, OrderInv, LeftStopped
    <3>8. over' = "crashed" /\ mode = "counters" => LeftStopped = {}
      BY <3>4, <3>7 DEF TypeInv, StopsInv, OrderInv, LeftStopped
    <3>9. mode \in {"mrc", "counters"}
      BY <3>4 DEF SavedInv
    <3>10. LeftStopped' = LeftStopped
      BY <3>2 DEF LeftStopped
    <3>11. QED
      BY <3>2, <3>5, <3>6, <3>7, <3>8, <3>9, <3>10
  <2>3. QED
    BY <2>1, <2>2
<1>3. DetachedRuns /\ Leaves => LeftStoppedOnlyByCrash
  BY DEF LeftStoppedOnlyByCrash
<1>4. QED
  BY <1>1, <1>2, <1>3, LifecycleInvHolds, RowsOnDisk, PTL DEF Spec

\* The leader's rows are on disk at whatever end.
THEOREM ProfileSavedHolds == Spec => []ProfileSaved
  BY RowsOnDisk, PTL

\* profile() returns with nothing left to profile and every row on disk.
THEOREM ReturnsCompleteHolds == Spec => []ReturnsComplete
  BY RowsOnDisk, PTL
==================================================================================
