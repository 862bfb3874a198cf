------------------------------ MODULE TBenchClient ------------------------------
(***************************************************************************)
(* The load-generating half of the TailBench harness: class Client of      *)
(* apps/harness/client.cpp.  A fixed set of threads calls startReq; the    *)
(* first call goes through a two-phase start-up (barrier, one thread       *)
(* creates the arrival-time distribution, barrier), every call then takes  *)
(* the client lock, allocates the next request id and registers it as in   *)
(* flight.  finiReq takes the same lock, looks the request up, records a   *)
(* latency sample when the client is in its region of interest (ROI), and  *)
(* forgets the request.                                                    *)
(*                                                                         *)
(* A section the code runs under the client lock is one step.  The check   *)
(* of `status' at the top of startReq is made without the lock and is a    *)
(* step of its own.  The three latency vectors grow and are cleared        *)
(* together, so `samples' is their common length.  numReqsInFlight is      *)
(* incremented and decremented with inFlightReqs under the lock: it is     *)
(* Cardinality(inFlightReqs).  The module only has operators: the actions  *)
(* of the integrated server and of the networked client are built on them. *)
(***************************************************************************)
EXTENDS Integers, FiniteSets

CONSTANT Threads     \* the threads that call startReq; nthreads of them

ASSUME ThreadsAssumption == IsFiniteSet(Threads) /\ Threads # {}

VARIABLES
  pc,            \* where each thread is
  waiting,       \* pthread_barrier_t: the threads blocked in the barrier
  released,      \* ... and those it has released that have not left it yet
  status,        \* ClientStatus; FINISHED is declared but never assigned
  dist,          \* nullptr, or the distribution of arrival times
  startedReqs,   \* ids handed out so far
  inFlightReqs,  \* the ids of the requests without a response yet
  samples        \* length of queueTimes, svcTimes and sjrnTimes

clientVars ==
  <<pc, waiting, released, status, dist, startedReqs, inFlightReqs, samples>>

ClientStatus == {"INIT", "WARMUP", "ROI"}

ClientInit ==
  /\ waiting = {}
  /\ released = {}
  /\ status = "INIT"
  /\ dist = "nullptr"
  /\ startedReqs = 0
  /\ inFlightReqs = {}
  /\ samples = 0

At(t, label) == pc[t] = label

Goto(t, label) == pc' = [pc EXCEPT ![t] = label]

(***************************************************************************)
(* pthread_barrier_wait: the last of the nthreads threads to arrive        *)
(* releases them all; the barrier takes threads of the next round once     *)
(* everybody has left.                                                     *)
(***************************************************************************)
BarrierArrive(t) ==
  /\ released = {}
  /\ IF waiting \cup {t} = Threads
       THEN waiting' = {} /\ released' = Threads
       ELSE waiting' = waiting \cup {t} /\ UNCHANGED released

BarrierLeave(t) ==
  /\ t \in released
  /\ released' = released \ {t}
  /\ UNCHANGED waiting

\* Mutated form: INIT is left before the first barrier instead of after it.
EnterStartReqEarlyStatus(t) ==
  /\ At(t, "startReq")
  /\ IF status = "INIT"
       THEN BarrierArrive(t) /\ Goto(t, "barrier1") /\ status' = "WARMUP"
       ELSE Goto(t, "newReq") /\ UNCHANGED <<waiting, released, status>>
  /\ UNCHANGED <<dist, startedReqs, inFlightReqs, samples>>

(***************************************************************************)
(* startReq, top: the unlocked look at `status'.  A thread that sees INIT  *)
(* goes to the first barrier, any other goes straight to the request.      *)
(***************************************************************************)
EnterStartReq(t) ==
  /\ At(t, "startReq")
  /\ IF status = "INIT"
       THEN BarrierArrive(t) /\ Goto(t, "barrier1")
       ELSE Goto(t, "newReq") /\ UNCHANGED <<waiting, released>>
  /\ UNCHANGED <<status, dist, startedReqs, inFlightReqs, samples>>

LeaveBarrier1(t) ==
  /\ At(t, "barrier1")
  /\ BarrierLeave(t)
  /\ Goto(t, "init")
  /\ UNCHANGED <<status, dist, startedReqs, inFlightReqs, samples>>

\* Mutated form: the thread that creates dist forgets to leave INIT.
CreateDistKeepsStatus ==
  /\ dist = "nullptr"
  /\ waiting = {} /\ released = {}
  /\ dist' = "ExpDist"
  /\ UNCHANGED status

(***************************************************************************)
(* The locked block between the barriers, together with the arrival at the *)
(* second barrier.  The thread that finds no dist creates it, leaves INIT  *)
(* and re-creates the barrier: pthread_barrier_destroy returns when the    *)
(* last thread has left the first round.                                   *)
(***************************************************************************)
CreateDist ==
  /\ dist = "nullptr"
  /\ waiting = {} /\ released = {}
  /\ dist' = "ExpDist"
  /\ status' = "WARMUP"

InitOnce(t) ==
  /\ At(t, "init")
  /\ CreateDist \/ (dist # "nullptr" /\ UNCHANGED <<dist, status>>)
  /\ BarrierArrive(t)
  /\ Goto(t, "barrier2")
  /\ UNCHANGED <<startedReqs, inFlightReqs, samples>>

LeaveBarrier2(t) ==
  /\ At(t, "barrier2")
  /\ BarrierLeave(t)
  /\ Goto(t, "newReq")
  /\ UNCHANGED <<status, dist, startedReqs, inFlightReqs, samples>>

\* Mutated form: the id is used but not advanced.
NewReqSameId(t, next) ==
  /\ At(t, "newReq")
  /\ inFlightReqs' = inFlightReqs \cup {startedReqs}
  /\ Goto(t, next)
  /\ UNCHANGED <<waiting, released, status, dist, startedReqs, samples>>

(***************************************************************************)
(* startReq, locked block: the next id becomes a request in flight.  The   *)
(* caller says where the thread goes with it (next).  The arrival time,    *)
(* and the sleep until it, is left out.                                    *)
(***************************************************************************)
NewReq(t, next) ==
  /\ At(t, "newReq")
  /\ startedReqs' = startedReqs + 1
  /\ inFlightReqs' = inFlightReqs \cup {startedReqs}
  /\ Goto(t, next)
  /\ UNCHANGED <<waiting, released, status, dist, samples>>

StartReq(t, next) ==
  \/ EnterStartReq(t)
  \/ LeaveBarrier1(t)
  \/ InitOnce(t)
  \/ LeaveBarrier2(t)
  \/ NewReq(t, next)

\* finiReq: the locked block; its assert is the property FindsRequest.
FiniReq(id) ==
  /\ samples' = IF status = "ROI" THEN samples + 1 ELSE samples
  /\ inFlightReqs' = inFlightReqs \ {id}

\* _startRoi: its assert (status = WARMUP) is the refinement of Measurement.
StartRoi ==
  /\ status' = "ROI"
  /\ samples' = 0

ClientTypeOK ==
  /\ waiting \subseteq Threads
  /\ released \subseteq Threads
  /\ status \in ClientStatus
  /\ dist \in {"nullptr", "ExpDist"}
  /\ startedReqs \in Nat
  /\ inFlightReqs \subseteq Nat
  /\ samples \in Nat
=================================================================================
