---------------------------- MODULE TBenchIntegrated ----------------------------
(***************************************************************************)
(* The integrated TailBench server, tbench_server_integrated.cpp: server   *)
(* and client in one process, driven by the worker loop of an application  *)
(* (apps/xapian and apps/dnn: process requests until numReqsToProcess of   *)
(* them are done, then main joins the workers and calls                    *)
(* tBenchServerFinish).  This is the configuration the Datamime optimizer  *)
(* profiles.                                                               *)
(*                                                                         *)
(* sendResp takes the client lock twice: once inside finiReq, which        *)
(* records the sample, and once more to count the request as finished and  *)
(* to decide whether the warm-up or the whole run is over.  Between the    *)
(* two, other threads finish and count requests of their own.              *)
(***************************************************************************)
EXTENDS TBenchClient

CONSTANTS
  WarmupReqs,        \* TBENCH_WARMUPREQS, 0 when unset
  MaxReqs,           \* TBENCH_MAXREQS, 0 when unset
  NumReqsToProcess   \* the application's own limit (-r)

ASSUME LimitsAssumption ==
  /\ WarmupReqs \in Nat
  /\ MaxReqs \in Nat
  /\ NumReqsToProcess \in Nat

VARIABLES
  reqInfo,           \* per thread: the id of the request it serves
  finishedReqs,      \* requests counted by sendResp
  numReqsProcessed,  \* the application's own count
  lats,              \* length of lats.bin, or NoFile before dumpStats; each
                     \* call of dumpStats is followed by the end of the process
  sampled            \* history: threads between finiReq and the count whose
                     \* request is among the samples

serverVars == <<reqInfo, finishedReqs, numReqsProcessed, lats, sampled>>

vars == <<clientVars, serverVars>>

NoFile == -1

exited == lats # NoFile

Init ==
  /\ ClientInit
  /\ pc = [t \in Threads |-> "loop"]
  /\ reqInfo = [t \in Threads |-> 0]
  /\ finishedReqs = 0
  /\ numReqsProcessed = 0
  /\ lats = NoFile
  /\ sampled = {}

\* Mutated forms of Loop: <= for <, and a worker that spins instead of leaving.
LoopInclusive(t) ==
  /\ At(t, "loop")
  /\ Goto(t, IF numReqsProcessed <= NumReqsToProcess THEN "startReq" ELSE "done")
  /\ UNCHANGED <<waiting, released, status, dist, startedReqs>>
  /\ UNCHANGED <<inFlightReqs, samples, serverVars>>

LoopForever(t) ==
  /\ At(t, "loop")
  /\ Goto(t, IF numReqsProcessed < NumReqsToProcess THEN "startReq" ELSE "loop")
  /\ UNCHANGED <<waiting, released, status, dist, startedReqs>>
  /\ UNCHANGED <<inFlightReqs, samples, serverVars>>

\* The worker loop's test of the shared counter, and the call of tBenchRecvReq.
Loop(t) ==
  /\ At(t, "loop")
  /\ Goto(t, IF numReqsProcessed < NumReqsToProcess THEN "startReq" ELSE "done")
  /\ UNCHANGED <<waiting, released, status, dist, startedReqs>>
  /\ UNCHANGED <<inFlightReqs, samples, serverVars>>

\* IntegratedServer::recvReq: Client::startReq, then reqInfo[id] is filled in.
RecvReq(t) ==
  /\ StartReq(t, "serve")
  /\ reqInfo' = IF At(t, "newReq") THEN [reqInfo EXCEPT ![t] = startedReqs]
                                   ELSE reqInfo
  /\ UNCHANGED <<finishedReqs, numReqsProcessed, lats, sampled>>

\* sendResp up to and including Client::finiReq.
SendRespFini(t) ==
  /\ At(t, "serve")
  /\ FiniReq(reqInfo[t])
  /\ sampled' = IF status = "ROI" THEN sampled \cup {t} ELSE sampled
  /\ Goto(t, "count")
  /\ UNCHANGED <<waiting, released, status, dist, startedReqs>>
  /\ UNCHANGED <<reqInfo, finishedReqs, numReqsProcessed, lats>>

DumpStats == lats' = samples

\* Mutated form: the warm-up is compared with the count before the increment.
SendRespCountLate(t) ==
  LET finished == finishedReqs + 1
      roi      == finishedReqs = WarmupReqs
      last     == ~roi /\ finished = WarmupReqs + MaxReqs
  IN /\ At(t, "count")
     /\ finishedReqs' = finished
     /\ IF roi THEN StartRoi ELSE UNCHANGED <<status, samples>>
     /\ sampled' = IF roi THEN {} ELSE sampled \ {t}
     /\ IF last THEN DumpStats ELSE UNCHANGED lats
     /\ Goto(t, "processed")
     /\ UNCHANGED <<waiting, released, dist, startedReqs, inFlightReqs>>
     /\ UNCHANGED <<reqInfo, numReqsProcessed>>

(***************************************************************************)
(* sendResp, second locked block.  The comparisons are equalities made     *)
(* after the increment and the second one is an else branch: with          *)
(* WarmupReqs = 0 the ROI never starts, with MaxReqs = 0 the run never     *)
(* finishes here.  SYS_exit_group ends every thread on the spot.           *)
(***************************************************************************)
SendRespCount(t) ==
  LET finished == finishedReqs + 1
      roi      == finished = WarmupReqs
      last     == ~roi /\ finished = WarmupReqs + MaxReqs
  IN /\ At(t, "count")
     /\ finishedReqs' = finished
     /\ IF roi THEN StartRoi ELSE UNCHANGED <<status, samples>>
     /\ sampled' = IF roi THEN {} ELSE sampled \ {t}
     /\ IF last THEN DumpStats ELSE UNCHANGED lats
     /\ Goto(t, "processed")
     /\ UNCHANGED <<waiting, released, dist, startedReqs, inFlightReqs>>
     /\ UNCHANGED <<reqInfo, numReqsProcessed>>

\* ++numReqsProcessed (an atomic counter) at the end of the worker loop's body.
Processed(t) ==
  /\ At(t, "processed")
  /\ numReqsProcessed' = numReqsProcessed + 1
  /\ Goto(t, "loop")
  /\ UNCHANGED <<waiting, released, status, dist, startedReqs>>
  /\ UNCHANGED <<inFlightReqs, samples, reqInfo, finishedReqs, lats, sampled>>

\* main: join every worker, tBenchServerFinish, return.
ServerFinish ==
  /\ \A t \in Threads : At(t, "done")
  /\ DumpStats
  /\ UNCHANGED clientVars
  /\ UNCHANGED <<reqInfo, finishedReqs, numReqsProcessed, sampled>>

Worker(t) ==
  \/ Loop(t)
  \/ RecvReq(t)
  \/ SendRespFini(t)
  \/ SendRespCount(t)
  \/ Processed(t)

Ended == exited /\ UNCHANGED vars

Next ==
  \/ ~exited /\ ((\E t \in Threads : Worker(t)) \/ ServerFinish)
  \/ Ended

Spec == Init /\ [][Next]_vars

\* The kernel schedules every runnable thread and hands the lock on fairly.
Fairness ==
  /\ \A t \in Threads : WF_vars(~exited /\ Worker(t))
  /\ WF_vars(~exited /\ ServerFinish)

FairSpec == Spec /\ Fairness

---------------------------------------------------------------------------------
Labels == {"loop", "startReq", "barrier1", "init", "barrier2", "newReq",
           "serve", "count", "processed", "done"}

\* Every variable keeps the type its declaration in the code gives it.
TypeOK ==
  /\ ClientTypeOK
  /\ pc \in [Threads -> Labels]
  /\ reqInfo \in [Threads -> Nat]
  /\ finishedReqs \in Nat
  /\ numReqsProcessed \in Nat
  /\ lats \in Nat \cup {NoFile}
  /\ sampled \subseteq Threads

N == Cardinality(Threads)

Serving == {t \in Threads : At(t, "serve")}

Counting == {t \in Threads : At(t, "count")}

(***************************************************************************)
(* The start-up protocol: a thread that is past the start-up never meets a *)
(* null dist (startReq dereferences it), the client has left INIT by then, *)
(* and dist is created only after every thread has reached the first       *)
(* barrier.                                                                *)
(***************************************************************************)
StartupOrder ==
  /\ \A t \in Threads :
        pc[t] \in {"barrier2", "newReq", "serve", "count", "processed"}
          => dist # "nullptr" /\ status # "INIT"
  /\ dist # "nullptr" => \A t \in Threads : pc[t] # "barrier1"

(***************************************************************************)
(* The assert of finiReq (client.cpp:110): the request of every thread     *)
(* about to answer is in flight; no two threads hold the same id, so one   *)
(* thread's finiReq never frees a request another one still serves.        *)
(***************************************************************************)
FindsRequest ==
  /\ \A t \in Serving : reqInfo[t] \in inFlightReqs
  /\ \A t, u \in Serving : reqInfo[t] = reqInfo[u] => t = u

(***************************************************************************)
(* The server implements Measurement.  What is at stake: the assert of     *)
(* _startRoi (client.cpp:134), although other threads finish and count     *)
(* requests between a thread's finiReq and its count; no sample before the *)
(* ROI although finiReq looks at `status' in a critical section of its     *)
(* own; one latency file with all the samples, whichever of sendResp and   *)
(* tBenchServerFinish ends the run, and nothing recorded after it.         *)
(***************************************************************************)
M == INSTANCE Measurement WITH file <- lats

ImplementsMeasurement == M!Spec

(***************************************************************************)
(* The inductive strengthening of LatsWithinThreads.  Each request counted *)
(* after the warm-up is a sample, except those whose finiReq came before   *)
(* the ROI began (at most N - 1 threads were between the two sections      *)
(* then); each sample is counted, except those of the threads in `sampled'.*)
(***************************************************************************)
SampleAccounting ==
  /\ sampled \subseteq Counting
  /\ status = "ROI" =>
       /\ samples <= (finishedReqs - WarmupReqs) + Cardinality(sampled)
       /\ (finishedReqs - WarmupReqs) + Cardinality(Counting) <= samples + N - 1

(***************************************************************************)
(* What the latency file can be trusted for: TBENCH_MAXREQS asks for       *)
(* MaxReqs samples, and because recording and counting are two critical    *)
(* sections the file holds that many up to N - 1 more or fewer; a file     *)
(* written by tBenchServerFinish is never short of or over the requests    *)
(* counted after the warm-up by more than N - 1 either.                    *)
(***************************************************************************)
LatsWithinThreads ==
  (exited /\ status = "ROI")
     => /\ lats <= (finishedReqs - WarmupReqs) + (N - 1)
        /\ lats >= (finishedReqs - WarmupReqs) - (N - 1)

\* The application's limit is overrun by at most one request of each other thread:
\* the worker loop tests the shared counter before a request and increments it
\* after it, so requests in progress are not seen by the test.
StartedOverrun == startedReqs <= NumReqsToProcess + N - 1

\* The run always ends: by the count of sendResp or by the worker loop.
Finishes == <>exited

=================================================================================
