----------------------------- MODULE TBenchNetworked -----------------------------
(***************************************************************************)
(* The networked TailBench harness: one client process                     *)
(* (tbench_client_networked.cpp and NetworkedClient of client.cpp) and one *)
(* server process (tbench_server_networked.cpp) joined by a TCP            *)
(* connection, the server driven by an application's worker loop.          *)
(*                                                                         *)
(* The client has as many receiver threads as sender threads.  A receiver  *)
(* takes one message off the connection under recvLock and acts on it      *)
(* after it has released the lock, so messages that arrive in one order    *)
(* are acted on in another: a response may be recorded before or after the *)
(* ROI_BEGIN or FINISH that follows it.                                    *)
(*                                                                         *)
(* External: each direction of the connection is a reliable FIFO queue of  *)
(* whole messages (sendfull and recvfull loop until a message is through). *)
(* The server may end at any point, by a crash or by returning from main.  *)
(* The client can read what was sent until then and the end of the         *)
(* connection after it; what it sends goes nowhere, fails, or raises       *)
(* SIGPIPE, which the client does not handle.  The model ends when the     *)
(* client process does.                                                    *)
(***************************************************************************)
EXTENDS TBenchClient, Sequences

CONSTANTS
  Receivers,         \* the client's receiver threads
  Servers,           \* the server's worker threads
  InFlightLimit,     \* 100000: a sender starts no request above it
  WarmupReqs,        \* TBENCH_WARMUPREQS
  MaxReqs,           \* TBENCH_MAXREQS
  NumReqsToProcess   \* the application's own limit

ASSUME NetworkedAssumption ==
  /\ IsFiniteSet(Receivers) /\ Receivers # {}
  /\ IsFiniteSet(Servers) /\ Servers # {}
  /\ InFlightLimit \in Nat
  /\ WarmupReqs \in Nat /\ MaxReqs \in Nat /\ NumReqsToProcess \in Nat

VARIABLES
  out,               \* per sender: the id of the request it sends
  toServer,          \* connection, client to server: request ids
  toClient,          \* connection, server to client: responses
  held,              \* per receiver: the message it acts on, or NoMsg
  spc,               \* where each server thread is
  reqInfo,           \* per server thread: the id of the request it serves
  finishedReqs,      \* requests answered
  numReqsProcessed,  \* the application's own count
  lats,              \* length of lats.bin, or NoFile; written at the exit
  conn,              \* "up"; "returned" or "crashed", how the server ended; or
                     \* "sigpipe" when that has killed the client
  kept,              \* the receiver that returned with recvLock held, if any
  turn,              \* history: the receivers with a message, in the order in
                     \* which they took it off the connection; kept up until
                     \* the first is overtaken
  overtaken          \* history: "yes" once a message was acted on before an
                     \* earlier one

serverVars == <<spc, reqInfo, finishedReqs, numReqsProcessed>>
vars == <<clientVars, out, toServer, toClient, held, serverVars, lats,
          conn, kept, turn, overtaken>>
historyVars == <<turn, overtaken>>
connVars == <<conn, kept>>

NoFile == -1
NoMsg == [type |-> "NONE", id |-> 0]
Response(id) == [type |-> "RESPONSE", id |-> id]
Control(type) == [type |-> type, id |-> 0]

exited == lats # NoFile

Init ==
  /\ ClientInit
  /\ pc = [t \in Threads |-> "test"]
  /\ out = [t \in Threads |-> 0]
  /\ toServer = <<>>
  /\ toClient = <<>>
  /\ held = [r \in Receivers |-> NoMsg]
  /\ spc = [s \in Servers |-> "loop"]
  /\ reqInfo = [s \in Servers |-> 0]
  /\ finishedReqs = 0
  /\ numReqsProcessed = 0
  /\ lats = NoFile
  /\ conn = "up"
  /\ kept = {}
  /\ turn = <<>>
  /\ overtaken = "no"

----------------------------------------------------------------------------------
\* Mutated form: the limit is not tested.
TestInFlightNever(t) ==
  /\ At(t, "test")
  /\ Goto(t, "startReq")
  /\ UNCHANGED <<waiting, released, status, dist, startedReqs, inFlightReqs, samples>>
  /\ UNCHANGED <<out, toServer, toClient, held, serverVars, lats, connVars, historyVars>>

\* send(), the test of numReqsInFlight, made without the lock.
TestInFlight(t) ==
  /\ At(t, "test")
  /\ Cardinality(inFlightReqs) <= InFlightLimit
  /\ Goto(t, "startReq")
  /\ UNCHANGED <<waiting, released, status, dist, startedReqs, inFlightReqs, samples>>
  /\ UNCHANGED <<out, toServer, toClient, held, serverVars, lats, connVars, historyVars>>

ClientStartReq(t) ==
  /\ StartReq(t, "send")
  /\ out' = IF At(t, "newReq") THEN [out EXCEPT ![t] = startedReqs] ELSE out
  /\ UNCHANGED <<toServer, toClient, held, serverVars, lats, connVars, historyVars>>

\* NetworkedClient::send, while there is a server.
ClientSend(t) ==
  /\ At(t, "send")
  /\ conn = "up"
  /\ toServer' = Append(toServer, out[t])
  /\ Goto(t, "test")
  /\ UNCHANGED <<waiting, released, status, dist, startedReqs, inFlightReqs, samples>>
  /\ UNCHANGED <<out, toClient, held, serverVars, lats, connVars, historyVars>>

\* ... and when there is none any more: the sender notices nothing, gets an error
\* and leaves its loop, or brings the process down.
ClientSendFails(t) ==
  /\ At(t, "send")
  /\ conn # "up"
  /\ \/ Goto(t, "test") /\ UNCHANGED conn
     \/ Goto(t, "ended") /\ UNCHANGED conn
     \/ UNCHANGED pc /\ conn' = "sigpipe"
  /\ UNCHANGED <<waiting, released, status, dist, startedReqs, inFlightReqs, samples>>
  /\ UNCHANGED <<out, toServer, toClient, held, serverVars, lats, kept, historyVars>>

\* NetworkedClient::recv: one message, under recvLock.
ClientRecv(r) ==
  /\ held[r] = NoMsg
  /\ kept = {}
  /\ toClient # <<>>
  /\ held' = [held EXCEPT ![r] = Head(toClient)]
  /\ toClient' = Tail(toClient)
  /\ turn' = IF overtaken = "no" THEN Append(turn, r) ELSE turn
  /\ UNCHANGED <<clientVars, out, toServer, serverVars, lats, connVars, overtaken>>

\* The end of the connection: the receiver returns and leaves recvLock locked.
ClientRecvFails(r) ==
  /\ held[r] = NoMsg
  /\ kept = {}
  /\ toClient = <<>>
  /\ conn # "up"
  /\ kept' = {r}
  /\ UNCHANGED <<clientVars, out, toServer, toClient, held, serverVars, lats, conn>>
  /\ UNCHANGED historyVars

\* recv(): the message is acted on after recvLock was released.
ClientAct(r) ==
  /\ held[r] # NoMsg
  /\ held' = [held EXCEPT ![r] = NoMsg]
  /\ \/ /\ held[r].type = "RESPONSE"
        /\ FiniReq(held[r].id)
        /\ UNCHANGED <<status, lats>>
     \/ /\ held[r].type = "ROI_BEGIN"
        /\ StartRoi
        /\ UNCHANGED <<inFlightReqs, lats>>
     \/ /\ held[r].type = "FINISH"
        /\ lats' = samples
        /\ UNCHANGED <<status, samples, inFlightReqs>>
  /\ overtaken' = IF turn # <<>> /\ Head(turn) = r THEN overtaken ELSE "yes"
  /\ turn' = IF overtaken' = "no" THEN Tail(turn) ELSE <<>>
  /\ UNCHANGED <<pc, waiting, released, dist, startedReqs>>
  /\ UNCHANGED <<out, toServer, toClient, serverVars, connVars>>

----------------------------------------------------------------------------------
\* Mutated form: a worker spins instead of leaving the loop.
ServerLoopForever(s) ==
  /\ spc[s] = "loop"
  /\ spc' = [spc EXCEPT ![s] =
               IF numReqsProcessed < NumReqsToProcess THEN "recv" ELSE "loop"]
  /\ UNCHANGED <<clientVars, out, toServer, toClient, held, lats, connVars, historyVars>>
  /\ UNCHANGED <<reqInfo, finishedReqs, numReqsProcessed>>

\* The application's worker loop.
ServerLoop(s) ==
  /\ spc[s] = "loop"
  /\ spc' = [spc EXCEPT ![s] =
               IF numReqsProcessed < NumReqsToProcess THEN "recv" ELSE "done"]
  /\ UNCHANGED <<clientVars, out, toServer, toClient, held, lats, connVars, historyVars>>
  /\ UNCHANGED <<reqInfo, finishedReqs, numReqsProcessed>>

\* Mutated form: the request stays in the connection.
RecvReqPeeks(s) ==
  /\ spc[s] = "recv"
  /\ toServer # <<>>
  /\ reqInfo' = [reqInfo EXCEPT ![s] = Head(toServer)]
  /\ spc' = [spc EXCEPT ![s] = "serve"]
  /\ UNCHANGED <<clientVars, out, toServer, toClient, held, lats, connVars, historyVars>>
  /\ UNCHANGED <<finishedReqs, numReqsProcessed>>

\* NetworkedServer::recvReq: one request, under recvLock.
RecvReq(s) ==
  /\ spc[s] = "recv"
  /\ toServer # <<>>
  /\ reqInfo' = [reqInfo EXCEPT ![s] = Head(toServer)]
  /\ toServer' = Tail(toServer)
  /\ spc' = [spc EXCEPT ![s] = "serve"]
  /\ UNCHANGED <<clientVars, out, toClient, held, lats, connVars, historyVars>>
  /\ UNCHANGED <<finishedReqs, numReqsProcessed>>

\* Mutated forms: >= for =, and a warm-up that is one request too long.
NoticesRepeated(finished) ==
  IF finished >= WarmupReqs THEN <<Control("ROI_BEGIN")>> ELSE <<>>

NoticesLate(finished) ==
  IF finished = WarmupReqs + 1 THEN <<Control("ROI_BEGIN")>>
  ELSE IF finished = WarmupReqs + MaxReqs THEN <<Control("FINISH")>>
  ELSE <<>>

\* sendResp: what is sent to the client after response number `finished'.
Notices(finished) ==
  IF finished = WarmupReqs THEN <<Control("ROI_BEGIN")>>
  ELSE IF finished = WarmupReqs + MaxReqs THEN <<Control("FINISH")>>
  ELSE <<>>

\* NetworkedServer::sendResp, all of it under sendLock.
SendResp(s) ==
  /\ spc[s] = "serve"
  /\ finishedReqs' = finishedReqs + 1
  /\ toClient' = (toClient \o <<Response(reqInfo[s])>>) \o Notices(finishedReqs + 1)
  /\ spc' = [spc EXCEPT ![s] = "processed"]
  /\ UNCHANGED <<clientVars, out, toServer, held, lats, connVars, historyVars>>
  /\ UNCHANGED <<reqInfo, numReqsProcessed>>

Processed(s) ==
  /\ spc[s] = "processed"
  /\ numReqsProcessed' = numReqsProcessed + 1
  /\ spc' = [spc EXCEPT ![s] = "loop"]
  /\ UNCHANGED <<clientVars, out, toServer, toClient, held, lats, connVars, historyVars>>
  /\ UNCHANGED <<reqInfo, finishedReqs>>

\* main joins the workers; NetworkedServer::finish.
ServerFinish ==
  /\ \A s \in Servers : spc[s] = "done"
  /\ spc' = [s \in Servers |-> "joined"]
  /\ toClient' = Append(toClient, Control("FINISH"))
  /\ UNCHANGED <<clientVars, out, toServer, held, lats, connVars, historyVars>>
  /\ UNCHANGED <<reqInfo, finishedReqs, numReqsProcessed>>

\* main returns: the process ends.
ServerReturn ==
  /\ \A s \in Servers : spc[s] = "joined"
  /\ conn' = "returned"
  /\ UNCHANGED <<clientVars, out, toServer, toClient, held, serverVars, lats, kept>>
  /\ UNCHANGED historyVars

\* The server is killed, or one of its exits or asserts ends it.
ServerCrash ==
  /\ conn' = "crashed"
  /\ UNCHANGED <<clientVars, out, toServer, toClient, held, serverVars, lats, kept>>
  /\ UNCHANGED historyVars

Sender(t) == TestInFlight(t) \/ ClientStartReq(t) \/ ClientSend(t) \/ ClientSendFails(t)
Receiver(r) == ClientRecv(r) \/ ClientRecvFails(r) \/ ClientAct(r)
Server(s) == ServerLoop(s) \/ RecvReq(s) \/ SendResp(s) \/ Processed(s)

clientUp == ~exited /\ conn # "sigpipe"
bothUp == ~exited /\ conn = "up"

\* The client process is over, or it hangs on recvLock.
Ended == (~clientUp \/ kept # {}) /\ UNCHANGED vars

Next ==
  \/ /\ clientUp
     /\ \/ \E t \in Threads : Sender(t)
        \/ \E r \in Receivers : Receiver(r)
  \/ /\ bothUp
     /\ \/ \E s \in Servers : Server(s)
        \/ ServerFinish \/ ServerReturn \/ ServerCrash
  \/ Ended

Spec == Init /\ [][Next]_vars

\* Every thread that can run is scheduled, and no mutex is withheld for ever but
\* the one that is never unlocked.  Nothing says that the server crashes.
FairSpec ==
  /\ Spec
  /\ \A t \in Threads : WF_vars(clientUp /\ Sender(t))
  /\ \A r \in Receivers : WF_vars(clientUp /\ Receiver(r))
  /\ \A s \in Servers : WF_vars(bothUp /\ Server(s))
  /\ WF_vars(bothUp /\ (ServerFinish \/ ServerReturn))

----------------------------------------------------------------------------------
\* The places a request in flight can be: in each of these at most once.
Sending(id) == {t \in Threads : At(t, "send") /\ out[t] = id}
Queued(id) == {i \in 1..Len(toServer) : toServer[i] = id}
Served(id) == {s \in Servers : spc[s] = "serve" /\ reqInfo[s] = id}
Answered(id) == {i \in 1..Len(toClient) : toClient[i] = Response(id)}
Received(id) == {r \in Receivers : held[r] = Response(id)}

Copies(id) ==
  Cardinality(Sending(id)) + Cardinality(Queued(id)) + Cardinality(Served(id))
    + Cardinality(Answered(id)) + Cardinality(Received(id))

(***************************************************************************)
(* A request in flight is in exactly one place, and one that is not in     *)
(* flight is nowhere: no request is lost, answered twice or answered to a  *)
(* client that has forgotten it (the assert of finiReq, client.cpp:110).   *)
(* The end of the server takes requests with it and doubles none.          *)
(***************************************************************************)
InFlightOnce ==
  \A id \in 0..(startedReqs - 1) :
    /\ Copies(id) <= IF id \in inFlightReqs THEN 1 ELSE 0
    /\ conn = "up" => Copies(id) = IF id \in inFlightReqs THEN 1 ELSE 0

(***************************************************************************)
(* The client implements Measurement.  What is at stake: receivers act on  *)
(* the messages out of order, so a ROI_BEGIN may be acted on before or     *)
(* after responses sent on either side of it; still the assert of          *)
(* _startRoi (client.cpp:134) holds, nothing is recorded before the ROI,   *)
(* and one FINISH, the server's last word or not, writes the file.         *)
(***************************************************************************)
M == INSTANCE Measurement WITH file <- lats

ImplementsMeasurement == M!Spec

(***************************************************************************)
(* What the latency file can be trusted for.  As long as the receivers act *)
(* on the messages in the order of the connection, which one receiver (the *)
(* default of TBENCH_CLIENT_THREADS) always does, the file has one sample  *)
(* for each response between ROI_BEGIN and FINISH: exactly MaxReqs, unless *)
(* the application's own limit came first or MaxReqs is 0, which is no     *)
(* limit.  Otherwise any number of samples may be missing or in excess,    *)
(* since a receiver may hold ROI_BEGIN or FINISH while the others go on.   *)
(***************************************************************************)
LatsExactInOrder ==
  (exited /\ overtaken = "no" /\ status = "ROI") =>
    \/ lats = MaxReqs
    \/ /\ lats = finishedReqs - WarmupReqs
       /\ lats < MaxReqs \/ MaxReqs = 0

\* The senders' unlocked test holds the requests in flight to one per sender above
\* the limit.
InFlightBounded == Cardinality(inFlightReqs) <= InFlightLimit + Cardinality(Threads)

(***************************************************************************)
(* The client always gets its FINISH and writes the latency file, also     *)
(* when another receiver meets the end of the connection first and returns *)
(* with recvLock held (client.cpp:236).  Two things prevent it: a server   *)
(* that crashes, and a sender whose SIGPIPE, once the server has returned, *)
(* comes before the receiver has acted on FINISH.                          *)
(***************************************************************************)
ClientFinishes == <>(exited \/ conn \in {"crashed", "sigpipe"})
==================================================================================
