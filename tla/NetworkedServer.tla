----------------------------- MODULE NetworkedServer -----------------------------
(***************************************************************************)
(* class NetworkedServer of tbench_server_networked.cpp with several       *)
(* clients (TBENCH_NCLIENTS): which client a worker receives from, what    *)
(* happens when a client leaves, and the broadcasts of ROI_BEGIN and       *)
(* FINISH to all of them.  Requests have no identity here: TBenchNetworked *)
(* follows them between the server and one client.                         *)
(*                                                                         *)
(* recvReq works under recvLock and sendResp under sendLock, and both use  *)
(* clientFds: recvReq erases a client that has left while sendResp may be  *)
(* in the middle of a loop over the vector.  The loop reads the vector's   *)
(* memory up to the end it had when the loop began.  erase moves the       *)
(* elements behind the erased one down and leaves the last one where it    *)
(* was as well.  With three clients or fewer, moving them one by one       *)
(* shows the loop nothing that moving them at once does not.               *)
(*                                                                         *)
(* External: the clients, one thread each way, and the kernel, which       *)
(* reports the end of a client's connection as a readable one and drops a  *)
(* message to a client that has gone or fails the send, which ends the     *)
(* server (SIGPIPE, or the assert after sendfull).  A client may leave     *)
(* while one of its senders is in the middle of a request.  The model ends *)
(* when the server does: the clients read what they were sent and then the *)
(* end.                                                                    *)
(***************************************************************************)
EXTENDS Integers, Sequences, FiniteSets

CONSTANTS
  NumClients,        \* TBENCH_NCLIENTS
  Workers,           \* the server's worker threads
  WarmupReqs,        \* TBENCH_WARMUPREQS
  MaxReqs,           \* TBENCH_MAXREQS
  NumReqsToProcess,  \* the application's own limit
  MaxQueued          \* bound: requests of one client in its connection

ASSUME NetworkedServerAssumption ==
  /\ NumClients \in Nat \ {0}
  /\ IsFiniteSet(Workers) /\ Workers # {}
  /\ {WarmupReqs, MaxReqs, NumReqsToProcess, MaxQueued} \subseteq Nat

Clients == 1..NumClients   \* their fds, in the order of accept()

VARIABLES
  client,            \* per client: "INIT", "WARMUP", "ROI" or how it ended
  queued,            \* per client: requests in its connection
  notices,           \* per client: the notices in its connection
  slots,             \* the memory of clientFds
  size,              \* clientFds.size()
  recvClientHead,    \* index from 0
  wpc,               \* where each worker is
  activeFds,         \* per worker: the client it serves; 0 once it has answered,
                     \* when the code's value is not used any more
  finishedReqs,      \* responses sent
  numReqsProcessed,  \* the application's own count
  cast,              \* the broadcast in progress: its type, the next index
                     \* and the end of the loop; sendLock is held meanwhile
  server,            \* "up", or how the process ended
  told,              \* history: the clients a FINISH was sent to
  raced,             \* history: a client was erased during a broadcast
  bypassed           \* history: per client, goes of recvReq that passed it
                     \* over since it became readable

listVars == <<slots, size, recvClientHead>>
workVars == <<wpc, activeFds, finishedReqs, numReqsProcessed>>
vars == <<client, queued, notices, listVars, workVars, cast, server, told,
          raced, bypassed>>

NoCast == [type |-> "NONE", next |-> 1, end |-> 0]
Running == {"INIT", "WARMUP", "ROI"}
Gone == {"finished", "abortedInInit", "abortedInRoi"}

Up(c) == client[c] \in Running
sendLockFree == cast = NoCast
clientFds == SubSeq(slots, 1, size)

Init ==
  /\ client = [c \in Clients |-> "INIT"]
  /\ queued = [c \in Clients |-> 0]
  /\ notices = [c \in Clients |-> <<>>]
  /\ slots = [i \in 1..NumClients |-> i]
  /\ size = NumClients
  /\ recvClientHead = 0
  /\ wpc = [w \in Workers |-> "loop"]
  /\ activeFds = [w \in Workers |-> 0]
  /\ finishedReqs = 0
  /\ numReqsProcessed = 0
  /\ cast = NoCast
  /\ server = "up"
  /\ told = {}
  /\ raced = "no"
  /\ bypassed = [c \in Clients |-> 0]

----------------------------------------------------------------------------------
\* A client's first request takes it out of INIT.
ClientSend(c) ==
  /\ Up(c)
  /\ queued[c] < MaxQueued
  /\ queued' = [queued EXCEPT ![c] = @ + 1]
  /\ client' = IF client[c] = "INIT" THEN [client EXCEPT ![c] = "WARMUP"] ELSE client
  /\ UNCHANGED <<notices, listVars, workVars, cast, server, told, raced, bypassed>>

(***************************************************************************)
(* A client's receiver: ROI_BEGIN is asserted to come in WARMUP, FINISH    *)
(* ends the process.                                                       *)
(***************************************************************************)
ClientAct(c) ==
  /\ Up(c)
  /\ notices[c] # <<>>
  /\ notices' = [notices EXCEPT ![c] = Tail(@)]
  /\ client' = [client EXCEPT ![c] =
                  IF Head(notices[c]) = "FINISH" THEN "finished"
                  ELSE CASE client[c] = "INIT" -> "abortedInInit"
                         [] client[c] = "WARMUP" -> "ROI"
                         [] client[c] = "ROI" -> "abortedInRoi"]
  /\ UNCHANGED <<queued, listVars, workVars, cast, server, told, raced, bypassed>>

----------------------------------------------------------------------------------
\* The application's worker loop.
Loop(w) ==
  /\ wpc[w] = "loop"
  /\ wpc' = [wpc EXCEPT ![w] =
               IF numReqsProcessed < NumReqsToProcess THEN "recv" ELSE "done"]
  /\ UNCHANGED <<client, queued, notices, listVars, cast, server, told, raced, bypassed>>
  /\ UNCHANGED <<activeFds, finishedReqs, numReqsProcessed>>

\* select(): a client has a request or has gone.
Readable(c) == queued[c] > 0 \/ client[c] \in Gone

\* The client at place i of the round that starts at recvClientHead.
InRound(i) == clientFds[((recvClientHead + i) % size) + 1]

\* Mutated form: the round always starts at the first client.
ChosenFirst ==
  LET places == {i \in 1..size : Readable(clientFds[i])}
  IN clientFds[CHOOSE i \in places : \A j \in places : i <= j]

\* The first readable client of the round.
Chosen ==
  LET places == {i \in 0..(size - 1) : Readable(InRound(i))}
  IN InRound(CHOOSE i \in places : \A j \in places : i <= j)

\* Mutated form: the client stays.
RemoveClientKeeps(c) == UNCHANGED <<slots, size>>

\* removeClient: find and erase.
RemoveClient(c) ==
  LET at == CHOOSE i \in 1..size : slots[i] = c
  IN /\ slots' = [i \in DOMAIN slots |->
                    IF i \in at..(size - 1) THEN slots[i + 1] ELSE slots[i]]
     /\ size' = size - 1

(***************************************************************************)
(* recvReq: one go of its loop, under recvLock, which a worker keeps while *)
(* it waits in select.  A client that has gone is erased, its last         *)
(* requests read or discarded by the kernel; with the last client the      *)
(* process exits.  RecvReqExits is the go that ends otherwise.             *)
(***************************************************************************)
RecvReq(w) ==
  /\ wpc[w] = "recv"
  /\ \E i \in 1..size : Readable(clientFds[i])
  /\ recvClientHead' = (recvClientHead + 1) % size
  /\ bypassed' = [c \in Clients |->
       IF c # Chosen /\ Readable(c) /\ \E i \in 1..size : clientFds[i] = c
         THEN bypassed[c] + 1 ELSE 0]
  /\ \/ /\ queued[Chosen] > 0
        /\ queued' = [queued EXCEPT ![Chosen] = @ - 1]
        /\ activeFds' = [activeFds EXCEPT ![w] = Chosen]
        /\ wpc' = [wpc EXCEPT ![w] = "serve"]
        /\ UNCHANGED <<slots, size, server, raced>>
     \/ /\ client[Chosen] \in Gone
        /\ RemoveClient(Chosen)
        /\ queued' = [queued EXCEPT ![Chosen] = 0]
        /\ raced' = IF sendLockFree THEN raced ELSE "yes"
        /\ server' = IF size' = 0 THEN "clientsExited" ELSE server
        /\ UNCHANGED <<activeFds, wpc>>
  /\ UNCHANGED <<client, notices, finishedReqs, numReqsProcessed, cast, told>>

(***************************************************************************)
(* checkRecv ends the server when it did not get as many bytes as it asked *)
(* for: a client that has gone left part of a request behind, or a request *)
(* came in pieces and recvfull, which asks for the whole length again      *)
(* after the first, read beyond its end.                                   *)
(***************************************************************************)
RecvReqExits(w) ==
  /\ wpc[w] = "recv"
  /\ \E i \in 1..size : Readable(clientFds[i])
  /\ \/ client[Chosen] \in Gone \ {"abortedInInit"} /\ server' = "cutShort"
     \/ queued[Chosen] > 0 /\ server' = "misread"
  /\ UNCHANGED <<client, queued, notices, listVars, workVars, cast, told, raced, bypassed>>

\* sendfull to client c, and what the process is after it.
Send(c, msg) ==
  \/ /\ Up(c)
     /\ notices' = [notices EXCEPT ![c] = @ \o msg]
     /\ UNCHANGED server
  \/ /\ ~Up(c)
     /\ UNCHANGED notices
     /\ server' \in {"up", "sendFailed"}

\* Mutated form: >= for =.
NoticeAgain(finished) ==
  IF finished = WarmupReqs THEN "ROI_BEGIN"
  ELSE IF finished >= WarmupReqs THEN "ROI_BEGIN" ELSE "NONE"

\* Which broadcast follows response number `finished'.
Notice(finished) ==
  IF finished = WarmupReqs THEN "ROI_BEGIN"
  ELSE IF finished = WarmupReqs + MaxReqs THEN "FINISH" ELSE "NONE"

\* The range-for over clientFds keeps the end it starts with.
Broadcast(type) ==
  IF type = "NONE" THEN NoCast ELSE [type |-> type, next |-> 1, end |-> size]

\* sendResp takes sendLock, answers its client and counts the request.
SendResp(w) ==
  /\ wpc[w] = "serve"
  /\ sendLockFree
  /\ Send(activeFds[w], <<>>)
  /\ finishedReqs' = finishedReqs + 1
  /\ cast' = Broadcast(Notice(finishedReqs + 1))
  /\ activeFds' = [activeFds EXCEPT ![w] = 0]
  /\ wpc' = [wpc EXCEPT ![w] = IF cast' = NoCast THEN "processed" ELSE "cast"]
  /\ UNCHANGED <<client, queued, listVars, numReqsProcessed>>
  /\ UNCHANGED <<told, raced, bypassed>>

\* Mutated form: the loop ends one client early.
NextCastShort(c) ==
  IF c.next + 1 >= c.end THEN NoCast ELSE [c EXCEPT !.next = @ + 1]

NextCast(c) ==
  IF c.next >= c.end THEN NoCast ELSE [c EXCEPT !.next = @ + 1]

\* One turn of a broadcast's loop; a worker's sendResp returns after the last.
Cast ==
  LET c == slots[cast.next]
  IN /\ ~sendLockFree
     /\ Send(c, <<cast.type>>)
     /\ told' = IF cast.type = "FINISH" THEN told \cup {c} ELSE told
     /\ cast' = NextCast(cast)
     /\ wpc' = IF cast' # NoCast THEN wpc
               ELSE [w \in Workers |-> CASE wpc[w] = "cast" -> "processed"
                                         [] wpc[w] = "finish" -> "returned"
                                         [] OTHER -> wpc[w]]
     /\ UNCHANGED <<client, queued, listVars, activeFds, finishedReqs>>
     /\ UNCHANGED <<numReqsProcessed, raced, bypassed>>

Processed(w) ==
  /\ wpc[w] = "processed"
  /\ numReqsProcessed' = numReqsProcessed + 1
  /\ wpc' = [wpc EXCEPT ![w] = "loop"]
  /\ UNCHANGED <<client, queued, notices, listVars, activeFds, finishedReqs>>
  /\ UNCHANGED <<cast, server, told, raced, bypassed>>

\* main joins the workers and calls finish().
Finish ==
  /\ \A w \in Workers : wpc[w] = "done"
  /\ wpc' = [w \in Workers |-> "finish"]
  /\ cast' = Broadcast("FINISH")
  /\ UNCHANGED <<client, queued, notices, listVars, activeFds, finishedReqs>>
  /\ UNCHANGED <<numReqsProcessed, server, told, raced, bypassed>>

\* main returns.
Return ==
  /\ \A w \in Workers : wpc[w] = "returned"
  /\ server' = "returned"
  /\ UNCHANGED <<client, queued, notices, listVars, workVars, cast, told, raced, bypassed>>

Worker(w) == Loop(w) \/ RecvReq(w) \/ RecvReqExits(w) \/ SendResp(w) \/ Processed(w)
Main == Cast \/ Finish \/ Return

Client(c) == ClientSend(c) \/ ClientAct(c)

Ended == server # "up" /\ UNCHANGED vars

Next ==
  \/ /\ server = "up"
     /\ \/ \E c \in Clients : Client(c)
        \/ \E w \in Workers : Worker(w)
        \/ Main
  \/ Ended

Spec == Init /\ [][Next]_vars

(***************************************************************************)
(* Every thread that can run is scheduled; the clients never stop sending. *)
(***************************************************************************)
FairSpec ==
  /\ Spec
  /\ \A c \in Clients : /\ WF_vars(server = "up" /\ ClientSend(c))
                        /\ WF_vars(server = "up" /\ ClientAct(c))
  /\ \A w \in Workers : WF_vars(server = "up" /\ Worker(w))
  /\ WF_vars(server = "up" /\ Main)

----------------------------------------------------------------------------------
\* The warm-up of the others was over before these sent their first request, and
\* ROI_BEGIN met the assert of _startRoi.
Lost == {c \in Clients : client[c] = "abortedInInit"}

(***************************************************************************)
(* Who gets FINISH.  When the server ends, because main returns, the last  *)
(* client has left or a send to one that has gone fails, it has sent       *)
(* FINISH to each client, and a client that leaves erases only itself.     *)
(* Four things break the promise:                                          *)
(*  - a client lost before the end, to which a send ends the server;       *)
(*  - a client erased while a broadcast is under way: with three clients,  *)
(*    the first takes its FINISH and leaves, the second moves to its place *)
(*    and is passed over, the third is told twice;                         *)
(*  - a client that leaves on its FINISH in the middle of a request, which *)
(*    another worker reads while FINISH is still being sent to the rest;   *)
(*    after the broadcast this exit does no harm;                          *)
(*  - a request that comes in pieces and is misread, at any time.          *)
(***************************************************************************)
FinishReachesAll ==
  (server \notin {"up", "misread"} /\ raced = "no" /\ Lost = {}) =>
    told = Clients \/ (server = "cutShort" /\ cast.type = "FINISH")

(***************************************************************************)
(* What the comment on recvClientHead (server.h:77) claims, that no client *)
(* is unfairly favoured: a readable client is passed over by at most one   *)
(* go for each other client as long as nobody has left.  When a client     *)
(* left of the head is erased, the head skips one, so in all it may take a *)
(* round of each length down to 1.                                         *)
(***************************************************************************)
WaitBounded ==
  \A c \in Clients :
    bypassed[c] <= IF size = NumClients THEN NumClients - 1
                                        ELSE (NumClients * (NumClients - 1)) \div 2

(***************************************************************************)
(* ROI_BEGIN is acted on once: a client that is in its ROI meets the       *)
(* assert of _startRoi (client.cpp:134) again only if a broadcast was      *)
(* raced and its fd read twice.                                            *)
(***************************************************************************)
RoiOnce == raced = "no" => \A c \in Clients : client[c] # "abortedInRoi"

\* The server always ends, by finish() or by one of its other exits: a worker that
\* waits for a request is served, meets an exit or finds that the last client has left.
ServerEnds == <>(server # "up")
==================================================================================
