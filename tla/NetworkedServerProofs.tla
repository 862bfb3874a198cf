-------------------------- MODULE NetworkedServerProofs --------------------------
(***************************************************************************)
(* NetworkedServer, for any number of clients and workers and any limits:  *)
(* the round of recvReq is fair, ROI_BEGIN is acted on once as far as no   *)
(* client is erased during a broadcast, and FINISH reaches every client    *)
(* except in the four cases FinishReachesAll names.                        *)
(***************************************************************************)
EXTENDS NetworkedServer, FiniteSetTheorems, SequenceTheorems, WellFoundedInduction, TLAPS

WorkerLabels ==
  {"loop", "recv", "serve", "cast", "processed", "done", "finish", "returned"}
NoticeTypes == {"ROI_BEGIN", "FINISH"}
Casts == [type : NoticeTypes \cup {"NONE"}, next : 1..NumClients, end : 0..NumClients]
Ends == {"up", "clientsExited", "sendFailed", "cutShort", "misread", "returned"}

\* recvClientHead is one past the end after the last client of the list was erased.
TypeOK ==
  /\ client \in [Clients -> Running \cup Gone]
  /\ queued \in [Clients -> Nat]
  /\ notices \in [Clients -> Seq(NoticeTypes)]
  /\ slots \in [1..NumClients -> Clients]
  /\ size \in 0..NumClients
  /\ recvClientHead \in 0..size
  /\ wpc \in [Workers -> WorkerLabels]
  /\ activeFds \in [Workers -> Clients \cup {0}]
  /\ \A w \in Workers : wpc[w] = "serve" => activeFds[w] \in Clients
  /\ finishedReqs \in Nat
  /\ numReqsProcessed \in Nat
  /\ cast \in Casts
  /\ cast.type = "NONE" => cast = NoCast
  /\ server \in Ends
  /\ told \subseteq Clients
  /\ raced \in {"no", "yes"}
  /\ bypassed \in [Clients -> Nat]

----------------------------------------------------------------------------------
\* A set of numbers has a least one, which is what CHOOSE finds.
LEMMA Least ==
  ASSUME NEW S \in SUBSET Nat, S # {}
  PROVE  \E i \in S : \A j \in S : i <= j
<1> DEFINE R == OpToRel(<, Nat)
<1>1. IsWellFoundedOn(R, Nat)
  BY NatLessThanWellFounded
<1>2. \A i, j \in Nat : j < i => <<j, i>> \in R
  BY DEF OpToRel
<1> HIDE DEF R
<1>3. \E i \in S : \A j \in S : ~(<<j, i>> \in R)
  BY <1>1, WFMin
<1>4. PICK i \in S : \A j \in S : ~(<<j, i>> \in R)
  BY <1>3
<1>5. ASSUME NEW j \in S
      PROVE  i <= j
  <2>1. i \in Nat /\ j \in Nat
    OBVIOUS
  <2>2. ~(j < i)
    BY <1>2, <1>4, <2>1
  <2>3. QED
    BY <2>1, <2>2
<1>6. QED
  BY <1>4, <1>5

\* The remainder of a number below three times the divisor.
LEMMA Remainder ==
  ASSUME NEW s \in Nat \ {0}, NEW x \in Nat, x < s + s + s
  PROVE  x % s = IF x < s THEN x ELSE IF x < s + s THEN x - s ELSE x - (s + s)
  OBVIOUS

----------------------------------------------------------------------------------
\* The list of clients and the head of the round.
LEMMA List ==
  ASSUME TypeOK
  PROVE  /\ NumClients \in Nat /\ NumClients > 0
         /\ size \in 0..NumClients /\ size \in Nat
         /\ recvClientHead \in 0..size /\ recvClientHead \in Nat
         /\ slots \in [1..NumClients -> Clients]
<1>1. NumClients \in Nat /\ NumClients > 0
  BY NetworkedServerAssumption
<1>2. size \in 0..NumClients /\ recvClientHead \in 0..size
  BY DEF TypeOK
<1>3. slots \in [1..NumClients -> Clients]
  BY DEF TypeOK
<1>4. QED
  BY <1>1, <1>2, <1>3

\* The broadcast under way.
LEMMA UnderWay ==
  ASSUME TypeOK, ~sendLockFree
  PROVE  /\ cast \in Casts /\ cast.next \in Nat /\ cast.end \in Nat
         /\ cast.next \in 1..NumClients /\ cast.type \in NoticeTypes
<1>1. cast \in Casts
  BY DEF TypeOK
<1>2. cast.type # "NONE"
  BY DEF TypeOK, sendLockFree
<1>3. QED
  BY <1>1, <1>2, List DEF Casts

\* The index in slots of place p of the round.
Place(p) == IF recvClientHead + p < size THEN recvClientHead + p + 1
                                         ELSE recvClientHead + p + 1 - size

\* The round of recvReq visits every slot of the list once.
LEMMA Round ==
  ASSUME TypeOK, size > 0
  PROVE  /\ \A i \in 1..size : clientFds[i] = slots[i]
         /\ \A p \in 0..(size - 1) : Place(p) \in 1..size /\ InRound(p) = slots[Place(p)]
         /\ \A i \in 1..size : \E p \in 0..(size - 1) : Place(p) = i
<1>0. /\ NumClients \in Nat /\ size \in 1..NumClients /\ recvClientHead \in 0..size
      /\ slots \in [1..NumClients -> Clients]
  BY List
<1>1. \A i \in 1..size : clientFds[i] = slots[i]
  BY <1>0 DEF clientFds
<1>2. ASSUME NEW p \in 0..(size - 1)
      PROVE  Place(p) \in 1..size /\ InRound(p) = slots[Place(p)]
  <2>1. Place(p) \in 1..size
    BY <1>0 DEF Place
  <2>2. ((recvClientHead + p) % size) + 1 = Place(p)
    BY <1>0, Remainder DEF Place
  <2>3. QED
    BY <1>1, <2>1, <2>2 DEF InRound
<1>3. ASSUME NEW i \in 1..size
      PROVE  \E p \in 0..(size - 1) : Place(p) = i
  <2>1. CASE i > recvClientHead
    <3>1. i - recvClientHead - 1 \in 0..(size - 1) /\ Place(i - recvClientHead - 1) = i
      BY <1>0, <2>1 DEF Place
    <3>2. QED
      BY <3>1
  <2>2. CASE i <= recvClientHead
    <3>1. /\ i + size - recvClientHead - 1 \in 0..(size - 1)
          /\ Place(i + size - recvClientHead - 1) = i
      BY <1>0, <2>2 DEF Place
    <3>2. QED
      BY <3>1
  <2>3. QED
    BY <1>0, <2>1, <2>2
<1>4. QED
  BY <1>1, <1>2, <1>3

\* recvReq takes the first readable client of its round.
LEMMA TheChosen ==
  ASSUME TypeOK, size > 0, \E i \in 1..size : Readable(clientFds[i])
  PROVE  \E q \in 0..(size - 1) :
           /\ Chosen = slots[Place(q)] /\ Readable(Chosen)
           /\ \A p \in 0..(size - 1) : Readable(slots[Place(p)]) => q <= p
<1> DEFINE places == {i \in 0..(size - 1) : Readable(InRound(i))}
           q == CHOOSE i \in places : \A j \in places : i <= j
<1>0. size \in Nat
  BY List
<1>1. PICK i \in 1..size : Readable(slots[i])
  BY Round
<1>2. PICK p \in 0..(size - 1) : Place(p) = i
  BY Round
<1>3. p \in places
  BY <1>1, <1>2, Round
<1>4. places \in SUBSET Nat
  BY <1>0
<1>5. q \in places /\ \A j \in places : q <= j
  <2> HIDE DEF places
  <2>1. \E k \in places : \A j \in places : k <= j
    BY <1>3, <1>4, Least
  <2>2. QED
    BY <2>1
<1>6. Chosen = InRound(q)
  BY DEF Chosen
<1> HIDE DEF q
<1>7. Chosen = slots[Place(q)] /\ Readable(Chosen)
  BY <1>5, <1>6, Round
<1>8. QED
  BY <1>5, <1>7, Round

\* removeClient moves the slots behind the client down and shortens the list.
LEMMA Removed ==
  ASSUME TypeOK, NEW c, \E i \in 1..size : slots[i] = c, RemoveClient(c)
  PROVE  /\ size' = size - 1
         /\ \E at \in 1..size :
              /\ slots[at] = c
              /\ slots' = [i \in 1..NumClients |->
                            IF i \in at..(size - 1) THEN slots[i + 1] ELSE slots[i]]
<1> DEFINE at == CHOOSE i \in 1..size : slots[i] = c
<1>1. at \in 1..size /\ slots[at] = c
  OBVIOUS
<1>2. DOMAIN slots = 1..NumClients
  BY List
<1>3. /\ size' = size - 1
      /\ slots' = [i \in 1..NumClients |->
                     IF i \in at..(size - 1) THEN slots[i + 1] ELSE slots[i]]
  BY <1>2 DEF RemoveClient
<1> HIDE DEF at
<1>4. QED
  BY <1>1, <1>3

(***************************************************************************)
(* One go of recvReq: a request of the client chosen is received, or the   *)
(* client has gone and is erased.                                          *)
(***************************************************************************)
Receives(w) ==
  /\ queued[Chosen] > 0
  /\ queued' = [queued EXCEPT ![Chosen] = @ - 1]
  /\ activeFds' = [activeFds EXCEPT ![w] = Chosen]
  /\ wpc' = [wpc EXCEPT ![w] = "serve"]
  /\ UNCHANGED <<slots, size, server, raced>>

Erases(w) ==
  /\ client[Chosen] \in Gone
  /\ queued' = [queued EXCEPT ![Chosen] = 0]
  /\ size' = size - 1
  /\ \E at \in 1..size :
       /\ slots[at] = Chosen
       /\ slots' = [i \in 1..NumClients |->
                     IF i \in at..(size - 1) THEN slots[i + 1] ELSE slots[i]]
  /\ raced' = IF sendLockFree THEN raced ELSE "yes"
  /\ server' = IF size' = 0 THEN "clientsExited" ELSE server
  /\ UNCHANGED <<activeFds, wpc>>

Passed(c) == c # Chosen /\ Readable(c) /\ \E i \in 1..size : slots[i] = c

\* What RecvReq does, with the facts on the client it chooses.
LEMMA Receiving ==
  ASSUME TypeOK, NEW w \in Workers, RecvReq(w)
  PROVE  /\ size > 0
         /\ recvClientHead' \in 0..(size - 1)
         /\ size > 1 => recvClientHead' = IF recvClientHead + 1 < size THEN recvClientHead + 1
                                          ELSE recvClientHead + 1 - size
         /\ \E i \in 1..size : slots[i] = Chosen
         /\ Chosen \in Clients
         /\ bypassed' = [c \in Clients |-> IF Passed(c) THEN bypassed[c] + 1 ELSE 0]
         /\ Receives(w) \/ Erases(w)
         /\ UNCHANGED <<client, notices, finishedReqs, numReqsProcessed, cast, told>>
<1>0. /\ NumClients \in Nat /\ size \in 0..NumClients /\ recvClientHead \in 0..size
      /\ slots \in [1..NumClients -> Clients]
  BY List
<1>1. \E i \in 1..size : Readable(clientFds[i])
  BY DEF RecvReq
<1>2. size > 0
  BY <1>0, <1>1
<1>3. recvClientHead' = (recvClientHead + 1) % size
  BY DEF RecvReq
<1>4. /\ recvClientHead' \in 0..(size - 1)
      /\ size > 1 => recvClientHead' = IF recvClientHead + 1 < size THEN recvClientHead + 1
                                       ELSE recvClientHead + 1 - size
  BY <1>0, <1>2, <1>3, Remainder
<1>5. \E i \in 1..size : slots[i] = Chosen
  BY <1>1, <1>2, TheChosen, Round
<1>6. Chosen \in Clients
  BY <1>0, <1>5
<1>7. bypassed' = [c \in Clients |-> IF Passed(c) THEN bypassed[c] + 1 ELSE 0]
  <2>1. \A c : (\E i \in 1..size : clientFds[i] = c) <=> \E i \in 1..size : slots[i] = c
    BY <1>2, Round
  <2>2. bypassed' = [c \in Clients |->
          IF c # Chosen /\ Readable(c) /\ \E i \in 1..size : clientFds[i] = c
            THEN bypassed[c] + 1 ELSE 0]
    BY DEF RecvReq
  <2>3. \A c \in Clients :
          Passed(c) <=> (c # Chosen /\ Readable(c) /\ \E i \in 1..size : clientFds[i] = c)
    BY <2>1 DEF Passed
  <2>4. QED
    BY <2>2, <2>3
<1>8. UNCHANGED <<client, notices, finishedReqs, numReqsProcessed, cast, told>>
  BY DEF RecvReq
<1>9. Receives(w) \/ Erases(w)
  <2>1. CASE /\ client[Chosen] \in Gone
             /\ RemoveClient(Chosen)
             /\ queued' = [queued EXCEPT ![Chosen] = 0]
             /\ raced' = IF sendLockFree THEN raced ELSE "yes"
             /\ server' = IF size' = 0 THEN "clientsExited" ELSE server
             /\ UNCHANGED <<activeFds, wpc>>
    BY <1>5, <2>1, Removed DEF Erases
  <2>2. QED
    BY <2>1 DEF RecvReq, Receives
<1>10. QED
  BY <1>2, <1>4, <1>5, <1>6, <1>7, <1>8, <1>9

----------------------------------------------------------------------------------
\* Every variable of the server and of its clients keeps its type.
THEOREM TypeCorrect == Spec => []TypeOK
<1>1. Init => TypeOK
  BY NetworkedServerAssumption
  DEF Init, TypeOK, Casts, Ends, NoCast, Running, Gone, WorkerLabels, NoticeTypes, Clients
<1>2. TypeOK /\ [Next]_vars => TypeOK'
  <2> SUFFICES ASSUME TypeOK, [Next]_vars
               PROVE  TypeOK'
    OBVIOUS
  <2>1. CASE UNCHANGED vars
    BY <2>1 DEF TypeOK, vars, listVars, workVars
  <2>2. ASSUME NEW c \in Clients, ClientSend(c)
        PROVE  TypeOK'
    BY <2>2 DEF ClientSend, TypeOK, listVars, workVars, Running
  <2>3. ASSUME NEW c \in Clients, ClientAct(c)
        PROVE  TypeOK'
    <3>1. client' \in [Clients -> Running \cup Gone]
      BY <2>3 DEF ClientAct, TypeOK, Up, Running, Gone
    <3>2. notices' \in [Clients -> Seq(NoticeTypes)]
      <4>1. notices[c] \in Seq(NoticeTypes) /\ notices[c] # <<>>
        BY <2>3 DEF ClientAct, TypeOK
      <4>2. Tail(notices[c]) \in Seq(NoticeTypes)
        BY <4>1
      <4>3. QED
        BY <2>3, <4>2 DEF ClientAct, TypeOK
    <3>3. QED
      BY <2>3, <3>1, <3>2 DEF ClientAct, TypeOK, listVars, workVars
  <2>4. ASSUME NEW w \in Workers, Loop(w)
        PROVE  TypeOK'
    BY <2>4 DEF Loop, TypeOK, listVars, WorkerLabels
  <2>5. ASSUME NEW w \in Workers, RecvReq(w)
        PROVE  TypeOK'
    <3>0. /\ NumClients \in Nat /\ size \in 0..NumClients
          /\ slots \in [1..NumClients -> Clients]
          /\ queued \in [Clients -> Nat]
          /\ wpc \in [Workers -> WorkerLabels]
          /\ activeFds \in [Workers -> Clients \cup {0}]
          /\ \A u \in Workers : wpc[u] = "serve" => activeFds[u] \in Clients
          /\ server \in Ends
          /\ raced \in {"no", "yes"}
          /\ bypassed \in [Clients -> Nat]
      BY List DEF TypeOK
    <3>1. /\ size > 0 /\ recvClientHead' \in 0..(size - 1)
          /\ Chosen \in Clients
          /\ bypassed' = [c \in Clients |-> IF Passed(c) THEN bypassed[c] + 1 ELSE 0]
          /\ Receives(w) \/ Erases(w)
          /\ UNCHANGED <<client, notices, finishedReqs, numReqsProcessed, cast, told>>
      BY <2>5, Receiving
    <3>2. bypassed' \in [Clients -> Nat]
      <4>1. \A c \in Clients : bypassed[c] \in Nat
        BY <3>0
      <4>2. \A c \in Clients : (IF Passed(c) THEN bypassed[c] + 1 ELSE 0) \in Nat
        BY <4>1
      <4>3. QED
        BY <3>1, <4>2
    <3>3. CASE Receives(w)
      <4>1. queued' \in [Clients -> Nat]
        BY <3>0, <3>1, <3>3 DEF Receives
      <4>2. /\ wpc' \in [Workers -> WorkerLabels]
            /\ activeFds' \in [Workers -> Clients \cup {0}]
            /\ \A u \in Workers : wpc'[u] = "serve" => activeFds'[u] \in Clients
        BY <3>0, <3>1, <3>3 DEF Receives, WorkerLabels
      <4>3. recvClientHead' \in 0..size'
        BY <3>0, <3>1, <3>3 DEF Receives
      <4>4. QED
        BY <3>1, <3>2, <3>3, <4>1, <4>2, <4>3 DEF Receives, TypeOK
    <3>4. CASE Erases(w)
      <4>1. queued' \in [Clients -> Nat]
        BY <3>0, <3>1, <3>4 DEF Erases
      <4>2. slots' \in [1..NumClients -> Clients]
        BY <3>0, <3>1, <3>4 DEF Erases
      <4>3. size' \in 0..NumClients /\ recvClientHead' \in 0..size'
        BY <3>0, <3>1, <3>4 DEF Erases
      <4>4. /\ server' \in Ends
            /\ raced' \in {"no", "yes"}
        BY <3>0, <3>4 DEF Erases, Ends
      <4>5. QED
        BY <3>1, <3>2, <3>4, <4>1, <4>2, <4>3, <4>4 DEF Erases, TypeOK
    <3>5. QED
      BY <3>1, <3>3, <3>4
  <2>6. ASSUME NEW w \in Workers, SendResp(w)
        PROVE  TypeOK'
    <3>1. notices' = notices /\ server' \in Ends
      <4>1. notices \in [Clients -> Seq(NoticeTypes)]
            /\ activeFds[w] \in Clients
            /\ server \in Ends
        BY <2>6 DEF SendResp, TypeOK
      <4>2. notices[activeFds[w]] \o <<>> = notices[activeFds[w]]
        BY <4>1, ConcatEmptySeq
      <4>3. QED
        BY <2>6, <4>1, <4>2 DEF SendResp, Send, Ends
    <3>2. cast' \in Casts /\ (cast'.type = "NONE" => cast' = NoCast)
      BY <2>6, List DEF SendResp, Broadcast, Notice, NoCast, NoticeTypes, Casts
    <3>3. /\ wpc' \in [Workers -> WorkerLabels]
          /\ activeFds' \in [Workers -> Clients \cup {0}]
          /\ \A u \in Workers : wpc'[u] = "serve" => activeFds'[u] \in Clients
      BY <2>6 DEF SendResp, TypeOK, WorkerLabels
    <3>4. QED
      BY <2>6, <3>1, <3>2, <3>3 DEF SendResp, TypeOK, listVars
  <2>7. ASSUME NEW w \in Workers, Processed(w)
        PROVE  TypeOK'
    BY <2>7 DEF Processed, TypeOK, listVars, WorkerLabels
  <2>8. CASE Cast
    <3> DEFINE c == slots[cast.next]
    <3>0. /\ notices \in [Clients -> Seq(NoticeTypes)] /\ c \in Clients
          /\ cast \in Casts /\ (cast.type = "NONE" => cast = NoCast)
          /\ wpc \in [Workers -> WorkerLabels]
          /\ told \subseteq Clients
          /\ server \in Ends
      BY List DEF TypeOK, Casts
    <3>1. Send(c, <<cast.type>>) /\ cast' = NextCast(cast)
      BY <2>8 DEF Cast
    <3>2. cast' \in Casts /\ (cast'.type = "NONE" => cast' = NoCast)
      <4>1. CASE cast.next >= cast.end
        BY <3>1, <4>1, List DEF NextCast, NoCast, Casts
      <4>2. CASE cast.next < cast.end
        <5>1. cast' = [cast EXCEPT !.next = @ + 1]
          BY <3>0, <3>1, <4>2, List DEF NextCast, Casts
        <5>2. cast.next + 1 \in 1..NumClients
          BY <3>0, <4>2, List DEF Casts
        <5>3. cast'.type = cast.type /\ cast'.type # "NONE"
          BY <2>8, <3>0, <5>1 DEF Cast, sendLockFree, Casts
        <5>4. QED
          BY <3>0, <5>1, <5>2, <5>3 DEF Casts
      <4>3. QED
        BY <3>0, <4>1, <4>2, List DEF Casts
    <3>3. wpc' \in [Workers -> WorkerLabels]
          /\ \A w \in Workers : wpc'[w] = "serve" => wpc[w] = "serve"
      BY <2>8, <3>0 DEF Cast, WorkerLabels
    <3>4. told' \subseteq Clients
      BY <2>8, <3>0 DEF Cast
    <3> HIDE DEF c
    <3>5. notices' \in [Clients -> Seq(NoticeTypes)] /\ server' \in Ends
      <4>1. cast.type \in NoticeTypes
        BY <2>8, <3>0 DEF Cast, sendLockFree, Casts
      <4>2. notices[c] \in Seq(NoticeTypes) /\ notices[c] \o <<cast.type>> \in Seq(NoticeTypes)
        BY <3>0, <4>1
      <4>3. QED
        BY <3>0, <3>1, <4>2 DEF Send, Ends
    <3>6. QED
      BY <2>8, <3>0, <3>2, <3>3, <3>4, <3>5 DEF Cast, TypeOK, listVars
  <2>9. CASE Finish
    BY <2>9, List DEF Finish, TypeOK, Broadcast, Casts, listVars, WorkerLabels, NoticeTypes
  <2>10. CASE Return
    BY <2>10 DEF Return, TypeOK, Ends, listVars, workVars
  <2>11. ASSUME NEW w \in Workers, RecvReqExits(w)
         PROVE  TypeOK'
    BY <2>11 DEF RecvReqExits, TypeOK, Ends, listVars, workVars
  <2>12. QED
    BY <2>1, <2>2, <2>3, <2>4, <2>5, <2>6, <2>7, <2>8, <2>9, <2>10, <2>11
    DEF Next, Client, Worker, Main, Ended
<1>3. QED
  BY <1>1, <1>2, PTL DEF Spec

----------------------------------------------------------------------------------
Listed(c) == \E i \in 1..size : slots[i] = c

(***************************************************************************)
(* The list holds each client once, and every client that has not gone.    *)
(* The server is up as long as one is there, and a broadcast nobody raced  *)
(* goes to all of the list.                                                *)
(***************************************************************************)
ListInv ==
  /\ \A i, j \in 1..size : slots[i] = slots[j] => i = j
  /\ \A c \in Clients : client[c] \in Gone \/ Listed(c)
  /\ server = "up" => size > 0
  /\ (raced = "no" /\ ~sendLockFree) => cast.end = size /\ cast.next <= cast.end

\* removeClient takes out the client that has gone and no other.
LEMMA Erased ==
  ASSUME TypeOK, ListInv, NEW w \in Workers, Erases(w)
  PROVE  /\ \A i, j \in 1..size' : slots'[i] = slots'[j] => i = j
         /\ \A c \in Clients : Listed(c) /\ c # Chosen => Listed(c)'
         /\ \A c \in Clients : Listed(c)' => Listed(c) /\ c # Chosen
<1>0. /\ NumClients \in Nat /\ size \in 0..NumClients /\ size \in Nat
      /\ slots \in [1..NumClients -> Clients]
  BY List
<1>1. PICK at \in 1..size :
        /\ slots[at] = Chosen
        /\ slots' = [i \in 1..NumClients |->
                      IF i \in at..(size - 1) THEN slots[i + 1] ELSE slots[i]]
  BY DEF Erases
<1>2. size' = size - 1 /\ at \in Nat
  BY <1>0 DEF Erases
<1> DEFINE From(i) == IF i >= at THEN i + 1 ELSE i
<1>3. \A i \in 1..size' : From(i) \in 1..size /\ From(i) # at /\ slots'[i] = slots[From(i)]
  BY <1>0, <1>1, <1>2
<1>4. \A i, j \in 1..size' : From(i) = From(j) => i = j
  BY <1>0, <1>2
<1>5. \A i, j \in 1..size : slots[i] = slots[j] => i = j
  BY DEF ListInv
<1>6. \A j \in 1..size : j # at => \E i \in 1..size' : From(i) = j
  <2> TAKE j \in 1..size
  <2> HAVE j # at
  <2>1. CASE j < at
    <3>1. j \in 1..size' /\ From(j) = j
      BY <1>0, <1>2, <2>1
    <3>2. QED
      BY <3>1
  <2>2. CASE j > at
    <3>1. j - 1 \in 1..size' /\ From(j - 1) = j
      BY <1>0, <1>2, <2>2
    <3>2. QED
      BY <3>1
  <2>3. QED
    BY <1>0, <1>2, <2>1, <2>2
<1> HIDE DEF From
<1>7. \A i, j \in 1..size' : slots'[i] = slots'[j] => i = j
  BY <1>3, <1>4, <1>5
<1>8. ASSUME NEW c \in Clients, Listed(c), c # Chosen
      PROVE  Listed(c)'
  <2>1. PICK j \in 1..size : slots[j] = c
    BY <1>8 DEF Listed
  <2>2. PICK i \in 1..size' : From(i) = j
    BY <1>1, <1>6, <1>8, <2>1
  <2>3. slots'[i] = c
    BY <1>3, <2>1, <2>2
  <2>4. QED
    BY <2>3 DEF Listed
<1>9. ASSUME NEW c \in Clients, Listed(c)'
      PROVE  Listed(c) /\ c # Chosen
  <2>1. PICK i \in 1..size' : slots'[i] = c
    BY <1>9 DEF Listed
  <2>2. From(i) \in 1..size /\ From(i) # at /\ c = slots[From(i)]
    BY <1>3, <2>1
  <2>3. c # Chosen
    BY <1>1, <1>5, <2>2
  <2>4. QED
    BY <2>2, <2>3 DEF Listed
<1>10. QED
  BY <1>7, <1>8, <1>9

\* A step that leaves the list and the broadcasts alone; who has gone stays away.
LEMMA ListQuiet ==
  ASSUME ListInv, UNCHANGED <<slots, size, raced, cast>>,
         \A c \in Clients : client[c] \in Gone => client'[c] \in Gone,
         server' = "up" => server = "up"
  PROVE  ListInv'
<1>1. \A c : Listed(c)' <=> Listed(c)
  BY DEF Listed
<1>2. QED
  BY <1>1 DEF ListInv, sendLockFree

\* The list of clients is what removeClient is meant to leave of it.
THEOREM ListInvHolds == Spec => [](TypeOK /\ ListInv)
<1>1. Init => ListInv
  BY NetworkedServerAssumption DEF Init, ListInv, Listed, Clients, sendLockFree
<1>2. TypeOK /\ TypeOK' /\ ListInv /\ [Next]_vars => ListInv'
  <2> SUFFICES ASSUME TypeOK, TypeOK', ListInv, [Next]_vars
               PROVE  ListInv'
    OBVIOUS
  <2>1. CASE UNCHANGED vars
    BY <2>1, ListQuiet DEF vars, listVars
  <2>2. ASSUME NEW c \in Clients, ClientSend(c)
        PROVE  ListInv'
    <3>1. \A d \in Clients : client[d] \in Gone => client'[d] \in Gone
      BY <2>2 DEF ClientSend, TypeOK, Up, Running, Gone
    <3>2. QED
      BY <2>2, <3>1, ListQuiet DEF ClientSend, listVars
  <2>3. ASSUME NEW c \in Clients, ClientAct(c)
        PROVE  ListInv'
    <3>1. \A d \in Clients : client[d] \in Gone => client'[d] \in Gone
      BY <2>3 DEF ClientAct, TypeOK, Up, Running, Gone
    <3>2. QED
      BY <2>3, <3>1, ListQuiet DEF ClientAct, listVars
  <2>4. ASSUME NEW w \in Workers, Loop(w)
        PROVE  ListInv'
    BY <2>4, ListQuiet DEF Loop, listVars
  <2>5. ASSUME NEW w \in Workers, RecvReq(w)
        PROVE  ListInv'
    <3>1. /\ size > 0 /\ (Receives(w) \/ Erases(w))
          /\ UNCHANGED <<client, cast>>
      BY <2>5, Receiving
    <3>2. CASE Receives(w)
      BY <3>1, <3>2, ListQuiet DEF Receives
    <3>3. CASE Erases(w)
      <4>1. /\ \A i, j \in 1..size' : slots'[i] = slots'[j] => i = j
            /\ \A c \in Clients : Listed(c) /\ c # Chosen => Listed(c)'
        BY <3>3, Erased
      <4>2. \A c \in Clients : client'[c] \in Gone \/ Listed(c)'
        BY <3>1, <3>3, <4>1 DEF Erases, ListInv
      <4>3. server' = "up" => size' > 0
        BY <3>1, <3>3, List DEF Erases
      <4>4. raced' = "no" => sendLockFree'
        BY <3>1, <3>3 DEF Erases, sendLockFree
      <4>5. QED
        BY <4>1, <4>2, <4>3, <4>4 DEF ListInv
    <3>4. QED
      BY <3>1, <3>2, <3>3
  <2>6. ASSUME NEW w \in Workers, SendResp(w), server = "up"
        PROVE  ListInv'
    <3>1. ListInv!1' /\ ListInv!2' /\ ListInv!3'
      BY <2>6 DEF SendResp, ListInv, Listed, listVars
    <3>2. ~sendLockFree' => cast'.end = size' /\ cast'.next <= cast'.end
      BY <2>6, List DEF SendResp, ListInv, Broadcast, NoCast, sendLockFree, listVars
    <3>3. QED
      BY <3>1, <3>2 DEF ListInv
  <2>7. ASSUME NEW w \in Workers, Processed(w)
        PROVE  ListInv'
    BY <2>7, ListQuiet DEF Processed, listVars
  <2>8. CASE Cast /\ server = "up"
    <3>1. ListInv!1' /\ ListInv!2' /\ ListInv!3'
      BY <2>8 DEF Cast, ListInv, Listed, listVars
    <3>2. (raced' = "no" /\ ~sendLockFree') => cast'.end = size' /\ cast'.next <= cast'.end
      BY <2>8, List DEF Cast, ListInv, NextCast, sendLockFree, listVars, TypeOK, Casts
    <3>3. QED
      BY <3>1, <3>2 DEF ListInv
  <2>9. CASE Finish /\ server = "up"
    <3>1. ListInv!1' /\ ListInv!2' /\ ListInv!3'
      BY <2>9 DEF Finish, ListInv, Listed, listVars
    <3>2. cast'.end = size' /\ cast'.next <= cast'.end
      BY <2>9, List DEF Finish, ListInv, Broadcast, listVars
    <3>3. QED
      BY <3>1, <3>2 DEF ListInv
  <2>10. CASE Return
    BY <2>10, ListQuiet DEF Return, listVars
  <2>11. ASSUME NEW w \in Workers, RecvReqExits(w)
         PROVE  ListInv'
    BY <2>11, ListQuiet DEF RecvReqExits, listVars
  <2>12. QED
    BY <2>1, <2>2, <2>3, <2>4, <2>5, <2>6, <2>7, <2>8, <2>9, <2>10, <2>11
    DEF Next, Client, Worker, Main, Ended
<1>3. QED
  BY <1>1, <1>2, TypeCorrect, PTL DEF Spec

----------------------------------------------------------------------------------
\* A notice behind the others.
LEMMA Appended ==
  ASSUME NEW s \in Seq(NoticeTypes), NEW m \in NoticeTypes
  PROVE  /\ Len(s) \in Nat /\ Len(s \o <<m>>) = Len(s) + 1
         /\ \A i \in 1..Len(s) : (s \o <<m>>)[i] = s[i]
         /\ (s \o <<m>>)[Len(s) + 1] = m
  OBVIOUS

\* The notices behind the first.
LEMMA Shifted ==
  ASSUME NEW s \in Seq(NoticeTypes), s # <<>>
  PROVE  /\ Len(s) \in Nat /\ Len(s) > 0 /\ Len(Tail(s)) = Len(s) - 1
         /\ \A i \in 1..Len(Tail(s)) : Tail(s)[i] = s[i + 1] /\ i + 1 \in 1..Len(s)
         /\ Head(s) = s[1] /\ Head(s) \in NoticeTypes
  OBVIOUS

\* Notice m is on its way to client c.
Coming(c, m) == \E i \in 1..Len(notices[c]) : notices[c][i] = m

NoRoi(c) == client[c] # "ROI" /\ ~Coming(c, "ROI_BEGIN")

RoiAtMostOnce(c) ==
  /\ client[c] # "abortedInRoi"
  /\ client[c] = "ROI" => ~Coming(c, "ROI_BEGIN")
  /\ \A i, j \in 1..Len(notices[c]) :
       notices[c][i] = "ROI_BEGIN" /\ notices[c][j] = "ROI_BEGIN" => i = j

(***************************************************************************)
(* ROI_BEGIN is broadcast once, with the response that ends the warm-up,   *)
(* and reaches a client once unless the list changes under the broadcast:  *)
(* the clients the loop still has to come to have not heard of it.         *)
(***************************************************************************)
RoiInv ==
  raced = "no" =>
    /\ (finishedReqs < WarmupReqs \/ WarmupReqs = 0) => \A c \in Clients : NoRoi(c)
    /\ cast.type = "ROI_BEGIN" =>
         /\ finishedReqs = WarmupReqs /\ WarmupReqs > 0
         /\ \A i \in cast.next..cast.end : NoRoi(slots[i])
    /\ \A c \in Clients : RoiAtMostOnce(c)

\* A step that neither sends nor reads a notice; a client may leave INIT.
LEMMA RoiQuiet ==
  ASSUME RoiInv, raced' = "no" => raced = "no",
         UNCHANGED <<notices, cast, finishedReqs>>,
         \A c \in Clients : client'[c] = client[c] \/ client'[c] = "WARMUP",
         slots' = slots \/ cast.type = "NONE",
         TypeOK
  PROVE  RoiInv'
<1>1. \A c, m : Coming(c, m)' <=> Coming(c, m)
  BY DEF Coming
<1>2. \A c \in Clients : /\ NoRoi(c) => NoRoi(c)'
                         /\ RoiAtMostOnce(c) => RoiAtMostOnce(c)'
  BY <1>1 DEF NoRoi, RoiAtMostOnce
<1>3. \A i \in cast.next..cast.end : slots[i] \in Clients
  BY List DEF TypeOK, Casts
<1>4. CASE slots' = slots
  BY <1>2, <1>3, <1>4 DEF RoiInv
<1>5. CASE cast.type = "NONE"
  BY <1>2, <1>5 DEF RoiInv
<1>6. QED
  BY <1>4, <1>5

\* A client's receiver takes the first notice and acts on it.
LEMMA Acting ==
  ASSUME TypeOK, NEW c \in Clients, ClientAct(c)
  PROVE  /\ Up(c)
         /\ \A d \in Clients : d # c => notices'[d] = notices[d] /\ client'[d] = client[d]
         /\ client'[c] = IF Head(notices[c]) = "FINISH" THEN "finished"
                         ELSE CASE client[c] = "INIT" -> "abortedInInit"
                                [] client[c] = "WARMUP" -> "ROI"
                                [] client[c] = "ROI" -> "abortedInRoi"
         /\ Len(notices[c]) \in Nat /\ Len(notices[c]) > 0
         /\ Len(notices'[c]) = Len(notices[c]) - 1
         /\ \A i \in 1..Len(notices'[c]) :
               notices'[c][i] = notices[c][i + 1] /\ i + 1 \in 1..Len(notices[c])
         /\ Head(notices[c]) = notices[c][1] /\ Head(notices[c]) \in NoticeTypes
         /\ \A d \in Clients : \A m : Coming(d, m)' => Coming(d, m)
         /\ Coming(c, Head(notices[c]))
<1>1. /\ Up(c) /\ notices[c] # <<>>
      /\ notices[c] \in Seq(NoticeTypes)
  BY DEF ClientAct, TypeOK
<1>2. /\ notices'[c] = Tail(notices[c])
      /\ \A d \in Clients : d # c => notices'[d] = notices[d] /\ client'[d] = client[d]
      /\ client'[c] = IF Head(notices[c]) = "FINISH" THEN "finished"
                      ELSE CASE client[c] = "INIT" -> "abortedInInit"
                             [] client[c] = "WARMUP" -> "ROI"
                             [] client[c] = "ROI" -> "abortedInRoi"
  BY DEF ClientAct, TypeOK
<1>3. /\ Len(notices[c]) \in Nat /\ Len(notices[c]) > 0
      /\ Len(notices'[c]) = Len(notices[c]) - 1
      /\ \A i \in 1..Len(notices'[c]) :
            notices'[c][i] = notices[c][i + 1] /\ i + 1 \in 1..Len(notices[c])
      /\ Head(notices[c]) = notices[c][1] /\ Head(notices[c]) \in NoticeTypes
  <2>1. /\ Len(notices[c]) \in Nat /\ Len(notices[c]) > 0
        /\ Len(Tail(notices[c])) = Len(notices[c]) - 1
        /\ \A i \in 1..Len(Tail(notices[c])) :
              Tail(notices[c])[i] = notices[c][i + 1] /\ i + 1 \in 1..Len(notices[c])
        /\ Head(notices[c]) = notices[c][1] /\ Head(notices[c]) \in NoticeTypes
    BY <1>1, Shifted
  <2>2. QED
    BY <1>2, <2>1
<1>4. \A m : Coming(c, m)' => Coming(c, m)
  BY <1>3 DEF Coming
<1>5. \A d \in Clients : \A m : d # c => (Coming(d, m)' <=> Coming(d, m))
  BY <1>2 DEF Coming
<1>6. \A d \in Clients : \A m : Coming(d, m)' => Coming(d, m)
  BY <1>4, <1>5
<1>7. Coming(c, Head(notices[c]))
  BY <1>3 DEF Coming
<1>8. QED
  BY <1>1, <1>2, <1>3, <1>6, <1>7

\* The inductive form of RoiOnce.
THEOREM RoiInvHolds == Spec => [](TypeOK /\ ListInv /\ RoiInv)
<1>1. Init => RoiInv
  BY DEF Init, RoiInv, NoRoi, RoiAtMostOnce, Coming, NoCast
<1>2. TypeOK /\ ListInv /\ RoiInv /\ [Next]_vars => RoiInv'
  <2> SUFFICES ASSUME TypeOK, ListInv, RoiInv, [Next]_vars
               PROVE  RoiInv'
    OBVIOUS
  <2>0. /\ \A c \in Clients : notices[c] \in Seq(NoticeTypes)
        /\ client \in [Clients -> Running \cup Gone]
        /\ finishedReqs \in Nat /\ WarmupReqs \in Nat
        /\ \A i \in cast.next..cast.end : slots[i] \in Clients
    <3>1. \A i \in cast.next..cast.end : slots[i] \in Clients
      BY List DEF TypeOK, Casts
    <3>2. WarmupReqs \in Nat
      BY NetworkedServerAssumption
    <3>3. QED
      BY <3>1, <3>2 DEF TypeOK
  <2>1. CASE UNCHANGED vars
    BY <2>1, RoiQuiet DEF vars, listVars, workVars
  <2>2. ASSUME NEW c \in Clients, ClientSend(c)
        PROVE  RoiInv'
    <3>1. \A d \in Clients : client'[d] = client[d] \/ client'[d] = "WARMUP"
      BY <2>0, <2>2 DEF ClientSend
    <3>2. QED
      BY <2>2, <3>1, RoiQuiet DEF ClientSend, listVars, workVars
  <2>3. ASSUME NEW c \in Clients, ClientAct(c)
        PROVE  RoiInv'
    <3>1. UNCHANGED <<slots, cast, finishedReqs, raced>> /\ Up(c)
      BY <2>3 DEF ClientAct, listVars, workVars
    <3>2. /\ \A d \in Clients : d # c => notices'[d] = notices[d] /\ client'[d] = client[d]
          /\ client'[c] = IF Head(notices[c]) = "FINISH" THEN "finished"
                          ELSE CASE client[c] = "INIT" -> "abortedInInit"
                                 [] client[c] = "WARMUP" -> "ROI"
                                 [] client[c] = "ROI" -> "abortedInRoi"
      BY <2>3, Acting
    <3>3. /\ Len(notices[c]) \in Nat /\ Len(notices[c]) > 0
          /\ Len(notices'[c]) = Len(notices[c]) - 1
          /\ \A i \in 1..Len(notices'[c]) :
                notices'[c][i] = notices[c][i + 1] /\ i + 1 \in 1..Len(notices[c])
          /\ Head(notices[c]) = notices[c][1] /\ Head(notices[c]) \in NoticeTypes
      BY <2>3, Acting
    <3>4. \A d \in Clients : \A m : Coming(d, m)' => Coming(d, m)
      BY <2>3, Acting
    <3>5. Coming(c, Head(notices[c]))
      BY <2>3, Acting
    <3>6. ASSUME raced = "no"
          PROVE  /\ \A d \in Clients : NoRoi(d) => NoRoi(d)'
                 /\ \A d \in Clients : RoiAtMostOnce(d)'
      <4>1. \A d \in Clients : RoiAtMostOnce(d)
        BY <3>6 DEF RoiInv
      <4>2. \A d \in Clients : d # c /\ NoRoi(d) => NoRoi(d)'
        BY <3>2, <3>4 DEF NoRoi
      <4>3. \A d \in Clients : d # c => RoiAtMostOnce(d)'
        BY <3>2, <3>4, <4>1 DEF RoiAtMostOnce
      <4>4. CASE Head(notices[c]) = "FINISH"
        <5>1. client'[c] = "finished"
          BY <3>2, <4>4
        <5>2. NoRoi(c) => NoRoi(c)'
          BY <3>4, <5>1 DEF NoRoi
        <5>3. RoiAtMostOnce(c)'
          <6>1. \A i, j \in 1..Len(notices[c]) :
                  notices[c][i] = "ROI_BEGIN" /\ notices[c][j] = "ROI_BEGIN" => i = j
            BY <4>1 DEF RoiAtMostOnce
          <6>2. \A i, j \in 1..Len(notices'[c]) : i + 1 = j + 1 => i = j
            OBVIOUS
          <6>3. \A i, j \in 1..Len(notices'[c]) :
                  notices'[c][i] = "ROI_BEGIN" /\ notices'[c][j] = "ROI_BEGIN" => i = j
            <7> TAKE i, j \in 1..Len(notices'[c])
            <7>1. i + 1 \in 1..Len(notices[c]) /\ j + 1 \in 1..Len(notices[c])
              BY <3>3
            <7>2. notices'[c][i] = notices[c][i + 1] /\ notices'[c][j] = notices[c][j + 1]
              BY <3>3
            <7>3. QED
              BY <6>1, <6>2, <7>1, <7>2
          <6>4. QED
            BY <5>1, <6>3 DEF RoiAtMostOnce
        <5>4. QED
          BY <4>2, <4>3, <5>2, <5>3
      <4>5. CASE Head(notices[c]) = "ROI_BEGIN"
        <5>1. Coming(c, "ROI_BEGIN")
          BY <3>5, <4>5
        <5>2. ~NoRoi(c) /\ client[c] # "ROI"
          BY <4>1, <5>1 DEF NoRoi, RoiAtMostOnce
        <5>3. client'[c] \in {"abortedInInit", "ROI"}
          BY <3>1, <3>2, <4>5, <5>2 DEF Up, Running
        <5>4. \A i \in 1..Len(notices'[c]) : notices'[c][i] # "ROI_BEGIN"
          <6>1. 1 \in 1..Len(notices[c]) /\ notices[c][1] = "ROI_BEGIN"
            BY <3>3, <4>5
          <6>2. \A i \in 1..Len(notices[c]) : notices[c][i] = "ROI_BEGIN" => i = 1
            BY <4>1, <6>1 DEF RoiAtMostOnce
          <6>3. \A i \in 1..Len(notices'[c]) : i + 1 # 1
            OBVIOUS
          <6>4. QED
            BY <3>3, <6>2, <6>3
        <5>5. RoiAtMostOnce(c)'
          BY <5>3, <5>4 DEF RoiAtMostOnce, Coming
        <5>6. QED
          BY <4>2, <4>3, <5>2, <5>5
      <4>6. QED
        BY <3>3, <4>4, <4>5 DEF NoticeTypes
    <3>7. QED
      BY <2>0, <3>1, <3>6 DEF RoiInv
  <2>4. ASSUME NEW w \in Workers, Loop(w)
        PROVE  RoiInv'
    BY <2>4, RoiQuiet DEF Loop, listVars
  <2>5. ASSUME NEW w \in Workers, RecvReq(w)
        PROVE  RoiInv'
    <3>1. /\ Receives(w) \/ Erases(w)
          /\ UNCHANGED <<client, notices, finishedReqs, cast>>
      BY <2>5, Receiving
    <3>2. raced' = "no" => raced = "no" /\ (slots' = slots \/ cast = NoCast)
      BY <3>1 DEF Receives, Erases, sendLockFree
    <3>3. CASE raced' = "no"
      BY <3>1, <3>2, <3>3, RoiQuiet DEF NoCast
    <3>4. CASE raced' # "no"
      BY <3>4 DEF RoiInv
    <3>5. QED
      BY <3>3, <3>4
  <2>6. ASSUME NEW w \in Workers, SendResp(w)
        PROVE  RoiInv'
    <3>1. /\ notices' = notices
          /\ finishedReqs' = finishedReqs + 1
          /\ cast' = Broadcast(Notice(finishedReqs + 1))
          /\ UNCHANGED <<client, slots, size, raced>>
      <4>1. activeFds[w] \in Clients /\ notices \in [Clients -> Seq(NoticeTypes)]
        BY <2>6 DEF SendResp, TypeOK
      <4>2. notices[activeFds[w]] \o <<>> = notices[activeFds[w]]
        BY <4>1, ConcatEmptySeq
      <4>3. QED
        BY <2>6, <4>1, <4>2 DEF SendResp, Send, listVars
    <3>2. \A c : (NoRoi(c)' <=> NoRoi(c)) /\ (RoiAtMostOnce(c)' <=> RoiAtMostOnce(c))
      BY <3>1 DEF NoRoi, RoiAtMostOnce, Coming
    <3>3. cast'.type = "ROI_BEGIN" => finishedReqs + 1 = WarmupReqs /\ cast'.end = size
      BY <3>1 DEF Broadcast, Notice, NoCast
    <3>4. \A i \in cast'.next..size : slots[i] \in Clients
      BY <3>1, List DEF Broadcast, NoCast
    <3>5. QED
      BY <2>0, <3>1, <3>2, <3>3, <3>4 DEF RoiInv
  <2>7. ASSUME NEW w \in Workers, Processed(w)
        PROVE  RoiInv'
    BY <2>7, RoiQuiet DEF Processed, listVars
  <2>8. CASE Cast
    <3>0. PICK c \in Clients : c = slots[cast.next]
      BY List DEF TypeOK, Casts
    <3>1. /\ Send(c, <<cast.type>>) /\ cast' = NextCast(cast) /\ ~sendLockFree
          /\ UNCHANGED <<client, slots, size, finishedReqs, raced>>
      BY <2>8, <3>0 DEF Cast, listVars
    <3>2. /\ cast \in Casts /\ cast.next \in Nat /\ cast.end \in Nat
          /\ c \in Clients /\ cast.type \in NoticeTypes
          /\ notices \in [Clients -> Seq(NoticeTypes)]
      <4>1. notices \in [Clients -> Seq(NoticeTypes)]
        BY DEF TypeOK
      <4>2. QED
        BY <3>1, <4>1, UnderWay
    <3>3. cast'.type = "ROI_BEGIN" =>
            cast'.type = cast.type /\ cast'.next = cast.next + 1 /\ cast'.end = cast.end
      BY <3>1, <3>2 DEF NextCast, NoCast, Casts
    <3>4. SUFFICES ASSUME raced = "no"
                   PROVE  RoiInv'
      BY <3>1 DEF RoiInv
    <3>5. /\ cast.end = size /\ cast.next \in 1..size
          /\ \A i, j \in 1..size : slots[i] = slots[j] => i = j
      BY <3>1, <3>2, <3>4, List DEF ListInv, Casts
    <3>6. \A i \in (cast.next + 1)..cast.end : slots[i] # c
      BY <3>0, <3>2, <3>5
    <3>7. \A d \in Clients : d # c => notices'[d] = notices[d]
      BY <3>1, <3>2 DEF Send
    <3>8. notices'[c] = notices[c] \/ notices'[c] = notices[c] \o <<cast.type>>
      BY <3>1, <3>2 DEF Send
    <3>9. /\ Len(notices[c]) \in Nat
          /\ \/ notices'[c] = notices[c]
             \/ /\ Len(notices'[c]) = Len(notices[c]) + 1
                /\ \A i \in 1..Len(notices[c]) : notices'[c][i] = notices[c][i]
                /\ notices'[c][Len(notices[c]) + 1] = cast.type
      BY <3>2, <3>8, Appended
    <3>10. \A d \in Clients : d # c /\ NoRoi(d) => NoRoi(d)'
      BY <3>1, <3>7 DEF NoRoi, Coming
    <3>11. /\ RoiAtMostOnce(c)
           /\ \A d \in Clients : d # c => RoiAtMostOnce(d)'
      <4>1. \A d \in Clients : RoiAtMostOnce(d)
        BY <3>4 DEF RoiInv
      <4>2. \A d \in Clients : d # c /\ RoiAtMostOnce(d) => RoiAtMostOnce(d)'
        BY <3>1, <3>7 DEF RoiAtMostOnce, Coming
      <4>3. QED
        BY <4>1, <4>2
    <3>12. CASE cast.type = "FINISH"
      <4>1. NoRoi(c) => NoRoi(c)'
        BY <3>1, <3>9, <3>12 DEF NoRoi, Coming
      <4>2. RoiAtMostOnce(c)'
        <5>1. \A i \in 1..Len(notices'[c]) : notices'[c][i] = "ROI_BEGIN" =>
                i \in 1..Len(notices[c]) /\ notices[c][i] = "ROI_BEGIN"
          BY <3>9, <3>12
        <5>2. client'[c] = client[c]
          BY <3>1
        <5>3. Coming(c, "ROI_BEGIN")' => Coming(c, "ROI_BEGIN")
          BY <5>1 DEF Coming
        <5>4. \A i, j \in 1..Len(notices'[c]) :
                notices'[c][i] = "ROI_BEGIN" /\ notices'[c][j] = "ROI_BEGIN" => i = j
          BY <3>11, <5>1 DEF RoiAtMostOnce
        <5>5. QED
          BY <3>11, <5>2, <5>3, <5>4 DEF RoiAtMostOnce
      <4>3. cast'.type # "ROI_BEGIN"
        BY <3>3, <3>12
      <4>4. QED
        <5>1. \A d \in Clients : RoiAtMostOnce(d)'
          BY <3>11, <4>2
        <5>2. \A d \in Clients : NoRoi(d) => NoRoi(d)'
          BY <3>10, <4>1
        <5>3. QED
          BY <3>1, <3>4, <4>3, <5>1, <5>2 DEF RoiInv
    <3>13. CASE cast.type = "ROI_BEGIN"
      <4>1. /\ finishedReqs = WarmupReqs /\ WarmupReqs > 0
            /\ \A i \in cast.next..cast.end : NoRoi(slots[i])
        BY <3>4, <3>13 DEF RoiInv
      <4>2. NoRoi(c)
        BY <3>0, <3>2, <3>5, <4>1
      <4>3. RoiAtMostOnce(c)'
        BY <3>1, <3>9, <3>11, <3>13, <4>2 DEF RoiAtMostOnce, NoRoi, Coming
      <4>4. \A i \in (cast.next + 1)..cast.end : NoRoi(slots[i])'
        <5>1. ASSUME NEW i \in (cast.next + 1)..cast.end
              PROVE  NoRoi(slots[i])'
          <6>1. i \in cast.next..cast.end
            BY <3>2
          <6>2. slots[i] \in Clients /\ slots[i] # c /\ NoRoi(slots[i])
            BY <2>0, <3>6, <4>1, <6>1
          <6>3. slots'[i] = slots[i]
            BY <3>1
          <6>4. PICK d \in Clients : d = slots[i]
            BY <6>2
          <6>5. d # c /\ NoRoi(d)
            BY <6>2, <6>4
          <6>6. NoRoi(d)'
            BY <3>10, <6>5
          <6>7. QED
            BY <6>3, <6>4, <6>6 DEF NoRoi, Coming
        <5>2. QED
          BY <5>1
      <4>5. ~(finishedReqs' < WarmupReqs \/ WarmupReqs = 0)
        BY <2>0, <3>1, <4>1
      <4>6. \A d \in Clients : RoiAtMostOnce(d)'
        BY <3>11, <4>3
      <4>7. QED
        BY <3>1, <3>3, <4>1, <4>4, <4>5, <4>6 DEF RoiInv
    <3>14. QED
      BY <3>2, <3>12, <3>13 DEF NoticeTypes
  <2>9. CASE Finish
    <3>1. /\ cast'.type = "FINISH"
          /\ UNCHANGED <<client, notices, finishedReqs, raced>>
      BY <2>9 DEF Finish, Broadcast
    <3>2. \A c : (NoRoi(c)' <=> NoRoi(c)) /\ (RoiAtMostOnce(c)' <=> RoiAtMostOnce(c))
      BY <3>1 DEF NoRoi, RoiAtMostOnce, Coming
    <3>3. QED
      BY <3>1, <3>2 DEF RoiInv
  <2>10. CASE Return
    BY <2>10, RoiQuiet DEF Return, listVars, workVars
  <2>11. ASSUME NEW w \in Workers, RecvReqExits(w)
         PROVE  RoiInv'
    BY <2>11, RoiQuiet DEF RecvReqExits, listVars, workVars
  <2>12. QED
    BY <2>1, <2>2, <2>3, <2>4, <2>5, <2>6, <2>7, <2>8, <2>9, <2>10, <2>11
    DEF Next, Client, Worker, Main, Ended
<1>3. QED
  BY <1>1, <1>2, ListInvHolds, PTL DEF Spec

(***************************************************************************)
(* Unless a client is erased while a broadcast is under way, no client in  *)
(* its ROI gets ROI_BEGIN again, whatever the number of clients and the    *)
(* order in which they connect, send and leave.                            *)
(***************************************************************************)
THEOREM RoiOnceHolds == Spec => []RoiOnce
<1>1. RoiInv => RoiOnce
  BY DEF RoiInv, RoiOnce, RoiAtMostOnce
<1>2. QED
  BY <1>1, RoiInvHolds, PTL

----------------------------------------------------------------------------------
(***************************************************************************)
(* A broadcast is under way only while the worker that began it, or main   *)
(* in finish(), is in its loop; main is there after all workers.           *)
(***************************************************************************)
CastInv ==
  /\ ~sendLockFree => \E w \in Workers : wpc[w] \in {"cast", "finish"}
  /\ (\E w \in Workers : wpc[w] = "finish") =>
       cast.type = "FINISH" /\ \A w \in Workers : wpc[w] = "finish"

\* The broadcasts hold sendLock from their beginning to their end.
THEOREM CastInvHolds == Spec => [](TypeOK /\ CastInv)
<1>1. Init => CastInv
  BY DEF Init, CastInv, sendLockFree
<1>2. TypeOK /\ CastInv /\ [Next]_vars => CastInv'
  <2> SUFFICES ASSUME TypeOK, CastInv, [Next]_vars
               PROVE  CastInv'
    OBVIOUS
  <2>0. wpc \in [Workers -> WorkerLabels] /\ cast \in Casts
    BY DEF TypeOK
  <2>1. CASE UNCHANGED <<wpc, cast>>
    BY <2>1 DEF CastInv, sendLockFree
  <2>2. ASSUME NEW w \in Workers, NEW l \in {"loop", "recv", "serve", "done"},
               wpc[w] \in {"loop", "recv", "serve", "processed"},
               wpc' = [wpc EXCEPT ![w] = l], UNCHANGED cast
        PROVE  CastInv'
    <3>1. ~\E u \in Workers : wpc[u] = "finish"
      BY <2>2 DEF CastInv
    <3>2. \A u \in Workers : wpc[u] = "cast" => wpc'[u] = "cast"
      BY <2>0, <2>2
    <3>3. \A u \in Workers : wpc'[u] # "finish"
      BY <2>0, <2>2, <3>1
    <3>4. QED
      BY <2>2, <3>1, <3>2, <3>3 DEF CastInv, sendLockFree
  <2>3. ASSUME NEW w \in Workers, SendResp(w)
        PROVE  CastInv'
    <3>1. ~\E u \in Workers : wpc[u] = "finish"
      BY <2>3 DEF CastInv, SendResp
    <3>2. wpc' = [wpc EXCEPT ![w] = IF cast' = NoCast THEN "processed" ELSE "cast"]
      BY <2>3 DEF SendResp
    <3>3. \A u \in Workers : wpc'[u] # "finish"
      BY <2>0, <3>1, <3>2
    <3>4. cast' # NoCast => wpc'[w] = "cast"
      BY <2>0, <3>2
    <3>5. QED
      BY <3>3, <3>4 DEF CastInv, sendLockFree
  <2>4. CASE Cast
    <3>1. /\ cast' = NextCast(cast)
          /\ wpc' = IF cast' # NoCast THEN wpc
                    ELSE [w \in Workers |-> CASE wpc[w] = "cast" -> "processed"
                                              [] wpc[w] = "finish" -> "returned"
                                              [] OTHER -> wpc[w]]
      BY <2>4 DEF Cast
    <3>2. CASE cast' = NoCast
      <4>1. \A w \in Workers : wpc'[w] # "finish"
        BY <2>0, <3>1, <3>2
      <4>2. QED
        BY <3>2, <4>1 DEF CastInv, sendLockFree
    <3>3. CASE cast' # NoCast
      <4>1. wpc' = wpc /\ cast'.type = cast.type
        BY <2>0, <3>1, <3>3 DEF NextCast, Casts
      <4>2. QED
        BY <2>4, <4>1 DEF CastInv, Cast, sendLockFree
    <3>4. QED
      BY <3>2, <3>3
  <2>5. CASE Finish
    <3>1. cast'.type = "FINISH" /\ \A w \in Workers : wpc'[w] = "finish"
      BY <2>5 DEF Finish, Broadcast
    <3>2. QED
      BY <3>1, NetworkedServerAssumption DEF CastInv
  <2>6. ASSUME NEW w \in Workers, Loop(w)
        PROVE  CastInv'
    <3>1. CASE numReqsProcessed < NumReqsToProcess
      BY <2>2, <2>6, <3>1 DEF Loop
    <3>2. CASE ~(numReqsProcessed < NumReqsToProcess)
      BY <2>2, <2>6, <3>2 DEF Loop
    <3>3. QED
      BY <3>1, <3>2
  <2>7. ASSUME NEW w \in Workers, RecvReq(w)
        PROVE  CastInv'
    <3>1. (Receives(w) \/ Erases(w)) /\ UNCHANGED cast
      BY <2>7, Receiving
    <3>2. CASE Receives(w)
      <4>1. wpc[w] = "recv"
        BY <2>7 DEF RecvReq
      <4>2. wpc' = [wpc EXCEPT ![w] = "serve"]
        BY <3>2 DEF Receives
      <4>3. QED
        BY <2>2, <3>1, <4>1, <4>2
    <3>3. CASE Erases(w)
      BY <2>1, <3>1, <3>3 DEF Erases
    <3>4. QED
      BY <3>1, <3>2, <3>3
  <2>8. ASSUME NEW w \in Workers, Processed(w)
        PROVE  CastInv'
    BY <2>2, <2>8 DEF Processed
  <2>9. ASSUME NEW c \in Clients, ClientSend(c) \/ ClientAct(c)
        PROVE  CastInv'
    BY <2>1, <2>9 DEF ClientSend, ClientAct, workVars
  <2>10. CASE Return
    BY <2>1, <2>10 DEF Return, workVars
  <2>11. CASE UNCHANGED vars
    BY <2>1, <2>11 DEF vars, workVars
  <2>12. ASSUME NEW w \in Workers, RecvReqExits(w)
         PROVE  CastInv'
    BY <2>1, <2>12 DEF RecvReqExits, workVars
  <2>13. QED
    BY <2>3, <2>4, <2>5, <2>6, <2>7, <2>8, <2>9, <2>10, <2>11, <2>12
    DEF Next, Client, Worker, Main, Ended
<1>3. QED
  BY <1>1, <1>2, TypeCorrect, PTL DEF Spec

(***************************************************************************)
(* As long as no broadcast was raced and no client lost, a client that has *)
(* gone or will go was told to, and that some were told and others not is  *)
(* the case only in the middle of a broadcast of FINISH, where those told  *)
(* are the ones before the loop's next.  A request cut short is that of a  *)
(* client that was told.                                                   *)
(***************************************************************************)
TellsAll ==
  /\ \A c \in Clients : client[c] \in Gone \/ Coming(c, "FINISH") => c \in told
  /\ \/ told = Clients
     \/ \A c \in told : cast.type = "FINISH" /\ \E i \in 1..(cast.next - 1) : slots[i] = c
  /\ cast.type = "FINISH" => \A i \in 1..(cast.next - 1) : slots[i] \in told
  /\ (server \notin {"up", "misread"} \/ \E w \in Workers : wpc[w] = "returned") =>
       told = Clients \/ (server = "cutShort" /\ cast.type = "FINISH")

FinishInv == (raced = "no" /\ Lost = {}) => TellsAll

\* A client that has gone stays as it is.
LEMMA GoneStays ==
  ASSUME TypeOK, [Next]_vars
  PROVE  /\ \A c \in Clients : client[c] \in Gone => client'[c] = client[c]
         /\ Lost' = {} => Lost = {}
<1>0. client \in [Clients -> Running \cup Gone]
  BY DEF TypeOK
<1>1. ASSUME NEW c \in Clients, ClientSend(c) \/ ClientAct(c)
      PROVE  \A d \in Clients : client[d] \in Gone => client'[d] = client[d]
  <2>1. Up(c) /\ client[c] \notin Gone
    BY <1>0, <1>1 DEF ClientSend, ClientAct, Up, Running, Gone
  <2>2. \A d \in Clients : d # c => client'[d] = client[d]
    BY <1>0, <1>1 DEF ClientSend, ClientAct
  <2>3. QED
    BY <2>1, <2>2
<1>2. (\E c \in Clients : Client(c)) \/ UNCHANGED client
  BY DEF Next, Worker, Main, Ended, vars, Loop, RecvReq, RecvReqExits, SendResp, Processed,
         Cast, Finish, Return
<1>3. \A c \in Clients : client[c] \in Gone => client'[c] = client[c]
  BY <1>1, <1>2 DEF Client
<1>4. Lost' = {} => Lost = {}
  BY <1>3 DEF Lost, Gone
<1>5. QED
  BY <1>3, <1>4

\* A step that sends nothing and reads nothing.
LEMMA FinishQuiet ==
  ASSUME TypeOK, FinishInv, [Next]_vars,
         raced' = "no" => raced = "no" /\ (slots' = slots \/ cast.type = "NONE"),
         UNCHANGED <<notices, told, cast, server>>,
         \A c \in Clients : client'[c] \in Gone => client[c] \in Gone,
         \A w \in Workers : wpc'[w] = "returned" => wpc[w] = "returned"
  PROVE  FinishInv'
<1>1. SUFFICES ASSUME raced' = "no", Lost' = {}
               PROVE  TellsAll'
  BY DEF FinishInv
<1>2. TellsAll /\ (slots' = slots \/ cast.type = "NONE")
  BY <1>1, GoneStays DEF FinishInv
<1>3. \A c : Coming(c, "FINISH")' <=> Coming(c, "FINISH")
  BY DEF Coming
<1>4. TellsAll!1' /\ TellsAll!4'
  BY <1>2, <1>3 DEF TellsAll
<1>5. TellsAll!2' /\ TellsAll!3'
  <2>1. CASE slots' = slots
    BY <1>2, <2>1 DEF TellsAll
  <2>2. CASE cast.type = "NONE"
    BY <1>2, <2>2 DEF TellsAll
  <2>3. QED
    BY <1>2, <2>1, <2>2
<1>6. QED
  BY <1>4, <1>5 DEF TellsAll

\* The inductive form of FinishReachesAll.
THEOREM FinishInvHolds == Spec => [](TypeOK /\ ListInv /\ FinishInv)
<1>1. Init => FinishInv
  <2> SUFFICES ASSUME Init
               PROVE  TellsAll
    BY DEF FinishInv
  <2>1. \A c \in Clients : ~Coming(c, "FINISH") /\ client[c] \notin Gone
    BY DEF Init, Coming, Gone
  <2>2. QED
    BY <2>1 DEF Init, TellsAll, NoCast
<1>2. TypeOK /\ ListInv /\ ListInv' /\ RoiInv' /\ CastInv /\ FinishInv /\ [Next]_vars => FinishInv'
  <2> SUFFICES ASSUME TypeOK, ListInv, ListInv', RoiInv', CastInv, FinishInv, [Next]_vars
               PROVE  FinishInv'
    OBVIOUS
  <2>0. /\ client \in [Clients -> Running \cup Gone]
        /\ wpc \in [Workers -> WorkerLabels]
    BY DEF TypeOK
  <2>1. CASE UNCHANGED vars
    BY <2>1, FinishQuiet DEF vars, listVars, workVars
  <2>2. ASSUME NEW c \in Clients, ClientSend(c)
        PROVE  FinishInv'
    <3>1. \A d \in Clients : client'[d] \in Gone => client[d] \in Gone
      BY <2>0, <2>2 DEF ClientSend, Gone
    <3>2. QED
      BY <2>2, <3>1, FinishQuiet DEF ClientSend, listVars, workVars
  <2>3. ASSUME NEW c \in Clients, ClientAct(c)
        PROVE  FinishInv'
    <3>1. SUFFICES ASSUME raced' = "no", Lost' = {}
                   PROVE  TellsAll'
      BY DEF FinishInv
    <3>2. UNCHANGED <<told, cast, server, slots, wpc, raced>>
      BY <2>3 DEF ClientAct, listVars, workVars
    <3>3. TellsAll
      BY <3>1, <3>2, GoneStays DEF FinishInv
    <3>4. client'[c] \in Gone => Head(notices[c]) = "FINISH"
      <4>1. client'[c] # "abortedInRoi"
        BY <3>1 DEF RoiInv, RoiAtMostOnce
      <4>2. client'[c] # "abortedInInit"
        BY <3>1 DEF Lost
      <4>3. /\ client[c] \in Running
            /\ client'[c] = IF Head(notices[c]) = "FINISH" THEN "finished"
                            ELSE CASE client[c] = "INIT" -> "abortedInInit"
                                   [] client[c] = "WARMUP" -> "ROI"
                                   [] client[c] = "ROI" -> "abortedInRoi"
        BY <2>3, Acting DEF Up
      <4>4. QED
        BY <4>1, <4>2, <4>3 DEF Running, Gone
    <3>5. /\ \A d \in Clients : \A m : Coming(d, m)' => Coming(d, m)
          /\ Coming(c, Head(notices[c]))
          /\ \A d \in Clients : d # c => client'[d] = client[d]
      BY <2>3, Acting
    <3>6. \A d \in Clients : client'[d] \in Gone \/ Coming(d, "FINISH")' => d \in told
      BY <3>3, <3>4, <3>5 DEF TellsAll
    <3>7. QED
      BY <3>2, <3>3, <3>6 DEF TellsAll
  <2>4. ASSUME NEW w \in Workers, Loop(w)
        PROVE  FinishInv'
    <3>1. \A u \in Workers : wpc'[u] = "returned" => wpc[u] = "returned"
      BY <2>0, <2>4 DEF Loop
    <3>2. QED
      BY <2>4, <3>1, FinishQuiet DEF Loop, listVars
  <2>5. ASSUME NEW w \in Workers, RecvReq(w)
        PROVE  FinishInv'
    <3>1. /\ Receives(w) \/ Erases(w)
          /\ UNCHANGED <<client, notices, cast, told>>
      BY <2>5, Receiving
    <3>2. CASE Receives(w)
      <4>1. \A u \in Workers : wpc'[u] = "returned" => wpc[u] = "returned"
        BY <2>0, <3>2 DEF Receives
      <4>2. QED
        BY <3>1, <3>2, <4>1, FinishQuiet DEF Receives
    <3>3. CASE Erases(w)
      <4>1. SUFFICES ASSUME raced' = "no", Lost' = {}
                     PROVE  TellsAll'
        BY DEF FinishInv
      <4>2. raced = "no" /\ cast = NoCast /\ wpc' = wpc
        BY <3>3, <4>1 DEF Erases, sendLockFree
      <4>3. TellsAll
        BY <4>1, <4>2, GoneStays DEF FinishInv
      <4>4. \A c : Coming(c, "FINISH")' <=> Coming(c, "FINISH")
        BY <3>1 DEF Coming
      <4>5. cast.type = "NONE"
        BY <4>2 DEF NoCast
      <4>6. TellsAll!1' /\ TellsAll!2' /\ TellsAll!3'
        BY <3>1, <4>3, <4>4, <4>5 DEF TellsAll
      <4>7. size' = 0 => told = Clients
        <5>1. HAVE size' = 0
        <5>2. \A c \in Clients : client'[c] \in Gone
          BY <5>1 DEF ListInv, Listed
        <5>3. \A c \in Clients : c \in told
          BY <3>1, <4>3, <5>2 DEF TellsAll
        <5>4. told \subseteq Clients
          BY DEF TypeOK
        <5>5. QED
          BY <5>3, <5>4
      <4>8. TellsAll!4'
        BY <3>1, <3>3, <4>2, <4>3, <4>7 DEF TellsAll, Erases
      <4>9. QED
        BY <4>6, <4>8 DEF TellsAll
    <3>4. QED
      BY <3>1, <3>2, <3>3
  <2>6. ASSUME NEW w \in Workers, SendResp(w), server = "up"
        PROVE  FinishInv'
    <3>1. SUFFICES ASSUME raced' = "no", Lost' = {}
                   PROVE  TellsAll'
      BY DEF FinishInv
    <3>2. activeFds[w] \in Clients /\ notices \in [Clients -> Seq(NoticeTypes)]
      BY <2>6 DEF SendResp, TypeOK
    <3>3. /\ cast = NoCast /\ cast' = Broadcast(Notice(finishedReqs + 1))
          /\ UNCHANGED <<client, slots, told, raced>>
      BY <2>6 DEF SendResp, sendLockFree, listVars
    <3>4. TellsAll
      BY <3>1, <3>3, GoneStays DEF FinishInv
    <3>5. told = Clients \/ told = {}
      BY <3>3, <3>4 DEF TellsAll, NoCast
    <3>6. notices' = notices
      <4>1. notices[activeFds[w]] \o <<>> = notices[activeFds[w]]
        BY <3>2, ConcatEmptySeq
      <4>2. QED
        BY <2>6, <3>2, <4>1 DEF SendResp, Send
    <3>7. \A c : Coming(c, "FINISH")' <=> Coming(c, "FINISH")
      BY <3>6 DEF Coming
    <3>8. TellsAll!1'
      BY <3>3, <3>4, <3>7 DEF TellsAll
    <3>9. cast'.next = 1
      BY <3>3 DEF Broadcast, NoCast
    <3>10. TellsAll!2' /\ TellsAll!3'
      <4>1. 1..(cast'.next - 1) = {}
        BY <3>9
      <4>2. QED
        BY <3>3, <3>5, <4>1 DEF TellsAll
    <3>11. server' # "up" => told = Clients
      <4>1. HAVE server' # "up"
      <4>2. client[activeFds[w]] \in Gone
        BY <2>0, <2>6, <3>2, <4>1 DEF SendResp, Send, Up
      <4>3. activeFds[w] \in told
        BY <3>2, <3>4, <4>2 DEF TellsAll
      <4>4. QED
        BY <3>5, <4>3
    <3>12. \A u \in Workers : wpc'[u] = "returned" => wpc[u] = "returned"
      BY <2>0, <2>6 DEF SendResp
    <3>13. TellsAll!4'
      <4>1. (\E u \in Workers : wpc[u] = "returned") => told = Clients
        BY <2>6, <3>4 DEF TellsAll
      <4>2. QED
        BY <3>3, <3>11, <3>12, <4>1 DEF TellsAll
    <3>14. QED
      BY <3>8, <3>10, <3>13 DEF TellsAll
  <2>7. ASSUME NEW w \in Workers, Processed(w)
        PROVE  FinishInv'
    <3>1. \A u \in Workers : wpc'[u] = "returned" => wpc[u] = "returned"
      BY <2>0, <2>7 DEF Processed
    <3>2. QED
      BY <2>7, <3>1, FinishQuiet DEF Processed, listVars
  <2>8. CASE Cast /\ server = "up"
    <3>0. PICK c \in Clients : c = slots[cast.next]
      BY List DEF TypeOK, Casts
    <3>1. SUFFICES ASSUME raced' = "no", Lost' = {}
                   PROVE  TellsAll'
      BY DEF FinishInv
    <3>2. /\ Send(c, <<cast.type>>) /\ cast' = NextCast(cast) /\ ~sendLockFree
          /\ told' = IF cast.type = "FINISH" THEN told \cup {c} ELSE told
          /\ UNCHANGED <<client, slots, size, raced>>
      BY <2>8, <3>0 DEF Cast, listVars
    <3>3. TellsAll /\ raced = "no"
      BY <3>1, <3>2, GoneStays DEF FinishInv
    <3>4. /\ cast \in Casts /\ cast.next \in Nat /\ cast.end \in Nat
          /\ cast.type \in NoticeTypes
          /\ notices \in [Clients -> Seq(NoticeTypes)] /\ told \subseteq Clients
      <4>1. notices \in [Clients -> Seq(NoticeTypes)] /\ told \subseteq Clients
        BY DEF TypeOK
      <4>2. QED
        BY <3>2, <4>1, UnderWay
    <3>5. /\ cast.end = size /\ cast.next \in 1..size
          /\ \A i, j \in 1..size : slots[i] = slots[j] => i = j
      BY <3>2, <3>3, <3>4, List DEF ListInv, Casts
    <3>6. \/ cast' = NoCast /\ cast.next = cast.end
          \/ cast'.type = cast.type /\ cast'.next = cast.next + 1
      BY <3>2, <3>4, <3>5 DEF NextCast, Casts
    <3>7. \A d \in Clients : Coming(d, "FINISH")' =>
            Coming(d, "FINISH") \/ (d = c /\ cast.type = "FINISH")
      <4>1. \A d \in Clients : d # c => notices'[d] = notices[d]
        BY <3>2, <3>4 DEF Send
      <4>2. notices'[c] = notices[c] \/ notices'[c] = notices[c] \o <<cast.type>>
        BY <3>2, <3>4 DEF Send
      <4>3. \/ notices'[c] = notices[c]
            \/ /\ Len(notices'[c]) = Len(notices[c]) + 1
               /\ \A i \in 1..Len(notices[c]) : notices'[c][i] = notices[c][i]
               /\ notices'[c][Len(notices[c]) + 1] = cast.type
        BY <3>4, <4>2, Appended
      <4>4. Len(notices[c]) \in Nat
        BY <3>4
      <4>5. Coming(c, "FINISH")' => Coming(c, "FINISH") \/ cast.type = "FINISH"
        BY <4>3, <4>4 DEF Coming
      <4>6. \A d \in Clients : d # c => (Coming(d, "FINISH")' <=> Coming(d, "FINISH"))
        BY <4>1 DEF Coming
      <4>7. QED
        BY <4>5, <4>6
    <3>8. TellsAll!1'
      BY <3>2, <3>3, <3>7 DEF TellsAll
    <3>9. server' # "up" => told = Clients
      <4>1. HAVE server' # "up"
      <4>2. client[c] \in Gone
        BY <2>0, <2>8, <3>2, <4>1 DEF Send, Up
      <4>3. c \in told
        BY <3>3, <4>2 DEF TellsAll
      <4>4. ~\E i \in 1..(cast.next - 1) : slots[i] = c
        BY <3>0, <3>4, <3>5
      <4>5. QED
        BY <3>3, <4>3, <4>4 DEF TellsAll
    <3>10. CASE cast.type = "ROI_BEGIN"
      <4>1. told' = told /\ cast'.type # "FINISH" /\ (told = Clients \/ told = {})
        BY <3>2, <3>3, <3>6, <3>10 DEF TellsAll, NoCast
      <4>2. \A w \in Workers : wpc'[w] = "returned" => wpc[w] = "returned"
        <5>1. \A w \in Workers : wpc[w] # "finish"
          BY <3>10 DEF CastInv
        <5>2. QED
          BY <2>0, <2>8, <5>1 DEF Cast
      <4>3. TellsAll!2' /\ TellsAll!3'
        BY <4>1 DEF TellsAll
      <4>4. TellsAll!4'
        BY <2>8, <3>3, <3>9, <4>1, <4>2 DEF TellsAll
      <4>5. QED
        BY <3>8, <4>3, <4>4 DEF TellsAll
    <3>11. CASE cast.type = "FINISH"
      <4>1. told' = told \cup {c}
        BY <3>2, <3>11
      <4>2. \A i \in 1..cast.next : slots[i] \in told'
        <5>1. \A i \in 1..(cast.next - 1) : slots[i] \in told
          BY <3>3, <3>11 DEF TellsAll
        <5>2. \A i \in 1..cast.next : i \in 1..(cast.next - 1) \/ i = cast.next
          BY <3>4
        <5>3. QED
          BY <3>0, <4>1, <5>1, <5>2
      <4>3. told' = Clients \/ \A d \in told' : \E i \in 1..cast.next : slots[i] = d
        <5>1. CASE told = Clients
          BY <4>1, <5>1
        <5>2. CASE \A d \in told : \E i \in 1..(cast.next - 1) : slots[i] = d
          <6>1. \A i \in 1..(cast.next - 1) : i \in 1..cast.next
            BY <3>4
          <6>2. cast.next \in 1..cast.next
            BY <3>5
          <6>3. QED
            BY <3>0, <4>1, <5>2, <6>1, <6>2
        <5>3. QED
          BY <3>3, <5>1, <5>2 DEF TellsAll
      <4>4. CASE cast' = NoCast /\ cast.next = cast.end
        <5>1. \A d \in Clients : d \in told'
          <6>1. \A d \in Clients : client[d] \in Gone => d \in told'
            BY <3>3, <4>1 DEF TellsAll
          <6>2. \A d \in Clients : Listed(d) => d \in told'
            BY <3>5, <4>2, <4>4 DEF Listed
          <6>3. QED
            BY <6>1, <6>2 DEF ListInv
        <5>2. told' = Clients
          BY <3>4, <4>1, <5>1
        <5>3. cast'.type # "FINISH"
          BY <4>4 DEF NoCast
        <5>4. TellsAll!2' /\ TellsAll!3' /\ TellsAll!4'
          BY <5>2, <5>3 DEF TellsAll
        <5>5. QED
          BY <3>8, <5>4 DEF TellsAll
      <4>5. CASE cast'.type = cast.type /\ cast'.next = cast.next + 1
        <5>1. 1..(cast'.next - 1) = 1..cast.next
          BY <3>4, <4>5
        <5>2. TellsAll!2' /\ TellsAll!3'
          BY <3>2, <3>11, <4>2, <4>3, <4>5, <5>1 DEF TellsAll
        <5>3. wpc' = wpc
          BY <2>8, <3>11, <4>5 DEF Cast, NoCast
        <5>4. told = Clients => told' = Clients
          BY <4>1
        <5>5. TellsAll!4'
          BY <2>8, <3>3, <3>9, <5>3, <5>4 DEF TellsAll
        <5>6. QED
          BY <3>8, <5>2, <5>5 DEF TellsAll
      <4>6. QED
        BY <3>6, <4>4, <4>5
    <3>12. QED
      BY <3>4, <3>10, <3>11 DEF NoticeTypes
  <2>9. CASE Finish /\ server = "up"
    <3>1. SUFFICES ASSUME raced' = "no", Lost' = {}
                   PROVE  TellsAll'
      BY DEF FinishInv
    <3>2. /\ cast'.next = 1
          /\ \A w \in Workers : wpc[w] = "done" /\ wpc'[w] = "finish"
          /\ UNCHANGED <<client, notices, slots, server, told, raced>>
      BY <2>9 DEF Finish, Broadcast, listVars
    <3>3. TellsAll
      BY <3>1, <3>2, GoneStays DEF FinishInv
    <3>4. cast = NoCast
      BY <3>2 DEF CastInv, sendLockFree
    <3>5. told = Clients \/ told = {}
      BY <3>3, <3>4 DEF TellsAll, NoCast
    <3>6. \A c : Coming(c, "FINISH")' <=> Coming(c, "FINISH")
      BY <3>2 DEF Coming
    <3>7. 1..(cast'.next - 1) = {}
      BY <3>2
    <3>8. TellsAll!1' /\ TellsAll!4'
      BY <2>9, <3>2, <3>3, <3>6 DEF TellsAll
    <3>9. TellsAll!2' /\ TellsAll!3'
      BY <3>2, <3>5, <3>7 DEF TellsAll
    <3>10. QED
      BY <3>8, <3>9 DEF TellsAll
  <2>10. CASE Return /\ server = "up"
    <3>1. SUFFICES ASSUME raced' = "no", Lost' = {}
                   PROVE  TellsAll'
      BY DEF FinishInv
    <3>2. /\ \A w \in Workers : wpc[w] = "returned"
          /\ UNCHANGED <<client, notices, slots, cast, told, raced>>
      BY <2>10 DEF Return, listVars
    <3>3. TellsAll
      BY <3>1, <3>2, GoneStays DEF FinishInv
    <3>4. told = Clients
      BY <2>10, <3>2, <3>3, NetworkedServerAssumption DEF TellsAll
    <3>5. \A c : Coming(c, "FINISH")' <=> Coming(c, "FINISH")
      BY <3>2 DEF Coming
    <3>6. QED
      BY <3>2, <3>3, <3>4, <3>5 DEF TellsAll
  <2>11. ASSUME NEW w \in Workers, RecvReqExits(w), server = "up"
         PROVE  FinishInv'
    <3>1. SUFFICES ASSUME raced' = "no", Lost' = {}
                   PROVE  TellsAll'
      BY DEF FinishInv
    <3>2. /\ server' = "cutShort" => client[Chosen] \in Gone
          /\ server' \in {"cutShort", "misread"}
          /\ UNCHANGED <<client, notices, slots, wpc, cast, told, raced>>
      BY <2>11 DEF RecvReqExits, listVars, workVars
    <3>3. TellsAll
      BY <3>1, <3>2, GoneStays DEF FinishInv
    <3>4. \A c : Coming(c, "FINISH")' <=> Coming(c, "FINISH")
      BY <3>2 DEF Coming
    <3>5. TellsAll!1' /\ TellsAll!2' /\ TellsAll!3'
      BY <3>2, <3>3, <3>4 DEF TellsAll
    <3>6. (\E u \in Workers : wpc'[u] = "returned") => told = Clients
      BY <2>11, <3>2, <3>3 DEF TellsAll
    <3>7. server' = "cutShort" => told = Clients \/ cast.type = "FINISH"
      <4>1. \E i \in 1..size : slots[i] = Chosen
        BY <2>11, TheChosen, Round, List DEF RecvReqExits
      <4>2. Chosen \in Clients
        BY <4>1, List
      <4>3. QED
        BY <3>2, <3>3, <4>2 DEF TellsAll
    <3>8. TellsAll!4'
      BY <3>2, <3>6, <3>7 DEF TellsAll
    <3>9. QED
      BY <3>5, <3>8 DEF TellsAll
  <2>12. QED
    BY <2>1, <2>2, <2>3, <2>4, <2>5, <2>6, <2>7, <2>8, <2>9, <2>10, <2>11
    DEF Next, Client, Worker, Main, Ended
<1>3. QED
  BY <1>1, <1>2, RoiInvHolds, CastInvHolds, PTL DEF Spec

(***************************************************************************)
(* For any number of clients and workers, the server ends before it has    *)
(* sent FINISH to every client only if it lost one in INIT, erased one     *)
(* during a broadcast, misread a request, or read half a request of a      *)
(* client that left while the others were being told.                      *)
(***************************************************************************)
THEOREM FinishReachesAllHolds == Spec => []FinishReachesAll
<1>1. FinishInv => FinishReachesAll
  BY DEF FinishInv, TellsAll, FinishReachesAll
<1>2. QED
  BY <1>1, FinishInvHolds, PTL

----------------------------------------------------------------------------------
(***************************************************************************)
(* Twice the goes that may pass a client over until the list has s clients *)
(* and it is the next: twice (NumClients - 1) + ... + (s - 1).             *)
(***************************************************************************)
Bound(s) == NumClients * (NumClients - 1) - (s - 1) * (s - 2)

\* A list shorter by one allows a round more of its new length.
LEMMA Bounds ==
  ASSUME NEW s \in 1..NumClients
  PROVE  /\ Bound(s) \in Int
         /\ 2 * (s - 1) <= Bound(s)
         /\ Bound(s - 1) = Bound(s) + 2 * (s - 2)
         /\ Bound(s) <= NumClients * (NumClients - 1)
         /\ Bound(NumClients) = 2 * (NumClients - 1)
<1>0. NumClients \in Nat /\ NumClients > 0 /\ s \in Nat /\ s <= NumClients /\ s > 0
  BY NetworkedServerAssumption
<1>1. Bound(s) \in Int /\ Bound(s - 1) = Bound(s) + 2 * (s - 2)
  BY <1>0 DEF Bound
<1>2. Bound(NumClients) = 2 * (NumClients - 1)
  BY <1>0 DEF Bound
<1>3. (s - 1) * (s - 2) >= 0
  <2>1. CASE s = 1
    BY <1>0, <2>1
  <2>2. CASE s > 1
    BY <1>0, <2>2
  <2>3. QED
    BY <1>0, <2>1, <2>2
<1>4. Bound(s) <= NumClients * (NumClients - 1)
  BY <1>0, <1>3 DEF Bound
<1>5. 2 * (s - 1) <= Bound(s)
  <2>1. (NumClients - s) * (NumClients + s - 1) >= 0
    BY <1>0
  <2>2. Bound(s) - 2 * (s - 1) = (NumClients - s) * (NumClients + s - 1)
    BY <1>0 DEF Bound
  <2>3. QED
    BY <1>0, <1>1, <2>1, <2>2
<1>6. QED
  BY <1>1, <1>2, <1>4, <1>5

(***************************************************************************)
(* A client that was passed over is nearer to its turn by as much, but for *)
(* what erasing other clients may have cost it.                            *)
(***************************************************************************)
WaitInv ==
  /\ \A c \in Clients : bypassed[c] # 0 => Listed(c)
  /\ \A p \in 0..(size - 1) : 2 * (bypassed[slots[Place(p)]] + p) <= Bound(size)

\* The client in turn is never passed over.
LEMMA InTurn ==
  ASSUME TypeOK, NEW w \in Workers, RecvReq(w), NEW c \in Clients, Passed(c)
  PROVE  size > 1 /\ c # slots[Place(0)]
<1>0. size \in Nat /\ size > 0
  BY List, Receiving
<1>1. PICK q \in 0..(size - 1) :
        /\ Chosen = slots[Place(q)] /\ Readable(Chosen)
        /\ \A p \in 0..(size - 1) : Readable(slots[Place(p)]) => q <= p
  BY <1>0, TheChosen DEF RecvReq
<1>2. c # Chosen /\ Readable(c) /\ \E i \in 1..size : slots[i] = c
  BY DEF Passed
<1>3. c # slots[Place(0)]
  <2>1. SUFFICES ASSUME c = slots[Place(0)]
                 PROVE  FALSE
    OBVIOUS
  <2>2. 0 \in 0..(size - 1)
    BY <1>0
  <2>3. q <= 0
    BY <1>1, <1>2, <2>1, <2>2
  <2>4. q = 0
    BY <1>0, <2>3
  <2>5. QED
    BY <1>1, <1>2, <2>1, <2>4
<1>4. size # 1
  <2>1. SUFFICES ASSUME size = 1
                 PROVE  FALSE
    OBVIOUS
  <2>2. q = 0 /\ \A i \in 1..size : i = 1
    BY <2>1
  <2>3. Place(0) \in 1..size
    BY <1>0, <2>1, Round
  <2>4. QED
    BY <1>1, <1>2, <2>2, <2>3
<1>5. QED
  BY <1>0, <1>3, <1>4

\* One place nearer, when the head has moved on from h.
LEMMA Nearer ==
  ASSUME NEW s \in Nat, s > 1, NEW h \in 0..s, NEW p \in 0..(s - 1),
         NEW g, g = IF h + 1 < s THEN h + 1 ELSE h + 1 - s
  PROVE  LET place == IF g + p < s THEN g + p + 1 ELSE g + p + 1 - s
         IN /\ p + 1 = s => place = IF h < s THEN h + 1 ELSE h + 1 - s
            /\ p + 1 < s =>
                 place = IF h + (p + 1) < s THEN h + (p + 1) + 1 ELSE h + (p + 1) + 1 - s
<1>1. g \in Nat /\ p \in Nat /\ h \in Nat
  OBVIOUS
<1>2. QED
  BY <1>1

\* A place of the round is in the list.
LEMMA InList ==
  ASSUME NEW s \in Nat, NEW g \in Nat, g <= s, NEW p \in Nat, p < s,
         NEW n \in Nat, s <= n
  PROVE  (IF g + p < s THEN g + p + 1 ELSE g + p + 1 - s) \in 1..n
  OBVIOUS

\* The inductive form of WaitBounded.
THEOREM WaitInvHolds == Spec => [](TypeOK /\ ListInv /\ WaitInv)
<1>1. Init => WaitInv
  <2> SUFFICES ASSUME Init
               PROVE  WaitInv
    OBVIOUS
  <2>0. NumClients \in Nat /\ NumClients \in 1..NumClients
    BY NetworkedServerAssumption
  <2>1. /\ size = NumClients /\ recvClientHead = 0
        /\ \A i \in 1..NumClients : slots[i] \in Clients
        /\ \A c \in Clients : bypassed[c] = 0
    BY DEF Init, Clients
  <2>2. ASSUME NEW p \in 0..(size - 1)
        PROVE  2 * (bypassed[slots[Place(p)]] + p) <= Bound(size)
    <3>1. Place(p) \in 1..NumClients
      BY <2>0, <2>1 DEF Place
    <3>2. bypassed[slots[Place(p)]] = 0
      BY <2>1, <3>1
    <3>3. 2 * p <= 2 * (size - 1)
      BY <2>0, <2>1
    <3>4. Bound(size) \in Int /\ 2 * (size - 1) <= Bound(size)
      BY <2>0, <2>1, Bounds
    <3>5. QED
      BY <2>0, <2>1, <3>2, <3>3, <3>4
  <2>3. QED
    BY <2>1, <2>2 DEF WaitInv
<1>2. TypeOK /\ TypeOK' /\ ListInv /\ WaitInv /\ [Next]_vars => WaitInv'
  <2> SUFFICES ASSUME TypeOK, TypeOK', ListInv, WaitInv, [Next]_vars
               PROVE  WaitInv'
    OBVIOUS
  <2>1. CASE UNCHANGED <<slots, size, recvClientHead, bypassed>>
    <3>1. \A p : Place(p)' = Place(p)
      BY <2>1 DEF Place
    <3>2. \A c : Listed(c)' <=> Listed(c)
      BY <2>1 DEF Listed
    <3>3. QED
      BY <2>1, <3>1, <3>2 DEF WaitInv
  <2>2. ASSUME NEW w \in Workers, RecvReq(w)
        PROVE  WaitInv'
    <3>0. /\ NumClients \in Nat /\ size \in 1..NumClients /\ size \in Nat
          /\ recvClientHead \in 0..size
          /\ slots \in [1..NumClients -> Clients]
          /\ bypassed \in [Clients -> Nat]
          /\ size' \in Nat /\ slots' \in [1..NumClients -> Clients]
      BY <2>2, List, Receiving DEF TypeOK
    <3>1. /\ recvClientHead' \in 0..(size - 1)
          /\ size > 1 => recvClientHead' = IF recvClientHead + 1 < size THEN recvClientHead + 1
                                           ELSE recvClientHead + 1 - size
          /\ bypassed' = [c \in Clients |-> IF Passed(c) THEN bypassed[c] + 1 ELSE 0]
          /\ Receives(w) \/ Erases(w)
      BY <2>2, Receiving
    <3>2. /\ recvClientHead \in Nat /\ recvClientHead <= size /\ size > 0
          /\ recvClientHead' \in Nat /\ recvClientHead' < size /\ recvClientHead' <= size
          /\ size > 1 => recvClientHead' = IF recvClientHead + 1 < size THEN recvClientHead + 1
                                           ELSE recvClientHead + 1 - size
      BY <3>0, <3>1
    <3>3. ASSUME NEW p \in Nat
          PROVE  Place(p)' = IF recvClientHead' + p < size' THEN recvClientHead' + p + 1
                                                           ELSE recvClientHead' + p + 1 - size'
      BY DEF Place
    <3>4. \A c \in Clients : bypassed'[c] # 0 => Passed(c) /\ bypassed'[c] = bypassed[c] + 1
      BY <3>1
    <3>5. \A c \in Clients : Passed(c) => size > 1 /\ c # slots[Place(0)] /\ Listed(c)
      BY <2>2, InTurn DEF Passed, Listed
    <3>6. /\ Bound(size) \in Int
          /\ 2 * (size - 1) <= Bound(size)
          /\ Bound(size - 1) = Bound(size) + 2 * (size - 2)
      BY <3>0, Bounds
    <3>7. CASE Receives(w)
      <4>0. size' = size /\ slots' = slots
        BY <3>7 DEF Receives
      <4>1. \A c \in Clients : bypassed'[c] # 0 => Listed(c)'
        BY <3>4, <3>5, <4>0 DEF Listed
      <4>2. ASSUME NEW p \in 0..(size - 1), NEW c \in Clients, c = slots[Place(p)']
            PROVE  2 * (bypassed'[c] + p) <= Bound(size)
        <5>1. CASE bypassed'[c] = 0
          BY <3>0, <3>6, <5>1
        <5>2. CASE bypassed'[c] # 0
          <6>1. /\ size > 1 /\ c # slots[Place(0)] /\ bypassed'[c] = bypassed[c] + 1
            BY <3>4, <3>5, <5>2
          <6>2. /\ p + 1 = size => Place(p)' = IF recvClientHead < size THEN recvClientHead + 1
                                                           ELSE recvClientHead + 1 - size
                /\ p + 1 < size => Place(p)' =
                     IF recvClientHead + (p + 1) < size THEN recvClientHead + (p + 1) + 1
                                                        ELSE recvClientHead + (p + 1) + 1 - size
            <7>1. Place(p)' = IF recvClientHead' + p < size THEN recvClientHead' + p + 1
                                                           ELSE recvClientHead' + p + 1 - size
              BY <3>0, <3>3, <4>0
            <7>2. /\ size \in Nat /\ size > 1 /\ recvClientHead \in 0..size
                  /\ recvClientHead' = IF recvClientHead + 1 < size THEN recvClientHead + 1
                                       ELSE recvClientHead + 1 - size
              BY <3>0, <3>2, <6>1
            <7>3. LET g == recvClientHead'
                      place == IF g + p < size THEN g + p + 1 ELSE g + p + 1 - size
                  IN /\ p + 1 = size => place = IF recvClientHead < size THEN recvClientHead + 1
                                                 ELSE recvClientHead + 1 - size
                     /\ p + 1 < size => place =
                          IF recvClientHead + (p + 1) < size THEN recvClientHead + (p + 1) + 1
                                                        ELSE recvClientHead + (p + 1) + 1 - size
              BY <7>2, Nearer
            <7>4. QED
              BY <7>1, <7>3
          <6>3. CASE p + 1 = size
            <7>1. Place(p)' = Place(0)
              <8>1. Place(0) = IF recvClientHead < size THEN recvClientHead + 1
                                                        ELSE recvClientHead + 1 - size
                BY <3>2 DEF Place
              <8>2. QED
                BY <4>0, <6>2, <6>3, <8>1
            <7>2. QED
              BY <4>2, <6>1, <7>1
          <6>4. CASE p + 1 < size
            <7>1. Place(p)' = Place(p + 1) /\ p + 1 \in 0..(size - 1)
              <8>1. Place(p + 1) =
                      IF recvClientHead + (p + 1) < size THEN recvClientHead + (p + 1) + 1
                                                         ELSE recvClientHead + (p + 1) + 1 - size
                BY DEF Place
              <8>2. p + 1 \in 0..(size - 1)
                BY <3>0, <6>4
              <8>3. QED
                BY <4>0, <6>2, <6>4, <8>1, <8>2
            <7>2. 2 * (bypassed[c] + (p + 1)) <= Bound(size)
              BY <4>2, <7>1 DEF WaitInv
            <7>3. bypassed[c] \in Nat
              BY <3>0
            <7>4. QED
              BY <3>0, <3>6, <6>1, <7>2, <7>3
          <6>5. QED
            BY <3>0, <6>3, <6>4
        <5>3. QED
          BY <5>1, <5>2
      <4>3. \A p \in 0..(size - 1) : slots[Place(p)'] \in Clients
        <5>1. ASSUME NEW p \in 0..(size - 1)
              PROVE  Place(p)' \in 1..NumClients
          <6>1. /\ p \in Nat /\ p < size /\ size <= NumClients /\ NumClients \in Nat /\ size \in Nat
            BY <3>0
          <6>2. (IF recvClientHead' + p < size THEN recvClientHead' + p + 1
                                               ELSE recvClientHead' + p + 1 - size)
                  \in 1..NumClients
            BY <3>2, <6>1, InList
          <6>3. QED
            BY <3>3, <4>0, <6>1, <6>2
        <5>2. QED
          BY <3>0, <5>1
      <4>4. \A p \in 0..(size' - 1) : 2 * (bypassed'[slots'[Place(p)']] + p) <= Bound(size')
        BY <4>0, <4>2, <4>3
      <4>5. QED
        BY <4>1, <4>4 DEF WaitInv
    <3>8. CASE Erases(w)
      <4>0. size' = size - 1
        BY <3>8 DEF Erases
      <4>1. \A c \in Clients : bypassed'[c] # 0 => Listed(c)'
        BY <3>4, <3>5, <3>8, Erased DEF Passed
      <4>2. ASSUME NEW p \in 0..(size - 2), NEW c \in Clients
            PROVE  2 * (bypassed'[c] + p) <= Bound(size - 1)
        <5>0. size - 1 \in 1..NumClients
          BY <3>0
        <5>1. CASE bypassed'[c] = 0
          <6>1. Bound(size - 1) \in Int /\ 2 * ((size - 1) - 1) <= Bound(size - 1)
            BY <5>0, Bounds
          <6>2. QED
            BY <3>0, <5>1, <6>1
        <5>2. CASE bypassed'[c] # 0
          <6>1. /\ c # slots[Place(0)] /\ Listed(c) /\ bypassed'[c] = bypassed[c] + 1
            BY <3>4, <3>5, <5>2
          <6>2. PICK i \in 1..size : slots[i] = c
            BY <6>1 DEF Listed
          <6>3. PICK o \in 0..(size - 1) : Place(o) = i
            BY <3>0, Round
          <6>4. o # 0
            BY <6>1, <6>2, <6>3
          <6>5. 2 * (bypassed[c] + o) <= Bound(size)
            BY <6>2, <6>3 DEF WaitInv
          <6>6. bypassed[c] \in Nat
            BY <3>0
          <6>7. size \in Nat /\ o \in Nat /\ o >= 1 /\ p \in Nat /\ p <= size - 2
            BY <3>0, <6>4
          <6>8. 2 * (bypassed[c] + 1) <= Bound(size)
            BY <3>6, <6>5, <6>6, <6>7
          <6>9. QED
            BY <3>6, <6>1, <6>6, <6>7, <6>8
        <5>3. QED
          BY <5>1, <5>2
      <4>3. \A p \in 0..(size' - 1) : slots'[Place(p)'] \in Clients
        <5>1. ASSUME NEW p \in 0..(size' - 1)
              PROVE  Place(p)' \in 1..NumClients
          <6>1. /\ p \in Nat /\ p < size' /\ recvClientHead' <= size'
                /\ size' <= NumClients
            BY <3>0, <3>2, <4>0
          <6>2. size' \in Nat /\ recvClientHead' \in Nat /\ NumClients \in Nat
            BY <3>0, <3>2
          <6>3. (IF recvClientHead' + p < size' THEN recvClientHead' + p + 1
                                                ELSE recvClientHead' + p + 1 - size')
                  \in 1..NumClients
            BY <6>1, <6>2, InList
          <6>4. QED
            BY <3>3, <6>1, <6>3
        <5>2. QED
          BY <3>0, <5>1
      <4>4. \A p \in 0..(size' - 1) : 2 * (bypassed'[slots'[Place(p)']] + p) <= Bound(size')
        <5>1. size' - 1 = size - 2
          BY <3>0, <4>0
        <5>2. QED
          BY <4>0, <4>2, <4>3, <5>1
      <4>5. QED
        BY <4>1, <4>4 DEF WaitInv
    <3>9. QED
      BY <3>1, <3>7, <3>8
  <2>3. QED
    BY <2>1, <2>2
    DEF Next, Client, Worker, Main, Ended, ClientSend, ClientAct, Loop, RecvReqExits, SendResp,
        Processed, Cast, Finish, Return, vars, listVars
<1>3. QED
  BY <1>1, <1>2, TypeCorrect, ListInvHolds, PTL DEF Spec

(***************************************************************************)
(* recvReq is fair: with any number of clients a readable one is passed    *)
(* over at most once for each other client while the list is whole, and    *)
(* never more often than a round of each length down to 1 allows.          *)
(***************************************************************************)
THEOREM WaitBoundedHolds == Spec => []WaitBounded
<1>1. TypeOK /\ WaitInv => WaitBounded
  <2> SUFFICES ASSUME TypeOK, WaitInv, NEW c \in Clients
               PROVE  bypassed[c] <= IF size = NumClients THEN NumClients - 1
                                     ELSE (NumClients * (NumClients - 1)) \div 2
    BY DEF WaitBounded
  <2> DEFINE all == NumClients * (NumClients - 1)
  <2>0. bypassed[c] \in Nat /\ NumClients \in Nat /\ NumClients > 0
    BY List DEF TypeOK
  <2>1. all \in Nat
    BY <2>0
  <2>2. /\ 2 * bypassed[c] <= all
        /\ size = NumClients => bypassed[c] <= NumClients - 1
    <3>1. CASE bypassed[c] = 0
      BY <2>0, <2>1, <3>1
    <3>2. CASE bypassed[c] # 0
      <4>1. PICK i \in 1..size : slots[i] = c
        BY <3>2 DEF WaitInv, Listed
      <4>2. size \in 1..NumClients
        BY <4>1, List
      <4>3. PICK p \in 0..(size - 1) : Place(p) = i
        BY <4>2, Round
      <4>4. 2 * (bypassed[c] + p) <= Bound(size)
        BY <4>1, <4>3 DEF WaitInv
      <4>5. /\ Bound(size) \in Int /\ Bound(size) <= all
            /\ Bound(NumClients) = 2 * (NumClients - 1)
        BY <4>2, Bounds
      <4> HIDE DEF all
      <4>6. p \in Nat
        BY <4>2
      <4>7. QED
        BY <2>0, <2>1, <4>4, <4>5, <4>6
    <3>3. QED
      BY <3>1, <3>2
  <2> HIDE DEF all
  <2>3. bypassed[c] <= all \div 2
    BY <2>0, <2>1, <2>2
  <2>4. QED
    BY <2>2, <2>3 DEF all
<1>2. QED
  BY <1>1, WaitInvHolds, PTL
==================================================================================
