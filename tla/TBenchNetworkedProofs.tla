-------------------------- MODULE TBenchNetworkedProofs --------------------------
(***************************************************************************)
(* TLAPS proofs about the networked TailBench harness, for every finite    *)
(* number of senders, receivers and server threads and every value of the  *)
(* limits.                                                                 *)
(***************************************************************************)
EXTENDS TBenchNetworked, FiniteSetTheorems, FunctionTheorems,
        SequenceTheorems, TLAPS

USE DEF At, Goto

Labels ==
  {"test", "startReq", "barrier1", "init", "barrier2", "newReq", "send", "ended"}
ServerLabels == {"loop", "recv", "serve", "processed", "done", "joined"}
Msg == [type : {"RESPONSE", "ROI_BEGIN", "FINISH"}, id : Nat]

TypeOK ==
  /\ ClientTypeOK
  /\ pc \in [Threads -> Labels]
  /\ out \in [Threads -> Nat]
  /\ toServer \in Seq(Nat)
  /\ toClient \in Seq(Msg)
  /\ held \in [Receivers -> Msg \cup {NoMsg}]
  /\ spc \in [Servers -> ServerLabels]
  /\ reqInfo \in [Servers -> Nat]
  /\ finishedReqs \in Nat
  /\ numReqsProcessed \in Nat
  /\ lats \in Nat \cup {NoFile}
  /\ turn \in Seq(Receivers)
  /\ overtaken \in {"yes", "no"}

\* What is appended to the connection is a sequence of messages.
LEMMA Messages ==
  /\ NoMsg \notin Msg
  /\ \A n \in Nat : Response(n) \in Msg
  /\ \A n \in Nat : Notices(n) \in Seq(Msg) /\ Len(Notices(n)) \in {0, 1}
  /\ Control("FINISH") \in Msg /\ Control("ROI_BEGIN") \in Msg
<1>1. NoMsg \notin Msg /\ \A n \in Nat : Response(n) \in Msg
  BY DEF NoMsg, Response, Msg
<1>2. Control("FINISH") \in Msg /\ Control("ROI_BEGIN") \in Msg
  BY DEF Control, Msg
<1>3. \A n \in Nat : Notices(n) \in Seq(Msg) /\ Len(Notices(n)) \in {0, 1}
  BY <1>2 DEF Notices
<1>4. QED
  BY <1>1, <1>2, <1>3

\* Every variable of the two processes keeps its type.
THEOREM TypeCorrect == Spec => []TypeOK
<1>1. Init => TypeOK
  BY Messages DEF Init, ClientInit, TypeOK, ClientTypeOK, ClientStatus, Labels,
                  ServerLabels, NoFile
<1>2. TypeOK /\ [Next]_vars => TypeOK'
  <2> SUFFICES ASSUME TypeOK, [Next]_vars
               PROVE  TypeOK'
    OBVIOUS
  <2> USE DEF TypeOK, ClientTypeOK, ClientStatus, Labels, ServerLabels, NoFile
  <2>1. CASE UNCHANGED vars
    BY <2>1 DEF vars, clientVars, serverVars
  <2>2. ASSUME NEW t \in Threads,
               TestInFlight(t) \/ ClientSend(t) \/ ClientSendFails(t)
        PROVE  TypeOK'
    <3>1. pc' \in [Threads -> Labels]
      <4>1. pc \in [Threads -> Labels]
        OBVIOUS
      <4>2. \/ \E l \in {"startReq", "test", "ended"} : Goto(t, l)
            \/ UNCHANGED pc
        BY <2>2 DEF TestInFlight, ClientSend, ClientSendFails
      <4> HIDE DEF TypeOK
      <4>3. QED
        BY <4>1, <4>2
    <3>2. toServer' \in Seq(Nat)
      <4>1. toServer \in Seq(Nat) /\ out[t] \in Nat
        OBVIOUS
      <4>2. toServer' \in {toServer, Append(toServer, out[t])}
        BY <2>2 DEF TestInFlight, ClientSend, ClientSendFails
      <4> HIDE DEF TypeOK
      <4>3. QED
        BY <4>1, <4>2
    <3>3. QED
      BY <2>2, <3>1, <3>2 DEF TestInFlight, ClientSend, ClientSendFails, serverVars,
                              connVars, historyVars
  <2>3. ASSUME NEW t \in Threads, ClientStartReq(t)
        PROVE  TypeOK'
    <3>1. UNCHANGED <<toServer, toClient, held, serverVars, lats, historyVars>>
      BY <2>3 DEF ClientStartReq
    <3>2. out' \in [Threads -> Nat]
      BY <2>3 DEF ClientStartReq
    <3>3. ASSUME ClientTypeOK', pc' \in [Threads -> Labels]
          PROVE  TypeOK'
      BY <3>1, <3>2, <3>3 DEF serverVars, historyVars
    <3>4. CASE EnterStartReq(t)
      BY <3>3, <3>4 DEF EnterStartReq, BarrierArrive
    <3>5. CASE LeaveBarrier1(t)
      BY <3>3, <3>5 DEF LeaveBarrier1, BarrierLeave
    <3>6. CASE InitOnce(t)
      BY <3>3, <3>6 DEF InitOnce, CreateDist, BarrierArrive
    <3>7. CASE LeaveBarrier2(t)
      BY <3>3, <3>7 DEF LeaveBarrier2, BarrierLeave
    <3>8. CASE NewReq(t, "send")
      BY <3>3, <3>8 DEF NewReq
    <3>9. QED
      BY <2>3, <3>4, <3>5, <3>6, <3>7, <3>8 DEF ClientStartReq, StartReq
  <2>4. ASSUME NEW r \in Receivers, ClientRecv(r)
        PROVE  TypeOK'
    <3>1. held' \in [Receivers -> Msg \cup {NoMsg}] /\ toClient' \in Seq(Msg)
      BY <2>4, HeadTailProperties DEF ClientRecv
    <3>2. turn' \in Seq(Receivers)
      BY <2>4 DEF ClientRecv
    <3>3. QED
      BY <2>4, <3>1, <3>2 DEF ClientRecv, clientVars, serverVars
  <2>5. ASSUME NEW r \in Receivers, ClientRecvFails(r)
        PROVE  TypeOK'
    BY <2>5 DEF ClientRecvFails, clientVars, serverVars, historyVars
  <2>6. ASSUME NEW r \in Receivers, ClientAct(r)
        PROVE  TypeOK'
    <3>1. held' \in [Receivers -> Msg \cup {NoMsg}]
      BY <2>6, Messages DEF ClientAct
    <3>2. overtaken' \in {"yes", "no"}
      BY <2>6 DEF ClientAct
    <3>3. turn' \in Seq(Receivers)
      <4>1. turn' = <<>> \/ (turn # <<>> /\ turn' = Tail(turn))
        BY <2>6 DEF ClientAct
      <4>2. QED
        <5>1. turn \in Seq(Receivers)
          OBVIOUS
        <5> HIDE DEF TypeOK
        <5>2. QED
          BY <4>1, <5>1, HeadTailProperties, EmptySeq
    <3>4. /\ status' \in ClientStatus
          /\ samples' \in Nat
          /\ inFlightReqs' \subseteq Nat
          /\ lats' \in Nat \cup {NoFile}
      <4>1. /\ status \in ClientStatus /\ samples \in Nat
            /\ inFlightReqs \subseteq Nat /\ lats \in Nat \cup {NoFile}
        OBVIOUS
      <4> HIDE DEF TypeOK
      <4>2. inFlightReqs' \subseteq inFlightReqs /\ status' \in {status, "ROI"}
        BY <2>6 DEF ClientAct, FiniReq, StartRoi
      <4>3. samples' \in {0, samples, samples + 1} /\ lats' \in {lats, samples}
        BY <2>6 DEF ClientAct, FiniReq, StartRoi
      <4>4. QED
        BY <4>1, <4>2, <4>3
    <3>5. QED
      BY <2>6, <3>1, <3>2, <3>3, <3>4 DEF ClientAct, serverVars
  <2>7. ASSUME NEW s \in Servers, ServerLoop(s) \/ Processed(s)
        PROVE  TypeOK'
    <3>1. spc' \in [Servers -> ServerLabels] /\ numReqsProcessed' \in Nat
      <4>1. spc \in [Servers -> ServerLabels] /\ numReqsProcessed \in Nat
        OBVIOUS
      <4> HIDE DEF TypeOK
      <4>2. QED
        BY <2>7, <4>1 DEF ServerLoop, Processed, serverVars
    <3>2. QED
      BY <2>7, <3>1 DEF ServerLoop, Processed, clientVars, historyVars
  <2>8. ASSUME NEW s \in Servers, RecvReq(s)
        PROVE  TypeOK'
    <3>1. reqInfo' \in [Servers -> Nat] /\ toServer' \in Seq(Nat)
      BY <2>8, HeadTailProperties DEF RecvReq
    <3>2. QED
      BY <2>8, <3>1 DEF RecvReq, clientVars, historyVars
  <2>9. ASSUME NEW s \in Servers, SendResp(s)
        PROVE  TypeOK'
    <3>1. toClient' \in Seq(Msg)
      <4>1. Response(reqInfo[s]) \in Msg /\ Notices(finishedReqs + 1) \in Seq(Msg)
        BY Messages
      <4>2. toClient \o <<Response(reqInfo[s])>> \in Seq(Msg)
        BY <4>1
      <4>3. QED
        BY <2>9, <4>1, <4>2, ConcatProperties DEF SendResp
    <3>2. QED
      BY <2>9, <3>1 DEF SendResp, clientVars, historyVars
  <2>10. CASE ServerFinish
    <3>1. toClient' \in Seq(Msg)
      BY <2>10, Messages DEF ServerFinish
    <3>2. QED
      BY <2>10, <3>1 DEF ServerFinish, clientVars, historyVars
  <2>11. CASE ServerReturn \/ ServerCrash
    BY <2>11 DEF ServerReturn, ServerCrash, clientVars, serverVars, historyVars
  <2>12. QED
    BY <2>1, <2>2, <2>3, <2>4, <2>5, <2>6, <2>7, <2>8, <2>9, <2>10, <2>11
    DEF Next, Sender, Receiver, Server, Ended
<1>3. QED
  BY <1>1, <1>2, PTL DEF Spec

----------------------------------------------------------------------------------
\* The connection to the client after a response: the response and, at most, one
\* notice are behind what was there.
LEMMA Answer ==
  ASSUME TypeOK, NEW s \in Servers, SendResp(s)
  PROVE  LET n == Len(toClient)
             k == Len(Notices(finishedReqs + 1))
         IN /\ n \in Nat /\ k \in {0, 1}
            /\ Len(toClient') = n + 1 + k
            /\ \A i \in 1..n : toClient'[i] = toClient[i]
            /\ toClient'[n + 1] = Response(reqInfo[s])
            /\ k = 1 => toClient'[n + 2] = Notices(finishedReqs + 1)[1]
<1> DEFINE n == Len(toClient)
           notes == Notices(finishedReqs + 1)
           a == toClient \o <<Response(reqInfo[s])>>
<1>1. /\ toClient \in Seq(Msg) /\ Response(reqInfo[s]) \in Msg
      /\ notes \in Seq(Msg) /\ Len(notes) \in {0, 1}
  <2>1. toClient \in Seq(Msg) /\ finishedReqs + 1 \in Nat /\ reqInfo[s] \in Nat
    BY DEF TypeOK
  <2>2. QED
    BY <2>1, Messages
<1>2. toClient' = a \o notes
  BY DEF SendResp
<1> HIDE DEF notes
<1>3. /\ a \in Seq(Msg) /\ Len(a) = n + 1 /\ n \in Nat
      /\ \A i \in 1..n : a[i] = toClient[i]
      /\ a[n + 1] = Response(reqInfo[s])
  BY <1>1
<1> HIDE DEF a
<1>4. /\ Len(a \o notes) = Len(a) + Len(notes)
      /\ \A i \in 1..Len(a) : (a \o notes)[i] = a[i]
      /\ Len(notes) = 1 => (a \o notes)[Len(a) + 1] = notes[1]
  BY <1>1, <1>3
<1>5. QED
  BY <1>1, <1>2, <1>3, <1>4 DEF notes

\* Taking the first message off a connection moves the others up.
LEMMA TakeFirst ==
  ASSUME NEW S, NEW c \in Seq(S), c # <<>>
  PROVE  /\ Len(c) \in Nat \ {0}
         /\ Len(Tail(c)) = Len(c) - 1
         /\ Head(c) = c[1]
         /\ \A i \in 1..Len(Tail(c)) : Tail(c)[i] = c[i + 1] /\ i + 1 \in 1..Len(c)
  BY HeadTailProperties

IsRoi(m) == m.type = "ROI_BEGIN"

\* There is no ROI_BEGIN on its way.
NoRoi ==
  /\ \A i \in 1..Len(toClient) : ~IsRoi(toClient[i])
  /\ \A r \in Receivers : ~IsRoi(held[r])

(***************************************************************************)
(* ROI_BEGIN is sent once, by the response that ends the warm-up, and is   *)
(* on its way, with a receiver, or acted on.                               *)
(***************************************************************************)
RoiInv ==
  /\ (finishedReqs = 0 \/ finishedReqs < WarmupReqs \/ WarmupReqs = 0)
       => NoRoi /\ status # "ROI"
  /\ status = "ROI" => NoRoi
  /\ \A i, j \in 1..Len(toClient) : IsRoi(toClient[i]) /\ IsRoi(toClient[j]) => i = j
  /\ \A q, r \in Receivers : IsRoi(held[q]) /\ IsRoi(held[r]) => q = r
  /\ \A i \in 1..Len(toClient), r \in Receivers : ~(IsRoi(toClient[i]) /\ IsRoi(held[r]))

\* The client hears ROI_BEGIN once: sendResp sends it with one response only.
THEOREM RoiInvHolds == Spec => [](TypeOK /\ RoiInv)
<1>1. Init => RoiInv
  BY DEF Init, ClientInit, RoiInv, NoRoi, IsRoi, NoMsg
<1>2. TypeOK /\ RoiInv /\ [Next]_vars => RoiInv'
  <2> SUFFICES ASSUME TypeOK, RoiInv, [Next]_vars
               PROVE  RoiInv'
    OBVIOUS
  <2>0. /\ toClient \in Seq(Msg) /\ held \in [Receivers -> Msg \cup {NoMsg}]
        /\ finishedReqs \in Nat /\ WarmupReqs \in Nat /\ MaxReqs \in Nat
    BY NetworkedAssumption DEF TypeOK
  <2>1. ASSUME UNCHANGED <<toClient, held, finishedReqs>>,
               status' = "ROI" => status = "ROI"
        PROVE  RoiInv'
    BY <2>1 DEF RoiInv, NoRoi
  <2>2. CASE UNCHANGED vars
    BY <2>1, <2>2 DEF vars, clientVars, serverVars
  <2>3. ASSUME NEW t \in Threads, Sender(t)
        PROVE  RoiInv'
    <3>1. UNCHANGED <<toClient, held, finishedReqs>>
      BY <2>3 DEF Sender, TestInFlight, ClientStartReq, ClientSend, ClientSendFails,
                  serverVars
    <3>2. status' = "ROI" => status = "ROI"
      BY <2>3 DEF Sender, TestInFlight, ClientStartReq, ClientSend, ClientSendFails,
                  StartReq, EnterStartReq, LeaveBarrier1, InitOnce, CreateDist,
                  LeaveBarrier2, NewReq
    <3>3. QED
      BY <2>1, <3>1, <3>2
  <2>4. ASSUME NEW r \in Receivers, ClientRecv(r)
        PROVE  RoiInv'
    <3>1. /\ toClient # <<>>
          /\ toClient' = Tail(toClient)
          /\ held' = [held EXCEPT ![r] = toClient[1]]
          /\ UNCHANGED <<finishedReqs, status>>
      BY <2>0, <2>4, TakeFirst DEF ClientRecv, clientVars, serverVars
    <3>2. /\ Len(toClient) \in Nat \ {0}
          /\ \A i \in 1..Len(toClient') :
               toClient'[i] = toClient[i + 1] /\ i + 1 \in 1..Len(toClient)
          /\ Len(toClient') \in Nat
      BY <2>0, <3>1, TakeFirst
    <3>3. 1 \in 1..Len(toClient) /\ \A i \in 1..Len(toClient') : i + 1 # 1
      BY <3>2
    <3>4. \A q \in Receivers : held'[q] = IF q = r THEN toClient[1] ELSE held[q]
      BY <2>0, <3>1
    <3>5. NoRoi => NoRoi'
      BY <3>2, <3>3, <3>4 DEF NoRoi
    <3>6. \A i, j \in 1..Len(toClient') :
            IsRoi(toClient'[i]) /\ IsRoi(toClient'[j]) => i = j
      BY <3>2 DEF RoiInv
    <3>7. \A q, u \in Receivers : IsRoi(held'[q]) /\ IsRoi(held'[u]) => q = u
      BY <3>3, <3>4 DEF RoiInv
    <3>8. \A i \in 1..Len(toClient'), q \in Receivers :
            ~(IsRoi(toClient'[i]) /\ IsRoi(held'[q]))
      BY <3>2, <3>3, <3>4 DEF RoiInv
    <3>9. QED
      BY <3>1, <3>5, <3>6, <3>7, <3>8 DEF RoiInv
  <2>5. ASSUME NEW r \in Receivers, ClientRecvFails(r)
        PROVE  RoiInv'
    BY <2>1, <2>5 DEF ClientRecvFails, clientVars, serverVars
  <2>6. ASSUME NEW r \in Receivers, ClientAct(r)
        PROVE  RoiInv'
    <3>1. UNCHANGED <<toClient, finishedReqs>>
      BY <2>6 DEF ClientAct, serverVars
    <3>2. \A q \in Receivers : held'[q] = IF q = r THEN NoMsg ELSE held[q]
      BY <2>0, <2>6 DEF ClientAct
    <3>3. ~IsRoi(NoMsg)
      BY DEF IsRoi, NoMsg
    <3>4. CASE held[r].type = "ROI_BEGIN"
      <4>1. NoRoi' /\ ~(finishedReqs = 0 \/ finishedReqs < WarmupReqs \/ WarmupReqs = 0)
        BY <3>1, <3>2, <3>3, <3>4 DEF RoiInv, NoRoi, IsRoi
      <4>2. QED
        BY <3>1, <4>1 DEF RoiInv, NoRoi
    <3>5. CASE held[r].type # "ROI_BEGIN"
      <4>1. UNCHANGED status
        BY <2>6, <3>5 DEF ClientAct
      <4>2. NoRoi => NoRoi'
        BY <3>1, <3>2, <3>3 DEF NoRoi
      <4>3. QED
        BY <3>1, <3>2, <3>3, <4>1, <4>2 DEF RoiInv
    <3>6. QED
      BY <3>4, <3>5
  <2>7. ASSUME NEW s \in Servers, ServerLoop(s) \/ Processed(s) \/ RecvReq(s)
        PROVE  RoiInv'
    BY <2>1, <2>7 DEF ServerLoop, Processed, RecvReq, clientVars
  <2>8. ASSUME NEW s \in Servers, SendResp(s)
        PROVE  RoiInv'
    <3> DEFINE n == Len(toClient)
               k == Len(Notices(finishedReqs + 1))
    <3>1. /\ n \in Nat /\ k \in {0, 1}
          /\ Len(toClient') = n + 1 + k
          /\ \A i \in 1..n : toClient'[i] = toClient[i]
          /\ toClient'[n + 1] = Response(reqInfo[s])
          /\ k = 1 => toClient'[n + 2] = Notices(finishedReqs + 1)[1]
      BY <2>8, Answer
    <3>2. finishedReqs' = finishedReqs + 1 /\ UNCHANGED <<held, status>>
      BY <2>8 DEF SendResp, clientVars
    <3>3. ~IsRoi(Response(reqInfo[s]))
      BY DEF IsRoi, Response
    <3>4. k = 1 /\ IsRoi(Notices(finishedReqs + 1)[1]) => finishedReqs + 1 = WarmupReqs
      BY DEF Notices, IsRoi, Control
    <3> HIDE DEF n, k
    <3>5. \A i \in 1..Len(toClient') :
            IsRoi(toClient'[i]) =>
              \/ i \in 1..n /\ IsRoi(toClient[i])
              \/ i = n + 2 /\ finishedReqs + 1 = WarmupReqs
      <4> SUFFICES ASSUME NEW i \in 1..Len(toClient'), IsRoi(toClient'[i])
                   PROVE  \/ i \in 1..n /\ IsRoi(toClient[i])
                          \/ i = n + 2 /\ finishedReqs + 1 = WarmupReqs
        OBVIOUS
      <4>1. i \in 1..n \/ i = n + 1 \/ (i = n + 2 /\ k = 1)
        BY <3>1
      <4>2. QED
        BY <3>1, <3>3, <3>4, <4>1
    <3>6. CASE finishedReqs + 1 = WarmupReqs
      <4>1. NoRoi /\ status # "ROI"
        BY <2>0, <3>6 DEF RoiInv
      <4>2. \A i \in 1..Len(toClient') : IsRoi(toClient'[i]) => i = n + 2
        BY <3>5, <4>1 DEF NoRoi, n
      <4>3. QED
        BY <2>0, <3>2, <3>6, <4>1, <4>2 DEF RoiInv, NoRoi
    <3>7. CASE finishedReqs + 1 # WarmupReqs
      <4>1. \A i \in 1..Len(toClient') : IsRoi(toClient'[i]) =>
              i \in 1..Len(toClient) /\ IsRoi(toClient[i])
        BY <3>5, <3>7 DEF n
      <4>2. NoRoi => NoRoi'
        BY <3>2, <4>1 DEF NoRoi
      <4>3. (finishedReqs' = 0 \/ finishedReqs' < WarmupReqs \/ WarmupReqs = 0) => NoRoi /\ status # "ROI"
        BY <2>0, <3>2 DEF RoiInv
      <4>4. QED
        BY <3>2, <4>1, <4>2, <4>3 DEF RoiInv
    <3>8. QED
      BY <3>6, <3>7
  <2>9. CASE ServerFinish
    <3>1. /\ toClient' = Append(toClient, Control("FINISH"))
          /\ UNCHANGED <<held, status, finishedReqs>>
      BY <2>9 DEF ServerFinish, clientVars
    <3>2. ~IsRoi(Control("FINISH"))
      BY DEF IsRoi, Control
    <3>3. \A i \in 1..Len(toClient') : IsRoi(toClient'[i]) =>
            i \in 1..Len(toClient) /\ IsRoi(toClient[i])
      <4>1. /\ Len(toClient) \in Nat /\ Len(toClient') = Len(toClient) + 1
            /\ \A i \in 1..Len(toClient) : toClient'[i] = toClient[i]
            /\ toClient'[Len(toClient) + 1] = Control("FINISH")
        BY <2>0, <3>1, Messages, AppendProperties
      <4>2. \A i \in 1..Len(toClient') : i \in 1..Len(toClient) \/ i = Len(toClient) + 1
        BY <4>1
      <4>3. QED
        BY <3>2, <4>1, <4>2
    <3>4. NoRoi => NoRoi'
      BY <3>1, <3>3 DEF NoRoi
    <3>5. QED
      BY <3>1, <3>3, <3>4 DEF RoiInv
  <2>10. CASE ServerReturn \/ ServerCrash
    BY <2>1, <2>10 DEF ServerReturn, ServerCrash, clientVars, serverVars
  <2>11. QED
    BY <2>2, <2>3, <2>4, <2>5, <2>6, <2>7, <2>8, <2>9, <2>10
    DEF Next, Receiver, Server, Ended
<1>3. QED
  BY <1>1, <1>2, TypeCorrect, PTL DEF Spec

----------------------------------------------------------------------------------
\* The start-up before the first barrier has opened, and after it has.
Gathering ==
  /\ released = {}
  /\ waiting = {t \in Threads : At(t, "barrier1")}
  /\ \A t \in Threads : pc[t] \in {"test", "startReq", "barrier1"}

Opened ==
  /\ waiting = {}
  /\ released = {t \in Threads : At(t, "barrier1")}
  /\ \A t \in Threads : pc[t] \in {"barrier1", "init"}

\* Nothing has reached the server.
Silence == toServer = <<>> /\ finishedReqs = 0 /\ \A s \in Servers : spc[s] # "serve"

(***************************************************************************)
(* The start-up, seen from both processes: as long as there is no dist the *)
(* threads gather at the first barrier or come out of it, the client is in *)
(* INIT, and no request has been sent.                                     *)
(***************************************************************************)
StartupInv ==
  /\ dist = "nullptr" => status = "INIT" /\ Silence /\ (Gathering \/ Opened)
  /\ dist # "nullptr" => status # "INIT" /\ \A t \in Threads : pc[t] # "barrier1"

\* A step of a sender that neither enters nor leaves the start-up.
LEMMA QuietMove ==
  ASSUME pc \in [Threads -> Labels], StartupInv, NEW t \in Threads,
         NEW l \in Labels \ {"barrier1"},
         pc[t] \notin {"barrier1", "init"},
         l \in {"test", "startReq"} \/ dist # "nullptr",
         Goto(t, l),
         Silence => Silence',
         UNCHANGED <<waiting, released, dist, status>>
  PROVE  StartupInv'
<1>1. CASE dist # "nullptr"
  BY <1>1 DEF StartupInv
<1>2. CASE dist = "nullptr"
  <2>1. Gathering
    BY <1>2 DEF StartupInv, Opened
  <2>2. Gathering'
    BY <1>2, <2>1 DEF Gathering
  <2>3. QED
    BY <1>2, <2>2 DEF StartupInv
<1>3. QED
  BY <1>1, <1>2

\* A step that leaves the senders and the barrier alone.
LEMMA QuietOthers ==
  ASSUME StartupInv,
         UNCHANGED <<pc, waiting, released, dist>>,
         UNCHANGED status \/ (status' # "INIT" /\ dist # "nullptr"),
         dist = "nullptr" => Silence'
  PROVE  StartupInv'
  BY DEF StartupInv, Gathering, Opened

\* The senders pass the two barriers of startReq together, around one initialisation.
THEOREM StartupInvHolds == Spec => [](TypeOK /\ RoiInv /\ StartupInv)
<1>1. Init => StartupInv
  BY DEF Init, ClientInit, StartupInv, Gathering, Silence
<1>2. TypeOK /\ RoiInv /\ StartupInv /\ [Next]_vars => StartupInv'
  <2> SUFFICES ASSUME TypeOK, RoiInv, StartupInv, [Next]_vars
               PROVE  StartupInv'
    OBVIOUS
  <2>0. pc \in [Threads -> Labels] /\ waiting \subseteq Threads
        /\ finishedReqs \in Nat /\ spc \in [Servers -> ServerLabels]
    BY DEF TypeOK, ClientTypeOK
  <2>1. CASE UNCHANGED vars
    BY <2>1, QuietOthers DEF vars, clientVars, serverVars, Silence, StartupInv
  <2>2. ASSUME NEW t \in Threads, TestInFlight(t)
        PROVE  StartupInv'
    BY <2>0, <2>2, QuietMove DEF TestInFlight, Labels, serverVars, Silence
  <2>3. ASSUME NEW t \in Threads, ClientStartReq(t)
        PROVE  StartupInv'
    <3>1. Silence => Silence'
      BY <2>3 DEF ClientStartReq, serverVars, Silence
    <3>2. CASE EnterStartReq(t)
      <4>1. CASE status # "INIT"
        <5>1. dist # "nullptr"
          BY <4>1 DEF StartupInv
        <5>2. QED
          BY <2>0, <3>1, <3>2, <4>1, <5>1, QuietMove DEF EnterStartReq, Labels
      <4>2. CASE status = "INIT"
        <5>1. dist = "nullptr" /\ Gathering /\ Silence
          BY <3>2, <4>2 DEF EnterStartReq, StartupInv, Opened
        <5>2. UNCHANGED <<status, dist>> /\ BarrierArrive(t) /\ Goto(t, "barrier1")
          BY <3>2, <4>2 DEF EnterStartReq
        <5>3. CASE waiting \cup {t} = Threads
          <6>1. \A u \in Threads : pc'[u] = "barrier1"
            BY <2>0, <5>1, <5>2, <5>3 DEF Gathering
          <6>2. waiting' = {} /\ released' = Threads
            BY <5>2, <5>3 DEF BarrierArrive
          <6>3. Opened'
            BY <6>1, <6>2 DEF Opened
          <6>4. QED
            BY <3>1, <4>2, <5>1, <5>2, <6>3 DEF StartupInv
        <5>4. CASE waiting \cup {t} # Threads
          <6>1. waiting' = waiting \cup {t} /\ released' = {}
            BY <5>1, <5>2, <5>4 DEF BarrierArrive, Gathering
          <6>2. Gathering'
            BY <2>0, <5>1, <5>2, <6>1 DEF Gathering
          <6>3. QED
            BY <3>1, <4>2, <5>1, <5>2, <6>2 DEF StartupInv
        <5>5. QED
          BY <5>3, <5>4
      <4>3. QED
        BY <4>1, <4>2
    <3>3. CASE LeaveBarrier1(t)
      <4>1. dist = "nullptr" /\ Opened /\ Silence
        BY <3>3 DEF LeaveBarrier1, BarrierLeave, StartupInv, Gathering
      <4>2. Opened'
        BY <2>0, <3>3, <4>1 DEF LeaveBarrier1, BarrierLeave, Opened
      <4>3. QED
        BY <3>1, <3>3, <4>1, <4>2 DEF LeaveBarrier1, StartupInv
    <3>4. CASE InitOnce(t)
      <4>1. CASE dist = "nullptr"
        <5>1. Opened /\ released = {}
          BY <3>4, <4>1 DEF InitOnce, BarrierArrive, StartupInv, Gathering
        <5>2. \A u \in Threads : pc[u] = "init"
          BY <5>1 DEF Opened
        <5>3. /\ dist' # "nullptr" /\ status' = "WARMUP"
              /\ \A u \in Threads : pc'[u] # "barrier1"
          BY <2>0, <3>4, <4>1, <5>2 DEF InitOnce, CreateDist
        <5>4. QED
          BY <5>3 DEF StartupInv
      <4>2. CASE dist # "nullptr"
        BY <2>0, <3>4, <4>2 DEF InitOnce, CreateDist, StartupInv
      <4>3. QED
        BY <4>1, <4>2
    <3>5. CASE LeaveBarrier2(t) \/ NewReq(t, "send")
      <4>1. dist # "nullptr"
        BY <3>5 DEF LeaveBarrier2, NewReq, StartupInv, Gathering, Opened
      <4>2. QED
        BY <2>0, <3>5, <4>1 DEF LeaveBarrier2, NewReq, StartupInv
    <3>6. QED
      BY <2>3, <3>2, <3>3, <3>4, <3>5 DEF ClientStartReq, StartReq
  <2>4. ASSUME NEW t \in Threads, ClientSend(t) \/ ClientSendFails(t)
        PROVE  StartupInv'
    <3>1. dist # "nullptr"
      BY <2>4 DEF ClientSend, ClientSendFails, StartupInv, Gathering, Opened
    <3>2. QED
      BY <2>0, <2>4, <3>1 DEF ClientSend, ClientSendFails, StartupInv
  <2>5. ASSUME NEW r \in Receivers, ClientRecv(r) \/ ClientRecvFails(r)
        PROVE  StartupInv'
    BY <2>5, QuietOthers
    DEF ClientRecv, ClientRecvFails, clientVars, serverVars, Silence, StartupInv
  <2>6. ASSUME NEW r \in Receivers, ClientAct(r)
        PROVE  StartupInv'
    <3>1. UNCHANGED <<pc, waiting, released, dist, toServer, serverVars>>
      BY <2>6 DEF ClientAct
    <3>2. CASE IsRoi(held[r])
      <4>1. finishedReqs # 0
        BY <3>2 DEF RoiInv, NoRoi
      <4>2. dist # "nullptr"
        BY <4>1 DEF StartupInv, Silence
      <4>3. status' = "ROI"
        BY <2>6, <3>2 DEF ClientAct, IsRoi, StartRoi
      <4>4. QED
        BY <3>1, <4>2, <4>3, QuietOthers
    <3>3. CASE ~IsRoi(held[r])
      <4>1. UNCHANGED status
        BY <2>6, <3>3 DEF ClientAct, IsRoi
      <4>2. QED
        BY <3>1, <4>1, QuietOthers DEF serverVars, Silence, StartupInv
    <3>4. QED
      BY <3>2, <3>3
  <2>7. ASSUME NEW s \in Servers, Server(s)
        PROVE  StartupInv'
    <3>1. UNCHANGED clientVars
      BY <2>7 DEF Server, ServerLoop, RecvReq, SendResp, Processed
    <3>2. dist = "nullptr" => Silence'
      <4> SUFFICES ASSUME Silence PROVE Silence'
        BY DEF StartupInv
      <4>1. ServerLoop(s) \/ Processed(s)
        BY <2>7 DEF Server, RecvReq, SendResp, Silence
      <4>2. QED
        BY <2>0, <4>1 DEF ServerLoop, Processed, Silence
    <3>3. QED
      BY <3>1, <3>2, QuietOthers DEF clientVars
  <2>8. CASE ServerFinish \/ ServerReturn \/ ServerCrash
    BY <2>8, QuietOthers DEF ServerFinish, ServerReturn, ServerCrash, clientVars,
                             serverVars, Silence, StartupInv
  <2>9. QED
    BY <2>1, <2>2, <2>3, <2>4, <2>5, <2>6, <2>7, <2>8
    DEF Next, Sender, Receiver, Ended
<1>3. QED
  BY <1>1, <1>2, RoiInvHolds, PTL DEF Spec

(***************************************************************************)
(* The networked client implements the abstract measurement, for any       *)
(* number of receivers: whatever message overtakes whatever other, the     *)
(* assert of _startRoi holds, samples are recorded in the ROI only, and    *)
(* the first FINISH writes all of them.  What carries it is that ROI_BEGIN *)
(* is sent once and not before a request has been answered.                *)
(***************************************************************************)
THEOREM Refinement == Spec => ImplementsMeasurement
<1>1. Init => M!Init
  BY DEF Init, ClientInit, NoFile, M!Init
<1>2. TypeOK /\ RoiInv /\ StartupInv /\ [Next]_vars => [M!Next]_(M!mvars)
  <2> SUFFICES ASSUME TypeOK, RoiInv, StartupInv, [Next]_vars
               PROVE  M!Next \/ UNCHANGED <<status, samples, lats>>
    BY DEF M!mvars
  <2> USE DEF exited, NoFile, M!Running
  <2>0. samples \in Nat /\ status \in ClientStatus /\ finishedReqs \in Nat
    BY DEF TypeOK, ClientTypeOK
  <2>1. CASE UNCHANGED vars
    BY <2>1 DEF vars, clientVars, serverVars
  <2>2. ASSUME NEW t \in Threads,
               TestInFlight(t) \/ ClientSend(t) \/ ClientSendFails(t)
        PROVE  UNCHANGED <<status, samples, lats>>
    BY <2>2 DEF TestInFlight, ClientSend, ClientSendFails
  <2>3. ASSUME NEW t \in Threads, ClientStartReq(t), ~exited
        PROVE  M!BeginWarmup \/ UNCHANGED <<status, samples, lats>>
    <3>1. UNCHANGED lats
      BY <2>3 DEF ClientStartReq
    <3>2. CASE InitOnce(t) /\ dist = "nullptr"
      BY <2>3, <3>1, <3>2 DEF InitOnce, CreateDist, StartupInv, M!BeginWarmup
    <3>3. CASE InitOnce(t) /\ dist # "nullptr"
      BY <3>1, <3>3 DEF InitOnce, CreateDist
    <3>4. CASE EnterStartReq(t) \/ LeaveBarrier1(t) \/ LeaveBarrier2(t)
                 \/ NewReq(t, "send")
      BY <3>1, <3>4 DEF EnterStartReq, LeaveBarrier1, LeaveBarrier2, NewReq
    <3>5. QED
      BY <2>3, <3>2, <3>3, <3>4 DEF ClientStartReq, StartReq
  <2>4. ASSUME NEW r \in Receivers, ClientRecv(r) \/ ClientRecvFails(r)
        PROVE  UNCHANGED <<status, samples, lats>>
    BY <2>4 DEF ClientRecv, ClientRecvFails, clientVars
  <2>5. ASSUME NEW r \in Receivers, ClientAct(r), ~exited
        PROVE  \/ M!Record \/ M!BeginRoi \/ M!Write
               \/ UNCHANGED <<status, samples, lats>>
    <3>1. CASE held[r].type = "RESPONSE"
      BY <2>5, <3>1 DEF ClientAct, FiniReq, M!Record
    <3>2. CASE held[r].type = "ROI_BEGIN"
      <4>1. finishedReqs # 0 /\ status # "ROI"
        BY <3>2 DEF RoiInv, NoRoi, IsRoi
      <4>2. status = "WARMUP"
        BY <2>0, <4>1 DEF StartupInv, Silence, ClientStatus
      <4>3. QED
        BY <2>5, <3>2, <4>2 DEF ClientAct, StartRoi, M!BeginRoi
    <3>3. CASE held[r].type = "FINISH"
      BY <2>5, <3>3 DEF ClientAct, M!Write
    <3>4. QED
      BY <2>5, <3>1, <3>2, <3>3 DEF ClientAct
  <2>6. ASSUME NEW s \in Servers, Server(s)
        PROVE  UNCHANGED <<status, samples, lats>>
    BY <2>6 DEF Server, ServerLoop, RecvReq, SendResp, Processed, clientVars
  <2>7. CASE ServerFinish \/ ServerReturn \/ ServerCrash
    BY <2>7 DEF ServerFinish, ServerReturn, ServerCrash, clientVars
  <2>8. QED
    BY <2>1, <2>2, <2>3, <2>4, <2>5, <2>6, <2>7
    DEF Next, Sender, Receiver, Ended, clientUp, M!Next
<1>3. QED
  BY <1>1, <1>2, StartupInvHolds, PTL DEF Spec, ImplementsMeasurement, M!Spec

----------------------------------------------------------------------------------
\* The senders between the test and the new request.
Past ==
  {t \in Threads : pc[t] \in {"startReq", "barrier1", "init", "barrier2", "newReq"}}

\* Every sender past the test has a place above the limit reserved.
BoundInv ==
  /\ IsFiniteSet(inFlightReqs)
  /\ Cardinality(inFlightReqs) + Cardinality(Past) <= InFlightLimit + Cardinality(Threads)

\* The senders past the test are finitely many.
LEMMA PastSets ==
  /\ Past \subseteq Threads /\ IsFiniteSet(Past)
  /\ Cardinality(Past) \in Nat /\ Cardinality(Threads) \in Nat
  /\ Cardinality(Past) <= Cardinality(Threads)
<1>1. Past \subseteq Threads
  BY DEF Past
<1>2. QED
  BY <1>1, FS_Subset, FS_CardinalityType, ThreadsAssumption

(***************************************************************************)
(* The unlocked test of numReqsInFlight lets the senders in only so far:   *)
(* whatever their number and the limit, no more than one request per       *)
(* sender is in flight above it.                                           *)
(***************************************************************************)
THEOREM InFlightBoundedHolds == Spec => []InFlightBounded
<1>1. Init => BoundInv
  <2> SUFFICES ASSUME Init PROVE BoundInv
    OBVIOUS
  <2>1. Past = {} /\ inFlightReqs = {}
    BY DEF Init, ClientInit, Past
  <2>2. QED
    BY <2>1, PastSets, FS_EmptySet, NetworkedAssumption DEF BoundInv
<1>2. TypeOK /\ BoundInv /\ [Next]_vars => BoundInv'
  <2> SUFFICES ASSUME TypeOK, BoundInv, [Next]_vars
               PROVE  BoundInv'
    OBVIOUS
  <2>0. /\ pc \in [Threads -> Labels]
        /\ IsFiniteSet(inFlightReqs) /\ Cardinality(inFlightReqs) \in Nat
        /\ InFlightLimit \in Nat
    BY FS_CardinalityType, NetworkedAssumption DEF TypeOK, BoundInv
  <2>1. ASSUME inFlightReqs' \in SUBSET inFlightReqs, Past' = Past
        PROVE  BoundInv'
    <3>1. /\ IsFiniteSet(inFlightReqs')
          /\ Cardinality(inFlightReqs') <= Cardinality(inFlightReqs)
      BY <2>0, <2>1, FS_Subset
    <3>2. Cardinality(inFlightReqs') \in Nat
      BY <3>1, FS_CardinalityType
    <3>3. QED
      BY <2>0, <2>1, <3>1, <3>2, PastSets DEF BoundInv
  <2>2. CASE UNCHANGED vars
    BY <2>1, <2>2 DEF vars, clientVars, Past
  <2>3. ASSUME NEW t \in Threads, TestInFlight(t)
        PROVE  BoundInv'
    <3>1. /\ UNCHANGED inFlightReqs
          /\ Cardinality(inFlightReqs) <= InFlightLimit
      BY <2>3 DEF TestInFlight
    <3>2. Past' \in SUBSET Threads
      BY DEF Past
    <3>3. Cardinality(Past') <= Cardinality(Threads) /\ Cardinality(Past') \in Nat
      BY <3>2, FS_Subset, FS_CardinalityType, ThreadsAssumption
    <3>4. QED
      BY <2>0, <3>1, <3>3, PastSets DEF BoundInv
  <2>4. ASSUME NEW t \in Threads, ClientStartReq(t)
        PROVE  BoundInv'
    <3>1. CASE NewReq(t, "send")
      <4>1. /\ inFlightReqs' = inFlightReqs \cup {startedReqs}
            /\ Past' = Past \ {t} /\ t \in Past
        BY <2>0, <3>1 DEF NewReq, Past
      <4>2. Cardinality(Past') = Cardinality(Past) - 1
        BY <4>1, PastSets, FS_RemoveElement
      <4>3. /\ IsFiniteSet(inFlightReqs')
            /\ Cardinality(inFlightReqs') <= Cardinality(inFlightReqs) + 1
            /\ Cardinality(inFlightReqs') \in Nat
        BY <2>0, <4>1, FS_AddElement, FS_CardinalityType
      <4>4. QED
        BY <2>0, <4>2, <4>3, PastSets DEF BoundInv
    <3>2. CASE ~NewReq(t, "send")
      <4>1. UNCHANGED inFlightReqs
        BY <2>4, <3>2 DEF ClientStartReq, StartReq, EnterStartReq, LeaveBarrier1,
                          InitOnce, LeaveBarrier2
      <4>2. Past' = Past
        BY <2>0, <2>4, <3>2 DEF ClientStartReq, StartReq, EnterStartReq,
                                LeaveBarrier1, InitOnce, LeaveBarrier2, Past
      <4>3. QED
        BY <2>1, <4>1, <4>2
    <3>3. QED
      BY <3>1, <3>2
  <2>5. ASSUME NEW t \in Threads, ClientSend(t) \/ ClientSendFails(t)
        PROVE  BoundInv'
    <3>1. Past' = Past
      BY <2>0, <2>5 DEF ClientSend, ClientSendFails, Past
    <3>2. QED
      BY <2>1, <2>5, <3>1 DEF ClientSend, ClientSendFails
  <2>6. ASSUME NEW r \in Receivers, Receiver(r)
        PROVE  BoundInv'
    <3>1. UNCHANGED pc /\ inFlightReqs' \in SUBSET inFlightReqs
      BY <2>6 DEF Receiver, ClientRecv, ClientRecvFails, ClientAct, FiniReq, clientVars
    <3>2. QED
      BY <2>1, <3>1 DEF Past
  <2>7. ASSUME NEW s \in Servers, Server(s)
        PROVE  BoundInv'
    BY <2>1, <2>7 DEF Server, ServerLoop, RecvReq, SendResp, Processed, clientVars, Past
  <2>8. CASE ServerFinish \/ ServerReturn \/ ServerCrash
    BY <2>1, <2>8 DEF ServerFinish, ServerReturn, ServerCrash, clientVars, Past
  <2>9. QED
    BY <2>2, <2>3, <2>4, <2>5, <2>6, <2>7, <2>8 DEF Next, Sender, Ended
<1>3. BoundInv => InFlightBounded
  BY PastSets, FS_CardinalityType, NetworkedAssumption DEF BoundInv, InFlightBounded
<1>4. QED
  BY <1>1, <1>2, <1>3, TypeCorrect, PTL DEF Spec

----------------------------------------------------------------------------------
\* 1 for one more copy of m when the thing moved is m, 0 when it is another.
Same(v, m) == IF v = m THEN 1 ELSE 0

\* The places of a message in a connection.
Where(c, m) == {i \in 1..Len(c) : c[i] = m}

\* A message has finitely many places in a connection.
LEMMA WhereFinite ==
  ASSUME NEW S, NEW c \in Seq(S), NEW m
  PROVE  IsFiniteSet(Where(c, m)) /\ Cardinality(Where(c, m)) \in Nat
<1>1. Len(c) \in Nat
  OBVIOUS
<1>2. IsFiniteSet(1..Len(c))
  BY <1>1, FS_Interval
<1>3. Where(c, m) \in SUBSET (1..Len(c))
  BY DEF Where
<1>4. QED
  BY <1>2, <1>3, FS_Subset, FS_CardinalityType

\* A message appended adds a place for itself and none for another.
LEMMA WhereAppend ==
  ASSUME NEW S, NEW c \in Seq(S), NEW x \in S, NEW m
  PROVE  Cardinality(Where(Append(c, x), m)) =
           Cardinality(Where(c, m)) + Same(x, m)
<1> USE DEF Same
<1>0. Len(c) \in Nat
  OBVIOUS
<1>1. /\ Len(Append(c, x)) = Len(c) + 1
      /\ \A i \in 1..Len(c) : Append(c, x)[i] = c[i]
      /\ Append(c, x)[Len(c) + 1] = x
  OBVIOUS
<1>2. \A i \in 1..(Len(c) + 1) : i \in 1..Len(c) \/ i = Len(c) + 1
  BY <1>0
<1>3. Len(c) + 1 \notin Where(c, m)
  BY <1>0 DEF Where
<1>4. CASE x = m
  <2>1. Where(Append(c, x), m) = Where(c, m) \cup {Len(c) + 1}
    BY <1>0, <1>1, <1>2, <1>4 DEF Where
  <2>2. QED
    BY <1>3, <1>4, <2>1, WhereFinite, FS_AddElement
<1>5. CASE x # m
  <2>1. Where(Append(c, x), m) = Where(c, m)
    BY <1>0, <1>1, <1>2, <1>5 DEF Where
  <2>2. QED
    BY <1>5, <2>1, WhereFinite
<1>6. QED
  BY <1>4, <1>5

\* The first message taken off removes one place for itself and none for another.
LEMMA WhereTail ==
  ASSUME NEW S, NEW c \in Seq(S), c # <<>>, NEW m
  PROVE  Cardinality(Where(Tail(c), m)) =
           Cardinality(Where(c, m)) - Same(Head(c), m)
<1> DEFINE W == Where(Tail(c), m)
           V == Where(c, m) \ {1}
           f == [i \in W |-> i + 1]
<1>1. /\ Len(c) \in Nat \ {0} /\ Len(Tail(c)) = Len(c) - 1 /\ Head(c) = c[1]
      /\ Tail(c) \in Seq(S)
      /\ \A i \in 1..Len(Tail(c)) : Tail(c)[i] = c[i + 1] /\ i + 1 \in 1..Len(c)
  BY TakeFirst, HeadTailProperties
<1>2. \A i \in W : i \in Nat \ {0} /\ i + 1 \in V
  BY <1>1 DEF Where
<1>3. \A j \in V : j - 1 \in W /\ (j - 1) + 1 = j
  <2> SUFFICES ASSUME NEW j \in V PROVE j - 1 \in W /\ (j - 1) + 1 = j
    OBVIOUS
  <2>1. j \in 1..Len(c) /\ j # 1 /\ c[j] = m
    BY DEF Where
  <2>2. j - 1 \in 1..Len(Tail(c)) /\ (j - 1) + 1 = j
    BY <1>1, <2>1
  <2>3. Tail(c)[j - 1] = m
    BY <1>1, <2>1, <2>2
  <2>4. QED
    BY <2>2, <2>3 DEF Where
<1> HIDE DEF W, V
<1>4. f \in Bijection(W, V)
  <2>1. f \in [W -> V]
    BY <1>2
  <2>2. \A a, b \in W : f[a] = f[b] => a = b
    BY <1>2
  <2>3. \A j \in V : \E i \in W : f[i] = j
    BY <1>3
  <2>4. QED
    BY <2>1, <2>2, <2>3, Fun_IsBij
<1>5. Cardinality(V) = Cardinality(W)
  BY <1>1, <1>4, WhereFinite, FS_Bijection DEF ExistsBijection, W
<1>6. Cardinality(V) = Cardinality(Where(c, m)) - Same(Head(c), m)
  <2>1. 1 \in Where(c, m) <=> Head(c) = m
    BY <1>1 DEF Where
  <2>2. IsFiniteSet(Where(c, m)) /\ Cardinality(Where(c, m)) \in Nat
    BY WhereFinite
  <2>3. QED
    <3>1. Cardinality(V) = IF 1 \in Where(c, m) THEN Cardinality(Where(c, m)) - 1
                                               ELSE Cardinality(Where(c, m))
      BY <2>2, FS_RemoveElement DEF V
    <3>2. QED
      BY <2>1, <2>2, <3>1 DEF Same
<1>7. QED
  BY <1>5, <1>6 DEF W

\* A thread leaves a set of threads if its request is m.
LEMMA Leaves ==
  ASSUME NEW S, IsFiniteSet(S), NEW x, NEW v, NEW m, v = m => x \in S,
         NEW T, T = IF v = m THEN S \ {x} ELSE S
  PROVE  Cardinality(T) = Cardinality(S) - Same(v, m)
<1>1. Cardinality(S) \in Nat
  BY FS_CardinalityType
<1>2. QED
  BY <1>1, FS_RemoveElement DEF Same

\* What a comparison contributes to a count is a number.
LEMMA SameIsNat == ASSUME NEW v, NEW m PROVE Same(v, m) \in Nat
  BY DEF Same

\* The places of a request are finite sets, and its copies are a number.
LEMMA Places ==
  ASSUME TypeOK, NEW id \in Nat
  PROVE  /\ IsFiniteSet(Sending(id)) /\ IsFiniteSet(Served(id)) /\ IsFiniteSet(Received(id))
         /\ Cardinality(Sending(id)) \in Nat
         /\ Cardinality(Queued(id)) \in Nat
         /\ Cardinality(Served(id)) \in Nat
         /\ Cardinality(Answered(id)) \in Nat
         /\ Cardinality(Received(id)) \in Nat
         /\ Copies(id) \in Nat
         /\ Queued(id) = Where(toServer, id)
         /\ Answered(id) = Where(toClient, Response(id))
<1>1. Queued(id) = Where(toServer, id) /\ Answered(id) = Where(toClient, Response(id))
  BY DEF Queued, Answered, Where
<1>2. Cardinality(Queued(id)) \in Nat /\ Cardinality(Answered(id)) \in Nat
  BY <1>1, WhereFinite DEF TypeOK
<1>3. /\ Sending(id) \in SUBSET Threads
      /\ Served(id) \in SUBSET Servers
      /\ Received(id) \in SUBSET Receivers
  BY DEF Sending, Served, Received
<1>4. IsFiniteSet(Sending(id)) /\ IsFiniteSet(Served(id)) /\ IsFiniteSet(Received(id))
  BY <1>3, FS_Subset, ThreadsAssumption, NetworkedAssumption
<1>5. /\ Cardinality(Sending(id)) \in Nat
      /\ Cardinality(Served(id)) \in Nat
      /\ Cardinality(Received(id)) \in Nat
  BY <1>4, FS_CardinalityType
<1>6. QED
  BY <1>1, <1>2, <1>4, <1>5 DEF Copies

(***************************************************************************)
(* InFlightOnce for every number, the ids that are still to be handed out  *)
(* among them, of which there is no copy.                                  *)
(***************************************************************************)
CopiesInv ==
  \A id \in Nat :
    /\ Copies(id) <= IF id \in inFlightReqs THEN 1 ELSE 0
    /\ conn = "up" => Copies(id) = IF id \in inFlightReqs THEN 1 ELSE 0
    /\ id \in inFlightReqs => id < startedReqs

\* A step that moves copies from place to place, or loses them with the connection.
LEMMA Moved ==
  ASSUME CopiesInv,
         UNCHANGED <<inFlightReqs, startedReqs>>,
         conn' = "up" => conn = "up",
         \A id \in Nat : /\ Copies(id) \in Nat /\ Copies(id)' \in Int
                         /\ Copies(id)' <= Copies(id)
                         /\ conn' = "up" => Copies(id)' = Copies(id)
  PROVE  CopiesInv'
  BY DEF CopiesInv

\* A sender that goes elsewhere than to or from send holds no copy more or less.
LEMMA SameSending ==
  ASSUME TypeOK, NEW id \in Nat, NEW t \in Threads, NEW l \in Labels \ {"send"},
         Goto(t, l), UNCHANGED out, pc[t] # "send"
  PROVE  Sending(id)' = Sending(id)
  BY DEF Sending, TypeOK

\* The connection to the client after a response, as far as responses go.
LEMMA AnswerCounted ==
  ASSUME TypeOK, NEW s \in Servers, SendResp(s), NEW id \in Nat
  PROVE  Cardinality(Where(toClient', Response(id))) =
           Cardinality(Where(toClient, Response(id))) + Same(reqInfo[s], id)
<1> DEFINE x == Response(reqInfo[s])
           m == Response(id)
           a == Append(toClient, x)
           notes == Notices(finishedReqs + 1)
<1>1. toClient \in Seq(Msg) /\ finishedReqs + 1 \in Nat /\ reqInfo[s] \in Nat
  BY DEF TypeOK
<1>2. x \in Msg
  BY <1>1, Messages
<1>3. Same(x, m) = Same(reqInfo[s], id)
  BY DEF Response, Same
<1>4. toClient' = a \o notes
  <2>1. toClient \o <<x>> = a
    BY <1>1, <1>2
  <2>2. QED
    BY <2>1 DEF SendResp
<1>5. \/ notes = <<>>
      \/ \E n \in Msg : notes = <<n>> /\ n # m
  <2>1. Control("ROI_BEGIN") # m /\ Control("FINISH") # m
    BY DEF Control, Response
  <2>2. notes = <<>> \/ notes = <<Control("ROI_BEGIN")>> \/ notes = <<Control("FINISH")>>
    BY DEF Notices
  <2>3. QED
    BY <2>1, <2>2, Messages
<1> HIDE DEF x, m, notes
<1>6. a \in Seq(Msg)
  BY <1>1, <1>2
<1>7. Cardinality(Where(a, m)) = Cardinality(Where(toClient, m)) + Same(x, m)
  BY <1>1, <1>2, WhereAppend
<1> HIDE DEF a
<1>8. Cardinality(Where(toClient', m)) = Cardinality(Where(a, m))
  <2>1. CASE notes = <<>>
    BY <1>4, <1>6, <2>1, ConcatEmptySeq
  <2>2. ASSUME NEW n \in Msg, notes = <<n>>, n # m
        PROVE  Cardinality(Where(toClient', m)) = Cardinality(Where(a, m))
    <3>1. toClient' = Append(a, n)
      BY <1>4, <1>6, <2>2
    <3>2. Cardinality(Where(a, m)) \in Nat
      BY <1>6, WhereFinite
    <3>3. Cardinality(Where(Append(a, n), m)) = Cardinality(Where(a, m)) + Same(n, m)
      BY <1>6, WhereAppend
    <3>4. QED
      BY <2>2, <3>1, <3>2, <3>3 DEF Same
  <2>3. QED
    BY <1>5, <2>1, <2>2
<1>9. QED
  BY <1>3, <1>7, <1>8 DEF m

\* Every request in flight has one copy, wherever it is.
THEOREM CopiesInvHolds == Spec => [](TypeOK /\ CopiesInv)
<1>1. Init => CopiesInv
  <2> SUFFICES ASSUME Init, NEW id \in Nat
               PROVE  Copies(id) = 0 /\ inFlightReqs = {}
    BY DEF CopiesInv
  <2>1. /\ Sending(id) = {} /\ Queued(id) = {} /\ Served(id) = {}
        /\ Answered(id) = {} /\ Received(id) = {}
    BY DEF Init, Sending, Queued, Served, Answered, Received, NoMsg, Response
  <2>2. QED
    BY <2>1, FS_EmptySet DEF Copies, Init, ClientInit
<1>2. TypeOK /\ CopiesInv /\ [Next]_vars => CopiesInv'
  <2> SUFFICES ASSUME TypeOK, CopiesInv, [Next]_vars
               PROVE  CopiesInv'
    OBVIOUS
  <2>0. /\ pc \in [Threads -> Labels] /\ out \in [Threads -> Nat]
        /\ held \in [Receivers -> Msg \cup {NoMsg}] /\ spc \in [Servers -> ServerLabels]
        /\ reqInfo \in [Servers -> Nat]
        /\ toServer \in Seq(Nat) /\ toClient \in Seq(Msg)
        /\ startedReqs \in Nat
    BY DEF TypeOK, ClientTypeOK
  <2>1. \A id \in Nat : Copies(id) \in Nat
    BY Places
  <2>2. CASE UNCHANGED vars
    BY <2>2
    DEF vars, clientVars, serverVars, CopiesInv, Copies, Sending, Queued, Served,
        Answered, Received
  <2>3. ASSUME NEW t \in Threads, TestInFlight(t)
        PROVE  CopiesInv'
    <3>1. ASSUME NEW id \in Nat
          PROVE  Copies(id)' = Copies(id)
      <4>1. Sending(id)' = Sending(id)
        BY <2>3, SameSending DEF TestInFlight, Labels
      <4>2. QED
        BY <2>3, <4>1
        DEF TestInFlight, serverVars, Copies, Queued, Served, Answered, Received
    <3>2. QED
      BY <2>1, <2>3, <3>1, Moved DEF TestInFlight, connVars
  <2>4. ASSUME NEW t \in Threads, ClientStartReq(t)
        PROVE  CopiesInv'
    <3>1. UNCHANGED <<toServer, toClient, held, serverVars, conn>>
      BY <2>4 DEF ClientStartReq, connVars
    <3>2. CASE NewReq(t, "send")
      <4>1. /\ startedReqs' = startedReqs + 1
            /\ inFlightReqs' = inFlightReqs \cup {startedReqs}
            /\ Goto(t, "send") /\ pc[t] = "newReq"
            /\ out' = [out EXCEPT ![t] = startedReqs]
        BY <2>4, <3>2 DEF NewReq, ClientStartReq
      <4>2. ASSUME NEW id \in Nat
            PROVE  Copies(id)' = Copies(id) + Same(id, startedReqs)
        <5>1. /\ Sending(id)' = IF id = startedReqs THEN Sending(id) \cup {t} ELSE Sending(id)
              /\ t \notin Sending(id)
          BY <2>0, <4>1 DEF Sending
        <5>2. Cardinality(Sending(id)') = Cardinality(Sending(id)) + Same(id, startedReqs)
          <6>1. Cardinality(Sending(id) \cup {t}) = Cardinality(Sending(id)) + 1
            BY <5>1, Places, FS_AddElement
          <6>2. QED
            BY <5>1, <6>1, Places DEF Same
        <5>3. /\ Queued(id)' = Queued(id) /\ Served(id)' = Served(id)
              /\ Answered(id)' = Answered(id) /\ Received(id)' = Received(id)
          BY <3>1 DEF serverVars, Queued, Served, Answered, Received
        <5>4. Same(id, startedReqs) \in Nat
          BY SameIsNat
        <5>5. QED
          BY <5>2, <5>3, <5>4, Places DEF Copies
      <4>3. startedReqs \notin inFlightReqs
        BY <2>0 DEF CopiesInv
      <4>4. QED
        <5> SUFFICES ASSUME NEW id \in Nat
                     PROVE  /\ Copies(id)' <= IF id \in inFlightReqs' THEN 1 ELSE 0
                            /\ conn' = "up" =>
                                 Copies(id)' = IF id \in inFlightReqs' THEN 1 ELSE 0
                            /\ id \in inFlightReqs' => id < startedReqs'
          BY DEF CopiesInv
        <5>1. CASE id = startedReqs
          <6>1. Copies(id) = 0
            BY <2>1, <4>3, <5>1 DEF CopiesInv
          <6>2. QED
            BY <4>1, <4>2, <5>1, <6>1, <2>0 DEF Same
        <5>2. CASE id # startedReqs
          <6>1. Copies(id)' = Copies(id)
            BY <2>1, <4>2, <5>2 DEF Same
          <6>2. (id \in inFlightReqs') = (id \in inFlightReqs)
            BY <4>1, <5>2
          <6>3. id \in inFlightReqs => id < startedReqs'
            BY <2>0, <4>1 DEF CopiesInv
          <6>4. QED
            BY <3>1, <6>1, <6>2, <6>3 DEF CopiesInv
        <5>3. QED
          BY <5>1, <5>2
    <3>3. CASE ~NewReq(t, "send")
      <4>1. UNCHANGED <<inFlightReqs, startedReqs>> /\ pc[t] \notin {"newReq", "send"}
        BY <2>4, <3>3 DEF ClientStartReq, StartReq, EnterStartReq, LeaveBarrier1,
                          InitOnce, LeaveBarrier2
      <4>2. UNCHANGED out /\ \E l \in Labels \ {"send"} : Goto(t, l)
        BY <2>4, <3>3, <4>1 DEF ClientStartReq, StartReq, EnterStartReq, LeaveBarrier1,
                                InitOnce, LeaveBarrier2, Labels
      <4>3. ASSUME NEW id \in Nat
            PROVE  Copies(id)' = Copies(id)
        <5>1. Sending(id)' = Sending(id)
          BY <4>1, <4>2, SameSending
        <5>2. QED
          BY <3>1, <5>1 DEF serverVars, Copies, Queued, Served, Answered, Received
      <4>4. QED
        BY <2>1, <3>1, <4>1, <4>3, Moved
    <3>4. QED
      BY <3>2, <3>3
  <2>5. ASSUME NEW t \in Threads, ClientSend(t)
        PROVE  CopiesInv'
    <3>1. /\ pc[t] = "send" /\ Goto(t, "test")
          /\ toServer' = Append(toServer, out[t])
          /\ UNCHANGED <<out, toClient, held, spc, reqInfo, conn>>
          /\ UNCHANGED <<startedReqs, inFlightReqs>>
      BY <2>5 DEF ClientSend, serverVars, connVars
    <3>2. ASSUME NEW id \in Nat
          PROVE  Copies(id)' = Copies(id)
      <4>1. /\ Sending(id)' = IF out[t] = id THEN Sending(id) \ {t} ELSE Sending(id)
            /\ out[t] = id => t \in Sending(id)
        BY <2>0, <3>1 DEF Sending
      <4>2. Cardinality(Sending(id)') = Cardinality(Sending(id)) - Same(out[t], id)
        <5>1. IsFiniteSet(Sending(id))
          BY Places
        <5>2. QED
          BY <4>1, <5>1, Leaves
      <4>3. Queued(id)' = Where(toServer', id)
        BY DEF Queued, Where
      <4>4. Cardinality(Queued(id)') = Cardinality(Queued(id)) + Same(out[t], id)
        <5>1. Cardinality(Where(Append(toServer, out[t]), id)) =
                Cardinality(Where(toServer, id)) + Same(out[t], id)
          <6>1. toServer \in Seq(Nat) /\ out[t] \in Nat
            BY <2>0
          <6>2. QED
            BY <6>1, WhereAppend
        <5>2. QED
          BY <3>1, <4>3, <5>1, Places
      <4>5. /\ Served(id)' = Served(id) /\ Answered(id)' = Answered(id)
            /\ Received(id)' = Received(id)
        BY <3>1 DEF Served, Answered, Received
      <4>6. Same(out[t], id) \in Nat
        BY SameIsNat
      <4>7. QED
        BY <4>2, <4>4, <4>5, <4>6, Places DEF Copies
    <3>3. QED
      BY <2>1, <3>1, <3>2, Moved
  <2>6. ASSUME NEW t \in Threads, ClientSendFails(t)
        PROVE  CopiesInv'
    <3>1. /\ conn # "up" /\ conn' # "up"
          /\ pc' = pc \/ (\E l \in Labels \ {"send"} : Goto(t, l))
          /\ UNCHANGED <<out, toServer, toClient, held, spc, reqInfo>>
          /\ UNCHANGED <<startedReqs, inFlightReqs>>
      BY <2>6 DEF ClientSendFails, serverVars, Labels
    <3>2. ASSUME NEW id \in Nat
          PROVE  Copies(id)' <= Copies(id) /\ Copies(id)' \in Nat
      <4>1. Sending(id)' \in SUBSET Sending(id)
        BY <2>0, <3>1 DEF Sending
      <4>2. Cardinality(Sending(id)') <= Cardinality(Sending(id))
        BY <4>1, Places, FS_Subset
      <4>3. /\ Queued(id)' = Queued(id) /\ Served(id)' = Served(id)
            /\ Answered(id)' = Answered(id) /\ Received(id)' = Received(id)
        BY <3>1 DEF Queued, Served, Answered, Received
      <4>4. Cardinality(Sending(id)') \in Nat
        BY <4>1, Places, FS_Subset, FS_CardinalityType
      <4>5. QED
        BY <4>2, <4>3, <4>4, Places DEF Copies
    <3>3. QED
      BY <2>1, <3>1, <3>2, Moved
  <2>7. ASSUME NEW r \in Receivers, ClientRecv(r)
        PROVE  CopiesInv'
    <3>1. /\ held[r] = NoMsg /\ toClient # <<>>
          /\ held' = [held EXCEPT ![r] = Head(toClient)]
          /\ toClient' = Tail(toClient)
          /\ UNCHANGED <<pc, out, toServer, spc, reqInfo, conn>>
          /\ UNCHANGED <<startedReqs, inFlightReqs>>
      BY <2>7 DEF ClientRecv, clientVars, serverVars, connVars
    <3>2. ASSUME NEW id \in Nat
          PROVE  Copies(id)' = Copies(id)
      <4>1. /\ Received(id)' = IF Head(toClient) = Response(id) THEN Received(id) \cup {r} ELSE Received(id)
            /\ r \notin Received(id)
        <5>1. NoMsg # Response(id)
          BY DEF NoMsg, Response
        <5>2. \A q \in Receivers : held'[q] = IF q = r THEN Head(toClient) ELSE held[q]
          BY <2>0, <3>1
        <5>3. QED
          BY <3>1, <5>1, <5>2 DEF Received
      <4>2. Cardinality(Received(id)') = Cardinality(Received(id)) + Same(Head(toClient), Response(id))
        <5>1. Cardinality(Received(id) \cup {r}) = Cardinality(Received(id)) + 1
          BY <4>1, Places, FS_AddElement
        <5>2. QED
          BY <4>1, <5>1, Places DEF Same
      <4>3. Answered(id)' = Where(toClient', Response(id))
        BY DEF Answered, Where
      <4>4. Cardinality(Answered(id)') = Cardinality(Answered(id)) - Same(Head(toClient), Response(id))
        BY <2>0, <3>1, <4>3, Places, WhereTail
      <4>5. /\ Sending(id)' = Sending(id) /\ Queued(id)' = Queued(id)
            /\ Served(id)' = Served(id)
        BY <3>1 DEF Sending, Queued, Served
      <4>6. Same(Head(toClient), Response(id)) \in Nat
        BY SameIsNat
      <4>7. QED
        BY <4>2, <4>4, <4>5, <4>6, Places DEF Copies
    <3>3. QED
      BY <2>1, <3>1, <3>2, Moved
  <2>8. ASSUME NEW r \in Receivers, ClientRecvFails(r)
        PROVE  CopiesInv'
    BY <2>8
    DEF ClientRecvFails, clientVars, serverVars, CopiesInv, Copies, Sending, Queued,
        Served, Answered, Received
  <2>9. ASSUME NEW r \in Receivers, ClientAct(r)
        PROVE  CopiesInv'
    <3>1. /\ held' = [held EXCEPT ![r] = NoMsg]
          /\ UNCHANGED <<pc, out, toServer, toClient, spc, reqInfo, conn, startedReqs>>
          /\ inFlightReqs' = IF held[r].type = "RESPONSE"
                               THEN inFlightReqs \ {held[r].id} ELSE inFlightReqs
      BY <2>9 DEF ClientAct, FiniReq, serverVars, connVars
    <3>2. ASSUME NEW id \in Nat
          PROVE  Copies(id)' = Copies(id) - Same(held[r], Response(id))
      <4>1. /\ Received(id)' = IF held[r] = Response(id) THEN Received(id) \ {r} ELSE Received(id)
            /\ held[r] = Response(id) => r \in Received(id)
        BY <2>0, <3>1 DEF Received, NoMsg, Response
      <4>2. Cardinality(Received(id)') = Cardinality(Received(id)) - Same(held[r], Response(id))
        <5>1. IsFiniteSet(Received(id))
          BY Places
        <5>2. QED
          BY <4>1, <5>1, Leaves
      <4>3. /\ Sending(id)' = Sending(id) /\ Queued(id)' = Queued(id)
            /\ Served(id)' = Served(id) /\ Answered(id)' = Answered(id)
        BY <3>1 DEF Sending, Queued, Served, Answered
      <4>4. Same(held[r], Response(id)) \in Nat
        BY SameIsNat
      <4>5. QED
        BY <4>2, <4>3, <4>4, Places DEF Copies
    <3>3. \A id \in Nat : held[r] = Response(id) <=>
                            held[r].type = "RESPONSE" /\ held[r].id = id
      BY <2>0 DEF Msg, NoMsg, Response
    <3>4. QED
      <4> SUFFICES ASSUME NEW id \in Nat
                   PROVE  /\ Copies(id)' <= IF id \in inFlightReqs' THEN 1 ELSE 0
                          /\ conn' = "up" =>
                               Copies(id)' = IF id \in inFlightReqs' THEN 1 ELSE 0
                          /\ id \in inFlightReqs' => id < startedReqs'
        BY DEF CopiesInv
      <4>1. CASE held[r] = Response(id)
        <5>1. id \in inFlightReqs /\ Copies(id) = 1
          <6>1. Copies(id) >= 1
            <7>1. r \in Received(id)
              BY <4>1 DEF Received
            <7>2. Cardinality(Received(id)) # 0
              BY <7>1, Places, FS_EmptySet
            <7>3. /\ Cardinality(Sending(id)) \in Nat /\ Cardinality(Queued(id)) \in Nat
                  /\ Cardinality(Served(id)) \in Nat /\ Cardinality(Answered(id)) \in Nat
                  /\ Cardinality(Received(id)) \in Nat
              BY Places
            <7>4. QED
              BY <7>2, <7>3 DEF Copies
          <6>2. QED
            BY <2>1, <6>1 DEF CopiesInv
        <5>2. Copies(id)' = 0 /\ id \notin inFlightReqs'
          BY <3>1, <3>2, <3>3, <4>1, <5>1 DEF Same
        <5>3. QED
          BY <5>2
      <4>2. CASE held[r] # Response(id)
        <5>1. Copies(id)' = Copies(id)
          BY <2>1, <3>2, <4>2 DEF Same
        <5>2. (id \in inFlightReqs') = (id \in inFlightReqs)
          BY <3>1, <3>3, <4>2
        <5>3. QED
          BY <3>1, <5>1, <5>2 DEF CopiesInv
      <4>3. QED
        BY <4>1, <4>2
  <2>10. ASSUME NEW s \in Servers, ServerLoop(s) \/ Processed(s)
         PROVE  CopiesInv'
    <3>1. ASSUME NEW id \in Nat
          PROVE  Copies(id)' = Copies(id)
      <4>1. Served(id)' = Served(id)
        BY <2>0, <2>10 DEF ServerLoop, Processed, Served
      <4>2. QED
        BY <2>10, <4>1 DEF ServerLoop, Processed, clientVars, Copies, Sending, Queued,
                           Answered, Received
    <3>2. QED
      BY <2>1, <2>10, <3>1, Moved DEF ServerLoop, Processed, clientVars, connVars
  <2>11. ASSUME NEW s \in Servers, RecvReq(s)
         PROVE  CopiesInv'
    <3>1. /\ spc[s] = "recv" /\ toServer # <<>>
          /\ reqInfo' = [reqInfo EXCEPT ![s] = Head(toServer)]
          /\ spc' = [spc EXCEPT ![s] = "serve"]
          /\ toServer' = Tail(toServer)
          /\ UNCHANGED <<pc, out, toClient, held, conn, startedReqs, inFlightReqs>>
      BY <2>11 DEF RecvReq, clientVars, connVars
    <3>2. ASSUME NEW id \in Nat
          PROVE  Copies(id)' = Copies(id)
      <4>1. /\ Served(id)' = IF Head(toServer) = id THEN Served(id) \cup {s} ELSE Served(id)
            /\ s \notin Served(id)
        BY <2>0, <3>1 DEF Served
      <4>2. Cardinality(Served(id)') = Cardinality(Served(id)) + Same(Head(toServer), id)
        <5>1. Cardinality(Served(id) \cup {s}) = Cardinality(Served(id)) + 1
          BY <4>1, Places, FS_AddElement
        <5>2. QED
          BY <4>1, <5>1, Places DEF Same
      <4>3. Queued(id)' = Where(toServer', id)
        BY DEF Queued, Where
      <4>4. Cardinality(Queued(id)') = Cardinality(Queued(id)) - Same(Head(toServer), id)
        BY <2>0, <3>1, <4>3, Places, WhereTail
      <4>5. /\ Sending(id)' = Sending(id) /\ Answered(id)' = Answered(id)
            /\ Received(id)' = Received(id)
        BY <3>1 DEF Sending, Answered, Received
      <4>6. Same(Head(toServer), id) \in Nat
        BY SameIsNat
      <4>7. QED
        BY <4>2, <4>4, <4>5, <4>6, Places DEF Copies
    <3>3. QED
      BY <2>1, <3>1, <3>2, Moved
  <2>12. ASSUME NEW s \in Servers, SendResp(s)
         PROVE  CopiesInv'
    <3>1. /\ spc[s] = "serve"
          /\ spc' = [spc EXCEPT ![s] = "processed"]
          /\ UNCHANGED <<pc, out, toServer, held, reqInfo, conn>>
          /\ UNCHANGED <<startedReqs, inFlightReqs>>
      BY <2>12 DEF SendResp, clientVars, connVars
    <3>2. ASSUME NEW id \in Nat
          PROVE  Copies(id)' = Copies(id)
      <4>1. /\ Served(id)' = IF reqInfo[s] = id THEN Served(id) \ {s} ELSE Served(id)
            /\ reqInfo[s] = id => s \in Served(id)
        BY <2>0, <3>1 DEF Served
      <4>2. Cardinality(Served(id)') = Cardinality(Served(id)) - Same(reqInfo[s], id)
        <5>1. IsFiniteSet(Served(id))
          BY Places
        <5>2. QED
          BY <4>1, <5>1, Leaves
      <4>3. Answered(id)' = Where(toClient', Response(id))
        BY DEF Answered, Where
      <4>4. Cardinality(Answered(id)') = Cardinality(Answered(id)) + Same(reqInfo[s], id)
        BY <2>12, <4>3, Places, AnswerCounted
      <4>5. /\ Sending(id)' = Sending(id) /\ Queued(id)' = Queued(id)
            /\ Received(id)' = Received(id)
        BY <3>1 DEF Sending, Queued, Received
      <4>6. Same(reqInfo[s], id) \in Nat
        BY SameIsNat
      <4>7. QED
        BY <4>2, <4>4, <4>5, <4>6, Places DEF Copies
    <3>3. QED
      BY <2>1, <3>1, <3>2, Moved
  <2>13. CASE ServerFinish
    <3>1. /\ toClient' = Append(toClient, Control("FINISH"))
          /\ \A s \in Servers : spc[s] # "serve" /\ spc'[s] # "serve"
          /\ UNCHANGED <<pc, out, toServer, held, reqInfo, conn>>
          /\ UNCHANGED <<startedReqs, inFlightReqs>>
      BY <2>13 DEF ServerFinish, clientVars, connVars
    <3>2. ASSUME NEW id \in Nat
          PROVE  Copies(id)' = Copies(id)
      <4>1. Control("FINISH") # Response(id) /\ Control("FINISH") \in Msg
        BY Messages DEF Control, Response
      <4>2. Answered(id)' = Where(toClient', Response(id))
        BY DEF Answered, Where
      <4>3. Cardinality(Answered(id)') = Cardinality(Answered(id))
        <5>1. Cardinality(Where(Append(toClient, Control("FINISH")), Response(id))) =
                Cardinality(Where(toClient, Response(id))) + Same(Control("FINISH"), Response(id))
          BY <2>0, <4>1, WhereAppend
        <5>2. QED
          <6>1. Same(Control("FINISH"), Response(id)) = 0
            BY <4>1 DEF Same
          <6>2. /\ Cardinality(Answered(id)) \in Nat
                /\ Answered(id) = Where(toClient, Response(id))
            BY Places
          <6>3. QED
            BY <3>1, <4>2, <5>1, <6>1, <6>2
      <4>4. /\ Sending(id)' = Sending(id) /\ Queued(id)' = Queued(id)
            /\ Served(id)' = Served(id) /\ Received(id)' = Received(id)
        BY <3>1 DEF Sending, Queued, Served, Received
      <4>5. QED
        BY <4>3, <4>4 DEF Copies
    <3>3. QED
      BY <2>1, <3>1, <3>2, Moved
  <2>14. CASE ServerReturn \/ ServerCrash
    <3>1. /\ conn' # "up"
          /\ UNCHANGED <<clientVars, out, toServer, toClient, held, serverVars>>
      BY <2>14 DEF ServerReturn, ServerCrash
    <3>2. \A id \in Nat : Copies(id)' = Copies(id)
      BY <3>1 DEF clientVars, serverVars, Copies, Sending, Queued, Served, Answered,
                  Received
    <3>3. QED
      BY <2>1, <3>1, <3>2, Moved DEF clientVars
  <2>15. QED
    BY <2>2, <2>3, <2>4, <2>5, <2>6, <2>7, <2>8, <2>9, <2>10, <2>11, <2>12, <2>13, <2>14
    DEF Next, Sender, Receiver, Server, Ended
<1>3. QED
  BY <1>1, <1>2, TypeCorrect, PTL DEF Spec

(***************************************************************************)
(* A request in flight has exactly one copy while the server is up, at     *)
(* most one after that, and one that is not in flight has none: for any    *)
(* number of senders, receivers and server threads.                        *)
(***************************************************************************)
THEOREM InFlightOnceHolds == Spec => []InFlightOnce
<1>1. TypeOK /\ CopiesInv => InFlightOnce
  <2>1. TypeOK => \A id \in 0..(startedReqs - 1) : id \in Nat
    BY DEF TypeOK, ClientTypeOK
  <2>2. QED
    BY <2>1 DEF CopiesInv, InFlightOnce
<1>2. QED
  BY <1>1, CopiesInvHolds, PTL

----------------------------------------------------------------------------------
\* The messages sent with the first f responses, and the kind of message number n.
SentWith(f) ==
  f + (IF f >= WarmupReqs THEN 1 ELSE 0)
    + (IF MaxReqs > 0 /\ f >= WarmupReqs + MaxReqs THEN 1 ELSE 0)

KindOf(n) ==
  IF n = WarmupReqs + 1 THEN "ROI_BEGIN"
  ELSE IF MaxReqs > 0 /\ n = WarmupReqs + MaxReqs + 2 THEN "FINISH"
  ELSE "RESPONSE"

\* The server's last word is one more message.
joined == \E s \in Servers : spc[s] = "joined"
Sent == SentWith(finishedReqs) + (IF joined THEN 1 ELSE 0)
Kind(n) == IF joined /\ n = Sent THEN "FINISH" ELSE KindOf(n)

\* One more response is one more message, and the notices of sendResp are numbered next.
LEMMA Numbering ==
  ASSUME NEW f \in Nat, WarmupReqs > 0
  PROVE  LET k == Len(Notices(f + 1))
         IN /\ SentWith(f) \in Nat
            /\ KindOf(SentWith(f) + 1) = "RESPONSE"
            /\ k \in {0, 1}
            /\ SentWith(f + 1) = SentWith(f) + 1 + k
            /\ k = 1 => KindOf(SentWith(f) + 2) = Notices(f + 1)[1].type
<1>0. WarmupReqs \in Nat /\ MaxReqs \in Nat
  BY NetworkedAssumption
<1>1. SentWith(f) \in Nat
  BY <1>0 DEF SentWith
<1>2. KindOf(SentWith(f) + 1) = "RESPONSE"
  BY <1>0 DEF SentWith, KindOf
<1>3. CASE f + 1 = WarmupReqs
  <2>1. Len(Notices(f + 1)) = 1 /\ Notices(f + 1)[1].type = "ROI_BEGIN"
    <3>1. Notices(f + 1) = <<Control("ROI_BEGIN")>>
      BY <1>3 DEF Notices
    <3>2. QED
      BY <3>1 DEF Control
  <2>2. SentWith(f) = f /\ SentWith(f + 1) = f + 2
    BY <1>0, <1>3 DEF SentWith
  <2>3. KindOf(SentWith(f) + 2) = "ROI_BEGIN"
    BY <1>0, <1>3, <2>2 DEF KindOf
  <2>4. SentWith(f + 1) = SentWith(f) + 1 + Len(Notices(f + 1))
    <3> DEFINE k == Len(Notices(f + 1))
               v == SentWith(f + 1)
               u == SentWith(f)
    <3>1. k = 1
      BY <2>1
    <3>2. v = u + 2 /\ u \in Nat
      BY <1>1, <2>2
    <3> HIDE DEF k, u, v
    <3>3. v = u + 1 + k
      BY <3>1, <3>2
    <3>4. QED
      BY <3>3 DEF k, u, v
  <2>5. QED
    BY <1>1, <1>2, <2>1, <2>3, <2>4
<1>4. CASE f + 1 # WarmupReqs /\ f + 1 = WarmupReqs + MaxReqs
  <2>1. Len(Notices(f + 1)) = 1 /\ Notices(f + 1)[1].type = "FINISH"
    <3>1. Notices(f + 1) = <<Control("FINISH")>>
      BY <1>4 DEF Notices
    <3>2. QED
      BY <3>1 DEF Control
  <2>2. SentWith(f) = f + 1 /\ SentWith(f + 1) = f + 3
    BY <1>0, <1>4 DEF SentWith
  <2>3. KindOf(SentWith(f) + 2) = "FINISH"
    BY <1>0, <1>4, <2>2 DEF KindOf
  <2>4. SentWith(f + 1) = SentWith(f) + 1 + Len(Notices(f + 1))
    <3> DEFINE k == Len(Notices(f + 1))
               v == SentWith(f + 1)
               u == SentWith(f)
    <3>1. k = 1
      BY <2>1
    <3>2. v = u + 2 /\ u \in Nat
      BY <1>1, <2>2
    <3> HIDE DEF k, u, v
    <3>3. v = u + 1 + k
      BY <3>1, <3>2
    <3>4. QED
      BY <3>3 DEF k, u, v
  <2>5. QED
    BY <1>1, <1>2, <2>1, <2>3, <2>4
<1>5. CASE f + 1 # WarmupReqs /\ f + 1 # WarmupReqs + MaxReqs
  <2>1. Notices(f + 1) = <<>>
    BY <1>5 DEF Notices
  <2>2. SentWith(f + 1) = SentWith(f) + 1
    BY <1>0, <1>5 DEF SentWith
  <2>3. QED
    BY <1>1, <1>2, <2>1, <2>2
<1>6. QED
  BY <1>3, <1>4, <1>5

\* The workers are joined all at once, and those joined do nothing any more.
JoinedInv == joined => \A s \in Servers : spc[s] = "joined"

\* As long as nobody was overtaken, turn lists receivers with a message, each once.
TurnInv ==
  overtaken = "no" =>
    /\ \A i \in 1..Len(turn) : held[turn[i]] # NoMsg
    /\ \A i, j \in 1..Len(turn) : turn[i] = turn[j] => i = j

\* The first a messages of the connection have been acted on.
InOrder(a) ==
  /\ Sent = a + Len(turn) + Len(toClient)
  /\ \A i \in 1..Len(turn) : held[turn[i]].type = Kind(a + i)
  /\ \A i \in 1..Len(toClient) : toClient[i].type = Kind(a + Len(turn) + i)

\* ... and this is what they made of the client.
Effect(a) ==
  /\ MaxReqs > 0 => a < WarmupReqs + MaxReqs + 2
  /\ status = "ROI" <=> a >= WarmupReqs + 1
  /\ status = "ROI" => samples = a - (WarmupReqs + 1)

(***************************************************************************)
(* As long as nobody was overtaken, the messages not yet acted on are the  *)
(* last ones sent, those the receivers hold before those in the            *)
(* connection, and the client is where the ones before them take it.       *)
(***************************************************************************)
OrderInv ==
  (WarmupReqs > 0 /\ overtaken = "no" /\ ~exited) =>
    \E a \in Nat : InOrder(a) /\ Effect(a)

\* The server says its last word once, and the receivers in turn hold a message each.
THEOREM JoinedInvHolds == Spec => [](TypeOK /\ JoinedInv /\ TurnInv)
<1>1. Init => JoinedInv /\ TurnInv
  BY DEF Init, JoinedInv, TurnInv, joined
<1>2. TypeOK /\ JoinedInv /\ [Next]_vars => JoinedInv'
  <2> SUFFICES ASSUME TypeOK, JoinedInv, [Next]_vars
               PROVE  JoinedInv'
    OBVIOUS
  <2>0. spc \in [Servers -> ServerLabels]
    BY DEF TypeOK
  <2>1. CASE UNCHANGED spc
    BY <2>1 DEF JoinedInv, joined
  <2>2. ASSUME NEW s \in Servers, Server(s)
        PROVE  JoinedInv'
    <3>1. /\ spc[s] # "joined"
          /\ \E l \in ServerLabels \ {"joined"} : spc' = [spc EXCEPT ![s] = l]
      BY <2>2 DEF Server, ServerLoop, RecvReq, SendResp, Processed, ServerLabels
    <3>2. QED
      BY <2>0, <3>1 DEF JoinedInv, joined
  <2>3. CASE ServerFinish
    BY <2>3 DEF ServerFinish, JoinedInv, joined
  <2>4. ASSUME NEW t \in Threads, Sender(t)
        PROVE  UNCHANGED spc
    BY <2>4 DEF Sender, TestInFlight, ClientStartReq, ClientSend, ClientSendFails,
                serverVars
  <2>5. ASSUME NEW r \in Receivers, Receiver(r)
        PROVE  UNCHANGED spc
    BY <2>5 DEF Receiver, ClientRecv, ClientRecvFails, ClientAct, serverVars
  <2>6. CASE ServerReturn \/ ServerCrash \/ UNCHANGED vars
    BY <2>1, <2>6 DEF ServerReturn, ServerCrash, serverVars, vars
  <2>7. QED
    BY <2>1, <2>2, <2>3, <2>4, <2>5, <2>6 DEF Next, Ended
<1>3. TypeOK /\ TurnInv /\ [Next]_vars => TurnInv'
  <2> SUFFICES ASSUME TypeOK, TurnInv, [Next]_vars
               PROVE  TurnInv'
    OBVIOUS
  <2>0. /\ held \in [Receivers -> Msg \cup {NoMsg}]
        /\ toClient \in Seq(Msg) /\ turn \in Seq(Receivers)
        /\ overtaken \in {"yes", "no"}
    BY DEF TypeOK
  <2>1. CASE UNCHANGED <<held, turn, overtaken>>
    BY <2>1 DEF TurnInv
  <2>2. ASSUME NEW r \in Receivers, ClientRecv(r), overtaken' = "no"
        PROVE  TurnInv'
    <3>1. /\ overtaken = "no" /\ held[r] = NoMsg
          /\ toClient # <<>>
          /\ turn' = Append(turn, r)
          /\ held' = [held EXCEPT ![r] = toClient[1]]
      BY <2>0, <2>2, TakeFirst DEF ClientRecv
    <3>2. toClient[1] # NoMsg
      <4>1. 1 \in 1..Len(toClient)
        BY <2>0, <3>1, TakeFirst
      <4>2. toClient[1] \in Msg
        BY <2>0, <4>1, ElementOfSeq
      <4>3. QED
        BY <4>2, Messages
    <3>3. /\ Len(turn) \in Nat /\ Len(turn') = Len(turn) + 1
          /\ \A i \in 1..Len(turn) : turn'[i] = turn[i] /\ turn[i] \in Receivers
          /\ turn'[Len(turn) + 1] = r
      BY <2>0, <3>1
    <3>4. \A i \in 1..Len(turn') : i \in 1..Len(turn) \/ i = Len(turn) + 1
      BY <3>3
    <3>5. \A i \in 1..Len(turn) : turn[i] # r
      BY <3>1 DEF TurnInv
    <3>6. \A i \in 1..Len(turn') : held'[turn'[i]] # NoMsg
      BY <2>0, <3>1, <3>2, <3>3, <3>4 DEF TurnInv
    <3>7. \A i, j \in 1..Len(turn') : turn'[i] = turn'[j] => i = j
      BY <3>1, <3>3, <3>4, <3>5 DEF TurnInv
    <3>8. QED
      BY <3>6, <3>7 DEF TurnInv
  <2>3. ASSUME NEW r \in Receivers, ClientAct(r), overtaken' = "no"
        PROVE  TurnInv'
    <3>1. /\ overtaken = "no" /\ turn # <<>> /\ Head(turn) = r
          /\ turn' = Tail(turn)
          /\ held' = [held EXCEPT ![r] = NoMsg]
      BY <2>0, <2>3 DEF ClientAct
    <3>2. /\ Len(turn) \in Nat \ {0} /\ turn[1] = r
          /\ \A i \in 1..Len(turn') : turn'[i] = turn[i + 1] /\ i + 1 \in 1..Len(turn)
          /\ Len(turn') \in Nat
      BY <2>0, <3>1, TakeFirst
    <3>3. 1 \in 1..Len(turn) /\ \A i \in 1..Len(turn') : i + 1 # 1
      BY <3>2
    <3>4. \A i \in 1..Len(turn') : turn'[i] # r
      BY <3>1, <3>2, <3>3 DEF TurnInv
    <3>5. \A i \in 1..Len(turn') : held'[turn'[i]] # NoMsg
      BY <2>0, <3>1, <3>2, <3>4, ElementOfSeq DEF TurnInv
    <3>6. \A i, j \in 1..Len(turn') : turn'[i] = turn'[j] => i = j
      BY <3>1, <3>2 DEF TurnInv
    <3>7. QED
      BY <3>5, <3>6 DEF TurnInv
  <2>4. ASSUME NEW t \in Threads, Sender(t)
        PROVE  UNCHANGED <<held, turn, overtaken>>
    BY <2>4 DEF Sender, TestInFlight, ClientStartReq, ClientSend, ClientSendFails,
                historyVars
  <2>5. ASSUME NEW r \in Receivers, ClientRecvFails(r)
        PROVE  UNCHANGED <<held, turn, overtaken>>
    BY <2>5 DEF ClientRecvFails, historyVars
  <2>6. ASSUME NEW s \in Servers, Server(s)
        PROVE  UNCHANGED <<held, turn, overtaken>>
    BY <2>6 DEF Server, ServerLoop, RecvReq, SendResp, Processed, historyVars
  <2>7. ASSUME ServerFinish \/ ServerReturn \/ ServerCrash \/ UNCHANGED vars
        PROVE  UNCHANGED <<held, turn, overtaken>>
    BY <2>7 DEF ServerFinish, ServerReturn, ServerCrash, historyVars, vars
  <2>8. CASE overtaken' # "no"
    BY <2>8 DEF TurnInv
  <2>9. QED
    BY <2>1, <2>2, <2>3, <2>4, <2>5, <2>6, <2>7, <2>8 DEF Next, Receiver, Ended
<1>4. QED
  BY <1>1, <1>2, <1>3, TypeCorrect, PTL DEF Spec

\* A step that touches neither the messages nor the measurement.
LEMMA OrderQuiet ==
  ASSUME OrderInv, UNCHANGED <<toClient, held, turn, finishedReqs, samples, lats>>,
         overtaken' = overtaken, (status' = "ROI") = (status = "ROI"),
         joined' = joined
  PROVE  OrderInv'
<1> SUFFICES ASSUME WarmupReqs > 0, overtaken = "no", ~exited
             PROVE  \E a \in Nat : InOrder(a)' /\ Effect(a)'
  BY DEF OrderInv, exited
<1>1. PICK a \in Nat : InOrder(a) /\ Effect(a)
  BY DEF OrderInv
<1>2. Sent' = Sent
  BY DEF Sent
<1>3. InOrder(a)'
  BY <1>1, <1>2 DEF InOrder, Kind
<1>4. Effect(a)'
  BY <1>1 DEF Effect
<1>5. QED
  BY <1>3, <1>4

\* The messages are acted on in the order in which the server sent them, until one overtakes.
THEOREM OrderInvHolds ==
  Spec => [](TypeOK /\ RoiInv /\ StartupInv /\ JoinedInv /\ TurnInv /\ OrderInv)
<1> DEFINE Known == TypeOK /\ StartupInv /\ JoinedInv /\ TurnInv
<1>1. Init => OrderInv
  <2> SUFFICES ASSUME Init, WarmupReqs > 0
               PROVE  InOrder(0) /\ Effect(0)
    BY DEF OrderInv
  <2>1. WarmupReqs \in Nat /\ MaxReqs \in Nat
    BY NetworkedAssumption
  <2>2. SentWith(0) = 0
    BY <2>1 DEF SentWith
  <2>3. ~joined
    BY DEF Init, joined
  <2>4. InOrder(0)
    BY <2>2, <2>3 DEF Init, InOrder, Sent
  <2>5. Effect(0)
    BY <2>1 DEF Init, ClientInit, Effect
  <2>6. QED
    BY <2>4, <2>5
<1>2. Known /\ OrderInv /\ [Next]_vars => OrderInv'
  <2> SUFFICES ASSUME Known, OrderInv, [Next]_vars
               PROVE  OrderInv'
    OBVIOUS
  <2>0. /\ held \in [Receivers -> Msg \cup {NoMsg}]
        /\ toClient \in Seq(Msg) /\ turn \in Seq(Receivers)
        /\ spc \in [Servers -> ServerLabels]
        /\ finishedReqs \in Nat /\ samples \in Nat
        /\ WarmupReqs \in Nat /\ MaxReqs \in Nat
    BY NetworkedAssumption DEF TypeOK, ClientTypeOK
  <2>1. CASE UNCHANGED vars
    BY <2>1, OrderQuiet DEF vars, clientVars, serverVars, joined
  <2>2. ASSUME NEW t \in Threads, Sender(t)
        PROVE  OrderInv'
    <3>1. /\ UNCHANGED <<toClient, held, turn, finishedReqs, samples, lats, overtaken>>
          /\ joined' = joined
      BY <2>2 DEF Sender, TestInFlight, ClientStartReq, ClientSend, ClientSendFails,
                  StartReq, EnterStartReq, LeaveBarrier1, InitOnce, LeaveBarrier2,
                  NewReq, serverVars, historyVars, joined
    <3>2. (status' = "ROI") = (status = "ROI")
      BY <2>2 DEF Sender, TestInFlight, ClientStartReq, ClientSend, ClientSendFails,
                  StartReq, EnterStartReq, LeaveBarrier1, InitOnce, CreateDist,
                  LeaveBarrier2, NewReq, StartupInv
    <3>3. QED
      BY <3>1, <3>2, OrderQuiet
  <2>3. ASSUME NEW r \in Receivers, ClientRecv(r)
        PROVE  OrderInv'
    <3> SUFFICES ASSUME WarmupReqs > 0, overtaken' = "no", ~exited'
                 PROVE  \E a \in Nat : InOrder(a)' /\ Effect(a)'
      BY DEF OrderInv
    <3>1. /\ overtaken = "no" /\ ~exited
          /\ held[r] = NoMsg /\ toClient # <<>>
          /\ toClient' = Tail(toClient)
          /\ turn' = Append(turn, r)
          /\ held' = [held EXCEPT ![r] = toClient[1]]
          /\ UNCHANGED <<finishedReqs, spc, status, samples>>
      BY <2>0, <2>3, TakeFirst DEF ClientRecv, exited, clientVars, serverVars
    <3>2. PICK a \in Nat : InOrder(a) /\ Effect(a)
      BY <3>1 DEF OrderInv
    <3>3. Sent' = Sent /\ \A n : Kind(n)' = Kind(n)
      BY <3>1 DEF Sent, Kind, joined
    <3>4. /\ Len(turn) \in Nat /\ Len(turn') = Len(turn) + 1
          /\ \A i \in 1..Len(turn) : turn'[i] = turn[i] /\ turn[i] \in Receivers
          /\ turn'[Len(turn) + 1] = r
      BY <2>0, <3>1
    <3>5. /\ Len(toClient) \in Nat \ {0} /\ Len(toClient') = Len(toClient) - 1
          /\ \A i \in 1..Len(toClient') :
               toClient'[i] = toClient[i + 1] /\ i + 1 \in 1..Len(toClient)
      BY <2>0, <3>1, TakeFirst
    <3>6. Sent' = a + Len(turn') + Len(toClient')
      BY <3>2, <3>3, <3>4, <3>5 DEF InOrder
    <3>7. ASSUME NEW i \in 1..Len(turn')
          PROVE  held'[turn'[i]].type = Kind(a + i)'
      <4>1. CASE i \in 1..Len(turn)
        <5>1. turn[i] # r
          BY <3>1, <4>1 DEF TurnInv
        <5>2. QED
          BY <2>0, <3>1, <3>2, <3>3, <3>4, <4>1, <5>1 DEF InOrder
      <4>2. CASE i = Len(turn) + 1
        <5>1. 1 \in 1..Len(toClient)
          BY <3>5
        <5>2. toClient[1].type = Kind(a + Len(turn) + 1)
          BY <3>2, <5>1 DEF InOrder
        <5>3. a + Len(turn) + 1 = a + i
          BY <3>4, <4>2
        <5>4. held'[turn'[i]] = toClient[1]
          BY <2>0, <3>1, <3>4, <4>2
        <5>5. QED
          BY <3>3, <5>2, <5>3, <5>4
      <4>3. QED
        BY <3>4, <4>1, <4>2
    <3>8. ASSUME NEW i \in 1..Len(toClient')
          PROVE  toClient'[i].type = Kind(a + Len(turn) + i)'
      <4>1. toClient[i + 1].type = Kind(a + Len(turn) + (i + 1))
        BY <3>2, <3>5 DEF InOrder
      <4>2. a + Len(turn) + (i + 1) = a + Len(turn') + i
        BY <3>4, <3>5
      <4>3. QED
        BY <3>3, <3>5, <4>1, <4>2
    <3>9. InOrder(a)'
      BY <3>6, <3>7, <3>8 DEF InOrder
    <3>10. Effect(a)'
      BY <3>1, <3>2 DEF Effect
    <3>11. QED
      BY <3>9, <3>10
  <2>4. ASSUME NEW r \in Receivers, ClientRecvFails(r)
        PROVE  OrderInv'
    BY <2>4, OrderQuiet DEF ClientRecvFails, clientVars, serverVars, historyVars, joined
  <2>5. ASSUME NEW r \in Receivers, ClientAct(r)
        PROVE  OrderInv'
    <3> SUFFICES ASSUME WarmupReqs > 0, overtaken' = "no", ~exited'
                 PROVE  \E a \in Nat : InOrder(a)' /\ Effect(a)'
      BY DEF OrderInv
    <3>1. /\ overtaken = "no" /\ turn # <<>> /\ Head(turn) = r
          /\ turn' = Tail(turn)
          /\ held' = [held EXCEPT ![r] = NoMsg]
          /\ UNCHANGED <<finishedReqs, spc, toClient>>
      BY <2>5 DEF ClientAct, TypeOK, serverVars
    <3>2. /\ held[r].type # "FINISH" /\ ~exited
      BY <2>0, <2>5 DEF ClientAct, exited, NoFile
    <3>3. PICK a \in Nat : InOrder(a) /\ Effect(a)
      BY <3>1, <3>2 DEF OrderInv
    <3>4. Sent' = Sent /\ \A n : Kind(n)' = Kind(n)
      BY <3>1 DEF Sent, Kind, joined
    <3>5. /\ Len(turn) \in Nat \ {0} /\ turn[1] = r /\ Len(turn') = Len(turn) - 1
          /\ \A i \in 1..Len(turn') : turn'[i] = turn[i + 1] /\ i + 1 \in 1..Len(turn)
      BY <2>0, <3>1, TakeFirst
    <3>6. 1 \in 1..Len(turn) /\ \A i \in 1..Len(turn') : i + 1 # 1
      BY <3>5
    <3>7. held[r].type = Kind(a + 1)
      BY <3>3, <3>5, <3>6 DEF InOrder
    <3>8. Len(toClient) \in Nat
      BY <2>0
    <3>9. InOrder(a + 1)'
      <4>1. Sent' = (a + 1) + Len(turn') + Len(toClient')
        BY <3>1, <3>3, <3>4, <3>5, <3>8 DEF InOrder
      <4>2. ASSUME NEW i \in 1..Len(turn')
            PROVE  held'[turn'[i]].type = Kind((a + 1) + i)'
        <5>1. turn'[i] # r /\ turn'[i] \in Receivers
          <6>1. turn[i + 1] \in Receivers
            BY <2>0, <3>5, ElementOfSeq
          <6>2. QED
            BY <3>1, <3>5, <3>6, <6>1 DEF TurnInv
        <5>2. held[turn[i + 1]].type = Kind(a + (i + 1))
          BY <3>3, <3>5 DEF InOrder
        <5>3. a + (i + 1) = (a + 1) + i
          BY <3>5
        <5>4. held'[turn'[i]] = held[turn[i + 1]]
          BY <2>0, <3>1, <3>5, <5>1
        <5>5. QED
          BY <3>4, <5>2, <5>3, <5>4
      <4>3. ASSUME NEW i \in 1..Len(toClient')
            PROVE  toClient'[i].type = Kind((a + 1) + Len(turn) + i)'
        <5>1. toClient[i].type = Kind(a + Len(turn) + i)
          BY <3>1, <3>3 DEF InOrder
        <5>2. a + Len(turn) + i = (a + 1) + Len(turn') + i
          BY <3>5, <3>8
        <5>3. QED
          BY <3>1, <3>4, <5>1, <5>2
      <4>4. QED
        BY <4>1, <4>2, <4>3 DEF InOrder
    <3>10. Kind(a + 1) = KindOf(a + 1)
      BY <3>2, <3>7 DEF Kind
    <3>11. Effect(a + 1)'
      <4>1. a + 1 # WarmupReqs + MaxReqs + 2 \/ MaxReqs = 0
        BY <2>0, <3>2, <3>7, <3>10 DEF KindOf
      <4>2. CASE held[r].type = "ROI_BEGIN"
        <5>1. a + 1 = WarmupReqs + 1
          BY <3>7, <3>10, <4>2 DEF KindOf
        <5>2. status' = "ROI" /\ samples' = 0
          BY <2>5, <4>2 DEF ClientAct, StartRoi
        <5>3. QED
          BY <2>0, <5>1, <5>2 DEF Effect
      <4>3. CASE held[r].type = "RESPONSE"
        <5>1. a + 1 # WarmupReqs + 1
          BY <3>7, <3>10, <4>3 DEF KindOf
        <5>2. /\ UNCHANGED status
              /\ samples' = IF status = "ROI" THEN samples + 1 ELSE samples
          BY <2>5, <4>3 DEF ClientAct, FiniReq
        <5>3. MaxReqs > 0 => a + 1 < WarmupReqs + MaxReqs + 2
          BY <2>0, <3>3, <4>1 DEF Effect
        <5>4. (status = "ROI") <=> a >= WarmupReqs + 1
          BY <3>3 DEF Effect
        <5>5. a >= WarmupReqs + 1 <=> a + 1 >= WarmupReqs + 1
          BY <2>0, <5>1
        <5>6. status = "ROI" => samples' = (a + 1) - (WarmupReqs + 1)
          BY <2>0, <3>3, <5>2 DEF Effect
        <5>7. QED
          BY <5>2, <5>3, <5>4, <5>5, <5>6 DEF Effect
      <4>4. QED
        BY <2>5, <3>2, <4>2, <4>3 DEF ClientAct
    <3>12. QED
      BY <3>9, <3>11
  <2>6. ASSUME NEW s \in Servers, ServerLoop(s) \/ Processed(s) \/ RecvReq(s)
        PROVE  OrderInv'
    <3>1. \E l \in ServerLabels \ {"joined"} : spc' = [spc EXCEPT ![s] = l]
      BY <2>6 DEF ServerLoop, Processed, RecvReq, ServerLabels
    <3>2. spc[s] # "joined"
      BY <2>6 DEF ServerLoop, Processed, RecvReq
    <3>3. joined' = joined
      BY <2>0, <3>1, <3>2 DEF joined
    <3>4. QED
      BY <2>6, <3>3, OrderQuiet
      DEF ServerLoop, Processed, RecvReq, clientVars, historyVars
  <2>7. ASSUME NEW s \in Servers, SendResp(s)
        PROVE  OrderInv'
    <3> SUFFICES ASSUME WarmupReqs > 0, overtaken' = "no", ~exited'
                 PROVE  \E a \in Nat : InOrder(a)' /\ Effect(a)'
      BY DEF OrderInv
    <3> DEFINE n == Len(toClient)
               k == Len(Notices(finishedReqs + 1))
    <3>1. /\ overtaken = "no" /\ ~exited
          /\ finishedReqs' = finishedReqs + 1
          /\ spc' = [spc EXCEPT ![s] = "processed"] /\ spc[s] = "serve"
          /\ UNCHANGED <<held, turn, status, samples>>
      BY <2>7 DEF SendResp, clientVars, historyVars, exited
    <3>2. ~joined /\ ~joined'
      BY <2>0, <3>1 DEF JoinedInv, joined
    <3>3. PICK a \in Nat : InOrder(a) /\ Effect(a)
      BY <3>1 DEF OrderInv
    <3>4. /\ n \in Nat /\ k \in {0, 1}
          /\ Len(toClient') = n + 1 + k
          /\ \A i \in 1..n : toClient'[i] = toClient[i]
          /\ toClient'[n + 1] = Response(reqInfo[s])
          /\ k = 1 => toClient'[n + 2] = Notices(finishedReqs + 1)[1]
      BY <2>7, Answer
    <3>5. /\ SentWith(finishedReqs) \in Nat
          /\ KindOf(SentWith(finishedReqs) + 1) = "RESPONSE"
          /\ SentWith(finishedReqs + 1) = SentWith(finishedReqs) + 1 + k
          /\ k = 1 => KindOf(SentWith(finishedReqs) + 2) = Notices(finishedReqs + 1)[1].type
      BY <2>0, Numbering
    <3> HIDE DEF n, k
    <3>6. /\ Sent = SentWith(finishedReqs) /\ Sent' = Sent + 1 + k
          /\ \A m : Kind(m) = KindOf(m) /\ Kind(m)' = KindOf(m)
      <4>1. \A m : Kind(m) = KindOf(m) /\ Kind(m)' = KindOf(m)
        BY <3>2 DEF Kind
      <4>2. Sent = SentWith(finishedReqs) + 0 /\ Sent' = SentWith(finishedReqs + 1) + 0
        BY <3>1, <3>2 DEF Sent
      <4>3. QED
        BY <3>4, <3>5, <4>1, <4>2
    <3>7. Len(turn) \in Nat /\ Sent = a + Len(turn) + n
      BY <2>0, <3>3 DEF InOrder, n
    <3>8. InOrder(a)'
      <4>1. Sent' = a + Len(turn') + Len(toClient')
        BY <3>1, <3>4, <3>6, <3>7
      <4>2. \A i \in 1..Len(turn') : held'[turn'[i]].type = Kind(a + i)'
        BY <3>1, <3>3, <3>6 DEF InOrder
      <4>3. ASSUME NEW i \in 1..Len(toClient')
            PROVE  toClient'[i].type = KindOf(a + Len(turn) + i)
        <5>1. CASE i \in 1..n
          BY <3>3, <3>4, <3>6, <5>1 DEF InOrder, n
        <5>2. CASE i = n + 1
          <6>1. a + Len(turn) + i = SentWith(finishedReqs) + 1
            BY <3>4, <3>6, <3>7, <5>2
          <6>2. toClient'[i].type = "RESPONSE"
            BY <3>4, <5>2 DEF Response
          <6>3. QED
            BY <3>5, <6>1, <6>2
        <5>3. CASE i = n + 2 /\ k = 1
          <6>1. a + Len(turn) + i = SentWith(finishedReqs) + 2
            BY <3>4, <3>6, <3>7, <5>3
          <6>2. QED
            BY <3>4, <3>5, <5>3, <6>1
        <5>4. i \in 1..n \/ i = n + 1 \/ (i = n + 2 /\ k = 1)
          BY <3>4
        <5>5. QED
          BY <5>1, <5>2, <5>3, <5>4
      <4>4. QED
        BY <3>1, <3>6, <4>1, <4>2, <4>3 DEF InOrder
    <3>9. Effect(a)'
      BY <3>1, <3>3 DEF Effect
    <3>10. QED
      BY <3>8, <3>9
  <2>8. CASE ServerFinish
    <3> SUFFICES ASSUME WarmupReqs > 0, overtaken' = "no", ~exited'
                 PROVE  \E a \in Nat : InOrder(a)' /\ Effect(a)'
      BY DEF OrderInv
    <3> DEFINE n == Len(toClient)
    <3>1. /\ overtaken = "no" /\ ~exited
          /\ toClient' = Append(toClient, Control("FINISH"))
          /\ UNCHANGED <<held, turn, status, samples, finishedReqs>>
      BY <2>8 DEF ServerFinish, clientVars, historyVars, exited
    <3>2. ~joined /\ joined'
      BY <2>8, NetworkedAssumption DEF ServerFinish, joined
    <3>3. PICK a \in Nat : InOrder(a) /\ Effect(a)
      BY <3>1 DEF OrderInv
    <3>4. /\ n \in Nat /\ Len(toClient') = n + 1
          /\ \A i \in 1..n : toClient'[i] = toClient[i]
          /\ toClient'[n + 1] = Control("FINISH")
      BY <2>0, <3>1, Messages, AppendProperties
    <3>5. SentWith(finishedReqs) \in Nat
      BY <2>0, Numbering
    <3>6. /\ Sent \in Nat /\ Sent' = Sent + 1
          /\ \A m : Kind(m) = KindOf(m)
          /\ \A m : m # Sent + 1 => Kind(m)' = KindOf(m)
          /\ \A m : m = Sent + 1 => Kind(m)' = "FINISH"
      <4>1. \A m : Kind(m) = KindOf(m)
        BY <3>2 DEF Kind
      <4>2. Sent = SentWith(finishedReqs) + 0 /\ Sent' = SentWith(finishedReqs) + 1
        BY <3>1, <3>2 DEF Sent
      <4>3. Sent \in Nat /\ Sent' = Sent + 1
        BY <3>5, <4>2
      <4>4. \A m : Kind(m)' = IF m = Sent' THEN "FINISH" ELSE KindOf(m)
        BY <3>2 DEF Kind
      <4>5. QED
        BY <4>1, <4>3, <4>4
    <3> HIDE DEF n
    <3>7. Len(turn) \in Nat /\ Sent = a + Len(turn) + n
      BY <2>0, <3>3 DEF InOrder, n
    <3>8. InOrder(a)'
      <4>1. Sent' = a + Len(turn') + Len(toClient')
        BY <3>1, <3>4, <3>6, <3>7
      <4>2. ASSUME NEW i \in 1..Len(turn')
            PROVE  held'[turn'[i]].type = Kind(a + i)'
        <5>1. a + i # Sent + 1
          BY <3>1, <3>4, <3>7
        <5>2. QED
          BY <3>1, <3>3, <3>6, <5>1 DEF InOrder
      <4>3. ASSUME NEW i \in 1..Len(toClient')
            PROVE  toClient'[i].type = Kind(a + Len(turn) + i)'
        <5>1. CASE i \in 1..n
          <6>1. a + Len(turn) + i # Sent + 1
            BY <3>4, <3>7, <5>1
          <6>2. QED
            BY <3>1, <3>3, <3>4, <3>6, <5>1, <6>1 DEF InOrder, n
        <5>2. CASE i = n + 1
          <6>1. a + Len(turn') + i = Sent + 1
            BY <3>1, <3>4, <3>7, <5>2
          <6>2. toClient'[i].type = "FINISH"
            BY <3>4, <5>2 DEF Control
          <6>3. Kind(a + Len(turn) + i)' = "FINISH"
            BY <3>1, <3>6, <6>1
          <6>4. QED
            BY <6>2, <6>3
        <5>3. QED
          BY <3>4, <5>1, <5>2
      <4>4. QED
        BY <4>1, <4>2, <4>3 DEF InOrder
    <3>9. Effect(a)'
      BY <3>1, <3>3 DEF Effect
    <3>10. QED
      BY <3>8, <3>9
  <2>9. CASE ServerReturn \/ ServerCrash
    BY <2>9, OrderQuiet DEF ServerReturn, ServerCrash, clientVars, serverVars,
                            historyVars, joined
  <2>10. QED
    BY <2>1, <2>2, <2>3, <2>4, <2>5, <2>6, <2>7, <2>8, <2>9
    DEF Next, Receiver, Server, Ended
<1>3. QED
  BY <1>1, <1>2, StartupInvHolds, JoinedInvHolds, PTL DEF Spec

(***************************************************************************)
(* The latency file is exact as long as no receiver overtakes another:     *)
(* MaxReqs samples, or one for each answer after the warm-up when the      *)
(* application stopped first.  For any number of threads and any limits.   *)
(***************************************************************************)
THEOREM LatsExactInOrderHolds == Spec => []LatsExactInOrder
<1> DEFINE Known == TypeOK /\ RoiInv /\ StartupInv /\ JoinedInv /\ TurnInv /\ OrderInv
<1>1. Init => LatsExactInOrder
  BY DEF Init, LatsExactInOrder, exited
<1>2. Known /\ LatsExactInOrder /\ [Next]_vars => LatsExactInOrder'
  <2> SUFFICES ASSUME Known, LatsExactInOrder, [Next]_vars,
                      exited', overtaken' = "no", status' = "ROI"
               PROVE  \/ lats' = MaxReqs
                      \/ /\ lats' = finishedReqs' - WarmupReqs
                         /\ lats' < MaxReqs \/ MaxReqs = 0
    BY DEF LatsExactInOrder
  <2>0. /\ held \in [Receivers -> Msg \cup {NoMsg}]
        /\ turn \in Seq(Receivers) /\ toClient \in Seq(Msg)
        /\ finishedReqs \in Nat /\ samples \in Nat
        /\ WarmupReqs \in Nat /\ MaxReqs \in Nat
    BY NetworkedAssumption DEF TypeOK, ClientTypeOK
  <2>1. CASE UNCHANGED vars
    BY <2>1 DEF vars, clientVars, serverVars, exited, LatsExactInOrder
  <2>2. ASSUME ~exited, UNCHANGED lats
        PROVE  FALSE
    BY <2>2 DEF exited
  <2>3. ASSUME NEW t \in Threads, Sender(t)
        PROVE  UNCHANGED lats
    BY <2>3 DEF Sender, TestInFlight, ClientStartReq, ClientSend, ClientSendFails
  <2>4. ASSUME NEW s \in Servers, Server(s)
        PROVE  UNCHANGED lats
    BY <2>4 DEF Server, ServerLoop, RecvReq, SendResp, Processed
  <2>5. ASSUME ServerFinish \/ ServerReturn \/ ServerCrash
        PROVE  UNCHANGED lats
    BY <2>5 DEF ServerFinish, ServerReturn, ServerCrash
  <2>6. ASSUME NEW r \in Receivers, ClientRecv(r) \/ ClientRecvFails(r)
        PROVE  UNCHANGED lats
    BY <2>6 DEF ClientRecv, ClientRecvFails
  <2>7. ASSUME NEW r \in Receivers, ClientAct(r), ~exited
        PROVE  \/ lats' = MaxReqs
               \/ /\ lats' = finishedReqs' - WarmupReqs
                  /\ lats' < MaxReqs \/ MaxReqs = 0
    <3>1. /\ held[r].type = "FINISH"
          /\ lats' = samples /\ UNCHANGED <<status, finishedReqs>>
      BY <2>2, <2>7 DEF ClientAct, serverVars
    <3>2. overtaken = "no" /\ turn # <<>> /\ Head(turn) = r
      BY <2>7 DEF ClientAct, TypeOK
    <3>3. WarmupReqs > 0
      BY <2>0, <3>1 DEF RoiInv
    <3>4. PICK a \in Nat : InOrder(a) /\ Effect(a)
      BY <2>7, <3>2, <3>3 DEF OrderInv
    <3>5. Len(turn) \in Nat \ {0} /\ turn[1] = r /\ 1 \in 1..Len(turn)
      BY <2>0, <3>2, TakeFirst
    <3>6. Kind(a + 1) = "FINISH"
      BY <3>1, <3>4, <3>5 DEF InOrder
    <3>7. samples = a - (WarmupReqs + 1) /\ (MaxReqs > 0 => a < WarmupReqs + MaxReqs + 2)
      BY <3>1, <3>4 DEF Effect
    <3>8. CASE MaxReqs > 0 /\ a + 1 = WarmupReqs + MaxReqs + 2
      BY <2>0, <3>1, <3>7, <3>8
    <3>9. CASE joined /\ a + 1 = Sent
      <4>1. a = SentWith(finishedReqs)
        <5>1. SentWith(finishedReqs) \in Nat
          BY <2>0, <3>3, Numbering
        <5>2. Sent = SentWith(finishedReqs) + 1
          BY <3>9 DEF Sent
        <5>3. QED
          BY <3>9, <5>1, <5>2
      <4>2. a >= WarmupReqs + 1
        BY <3>1, <3>4 DEF Effect
      <4>3. CASE MaxReqs > 0 /\ finishedReqs >= WarmupReqs + MaxReqs
        BY <2>0, <3>7, <4>1, <4>3 DEF SentWith
      <4>4. CASE ~(MaxReqs > 0 /\ finishedReqs >= WarmupReqs + MaxReqs)
        <5>1. finishedReqs >= WarmupReqs
          BY <2>0, <4>1, <4>2, <4>4 DEF SentWith
        <5>2. a = finishedReqs + 1
          BY <2>0, <4>1, <4>4, <5>1 DEF SentWith
        <5>3. samples = finishedReqs - WarmupReqs
          BY <2>0, <3>7, <5>2
        <5>4. samples < MaxReqs \/ MaxReqs = 0
          BY <2>0, <4>4, <5>3
        <5>5. QED
          BY <3>1, <5>3, <5>4
      <4>5. QED
        BY <4>3, <4>4
    <3>10. QED
      BY <3>6, <3>8, <3>9 DEF Kind, KindOf
  <2>8. QED
    BY <2>1, <2>2, <2>3, <2>4, <2>5, <2>6, <2>7
    DEF Next, Receiver, Ended, clientUp, bothUp
<1>3. QED
  BY <1>1, <1>2, OrderInvHolds, PTL DEF Spec

==================================================================================
