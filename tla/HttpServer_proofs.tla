-------------------------- MODULE HttpServer_proofs --------------------------
(***************************************************************************)
(* The safety of the socket server and its client, for any clients,        *)
(* requests, answers, threads and starts.  A connection is submitted to    *)
(* the executor once, so its task goes once from its request to the close  *)
(* of its socket: IInv says what has been read and written at each place   *)
(* on that way, that a client finds a closed connection only at its end,   *)
(* and that every open connection has a thread that will close it.         *)
(* The last section proves what the return of stop rests on.               *)
(***************************************************************************)
EXTENDS HttpServer, TLAPS

Places == {"none", "queued", "head", "body", "handle", "send", "done"}

ServerType ==
    /\ running \in BOOLEAN /\ listening \in BOOLEAN /\ open \in BOOLEAN
    /\ owner \in {"out", "close", "join", "shutdown"} /\ starts \in Nat
    /\ acceptor \in {"none", "check", "accept", "submit", "refuse"}
    /\ accepted \in Clients \cup {NoClient}
    /\ acceptor \in {"submit", "refuse"} => accepted \in Clients
WireType ==
    /\ connection \in [Clients -> {"none", "backlog", "reset", "open", "closed"}]
    /\ sent \in [Clients -> Nat] /\ got \in [Clients -> Nat] /\ back \in [Clients -> Nat]
    /\ client \in [Clients -> {"idle", "send", "read", "returned"}]
    /\ request \in [Clients -> Requests]
    /\ received \in [Clients -> {"none", "error", "response"}]
TaskType ==
    /\ serving \in [Clients -> Places]
    /\ status \in [Clients -> {0, 200, 400, 413, 503}] /\ answer \in [Clients -> Nat]
    /\ handled \in [Clients -> Nat]
    /\ waiting \in Seq(Clients)
    /\ slot \in [Threads -> Clients \cup {NoClient}]
    /\ fate \in [Clients -> {"unsubmitted", "refused", "pending", "ready"}]
TypeOK == ServerType /\ WireType /\ TaskType

\* The server has read no more than was sent, and a client sends its request once.
WireOK == \A c \in Clients :
    /\ got[c] <= sent[c] /\ sent[c] <= Size(c)
    /\ client[c] = "idle" => sent[c] = 0
    /\ client[c] = "send" => sent[c] < Size(c)

\* A connection that was not submitted has no task, and one that has is answered at
\* the end of the task, when its socket is closed.
Unanswered(c) ==
    fate[c] = "unsubmitted" \/ serving[c] \in {"queued", "head", "body", "handle", "send"}
TaskOK == \A c \in Clients :
    /\ fate[c] = "unsubmitted" => serving[c] = "none"
    /\ Unanswered(c) =>
           connection[c] # "closed" /\ back[c] = 0 /\ received[c] # "response"
    /\ Unanswered(c) /\ serving[c] # "send" => handled[c] = 0 /\ status[c] # 200

\* What is behind the body, the call of handle and the time after it.
Whole(c) == got[c] = Size(c) /\ request[c].valid /\ Size(c) <= MaxRequest
ReadOK == \A c \in Clients :
    /\ serving[c] = "body" => request[c].valid /\ request[c].head <= got[c]
    /\ serving[c] = "handle" \/ handled[c] > 0 => Whole(c)

AnswerOK == \A c \in Clients :
    /\ handled[c] <= 1
    /\ status[c] = 200 <=> handled[c] = 1
    /\ back[c] <= 1 + answer[c]
    /\ received[c] = "response" => back[c] = 1 + answer[c]

\* Between stop and start there is no thread of the server.
OwnerOK ==
    /\ owner # "out" => ~running
    /\ owner = "shutdown" => acceptor = "none"
    /\ owner = "out" /\ ~running =>
           /\ acceptor = "none" /\ waiting = <<>>
           /\ \A w \in Threads : slot[w] = NoClient

\* Whoever closes an open connection: the acceptor that has just accepted or refused
\* it, or the executor.
InQueue(c) == \E i \in 1..Len(waiting) : waiting[i] = c
HasThread(c) ==
    \/ acceptor = "submit" /\ accepted = c
    \/ acceptor = "refuse" /\ accepted = c /\ serving[c] = "send"
    \/ InQueue(c)
    \/ \E w \in Threads : slot[w] = c /\ serving[c] \in {"head", "body", "handle", "send"}
OpenOK == \A c \in Clients : connection[c] = "open" => HasThread(c)

IInv == TypeOK /\ WireOK /\ TaskOK /\ ReadOK /\ AnswerOK /\ OwnerOK /\ OpenOK

-----------------------------------------------------------------------------
\* The task at the head of the queue is a connection.
LEMMA HeadOfQueue ==
    ASSUME IInv, waiting # <<>>
    PROVE  Head(waiting) \in Clients /\ Tail(waiting) \in Seq(Clients)
BY DEF IInv, TypeOK, TaskType

\* The request of a client, and its size.
LEMMA SizeType ==
    ASSUME IInv, NEW c \in Clients
    PROVE  /\ request[c].head \in Nat \ {0} /\ request[c].body \in Nat
           /\ request[c].valid \in BOOLEAN
           /\ Size(c) \in Nat /\ Size(c) >= request[c].head
<1>1. request[c] \in [head : Nat \ {0}, body : Nat, valid : BOOLEAN]
  BY HttpAssumption DEF IInv, TypeOK, WireType
<1> QED BY <1>1 DEF Size

\* A recv brings some of what was sent; then the task answers with an error, or goes
\* on: to the body behind a valid head, and to handle with a whole request.
LEMMA ReceiveEffect ==
    ASSUME IInv, NEW c \in Clients, Receive(c)
    PROVE  /\ serving[c] \in {"head", "body"}
           /\ got' \in [Clients -> Nat] /\ got'[c] <= sent[c]
           /\ \A d \in Clients : d # c => got'[d] = got[d]
           /\ \/ \E code \in {400, 413} : Reply(c, code, 1)
              \/ /\ \E to \in {"head", "body", "handle"} :
                        /\ serving' = [serving EXCEPT ![c] = to]
                        /\ to = "body" => request[c].valid /\ request[c].head <= got'[c]
                        /\ to = "handle" => /\ got'[c] = Size(c) /\ request[c].valid
                                            /\ Size(c) <= MaxRequest
                 /\ UNCHANGED <<status, answer>>
<1>a. /\ got \in [Clients -> Nat] /\ sent \in [Clients -> Nat] /\ got[c] <= sent[c]
      /\ sent[c] <= Size(c) /\ MaxRequest \in Nat
      /\ serving[c] = "body" => request[c].valid /\ request[c].head <= got[c]
  BY HttpAssumption DEF IInv, TypeOK, WireType, WireOK, ReadOK
<1>1. PICK n \in 1..(sent[c] - got[c]) : got' = [got EXCEPT ![c] = @ + n]
  BY DEF Receive
<1>2. /\ got' \in [Clients -> Nat] /\ got[c] < got'[c] /\ got'[c] <= sent[c]
      /\ \A d \in Clients : d # c => got'[d] = got[d]
  BY ONLY <1>1, <1>a
<1>3. serving[c] \in {"head", "body"} /\ Checked(c) /\ request' = request
  BY DEF Receive, clients
<1>4. CASE \E code \in {400, 413} : Reply(c, code, 1)
  BY <1>2, <1>3, <1>4
<1>5. CASE ~\E code \in {400, 413} : Reply(c, code, 1)
  <2>1. /\ got'[c] <= MaxRequest
        /\ serving[c] = "head" /\ got'[c] >= request[c].head =>
               request[c].valid /\ Size(c) <= MaxRequest
        /\ serving' = [serving EXCEPT ![c] =
               IF got'[c] >= Size(c) THEN "handle"
               ELSE IF got'[c] >= request[c].head THEN "body" ELSE "head"]
        /\ UNCHANGED <<status, answer>>
    BY <1>2, <1>3, <1>5, <1>a, SizeType DEF Checked
  <2>2. got'[c] >= request[c].head => request[c].valid
    BY <2>1, <1>2, <1>3, <1>a, SizeType
  <2>3. got'[c] >= Size(c) => got'[c] = Size(c) /\ Size(c) <= MaxRequest /\ request[c].valid
    BY <2>1, <2>2, <1>2, <1>a, SizeType
  <2> QED BY ZenonT(60), <2>1, <2>2, <2>3, <1>2, <1>3
<1> QED BY <1>4, <1>5

-----------------------------------------------------------------------------
(* Each part of IInv is kept *)

\* The owner and the acceptor are at one of their places; a connection is submitted
\* after it was accepted.
LEMMA ServerTypeStep == ASSUME IInv, [HttpNext]_httpVars PROVE ServerType'
<1>0. ServerType
  BY DEF IInv, TypeOK
<1> USE <1>0 DEF ServerType, server, wire, clients, tasks, executor
<1>1. CASE Start
  <2>1. starts' \in Nat /\ acceptor' \in {acceptor, "check"} /\ UNCHANGED <<owner, accepted>>
    BY <1>1 DEF Start
  <2>2. running' \in BOOLEAN /\ listening' \in BOOLEAN
    BY <1>1, Zenon DEF Start
  <2>3. open' = open
    BY <1>1 DEF Start
  <2>4. open' \in BOOLEAN
    BY ONLY <1>0, <2>3, Zenon DEF ServerType
  <2> QED BY ONLY <1>0, <2>1, <2>2, <2>4 DEF ServerType
<1>2. CASE Stop
  BY <1>2 DEF Stop
<1>3. CASE StopListener
  BY <1>3 DEF StopListener, CloseListener
<1>4. CASE JoinAcceptor
  BY <1>4 DEF JoinAcceptor, Executor!Close
<1>5. CASE StopReturns
  BY <1>5 DEF StopReturns
<1>6. CASE CheckRunning
  BY <1>6 DEF CheckRunning, Acceptor
<1>7. ASSUME NEW c \in Clients, Accept(c) PROVE ServerType'
  BY <1>7 DEF Accept, Acceptor
<1>8. CASE AcceptFails
  BY <1>8 DEF AcceptFails, Acceptor
<1>9. CASE Submit
  BY <1>9 DEF Submit, Acceptor, Reply, Executor!Refuse, Executor!Accept
<1>10. CASE Refused
  BY <1>10 DEF Refused, Acceptor
<1>11. ASSUME NEW w \in Threads, TaskStart(w) PROVE ServerType'
  BY <1>11 DEF TaskStart, Serve, CloseSocket, Executor!Start
<1>12. ASSUME NEW w \in Threads, TaskEnd(w) PROVE ServerType'
  BY <1>12 DEF TaskEnd, Serve, Executor!Finish
<1>13. ASSUME NEW c \in Clients, Receive(c) PROVE ServerType'
  BY <1>13 DEF Receive
<1>14. ASSUME NEW c \in Clients, ReceiveFails(c) PROVE ServerType'
  BY <1>14 DEF ReceiveFails, Reply
<1>15. ASSUME NEW c \in Clients, Handle(c) PROVE ServerType'
  BY <1>15 DEF Handle, Reply
<1>16. ASSUME NEW c \in Clients, Send(c) PROVE ServerType'
  BY <1>16 DEF Send, Serve, CloseSocket
<1>17. ASSUME NEW c \in Clients, Connect(c) PROVE ServerType'
  BY <1>17 DEF Connect, Return
<1>18. ASSUME NEW c \in Clients, ClientSend(c) PROVE ServerType'
  BY <1>18 DEF ClientSend
<1>19. ASSUME NEW c \in Clients, ClientParses(c) PROVE ServerType'
  BY <1>19 DEF ClientParses, Return, IsComplete
<1>20. ASSUME NEW c \in Clients, ClientFails(c) PROVE ServerType'
  BY <1>20 DEF ClientFails, Return
<1>21. CASE UNCHANGED httpVars
  BY <1>21 DEF httpVars
<1> QED
  BY <1>1, <1>2, <1>3, <1>4, <1>5, <1>6, <1>7, <1>8, <1>9, <1>10, <1>11, <1>12, <1>13,
     <1>14, <1>15, <1>16, <1>17, <1>18, <1>19, <1>20, <1>21
  DEF HttpNext, Own, AcceptLoop, TaskStep, Work, ClientStep

\* Connections, clients and counts of units stay what they are.
LEMMA WireTypeStep == ASSUME IInv, [HttpNext]_httpVars PROVE WireType'
<1>0. WireType /\ TaskType
  BY DEF IInv, TypeOK
<1>a. answer \in [Clients -> Nat]
  BY <1>0 DEF TaskType
<1> USE <1>0, <1>a DEF WireType, server, wire, clients, tasks, executor
<1>1. CASE Start
  BY <1>1 DEF Start
<1>2. CASE Stop
  BY <1>2 DEF Stop
<1>3. CASE StopListener
  BY <1>3 DEF StopListener, CloseListener
<1>4. CASE JoinAcceptor
  BY <1>4 DEF JoinAcceptor, Executor!Close
<1>5. CASE StopReturns
  BY <1>5 DEF StopReturns
<1>6. CASE CheckRunning
  BY <1>6 DEF CheckRunning, Acceptor
<1>7. ASSUME NEW c \in Clients, Accept(c) PROVE WireType'
  BY <1>7 DEF Accept, Acceptor
<1>8. CASE AcceptFails
  BY <1>8 DEF AcceptFails, Acceptor
<1>9. CASE Submit
  BY <1>9 DEF Submit, Acceptor, Reply, Executor!Refuse, Executor!Accept
<1>10. CASE Refused
  BY <1>10 DEF Refused, Acceptor
<1>11. ASSUME NEW w \in Threads, TaskStart(w) PROVE WireType'
  BY <1>11 DEF TaskStart, Serve, CloseSocket, Executor!Start
<1>12. ASSUME NEW w \in Threads, TaskEnd(w) PROVE WireType'
  BY <1>12 DEF TaskEnd, Serve, Executor!Finish
<1>13. ASSUME NEW c \in Clients, Receive(c) PROVE WireType'
  <2>1. /\ serving[c] \in {"head", "body"}
        /\ got' \in [Clients -> Nat] /\ got'[c] <= sent[c]
        /\ \A d \in Clients : d # c => got'[d] = got[d]
        /\ \/ \E code \in {400, 413} : Reply(c, code, 1)
           \/ /\ \E to \in {"head", "body", "handle"} :
                     /\ serving' = [serving EXCEPT ![c] = to]
                     /\ to = "body" => request[c].valid /\ request[c].head <= got'[c]
                     /\ to = "handle" => /\ got'[c] = Size(c) /\ request[c].valid
                                         /\ Size(c) <= MaxRequest
              /\ UNCHANGED <<status, answer>>
    BY <1>13, ReceiveEffect
  <2> QED BY <1>13, <2>1 DEF Receive, Reply
<1>14. ASSUME NEW c \in Clients, ReceiveFails(c) PROVE WireType'
  BY <1>14 DEF ReceiveFails, Reply
<1>15. ASSUME NEW c \in Clients, Handle(c) PROVE WireType'
  BY <1>15 DEF Handle, Reply
<1>16. ASSUME NEW c \in Clients, Send(c) PROVE WireType'
  BY <1>16 DEF Send, Serve, CloseSocket
<1>17. ASSUME NEW c \in Clients, Connect(c) PROVE WireType'
  BY <1>17 DEF Connect, Return
<1>18. ASSUME NEW c \in Clients, ClientSend(c) PROVE WireType'
  BY <1>18 DEF ClientSend
<1>19. ASSUME NEW c \in Clients, ClientParses(c) PROVE WireType'
  BY <1>19 DEF ClientParses, Return, IsComplete
<1>20. ASSUME NEW c \in Clients, ClientFails(c) PROVE WireType'
  BY <1>20 DEF ClientFails, Return
<1>21. CASE UNCHANGED httpVars
  BY <1>21 DEF httpVars
<1> QED
  BY <1>1, <1>2, <1>3, <1>4, <1>5, <1>6, <1>7, <1>8, <1>9, <1>10, <1>11, <1>12, <1>13,
     <1>14, <1>15, <1>16, <1>17, <1>18, <1>19, <1>20, <1>21
  DEF HttpNext, Own, AcceptLoop, TaskStep, Work, ClientStep

\* A task is at one of its places, and the executor holds connections.
LEMMA TaskTypeStep == ASSUME IInv, [HttpNext]_httpVars PROVE TaskType'
<1>0. TaskType
  BY DEF IInv, TypeOK
<1>b. waiting \in Seq(Clients) /\ serving \in [Clients -> Places]
  BY ONLY <1>0 DEF TaskType
<1>c. fate \in [Clients -> {"unsubmitted", "refused", "pending", "ready"}]
  BY ONLY <1>0 DEF TaskType
<1>d. status \in [Clients -> {0, 200, 400, 413, 503}] /\ answer \in [Clients -> Nat]
  BY ONLY <1>0 DEF TaskType
<1> USE <1>0, HttpAssumption DEF TaskType, Places, server, wire, clients, tasks, executor
<1>1. CASE Start
  BY <1>1 DEF Start
<1>2. CASE Stop
  BY <1>2 DEF Stop
<1>3. CASE StopListener
  BY <1>3 DEF StopListener, CloseListener
<1>4. CASE JoinAcceptor
  BY <1>4 DEF JoinAcceptor, Executor!Close
<1>5. CASE StopReturns
  BY <1>5 DEF StopReturns
<1>6. CASE CheckRunning
  BY <1>6 DEF CheckRunning, Acceptor
<1>7. ASSUME NEW c \in Clients, Accept(c) PROVE TaskType'
  BY <1>7 DEF Accept, Acceptor
<1>8. CASE AcceptFails
  BY <1>8 DEF AcceptFails, Acceptor
<1>9. CASE Submit
  <2>1. accepted \in Clients
    BY <1>9 DEF Submit, Acceptor, IInv, TypeOK, ServerType
  <2>2. UNCHANGED <<slot, handled>>
    BY <1>9 DEF Submit, Executor!Refuse, Executor!Accept
  <2>3. waiting' = waiting \/ waiting' = Append(waiting, accepted)
    BY <1>9 DEF Submit, Executor!Refuse, Executor!Accept
  <2>4. waiting' \in Seq(Clients)
    BY ONLY <1>b, <2>1, <2>3
  <2>5. \E to \in {"send", "queued"} : serving' = [serving EXCEPT ![accepted] = to]
    BY <1>9 DEF Submit, Reply
  <2>6. serving' \in [Clients -> Places]
    BY ONLY <1>b, <2>5 DEF Places
  <2>7. \E what \in {"refused", "pending"} : fate' = [fate EXCEPT ![accepted] = what]
    BY <1>9 DEF Submit, Executor!Refuse, Executor!Accept
  <2>8. fate' \in [Clients -> {"unsubmitted", "refused", "pending", "ready"}]
    BY ONLY <1>c, <2>7
  <2>9. \/ /\ status' = [status EXCEPT ![accepted] = 503]
           /\ answer' = [answer EXCEPT ![accepted] = 1]
        \/ UNCHANGED <<status, answer>>
    BY <1>9 DEF Submit, Reply
  <2>10. status' \in [Clients -> {0, 200, 400, 413, 503}] /\ answer' \in [Clients -> Nat]
    BY ONLY <1>d, <2>9
  <2> QED BY ONLY <1>0, <2>2, <2>4, <2>6, <2>8, <2>10 DEF TaskType
<1>10. CASE Refused
  BY <1>10 DEF Refused, Acceptor
<1>11. ASSUME NEW w \in Threads, TaskStart(w) PROVE TaskType'
  <2>1. Head(waiting) \in Clients /\ Tail(waiting) \in Seq(Clients)
    BY <1>11, HeadOfQueue DEF TaskStart, Executor!Start
  <2>2. /\ UNCHANGED <<status, answer, handled, fate>> /\ waiting' = Tail(waiting)
        /\ slot' = [slot EXCEPT ![w] = Head(waiting)]
    BY <1>11 DEF TaskStart, Executor!Start
  <2>3. \E to \in {"head", "done"} : serving' = [serving EXCEPT ![Head(waiting)] = to]
    BY <1>11 DEF TaskStart, Serve
  <2>4. serving' \in [Clients -> Places]
    BY ONLY <1>b, <2>3 DEF Places
  <2> QED BY ONLY <1>0, <2>1, <2>2, <2>4 DEF TaskType
<1>12. ASSUME NEW w \in Threads, TaskEnd(w) PROVE TaskType'
  BY <1>12 DEF TaskEnd, Serve, Executor!Finish
<1>13. ASSUME NEW c \in Clients, Receive(c) PROVE TaskType'
  <2>1. /\ serving[c] \in {"head", "body"}
        /\ got' \in [Clients -> Nat] /\ got'[c] <= sent[c]
        /\ \A d \in Clients : d # c => got'[d] = got[d]
        /\ \/ \E code \in {400, 413} : Reply(c, code, 1)
           \/ /\ \E to \in {"head", "body", "handle"} :
                     /\ serving' = [serving EXCEPT ![c] = to]
                     /\ to = "body" => request[c].valid /\ request[c].head <= got'[c]
                     /\ to = "handle" => /\ got'[c] = Size(c) /\ request[c].valid
                                         /\ Size(c) <= MaxRequest
              /\ UNCHANGED <<status, answer>>
    BY <1>13, ReceiveEffect
  <2>2. UNCHANGED <<handled, waiting, slot, fate>>
    BY <1>13 DEF Receive, executor
  <2>3. CASE \E code \in {400, 413} : Reply(c, code, 1)
    BY <2>2, <2>3 DEF Reply
  <2>4. CASE UNCHANGED <<status, answer>>
    <3>1. \E to \in {"head", "body", "handle", "send"} : serving' = [serving EXCEPT ![c] = to]
      BY ONLY <2>1 DEF Reply
    <3>2. serving' \in [Clients -> Places]
      BY ONLY <1>b, <3>1 DEF Places
    <3> QED BY ONLY <1>0, <2>2, <2>4, <3>2 DEF TaskType
  <2> QED BY ONLY <2>1, <2>3, <2>4
<1>14. ASSUME NEW c \in Clients, ReceiveFails(c) PROVE TaskType'
  BY <1>14 DEF ReceiveFails, Reply
<1>15. ASSUME NEW c \in Clients, Handle(c) PROVE TaskType'
  BY <1>15 DEF Handle, Reply
<1>16. ASSUME NEW c \in Clients, Send(c) PROVE TaskType'
  BY <1>16 DEF Send, Serve, CloseSocket
<1>17. ASSUME NEW c \in Clients, Connect(c) PROVE TaskType'
  BY <1>17 DEF Connect, Return
<1>18. ASSUME NEW c \in Clients, ClientSend(c) PROVE TaskType'
  BY <1>18 DEF ClientSend
<1>19. ASSUME NEW c \in Clients, ClientParses(c) PROVE TaskType'
  BY <1>19 DEF ClientParses, Return, IsComplete
<1>20. ASSUME NEW c \in Clients, ClientFails(c) PROVE TaskType'
  BY <1>20 DEF ClientFails, Return
<1>21. CASE UNCHANGED httpVars
  BY <1>21 DEF httpVars
<1> QED
  BY SMTT(30), <1>1, <1>2, <1>3, <1>4, <1>5, <1>6, <1>7, <1>8, <1>9, <1>10, <1>11, <1>12, <1>13,
     <1>14, <1>15, <1>16, <1>17, <1>18, <1>19, <1>20, <1>21
  DEF HttpNext, Own, AcceptLoop, TaskStep, Work, ClientStep

\* A client stops at the end of its request.
LEMMA WireStep == ASSUME IInv, [HttpNext]_httpVars PROVE WireOK'
<1>0. WireOK /\ WireType
  BY DEF IInv, TypeOK
<1>a. \A c \in Clients : Size(c) \in Nat /\ Size(c) > 0
  BY SizeType
<1>b. request' = request => \A c \in Clients : Size(c)' = Size(c)
  BY DEF Size
<1> USE <1>0, <1>a, <1>b DEF WireOK, WireType, server, wire, clients, tasks, executor
<1>1. CASE Start
  BY <1>1 DEF Start
<1>2. CASE Stop
  BY <1>2 DEF Stop
<1>3. CASE StopListener
  BY <1>3 DEF StopListener, CloseListener
<1>4. CASE JoinAcceptor
  BY <1>4 DEF JoinAcceptor, Executor!Close
<1>5. CASE StopReturns
  BY <1>5 DEF StopReturns
<1>6. CASE CheckRunning
  BY <1>6 DEF CheckRunning, Acceptor
<1>7. ASSUME NEW c \in Clients, Accept(c) PROVE WireOK'
  BY <1>7 DEF Accept, Acceptor
<1>8. CASE AcceptFails
  BY <1>8 DEF AcceptFails, Acceptor
<1>9. CASE Submit
  BY <1>9 DEF Submit, Acceptor, Reply, Executor!Refuse, Executor!Accept
<1>10. CASE Refused
  BY <1>10 DEF Refused, Acceptor
<1>11. ASSUME NEW w \in Threads, TaskStart(w) PROVE WireOK'
  BY <1>11 DEF TaskStart, Serve, CloseSocket, Executor!Start
<1>12. ASSUME NEW w \in Threads, TaskEnd(w) PROVE WireOK'
  BY <1>12 DEF TaskEnd, Serve, Executor!Finish
<1>13. ASSUME NEW c \in Clients, Receive(c) PROVE WireOK'
  <2>1. /\ serving[c] \in {"head", "body"}
        /\ got' \in [Clients -> Nat] /\ got'[c] <= sent[c]
        /\ \A d \in Clients : d # c => got'[d] = got[d]
        /\ \/ \E code \in {400, 413} : Reply(c, code, 1)
           \/ /\ \E to \in {"head", "body", "handle"} :
                     /\ serving' = [serving EXCEPT ![c] = to]
                     /\ to = "body" => request[c].valid /\ request[c].head <= got'[c]
                     /\ to = "handle" => /\ got'[c] = Size(c) /\ request[c].valid
                                         /\ Size(c) <= MaxRequest
              /\ UNCHANGED <<status, answer>>
    BY <1>13, ReceiveEffect
  <2> QED BY <1>13, <2>1 DEF Receive, Reply
<1>14. ASSUME NEW c \in Clients, ReceiveFails(c) PROVE WireOK'
  BY <1>14 DEF ReceiveFails, Reply
<1>15. ASSUME NEW c \in Clients, Handle(c) PROVE WireOK'
  BY <1>15 DEF Handle, Reply
<1>16. ASSUME NEW c \in Clients, Send(c) PROVE WireOK'
  BY <1>16 DEF Send, Serve, CloseSocket
<1>17. ASSUME NEW c \in Clients, Connect(c) PROVE WireOK'
  BY <1>17 DEF Connect, Return
<1>18. ASSUME NEW c \in Clients, ClientSend(c) PROVE WireOK'
  BY <1>18 DEF ClientSend
<1>19. ASSUME NEW c \in Clients, ClientParses(c) PROVE WireOK'
  BY <1>19 DEF ClientParses, Return, IsComplete
<1>20. ASSUME NEW c \in Clients, ClientFails(c) PROVE WireOK'
  BY <1>20 DEF ClientFails, Return
<1>21. CASE UNCHANGED httpVars
  BY <1>21 DEF httpVars
<1> QED
  BY <1>1, <1>2, <1>3, <1>4, <1>5, <1>6, <1>7, <1>8, <1>9, <1>10, <1>11, <1>12, <1>13,
     <1>14, <1>15, <1>16, <1>17, <1>18, <1>19, <1>20, <1>21
  DEF HttpNext, Own, AcceptLoop, TaskStep, Work, ClientStep

\* A connection is submitted once, and its task goes one way.
LEMMA TasksStep == ASSUME IInv, [HttpNext]_httpVars PROVE TaskOK'
<1>0. TaskOK
  BY DEF IInv
<1>a. /\ connection \in [Clients -> {"none", "backlog", "reset", "open", "closed"}]
      /\ back \in [Clients -> Nat] /\ received \in [Clients -> {"none", "error", "response"}]
      /\ serving \in [Clients -> Places] /\ status \in [Clients -> {0, 200, 400, 413, 503}]
      /\ handled \in [Clients -> Nat] /\ slot \in [Threads -> Clients \cup {NoClient}]
      /\ fate \in [Clients -> {"unsubmitted", "refused", "pending", "ready"}]
  BY DEF IInv, TypeOK, WireType, TaskType
<1> USE <1>0, <1>a DEF TaskOK, Unanswered, Places, server, wire, clients, tasks, executor
<1>1. CASE Start
  BY <1>1 DEF Start
<1>2. CASE Stop
  BY <1>2 DEF Stop
<1>3. CASE StopListener
  BY <1>3 DEF StopListener, CloseListener
<1>4. CASE JoinAcceptor
  BY <1>4 DEF JoinAcceptor, Executor!Close
<1>5. CASE StopReturns
  BY <1>5 DEF StopReturns
<1>6. CASE CheckRunning
  BY <1>6 DEF CheckRunning, Acceptor
<1>7. ASSUME NEW c \in Clients, Accept(c) PROVE TaskOK'
  BY <1>7 DEF Accept, Acceptor
<1>8. CASE AcceptFails
  BY <1>8 DEF AcceptFails, Acceptor
<1>9. CASE Submit
  BY <1>9 DEF Submit, Acceptor, Reply, Executor!Refuse, Executor!Accept, IInv, TypeOK,
     ServerType
<1>10. CASE Refused
  BY <1>10 DEF Refused, Acceptor
<1>11. ASSUME NEW w \in Threads, TaskStart(w) PROVE TaskOK'
  BY <1>11, HeadOfQueue DEF TaskStart, Serve, CloseSocket, Executor!Start
<1>12. ASSUME NEW w \in Threads, TaskEnd(w) PROVE TaskOK'
  BY <1>12 DEF TaskEnd, Serve, Executor!Finish
<1>13. ASSUME NEW c \in Clients, Receive(c) PROVE TaskOK'
  <2>1. /\ serving[c] \in {"head", "body"}
        /\ got' \in [Clients -> Nat] /\ got'[c] <= sent[c]
        /\ \A d \in Clients : d # c => got'[d] = got[d]
        /\ \/ \E code \in {400, 413} : Reply(c, code, 1)
           \/ /\ \E to \in {"head", "body", "handle"} :
                     /\ serving' = [serving EXCEPT ![c] = to]
                     /\ to = "body" => request[c].valid /\ request[c].head <= got'[c]
                     /\ to = "handle" => /\ got'[c] = Size(c) /\ request[c].valid
                                         /\ Size(c) <= MaxRequest
              /\ UNCHANGED <<status, answer>>
    BY <1>13, ReceiveEffect
  <2> QED BY <1>13, <2>1 DEF Receive, Reply
<1>14. ASSUME NEW c \in Clients, ReceiveFails(c) PROVE TaskOK'
  BY <1>14 DEF ReceiveFails, Reply
<1>15. ASSUME NEW c \in Clients, Handle(c) PROVE TaskOK'
  BY <1>15 DEF Handle, Reply
<1>16. ASSUME NEW c \in Clients, Send(c) PROVE TaskOK'
  BY <1>16 DEF Send, Serve, CloseSocket
<1>17. ASSUME NEW c \in Clients, Connect(c) PROVE TaskOK'
  BY <1>17 DEF Connect, Return
<1>18. ASSUME NEW c \in Clients, ClientSend(c) PROVE TaskOK'
  BY <1>18 DEF ClientSend
<1>19. ASSUME NEW c \in Clients, ClientParses(c) PROVE TaskOK'
  BY <1>19 DEF ClientParses, Return, IsComplete
<1>20. ASSUME NEW c \in Clients, ClientFails(c) PROVE TaskOK'
  BY <1>20 DEF ClientFails, Return
<1>21. CASE UNCHANGED httpVars
  BY <1>21 DEF httpVars
<1> QED
  BY <1>1, <1>2, <1>3, <1>4, <1>5, <1>6, <1>7, <1>8, <1>9, <1>10, <1>11, <1>12, <1>13,
     <1>14, <1>15, <1>16, <1>17, <1>18, <1>19, <1>20, <1>21
  DEF HttpNext, Own, AcceptLoop, TaskStep, Work, ClientStep

\* A task goes on when it has read enough, and reads no more.
LEMMA ReadStep == ASSUME IInv, [HttpNext]_httpVars PROVE ReadOK'
<1>0. ReadOK /\ TaskOK
  BY DEF IInv
<1>a. /\ serving \in [Clients -> Places] /\ handled \in [Clients -> Nat]
      /\ request \in [Clients -> Requests] /\ got \in [Clients -> Nat]
      /\ slot \in [Threads -> Clients \cup {NoClient}]
  BY DEF IInv, TypeOK, WireType, TaskType
<1>b. request' = request => \A c \in Clients : Size(c)' = Size(c)
  BY DEF Size
<1> USE <1>0, <1>a, <1>b DEF ReadOK, Whole, Places, server, wire, clients, tasks, executor
<1>1. CASE Start
  BY <1>1 DEF Start
<1>2. CASE Stop
  BY <1>2 DEF Stop
<1>3. CASE StopListener
  BY <1>3 DEF StopListener, CloseListener
<1>4. CASE JoinAcceptor
  BY <1>4 DEF JoinAcceptor, Executor!Close
<1>5. CASE StopReturns
  BY <1>5 DEF StopReturns
<1>6. CASE CheckRunning
  BY <1>6 DEF CheckRunning, Acceptor
<1>7. ASSUME NEW c \in Clients, Accept(c) PROVE ReadOK'
  BY <1>7 DEF Accept, Acceptor
<1>8. CASE AcceptFails
  BY <1>8 DEF AcceptFails, Acceptor
<1>9. CASE Submit
  BY <1>9 DEF Submit, Acceptor, Reply, Executor!Refuse, Executor!Accept, IInv, TypeOK,
     ServerType
<1>10. CASE Refused
  BY <1>10 DEF Refused, Acceptor
<1>11. ASSUME NEW w \in Threads, TaskStart(w) PROVE ReadOK'
  BY <1>11, HeadOfQueue DEF TaskStart, Serve, CloseSocket, Executor!Start
<1>12. ASSUME NEW w \in Threads, TaskEnd(w) PROVE ReadOK'
  BY <1>12 DEF TaskEnd, Serve, Executor!Finish
<1>13. ASSUME NEW c \in Clients, Receive(c) PROVE ReadOK'
  <2>1. /\ serving[c] \in {"head", "body"}
        /\ got' \in [Clients -> Nat] /\ got'[c] <= sent[c]
        /\ \A d \in Clients : d # c => got'[d] = got[d]
        /\ \/ \E code \in {400, 413} : Reply(c, code, 1)
           \/ /\ \E to \in {"head", "body", "handle"} :
                     /\ serving' = [serving EXCEPT ![c] = to]
                     /\ to = "body" => request[c].valid /\ request[c].head <= got'[c]
                     /\ to = "handle" => /\ got'[c] = Size(c) /\ request[c].valid
                                         /\ Size(c) <= MaxRequest
              /\ UNCHANGED <<status, answer>>
    BY <1>13, ReceiveEffect
  <2> QED BY <1>13, <2>1 DEF Receive, Reply, TaskOK, Unanswered
<1>14. ASSUME NEW c \in Clients, ReceiveFails(c) PROVE ReadOK'
  BY <1>14 DEF ReceiveFails, Reply
<1>15. ASSUME NEW c \in Clients, Handle(c) PROVE ReadOK'
  BY <1>15 DEF Handle, Reply
<1>16. ASSUME NEW c \in Clients, Send(c) PROVE ReadOK'
  BY <1>16 DEF Send, Serve, CloseSocket
<1>17. ASSUME NEW c \in Clients, Connect(c) PROVE ReadOK'
  BY <1>17 DEF Connect, Return
<1>18. ASSUME NEW c \in Clients, ClientSend(c) PROVE ReadOK'
  BY <1>18 DEF ClientSend
<1>19. ASSUME NEW c \in Clients, ClientParses(c) PROVE ReadOK'
  BY <1>19 DEF ClientParses, Return, IsComplete
<1>20. ASSUME NEW c \in Clients, ClientFails(c) PROVE ReadOK'
  BY <1>20 DEF ClientFails, Return
<1>21. CASE UNCHANGED httpVars
  BY <1>21 DEF httpVars
<1> QED
  BY <1>1, <1>2, <1>3, <1>4, <1>5, <1>6, <1>7, <1>8, <1>9, <1>10, <1>11, <1>12, <1>13,
     <1>14, <1>15, <1>16, <1>17, <1>18, <1>19, <1>20, <1>21
  DEF HttpNext, Own, AcceptLoop, TaskStep, Work, ClientStep

\* The answer is fixed before any of it is sent, and sent once.
LEMMA AnswerStep == ASSUME IInv, [HttpNext]_httpVars PROVE AnswerOK'
<1>0. AnswerOK /\ TaskOK
  BY DEF IInv
<1>a. /\ back \in [Clients -> Nat] /\ received \in [Clients -> {"none", "error", "response"}]
      /\ status \in [Clients -> {0, 200, 400, 413, 503}] /\ handled \in [Clients -> Nat]
      /\ answer \in [Clients -> Nat] /\ slot \in [Threads -> Clients \cup {NoClient}]
      /\ serving \in [Clients -> Places]
  BY DEF IInv, TypeOK, WireType, TaskType
<1> USE <1>0, <1>a, HttpAssumption DEF AnswerOK, server, wire, clients, tasks, executor
<1>1. CASE Start
  BY <1>1 DEF Start
<1>2. CASE Stop
  BY <1>2 DEF Stop
<1>3. CASE StopListener
  BY <1>3 DEF StopListener, CloseListener
<1>4. CASE JoinAcceptor
  BY <1>4 DEF JoinAcceptor, Executor!Close
<1>5. CASE StopReturns
  BY <1>5 DEF StopReturns
<1>6. CASE CheckRunning
  BY <1>6 DEF CheckRunning, Acceptor
<1>7. ASSUME NEW c \in Clients, Accept(c) PROVE AnswerOK'
  BY <1>7 DEF Accept, Acceptor
<1>8. CASE AcceptFails
  BY <1>8 DEF AcceptFails, Acceptor
<1>9. CASE Submit
  <2>1. PICK c \in Clients : c = accepted
    BY <1>9 DEF Submit, Acceptor, IInv, TypeOK, ServerType
  <2>2. /\ fate[c] = "unsubmitted" /\ UNCHANGED <<back, received, handled>>
        /\ \/ status' = [status EXCEPT ![c] = 503] /\ answer' = [answer EXCEPT ![c] = 1]
           \/ UNCHANGED <<status, answer>>
    BY <1>9, <2>1 DEF Submit, Reply, Executor!Refuse, Executor!Accept
  <2>3. handled[c] = 0 /\ back[c] = 0 /\ received[c] # "response"
    BY <2>2 DEF TaskOK, Unanswered
  <2> QED BY ONLY <1>0, <1>a, <2>1, <2>2, <2>3 DEF AnswerOK
<1>10. CASE Refused
  BY <1>10 DEF Refused, Acceptor
<1>11. ASSUME NEW w \in Threads, TaskStart(w) PROVE AnswerOK'
  BY <1>11 DEF TaskStart, Serve, CloseSocket, Executor!Start
<1>12. ASSUME NEW w \in Threads, TaskEnd(w) PROVE AnswerOK'
  BY <1>12 DEF TaskEnd, Serve, Executor!Finish
<1>13. ASSUME NEW c \in Clients, Receive(c) PROVE AnswerOK'
  <2>1. /\ serving[c] \in {"head", "body"}
        /\ got' \in [Clients -> Nat] /\ got'[c] <= sent[c]
        /\ \A d \in Clients : d # c => got'[d] = got[d]
        /\ \/ \E code \in {400, 413} : Reply(c, code, 1)
           \/ /\ \E to \in {"head", "body", "handle"} :
                     /\ serving' = [serving EXCEPT ![c] = to]
                     /\ to = "body" => request[c].valid /\ request[c].head <= got'[c]
                     /\ to = "handle" => /\ got'[c] = Size(c) /\ request[c].valid
                                         /\ Size(c) <= MaxRequest
              /\ UNCHANGED <<status, answer>>
    BY <1>13, ReceiveEffect
  <2> QED BY <1>13, <2>1 DEF Receive, Reply, TaskOK, Unanswered
<1>14. ASSUME NEW c \in Clients, ReceiveFails(c) PROVE AnswerOK'
  BY <1>14 DEF ReceiveFails, Reply, TaskOK, Unanswered
<1>15. ASSUME NEW c \in Clients, Handle(c) PROVE AnswerOK'
  BY <1>15 DEF Handle, Reply, TaskOK, Unanswered
<1>16. ASSUME NEW c \in Clients, Send(c) PROVE AnswerOK'
  BY <1>16 DEF Send, Serve, CloseSocket, TaskOK, Unanswered
<1>17. ASSUME NEW c \in Clients, Connect(c) PROVE AnswerOK'
  BY <1>17 DEF Connect, Return
<1>18. ASSUME NEW c \in Clients, ClientSend(c) PROVE AnswerOK'
  BY <1>18 DEF ClientSend
<1>19. ASSUME NEW c \in Clients, ClientParses(c) PROVE AnswerOK'
  BY <1>19 DEF ClientParses, Return, IsComplete, TaskOK, Unanswered
<1>20. ASSUME NEW c \in Clients, ClientFails(c) PROVE AnswerOK'
  BY <1>20 DEF ClientFails, Return
<1>21. CASE UNCHANGED httpVars
  BY <1>21 DEF httpVars
<1> QED
  BY <1>1, <1>2, <1>3, <1>4, <1>5, <1>6, <1>7, <1>8, <1>9, <1>10, <1>11, <1>12, <1>13,
     <1>14, <1>15, <1>16, <1>17, <1>18, <1>19, <1>20, <1>21
  DEF HttpNext, Own, AcceptLoop, TaskStep, Work, ClientStep

\* stop joins the acceptor, then the workers.
LEMMA OwnerStep == ASSUME IInv, [HttpNext]_httpVars PROVE OwnerOK'
<1>0. OwnerOK
  BY DEF IInv
<1>a. slot \in [Threads -> Clients \cup {NoClient}]
  BY DEF IInv, TypeOK, TaskType
<1> USE <1>0, <1>a DEF OwnerOK, server, wire, clients, tasks, executor
<1>1. CASE Start
  BY <1>1 DEF Start
<1>2. CASE Stop
  BY <1>2 DEF Stop
<1>3. CASE StopListener
  BY <1>3 DEF StopListener, CloseListener
<1>4. CASE JoinAcceptor
  BY <1>4 DEF JoinAcceptor, Executor!Close
<1>5. CASE StopReturns
  BY <1>5 DEF StopReturns
<1>6. CASE CheckRunning
  BY <1>6 DEF CheckRunning, Acceptor
<1>7. ASSUME NEW c \in Clients, Accept(c) PROVE OwnerOK'
  BY <1>7 DEF Accept, Acceptor
<1>8. CASE AcceptFails
  BY <1>8 DEF AcceptFails, Acceptor
<1>9. CASE Submit
  BY <1>9 DEF Submit, Acceptor, Reply, Executor!Refuse, Executor!Accept
<1>10. CASE Refused
  BY <1>10 DEF Refused, Acceptor
<1>11. ASSUME NEW w \in Threads, TaskStart(w) PROVE OwnerOK'
  BY <1>11 DEF TaskStart, Serve, CloseSocket, Executor!Start
<1>12. ASSUME NEW w \in Threads, TaskEnd(w) PROVE OwnerOK'
  BY <1>12 DEF TaskEnd, Serve, Executor!Finish
<1>13. ASSUME NEW c \in Clients, Receive(c) PROVE OwnerOK'
  BY <1>13 DEF Receive
<1>14. ASSUME NEW c \in Clients, ReceiveFails(c) PROVE OwnerOK'
  BY <1>14 DEF ReceiveFails, Reply
<1>15. ASSUME NEW c \in Clients, Handle(c) PROVE OwnerOK'
  BY <1>15 DEF Handle, Reply
<1>16. ASSUME NEW c \in Clients, Send(c) PROVE OwnerOK'
  BY <1>16 DEF Send, Serve, CloseSocket
<1>17. ASSUME NEW c \in Clients, Connect(c) PROVE OwnerOK'
  BY <1>17 DEF Connect, Return
<1>18. ASSUME NEW c \in Clients, ClientSend(c) PROVE OwnerOK'
  BY <1>18 DEF ClientSend
<1>19. ASSUME NEW c \in Clients, ClientParses(c) PROVE OwnerOK'
  BY <1>19 DEF ClientParses, Return, IsComplete
<1>20. ASSUME NEW c \in Clients, ClientFails(c) PROVE OwnerOK'
  BY <1>20 DEF ClientFails, Return
<1>21. CASE UNCHANGED httpVars
  BY <1>21 DEF httpVars
<1> QED
  BY <1>1, <1>2, <1>3, <1>4, <1>5, <1>6, <1>7, <1>8, <1>9, <1>10, <1>11, <1>12, <1>13,
     <1>14, <1>15, <1>16, <1>17, <1>18, <1>19, <1>20, <1>21
  DEF HttpNext, Own, AcceptLoop, TaskStep, Work, ClientStep

\* An open connection passes from the acceptor to the executor, or is closed.
LEMMA OpenStep == ASSUME IInv, [HttpNext]_httpVars PROVE OpenOK'
<1>0. OpenOK
  BY DEF IInv
<1>a. /\ connection \in [Clients -> {"none", "backlog", "reset", "open", "closed"}]
      /\ serving \in [Clients -> Places] /\ waiting \in Seq(Clients)
      /\ slot \in [Threads -> Clients \cup {NoClient}]
  BY DEF IInv, TypeOK, WireType, TaskType
<1> USE <1>0, <1>a DEF OpenOK, HasThread, InQueue, server, wire, clients, tasks, executor
<1>1. CASE Start
  BY <1>1 DEF Start, IInv, OwnerOK
<1>2. CASE Stop
  BY <1>2 DEF Stop
<1>3. CASE StopListener
  BY <1>3 DEF StopListener, CloseListener
<1>4. CASE JoinAcceptor
  BY <1>4 DEF JoinAcceptor, Executor!Close
<1>5. CASE StopReturns
  BY <1>5 DEF StopReturns
<1>6. CASE CheckRunning
  BY <1>6 DEF CheckRunning, Acceptor
<1>7. ASSUME NEW c \in Clients, Accept(c) PROVE OpenOK'
  BY <1>7 DEF Accept, Acceptor
<1>8. CASE AcceptFails
  BY <1>8 DEF AcceptFails, Acceptor
<1>9. CASE Submit
  <2>1. PICK a \in Clients : a = accepted
    BY <1>9 DEF Submit, Acceptor, IInv, TypeOK, ServerType
  <2>2. /\ acceptor = "submit" /\ UNCHANGED <<accepted, connection, slot>>
        /\ \/ /\ acceptor' = "refuse" /\ waiting' = waiting
              /\ serving' = [serving EXCEPT ![a] = "send"]
           \/ /\ acceptor' = "check" /\ waiting' = Append(waiting, a)
              /\ serving' = [serving EXCEPT ![a] = "queued"]
    BY <1>9, <2>1 DEF Submit, Acceptor, Reply, Executor!Refuse, Executor!Accept
  <2>3. HasThread(a)'
    <3>1. CASE acceptor' = "refuse"
      BY <2>1, <2>2, <3>1
    <3>2. CASE waiting' = Append(waiting, a)
      <4>1. Len(waiting') \in 1..Len(waiting') /\ waiting'[Len(waiting')] = a
        BY ONLY <3>2, <2>1, <1>a
      <4> QED BY <4>1
    <3> QED BY <2>2, <3>1, <3>2
  <2>4. ASSUME NEW d \in Clients, d # a, HasThread(d) PROVE HasThread(d)'
    <3>1. InQueue(d) => InQueue(d)'
      BY <2>1, <2>2
    <3> HIDE DEF InQueue
    <3> QED BY <2>1, <2>2, <2>4, <3>1
  <2> HIDE DEF HasThread
  <2> QED BY <2>2, <2>3, <2>4
<1>10. CASE Refused
  BY <1>10 DEF Refused, Acceptor
<1>11. ASSUME NEW w \in Threads, TaskStart(w) PROVE OpenOK'
  <2>1. PICK h \in Clients : h = Head(waiting)
    BY <1>11, HeadOfQueue DEF TaskStart, Executor!Start
  <2>2. /\ waiting # <<>> /\ waiting' = Tail(waiting) /\ serving[h] = "queued"
        /\ slot[w] = NoClient /\ slot' = [slot EXCEPT ![w] = h]
        /\ UNCHANGED <<acceptor, accepted>>
        /\ \/ serving' = [serving EXCEPT ![h] = "head"] /\ connection' = connection
           \/ /\ serving' = [serving EXCEPT ![h] = "done"]
              /\ connection'[h] # "open"
              /\ \A d \in Clients : d # h => connection'[d] = connection[d]
    BY <1>11, <2>1 DEF TaskStart, Serve, CloseSocket, Executor!Start
  <2>3. ASSUME NEW d \in Clients, d # h, InQueue(d) PROVE InQueue(d)'
    <3>1. PICK i \in 1..Len(waiting) : waiting[i] = d
      BY <2>3 DEF InQueue
    <3>2. i # 1 /\ waiting'[i - 1] = d /\ i - 1 \in 1..Len(waiting')
      BY <2>1, <2>2, <2>3, <3>1
    <3> QED BY <3>2 DEF InQueue
  <2>4. ASSUME NEW d \in Clients, d # h, connection'[d] = "open" PROVE HasThread(d)'
    <3>1. HasThread(d) /\ serving'[d] = serving[d]
      BY <2>2, <2>4
    <3> HIDE DEF InQueue
    <3> QED BY <2>2, <2>3, <2>4, <3>1, HttpAssumption
  <2>5. connection'[h] = "open" => HasThread(h)'
    BY <2>2
  <2> HIDE DEF HasThread
  <2> QED BY <2>4, <2>5
<1>12. ASSUME NEW w \in Threads, TaskEnd(w) PROVE OpenOK'
  BY <1>12 DEF TaskEnd, Serve, Executor!Finish
<1>13. ASSUME NEW c \in Clients, Receive(c) PROVE OpenOK'
  <2>1. /\ serving[c] \in {"head", "body"}
        /\ got' \in [Clients -> Nat] /\ got'[c] <= sent[c]
        /\ \A d \in Clients : d # c => got'[d] = got[d]
        /\ \/ \E code \in {400, 413} : Reply(c, code, 1)
           \/ /\ \E to \in {"head", "body", "handle"} :
                     /\ serving' = [serving EXCEPT ![c] = to]
                     /\ to = "body" => request[c].valid /\ request[c].head <= got'[c]
                     /\ to = "handle" => /\ got'[c] = Size(c) /\ request[c].valid
                                         /\ Size(c) <= MaxRequest
              /\ UNCHANGED <<status, answer>>
    BY <1>13, ReceiveEffect
  <2> QED BY <1>13, <2>1 DEF Receive, Reply
<1>14. ASSUME NEW c \in Clients, ReceiveFails(c) PROVE OpenOK'
  BY ZenonT(60), <1>14 DEF ReceiveFails, Reply
<1>15. ASSUME NEW c \in Clients, Handle(c) PROVE OpenOK'
  BY <1>15 DEF Handle, Reply
<1>16. ASSUME NEW c \in Clients, Send(c) PROVE OpenOK'
  BY <1>16 DEF Send, Serve, CloseSocket
<1>17. ASSUME NEW c \in Clients, Connect(c) PROVE OpenOK'
  BY <1>17 DEF Connect, Return
<1>18. ASSUME NEW c \in Clients, ClientSend(c) PROVE OpenOK'
  BY <1>18 DEF ClientSend
<1>19. ASSUME NEW c \in Clients, ClientParses(c) PROVE OpenOK'
  BY <1>19 DEF ClientParses, Return, IsComplete
<1>20. ASSUME NEW c \in Clients, ClientFails(c) PROVE OpenOK'
  BY <1>20 DEF ClientFails, Return
<1>21. CASE UNCHANGED httpVars
  BY <1>21 DEF httpVars
<1> QED
  BY <1>1, <1>2, <1>3, <1>4, <1>5, <1>6, <1>7, <1>8, <1>9, <1>10, <1>11, <1>12, <1>13,
     <1>14, <1>15, <1>16, <1>17, <1>18, <1>19, <1>20, <1>21
  DEF HttpNext, Own, AcceptLoop, TaskStep, Work, ClientStep

-----------------------------------------------------------------------------
(* The theorems *)

LEMMA InitIInv == ASSUME HttpInit PROVE IInv
<1>1. TypeOK
  <2>1. ServerType
    BY DEF HttpInit, Executor!Init, ServerType
  <2>2. WireType
    BY DEF HttpInit, WireType
  <2>3. TaskType
    BY DEF HttpInit, Executor!Init, TaskType, Places
  <2> QED BY <2>1, <2>2, <2>3 DEF TypeOK
<1>2. \A c \in Clients : Size(c) \in Nat
  <2>1. \A c \in Clients : request[c] \in [head : Nat \ {0}, body : Nat, valid : BOOLEAN]
    BY HttpAssumption DEF HttpInit
  <2> QED BY <2>1 DEF Size
<1>3. WireOK /\ TaskOK /\ ReadOK /\ AnswerOK /\ OwnerOK /\ OpenOK
  BY <1>2 DEF HttpInit, Executor!Init, WireOK, TaskOK, Unanswered, ReadOK, AnswerOK, OwnerOK,
     OpenOK
<1> QED BY <1>1, <1>3 DEF IInv

LEMMA NextIInv == ASSUME IInv, [HttpNext]_httpVars PROVE IInv'
<1>1. TypeOK'
  BY ServerTypeStep, WireTypeStep, TaskTypeStep DEF TypeOK
<1> QED BY <1>1, WireStep, TasksStep, ReadStep, AnswerStep, OwnerStep, OpenStep DEF IInv

\* The inductive invariant holds in every reachable state, under any fairness.
THEOREM Invariant == HttpInit /\ [][HttpNext]_httpVars => []IInv
<1>1. HttpInit => IInv
  BY InitIInv
<1>2. IInv /\ [HttpNext]_httpVars => IInv'
  BY NextIInv
<1> QED BY <1>1, <1>2, PTL

\* The server, its connections and its clients stay well-typed
\* (SocketHttpServer and RuniClient, src/src/service/service.cpp).
THEOREM TypeCorrect == HttpSpec => []TypeOK
<1>1. IInv => TypeOK
  BY DEF IInv
<1> QED BY <1>1, Invariant, PTL DEF HttpSpec

\* handle is called once at most for a connection, with a whole and valid request
\* within the limit; and send returns a response only when it has all of the answer
\* that was made for it, which is a 200 exactly when handle was called.
THEOREM AnswersWhole == HttpSpec => []AnswersAreWhole
<1>1. ASSUME IInv PROVE AnswersAreWhole
  <2>1. \A c \in Clients : handled[c] \in Nat
    BY <1>1 DEF IInv, TypeOK, TaskType
  <2> QED BY <1>1, <2>1 DEF IInv, ReadOK, Whole, AnswerOK, AnswersAreWhole
<1>2. IInv => AnswersAreWhole
  BY <1>1
<1> QED BY <1>2, Invariant, PTL DEF HttpSpec

\* After stop has returned, and before the first start, no accepted connection is left
\* open: the safety half of StopEndsEverything.
THEOREM StoppedIsClosed ==
    HttpSpec => [](owner = "out" /\ ~running => \A c \in Clients : connection[c] # "open")
<1>1. IInv => (owner = "out" /\ ~running => \A c \in Clients : connection[c] # "open")
  <2> SUFFICES ASSUME IInv, owner = "out", ~running, NEW c \in Clients, connection[c] = "open"
               PROVE  FALSE
    OBVIOUS
  <2>1. HasThread(c)
    BY DEF IInv, OpenOK
  <2>2. acceptor = "none" /\ waiting = <<>> /\ \A w \in Threads : slot[w] = NoClient
    BY DEF IInv, OwnerOK
  <2> QED BY <2>1, <2>2, HttpAssumption DEF HasThread, InQueue
<1> QED BY <1>1, Invariant, PTL DEF HttpSpec
-----------------------------------------------------------------------------
(* What the return of stop rests on *)

Working == {"head", "body", "handle", "send", "done"}

\* A connection is submitted once, after it was accepted; a refused one gets its 503
\* from the acceptor.
AcceptorOK ==
    /\ \A c \in Clients : client[c] = "idle" => connection[c] = "none"
    /\ \A c \in Clients : connection[c] \in {"none", "backlog"} => fate[c] = "unsubmitted"
    /\ acceptor = "submit" =>
           fate[accepted] = "unsubmitted" /\ connection[accepted] \notin {"none", "backlog"}
    /\ acceptor = "refuse" => fate[accepted] = "refused" /\ serving[accepted] \in {"none", "send"}

\* A task that is queued waits for a worker, and one on a worker has something to do.
WorkOK ==
    /\ \A i \in 1..Len(waiting) :
           serving[waiting[i]] = "queued" /\ fate[waiting[i]] = "pending"
    /\ \A i, j \in 1..Len(waiting) : waiting[i] = waiting[j] => i = j
    /\ \A w \in Threads : slot[w] # NoClient =>
           serving[slot[w]] \in Working /\ fate[slot[w]] = "pending"
    /\ \A v, w \in Threads : slot[v] = slot[w] /\ slot[v] # NoClient => v = w

\* stop closes the listener before it joins.
ListenerOK == owner \in {"join", "shutdown"} => ~listening

\* One step of a task: it goes on, or a refused connection is done with.
LEMMA TaskMove ==
    ASSUME IInv, NEW c \in Clients, TaskStep(c)
    PROVE  /\ UNCHANGED <<waiting, slot, fate, acceptor, accepted, client>>
           /\ serving[c] \in Working
           /\ \E to \in Working \cup {"none"} :
                  serving' = [serving EXCEPT ![c] = to] /\ (to = "none" => fate[c] = "refused")
           /\ \/ connection' = connection
              \/ \E what \in {"closed", "reset"} :
                     connection' = [connection EXCEPT ![c] = what]
<1>1. CASE Receive(c)
  <2>1. /\ serving[c] \in {"head", "body"}
        /\ \/ \E code \in {400, 413} : Reply(c, code, 1)
           \/ \E to \in {"head", "body", "handle"} : serving' = [serving EXCEPT ![c] = to]
    BY <1>1, ReceiveEffect
  <2> QED BY <1>1, <2>1 DEF Receive, Reply, Working, server, clients, executor
<1>2. CASE ReceiveFails(c)
  BY <1>2 DEF ReceiveFails, Reply, Working, server, wire, clients, executor
<1>3. CASE Handle(c)
  BY <1>3 DEF Handle, Reply, Working, server, wire, clients, executor
<1>4. CASE Send(c)
  <2>1. /\ serving[c] = "send" /\ UNCHANGED <<waiting, slot, fate, acceptor, accepted, client>>
        /\ serving' = [serving EXCEPT ![c] = IF fate[c] = "refused" THEN "none" ELSE "done"]
    BY <1>4 DEF Send, Serve, server, clients, executor
  <2>2. connection' = [connection EXCEPT ![c] = "closed"]
        \/ connection' = [connection EXCEPT ![c] = "reset"]
    BY <1>4 DEF Send, CloseSocket
  <2>3. CASE fate[c] = "refused"
    BY <2>1, <2>2, <2>3 DEF Working
  <2>4. CASE fate[c] # "refused"
    BY <2>1, <2>2, <2>4 DEF Working
  <2> QED BY <2>3, <2>4
<1> QED BY <1>1, <1>2, <1>3, <1>4 DEF TaskStep

\* Nothing is submitted twice, whatever clients and the owner do.
LEMMA AcceptorStep == ASSUME IInv, AcceptorOK, WorkOK, [HttpNext]_httpVars PROVE AcceptorOK'
<1>a. /\ connection \in [Clients -> {"none", "backlog", "reset", "open", "closed"}]
      /\ client \in [Clients -> {"idle", "send", "read", "returned"}]
      /\ serving \in [Clients -> Places]
      /\ fate \in [Clients -> {"unsubmitted", "refused", "pending", "ready"}]
      /\ slot \in [Threads -> Clients \cup {NoClient}] /\ waiting \in Seq(Clients)
      /\ acceptor \in {"submit", "refuse"} => accepted \in Clients
  BY DEF IInv, TypeOK, ServerType, WireType, TaskType
<1> USE <1>a DEF AcceptorOK, server, wire, clients, tasks, executor
<1>1. CASE Start \/ Stop \/ JoinAcceptor \/ StopReturns \/ CheckRunning \/ AcceptFails \/ Refused
  BY <1>1 DEF Start, Stop, JoinAcceptor, Executor!Close, StopReturns, CheckRunning,
     AcceptFails, Refused, Acceptor
<1>2. CASE StopListener
  BY <1>2 DEF StopListener, CloseListener
<1>3. ASSUME NEW c \in Clients, Accept(c) PROVE AcceptorOK'
  BY <1>3 DEF Accept, Acceptor
<1>4. CASE Submit
  <2>1. PICK a \in Clients : a = accepted
    BY <1>4 DEF Submit, Acceptor
  <2>2. /\ acceptor = "submit" /\ UNCHANGED <<accepted, connection, client>>
        /\ \/ /\ acceptor' = "refuse" /\ fate' = [fate EXCEPT ![a] = "refused"]
              /\ serving' = [serving EXCEPT ![a] = "send"]
           \/ /\ acceptor' = "check" /\ fate' = [fate EXCEPT ![a] = "pending"]
    BY <1>4, <2>1 DEF Submit, Acceptor, Reply, Executor!Refuse, Executor!Accept
  <2> QED BY <2>1, <2>2
<1>5. ASSUME NEW w \in Threads, TaskStart(w) PROVE AcceptorOK'
  <2>1. PICK h \in Clients : h = Head(waiting)
    BY <1>5, HeadOfQueue DEF TaskStart, Executor!Start
  <2>2. /\ serving[h] = "queued" /\ UNCHANGED <<acceptor, accepted, client, fate>>
        /\ \E to \in {"head", "done"} : serving' = [serving EXCEPT ![h] = to]
        /\ \/ connection' = connection
           \/ \E what \in {"closed", "reset"} : connection' = [connection EXCEPT ![h] = what]
    BY <1>5, <2>1 DEF TaskStart, Serve, CloseSocket, Executor!Start
  <2>3. fate[h] # "unsubmitted"
    BY <2>2 DEF IInv, TaskOK
  <2> QED BY <2>2, <2>3
<1>6. ASSUME NEW w \in Threads, TaskEnd(w) PROVE AcceptorOK'
  <2>1. PICK h \in Clients : h = slot[w] /\ fate[h] = "pending"
    BY <1>6 DEF TaskEnd, WorkOK
  <2>2. /\ UNCHANGED <<acceptor, accepted, client, connection>>
        /\ serving' = [serving EXCEPT ![h] = "none"] /\ fate' = [fate EXCEPT ![h] = "ready"]
    BY <1>6, <2>1 DEF TaskEnd, Serve, Executor!Finish
  <2> QED BY <2>1, <2>2
<1>7. ASSUME NEW c \in Clients, TaskStep(c) PROVE AcceptorOK'
  <2>1. /\ UNCHANGED <<fate, acceptor, accepted, client>>
        /\ serving[c] \in Working
        /\ \E to \in Working \cup {"none"} :
               serving' = [serving EXCEPT ![c] = to] /\ (to = "none" => fate[c] = "refused")
        /\ \/ connection' = connection
           \/ \E what \in {"closed", "reset"} : connection' = [connection EXCEPT ![c] = what]
    BY <1>7, TaskMove
  <2>2. fate[c] # "unsubmitted"
    BY <2>1 DEF IInv, TaskOK, Working
  <2>3. acceptor = "refuse" /\ c = accepted => serving'[c] \in {"none", "send"}
    BY <1>7, <2>1 DEF TaskStep, Receive, ReceiveFails, Handle, Send, Serve
  <2>4. \A d \in Clients : d # c => serving'[d] = serving[d] /\ connection'[d] = connection[d]
    BY <2>1
  <2>5. connection'[c] \in {"none", "backlog"} \/ connection'[c] = "none" =>
            connection'[c] = connection[c]
    BY <2>1
  <2> QED BY <2>1, <2>2, <2>3, <2>4, <2>5
<1>8. ASSUME NEW c \in Clients, ClientStep(c) PROVE AcceptorOK'
  BY SMTT(30), <1>8 DEF ClientStep, Connect, ClientSend, ClientParses, ClientFails, Return
<1>9. CASE UNCHANGED httpVars
  BY <1>9 DEF httpVars
<1> QED BY <1>1, <1>2, <1>3, <1>4, <1>5, <1>6, <1>7, <1>8, <1>9
    DEF HttpNext, Own, AcceptLoop, Work

\* The executor holds a task once, from its submission to its end.
LEMMA WorkStep == ASSUME IInv, AcceptorOK, WorkOK, [HttpNext]_httpVars PROVE WorkOK'
<1>a. /\ serving \in [Clients -> Places]
      /\ fate \in [Clients -> {"unsubmitted", "refused", "pending", "ready"}]
      /\ slot \in [Threads -> Clients \cup {NoClient}] /\ waiting \in Seq(Clients)
      /\ acceptor \in {"submit", "refuse"} => accepted \in Clients
      /\ NoClient \notin Clients
  BY HttpAssumption DEF IInv, TypeOK, ServerType, TaskType
<1>b. ASSUME UNCHANGED <<waiting, slot, fate, serving>> PROVE WorkOK'
  BY <1>b DEF WorkOK
<1>c. /\ \A i \in 1..Len(waiting) : waiting[i] \in Clients
      /\ \A w \in Threads : slot[w] # NoClient => slot[w] \in Clients
  BY <1>a
<1>1. CASE Submit
  <2>1. PICK a \in Clients : a = accepted /\ fate[a] = "unsubmitted"
    BY <1>1, <1>a DEF Submit, Acceptor, AcceptorOK
  <2>2. /\ \A i \in 1..Len(waiting) : waiting[i] # a
        /\ \A w \in Threads : slot[w] # a
    BY <1>a, <2>1 DEF WorkOK
  <2>3. CASE Executor!Refuse(accepted)
    <3>1. /\ UNCHANGED <<waiting, slot>> /\ fate' = [fate EXCEPT ![a] = "refused"]
          /\ \E to \in Places : serving' = [serving EXCEPT ![a] = to]
      BY <1>1, <2>1, <2>3 DEF Submit, Reply, Executor!Refuse, Places
    <3>2. \A d \in Clients : d # a => serving'[d] = serving[d] /\ fate'[d] = fate[d]
      BY <1>a, <3>1
    <3> QED BY <1>c, <2>2, <3>1, <3>2 DEF WorkOK
  <2>4. CASE ~Executor!Refuse(accepted)
    <3>1. /\ waiting' = Append(waiting, a) /\ slot' = slot
          /\ fate' = [fate EXCEPT ![a] = "pending"]
          /\ serving' = [serving EXCEPT ![a] = "queued"]
      BY <1>1, <2>1, <2>4 DEF Submit, Executor!Accept
    <3>2. \A d \in Clients : d # a => serving'[d] = serving[d] /\ fate'[d] = fate[d]
      BY <1>a, <3>1
    <3>3. serving'[a] = "queued" /\ fate'[a] = "pending"
      BY <1>a, <3>1
    <3>4. /\ Len(waiting') = Len(waiting) + 1 /\ Len(waiting) \in Nat
          /\ waiting'[Len(waiting) + 1] = a
          /\ \A i \in 1..Len(waiting) : waiting'[i] = waiting[i]
      BY <1>a, <3>1
    <3> QED BY <1>c, <2>2, <3>1, <3>2, <3>3, <3>4 DEF WorkOK
  <2> QED BY <2>3, <2>4
<1>2. ASSUME NEW w \in Threads, TaskStart(w) PROVE WorkOK'
  <2>1. waiting # <<>> /\ Len(waiting) \in Nat \ {0} /\ waiting[1] = Head(waiting)
    BY <1>2, <1>a DEF TaskStart, Executor!Start
  <2>2. PICK h \in Clients : h = waiting[1] /\ serving[h] = "queued" /\ fate[h] = "pending"
    BY <1>c, <2>1 DEF WorkOK
  <2>3. /\ waiting' = Tail(waiting) /\ slot' = [slot EXCEPT ![w] = h] /\ fate' = fate
        /\ \E to \in {"head", "done"} : serving' = [serving EXCEPT ![h] = to]
    BY <1>2, <2>1, <2>2 DEF TaskStart, Serve, Executor!Start
  <2>4. /\ \A d \in Clients : d # h => serving'[d] = serving[d]
        /\ serving'[h] \in Working
        /\ \A v \in Threads : slot'[v] = IF v = w THEN h ELSE slot[v]
    BY <1>a, <2>3 DEF Working
  <2>5. /\ Len(waiting') = Len(waiting) - 1
        /\ \A i \in 1..Len(waiting') : i + 1 \in 1..Len(waiting) /\ waiting'[i] = waiting[i + 1]
    BY <1>a, <2>1, <2>3
  <2>6. \A i \in 1..Len(waiting') : waiting'[i] # h
    <3>1. 1 \in 1..Len(waiting) /\ \A i \in 1..Len(waiting') : i + 1 # 1
      BY <2>1, <2>5
    <3> QED BY <2>2, <2>5, <3>1 DEF WorkOK
  <2>7. \A v \in Threads : slot[v] # h
    BY <1>a, <2>2 DEF WorkOK, Working
  <2>8. \A i, j \in 1..Len(waiting') : waiting'[i] = waiting'[j] => i = j
    <3> SUFFICES ASSUME NEW i \in 1..Len(waiting'), NEW j \in 1..Len(waiting'),
                        waiting'[i] = waiting'[j]
                 PROVE  i = j
      OBVIOUS
    <3>1. /\ i + 1 \in 1..Len(waiting) /\ j + 1 \in 1..Len(waiting)
          /\ waiting[i + 1] = waiting[j + 1]
      BY <2>5
    <3>2. i + 1 = j + 1
      BY ONLY <3>1, WorkOK DEF WorkOK
    <3> QED BY ONLY <3>2, <2>1, <2>5, i \in 1..Len(waiting'), j \in 1..Len(waiting')
  <2>9. \A i \in 1..Len(waiting') :
            serving'[waiting'[i]] = "queued" /\ fate'[waiting'[i]] = "pending"
    BY <1>c, <2>3, <2>4, <2>5, <2>6 DEF WorkOK
  <2>10. \A v \in Threads : slot'[v] # NoClient =>
             serving'[slot'[v]] \in Working /\ fate'[slot'[v]] = "pending"
    BY <1>c, <2>2, <2>3, <2>4, <2>7 DEF WorkOK
  <2>11. \A u, v \in Threads : slot'[u] = slot'[v] /\ slot'[u] # NoClient => u = v
    BY <2>4, <2>7 DEF WorkOK
  <2> QED BY <2>8, <2>9, <2>10, <2>11 DEF WorkOK
<1>3. ASSUME NEW w \in Threads, TaskEnd(w) PROVE WorkOK'
  <2>1. PICK h \in Clients : h = slot[w] /\ serving[h] = "done"
    BY <1>3, <1>c DEF TaskEnd, Serve
  <2>2. /\ waiting' = waiting /\ slot' = [slot EXCEPT ![w] = NoClient]
        /\ serving' = [serving EXCEPT ![h] = "none"] /\ fate' = [fate EXCEPT ![h] = "ready"]
    BY <1>3, <2>1 DEF TaskEnd, Serve, Executor!Finish
  <2>3. /\ \A d \in Clients : d # h => serving'[d] = serving[d] /\ fate'[d] = fate[d]
        /\ \A v \in Threads : slot'[v] = IF v = w THEN NoClient ELSE slot[v]
    BY <1>a, <2>2
  <2>4. /\ \A i \in 1..Len(waiting) : waiting[i] # h
        /\ \A v \in Threads : slot[v] = h => v = w
    BY <1>a, <2>1 DEF WorkOK
  <2> QED BY <1>c, <2>2, <2>3, <2>4 DEF WorkOK
<1>4. ASSUME NEW c \in Clients, TaskStep(c) PROVE WorkOK'
  <2>1. /\ UNCHANGED <<waiting, slot, fate>>
        /\ serving[c] \in Working
        /\ \E to \in Working \cup {"none"} :
               serving' = [serving EXCEPT ![c] = to] /\ (to = "none" => fate[c] = "refused")
    BY <1>4, TaskMove
  <2>2. /\ \A d \in Clients : d # c => serving'[d] = serving[d]
        /\ fate[c] # "refused" => serving'[c] \in Working
    BY <1>a, <2>1
  <2>3. \A i \in 1..Len(waiting) : waiting[i] # c
    BY <2>1 DEF WorkOK, Working
  <2> QED BY <1>c, <2>1, <2>2, <2>3 DEF WorkOK
<1>5. CASE \/ Start \/ Stop \/ StopListener \/ JoinAcceptor \/ StopReturns \/ CheckRunning
           \/ AcceptFails \/ Refused \/ UNCHANGED httpVars
           \/ \E c \in Clients : Accept(c) \/ ClientStep(c)
  BY <1>5, <1>b DEF Start, Stop, StopListener, JoinAcceptor, Executor!Close, StopReturns,
     CheckRunning, AcceptFails, Refused, httpVars, Accept, ClientStep, Connect, ClientSend,
     ClientParses, ClientFails, tasks, executor
<1> QED BY <1>1, <1>2, <1>3, <1>4, <1>5 DEF HttpNext, Own, AcceptLoop, Work

\* Only start, by an owner who is in no stop, opens the listener.
LEMMA ListenerStep == ASSUME ListenerOK, [HttpNext]_httpVars PROVE ListenerOK'
<1>1. CASE Start \/ Stop \/ Own
  BY <1>1 DEF Start, Stop, Own, StopListener, CloseListener, JoinAcceptor, StopReturns, ListenerOK
<1>2. ASSUME NEW c \in Clients, TaskStep(c) \/ ClientStep(c) PROVE ListenerOK'
  BY <1>2 DEF TaskStep, Receive, ReceiveFails, Handle, Send, ClientStep, Connect, ClientSend,
     ClientParses, ClientFails, server, ListenerOK
<1>3. CASE AcceptLoop \/ (\E w \in Threads : Work(w)) \/ UNCHANGED httpVars
  BY <1>3 DEF AcceptLoop, CheckRunning, AcceptFails, Submit, Refused, Accept, Work, TaskStart,
     TaskEnd, httpVars, server, ListenerOK
<1> QED BY <1>1, <1>2, <1>3 DEF HttpNext

\* While stop is under way none of the threads it joins can block: the acceptor stands
\* before a check, a closed listener, a connection that was never submitted or one that
\* it refused; the task at the head of the queue waits for a worker, and a worker has a
\* task that goes on or is done.
StopGoesOn ==
    owner # "out" =>
        /\ acceptor = "accept" /\ owner # "close" => ~listening
        /\ acceptor = "submit" => fate[accepted] = "unsubmitted"
        /\ acceptor = "refuse" =>
               fate[accepted] = "refused" /\ serving[accepted] \in {"none", "send"}
        /\ owner = "shutdown" => acceptor = "none"
        /\ waiting # <<>> => serving[Head(waiting)] = "queued"
        /\ \A w \in Threads : slot[w] # NoClient => serving[slot[w]] \in Working

\* Nothing that SocketHttpServer::stop waits for can get stuck, so it needs only that
\* threads go on, that recv has its timeout and that handle returns.
THEOREM StopIsNeverStuck == HttpSpec => []StopGoesOn
<1>1. HttpInit => AcceptorOK /\ WorkOK /\ ListenerOK
  BY DEF HttpInit, Executor!Init, AcceptorOK, WorkOK, ListenerOK
<1>2. IInv /\ AcceptorOK /\ WorkOK /\ ListenerOK /\ [HttpNext]_httpVars
          => (AcceptorOK /\ WorkOK /\ ListenerOK)'
  BY AcceptorStep, WorkStep, ListenerStep
<1>3. ASSUME IInv, AcceptorOK, WorkOK, ListenerOK PROVE StopGoesOn
  <2>1. waiting # <<>> => serving[Head(waiting)] = "queued"
    <3>1. waiting \in Seq(Clients)
      BY <1>3 DEF IInv, TypeOK, TaskType
    <3>2. waiting # <<>> => 1 \in 1..Len(waiting) /\ waiting[1] = Head(waiting)
      BY <3>1
    <3> QED BY <1>3, <3>2 DEF WorkOK
  <2> QED BY <1>3, <2>1
      DEF StopGoesOn, IInv, OwnerOK, TypeOK, ServerType, AcceptorOK, WorkOK, ListenerOK
<1>4. IInv /\ AcceptorOK /\ WorkOK /\ ListenerOK => StopGoesOn
  BY <1>3
<1> QED BY <1>1, <1>2, <1>4, Invariant, PTL DEF HttpSpec
=============================================================================
