----------------------------- MODULE HttpServer -----------------------------
(***************************************************************************)
(* SocketHttpServer and RuniClient (src/src/service/service.cpp): one      *)
(* thread accepts connections and hands each to an executor, whose tasks   *)
(* read a request, ask RuntimeService::handle and write the answer; the    *)
(* owner starts and stops the server.  Bytes come in units; every recv and *)
(* send takes some of those there are.  Of an executor this takes what     *)
(* TaskPool promises.  Sockets are external: a socket that is closed with  *)
(* units nobody has read resets its connection.                            *)
(***************************************************************************)
EXTENDS Naturals, Sequences, FiniteSets

CONSTANTS
    Clients,         \* each sends one request on a connection of its own
    Requests,        \* what they may send
    Answers,         \* units of the body of an answer
    MaxRequest,      \* options.max_request_bytes
    Threads, ConnectionQueue, NoClient,   \* the executor
    MaxStarts        \* bound on start

\* A head of some units, the Content-Length it names, and if it can be parsed.
ASSUME HttpAssumption ==
    /\ Requests \subseteq [head : Nat \ {0}, body : Nat, valid : BOOLEAN]
    /\ Answers \subseteq Nat /\ Answers # {}
    /\ {MaxRequest, MaxStarts} \subseteq Nat /\ ConnectionQueue \in Nat \ {0}
    /\ NoClient \notin Clients

VARIABLES
    running,         \* running_
    listening,       \* is the listener open
    owner,           \* "out", or where the owner is in stop
    starts,
    acceptor,        \* accept_thread_: "none", "check", "accept", "submit"
    accepted,        \* the connection it has accepted last
    connection,      \* per client, as the server's side has it
    client,          \* where each client is in send
    request,         \* what it sends
    sent, got,       \* units the client has sent, and the server has read
    serving,         \* where the task of a connection is
    status, answer,  \* the answer it writes: its status, and units of its body
    back,            \* units of the answer that were sent
    received,        \* what send returns: "none", "error", or the status
    handled,         \* history: how often handle was called, per client
    open, waiting, slot, fate   \* connection_executor_

server == <<running, listening, owner, starts, acceptor, accepted>>
wire == <<connection, sent, got, back>>
clients == <<client, request, received>>
tasks == <<serving, status, answer, handled>>
executor == <<open, waiting, slot, fate>>
httpVars == <<server, wire, clients, tasks, executor>>

Executor == INSTANCE TaskPool WITH
    Tasks <- Clients, Workers <- Threads, QueueCapacity <- ConnectionQueue, NoTask <- NoClient

HttpInit ==
    /\ running = FALSE /\ listening = FALSE /\ owner = "out" /\ starts = 0
    /\ acceptor = "none" /\ accepted = NoClient
    /\ connection = [c \in Clients |-> "none"]
    /\ client = [c \in Clients |-> "idle"]
    /\ request \in [Clients -> Requests]
    /\ sent = [c \in Clients |-> 0] /\ got = [c \in Clients |-> 0]
    /\ serving = [c \in Clients |-> "none"]
    /\ status = [c \in Clients |-> 0] /\ answer = [c \in Clients |-> 0]
    /\ back = [c \in Clients |-> 0]
    /\ received = [c \in Clients |-> "none"]
    /\ handled = [c \in Clients |-> 0]
    /\ Executor!Init

Size(c) == request[c].head + request[c].body

-----------------------------------------------------------------------------
(* The owner: start and stop *)

\* Success, or a refusal by the operating system; a second start is refused.
Start ==
    /\ owner = "out" /\ ~running /\ starts < MaxStarts
    /\ starts' = starts + 1
    /\ \/ running' = TRUE /\ listening' = TRUE /\ acceptor' = "check"
       \/ UNCHANGED <<running, listening, acceptor>>
    /\ UNCHANGED <<owner, accepted, wire, clients, tasks, executor>>

Stop ==
    /\ owner = "out" /\ running
    /\ running' = FALSE /\ owner' = "close"
    /\ UNCHANGED <<listening, starts, acceptor, accepted, wire, clients, tasks, executor>>

\* Bug: the listener stays open.
KeepListener == UNCHANGED <<listening, connection>>
\* Connections that nobody has accepted are reset.
CloseListener ==
    /\ listening' = FALSE
    /\ connection' = [c \in Clients |-> IF connection[c] = "backlog" THEN "reset" ELSE connection[c]]

StopListener ==
    /\ owner = "close" /\ owner' = "join"
    /\ CloseListener
    /\ UNCHANGED <<running, starts, acceptor, accepted, sent, got, back,
                   clients, tasks, executor>>

JoinAcceptor ==
    /\ owner = "join" /\ acceptor = "none"
    /\ owner' = "shutdown"
    /\ UNCHANGED <<running, listening, starts, acceptor, accepted, wire, clients, tasks>>
    /\ IF open THEN Executor!Close ELSE UNCHANGED executor

\* shutdown joins the workers, which drain the queue first.
StopReturns ==
    /\ owner = "shutdown" /\ waiting = <<>> /\ \A w \in Threads : slot[w] = NoClient
    /\ owner' = "out"
    /\ UNCHANGED <<running, listening, starts, acceptor, accepted, wire, clients, tasks, executor>>

-----------------------------------------------------------------------------
(* accept_loop *)

Acceptor(from, to) == acceptor = from /\ acceptor' = to

CheckRunning ==
    /\ Acceptor("check", IF running THEN "accept" ELSE "none")
    /\ UNCHANGED <<running, listening, owner, starts, accepted, wire, clients, tasks, executor>>

Accept(c) ==
    /\ Acceptor("accept", "submit") /\ listening /\ connection[c] = "backlog"
    /\ connection' = [connection EXCEPT ![c] = "open"]
    /\ accepted' = c
    /\ UNCHANGED <<running, listening, owner, starts, sent, got, back, clients, tasks, executor>>

\* A closed listener ends the call; it may also fail for a reason of its own.
AcceptFails ==
    /\ Acceptor("accept", IF running THEN "check" ELSE "none")
    /\ UNCHANGED <<running, listening, owner, starts, accepted, wire, clients, tasks, executor>>

Reply(c, code, units) ==
    /\ serving' = [serving EXCEPT ![c] = "send"]
    /\ status' = [status EXCEPT ![c] = code]
    /\ answer' = [answer EXCEPT ![c] = units]

\* The executor takes the connection, or this thread writes the 503.
Submit ==
    /\ Acceptor("submit", IF Executor!MustRefuse THEN "refuse" ELSE "check")
    /\ IF Executor!MustRefuse
       THEN Executor!Refuse(accepted) /\ Reply(accepted, 503, 1)
       ELSE /\ Executor!Accept(accepted)
            /\ serving' = [serving EXCEPT ![accepted] = "queued"]
            /\ UNCHANGED <<status, answer>>
    /\ UNCHANGED <<running, listening, owner, starts, accepted, wire, clients, handled>>

Refused ==
    /\ Acceptor("refuse", "check") /\ serving[accepted] = "none"
    /\ UNCHANGED <<running, listening, owner, starts, accepted, wire, clients, tasks, executor>>

-----------------------------------------------------------------------------
(* The task of a connection *)

Serve(c, from, to) == serving[c] = from /\ serving' = [serving EXCEPT ![c] = to]
\* The socket is closed, and what the client has sent in vain resets it.
CloseSocket(c) ==
    connection' = [connection EXCEPT ![c] = IF sent[c] > got[c] THEN "reset" ELSE "closed"]

\* A worker takes the task; after a stop it closes the connection at once.
TaskStart(w) ==
    /\ Executor!Start(w)
    /\ IF open
       THEN Serve(Head(waiting), "queued", "head") /\ UNCHANGED connection
       ELSE Serve(Head(waiting), "queued", "done") /\ CloseSocket(Head(waiting))
    /\ UNCHANGED <<server, sent, got, back, clients, status, answer, handled>>

\* The checks of read_request after a recv, in order.
Checked(c) ==
    LET complete == got'[c] >= Size(c)
        whole == got'[c] >= request[c].head IN
    IF got'[c] > MaxRequest THEN Reply(c, 413, 1)
    ELSE IF serving[c] = "head" /\ whole /\ ~request[c].valid THEN Reply(c, 400, 1)
    ELSE IF serving[c] = "head" /\ whole /\ Size(c) > MaxRequest THEN Reply(c, 413, 1)
    ELSE /\ serving' = [serving EXCEPT ![c] = IF complete THEN "handle"
                                              ELSE IF whole THEN "body" ELSE "head"]
         /\ UNCHANGED <<status, answer>>

Receive(c) ==
    /\ serving[c] \in {"head", "body"}
    /\ \E n \in 1..(sent[c] - got[c]) : got' = [got EXCEPT ![c] = @ + n]
    /\ Checked(c)
    /\ UNCHANGED <<server, connection, sent, back, clients, handled, executor>>

\* The client has closed, or sent nothing for five seconds.
ReceiveFails(c) ==
    /\ serving[c] \in {"head", "body"} /\ sent[c] = got[c]
    /\ Reply(c, 400, 1)
    /\ UNCHANGED <<server, wire, clients, handled, executor>>

Handle(c) ==
    /\ serving[c] = "handle"
    /\ \E units \in Answers : Reply(c, 200, units)
    /\ handled' = [handled EXCEPT ![c] = @ + 1]
    /\ UNCHANGED <<server, wire, clients, executor>>

\* send_all: a head of one unit and the body, or less if send fails; in both cases
\* the socket is closed.
Send(c) ==
    /\ Serve(c, "send", IF fate[c] = "refused" THEN "none" ELSE "done")
    /\ \E n \in 0..(1 + answer[c]) : back' = [back EXCEPT ![c] = n]
    /\ CloseSocket(c)
    /\ UNCHANGED <<server, sent, got, clients, status, answer, handled, executor>>

TaskEnd(w) ==
    /\ slot[w] # NoClient /\ Serve(slot[w], "done", "none")
    /\ Executor!Finish(w)
    /\ UNCHANGED <<server, wire, clients, status, answer, handled>>

-----------------------------------------------------------------------------
(* RuniClient::send *)

Return(c, what) ==
    /\ client' = [client EXCEPT ![c] = "returned"]
    /\ received' = [received EXCEPT ![c] = what]

Connect(c) ==
    /\ client[c] = "idle"
    /\ IF listening
       THEN /\ client' = [client EXCEPT ![c] = "send"]
            /\ connection' = [connection EXCEPT ![c] = "backlog"]
            /\ UNCHANGED received
       ELSE Return(c, "error") /\ UNCHANGED connection
    /\ UNCHANGED <<server, sent, got, back, request, tasks, executor>>

\* What reaches a socket that was closed may reset the connection.
ClientSend(c) ==
    /\ client[c] = "send"
    /\ sent' = [sent EXCEPT ![c] = @ + 1]
    /\ client' = [client EXCEPT ![c] = IF sent'[c] = Size(c) THEN "read" ELSE "send"]
    /\ \/ UNCHANGED connection
       \/ connection[c] = "closed" /\ connection' = [connection EXCEPT ![c] = "reset"]
    /\ UNCHANGED <<server, got, back, request, received, tasks, executor>>

\* Bug: a response is taken for complete when its head is.
HeadIsComplete(c) == back[c] >= 1
\* parse_response: the head is complete, and the body as long as it says.
IsComplete(c) == back[c] >= 1 /\ back[c] - 1 >= answer[c]

\* recv has returned all that was sent, then 0, and the response is parsed.
ClientParses(c) ==
    /\ client[c] = "read" /\ connection[c] = "closed"
    /\ Return(c, IF IsComplete(c) THEN "response" ELSE "error")
    /\ UNCHANGED <<server, wire, request, tasks, executor>>

\* The connection is reset, or a timeout passes with nothing to read or no room
\* to send.
ClientFails(c) ==
    /\ client[c] \in {"send", "read"}
    /\ Return(c, "error")
    /\ UNCHANGED <<server, wire, request, tasks, executor>>

-----------------------------------------------------------------------------
Own == StopListener \/ JoinAcceptor \/ StopReturns
AcceptLoop == CheckRunning \/ AcceptFails \/ Submit \/ Refused \/ \E c \in Clients : Accept(c)
TaskStep(c) == Receive(c) \/ ReceiveFails(c) \/ Handle(c) \/ Send(c)
Work(w) == TaskStart(w) \/ TaskEnd(w)
ClientStep(c) == Connect(c) \/ ClientSend(c) \/ ClientParses(c) \/ ClientFails(c)

HttpNext ==
    \/ Start \/ Stop \/ Own \/ AcceptLoop
    \/ \E w \in Threads : Work(w)
    \/ \E c \in Clients : TaskStep(c) \/ ClientStep(c)

\* The server's threads go on, and handle returns; a blocked accept is woken only
\* by a connection or by the listener's end.
HttpFairness ==
    /\ WF_httpVars(Own)
    /\ WF_httpVars(CheckRunning \/ Submit \/ Refused \/ (~listening /\ AcceptFails))
    /\ \A w \in Threads : WF_httpVars(Work(w))
    /\ \A c \in Clients : WF_httpVars(TaskStep(c))

HttpSpec == HttpInit /\ [][HttpNext]_httpVars /\ HttpFairness

-----------------------------------------------------------------------------
(* Properties *)

\* A request is handled once at most and only when all of it has been read and it
\* is within the limit; and a client for which send succeeds has all of the answer
\* to its request, whatever is cut off, refused or stopped in between.
AnswersAreWhole == \A c \in Clients :
    /\ handled[c] <= 1
    /\ handled[c] = 1 => got[c] = Size(c) /\ request[c].valid /\ Size(c) <= MaxRequest
    /\ received[c] = "response" =>
          /\ back[c] = 1 + answer[c]
          /\ status[c] = 200 <=> handled[c] = 1

\* stop returns, whatever clients do, and every connection the server had
\* accepted is then closed.
StopEndsEverything ==
    /\ owner # "out" ~> owner = "out"
    /\ [](owner = "out" /\ ~running => \A c \in Clients : connection[c] # "open")
=============================================================================
