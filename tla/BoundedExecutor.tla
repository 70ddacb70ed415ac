--------------------------- MODULE BoundedExecutor ---------------------------
(***************************************************************************)
(* BoundedExecutor (src/src/orchestration/execution.cpp): worker threads   *)
(* sharing a bounded queue under one mutex and one condition variable.  A  *)
(* step is one critical section of mutex_, or what a thread does between   *)
(* two of them.  Worker w is at "check" before it evaluates the predicate  *)
(* of the wait, at "wait" while blocked on the condition variable, at      *)
(* "run" in the task, at "retire" until it decrements active_, and at      *)
(* "exit" once worker_loop has returned.  accepted_ and rejected_ change   *)
(* with future in the same critical section and are left out; so are the   *)
(* jthread stop tokens, which only tasks read and which nothing requests   *)
(* before accepting_ is false.                                             *)
(***************************************************************************)
EXTENDS Naturals, Sequences, FiniteSets

CONSTANTS
    Tasks,          \* the callables handed to submit
    Workers,        \* the worker threads
    QueueCapacity,  \* queue_capacity_
    NoTask          \* a worker's empty local `task`

ASSUME ExecutorAssumption ==
    /\ QueueCapacity \in Nat \ {0}
    /\ NoTask \notin Tasks
    /\ IsFiniteSet(Workers)
    /\ Workers # {}

VARIABLES
    queue,      \* queue_
    accepting,  \* accepting_
    pc, task,   \* per worker: its place in worker_loop and its local `task`
    future,     \* future[t]: the future that submit returned, or its refusal
    active,     \* active_
    host        \* the owner's thread: "up", "closing", "stopped", "joined"

vars == <<queue, accepting, pc, task, future, active, host>>

Init ==
    /\ queue = <<>>
    /\ accepting = TRUE
    /\ pc = [w \in Workers |-> "check"]
    /\ task = [w \in Workers |-> NoTask]
    /\ future = [t \in Tasks |-> "unsubmitted"]
    /\ active = 0
    /\ host = "up"

Goto(w, from, to) == pc[w] = from /\ pc' = [pc EXCEPT ![w] = to]

Sleepers == {w \in Workers : pc[w] = "wait"}

\* Bug: the notification is forgotten.
NotifyNobody == pc' = pc

\* notify_one: the operating system picks a sleeper, if there is one.
NotifyOne ==
    IF Sleepers = {} THEN pc' = pc
    ELSE \E w \in Sleepers : pc' = [pc EXCEPT ![w] = "check"]

\* notify_all
NotifyAll == pc' = [w \in Workers |-> IF w \in Sleepers THEN "check" ELSE pc[w]]

-----------------------------------------------------------------------------
(* enqueue, called by submit on any thread *)

QueueIsFull == Len(queue) >= QueueCapacity

EnqueueAccept(t) ==
    /\ future[t] = "unsubmitted" /\ accepting /\ ~QueueIsFull
    /\ queue' = Append(queue, t)
    /\ future' = [future EXCEPT ![t] = "pending"]
    /\ NotifyOne
    /\ UNCHANGED <<accepting, task, active, host>>

EnqueueReject(t) ==
    /\ future[t] = "unsubmitted"
    /\ ~accepting \/ QueueIsFull
    /\ future' = [future EXCEPT ![t] = "refused"]
    /\ UNCHANGED <<queue, accepting, pc, task, active, host>>

-----------------------------------------------------------------------------
(* worker_loop *)

\* The wait ends when there is something to do or nothing more to come.
WorkerWait(w) ==
    /\ queue = <<>> /\ accepting
    /\ Goto(w, "check", "wait")
    /\ UNCHANGED <<queue, accepting, task, future, active, host>>

\* A condition variable may return from its wait for no reason.
SpuriousWakeup(w) ==
    /\ Goto(w, "wait", "check")
    /\ UNCHANGED <<queue, accepting, task, future, active, host>>

\* Bugs: the task is read and left in the queue; the newest task goes first.
TakePeeks(w) ==
    task' = [task EXCEPT ![w] = Head(queue)] /\ queue' = queue
TakeNewest(w) ==
    /\ task' = [task EXCEPT ![w] = queue[Len(queue)]]
    /\ queue' = SubSeq(queue, 1, Len(queue) - 1)
TakeOldest(w) ==
    task' = [task EXCEPT ![w] = Head(queue)] /\ queue' = Tail(queue)

WorkerTake(w) ==
    /\ queue # <<>>
    /\ Goto(w, "check", "run")
    /\ TakeOldest(w)
    /\ active' = active + 1
    /\ UNCHANGED <<accepting, future, host>>

\* Bug: a worker leaves as soon as the executor is stopped.
ExitUndrained == ~accepting
MayExit == queue = <<>> /\ ~accepting

WorkerExit(w) ==
    /\ MayExit
    /\ Goto(w, "check", "exit")
    /\ UNCHANGED <<queue, accepting, task, future, active, host>>

\* The packaged task leaves its value or its exception in the future.
WorkerRun(w) ==
    /\ Goto(w, "run", "retire")
    /\ future' = [future EXCEPT ![task[w]] = "ready"]
    /\ UNCHANGED <<queue, accepting, task, active, host>>

Retire == active' = active - 1

\* Outside the mutex, and after the future is ready.
WorkerRetire(w) ==
    /\ Goto(w, "retire", "check")
    /\ Retire
    /\ task' = [task EXCEPT ![w] = NoTask]
    /\ UNCHANGED <<queue, accepting, future, host>>

-----------------------------------------------------------------------------
(* request_stop and shutdown *)

StopAccepting ==
    /\ host = "up"
    /\ accepting' = FALSE
    /\ host' = "closing"
    /\ UNCHANGED <<queue, pc, task, future, active>>

\* The stop tokens and notify_all, after the mutex has been released.
StopNotify ==
    /\ host = "closing"
    /\ NotifyAll
    /\ host' = "stopped"
    /\ UNCHANGED <<queue, accepting, task, future, active>>

\* workers_.clear(): the jthread destructors join.
Join ==
    /\ host = "stopped"
    /\ \A w \in Workers : pc[w] = "exit"
    /\ host' = "joined"
    /\ UNCHANGED <<queue, accepting, pc, task, future, active>>

-----------------------------------------------------------------------------
WorkerStep(w) == WorkerWait(w) \/ WorkerTake(w) \/ WorkerExit(w)
                 \/ WorkerRun(w) \/ WorkerRetire(w)

Next ==
    \/ \E t \in Tasks : EnqueueAccept(t) \/ EnqueueReject(t)
    \/ \E w \in Workers : WorkerStep(w) \/ SpuriousWakeup(w)
    \/ StopAccepting \/ StopNotify \/ Join

Spec == Init /\ [][Next]_vars

\* A thread that can take its next step does, and a task returns.  Nobody has
\* to submit or to stop the executor, and no wakeup comes out of nowhere.
FairSpec ==
    /\ Spec
    /\ \A w \in Workers : WF_vars(WorkerStep(w))
    /\ WF_vars(StopNotify) /\ WF_vars(Join)

-----------------------------------------------------------------------------
(* Properties *)

Held(w) == pc[w] \in {"run", "retire"}
Started == {w \in Workers : pc[w] = "run"}

TypeOK ==
    /\ queue \in Seq(Tasks)
    /\ Len(queue) <= QueueCapacity
    /\ accepting \in BOOLEAN
    /\ pc \in [Workers -> {"check", "wait", "run", "retire", "exit"}]
    /\ task \in [Workers -> Tasks \cup {NoTask}]
    /\ \A w \in Workers : task[w] = NoTask <=> ~Held(w)
    /\ future \in [Tasks -> {"unsubmitted", "refused", "pending", "ready"}]
    /\ active \in Nat
    /\ host \in {"up", "closing", "stopped", "joined"}
    /\ accepting <=> host = "up"

\* An accepted task whose future is not ready is in exactly one place, one
\* position of queue_ or one worker's hands, and no other task is in any:
\* a task is neither lost nor run twice, whatever the threads do.
TaskInOnePlace ==
    /\ \A i, j \in DOMAIN queue : queue[i] = queue[j] => i = j
    /\ \A v, w \in Started : task[v] = task[w] => v = w
    /\ \A i \in DOMAIN queue, w \in Started : queue[i] # task[w]
    /\ \A t \in Tasks : future[t] = "pending" <=>
           (\E i \in DOMAIN queue : queue[i] = t)
             \/ (\E w \in Started : task[w] = t)

\* active_ counts the workers between the pop and the decrement: snapshot
\* never reports more than the number of workers, nor a task still queued.
ActiveIsExact == active = Cardinality({w \in Workers : Held(w)})

\* notify_one under the mutex is enough: a worker sleeps only while workers on
\* their way to the predicate are as many as the queued tasks.  And a worker
\* returns from worker_loop only after the last accepted task was taken.
NoIdleSleeper ==
    /\ Sleepers # {} =>
           Len(queue) <= Cardinality({w \in Workers : pc[w] = "check"})
    /\ (\E w \in Workers : pc[w] = "exit") => queue = <<>> /\ ~accepting
    /\ host \in {"stopped", "joined"} => Sleepers = {}

\* The threads, the mutex and the condition variable implement the pool.
Slot == [w \in Workers |-> IF pc[w] = "run" THEN task[w] ELSE NoTask]
Pool == INSTANCE TaskPool
            WITH open <- accepting, waiting <- queue, slot <- Slot, fate <- future
ImplementsPool == Pool!Spec

\* An accepted task runs, before a stop or after it.
AcceptedTaskCompletes ==
    \A t \in Tasks : future[t] = "pending" ~> future[t] = "ready"

\* shutdown returns: request_stop wakes every sleeper, and every worker joins.
ShutdownJoins == host = "closing" ~> host = "joined"
=============================================================================
