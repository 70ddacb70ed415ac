------------------------------ MODULE TaskPool ------------------------------
(***************************************************************************)
(* What BoundedExecutor promises the code that submits to it: a bounded    *)
(* FIFO in front of a fixed set of slots.  A task is offered once, and is  *)
(* then either refused for good or runs exactly once to its end, also when *)
(* the pool has been closed in the meantime.  Threads, the mutex and the   *)
(* condition variable are not here: BoundedExecutor.tla has them and is    *)
(* shown to implement this module, and RuntimeService.tla is built on it.  *)
(***************************************************************************)
EXTENDS Naturals, Sequences

CONSTANTS
    Tasks,          \* what may be submitted
    Workers,        \* the slots, one per worker thread
    QueueCapacity,  \* queue_capacity_, positive
    NoTask          \* an empty slot, not a task

VARIABLES
    open,     \* the pool accepts tasks
    waiting,  \* accepted tasks that no slot has taken yet, oldest first
    slot,     \* slot[w]: the task worker w runs, or NoTask
    fate      \* fate[t]: what became of the task, as its submitter sees it

poolVars == <<open, waiting, slot, fate>>

Init ==
    /\ open = TRUE
    /\ waiting = <<>>
    /\ slot = [w \in Workers |-> NoTask]
    /\ fate = [t \in Tasks |-> "unsubmitted"]

\* The two refusals of enqueue: closed, or the queue is at its capacity.
MustRefuse == ~open \/ Len(waiting) >= QueueCapacity

Refuse(t) ==
    /\ fate[t] = "unsubmitted"
    /\ MustRefuse
    /\ fate' = [fate EXCEPT ![t] = "refused"]
    /\ open' = open /\ UNCHANGED <<waiting, slot>>

Accept(t) ==
    /\ fate[t] = "unsubmitted"
    /\ ~MustRefuse
    /\ waiting' = Append(waiting, t)
    /\ fate' = [fate EXCEPT ![t] = "pending"]
    /\ open' = open /\ UNCHANGED slot

Start(w) ==
    /\ waiting # <<>>
    /\ slot[w] = NoTask
    /\ slot' = [slot EXCEPT ![w] = Head(waiting)]
    /\ waiting' = Tail(waiting)
    /\ open' = open /\ UNCHANGED fate

Finish(w) ==
    /\ slot[w] # NoTask
    /\ fate' = [fate EXCEPT ![slot[w]] = "ready"]
    /\ slot' = [slot EXCEPT ![w] = NoTask]
    /\ open' = open /\ UNCHANGED waiting

Close ==
    /\ open
    /\ open' = FALSE
    /\ UNCHANGED <<waiting, slot, fate>>

Next ==
    \/ \E t \in Tasks : Refuse(t) \/ Accept(t)
    \/ \E w \in Workers : Start(w) \/ Finish(w)
    \/ Close

Spec == Init /\ [][Next]_poolVars
=============================================================================
