----------------------------- MODULE Delegation -----------------------------
(***************************************************************************)
(* Runi::spawn_delegate (src/src/agent/runtime.cpp): a parent agent fans   *)
(* tasks out to child agents on an executor and an AgentRegistry of their  *)
(* own, waits for MultiAgentRuntime::run_parallel, and turns the outcomes  *)
(* into its tool result.  A child is read-only for tools, but ends its ask *)
(* like every agent, with promote on the durable memory of the workspace   *)
(* (DurableMemory), which it shares with its siblings, its parent and      *)
(* agents of other processes.                                              *)
(* Of run_parallel this takes what MultiAgent establishes: a task runs at  *)
(* most once, on one of the workers, and the call returns when no task     *)
(* runs.  The executor's queue holds all tasks and the one agent has a     *)
(* place per worker, so no task is refused and none waits for a lease.     *)
(***************************************************************************)
EXTENDS DurableMemory

CONSTANTS
    Parent, Outsider,      \* the delegating agent; one of another process
    MaxTasks,              \* options.max_delegate_tasks
    DelegateWorkers        \* values of options.delegate_workers

Children == 1..MaxTasks

ASSUME DelegationAssumption ==
    /\ MaxTasks \in Nat \ {0}
    /\ Promoters = Children \cup {Parent, Outsider}
    /\ Parent \notin Children /\ Outsider \notin Children \cup {Parent}
    /\ DelegateWorkers \subseteq Nat \ {0}

VARIABLES
    workers,      \* options.delegate_workers
    factory,      \* is there a child_model_factory
    request,      \* the parsed DelegateRequest, or "none"
    parent,       \* "asked", "waiting", "told", "answered"
    told,         \* the result of the delegate tool
    child,        \* "queued", "running", "ended" per task
    outcome,      \* the AgentTaskOutcome of each task
    stop, stopped \* the parent's stop token; run_parallel's shared_stop

tasks == <<child, outcome>>
options == <<workers, factory>>
stops == <<stop, stopped>>
vars == <<memoryVars, options, request, parent, told, tasks, stops>>

\* parse_delegate_request: `task`, the legacy form of one child, or `tasks`.
Requests == {[size |-> 1, failFast |-> ff, legacy |-> TRUE] : ff \in BOOLEAN} \cup
            {[size |-> n, failFast |-> ff, legacy |-> FALSE] :
                n \in Children, ff \in BOOLEAN}
InBatch == 1..request.size

Init ==
    /\ MemoryInit
    /\ workers \in DelegateWorkers /\ factory \in BOOLEAN
    /\ request = [size |-> 0, failFast |-> FALSE, legacy |-> FALSE]
    /\ parent = "asked" /\ told = [ok |-> TRUE, says |-> <<>>]
    /\ child = [t \in Children |-> "queued"]
    /\ outcome = [t \in Children |-> "none"]
    /\ stop = FALSE /\ stopped = FALSE

-----------------------------------------------------------------------------
(* The parent *)

Tell(result) == parent' = "told" /\ told' = result
Error(code) == [ok |-> FALSE, says |-> <<code>>]

\* spawn_delegate up to run_parallel.  Without a factory the child shares the
\* parent's model client, which serves one child only.
Spawn ==
    /\ parent = "asked"
    /\ request' \in Requests
    /\ IF stop THEN Tell(Error("run_cancelled"))
       ELSE IF ~factory /\ request'.size # 1 THEN Tell(Error("child_model_factory_missing"))
       ELSE parent' = "waiting" /\ UNCHANGED told
    /\ UNCHANGED <<memoryVars, options, tasks, stops>>

\* run_parallel has returned, and the outcomes become the tool's result in the
\* order of the tasks.
Return ==
    /\ parent = "waiting" /\ \A t \in InBatch : child[t] = "ended"
    /\ Tell(IF stop THEN Error("run_cancelled")
            ELSE IF request.legacy /\ outcome[1] # "success" THEN Error(outcome[1])
            ELSE [ok |-> TRUE, says |-> [t \in InBatch |-> outcome[t]]])
    /\ UNCHANGED <<memoryVars, options, request, tasks, stops>>

\* The parent's final answer, with a promotion of its own, after a delegate
\* call or without one; a stop that was noticed ends the run before.
ParentAnswers ==
    /\ parent \in {"asked", "told"} /\ parent' = "answered"
    /\ told.says # <<"run_cancelled">>
    /\ \E wanted \in BOOLEAN, answer \in Answers : Promote(Parent, wanted, answer)
    /\ UNCHANGED <<options, request, told, tasks, stops>>

\* The stop reaches the shared stop source while run_parallel is under way.
RequestStop ==
    /\ ~stop /\ parent # "answered"
    /\ stop' = TRUE
    /\ stopped' = (stopped \/ parent = "waiting")
    /\ UNCHANGED <<memoryVars, options, request, parent, told, tasks>>

-----------------------------------------------------------------------------
(* The children *)

\* Bug: a task that failed keeps its worker.
RunningOrFailed == {t \in Children : child[t] = "running" \/ outcome[t] = "failed"}
Running == {t \in Children : child[t] = "running"}
\* The executor's workers: min(options.delegate_workers, tasks.size()).
WorkerCount == Min({workers, request.size})

End(t, what) ==
    /\ child' = [child EXCEPT ![t] = "ended"]
    /\ outcome' = [outcome EXCEPT ![t] = what]
    /\ stopped' = (\/ stopped
                   \/ request.failFast /\ what \notin {"success", "cancelled"})
    /\ UNCHANGED stop

\* A worker takes the oldest task.
MayStart(t) ==
    /\ parent = "waiting" /\ t \in InBatch /\ child[t] = "queued"
    /\ \A u \in 1..(t - 1) : child[u] # "queued"
    /\ Cardinality(Running) < WorkerCount

\* A stopped batch starts no more children; a child needs a model client.
Refuse(t) ==
    /\ MayStart(t)
    /\ \/ stopped /\ End(t, "cancelled")
       \/ ~stopped /\ factory /\ End(t, "model_client")
    /\ UNCHANGED <<memoryVars, options, request, parent, told>>

Start(t) ==
    /\ MayStart(t) /\ ~stopped
    /\ child' = [child EXCEPT ![t] = "running"]
    /\ UNCHANGED <<memoryVars, options, request, parent, told, outcome, stops>>

\* ask comes to its final answer, or to a limit.
ChildAnswers(t) ==
    /\ child[t] = "running"
    /\ \E wanted \in BOOLEAN, answer \in Answers : Promote(t, wanted, answer)
    /\ UNCHANGED <<options, request, parent, told, tasks, stops>>

\* ask fails, or notices the stop; both before its final answer.
ChildFails(t) ==
    /\ child[t] = "running" /\ at[t] = "idle"
    /\ End(t, IF stopped THEN "run_cancelled" ELSE "failed")
    /\ UNCHANGED <<memoryVars, options, request, parent, told>>

\* The answer, or what promote threw, becomes the task's outcome.
ChildReturns(t) ==
    /\ child[t] = "running" /\ at[t] \in {"returned", "threw"}
    /\ End(t, IF at[t] = "returned" THEN "success" ELSE "agent_task_exception")
    /\ UNCHANGED <<memoryVars, options, request, parent, told>>

\* An agent of another process of this workspace.
OutsiderAnswers ==
    /\ \E answer \in Answers : Promote(Outsider, TRUE, answer)
    /\ UNCHANGED <<options, request, parent, told, tasks, stops>>

-----------------------------------------------------------------------------
InMemory(step) == step /\ UNCHANGED <<options, request, parent, told, tasks, stops>>

ChildStep(t) == \/ Refuse(t) \/ Start(t) \/ ChildAnswers(t) \/ ChildFails(t)
                \/ ChildReturns(t) \/ InMemory(PromoteStep(t))

Next ==
    \/ Spawn \/ Return \/ ParentAnswers \/ RequestStop \/ OutsiderAnswers
    \/ \E t \in Children : ChildStep(t)
    \/ \E p \in {Parent, Outsider} : InMemory(PromoteStep(p))
    \/ \E p \in Promoters : InMemory(Throw(p))

\* Workers take tasks, a child comes to an answer or fails, promote goes on.
Fairness == WF_vars(Return) /\ \A t \in Children : WF_vars(ChildStep(t))

Spec == Init /\ [][Next]_vars /\ Fairness

-----------------------------------------------------------------------------
(* Properties *)

\* No agent of another process takes part.
Alone == at[Outsider] = "idle"

\* What a promotion that returned has stored can be found until a note on the
\* same subject supersedes it, and nothing else can be found, as long as no two
\* promotions overlap: there is no lock, so it takes one worker and no other
\* process (then the parent's wait for its children is what keeps them apart) or
\* good luck.  A topic has one note on a subject also when promotions overlap, for
\* each writes back a merge of one reading, unless two write a file at a time.
PromotedNotesKept ==
    /\ Busy = {} /\ overlapped = {} => Stored = owed
    /\ workers = 1 /\ Alone => overlapped \subseteq {"fault"}
    /\ "writes" \notin overlapped => \A t \in Topics : OneNotePerSubject(file[t])

\* The delegate call returns: children end, and those behind them start.
DelegateReturns == parent = "waiting" ~> parent = "told"
=============================================================================
