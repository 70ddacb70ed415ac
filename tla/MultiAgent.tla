----------------------------- MODULE MultiAgent -----------------------------
(***************************************************************************)
(* AgentRegistry, AgentLease and MultiAgentRuntime::run_parallel           *)
(* (src/src/orchestration/multi_agent.cpp): one coordinator submits a      *)
(* batch of tasks to a bounded executor (TaskPool), each task leases       *)
(* capacity of a fitting agent, executes and gives the lease back, and the *)
(* coordinator collects the outcomes in the order of the batch.  A step is *)
(* a critical section of the registry's mutex or what a thread does        *)
(* outside it.  acquire keeps the mutex from its checks to its wait, but a *)
(* stop request notifies without it, so a task at "gap" has looked at the  *)
(* stop flag and does not sleep yet.  The owner of the executor may shut   *)
(* it down meanwhile.                                                      *)
(***************************************************************************)
EXTENDS Naturals, Sequences, FiniteSets

CONSTANTS
    N,                       \* no batch is larger
    Batches,                 \* the batches: how many tasks, options.fail_fast
    Agents,                  \* agent ids that may be registered
    MaxConcurrency,          \* max_concurrency of each agent
    Fits,                    \* Fits[t]: agents of the role and capabilities of t
    Workers, QueueCapacity,  \* the executor
    Nobody                   \* no agent, no task

Tasks == 1..N

ASSUME MultiAgentAssumption ==
    /\ N \in Nat
    /\ Batches \subseteq (0..N) \X BOOLEAN
    /\ QueueCapacity \in Nat \ {0}
    /\ MaxConcurrency \in [Agents -> Nat \ {0}]
    /\ Fits \in [Tasks -> SUBSET Agents]
    /\ Nobody \notin Tasks \cup Agents

VARIABLES
    registered, active,   \* entries of the registry, and their active_tasks
    at, lease,            \* per task: where it is, and the agent it holds
    late,                 \* tasks whose deadline has passed
    stopped, asked,       \* shared_stop; did the caller's token request it
    outcome,              \* what a task's future holds, or its refusal
    next,                 \* the coordinator: the index it submits or collects
    phase,                \* "submit", "collect", "returned"
    size, failFast,       \* the batch is 1..size; options.fail_fast
    open, waiting, slot, fate   \* the executor

registry == <<registered, active>>
pool == <<open, waiting, slot, fate>>
options == <<size, failFast>>
coordinator == <<next, phase, options>>
vars == <<registry, at, lease, late, stopped, asked, outcome, coordinator, pool>>

Pool == INSTANCE TaskPool WITH NoTask <- Nobody

Init ==
    /\ registered \in SUBSET Agents
    /\ active = [a \in Agents |-> 0]
    /\ at = [t \in Tasks |-> "new"]
    /\ lease = [t \in Tasks |-> Nobody]
    /\ late = {} /\ stopped = FALSE /\ asked = FALSE
    /\ outcome = [t \in Tasks |-> "none"]
    /\ next = 1 /\ phase = "submit"
    /\ \E batch \in Batches : size = batch[1] /\ failFast = batch[2]
    /\ Pool!Init

Goto(t, from, to) == at[t] = from /\ at' = [at EXCEPT ![t] = to]
\* at after the steps `moved` and a notify_all of the registry's condition.
Notified(moved) ==
    [t \in Tasks |-> IF moved[t] = "wait" THEN "acquire" ELSE moved[t]]

\* A task between its checks and its wait holds the registry's mutex.
MutexFree == \A t \in Tasks : at[t] # "gap"

\* shared_stop->request_stop(): the stop callbacks of all waits notify.
StopAll(moved) == stopped' = TRUE /\ at' = Notified(moved)

\* Bug: the failure of a task stops the others also when fail_fast is off.
FailAlways(moved) == StopAll(moved)
\* Every failure stops the batch under fail_fast, and only then.
Fail(moved) ==
    IF failFast THEN StopAll(moved) ELSE at' = moved /\ UNCHANGED stopped

End(t) == [at EXCEPT ![t] = "end"]
SetOutcome(t, what) == outcome' = [outcome EXCEPT ![t] = what]

-----------------------------------------------------------------------------
(* The registry, used by its owner while tasks run *)

Add(a) ==
    /\ MutexFree /\ a \notin registered
    /\ registered' = registered \cup {a}
    /\ active' = [active EXCEPT ![a] = 0]
    /\ at' = Notified(at)
    /\ UNCHANGED <<lease, late, stopped, asked, outcome, coordinator, pool>>

MayRemove(a) == active[a] = 0

RemoveAgent(a) ==
    /\ MutexFree /\ a \in registered
    /\ MayRemove(a)
    /\ registered' = registered \ {a}
    /\ UNCHANGED <<active, at, lease, late, stopped, asked, outcome,
                   coordinator, pool>>

\* Bug: off by one at the capacity of an agent.
HasRoomForOneMore(a) == active[a] <= MaxConcurrency[a]
HasRoom(a) == active[a] < MaxConcurrency[a]
Candidates(t) == {a \in Fits[t] \cap registered : HasRoom(a)}

-----------------------------------------------------------------------------
(* run_parallel, the coordinator's thread *)

Submit ==
    /\ phase = "submit" /\ next <= size
    /\ \/ /\ Pool!Accept(next)
          /\ UNCHANGED <<at, stopped, outcome>>
       \/ /\ Pool!Refuse(next)
          /\ SetOutcome(next, "refused")
          /\ Fail(End(next))
    /\ next' = next + 1
    /\ UNCHANGED <<registry, lease, late, asked, phase, options>>

AllSubmitted ==
    /\ phase = "submit" /\ next > size
    /\ phase' = "collect" /\ next' = 1
    /\ UNCHANGED <<registry, at, lease, late, stopped, asked, outcome, options, pool>>

\* Bug: a future that is not ready is passed over.
TakeUnready(t) == TRUE
FutureIsReady(t) == fate[t] \in {"ready", "refused"}

\* future.get() rethrows what the agent threw; only here it stops the others.
Collect ==
    /\ phase = "collect" /\ next <= size
    /\ FutureIsReady(next)
    /\ IF outcome[next] = "threw" THEN Fail(at) ELSE UNCHANGED <<at, stopped>>
    /\ next' = next + 1
    /\ UNCHANGED <<registry, lease, late, asked, outcome, phase, options, pool>>

ReturnOutcomes ==
    /\ phase = "collect" /\ next > size
    /\ phase' = "returned"
    /\ UNCHANGED <<registry, at, lease, late, stopped, asked, outcome, next, options,
                   pool>>

\* The caller's stop token, through external_stop.
CallerStops ==
    /\ ~asked /\ phase # "returned"
    /\ asked' = TRUE
    /\ StopAll(at)
    /\ UNCHANGED <<registry, lease, late, outcome, coordinator, pool>>

\* BoundedExecutor::request_stop, by the executor's owner.
ExecutorStops ==
    /\ phase # "returned"
    /\ Pool!Close
    /\ UNCHANGED <<registry, at, lease, late, stopped, asked, outcome, coordinator>>

-----------------------------------------------------------------------------
(* One task on a worker of the executor *)

\* request_stop closes the queue first and then requests the stop of each
\* worker: a task that begins in between does not see it.
TaskBegin(w) ==
    LET t == Head(waiting)
        begun == [at EXCEPT ![t] = IF stopped' THEN "end" ELSE "enter"]
    IN
    /\ Pool!Start(w)
    /\ \/ stopped' = stopped /\ at' = begun
       \/ ~open /\ stopped' = TRUE /\ at' = Notified(begun)
    /\ outcome' = [outcome EXCEPT ![t] = IF begun[t] = "end" THEN "cancelled" ELSE @]
    /\ UNCHANGED <<registry, lease, late, asked, coordinator>>

\* acquire fails with `what`.
GiveUp(t, what) == Goto(t, at[t], "failed") /\ SetOutcome(t, what)

\* The look for any fitting agent, once: the wait is not for agents to come.
AcquireEnter(t) ==
    /\ MutexFree /\ at[t] = "enter"
    /\ IF Fits[t] \cap registered # {}
       THEN Goto(t, "enter", "acquire") /\ UNCHANGED outcome
       ELSE GiveUp(t, "agent_not_found")
    /\ UNCHANGED <<registry, lease, late, stopped, asked, coordinator, pool>>

LeastLoaded(t, a) ==
    /\ a \in Candidates(t)
    /\ \A other \in Candidates(t) : active[a] <= active[other]

\* One round of the loop of acquire with a candidate: any of the least loaded
\* (the code takes the one with the least id).
AcquireLease(t) ==
    /\ MutexFree
    /\ Goto(t, "acquire", "execute")
    /\ \E a \in Agents :
           /\ LeastLoaded(t, a)
           /\ lease' = [lease EXCEPT ![t] = a]
           /\ active' = [active EXCEPT ![a] = @ + 1]
    /\ UNCHANGED <<registered, late, stopped, asked, outcome, coordinator, pool>>

\* ... and without one: give up or wait.
AcquireBlocked(t) ==
    /\ MutexFree /\ at[t] = "acquire" /\ Candidates(t) = {}
    /\ \/ stopped /\ GiveUp(t, "cancelled")
       \/ ~stopped /\ t \in late /\ GiveUp(t, "agent_capacity_timeout")
       \/ ~stopped /\ t \notin late /\ Goto(t, "acquire", "gap")
          /\ UNCHANGED outcome
    /\ UNCHANGED <<registry, lease, late, stopped, asked, coordinator, pool>>

AcquireSleep(t) ==
    /\ Goto(t, "gap", "wait")
    /\ UNCHANGED <<registry, lease, late, stopped, asked, outcome, coordinator,
                   pool>>

DeadlinePasses(t) ==
    /\ t \notin late /\ at[t] \in {"enter", "acquire", "gap", "wait"}
    /\ late' = late \cup {t}
    /\ UNCHANGED <<registry, at, lease, stopped, asked, outcome, coordinator, pool>>

\* Bug: the wait has no deadline.
NeverOverdue(t) == FALSE
Overdue(t) == t \in late

\* wait_until returns at the deadline.
WakeLate(t) ==
    /\ Overdue(t) /\ Goto(t, "wait", "acquire")
    /\ UNCHANGED <<registry, lease, late, stopped, asked, outcome, coordinator,
                   pool>>

\* execute refuses a stopped task, or the agent's function runs to its end.
Execute(t) ==
    /\ \E what \in IF stopped THEN {"cancelled"}
                   ELSE {"success", "failed", "threw"} :
           /\ SetOutcome(t, what)
           /\ Goto(t, "execute", IF what \in {"success", "threw"}
                                 THEN "release" ELSE "failed")
    /\ UNCHANGED <<registry, lease, late, stopped, asked, coordinator, pool>>

\* The task returns its error; its lease, if any, goes out of scope after that.
ActOnFailure(t) ==
    /\ at[t] = "failed"
    /\ Fail([at EXCEPT ![t] = IF lease[t] = Nobody THEN "end" ELSE "release"])
    /\ UNCHANGED <<registry, lease, late, asked, outcome, coordinator, pool>>

\* Bug: release forgets notify_all.
ReleaseQuietly(moved) == at' = moved
ReleaseNotify(moved) == at' = Notified(moved)

\* ~AgentLease, when the task returns or an exception leaves it.
Release(t) ==
    /\ MutexFree /\ at[t] = "release"
    /\ active' = [active EXCEPT ![lease[t]] = IF @ = 0 THEN 0 ELSE @ - 1]
    /\ lease' = [lease EXCEPT ![t] = Nobody]
    /\ ReleaseNotify(End(t))
    /\ UNCHANGED <<registered, late, stopped, asked, outcome, coordinator, pool>>

TaskEnd(w) ==
    /\ slot[w] # Nobody /\ at[slot[w]] = "end"
    /\ Pool!Finish(w)
    /\ UNCHANGED <<registry, at, lease, late, stopped, asked, outcome, coordinator>>

-----------------------------------------------------------------------------
Coordinate == Submit \/ AllSubmitted \/ Collect \/ ReturnOutcomes
TaskStep(t) == \/ AcquireEnter(t) \/ AcquireLease(t) \/ AcquireBlocked(t)
               \/ AcquireSleep(t) \/ WakeLate(t) \/ Execute(t)
               \/ ActOnFailure(t) \/ Release(t)

Next ==
    \/ Coordinate \/ CallerStops \/ ExecutorStops
    \/ \E a \in Agents : Add(a) \/ RemoveAgent(a)
    \/ \E t \in Tasks : TaskStep(t) \/ DeadlinePasses(t)
    \/ \E w \in Workers : TaskBegin(w) \/ TaskEnd(w)

Spec == Init /\ [][Next]_vars

\* Threads run, agents return, time passes.  Nobody has to stop anything or to
\* change the registry.
FairSpec ==
    /\ Spec
    /\ WF_vars(Coordinate)
    /\ \A t \in Tasks : WF_vars(TaskStep(t)) /\ WF_vars(DeadlinePasses(t))
    /\ \A w \in Workers : WF_vars(TaskBegin(w) \/ TaskEnd(w))

-----------------------------------------------------------------------------
(* Properties *)

Holders(a) == {t \in Tasks : lease[t] = a}
OwnFailures == {"refused", "agent_not_found", "agent_capacity_timeout",
                "failed", "threw"}

TypeOK ==
    /\ registered \subseteq Agents
    /\ active \in [Agents -> Nat]
    /\ at \in [Tasks -> {"new", "enter", "acquire", "gap", "wait", "execute",
                         "failed", "release", "end"}]
    /\ lease \in [Tasks -> Agents \cup {Nobody}]
    /\ \A t \in Tasks : at[t] \in {"execute", "release"} => lease[t] # Nobody
    /\ late \subseteq Tasks
    /\ stopped \in BOOLEAN /\ asked \in BOOLEAN
    /\ outcome \in [Tasks -> {"none", "success", "cancelled"} \cup OwnFailures]
    /\ \A t \in Tasks : at[t] = "end" => outcome[t] # "none"
    /\ next \in 1..(size + 1) /\ phase \in {"submit", "collect", "returned"}
    /\ <<size, failFast>> \in Batches

\* active_tasks counts the leases that exist, never more than max_concurrency,
\* and an agent that is leased stays registered: remove and release cannot meet
\* in a way that frees capacity twice or leaves a lease on nothing.
LeasesAreExact ==
    /\ \A a \in registered : active[a] = Cardinality(Holders(a))
                            /\ active[a] <= MaxConcurrency[a]
    /\ \A t \in Tasks : lease[t] # Nobody => lease[t] \in registered \cap Fits[t]

\* No lost wakeup of the registry: a task sleeps in acquire only while no agent
\* that fits it has room, whoever adds agents or gives leases back.
NoSleepWithCapacity == \A t \in Tasks : at[t] = "wait" => Candidates(t) = {}

\* fail_fast preserves the triggering failure, and without it a failure stays
\* local: a batch that is stopped was stopped by the caller, by the executor,
\* or under fail_fast by a task whose own failure is still in its outcome; and
\* no task is reported cancelled in a batch that was not stopped.
CancelHasCause ==
    /\ stopped /\ ~asked /\ open =>
           failFast /\ \E t \in Tasks : outcome[t] \in OwnFailures
    /\ (\E t \in Tasks : outcome[t] = "cancelled") => stopped

\* run_parallel returns only when the batch is over: every task has its outcome
\* and no lease of it remains, so the references the tasks hold are not used
\* after it.
QuietOnReturn ==
    phase = "returned" =>
        /\ \A t \in 1..size : outcome[t] # "none" /\ lease[t] = Nobody
        /\ \A t \in 1..size : fate[t] \in {"ready", "refused"}

\* run_parallel returns, if the deadlines of its tasks pass: a sleeper that
\* missed the stop notification ends at its deadline.
RunParallelReturns == <>(phase = "returned")
=============================================================================
