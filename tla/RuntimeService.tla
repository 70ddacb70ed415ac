--------------------------- MODULE RuntimeService ---------------------------
(***************************************************************************)
(* RuntimeService (src/src/service/service.cpp) over the run tables of     *)
(* SqliteStateStore (src/src/state/state_store.cpp) and the bounded        *)
(* executor, which is taken by its contract, TaskPool.  The actors are the *)
(* connection threads that call handle ("clients"), the tasks that         *)
(* submit_run leaves with the executor, the thread that destroys the       *)
(* service, and the operating system, which may kill the process between   *)
(* any two steps.  A step is one store call, one critical section of       *)
(* active_mutex_ or one operation on a session mutex.  Requests that are   *)
(* refused without a change of state (400, 404, 409, 413) are stuttering   *)
(* steps and have no action; a session, once created, is never removed, so *)
(* the failure of get_session inside a task cannot happen.                 *)
(***************************************************************************)
EXTENDS Naturals, Sequences, FiniteSets

CONSTANTS
    Runs, Sessions, SessionOf,    \* run ids, session ids, and a run's session
    Keys,                         \* Idempotency-Key values
    Clients,                      \* connection threads of the HTTP server
    Workers, QueueCapacity,       \* the run executor
    NoRun,                        \* not a run, not a key
    MaxRequests, MaxCrashes       \* bounds on what the environment does

ASSUME ServiceAssumption ==
    /\ SessionOf \in [Runs -> Sessions]
    /\ NoRun \notin Runs \cup Keys
    /\ QueueCapacity \in Nat \ {0}
    /\ MaxRequests \in Nat
    /\ MaxCrashes \in Nat

VARIABLES
    row, keyOf, log,           \* database: status, request_id, run_events
    mode,                      \* "up", "stopping", "gone" (destroyed), "down"
    activeRuns, stop,          \* active_runs_, and which sources are requested
    lockedBy,                  \* who holds each mutex of session_mutexes_
    step,                      \* step[r]: where the task of run r is
    waiting, slot, fate,       \* the executor (TaskPool)
    op,                        \* op[c]: where client c is in its request
    heard,                     \* history: runs told to cancel before their end
    promised,                  \* history: cancels answered 202 while queued
    requests, crashes          \* how much of the bounds is used

db == <<row, keyOf, log>>
memory == <<activeRuns, stop, lockedBy>>
pool == <<waiting, slot, fate>>
history == <<heard, promised>>
bounds == <<requests, crashes>>
vars == <<db, mode, memory, step, pool, op, history, bounds>>

Pool == INSTANCE TaskPool WITH Tasks <- Runs, NoTask <- NoRun, open <- TRUE
Executing == {r \in Runs : step[r].at = "handle"}
Lifecycle == INSTANCE RunLifecycle WITH executing <- Executing

Idle == [at |-> "idle", run |-> NoRun]
NoStep == [at |-> "none", from |-> "queued", to |-> "queued"]

Init ==
    /\ row = [r \in Runs |-> "absent"]
    /\ keyOf = [r \in Runs |-> NoRun]
    /\ log = [r \in Runs |-> <<>>]
    /\ mode = "up"
    /\ activeRuns = {} /\ stop = {}
    /\ lockedBy = [s \in Sessions |-> NoRun]
    /\ step = [r \in Runs |-> NoStep]
    /\ waiting = <<>> /\ slot = [w \in Workers |-> NoRun]
    /\ fate = [r \in Runs |-> "unsubmitted"]
    /\ op = [c \in Clients |-> Idle]
    /\ heard = {} /\ promised = {}
    /\ requests = 0 /\ crashes = 0

-----------------------------------------------------------------------------
(* The state store: each call is one transaction under the store's mutex *)

\* transition_run succeeds: the pair is in the table and the row still has the
\* status the caller expects.
CanMove(r, from, to) == row[r] = from /\ to \in Lifecycle!Successors(from)

\* transition_run: the callers that ignore its result go on either way.
TransitionRun(r, from, to) ==
    /\ row' = IF CanMove(r, from, to) THEN [row EXCEPT ![r] = to] ELSE row
    /\ UNCHANGED keyOf

AppendEvent(r, event) ==
    log' = [log EXCEPT ![r] = Append(@, event)] /\ UNCHANGED <<row, keyOf>>

KeyIsKnown(k) == \E r \in Runs : row[r] # "absent" /\ keyOf[r] = k

-----------------------------------------------------------------------------
(* Requests *)

At(c, place) == op[c].at = place
Goto(c, place) == op' = [op EXCEPT ![c].at = place]
Reply(c) == op' = [op EXCEPT ![c] = Idle]

\* The server hands client c a request about run r.
Receive(c, r, place) ==
    /\ mode = "up" /\ At(c, "idle")
    /\ requests < MaxRequests
    /\ requests' = requests + 1
    /\ op' = [op EXCEPT ![c] = [at |-> place, run |-> r]]

\* POST .../runs with a fresh id and key.  A known key replays the stored row
\* (200) and a taken id is an error: neither changes anything.
CreateRun(c, r, k) ==
    /\ row[r] = "absent" /\ ~KeyIsKnown(k)
    /\ Receive(c, r, "logQueued")
    /\ row' = [row EXCEPT ![r] = "queued"]
    /\ keyOf' = [keyOf EXCEPT ![r] = k]
    /\ UNCHANGED <<log, mode, memory, step, pool, history, crashes>>

LogQueued(c) ==
    /\ At(c, "logQueued")
    /\ AppendEvent(op[c].run, "queued")
    /\ Goto(c, "register")
    /\ UNCHANGED <<mode, memory, step, pool, history, bounds>>

\* POST ...:resume
ResumeRun(c, r) ==
    /\ CanMove(r, "interrupted", "queued")
    /\ Receive(c, r, "logResumed")
    /\ TransitionRun(r, "interrupted", "queued")
    /\ promised' = promised \ {r}
    /\ UNCHANGED <<log, mode, memory, step, pool, heard, crashes>>

LogResumed(c) ==
    /\ At(c, "logResumed")
    /\ AppendEvent(op[c].run, "resumed")
    /\ Goto(c, "register")
    /\ UNCHANGED <<mode, memory, step, pool, history, bounds>>

\* submit_run, first critical section: a new stop source for the run.
Register(c) ==
    /\ At(c, "register")
    /\ IF mode = "up"
       THEN /\ activeRuns' = activeRuns \cup {op[c].run}
            /\ stop' = stop \ {op[c].run}
            /\ Goto(c, "submit")
       ELSE Reply(c) /\ UNCHANGED <<activeRuns, stop>>  \* service_stopping
    /\ UNCHANGED <<db, mode, lockedBy, step, pool, history, bounds>>

SubmitAccepted(c) ==
    /\ At(c, "submit")
    /\ Pool!Accept(op[c].run)
    /\ Reply(c)  \* 202
    /\ UNCHANGED <<db, mode, memory, step, history, bounds>>

SubmitRefused(c) ==
    /\ At(c, "submit")
    /\ Pool!Refuse(op[c].run)
    /\ Goto(c, "deregister")
    /\ UNCHANGED <<db, mode, memory, step, history, bounds>>

\* Bug: the entry of a run the executor refused stays.
KeepActive(r) == activeRuns' = activeRuns
RemoveActive(r) == activeRuns' = activeRuns \ {r}

Deregister(c) ==
    /\ At(c, "deregister")
    /\ RemoveActive(op[c].run)
    /\ Goto(c, "reject")
    /\ UNCHANGED <<db, mode, stop, lockedBy, step, pool, history, bounds>>

RejectRow(c) ==
    /\ At(c, "reject")
    /\ TransitionRun(op[c].run, "queued", "failed")
    /\ Goto(c, "logRejected")
    /\ UNCHANGED <<log, mode, memory, step, pool, history, bounds>>

LogRejected(c) ==
    /\ At(c, "logRejected")
    /\ AppendEvent(op[c].run, "rejected")
    /\ Reply(c)  \* 503
    /\ UNCHANGED <<mode, memory, step, pool, history, bounds>>

\* POST ...:cancel reads the row ...
CancelRun(c, r) ==
    /\ row[r] \in {"queued", "running"}
    /\ Receive(c, r, "signal")
    /\ UNCHANGED <<db, mode, memory, step, pool, history, crashes>>

\* Bug: the stop source is not told.
StopNobody(runs) == stop' = stop
RequestStop(runs) == stop' = stop \cup runs

\* ... stops the task if there is one in active_runs_ ...
Undecided(r) == step[r].at \notin {"write", "log", "unlock", "leave", "notify"}
CancelSignal(c) ==
    LET r == op[c].run IN
    /\ At(c, "signal")
    /\ IF r \in activeRuns
       THEN /\ RequestStop({r})
            /\ heard' = IF Undecided(r) THEN heard \cup {r} ELSE heard
       ELSE UNCHANGED <<stop, heard>>
    /\ Goto(c, "logCancel")
    /\ UNCHANGED <<db, mode, activeRuns, lockedBy, step, pool,
                   promised, bounds>>

\* ... and answers 202 in every case.
CancelReply(c) ==
    LET r == op[c].run IN
    /\ At(c, "logCancel")
    /\ AppendEvent(r, "cancel_requested")
    /\ promised' = IF row[r] = "queued" THEN promised \cup {r} ELSE promised
    /\ Reply(c)
    /\ UNCHANGED <<mode, memory, step, pool, heard, bounds>>

-----------------------------------------------------------------------------
(* The task of submit_run, on a worker of the executor *)

Place(r, from, to) ==
    /\ step[r].at = from
    /\ step' = [step EXCEPT ![r].at = to]

\* The task will write `to` over `from` and log it.
Decide(r, from, to) ==
    step' = [step EXCEPT ![r] = [at |-> "write", from |-> from, to |-> to]]

TaskStart(w) ==
    /\ Pool!Start(w)
    /\ Place(Head(waiting), "none", "lock")
    /\ UNCHANGED <<db, mode, memory, op, history, bounds>>

\* Bug: every run locks a mutex of its own.
LockIsFreeForRun(r) == lockedBy[SessionOf[r]] # r
LockIsFree(r) == lockedBy[SessionOf[r]] = NoRun

TaskLock(r) ==
    /\ Place(r, "lock", "check")
    /\ LockIsFree(r)
    /\ lockedBy' = [lockedBy EXCEPT ![SessionOf[r]] = r]
    /\ UNCHANGED <<db, mode, activeRuns, stop, pool, op, history, bounds>>

\* Bug: a run stopped before its start is dropped, and stays queued.
DropStopped(r) == Place(r, "check", "unlock")
CancelStopped(r) ==
    IF row[r] = "queued" THEN Decide(r, "queued", "cancelled")
    ELSE Place(r, "check", "unlock")

\* A stop that came before the run started.
TaskCheck(r) ==
    /\ step[r].at = "check"
    /\ IF r \in stop THEN CancelStopped(r) ELSE Place(r, "check", "claim")
    /\ UNCHANGED <<db, mode, memory, pool, op, history, bounds>>

TaskClaim(r) ==
    /\ IF CanMove(r, "queued", "running") THEN Place(r, "claim", "started")
       ELSE Place(r, "claim", "unlock")
    /\ TransitionRun(r, "queued", "running")
    /\ UNCHANGED <<log, mode, memory, pool, op, history, bounds>>

\* The event, and the call of the handler.
TaskStarted(r) ==
    /\ Place(r, "started", "handle")
    /\ AppendEvent(r, "started")
    /\ UNCHANGED <<mode, memory, pool, op, history, bounds>>

\* Bug: the result of the handler goes before the stop.
DecideByResult(r) ==
    \E to \in {"succeeded", "failed"} : Decide(r, "running", to)
\* The handler has returned a value or an error, or thrown: the stop is looked
\* at first, then the result.
DecideOutcome(r) ==
    IF r \in stop THEN Decide(r, "running", "cancelled")
    ELSE \E to \in {"succeeded", "failed"} : Decide(r, "running", to)

TaskHandled(r) ==
    /\ step[r].at = "handle"
    /\ DecideOutcome(r)
    /\ UNCHANGED <<db, mode, memory, pool, op, history, bounds>>

\* Bug: the event is appended before the row is written.
LogBeforeWrite(r) ==
    \/ /\ Place(r, "write", "log")
       /\ AppendEvent(r, step[r].to)
    \/ /\ Place(r, "log", "unlock")
       /\ TransitionRun(r, step[r].from, step[r].to)
       /\ UNCHANGED log
\* The row, then the event, each a transaction of its own.
WriteThenLog(r) ==
    \/ /\ Place(r, "write", "log")
       /\ TransitionRun(r, step[r].from, step[r].to)
       /\ UNCHANGED log
    \/ /\ Place(r, "log", "unlock")
       /\ AppendEvent(r, step[r].to)

TaskPersist(r) ==
    /\ WriteThenLog(r)
    /\ UNCHANGED <<mode, memory, pool, op, history, bounds>>

TaskUnlock(r) ==
    /\ Place(r, "unlock", "leave")
    /\ lockedBy' = [lockedBy EXCEPT ![SessionOf[r]] = NoRun]
    /\ UNCHANGED <<db, mode, activeRuns, stop, pool, op, history, bounds>>

\* remove_active: the entry goes under active_mutex_ ...
TaskLeave(r) ==
    /\ Place(r, "leave", "notify")
    /\ RemoveActive(r)
    /\ UNCHANGED <<db, mode, stop, lockedBy, pool, op, history, bounds>>

\* ... the destructor is notified after it, and the worker is free again.
TaskNotify(w) ==
    /\ slot[w] # NoRun
    /\ Place(slot[w], "notify", "none")
    /\ Pool!Finish(w)
    /\ UNCHANGED <<db, mode, memory, op, history, bounds>>

-----------------------------------------------------------------------------
(* The destructor, the end of the process and its next start *)

\* ~RuntimeService: stop everything, under active_mutex_ ...
BeginDestroy ==
    /\ mode = "up"
    /\ mode' = "stopping"
    /\ RequestStop(activeRuns)
    /\ UNCHANGED <<db, activeRuns, lockedBy, step, pool, op, history, bounds>>

\* Bug: the destructor does not wait.
DrainIgnored == TRUE
Drained == activeRuns = {}

\* ... and wait for the last entry to go.  A host keeps the object alive while
\* a request is inside handle: SocketHttpServer::stop joins its threads first.
FinishDestroy ==
    /\ mode = "stopping"
    /\ Drained
    /\ \A c \in Clients : At(c, "idle")
    /\ mode' = "gone"
    /\ UNCHANGED <<db, memory, step, pool, op, history, bounds>>

MemoryIsLost ==
    /\ mode' = "down"
    /\ activeRuns' = {} /\ stop' = {} /\ heard' = {}
    /\ lockedBy' = [s \in Sessions |-> NoRun]
    /\ step' = [r \in Runs |-> NoStep]
    /\ waiting' = <<>> /\ slot' = [w \in Workers |-> NoRun]
    /\ fate' = [r \in Runs |-> "unsubmitted"]
    /\ op' = [c \in Clients |-> Idle]
    /\ UNCHANGED <<db, promised, requests>>

\* ~BoundedExecutor has joined its workers, and main returns.
Exit ==
    /\ mode = "gone"
    /\ waiting = <<>> /\ \A w \in Workers : slot[w] = NoRun
    /\ MemoryIsLost
    /\ UNCHANGED crashes

Crash ==
    /\ mode # "down"
    /\ crashes < MaxCrashes
    /\ crashes' = crashes + 1
    /\ MemoryIsLost

\* Bug: what was running when the process died is left as it is.
RecoverNothing == row
\* main opens the store and calls recover_running_runs, then serves.
Recovered == Lifecycle!Recovered

Restart ==
    /\ mode = "down"
    /\ mode' = "up"
    /\ row' = Recovered
    /\ UNCHANGED <<keyOf, log, memory, step, pool, op, history, bounds>>

-----------------------------------------------------------------------------
ClientStep(c) ==
    \/ LogQueued(c) \/ LogResumed(c) \/ Register(c)
    \/ SubmitAccepted(c) \/ SubmitRefused(c)
    \/ Deregister(c) \/ RejectRow(c) \/ LogRejected(c)
    \/ CancelSignal(c) \/ CancelReply(c)

Request(c) ==
    \E r \in Runs : ResumeRun(c, r) \/ CancelRun(c, r)
                      \/ \E k \in Keys : CreateRun(c, r, k)

TaskStep(r) ==
    \/ TaskLock(r) \/ TaskCheck(r) \/ TaskClaim(r) \/ TaskStarted(r)
    \/ TaskPersist(r) \/ TaskUnlock(r) \/ TaskLeave(r)

WorkerStep(w) == TaskStart(w) \/ TaskNotify(w)

Next ==
    \/ \E c \in Clients : Request(c) \/ ClientStep(c)
    \/ \E r \in Runs : TaskStep(r) \/ TaskHandled(r)
    \/ \E w \in Workers : WorkerStep(w)
    \/ BeginDestroy \/ FinishDestroy \/ Exit \/ Crash \/ Restart

Spec == Init /\ [][Next]_vars

\* Threads that can go on do, the destructor is woken, a process that ended is
\* started again, and a handler returns once its stop token is requested, as
\* the agent loop and the handlers of the tests do; without a stop it may run
\* for ever.  No request, no destruction and no crash has to come.
FairSpec ==
    /\ Spec
    /\ \A c \in Clients : WF_vars(ClientStep(c))
    /\ \A r \in Runs : WF_vars(TaskStep(r))
    /\ \A r \in Runs : WF_vars(r \in stop /\ TaskHandled(r))
    /\ \A w \in Workers : WF_vars(WorkerStep(w))
    /\ WF_vars(FinishDestroy) /\ WF_vars(Exit) /\ WF_vars(Restart)

-----------------------------------------------------------------------------
(* Properties *)

Outcomes == Lifecycle!Terminal \cup {"rejected"}
Events == Outcomes \cup {"queued", "resumed", "started", "cancel_requested"}
ClientPlaces == {"idle", "logQueued", "logResumed", "register", "submit",
                 "deregister", "reject", "logRejected", "signal", "logCancel"}
TaskPlaces == {"none", "lock", "check", "claim", "started", "handle", "write",
               "log", "unlock", "leave", "notify"}

TypeOK ==
    /\ row \in [Runs -> Lifecycle!Status \cup {"absent"}]
    /\ keyOf \in [Runs -> Keys \cup {NoRun}]
    /\ log \in [Runs -> Seq(Events)]
    /\ mode \in {"up", "stopping", "gone", "down"}
    /\ activeRuns \subseteq Runs /\ stop \subseteq Runs
    /\ lockedBy \in [Sessions -> Runs \cup {NoRun}]
    /\ step \in [Runs -> [at : TaskPlaces, from : {"queued", "running"},
                          to : Lifecycle!Terminal \cup {"queued"}]]
    /\ waiting \in Seq(Runs)
    /\ slot \in [Workers -> Runs \cup {NoRun}]
    /\ fate \in [Runs -> {"unsubmitted", "refused", "pending", "ready"}]
    /\ op \in [Clients -> [at : ClientPlaces, run : Runs \cup {NoRun}]]
    /\ heard \subseteq Runs /\ promised \subseteq Runs
    /\ requests \in 0..MaxRequests /\ crashes \in 0..MaxCrashes

Occurrences(r, events) == {i \in DOMAIN log[r] : log[r][i] \in events}

InBody(r) == \/ step[r].at \in {"started", "handle"}
             \/ step[r].at = "write" /\ step[r].from = "running"

Handling(r) == step[r].at = "handle"
Settled(r) == row[r] \in Lifecycle!Terminal \/ mode = "down"

\* While the process lives, a "running" row has a task between its claim and its
\* final write, and that task's stop source is in active_runs_: a cancel of a
\* running run always finds something to stop.  And no run is handed to the
\* executor twice by one process, whatever creates, replays and resumes race.
RunningIsTracked ==
    /\ \A r \in Runs : row[r] = "running" /\ mode # "down" =>
           InBody(r) /\ r \in activeRuns
    /\ \A c \in Clients : At(c, "submit") =>
           fate[op[c].run] = "unsubmitted" /\ row[op[c].run] = "queued"

\* run_events can be trusted: the handler started at most once, and once more
\* per resume; an outcome is logged once, only for a row that has it, and only
\* a crash of the process loses it.
LogTellsTruth == \A r \in Runs :
    /\ Cardinality(Occurrences(r, {"started"}))
           <= 1 + Cardinality(Occurrences(r, {"resumed"}))
    /\ \A i \in Occurrences(r, Outcomes) :
           row[r] = IF log[r][i] = "rejected" THEN "failed" ELSE log[r][i]
    /\ Cardinality(Occurrences(r, Outcomes)) <= 1
    /\ row[r] \in Lifecycle!Terminal /\ Occurrences(r, Outcomes) = {} =>
           \/ step[r].at = "log" \/ crashes > 0
           \/ \E c \in Clients : At(c, "logRejected") /\ op[c].run = r

\* A cancel that reached the stop source before the outcome was decided wins:
\* the run does not succeed, and it fails only if the executor refused it.
HeardCancelWins == \A r \in heard :
    /\ row[r] # "succeeded"
    /\ row[r] = "failed" => fate[r] = "refused"

\* Once the destructor has returned, every run it had taken is settled in the
\* database, and no task has more to do with the service than its last notify.
GoneIsQuiet == mode = "gone" => \A r \in Runs :
    /\ step[r].at \in {"none", "notify"}
    /\ fate[r] # "unsubmitted" => row[r] \in Lifecycle!Terminal

\* Statuses, handler executions and recovery follow the abstract life cycle:
\* handlers of one session never overlap, and nobody moves the row of a run
\* whose handler executes.
ImplementsLifecycle == Lifecycle!Spec

\* If every handler returns by itself, a run the executor took reaches a terminal
\* status, unless the process dies first: runs of one session that fill the
\* workers while they wait for its mutex do not block each other for ever.
AcceptedRunEnds ==
    (\A r \in Runs : Handling(r) ~> ~Handling(r)) =>
        \A r \in Runs : fate[r] = "pending" ~> Settled(r)

\* A cancel that reached a running run ends it, whatever its handler waits for.
RunningCancelConverges ==
    \A r \in Runs : (r \in heard /\ InBody(r)) ~> Settled(r)

\* The destructor returns, also when handlers wait for nothing but a stop.
DestroyReturns == mode = "stopping" ~> mode \in {"gone", "down"}

\* Refuted below: a run whose cancellation was answered 202 while it was queued
\* never succeeds, ...
QueuedCancelIsHonoured == \A r \in promised : row[r] # "succeeded"

\* ... and reaches a terminal status.
QueuedCancelConverges ==
    \A r \in Runs : r \in promised ~> row[r] \in Lifecycle!Terminal
=============================================================================
