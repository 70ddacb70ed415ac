# A TLA+ model of Runi

Runi is an agent runtime in C++20: a service accepts runs over HTTP, executes
each on a bounded thread pool by an agent loop that calls a model and tools, and
keeps sessions, runs and events in SQLite. This directory holds TLA+ modules of
its concurrent and its crash-prone parts and of the algorithms between them,
the TLC configurations that check them, and proofs for TLAPS. `PROJECT.json`
maps every definition to the lines it models. Paths below are relative to `src/src/` unless they say otherwise.

## The system

| Component | State | Operations | Talks to |
|---|---|---|---|
| `BoundedExecutor` (`orchestration/execution.cpp`) | `queue_`, `accepting_`, `active_`, worker threads, one mutex, one condition variable | `submit`, `worker_loop`, `request_stop`, `shutdown`, `snapshot` | runs callables of the service, the HTTP server and the multi-agent runtime |
| `RuntimeService` (`service/service.cpp`) | `active_runs_` (a stop source per run), `session_mutexes_`, `stopping_` | `create_session`, `create_run`, `get_run`, `get_events`, `cancel_run`, `resume_run`, the task of `submit_run`, destructor | store, executor, handler |
| `SqliteStateStore` (`state/state_store.cpp`) | tables `sessions`, `runs`, `run_events`, `long_term_memory` | one transaction per call under one mutex; compare-and-swap by session version and by run status; recovery at start | service, session store, memory |
| `ContextCache` (`state/context_cache.cpp`) | `lru_`, `entries_`, `inflight_` | `get_or_compute`, `invalidate`, `clear` | no caller in the repository besides its tests |
| `AgentRegistry`, `AgentLease`, `MultiAgentRuntime` (`orchestration/multi_agent.cpp`) | agents with their `active_tasks`; a shared stop source per batch | `add`, `remove`, `acquire`, `release`, `run_parallel` | executor; used by `Runi::spawn_delegate` |
| `WorkspaceCommitter` (same file) | files: targets, temporaries, backups | `commit` | file system; no caller besides its tests |
| `runi_server` (`../apps/runi_server/main.cpp`) | none | open store, recover, serve, stop, destroy in reverse order | all of the above |
| `SocketHttpServer`, `RuniClient` (`service/service.cpp`) | `running_`, listener, accept thread, connection executor; the sockets | `start`, `accept_loop`, `read_request`, `send_all`, `stop`; `send`, `parse_response` | `RuntimeService::handle` |
| `AgentLoop`, `TaskState`, `RunStore`, `Checkpoint` (`agent/agent_loop.cpp`, `state/`, `context/checkpoint.cpp`) | task state, history, run directory with `task_state.json`, `trace.jsonl`, `report.json` | the attempt loop, checkpoints, reports | model client, tool executor, session store |
| `ToolExecutor`, tools, `ProcessRunner`, `WorkspaceGuard` (`tool/`) | workspace files | known, valid, not repeated, approved, run, diff | agent loop |
| `LayeredMemory`, `DurableMemoryStore` (`context/memory.cpp`) | recent files and summaries in the session; `MEMORY.md` and a file per topic | recall of a file, `set_file_summary`, invalidation; `promote` | tools, checkpoint, end of a run |
| `ContextManager` (`context/context_manager.cpp`) | none | `build`: sections, their budgets, reduction | agent loop |
| `Runi::spawn_delegate` (`agent/runtime.cpp`) | a registry and an executor per call | children, collection, the tool's result | `MultiAgentRuntime`, child agents |
| `ModelActionParser` (`agent/action_parser.cpp`), prompt prefix | none | `parse` | agent loop |
| JSON codec (`core/json_codec.cpp`) | none | `parse_json`, `dump_json`, `dump_compatible_json` | every file, row and reply |
| Session stores (`state/`) | a JSON file or a row per session | `save`, `load`, `latest` | agent loop |
| Model clients, core library, evaluation, command lines | none shared | I/O, conversions, benchmarks | |

What is hard here: the executor's workers sleep on a condition variable while
others submit and stop; a run is touched by the thread that created it, the
thread that cancels it, its task and the destructor, over a database and an
in-memory table that are not updated together; the process may die between any
two of these; callers of the cache share a computation with invalidations in
between; a batch of agents competes for leases and is stopped from three sides;
a commit of several files is a sequence of renames, each of which may fail;
agents of one workspace write the same memory files, and two holders of a
session save whole copies of it; others edit the files an agent has in its
memory; a connection, a file or a reply may end anywhere.
`PROJECT.json` lists each such hazard at its line, with the properties for it.

What makes each component correct:

- executor: an accepted task runs exactly once, also when the executor stops; no
  worker sleeps while there is work; shutdown joins;
- service: a run's status follows the table of the store; a running row has a
  task and a stop source; handlers of a session do not overlap; a cancel that
  was heard wins; events agree with rows; the destructor waits for everything
  and returns; every accepted run ends;
- cache: two structures stay one set, bounded; one computation per key; no
  waiter without a leader; what is stale was raced;
- agents: leases and capacity agree; no sleep with capacity; a failure stops the
  batch exactly under `fail_fast`; nothing of a batch is left when it returns;
- agent loop: what the run directory says is in the stored session; its files
  agree; what ran is in the history; no third identical call; a stop is heard;
- committer: no original is lost; all or nothing; nothing left behind;
- HTTP: a request is handled whole and once or not at all; a client takes no
  part of an answer for one; stop returns and closes everything;
- session stores: a save that says so has saved; a conflict was one; what was
  stored can be loaded;
- durable memory: what a promotion stored is found until it is superseded;
- working memory and checkpoint: what a prompt says of a file is true of it; an
  edit by others is noticed; a tool's result says what the tool did;
- context: the prompt fits its budget when it can; the newest item is in it;
- codec and parser: what was written, by the program or by the model, is read as
  it was meant, or refused.

## Modules

| Module | Models | Composes |
|---|---|---|
| `TaskPool` | the contract of `BoundedExecutor`: FIFO, slots, refuse, close | |
| `BoundedExecutor` | threads, mutex, condition variable, stop and join | implements `TaskPool` |
| `RunLifecycle` | the contract of a run: the status table, exclusion per session, death and recovery | |
| `RuntimeService` | the service over the run tables, with crash and restart | uses `TaskPool`, implements `RunLifecycle` |
| `ContextCache` | the cache and its callers | |
| `MultiAgent` | registry, leases, `run_parallel` | uses `TaskPool` |
| `WorkspaceCommitter` | `commit`, one file operation per step | |
| `AgentLoop` | `AgentLoop::run` with task state, run directory, session, checkpoints and the gates of tools | |
| `HttpServer` | server and client, unit by unit of a connection | uses `TaskPool` |
| `DurableMemory` | `promote` on the files of a workspace | |
| `Delegation` | `spawn_delegate`: a parent, its children, another process | extends `DurableMemory` |
| `SessionStore` | both stores of a session and its holders | |
| `AgentMemory` | working memory, checkpoint, resume, tools on files | |
| `ContextManager` | `build` with its reduction | |
| `JsonStrings` | `append_escaped` and `parse_string` | |
| `Json` | both directions of the codec | extends `JsonStrings` |
| `ActionParser` | `parse` of whole and cut replies | extends `Json` |
| `..._proofs` | theorems about the module of that name; `AgentContext_proofs` has those about `AgentMemory`, `ContextManager` and `ContextCache`, `Stores_proofs` those about `SessionStore`, `DurableMemory`, `Delegation` and `JsonStrings` | extends it |
| `MCStores` | constants; `Delegation`, `SessionStore`, `Json` and `ActionParser` side by side | |
| `MCAgentContext` | constants; `AgentMemory`, `ContextManager` and `ContextCache` side by side | |
| other `MC...` | constants for TLC | the module of that name |

In the two modules with several components a variable `scene` chooses the one
that moves; the others stay in one initial state. They share no state, so the
reachable states are the disjoint union of those of each.

**BoundedExecutor.** One action is one critical section of `mutex_` or what a
thread does between two. `pc[w]` is the place of a worker in `worker_loop`:
`check` before the predicate of the wait, `wait` asleep, `run` in the task,
`retire` before the decrement of `active_`, `exit`. `notify_one` chooses any
sleeper; a sleeper may wake for no reason. `request_stop` is two actions,
because it notifies after it has released the mutex. The mapping to `TaskPool`
takes a slot for occupied while its worker is at `run`.

**RuntimeService.** A client is a connection thread; `op[c]` is the next
statement of its request that changes state. `step[r]` is where the task of a
run is. Each call of the store is one step, because it is one transaction under
the store's mutex; so are each critical section of `active_mutex_` and each
operation on a session mutex. The handler is one place, `handle`, which ends
with a result, an error or an exception. `mode` is the process: `up`,
`stopping` (destructor waiting), `gone` (destructor returned), `down`. `Crash`
keeps the database and loses all the rest; `Restart` is `main`, which recovers
before it serves. Idempotency keys are in because a replay must not submit
again. `heard` and `promised` are history variables that no action reads except
to maintain them. The executor is `TaskPool` and not its implementation: the
refinement checked and proved for `BoundedExecutor` justifies that. The task's
look at the executor's own stop token (`service.cpp:472`) has no effect in the
server, where the executor stops after the service is gone.

**ContextCache.** The three parts of `get_or_compute` (lookup; computation;
publication and promise) are separate steps. A value is the version of the
source the computation read, so staleness can be stated. `Expire` lets the clock
pass any entry's deadline.

**MultiAgent.** `at[t]` follows a task through the lambda of `run_parallel` and
through `acquire`. The place `gap` is after the look at the stop flag and before
the wait; the registry's mutex is held there, and a stop request, which notifies
without it, can fall into it. `Fits` stands for the comparison of role and
capabilities. The tie-break by least id in `acquire` is left open.

**WorkspaceCommitter.** One action per file operation, with two outcomes where
it can fail. Contents are `base` (the version of `expected_sha256`), `new`,
`edit` (anything else), `partial` and `absent`. A crash needs no action: a
behaviour that stops is one, so an invariant of all states speaks about it.

**AgentLoop.** The loop's own steps are those between two calls that persist
something; those calls wait in `todo`, in the order of the code, and each is a
step (`Perform`) that may fail (`Fail`). `Must` marks the calls whose error the
loop returns and `May` the ones whose result it drops; a dropped failure may
still end the run, because the calls on files throw when they cannot make a
directory. `session` is `session_` in memory and `saved` its row; `file`,
`report` and `trace` are the directory of the current run. Kept of a session are
the tool items of the history (the repetition check reads them), the runs whose
closing answer was recorded, and the number of the current checkpoint. Kept of
the trace are the start, tools, checkpoints and the closing event. `Begin`
continues the session with the `Runi` that is there, as the command line does,
or loads it, as the service does for each run. A tool is two steps, the gates
and the run, because a stop can fall between them. The gates other than stop and
repetition may refuse whenever they like. On Windows a file is removed before it
is replaced, so an interrupted replacement may leave none (`HalfReplaced`).
`outcome`, `calls`, `late` and `faulty` are history variables.

**HttpServer.** Bytes come in units, and each `recv` and `send` moves some of
them. `serving[c]` is where the task of a connection is, `acceptor` where
`accept_loop` is, `owner` where the caller of `stop` is; the executor is
`TaskPool`. A head has a number of units, a length it names, and may be one
that cannot be parsed. A socket closed with unread units resets its connection;
the client may then fail to send the rest or may have sent it before it hears.
`IsComplete` is the look of `parse_response` at `Content-Length`: without it a
cut answer would be taken for a whole one. Sockets themselves are external.

**DurableMemory, Delegation.** A note is its subject and whether it says the old
or the new thing about it. `promote` is one action per file it reads, opens
(which truncates) or writes; a write into a file that another has open goes over
what is there. `Delegation` puts `promote` at the end of every agent: a parent
that delegates waits for its children in `run_parallel`, of which it takes only
what `MultiAgent` establishes. `owed` (what a caller who was told of success may
count on) and `overlapped` (what could have interfered) are history.

**SessionStore.** A holder's copy of the session is the number of its save.
A save to a file is a truncation and a write. A save to SQLite is a read of the
version and a swap, up to four times (`MaxAttempts`), and an insert when there
is no row. `kept`, `since` and `mixed` are history variables.

**AgentMemory.** A hash is the contents it stands for. Each look at the disk is
one step, so others can edit between the tool's read and the hash of the
summary, between a validation and the tool, and between the two snapshots.
`told` (what the agent was last told of a file) and `blind` (files of which a
change was, or can be, taken over unseen) are history variables. The code hashes
files again when it writes a checkpoint and when it sets a summary, so such
changes exist, and the properties say exactly when. After a reset, and for a
session that is loaded, the agent was told what its checkpoint names of a file
(`Baseline`), since that is all there is to compare with. A tool's result is
saved before the checkpoint that follows it: if the process dies between the
two, the stored checkpoint names the file as it was before the tool, and if
others then undo what the tool did, no resume notices (`RecordTool`).

**ContextManager.** A text is its length, since the code compares only lengths.
`Reduce` is one turn of the loop of `build`. The loop lowers a budget also when
that makes nothing shorter (a text that was shorter anyway), so it can take many
turns, and stops when all budgets are at their floors.

**JsonStrings, Json, ActionParser.** A text is a sequence of marks. A byte, an escape, a
number, a literal and, in replies, a tag or the word of a name is one mark. So
escaping, UTF-8, surrogates, separators, indentation and order of keys are
modelled, and the spelling of numbers and the syntax of attributes are not. A
document may be cut off, or be written over a longer one; a reply may be cut off.
The modules are recursive and stateless but for the text that is read. The two
loops over a string are in `JsonStrings`, a turn each (`WriteTurn`, `ReadTurn`),
without a `RECURSIVE` operator, so that they can be proved about. Escaped to
ASCII, bytes that decode to a high surrogate are the one thing that is written and
then refused (`HoldsSurrogate`): the three bytes ED A0 80 to ED AF BF, and the same
number in an overlong form of four, which `append_escaped` decodes like any other.

## Runs

| Run | Bounds | Shows |
|---|---|---|
| `BoundedExecutor` | 5 tasks, 2 workers, queue of 2 | `TaskInOnePlace`, `NoIdleSleeper`, `ImplementsPool`, `AcceptedTaskCompletes`, `ShutdownJoins` |
| `RuntimeServiceSafety` | 2 runs of 1 session, 2 keys, 2 clients, 2 workers, queue of 1, 4 requests, 1 crash | `RunningIsTracked`, `LogTellsTruth`, `HeardCancelWins`, `GoneIsQuiet`, `ImplementsLifecycle` |
| `RuntimeServiceLiveness` | the same with 1 client, 3 requests, no crash | `AcceptedRunEnds`, `RunningCancelConverges`, `DestroyReturns` |
| `RuntimeServiceCancelRace` | 2 clients, 2 requests, no crash | refutes `QueuedCancelIsHonoured` |
| `RuntimeServiceOrphan` | 1 client, 2 requests, 1 crash | refutes `QueuedCancelConverges` |
| `HttpServer` | 2 clients, 1 thread, queue of 1, requests of up to 3 units, started once | `AnswersAreWhole`, `StopEndsEverything` |
| `MultiAgent` | a batch of 3 with `fail_fast` and one of 2 without, 2 agents (room for 1 and 2), 2 workers, queue of 1 | `LeasesAreExact`, `NoSleepWithCapacity`, `CancelHasCause`, `QuietOnReturn`, `RunParallelReturns` |
| `AgentLoop` | 2 runs of 2 tool steps and 6 attempts, 1 kind of tool call, 1 failed call or crash, 1 notice | `DirectoryFollowsSession`, `DirectoryAgrees`, `SideEffectsKept`, `StopIsHeard`, `RunReturns` |
| `WorkspaceCommitter` | batches of 2 and 3 targets and one with a duplicate, 2 failed operations, 2 edits by others | `OriginalSurvives`, `AllOrNothing` |
| `WorkspaceCommitterRace` | 1 edit, no failed operation | refutes `OnlyBaseIsReplaced` |
| `Stores` | memory: a parent, 2 children on 1 or 2 workers, 1 other process, 2 topics, 1 fault; session: 2 holders with 5 and 2 saves, 1 failure, 1 death; documents in 4 layouts; replies in every form | `PromotedNotesKept`, `DelegateReturns`, `SaveTellsTruth`, `DocumentsSurvive`, `ActionsAreHeard` |
| `AgentContext` | memory: 2 files of which 1 is recent, 2 tool calls, 2 edits or deaths, where an edit may restore the file; prompts: histories of up to 10 items under 6 settings; cache: 2 keys, 3 callers, capacity 1, 1 change per source | `SummariesAreCurrent`, `EditsAreNoticed`, `ResultTellsTruth`, `FitsUnlessAtFloors`, `NewestIsShown`, `LruMatchesEntries`, `SingleFlight`, `StaleOnlyAfterRace` |

`TypeOK` of a module documents what its variables hold. It is in the module, or
in the one of its proofs, and is proved and not a property of a run.

Why the bounds are enough to be interesting. Five tasks on two workers and a
queue of two fill both and leave one to refuse. Two runs of one session meet at
the session mutex, at the queue of one and at its refusal, and four requests are
enough for create, create, cancel, resume in any order and overlap with a crash
between any two steps. Three callers of the cache are a leader and two waiters,
or leaders of two keys for one place. The last task of a batch fits only the agent
with room for one, so tasks wait for capacity while another agent is free. Two
failed operations are one in the commit and one in its rollback. Two runs of two
tool steps are four calls in a row, one more than a repetition needs, across the
end of a run; all are the same call, since different ones only reset the count
(the theorems hold for any calls); two steps is where the two formulas of `max_attempts` meet. One
thread and a queue of one serve a connection, hold one, or refuse it when the
thread is slow to take the first; three units are a head in two parts and a
body. Two children can promote at once on two workers and one after the other
on one, and a process outside meets both. Five saves overtake the four attempts
of another holder. One recent file of two makes files be forgotten and recalled.
Two events are a death between a tool and its checkpoint and an edit that undoes
the tool, or an edit and another that takes it back.
The histories, notes and settings of prompts lie on both sides of every budget
and floor, the defaults and the numbers of the unit test among them. The strings
of documents are every class of byte that the codec tells apart: named escapes,
control bytes, one to four bytes of UTF-8, surrogates alone and in pairs in
either order, overlong forms, tails without a head and heads at the end. The
texts of replies have quotes, line breaks, and tags of the protocol.
`MaxRequests`, `MaxCrashes`, `MaxVersion`, `MaxFaults`, `MaxEdits`, `MaxRuns`,
`MaxFailures`, `MaxNotices`, `MaxStarts`, `MaxSaves`, `MaxTools` and `MaxEvents`
bound only the environment. Symmetry is used only in runs without liveness properties, over
model values that the constants treat alike; `ImplementsLifecycle` is a safety
property of that kind, whose abstract variables are permuted with the concrete
ones, and so are the action properties of `AgentMemory`.

Deadlock is checked except where the system stops for good: an executor that was
joined, a commit, which is called once, a server that was stopped with all
clients answered, agents that are asked no more, and a document, prompt or reply
that has been dealt with.

### What the unit tests say, and the runs

- `../tests/runtime/test_runtime.cpp` cancels and resumes runs one at a time;
  `RuntimeServiceSafety` has these requests in every order and overlap.
- `../tests/unit/test_main.cpp:126` has "JSON ensure_ascii round-trips" for one
  string. `DocumentsSurvive` holds for all strings that are UTF-8. Others may become
  U+FFFD in a session file, and the bytes of an encoded high surrogate become an
  escape that `parse_json` refuses: a session with such a tool output in its
  history cannot be loaded again. In rows, which are not ASCII, all bytes survive.
- `:133-170` of the same file parse one reply of each form. `ActionsAreHeard` holds
  for the JSON form whatever its strings contain; the XML form takes tags in a
  content for tags of the call (a file that contains `<path>` or `</tool>` is
  written elsewhere, or in part), so the property speaks of texts without them.
- `:219-223` build one prompt within its budget; `FitsUnlessAtFloors` says
  when a prompt may be over it.
- `:323` has "patch_file performs one exact replacement"; `ResultTellsTruth` has
  it with edits by others between the validation and the run of a tool, and
  relates status and affected paths to what was changed.

### What the refuted properties say

- `QueuedCancelIsHonoured`. A run can be seen in the database before
  `submit_run` has registered its stop source. A cancel in between finds none,
  is answered 202 and logged as `run.cancel_requested`, and the run executes. The
  test of the cancel endpoint (`../tests/runtime/test_runtime.cpp:467`) cancels
  only runs that already run.
- `QueuedCancelConverges`. Recovery turns only `running` and `cancelling` rows
  into `interrupted`. A run that was queued at a crash is never submitted again,
  resume refuses it, and its cancel is answered 202 without effect.
- `OnlyBaseIsReplaced`. Between the comparison of a target's hash and its rename
  lie the temporaries of the whole batch. A change in between is moved to the
  backup and deleted with it.

### Fairness

Weak fairness per thread: a thread that can take its next step takes it. For
the executor, `WorkerStep` of each worker and the steps of the thread that
shuts it down; a task is taken to return. Waking for no reason, submitting and
stopping are not fair. For the service, each client inside a request, each task
outside its handler, each worker, the destructor, exit and restart are fair. A
handler is fair only once its stop source is requested (the agent loop looks at
its token before and after every model call and tool); without a stop it may
run for ever, and `AcceptedRunEnds` has the return of the handlers as its
hypothesis. No request, destruction or crash has to happen, and no lock is
strongly fair: a session mutex is contended by finitely many tasks, each of
which takes it once. For a batch, the coordinator, the tasks, the workers and
the clock are fair; `RunParallelReturns` does hold with a stop notification that
is missed, at the price of the deadline. For the
agent loop, its own steps are fair, and so are the model and the tools together:
both return, as the HTTP client has timeouts and a command its limit. In
`HttpServer` the server's threads and `stop` are fair and clients are not:
sockets have timeouts, so a `recv` or `send` of the server returns whatever the
client does; a blocked `accept` is woken by a connection or by the closing of the
listener and by nothing else. In `Delegation` a child comes to an answer or
fails, by the liveness of `AgentLoop`, and the parent collects.

## Proofs

Every theorem is about all values of the constants that satisfy the named
assumption of the module. The bounds (`MaxRequests`, `MaxFaults`, ...) are any
naturals, so nothing depends on them. Only the initial states and
`[][Next]_vars` are used, never fairness: what holds, holds under any
scheduling. All modules follow one plan: predicates named for an idea, each
with a lemma that a step keeps it (one step of the proof per action); their
conjunction as the inductive invariant, `IInv`; and the invariant of the run
as a consequence of it. Each property below was first checked by TLC in the run
that lists it.

**BoundedExecutor** (`ExecutorAssumption`: a finite nonempty set of workers, a
positive capacity). `TypesHold`, `TaskNeverLost`, `ActiveCounts`, `NoLostWakeup`:
`TypeOK`, `TaskInOnePlace`, `ActiveIsExact` and `NoIdleSleeper` always hold, and
`Refinement`: `Spec` implies `ImplementsPool`. The invariant is the conjunction
of the four. They need each other: a task is in one place only because the local
`task` of a worker is a task exactly while it is held; that a worker on its way
to the predicate is awake for each queued task needs the queue's length before
and after a pop, and that no one sleeps after a stop needs `accepting_` to say
what `host` says. In the refinement acceptance, refusal, taking, running and
closing are steps of the pool and everything else stutters. `WorkIsNeverStuck` and
`ShutdownDrains` are the safety halves of the two liveness properties: no task waits
while a worker sleeps or has left and no future is pending without an awake worker, so
only these workers have to go on; and when `shutdown` returns nothing is queued or
active and every accepted future is ready.

**RuntimeService** (`ServiceAssumption`). `RunningHasTask`, `EventsTellTruth`,
`HeardCancelIsKept`, `DestroyIsQuiet`: the invariants `RunningIsTracked`,
`LogTellsTruth`, `HeardCancelWins` and `GoneIsQuiet`; `Refinement`: `Spec`
implies `ImplementsLifecycle`, so the service keeps to the status table, to one
handler per session and to what recovery may do, for any number of runs, clients
and crashes. The invariants are far from inductive: what makes them hold is that
at each moment at most one party may move the row of a run. `ClientsOK`, `QueueOK`
and `RowsOK` say who: the one client that launches it (`Owning`), the executor,
its task, or after a restart nobody. `LocksOK`, `ActiveOK` and `HeardOK` follow
the session mutex, the entry in `active_runs_` and a stop that was heard along
that line; `DecisionsOK` says that what a task will write is a move of the table;
`StartsOK`, `OutcomesOK` and `LossOK` count the events of a log against its row.
The proof has lemmas on how one appended event changes such a count.
`NoWorkerBlocksAnother` and `DestroyTellsAll` are the safety halves of the liveness
properties. An accepted run is in the queue or on a worker, and a worker that waits for
a session mutex waits for a task of another worker that goes on, so workers filled with
tasks of one session do not block each other (`SlotsOK`, `HoldersOK`). While the
destructor waits every entry of `active_runs_` has been told to stop, so it needs only
that handlers which are told return.

**MultiAgent** (`MultiAgentAssumption`). `CapacityIsKept`, `NoLostWakeup`,
`CancellationHasCause`, `ReturnIsQuiet`: the invariants `LeasesAreExact`,
`NoSleepWithCapacity`, `CancelHasCause` and `QuietOnReturn`. The one that
matters is `LookedInVain`: what a task saw when it decided to sleep stays true
until it is notified, although the registry changes under others. `CountsExact`
compares `active_tasks` with the number of leases, so it needs the finiteness of
the batch; `FateOfTask` and `OutcomesOnce` say what a future holds at each place,
from which `QuietOnReturn` follows.
`NobodyHoldsAndWaits` is the safety half of `RunParallelReturns`: the future that the
coordinator waits for is settled, or its task is queued or on a worker; and a task that
sleeps for capacity waits only for tasks on other workers that hold a lease, which
execute, fail or release and so never sleep themselves. `PlacesOK` and `SubmittedOK` add
to `IInv` where the executor has each pending task.

**AgentLoop** (`LoopAssumption`, `AbsentAssumption`). `DirectoryIsBacked`,
`DirectoryIsOneStory`, `SideEffectsAreKept`, `StopIsObeyed`: the invariants
`DirectoryFollowsSession`, `DirectoryAgrees`, `SideEffectsKept` and
`StopIsHeard`, for any calls and limits. Calls that persist come one after
another, each may fail and a crash may fall between any two; so `IInv` speaks of
the list of calls still to be made. `TodoOK` and `PlansOK` say which lists there
are: an answer is stored before the task is completed, and the steps that close a
directory come last. `HistoryOK` compares the calls answered with the session
and its row (`GapOK`: the row lacks at most the tool in hand; `LastOK`: the
last calls of complete runs end the history, which is what the repetition check
reads). `StoryOK` and `StepsOK` are `DirectoryAgrees` for a directory whose run
is still going. `RunIsBounded` is the safety half of `RunReturns`: `Distance`, made of
the attempts that are left, the place and what is still to be persisted, is at most
`Longest` and gets smaller with every step of a run, a failure or a crash included.

**WorkspaceCommitter** (`CommitterAssumption`: nonempty batches).
`OriginalNeverLost` and `CommitIsAtomic`: the invariants `OriginalSurvives` and
`AllOrNothing`, for batches of any size and any number of failures and of edits by
others. `TargetsOK`, `TemporariesOK` and `BackupsOK` say for each patch and each
place of `commit` what its three files hold; they are about patches with
`DistinctTargets`, which the comparison of canonical paths establishes; `UndoneOK`
says that only a patch that the rollback has reached can have failed to be
undone.

**HttpServer** (`HttpAssumption`). `AnswersWhole`: the invariant
`AnswersAreWhole`, for requests of any size. `StoppedIsClosed`: when `stop` has
returned no connection is open, the safety half of `StopEndsEverything`.
`ReadOK` and `AnswerOK` say what has been read and written at each place of a
connection's task; `OpenOK` that every open connection has a thread that will
close it, which is what the order inside `stop` (accept thread first, executor
second) is for.
`StopIsNeverStuck`: nothing that `stop` joins can block. No connection is submitted
twice (`AcceptorOK`), the executor holds each task once and one on a worker has a step
to take (`WorkOK`), and the listener is closed before the join (`ListenerOK`); so the
return of `stop` needs only the fairness that its run assumes.

**SessionStore** (`SessionAssumption`; module `Stores_proofs`, with the next). `SavesTellTheTruth`: the invariant
`SaveTellsTruth`. A conflict is reported after `MaxAttempts` versions have
passed, which needs `AttemptsCount` for the attempts in progress; that an insert
never meets another row needs `CreatorFirst`; the file is unreadable only while
its one writer writes (`FileWriterAlone`).

**Delegation, DurableMemory** (`DelegationAssumption`: the agents are the children,
the parent and one other, all different; `MemoryAssumption`: finitely many topics,
answers of any lines). `NotesAreKept`: the invariant `PromotedNotesKept`, for any
number of children, topics, notes, answers and faults. `DelegationInv` has four
parts. `WorkOK` and `FilesOK`: who has a file open for writing is the only one,
unless two writes overlapped, and everything held in a file or in a promoter's
hands has one note per subject. `KeptOK`, of promotions one after the other: who
has read has what the files hold (`ReadOK`), and who writes has merged exactly what
will be owed, of which all is on disk but the topics still to be written
(`WriteOK`); who writes nothing leaves the files as owed (`Settled`). `TurnsOK`:
children run, and promote, only while the parent waits, and one at a time on one
worker, so that `OverlapOK` holds whatever the order. The step that matters is
the merge: `MergeKeeps` says that merging the lines into files with one note per
subject leaves one per subject and yields what `Owed` says, line by line. The
index is written as the ascending enumeration of the topics, which exists because
they are finitely many numbers (`SomeEnumeration`).

**AgentMemory, ContextCache, ContextManager** (`AgentAssumption`,
`CacheAssumption`, `InputAssumption`; module `AgentContext_proofs`). `ResultsAreTrue`, `ShownSummariesAreCurrent` and
`ChangesAreNoticed`: the invariant `ResultTellsTruth` and the action properties
`SummariesAreCurrent` and `EditsAreNoticed`, for any files and any number of
edits and deaths. `KnowledgeOK` says of the session and of its stored copy, which
differ between a tool's record and its checkpoint, that a summary is of what the
agent was told and that a checkpoint names what it was told, with exactly the
excuses `blind` stands for. `ToolOK` relates the snapshot, what was read and
the disk at each place of a tool, for files nobody else touched.
`LruAndEntriesAgree`, `ComputationsAreShared` and `StalenessNeedsRace`: the
invariants `LruMatchesEntries`, `SingleFlight` and `StaleOnlyAfterRace`.
`CacheInv` adds what the callers inside `get_or_compute` know: a leader's key is
in flight and not cached (`LeadersOK`, `NotCached`), waiters have a leader or a
value (`WaitersOK`, `SettledOK`), and a value in hand is of a version the source
had while it was computed (`ComputedOK`). `PromptFits` and `NewestIsKept`: the
invariants `FitsUnlessAtFloors` and `NewestIsShown`, for texts, notes and histories
of any length and any budgets. `ContextInv` says that budgets only shrink, that one
becomes zero only where zero is its floor or its start, and that what is built fits
or has all budgets at their floors. The rest are lemmas on the sections: however
little it is given, each keeps within the larger of its budget and 23 characters
(`RenderedLength`), and what the rendering of the history takes up first it never
drops (`RenderedHistory`). Sums and the transcript are defined by recursion
along a sequence; that such functions exist (`Recursion`) and what holds at each of
their positions (`UpTo`) rest on the least element of a set of naturals.

**JsonStrings** (no assumption; module `Stores_proofs`). `StringsSurvive`: what
`append_escaped` writes of any string of bytes, `parse_string` reads back to the
closing quote, whatever stands before and after it: every string in the default
mode, every string that is UTF-8 escaped to ASCII; and any string is read back as
some string unless a high surrogate is encoded in it. `CutStringsAreRefused`: cut
off after any mark, the text is refused. It is the part of `DocumentsSurvive` that
is about strings, for all of them and not for the few that the run writes. The loops
are compared turn by turn: when the writer has written `marks`, the reader has a
state at the end of these marks with what the writer has read (`Following`);
what was written stays (`Written`), has no quote in it (`WroteSome`), and each
piece is read in one turn, or in two if it is a pair that is no code point (`PieceRead`). That a
character is its bytes again (`CharacterWritten`, `Character2` to `Character4`) is
arithmetic on its parts of six bits, and that a surrogate pair is the code point
it was made from, and no more than the last one, is `Pairing`.

Each of these modules but the last also proves a theorem on the types of the variables; for
`SessionStore` and `ContextManager` it is a part of their invariant. In `MemoryTypeOK` the lists of recent
files are left open, since `SelectSeq` is recursive.

Model-checked only: liveness (TLAPS has no fairness or `ENABLED` reasoning
here), of which the theorems above give the safety half for the executor, the service,
the batch and `stop` of the server, and a bound on the steps of the loop; what the recursive operators of `Json` and `ActionParser` compute of nested
values, layouts, cut documents and replies (no theorem may rest on them, so they and
`MCStores` have none).

## Not modelled, and why

Model clients and configuration are I/O: a call that returns text or an error.
Evaluation and the command lines share no state with the rest. Processes with
their pipes, path checks and redaction do not change what is modelled. In the
modelled components, these are left out:

- counters that are only displayed, and validation that refuses a request
  without a change of state;
- failures of single store calls of the service: the code ignores them, and they
  leave the states that a crash leaves;
- `create_session` of the service and the table of long-term memory;
- the trace events within an attempt;
- a second process after a crash of the committer. Its names of backups would be
  the same, since the sequence starts anew, and nothing says what it should do;
- the race of `snapshot` with the destruction of the threads;
- a second `start` of the HTTP server, after which its executor is stopped and
  every request is refused; the reuse of a file descriptor between the closing of
  the listener and the `accept` on it;
- the syntax of HTTP heads, of attributes in tags, and of numbers in JSON
  (infinite doubles have no JSON form); a tag that is cut in its middle;
- episodic notes and the ranking of retrieval; text of prompts, notices and
  checkpoints.

## Plan

The components above are modelled, and the invariants and action properties of all
but `Json` and `ActionParser` are proved, with both refinements and the strings of
the codec. What is left to
prove is out of the prover's reach (see above). The model could still grow by the
events of a trace within an attempt and by a second process after a crash of the
committer.
