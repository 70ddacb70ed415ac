------------------------------ MODULE AgentLoop ------------------------------
(***************************************************************************)
(* AgentLoop::run (src/src/agent/agent_loop.cpp) with what it persists: the*)
(* session (Runi::record, create_checkpoint), and a directory per run with *)
(* task_state.json, trace.jsonl and report.json (RunStore).  Runs of one   *)
(* session follow each other.  Every call that persists is a step of its   *)
(* own, taken from `todo`, and may fail; the process may die before each   *)
(* step.  The model and the tools answer anything, and a stop may be       *)
(* requested at any moment.  The session store saves all or nothing, as    *)
(* SqliteSessionStore does.                                                *)
(***************************************************************************)
EXTENDS Naturals, Sequences, FiniteSets

CONSTANTS
    Calls,                \* tool calls, each a name with its arguments
    Absent,               \* a file that is not there
    MaxSteps,             \* RuntimeOptions::max_steps
    MaxRuns, MaxFailures, MaxNotices   \* bounds on the environment

ASSUME LoopAssumption ==
    {MaxSteps, MaxRuns, MaxFailures, MaxNotices} \subseteq Nat

VARIABLES
    session, saved,       \* the session in memory and in its store
    task,                 \* the TaskState of the run
    file, report, trace,  \* the directory of the run
    at, todo,             \* where the loop is; what it persists before it goes on
    action,               \* the tool call the model asked for, and if it ran
    stop,                 \* the stop token of the run
    run, outcome,         \* number of the run; how each run ended
    used,                 \* how much of the bounds is used
    faulty,               \* history: something of this run was not persisted
    calls,                \* history: tool calls answered, with their run and if they ran
    late                  \* history: models asked and tools run after the stop

directory == <<file, report, trace>>
history == <<calls, late>>
vars == <<session, saved, task, directory, at, todo, action, stop, run, outcome,
          used, faulty, history>>

Limits == {"step_limit_reached", "retry_limit_reached"}
Reasons == {"running", "final_answer_returned", "cancelled"} \cup Limits
NoAction == [call |-> "none", ran |-> FALSE]
NewTask == [attempts |-> 0, tool_steps |-> 0, reason |-> "running", checkpoint |-> 0]
MaxAttempts == IF MaxSteps < 2 THEN MaxSteps + 4 ELSE MaxSteps * 3   \* their maximum
Tasks == [attempts : 0..MaxAttempts, tool_steps : 0..MaxSteps, reason : Reasons,
          checkpoint : Nat]

ASSUME AbsentAssumption == Absent \notin Tasks

Init ==
    /\ session = [tools |-> <<>>, answers |-> {}, checkpoint |-> 0] /\ saved = session
    /\ task = NewTask /\ file = Absent /\ report = Absent /\ trace = <<>>
    /\ at = "idle" /\ todo = <<>> /\ action = NoAction /\ stop = FALSE
    /\ run = 0 /\ outcome = [r \in 1..MaxRuns |-> "none"]
    /\ used = [failures |-> 0, notices |-> 0]
    /\ faulty = FALSE /\ calls = <<>> /\ late = 0

-----------------------------------------------------------------------------
(* Persistence: the calls in `todo`, one per step *)

\* The history item of an action: a tool call, if it ran, and its run.
Item(a) == [call |-> a.call, ran |-> a.ran, run |-> run]
Record(item) == [op |-> "record", item |-> item]
Said == [op |-> "say"]                      \* record of a notice or a request
Answered == [op |-> "answer"]               \* record of the closing answer
WriteTask == [op |-> "write"]               \* write_task_state
Checkpoint == [op |-> "checkpoint"]         \* create_task_checkpoint
Trace(event) == [op |-> "trace", event |-> event]
WriteReport == [op |-> "report"]
\* The loop returns the error of this one; it ignores those of the others.
Must(call) == [call |-> call, checked |-> TRUE]
May(call) == [call |-> call, checked |-> FALSE]

\* What a call changes in memory, whether or not it can be persisted.
InMemory(call) ==
    /\ session' = [tools |-> IF call.op = "record" THEN Append(session.tools, call.item)
                             ELSE session.tools,
                   answers |-> session.answers \cup (IF call.op = "answer" THEN {run} ELSE {}),
                   checkpoint |-> session.checkpoint + (IF call.op = "checkpoint" THEN 1 ELSE 0)]
    /\ task' = IF call.op = "checkpoint" THEN [task EXCEPT !.checkpoint = session'.checkpoint]
               ELSE task

SavesSession(call) == call.op \in {"record", "say", "answer", "checkpoint"}

Store(call) ==
    /\ saved' = IF SavesSession(call) THEN session' ELSE saved
    /\ file' = IF call.op = "write" THEN task ELSE file
    /\ report' = IF call.op = "report" THEN task ELSE report
    /\ trace' = IF call.op = "trace" THEN Append(trace, call.event) ELSE trace

\* A file is removed before its replacement is renamed, so a replacement that
\* fails or is interrupted may leave none.
HalfReplaced(call) ==
    /\ file' \in IF call.op = "write" THEN {file, Absent} ELSE {file}
    /\ report' \in IF call.op = "report" THEN {report, Absent} ELSE {report}
    /\ UNCHANGED <<saved, trace>>

Perform ==
    /\ todo # <<>>
    /\ InMemory(Head(todo).call) /\ Store(Head(todo).call)
    /\ todo' = Tail(todo)
    /\ UNCHANGED <<at, action, stop, run, outcome, used, faulty, history>>

Return(how) == at' = "idle" /\ todo' = <<>> /\ outcome' = [outcome EXCEPT ![run] = how]

\* A call fails.  Of a failure that is not checked the loop may still end: the
\* calls on files throw when a directory cannot be made.
Fail ==
    LET call == Head(todo).call IN
    /\ todo # <<>> /\ used.failures < MaxFailures
    /\ used' = [used EXCEPT !.failures = @ + 1] /\ faulty' = TRUE
    /\ InMemory(call) /\ HalfReplaced(call)
    /\ \/ Head(todo).checked /\ Return("error")
       \/ ~Head(todo).checked /\ todo' = Tail(todo) /\ UNCHANGED <<at, outcome>>
       \/ ~SavesSession(call) /\ ~Head(todo).checked /\ Return("error")
    /\ UNCHANGED <<action, stop, run, history>>

\* The loop is at a place and has persisted what it had to; Then it goes on.
At(place) == at = place /\ todo = <<>>
Then(steps, place) == todo' = steps /\ at' = place
InLoop == UNCHANGED <<session, saved, directory, stop, run, used, faulty>>

-----------------------------------------------------------------------------
(* Start and end of a run *)

\* A session is continued by the Runi that is there, or by one that loads it.
Begin ==
    /\ At("idle") /\ run < MaxRuns
    /\ session' \in {session, saved}
    /\ run' = run + 1 /\ at' = "entry" /\ stop' = FALSE /\ faulty' = FALSE /\ late' = 0
    /\ outcome' = [outcome EXCEPT ![run'] = "running"]
    /\ task' = NewTask /\ file' = Absent /\ report' = Absent /\ trace' = <<>>
    /\ UNCHANGED <<saved, todo, action, used, calls>>

\* Bug: the loop looks at a token that nobody stops.
TokenForgotten == FALSE
StopRequested == stop

Enter ==
    /\ At("entry")
    /\ IF StopRequested THEN Return("cancelled")
       ELSE /\ Then(<<Must(Said), Must(WriteTask), May(Trace("run_started"))>>, "loop")
            /\ UNCHANGED outcome
    /\ InLoop /\ UNCHANGED <<task, action, history>>

CancelCalls == <<May(Checkpoint), May(WriteTask), May(Trace("checkpoint_created")),
                 May(Trace("run_cancelled")), May(WriteReport)>>
FinishCancelled ==
    /\ task' = [task EXCEPT !.reason = "cancelled"]
    /\ Then(CancelCalls, "cancelled")

\* Bug: the state is written before it names the last checkpoint.
FinalWritesEarly == <<May(WriteTask), May(Checkpoint), May(Trace("checkpoint_created")),
                      May(Trace("run_finished")), Must(WriteReport)>>
FinalCalls == <<May(Checkpoint), May(WriteTask), May(Trace("checkpoint_created")),
                May(Trace("run_finished")), Must(WriteReport)>>

\* The answer has been recorded: only then the task is completed.
Finish ==
    /\ At("answered")
    /\ task' = [task EXCEPT !.reason = "final_answer_returned"]
    /\ Then(FinalCalls, "finished")
    /\ InLoop /\ UNCHANGED <<action, outcome, history>>

WithinLimits == task.tool_steps < MaxSteps /\ task.attempts < MaxAttempts

\* Bug: the closing answer of a limit is written down before it is recorded.
LimitWritesEarly == <<May(WriteTask), Must(Answered), May(Checkpoint),
                      May(Trace("checkpoint_created")), May(Trace("run_finished")),
                      Must(WriteReport)>>
LimitCalls == <<Must(Answered), May(WriteTask), May(Checkpoint),
                May(Trace("checkpoint_created")), May(Trace("run_finished")),
                Must(WriteReport)>>
StopAtLimit ==
    /\ At("loop") /\ ~WithinLimits
    /\ task' = [task EXCEPT !.reason = IF task.tool_steps < MaxSteps THEN "retry_limit_reached"
                                       ELSE "step_limit_reached"]
    /\ Then(LimitCalls, "finished")
    /\ InLoop /\ UNCHANGED <<action, outcome, history>>

ReturnAnswer ==
    /\ \/ At("finished") /\ Return("answered")
       \/ At("cancelled") /\ Return("cancelled")
    /\ InLoop /\ UNCHANGED <<task, action, history>>

-----------------------------------------------------------------------------
(* One attempt *)

\* Bug: an attempt that ends in a retry is not counted.
AttemptForgotten == task
RecordAttempt == [task EXCEPT !.attempts = @ + 1]

Attempt ==
    /\ At("loop") /\ WithinLimits
    /\ IF StopRequested THEN FinishCancelled
       ELSE task' = RecordAttempt /\ Then(<<Must(WriteTask)>>, "prompt")
    /\ InLoop /\ UNCHANGED <<action, outcome, history>>

\* What build_prompt may report: the last checkpoint is stale or of another
\* runtime, the prompt was reduced to its budget.  Each makes a checkpoint.
Notice == <<May(Checkpoint), May(WriteTask), May(Trace("checkpoint_created"))>>
BuildPrompt ==
    /\ At("prompt")
    /\ \/ Then(<<>>, "request") /\ UNCHANGED used
       \/ \E n \in {1, 2} :
              /\ used.notices + n <= MaxNotices
              /\ used' = [used EXCEPT !.notices = @ + n]
              /\ Then(IF n = 1 THEN Notice ELSE Notice \o Notice, "request")
    /\ UNCHANGED <<session, saved, task, directory, action, stop, run, outcome, faulty, history>>

\* The world is asked to act, after a stop or before it.
CountLate == late' = late + (IF stop THEN 1 ELSE 0)

RequestModel ==
    /\ At("request")
    /\ Then(<<>>, "model") /\ CountLate
    /\ InLoop /\ UNCHANGED <<task, action, outcome, calls>>

ModelFails ==
    /\ At("model")
    /\ Return("error")
    /\ InLoop /\ UNCHANGED <<task, action, history>>

\* The model asks for a tool, answers what cannot be parsed, or answers.
ModelAnswers ==
    /\ At("model")
    /\ IF StopRequested THEN FinishCancelled /\ UNCHANGED action
       ELSE \/ \E call \in Calls :
                  /\ action' = [call |-> call, ran |-> FALSE]
                  /\ task' = [task EXCEPT !.tool_steps = @ + 1]
                  /\ Then(<<>>, "gate")
            \/ Then(<<Must(Said), May(WriteTask)>>, "loop") /\ UNCHANGED <<task, action>>
            \/ Then(<<Must(Answered)>>, "answered") /\ UNCHANGED <<task, action>>
    /\ InLoop /\ UNCHANGED <<outcome, history>>

-----------------------------------------------------------------------------
(* A tool: ToolExecutor::execute, then its result *)

\* The last two tool calls in the history are this one, whether they ran or not.
Repeated(call) ==
    LET n == Len(session.tools) IN
    n >= 2 /\ \A i \in (n - 1)..n : session.tools[i].call = call

\* A call is refused when the run is stopped, or it is repeated, not allowed,
\* unknown, invalid or not approved.
Gate ==
    /\ At("gate")
    /\ \/ ~StopRequested /\ ~Repeated(action.call) /\ Then(<<>>, "run") /\ UNCHANGED calls
       \/ Then(<<>>, "executed") /\ calls' = Append(calls, Item(action))
    /\ InLoop /\ UNCHANGED <<task, action, outcome, late>>

RunTool ==
    /\ At("run")
    /\ Then(<<>>, "executed") /\ CountLate
    /\ action' = [action EXCEPT !.ran = TRUE]
    /\ calls' = Append(calls, Item(action'))
    /\ InLoop /\ UNCHANGED <<task, outcome>>

\* Bug: the result of a tool is not recorded.
ToolUnrecorded == <<May(WriteTask), May(Trace("tool_executed")), May(Checkpoint),
                    May(WriteTask), May(Trace("checkpoint_created"))>>
ToolCalls == <<Must(Record(Item(action))), May(WriteTask), May(Trace("tool_executed")),
               May(Checkpoint), May(WriteTask), May(Trace("checkpoint_created"))>>
Executed ==
    /\ At("executed")
    /\ IF StopRequested THEN FinishCancelled ELSE Then(ToolCalls, "loop") /\ UNCHANGED task
    /\ action' = NoAction
    /\ InLoop /\ UNCHANGED <<outcome, history>>

-----------------------------------------------------------------------------
(* The environment *)

RequestStop ==
    /\ at # "idle" /\ ~stop
    /\ stop' = TRUE
    /\ UNCHANGED <<session, saved, task, directory, at, todo, action, run, outcome,
                   used, faulty, history>>

\* The process dies, perhaps in the middle of a replacement.
Crash ==
    /\ at # "idle" /\ used.failures < MaxFailures
    /\ used' = [used EXCEPT !.failures = @ + 1]
    /\ HalfReplaced(IF todo = <<>> THEN Said ELSE Head(todo).call)
    /\ session' = saved /\ task' = NewTask /\ action' = NoAction
    /\ Return("crashed")
    /\ UNCHANGED <<stop, run, faulty, history>>

LoopStep ==
    \/ Perform \/ Enter \/ Attempt \/ BuildPrompt \/ RequestModel \/ Gate \/ Executed
    \/ Finish \/ StopAtLimit \/ ReturnAnswer
WorldStep == ModelFails \/ ModelAnswers \/ RunTool

Next == LoopStep \/ WorldStep \/ Begin \/ RequestStop \/ Fail \/ Crash

\* The loop goes on, and the model and the tools return (both have time limits).
\* Nothing has to begin, be stopped or fail.
Spec == Init /\ [][Next]_vars /\ WF_vars(LoopStep) /\ WF_vars(WorldStep)

-----------------------------------------------------------------------------
(* Properties *)

\* No run makes more attempts or tool steps than its limits, on disk or in memory.
TypeOK ==
    /\ task \in Tasks /\ task.tool_steps <= task.attempts
    /\ {file, report} \subseteq Tasks \cup {Absent}
    /\ at \in {"idle", "entry", "loop", "prompt", "request", "model", "gate", "run",
               "executed", "answered", "finished", "cancelled"}
    /\ action.call \in Calls \cup {"none"}
    /\ outcome \in [1..MaxRuns -> {"none", "running", "answered", "cancelled", "error", "crashed"}]
    /\ (at = "idle" => todo = <<>>) /\ run \in 0..MaxRuns
    /\ session.answers \cup saved.answers \subseteq 1..run

\* What the directory of a run says is in the stored session, whatever fails and
\* wherever the process dies: the closing answer of a run that is over, and,
\* if nothing failed, the checkpoint to resume from.
DirectoryFollowsSession ==
    \A document \in {file, report} \ {Absent} :
        /\ document.reason \in Limits \cup {"final_answer_returned"} => run \in saved.answers
        /\ ~faulty => document.checkpoint <= saved.checkpoint

Closing == {"run_finished", "run_cancelled"}
Count(event) == Cardinality({i \in DOMAIN trace : trace[i] = event})

\* If nothing failed, the three files of a run tell one story: the trace closes
\* once, at its end and with the state already terminal; the report is written
\* last and agrees with state and trace (at a limit the state is written before
\* the last checkpoint; a cancelled tool is counted and not traced); a run that
\* answered, or was cancelled after its start, has one.
DirectoryAgrees ==
    ~faulty =>
        /\ \A i \in DOMAIN trace : trace[i] \in Closing =>
              i = Len(trace) /\ file # Absent /\ file.reason # "running"
        /\ report # Absent =>
              /\ trace # <<>> /\ trace[Len(trace)] \in Closing
              /\ [file EXCEPT !.checkpoint = 0] = [report EXCEPT !.checkpoint = 0]
              /\ report.reason \notin Limits => file.checkpoint = report.checkpoint
              /\ report.tool_steps - Count("tool_executed") \in
                    IF report.reason = "cancelled" THEN {0, 1} ELSE {0}
        /\ run > 0 /\ report = Absent =>
              outcome[run] # "answered" /\ (outcome[run] = "cancelled" => file = Absent)

Ran(r, tools) == Cardinality({i \in DOMAIN tools : tools[i].run = r /\ tools[i].ran})

\* A tool that ran is in the stored history of its session: a run that was cut
\* off loses at most its last one, and a run that answered loses none.  So three
\* identical calls in a row all run only if one of them was lost like that, also
\* when the calls are of different runs.
SideEffectsKept ==
    /\ \A r \in 1..run :
           Ran(r, calls) - Ran(r, saved.tools) \in
               IF outcome[r] = "answered" THEN {0} ELSE {0, 1}
    /\ \A i \in 1..(Len(calls) - 2) :
           LET three == {calls[j] : j \in i..(i + 2)} IN
           (\A c \in three : c.ran /\ c.call = calls[i].call) =>
               \E c \in three : outcome[c.run] # "answered"

\* After a stop the world is asked at most once more to act, by a model call or a
\* tool that had passed its check, and a run that does ask returns no answer.
StopIsHeard == late <= 1 /\ (late = 1 => outcome[run] # "answered")

\* Every run returns: its limits end a model that never answers.
RunReturns == at # "idle" ~> at = "idle"
=============================================================================
