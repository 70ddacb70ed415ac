--------------------------- MODULE AgentLoop_proofs ---------------------------
(***************************************************************************)
(* The safety of the agent loop, for any calls, limits, runs and failures. *)
(* The loop persists one call after the other, and any of them may fail or *)
(* be the last before a crash.  So IInv says what the files, the session   *)
(* and its store hold at each place and for each list of calls still to be *)
(* made: in its first part, that an answer is stored before the task is    *)
(* completed; then how the calls answered, the session and the stored      *)
(* history differ; and then how far state, trace and report have got.      *)
(* At the end, what bounds the length of a run.                            *)
(***************************************************************************)
EXTENDS AgentLoop, TLAPS, FiniteSetTheorems, SequenceTheorems

\* The entries of the history, the events of a trace, the calls that persist and the steps
\* of `todo`; Plain are the calls that touch no answer and no history.
Items == [call : Calls, ran : BOOLEAN, run : 1..MaxRuns]
Sessions == [tools : Seq(Items), answers : SUBSET Nat, checkpoint : Nat]
Events == {"run_started", "checkpoint_created", "tool_executed"} \cup Closing
Plain == {WriteTask, Checkpoint, WriteReport} \cup {Trace(e) : e \in Events}
Records == {Record(i) : i \in Items}
AnyCall == Plain \cup {Said, Answered} \cup Records
Steps == [call : AnyCall, checked : BOOLEAN]
\* Where the loop is, and how a run ends.
Places == {"idle", "entry", "loop", "prompt", "request", "model", "gate", "run",
           "executed", "answered", "finished", "cancelled"}
Outcomes == {"none", "running", "answered", "cancelled", "error", "crashed"}
One(b) == IF b THEN 1 ELSE 0

\* The field op tells the kinds of calls apart.
LEMMA Kinds ==
    ASSUME NEW c \in AnyCall
    PROVE  /\ c.op = "record" <=> c \in Records
           /\ c.op = "say" <=> c = Said
           /\ c.op = "answer" <=> c = Answered
           /\ c.op = "write" <=> c = WriteTask
           /\ c.op = "checkpoint" <=> c = Checkpoint
           /\ c.op = "report" <=> c = WriteReport
           /\ c.op = "trace" <=> \E e \in Events : c = Trace(e)
           /\ c.op = "trace" => c.event \in Events /\ c = Trace(c.event)
           /\ c \in Records => c.item \in Items /\ c = Record(c.item)
           /\ c \in Plain <=> c.op \in {"write", "checkpoint", "report", "trace"}
           /\ c.op \in {"record", "say", "answer", "write", "checkpoint", "report", "trace"}
  BY DEF AnyCall, Plain, Records, WriteTask, Checkpoint, WriteReport, Trace, Said, Answered,
         Record

\* The first step of a list and the rest of it.
LEMMA HeadTail ==
    ASSUME NEW s \in Seq(Steps), s # <<>>
    PROVE  /\ Head(s) = s[1] /\ s[1] \in Steps
           /\ s[1].call \in AnyCall /\ s[1].checked \in BOOLEAN
           /\ Len(s) \in Nat \ {0}
           /\ Tail(s) \in Seq(Steps) /\ Len(Tail(s)) = Len(s) - 1
           /\ \A i \in 1..(Len(s) - 1) : Tail(s)[i] = s[i + 1]
           /\ Tail(s) = <<>> <=> Len(s) = 1
<1>1. Head(s) = s[1] /\ s[1] \in Steps /\ Len(s) \in Nat \ {0}
  OBVIOUS
<1>2. /\ Tail(s) \in Seq(Steps) /\ Len(Tail(s)) = Len(s) - 1
      /\ \A i \in 1..(Len(s) - 1) : Tail(s)[i] = s[i + 1]
  OBVIOUS
<1>3. Tail(s) = <<>> <=> Len(s) = 1
  <2>1. Tail(s) # <<>> => Len(Tail(s)) \in Nat \ {0}
    BY EmptySeq, HeadTailProperties
  <2>2. Tail(s) = <<>> => Len(s) = 1
    <3>1. HAVE Tail(s) = <<>>
    <3>2. Len(Tail(s)) = 0
      BY <3>1, EmptySeq
    <3> QED BY <3>2, <1>1, <1>2
  <2> QED BY <1>1, <1>2, <2>1, <2>2
<1> QED BY <1>1, <1>2, <1>3 DEF Steps

\* What a call that stands at the head of a list is followed by.
NoticeSteps == {May(Checkpoint), May(WriteTask), May(Trace("checkpoint_created"))}

\* What a prompt may have to report: checkpoints, states and events only.
LEMMA Notices ==
    ASSUME NEW s \in {Notice, Notice \o Notice}
    PROVE  s \in Seq(NoticeSteps) /\ Len(s) \in Nat
<1>1. Notice \in Seq(NoticeSteps)
  BY DEF Notice, NoticeSteps
<1>2. Notice \o Notice \in Seq(NoticeSteps)
  BY <1>1, ConcatProperties, Zenon
<1>3. s \in Seq(NoticeSteps)
  BY <1>1, <1>2, Zenon
<1> QED BY <1>3

\* What the loop puts on its lists are steps.
LEMMA StepKinds ==
    /\ Must(Said) \in Steps /\ Must(WriteTask) \in Steps /\ May(WriteTask) \in Steps
    /\ Must(Answered) \in Steps /\ May(Checkpoint) \in Steps
    /\ Must(WriteReport) \in Steps /\ May(WriteReport) \in Steps
    /\ \A e \in Events : May(Trace(e)) \in Steps
    /\ \A i \in Items : Must(Record(i)) \in Steps
    /\ {"run_started", "checkpoint_created", "tool_executed", "run_finished",
        "run_cancelled"} \subseteq Events
<1>1. /\ Must(Said) \in Steps /\ Must(WriteTask) \in Steps /\ May(WriteTask) \in Steps
      /\ Must(Answered) \in Steps /\ May(Checkpoint) \in Steps
      /\ Must(WriteReport) \in Steps /\ May(WriteReport) \in Steps
      /\ \A e \in Events : May(Trace(e)) \in Steps
  BY DEF Steps, AnyCall, Plain, Must, May
<1>2. \A i \in Items : Must(Record(i)) \in Steps
  BY DEF Steps, AnyCall, Records, Must
<1> QED BY <1>1, <1>2 DEF Events, Closing

\* The lists of the loop: steps, of which all but the first are plain.
PlainTail(s) == s \in Seq(Steps) /\ \A i \in 2..Len(s) : s[i].call \in Plain

\* The lists of the loop: only their first step may record something.
LEMMA Lists ==
    /\ PlainTail(CancelCalls) /\ Len(CancelCalls) = 5 /\ CancelCalls[1].call \in Plain
    /\ PlainTail(FinalCalls) /\ Len(FinalCalls) = 5 /\ FinalCalls[1].call \in Plain
    /\ PlainTail(LimitCalls) /\ Len(LimitCalls) = 6 /\ LimitCalls[1] = Must(Answered)
    /\ PlainTail(<<Must(Said), Must(WriteTask), May(Trace("run_started"))>>)
    /\ PlainTail(<<Must(Said), May(WriteTask)>>)
    /\ PlainTail(<<Must(Answered)>>)
    /\ PlainTail(<<Must(WriteTask)>>)
    /\ PlainTail(<<>>)
    /\ \A s \in {Notice, Notice \o Notice} : PlainTail(s) /\ (s # <<>> => s[1].call \in Plain)
<1> DEFINE S == Steps
<1>1. /\ Must(Said) \in S /\ Must(WriteTask) \in S /\ May(WriteTask) \in S
      /\ Must(Answered) \in S /\ May(Checkpoint) \in S /\ Must(WriteReport) \in S
      /\ May(WriteReport) \in S
      /\ May(Trace("run_started")) \in S /\ May(Trace("checkpoint_created")) \in S
      /\ May(Trace("run_cancelled")) \in S /\ May(Trace("run_finished")) \in S
  BY StepKinds
<1>2. /\ Must(WriteTask).call \in Plain /\ May(WriteTask).call \in Plain
      /\ May(Checkpoint).call \in Plain /\ Must(WriteReport).call \in Plain
      /\ May(WriteReport).call \in Plain /\ May(Trace("run_started")).call \in Plain
      /\ May(Trace("checkpoint_created")).call \in Plain
      /\ May(Trace("run_cancelled")).call \in Plain /\ May(Trace("run_finished")).call \in Plain
  BY StepKinds DEF Plain, Must, May
<1> HIDE DEF S
<1>3. /\ CancelCalls \in Seq(S) /\ Len(CancelCalls) = 5 /\ \A i \in 1..5 : CancelCalls[i].call \in Plain
  BY <1>1, <1>2 DEF CancelCalls
<1>4. /\ FinalCalls \in Seq(S) /\ Len(FinalCalls) = 5 /\ \A i \in 1..5 : FinalCalls[i].call \in Plain
  BY <1>1, <1>2 DEF FinalCalls
<1>5. /\ LimitCalls \in Seq(S) /\ Len(LimitCalls) = 6 /\ LimitCalls[1] = Must(Answered)
      /\ \A i \in 2..6 : LimitCalls[i].call \in Plain
  BY <1>1, <1>2 DEF LimitCalls
<1>6. /\ PlainTail(<<Must(Said), Must(WriteTask), May(Trace("run_started"))>>)
      /\ PlainTail(<<Must(Said), May(WriteTask)>>)
      /\ PlainTail(<<Must(Answered)>>)
      /\ PlainTail(<<Must(WriteTask)>>)
      /\ PlainTail(<<>>)
  BY <1>1, <1>2 DEF PlainTail, S
<1>7. \A s \in {Notice, Notice \o Notice} : PlainTail(s) /\ (s # <<>> => s[1].call \in Plain)
  <2>1. \A t \in NoticeSteps : t \in Steps /\ t.call \in Plain
    BY <1>1, <1>2 DEF NoticeSteps, S
  <2> SUFFICES ASSUME NEW s \in {Notice, Notice \o Notice}
               PROVE  PlainTail(s) /\ (s # <<>> => s[1].call \in Plain)
    OBVIOUS
  <2>2. s \in Seq(NoticeSteps) /\ Len(s) \in Nat
    BY Notices
  <2>3. \A i \in 1..Len(s) : s[i] \in NoticeSteps
    BY <2>2
  <2>4. s \in Seq(Steps)
    BY <2>1, <2>2
  <2>5. s # <<>> => s[1] \in NoticeSteps
    BY <2>2
  <2> QED BY <2>1, <2>2, <2>3, <2>4, <2>5 DEF PlainTail
<1> QED BY <1>3, <1>4, <1>5, <1>6, <1>7 DEF S, PlainTail

\* So does the list of a tool result.
LEMMA ToolList ==
    ASSUME NEW i \in Items
    PROVE  LET L == <<Must(Record(i)), May(WriteTask), May(Trace("tool_executed")),
                      May(Checkpoint), May(WriteTask), May(Trace("checkpoint_created"))>>
           IN  PlainTail(L) /\ Len(L) = 6
<1> DEFINE S == Steps
<1>1. /\ Must(Record(i)) \in S /\ May(WriteTask) \in S /\ May(Checkpoint) \in S
      /\ May(Trace("tool_executed")) \in S /\ May(Trace("checkpoint_created")) \in S
  BY StepKinds
<1>2. /\ May(WriteTask).call \in Plain /\ May(Checkpoint).call \in Plain
      /\ May(Trace("tool_executed")).call \in Plain
      /\ May(Trace("checkpoint_created")).call \in Plain
  BY StepKinds DEF Plain, May
<1> HIDE DEF S
<1> QED BY <1>1, <1>2 DEF PlainTail, S

-----------------------------------------------------------------------------
(* The inductive invariant *)

\* The state of the task: within its limits, and terminal only while the run ends.
TaskOK ==
    /\ task \in Tasks /\ task.tool_steps <= task.attempts
    /\ at \in {"prompt", "request", "model"} =>
          task.tool_steps < MaxSteps /\ task.tool_steps < task.attempts
    /\ at = "finished" => task.reason \in Limits \cup {"final_answer_returned"}
    /\ at = "cancelled" => task.reason = "cancelled"
    /\ at \notin {"idle", "finished", "cancelled"} => task.reason = "running"

\* The session, its store and the directory; the store is never ahead of the session.
StoreOK ==
    /\ session \in Sessions /\ saved \in Sessions
    /\ saved.answers \subseteq session.answers /\ session.answers \subseteq 1..run
    /\ saved.checkpoint <= session.checkpoint
    /\ file \in Tasks \cup {Absent} /\ report \in Tasks \cup {Absent}
    /\ trace \in Seq(Events)

\* A run is in progress exactly while the loop is not idle.
RunOK ==
    /\ at \in Places /\ run \in 0..MaxRuns
    /\ outcome \in [1..MaxRuns -> Outcomes]
    /\ at # "idle" => run > 0 /\ outcome[run] = "running"
    /\ stop \in BOOLEAN /\ faulty \in BOOLEAN

\* The tool call in hand.
ActionOK ==
    /\ action \in [call : Calls \cup {"none"}, ran : BOOLEAN]
    /\ at \in {"gate", "run", "executed"} => action.call \in Calls

\* What is still to be persisted: notices and tool results before the loop goes on, the
\* answer before the task is completed, and each of these is checked.
TodoOK ==
    /\ PlainTail(todo)
    /\ at \in {"idle", "entry", "model", "gate", "run", "executed"} => todo = <<>>
    /\ todo # <<>> =>
          /\ todo[1].call = Said => at = "loop" /\ todo[1].checked
          /\ todo[1].call = Answered => at \in {"answered", "finished"} /\ todo[1].checked
          /\ todo[1].call \in Records => at = "loop" /\ todo[1].checked

\* A task is completed only when its answer is stored, or about to be.
AnswerOK ==
    /\ at \in {"answered", "finished"} =>
          run \in saved.answers \/ (todo # <<>> /\ todo[1].call = Answered)
    /\ ~faulty => task.checkpoint <= saved.checkpoint
    /\ DirectoryFollowsSession

\* After a late call the loop is on its way to the next look at the stop token.
StopOK ==
    /\ late \in {0, 1}
    /\ late = 1 => /\ stop /\ at \in {"model", "executed", "cancelled", "idle"} /\ run > 0
                   /\ outcome[run] # "answered"

\* The part about the history of tool calls.
Pending == at = "executed" \/ (todo # <<>> /\ todo[1].call \in Records)
\* A run whose history is complete: it answered, or is in progress and not cancelled.
Good(r) == outcome[r] = "answered" \/ (r = run /\ at \notin {"idle", "cancelled"})
\* The tools of a run that ran and that a history lacks.
Gap(r, tools) == Ran(r, calls) - Ran(r, tools)
\* A history holds no run of the future.
RunsTo(n, s) == \A i \in 1..Len(s) : s[i].run <= n

\* The calls answered and the histories are of runs so far; what is pending is the last.
CallsOK ==
    /\ calls \in Seq(Items)
    /\ RunsTo(run, calls) /\ RunsTo(run, session.tools) /\ RunsTo(run, saved.tools)
    /\ Pending => /\ calls # <<>> /\ calls[Len(calls)].run = run
                  /\ calls[Len(calls)] = IF at = "executed" THEN Item(action) ELSE todo[1].call.item

\* A stored history lacks at most one tool of a run, and none of a good run but a pending.
GapOK ==
    \A r \in 1..run :
        IF Pending /\ r = run THEN Gap(r, saved.tools) = One(calls[Len(calls)].ran)
        ELSE Gap(r, saved.tools) \in {0, 1} /\ (Good(r) => Gap(r, saved.tools) = 0)

\* The session in memory may be ahead of its store by one item, of a run that failed to
\* store it; the next run starts from that session and its first record stores it.
AheadBy(item) ==
    /\ session.tools = Append(saved.tools, item)
    /\ item.run \in 1..run /\ ~Good(item.run)
    /\ Gap(item.run, saved.tools) = One(item.ran)
    /\ at \in {"idle", "entry"} \/ (at = "loop" /\ todo # <<>> /\ todo[1].call = Said)
AheadOK == session.tools = saved.tools \/ \E item \in Items : AheadBy(item)

\* The last calls of good runs end the history: what Repeated looks at.
LastAre(n, tools) ==
    LET m == Len(tools) IN
    /\ n >= 1 /\ Good(calls[n].run) => m >= 1 /\ tools[m] = calls[n]
    /\ n >= 2 /\ Good(calls[n].run) /\ Good(calls[n - 1].run) =>
          m >= 2 /\ tools[m] = calls[n] /\ tools[m - 1] = calls[n - 1]
LastOK == LastAre(IF Pending THEN Len(calls) - 1 ELSE Len(calls), session.tools)

\* Three identical calls in a row that all ran.
Thrice(i) ==
    /\ calls[i].ran /\ calls[i + 1].ran /\ calls[i + 2].ran
    /\ calls[i].call = calls[i + 1].call /\ calls[i].call = calls[i + 2].call
TripleOK ==
    \A i \in 1..(Len(calls) - 2) :
        Thrice(i) => \E j \in {i, i + 1, i + 2} : ~Good(calls[j].run)

\* A tool that is about to run has passed the check on repetition.
RepeatOK == /\ at = "gate" => ~action.ran
            /\ at = "run" => ~Repeated(action.call)

\* The part of the invariant about the history of tool calls.
HistoryOK == CallsOK /\ GapOK /\ AheadOK /\ LastOK /\ TripleOK

\* The part about the directory of a run.
Rest(list) ==
    /\ Len(todo) <= Len(list)
    /\ \A i \in 1..Len(todo) : todo[i] = list[Len(list) - Len(todo) + i]
\* The run has its outcome and persists it; AtLimit, after a limit.
Ending == at \in {"finished", "cancelled"}
AtLimit == at = "finished" /\ task.reason \in Limits

\* A run that ends follows its list to the end.  Before, nothing closes the trace, and the
\* event of a tool comes fourth to last of its list.
PlansOK ==
    /\ at = "cancelled" => Rest(CancelCalls)
    /\ at = "finished" => IF task.reason \in Limits THEN Rest(LimitCalls) ELSE Rest(FinalCalls)
    /\ ~Ending => \A i \in 1..Len(todo) :
          /\ todo[i].call # WriteReport
          /\ \A e \in Closing : todo[i].call # Trace(e)
          /\ todo[i].call = Trace("tool_executed") <=> at = "loop" /\ i = Len(todo) - 3

\* Count, for any trace; the tool steps the trace does not show.
CountIn(t, e) == Cardinality({i \in DOMAIN t : t[i] = e})
Uncounted == task.tool_steps - CountIn(trace, "tool_executed")
\* A trace closes at no place up to n; a state without its checkpoint.
NoClosing(n) == \A i \in 1..Len(trace) : trace[i] \in Closing => i > n
Unchecked(t) == [t EXCEPT !.checkpoint = 0]

\* How far the three files of a run have got, by what is still to be done: state, closing
\* event and report come in this order, and nothing closes the trace before.
StoryOK ==
    /\ ~Ending => report = Absent /\ NoClosing(Len(trace))
    /\ at = "entry" => file = Absent
    /\ Ending => IF todo = <<>> THEN report = task ELSE report = Absent
    /\ Ending /\ Len(todo) >= 2 => NoClosing(Len(trace))
    /\ Ending /\ Len(todo) < 2 =>
          trace # <<>> /\ NoClosing(Len(trace) - 1) /\ trace[Len(trace)] \in Closing
    /\ AtLimit /\ Len(todo) <= 4 => file # Absent /\ Unchecked(file) = Unchecked(task)
    /\ Ending /\ ~AtLimit /\ Len(todo) <= 3 => file = task

\* The trace shows each tool step, but the one in hand.
StepsOK ==
    /\ at \in {"gate", "run", "executed"} => Uncounted = 1
    /\ at = "loop" => Uncounted = One(Len(todo) >= 4)
    /\ at = "cancelled" => Uncounted \in {0, 1}
    /\ at \in {"entry", "prompt", "request", "model", "answered", "finished"} => Uncounted = 0

\* The part of the invariant about the directory; a run with a failure is excused.
DirectoryOK ==
    ~faulty => IF at = "idle" THEN DirectoryAgrees ELSE StoryOK /\ StepsOK

-----------------------------------------------------------------------------

\* The limits of a task are numbers.
LEMMA Bounds == MaxSteps \in Nat /\ MaxAttempts \in Nat /\ MaxRuns \in Nat
BY LoopAssumption DEF MaxAttempts

\* A new task is a state of a task that is running.
LEMMA NewTaskOK == NewTask \in Tasks /\ NewTask.reason = "running" /\ NewTask.checkpoint = 0
BY Bounds DEF NewTask, Tasks, Reasons

\* The call that is made next, and what remains.
LEMMA NextCall ==
    ASSUME TodoOK, todo # <<>>
    PROVE  /\ Head(todo) = todo[1] /\ todo[1] \in Steps
           /\ todo[1].call \in AnyCall /\ todo[1].checked \in BOOLEAN
           /\ Len(todo) \in Nat \ {0}
           /\ PlainTail(Tail(todo)) /\ Len(Tail(todo)) = Len(todo) - 1
           /\ \A i \in 1..(Len(todo) - 1) :
                  Tail(todo)[i] = todo[i + 1] /\ Tail(todo)[i].call \in Plain
           /\ Tail(todo) = <<>> <=> Len(todo) = 1
           /\ at \notin {"idle", "entry", "model", "gate", "run", "executed"}
<1> DEFINE n == Len(todo)
<1>1. todo \in Seq(Steps) /\ \A i \in 2..n : todo[i].call \in Plain
  BY DEF TodoOK, PlainTail
<1>2. /\ Head(todo) = todo[1] /\ todo[1] \in Steps
      /\ todo[1].call \in AnyCall /\ todo[1].checked \in BOOLEAN
      /\ n \in Nat \ {0}
      /\ Tail(todo) \in Seq(Steps) /\ Len(Tail(todo)) = n - 1
      /\ \A i \in 1..(n - 1) : Tail(todo)[i] = todo[i + 1]
      /\ Tail(todo) = <<>> <=> n = 1
  BY <1>1, HeadTail
<1>3. \A i \in 1..(n - 1) : Tail(todo)[i].call \in Plain
  BY <1>1, <1>2
<1>4. PlainTail(Tail(todo))
  BY <1>2, <1>3 DEF PlainTail
<1>5. at \notin {"idle", "entry", "model", "gate", "run", "executed"}
  BY DEF TodoOK
<1> QED BY <1>2, <1>3, <1>4, <1>5

\* What a call does to session and task, in the words of its kind.
LEMMA Memory ==
    ASSUME StoreOK, RunOK, TaskOK, NEW c \in AnyCall, InMemory(c), at # "idle"
    PROVE  /\ session' \in Sessions
           /\ session'.tools = IF c \in Records THEN Append(session.tools, c.item)
                               ELSE session.tools
           /\ session'.answers = IF c = Answered THEN session.answers \cup {run}
                                 ELSE session.answers
           /\ session'.checkpoint = IF c = Checkpoint THEN session.checkpoint + 1
                                    ELSE session.checkpoint
           /\ task' \in Tasks
           /\ task'.tool_steps = task.tool_steps /\ task'.attempts = task.attempts
           /\ task'.reason = task.reason
           /\ task'.checkpoint = IF c = Checkpoint THEN session'.checkpoint ELSE task.checkpoint
           /\ c # Checkpoint => task' = task
<1>1. /\ c.op = "record" <=> c \in Records
      /\ c.op = "answer" <=> c = Answered
      /\ c.op = "checkpoint" <=> c = Checkpoint
      /\ c \in Records => c.item \in Items
  BY Kinds
<1>2. session \in Sessions /\ task \in Tasks /\ run \in Nat
  BY Bounds DEF StoreOK, TaskOK, RunOK
<1>3. /\ session'.tools = IF c \in Records THEN Append(session.tools, c.item) ELSE session.tools
      /\ session'.answers = IF c = Answered THEN session.answers \cup {run} ELSE session.answers
      /\ session'.checkpoint = IF c = Checkpoint THEN session.checkpoint + 1 ELSE session.checkpoint
  BY <1>1, <1>2 DEF InMemory, Sessions
<1>4. session'.tools \in Seq(Items) /\ session'.answers \in SUBSET Nat /\ session'.checkpoint \in Nat
  BY <1>1, <1>2, <1>3 DEF Sessions
<1>5. session' \in Sessions
  BY <1>4 DEF InMemory, Sessions
<1>6. task' = IF c = Checkpoint THEN [task EXCEPT !.checkpoint = session'.checkpoint] ELSE task
  BY <1>1 DEF InMemory
<1>7. /\ task' \in Tasks
      /\ task'.tool_steps = task.tool_steps /\ task'.attempts = task.attempts
      /\ task'.reason = task.reason
      /\ task'.checkpoint = IF c = Checkpoint THEN session'.checkpoint ELSE task.checkpoint
  BY <1>2, <1>4, <1>6 DEF Tasks
<1> QED BY <1>3, <1>5, <1>6, <1>7

-----------------------------------------------------------------------------
(* Types: the state and where the loop is *)

\* Each part of the invariant is kept by every step, given the parts it needs.
LEMMA TaskStep ==
    ASSUME TaskOK, StoreOK, RunOK, TodoOK, [Next]_vars
    PROVE  TaskOK'
<1> USE Bounds
<1>1. CASE Perform
  <2>1. at # "idle" /\ InMemory(todo[1].call) /\ todo[1].call \in AnyCall
    BY <1>1, NextCall DEF Perform
  <2> QED BY <1>1, <2>1, Memory DEF Perform, TaskOK
<1>2. CASE Fail
  <2>1. at # "idle" /\ InMemory(todo[1].call) /\ todo[1].call \in AnyCall
    BY <1>2, NextCall DEF Fail
  <2>2. at' = "idle" \/ at' = at
    BY <1>2 DEF Fail, Return
  <2> QED BY <2>1, <2>2, Memory DEF TaskOK
<1>3. CASE Begin
  BY <1>3, NewTaskOK DEF Begin, TaskOK, NewTask
<1>4. CASE Enter
  BY <1>4 DEF Enter, At, Return, Then, TaskOK
<1>5. CASE Attempt
  BY <1>5 DEF Attempt, At, WithinLimits, FinishCancelled, Then, RecordAttempt, TaskOK, Tasks,
              Reasons
<1>6. CASE BuildPrompt
  BY <1>6 DEF BuildPrompt, At, Then, TaskOK
<1>7. CASE RequestModel
  BY <1>7 DEF RequestModel, At, Then, TaskOK
<1>8. CASE ModelFails
  BY <1>8 DEF ModelFails, At, Return, TaskOK
<1>9. CASE ModelAnswers
  BY <1>9 DEF ModelAnswers, At, FinishCancelled, Then, TaskOK, Tasks, Reasons
<1>10. CASE Gate
  BY <1>10 DEF Gate, At, Then, TaskOK
<1>11. CASE RunTool
  BY <1>11 DEF RunTool, At, Then, TaskOK
<1>12. CASE Executed
  BY <1>12 DEF Executed, At, FinishCancelled, Then, TaskOK, Tasks, Reasons
<1>13. CASE Finish
  BY <1>13 DEF Finish, At, Then, TaskOK, Tasks, Reasons
<1>14. CASE StopAtLimit
  BY <1>14 DEF StopAtLimit, At, Then, TaskOK, Tasks, Reasons, Limits
<1>15. CASE ReturnAnswer
  BY <1>15 DEF ReturnAnswer, At, Return, TaskOK
<1>16. CASE RequestStop
  BY <1>16 DEF RequestStop, TaskOK
<1>17. CASE Crash
  BY <1>17, NewTaskOK DEF Crash, Return, TaskOK, NewTask
<1>18. CASE UNCHANGED vars
  BY <1>18 DEF vars, TaskOK
<1> QED BY <1>1, <1>2, <1>3, <1>4, <1>5, <1>6, <1>7, <1>8, <1>9, <1>10, <1>11, <1>12, <1>13,
           <1>14, <1>15, <1>16, <1>17, <1>18 DEF Next, LoopStep, WorldStep

\* A run is in progress exactly while the loop is not idle.
LEMMA RunStep ==
    ASSUME RunOK, TodoOK, [Next]_vars
    PROVE  RunOK'
<1> USE Bounds DEF Places, Outcomes
<1>1. CASE Perform
  BY <1>1 DEF Perform, RunOK
<1>2. CASE Fail
  <2>1. at # "idle"
    BY <1>2, NextCall DEF Fail
  <2>2. stop' \in BOOLEAN /\ faulty' \in BOOLEAN
    BY <1>2 DEF Fail, RunOK
  <2>3. /\ run' = run /\ (at' = at \/ at' = "idle")
        /\ outcome' = outcome \/ (outcome' = [outcome EXCEPT ![run] = "error"] /\ at' = "idle")
    BY <1>2 DEF Fail, Return
  <2>4. /\ at' \in Places /\ run' \in 0..MaxRuns
        /\ at' # "idle" => run' > 0 /\ outcome'[run'] = "running"
    BY <2>1, <2>3 DEF RunOK
  <2>5. outcome' \in [1..MaxRuns -> Outcomes]
    BY <2>3 DEF RunOK
  <2> QED BY <2>2, <2>4, <2>5 DEF RunOK
<1>3. CASE Begin
  <2>1. /\ run' = run + 1 /\ run' \in 1..MaxRuns /\ at' = "entry"
        /\ outcome' = [outcome EXCEPT ![run'] = "running"]
    BY <1>3 DEF Begin, RunOK
  <2>2. stop' \in BOOLEAN /\ faulty' \in BOOLEAN
    BY <1>3 DEF Begin
  <2>3. outcome' \in [1..MaxRuns -> Outcomes] /\ outcome'[run'] = "running"
    BY <2>1 DEF RunOK
  <2> QED BY <2>1, <2>2, <2>3 DEF RunOK
<1>4. CASE Enter
  BY <1>4 DEF Enter, At, Return, Then, InLoop, RunOK
<1>5. CASE Attempt
  BY <1>5 DEF Attempt, At, FinishCancelled, Then, InLoop, RunOK
<1>6. CASE BuildPrompt
  BY <1>6 DEF BuildPrompt, At, Then, RunOK
<1>7. CASE RequestModel
  BY <1>7 DEF RequestModel, At, Then, InLoop, RunOK
<1>8. CASE ModelFails
  BY <1>8 DEF ModelFails, At, Return, InLoop, RunOK
<1>9. CASE ModelAnswers
  BY <1>9 DEF ModelAnswers, At, FinishCancelled, Then, InLoop, RunOK
<1>10. CASE Gate
  BY <1>10 DEF Gate, At, Then, InLoop, RunOK
<1>11. CASE RunTool
  BY <1>11 DEF RunTool, At, Then, InLoop, RunOK
<1>12. CASE Executed
  BY <1>12 DEF Executed, At, FinishCancelled, Then, InLoop, RunOK
<1>13. CASE Finish
  BY <1>13 DEF Finish, At, Then, InLoop, RunOK
<1>14. CASE StopAtLimit
  BY <1>14 DEF StopAtLimit, At, Then, InLoop, RunOK
<1>15. CASE ReturnAnswer
  BY <1>15 DEF ReturnAnswer, At, Return, InLoop, RunOK
<1>16. CASE RequestStop
  BY <1>16 DEF RequestStop, RunOK
<1>17. CASE Crash
  BY <1>17 DEF Crash, Return, RunOK
<1>18. CASE UNCHANGED vars
  BY <1>18 DEF vars, RunOK
<1> QED BY <1>1, <1>2, <1>3, <1>4, <1>5, <1>6, <1>7, <1>8, <1>9, <1>10, <1>11, <1>12, <1>13,
           <1>14, <1>15, <1>16, <1>17, <1>18 DEF Next, LoopStep, WorldStep

\* The loop decides about a tool call only when it has one.
LEMMA ActionStep ==
    ASSUME ActionOK, RunOK, TodoOK, [Next]_vars
    PROVE  ActionOK'
<1> USE DEF NoAction
<1>1. CASE Perform
  BY <1>1 DEF Perform, ActionOK
<1>2. CASE Fail
  BY <1>2 DEF Fail, Return, ActionOK
<1>3. CASE Begin
  BY <1>3 DEF Begin, At, ActionOK
<1>4. CASE Enter
  BY <1>4 DEF Enter, At, Return, Then, ActionOK
<1>5. CASE Attempt
  BY <1>5 DEF Attempt, At, FinishCancelled, Then, ActionOK
<1>6. CASE BuildPrompt
  BY <1>6 DEF BuildPrompt, At, Then, ActionOK
<1>7. CASE RequestModel
  BY <1>7 DEF RequestModel, At, Then, ActionOK
<1>8. CASE ModelFails
  BY <1>8 DEF ModelFails, At, Return, ActionOK
<1>9. CASE ModelAnswers
  <2>1. action' = action \/ \E call \in Calls : action' = [call |-> call, ran |-> FALSE]
    BY <1>9 DEF ModelAnswers
  <2>2. action' \in [call : Calls \cup {"none"}, ran : BOOLEAN]
    <3>1. ASSUME NEW call \in Calls
          PROVE  [call |-> call, ran |-> FALSE] \in [call : Calls \cup {"none"}, ran : BOOLEAN]
      BY Zenon
    <3> QED BY <2>1, <3>1, Zenon DEF ActionOK
  <2>3. at' = "gate" => \E call \in Calls : action' = [call |-> call, ran |-> FALSE]
    BY <1>9 DEF ModelAnswers, FinishCancelled, Then
  <2>4. at' \in {"gate", "run", "executed"} => at' = "gate"
    BY <1>9 DEF ModelAnswers, FinishCancelled, Then
  <2> QED BY <2>2, <2>3, <2>4 DEF ActionOK
<1>10. CASE Gate
  BY <1>10 DEF Gate, At, Then, ActionOK
<1>11. CASE RunTool
  BY <1>11 DEF RunTool, At, Then, ActionOK
<1>12. CASE Executed
  BY <1>12 DEF Executed, At, FinishCancelled, Then, ActionOK
<1>13. CASE Finish
  BY <1>13 DEF Finish, At, Then, ActionOK
<1>14. CASE StopAtLimit
  BY <1>14 DEF StopAtLimit, At, Then, ActionOK
<1>15. CASE ReturnAnswer
  BY <1>15 DEF ReturnAnswer, At, Return, ActionOK
<1>16. CASE RequestStop
  BY <1>16 DEF RequestStop, ActionOK
<1>17. CASE Crash
  BY <1>17 DEF Crash, Return, ActionOK
<1>18. CASE UNCHANGED vars
  BY <1>18 DEF vars, ActionOK
<1> QED BY <1>1, <1>2, <1>3, <1>4, <1>5, <1>6, <1>7, <1>8, <1>9, <1>10, <1>11, <1>12, <1>13,
           <1>14, <1>15, <1>16, <1>17, <1>18 DEF Next, LoopStep, WorldStep

-----------------------------------------------------------------------------
(* What is still to be done *)

\* Each list starts as Lists says, and a step leaves its plain tail.
LEMMA TodoStep ==
    ASSUME TodoOK, ActionOK, RunOK, [Next]_vars
    PROVE  TodoOK'
<1>0. /\ \A c \in Plain : c # Said /\ c # Answered /\ c \notin Records
      /\ Said # Answered /\ Said \notin Records /\ Answered \notin Records
  <2>1. \A c \in Plain : c.op \in {"write", "checkpoint", "report", "trace"}
    BY DEF Plain, WriteTask, Checkpoint, WriteReport, Trace
  <2>2. \A c \in Records : c.op = "record"
    BY DEF Records, Record
  <2>3. Said.op = "say" /\ Answered.op = "answer"
    BY DEF Said, Answered
  <2> QED BY <2>1, <2>2, <2>3
<1> DEFINE Mild(s) == s # <<>> => s[1].call \in Plain
<1>A. ASSUME PlainTail(todo'), Mild(todo'),
             at' \in {"idle", "entry", "model", "gate", "run", "executed"} => todo' = <<>>
      PROVE  TodoOK'
  BY <1>0, <1>A DEF TodoOK
<1>B. PlainTail(<<>>) /\ Mild(<<>>)
  BY Lists
<1>1. CASE Perform
  <2>1. todo # <<>> /\ todo' = Tail(todo) /\ at' = at
    BY <1>1 DEF Perform
  <2>2. PlainTail(Tail(todo)) /\ Mild(Tail(todo))
    BY SMTT(30), <2>1, NextCall
  <2> QED BY <2>1, <2>2, <1>A, NextCall
<1>2. CASE Fail
  <2>1. todo # <<>>
    BY <1>2 DEF Fail
  <2>2. \/ at' = "idle" /\ todo' = <<>>
        \/ at' = at /\ todo' = Tail(todo)
    BY <1>2 DEF Fail, Return
  <2>3. PlainTail(Tail(todo)) /\ Mild(Tail(todo))
    BY <2>1, NextCall
  <2> QED BY <2>1, <2>2, <2>3, <1>A, <1>B, NextCall
<1>3. CASE Begin
  <2>1. todo' = <<>>
    BY <1>3 DEF Begin, At
  <2> QED BY <2>1, <1>A, <1>B
<1>4. CASE Enter
  <2>1. \/ todo' = <<>> /\ at' = "idle"
        \/ /\ todo' = <<Must(Said), Must(WriteTask), May(Trace("run_started"))>>
           /\ at' = "loop"
    BY <1>4 DEF Enter, Return, Then
  <2>2. ASSUME todo' = <<Must(Said), Must(WriteTask), May(Trace("run_started"))>>, at' = "loop"
        PROVE  TodoOK'
    <3>1. PlainTail(todo') /\ todo'[1] = Must(Said)
      BY <2>2, Lists
    <3> QED BY <3>1, <2>2, <1>0 DEF TodoOK, Must
  <2> QED BY <2>1, <2>2, <1>A, <1>B
<1>5. CASE Attempt
  <2>1. \/ todo' = CancelCalls /\ at' = "cancelled"
        \/ todo' = <<Must(WriteTask)>> /\ at' = "prompt"
    BY <1>5 DEF Attempt, FinishCancelled, Then
  <2>2. PlainTail(todo') /\ Mild(todo')
    <3>1. Must(WriteTask).call \in Plain
      BY DEF Must, Plain
    <3> QED BY <2>1, <3>1, Lists
  <2> QED BY <2>1, <2>2, <1>A
<1>6. CASE BuildPrompt
  <2>1. /\ at' = "request"
        /\ todo' = <<>> \/ todo' \in {Notice, Notice \o Notice}
    BY <1>6 DEF BuildPrompt, Then
  <2>2. PlainTail(todo') /\ Mild(todo')
    BY <2>1, Lists, <1>B
  <2> QED BY <2>1, <2>2, <1>A
<1>7. CASE RequestModel
  BY <1>7, <1>A, <1>B DEF RequestModel, Then
<1>8. CASE ModelFails
  BY <1>8, <1>A, <1>B DEF ModelFails, Return
<1>9. CASE ModelAnswers
  <2>1. \/ todo' = CancelCalls /\ at' = "cancelled"
        \/ todo' = <<>> /\ at' = "gate"
        \/ todo' = <<Must(Said), May(WriteTask)>> /\ at' = "loop"
        \/ todo' = <<Must(Answered)>> /\ at' = "answered"
    BY <1>9 DEF ModelAnswers, FinishCancelled, Then
  <2>2. ASSUME todo' = <<Must(Said), May(WriteTask)>>, at' = "loop"
        PROVE  TodoOK'
    <3>1. PlainTail(todo') /\ todo'[1] = Must(Said)
      BY <2>2, Lists
    <3> QED BY <3>1, <2>2, <1>0 DEF TodoOK, Must
  <2>3. ASSUME todo' = <<Must(Answered)>>, at' = "answered"
        PROVE  TodoOK'
    <3>1. PlainTail(todo') /\ todo'[1] = Must(Answered)
      BY <2>3, Lists
    <3> QED BY <3>1, <2>3, <1>0 DEF TodoOK, Must
  <2> QED BY <2>1, <2>2, <2>3, <1>A, <1>B, Lists
<1>10. CASE Gate
  BY <1>10, <1>A, <1>B DEF Gate, Then
<1>11. CASE RunTool
  BY <1>11, <1>A, <1>B DEF RunTool, Then
<1>12. CASE Executed
  <2>1. at = "executed" /\ Item(action) \in Items
    BY <1>12, Bounds DEF Executed, At, Item, Items, ActionOK, RunOK
  <2>2. \/ todo' = CancelCalls /\ at' = "cancelled"
        \/ todo' = ToolCalls /\ at' = "loop"
    BY <1>12 DEF Executed, FinishCancelled, Then
  <2>3. ASSUME todo' = ToolCalls, at' = "loop"
        PROVE  TodoOK'
    <3>1. PlainTail(todo')
      BY <2>1, <2>3, ToolList DEF ToolCalls
    <3>2. todo'[1] = Must(Record(Item(action)))
      BY <2>3 DEF ToolCalls
    <3>3. Must(Record(Item(action))).call \in Records /\ Must(Record(Item(action))).checked
      BY <2>1 DEF Must, Records
    <3> QED BY <3>1, <3>2, <3>3, <2>3, <1>0 DEF TodoOK
  <2> QED BY <2>2, <2>3, <1>A, Lists
<1>13. CASE Finish
  BY <1>13, <1>A, Lists DEF Finish, Then
<1>14. CASE StopAtLimit
  <2>1. todo' = LimitCalls /\ at' = "finished"
    BY <1>14 DEF StopAtLimit, Then
  <2>2. PlainTail(todo') /\ todo'[1] = Must(Answered)
    BY <2>1, Lists
  <2> QED BY <2>1, <2>2, <1>0 DEF TodoOK, Must
<1>15. CASE ReturnAnswer
  BY <1>15, <1>A, <1>B DEF ReturnAnswer, Return
<1>16. CASE RequestStop
  BY <1>16 DEF RequestStop, TodoOK
<1>17. CASE Crash
  BY <1>17, <1>A, <1>B DEF Crash, Return
<1>18. CASE UNCHANGED vars
  BY <1>18 DEF vars, TodoOK
<1> QED BY <1>1, <1>2, <1>3, <1>4, <1>5, <1>6, <1>7, <1>8, <1>9, <1>10, <1>11, <1>12, <1>13,
           <1>14, <1>15, <1>16, <1>17, <1>18 DEF Next, LoopStep, WorldStep

-----------------------------------------------------------------------------
(* What is stored *)

\* What a call stores, in the words of its kind.
LEMMA Stored ==
    ASSUME NEW c \in AnyCall, Store(c)
    PROVE  /\ saved' = IF c \in Records \cup {Said, Answered, Checkpoint} THEN session' ELSE saved
           /\ file' = IF c = WriteTask THEN task ELSE file
           /\ report' = IF c = WriteReport THEN task ELSE report
           /\ \/ \E e \in Events : c = Trace(e) /\ trace' = Append(trace, e)
              \/ (\A e \in Events : c # Trace(e)) /\ trace' = trace
<1>1. /\ c.op = "record" <=> c \in Records
      /\ c.op = "say" <=> c = Said
      /\ c.op = "answer" <=> c = Answered
      /\ c.op = "write" <=> c = WriteTask
      /\ c.op = "checkpoint" <=> c = Checkpoint
      /\ c.op = "report" <=> c = WriteReport
      /\ c.op = "trace" <=> \E e \in Events : c = Trace(e)
      /\ c.op = "trace" => c.event \in Events /\ c = Trace(c.event)
  BY Kinds
<1>2. saved' = IF c \in Records \cup {Said, Answered, Checkpoint} THEN session' ELSE saved
  BY <1>1 DEF Store, SavesSession
<1>3. file' = IF c = WriteTask THEN task ELSE file
  BY <1>1 DEF Store
<1>4. report' = IF c = WriteReport THEN task ELSE report
  BY <1>1 DEF Store
<1>5. \/ \E e \in Events : c = Trace(e) /\ trace' = Append(trace, e)
      \/ (\A e \in Events : c # Trace(e)) /\ trace' = trace
  BY <1>1 DEF Store
<1> QED BY <1>2, <1>3, <1>4, <1>5

\* A replacement that fails leaves the file as it was, or none.
LEMMA Half ==
    ASSUME NEW c \in AnyCall, HalfReplaced(c)
    PROVE  /\ file' = file \/ (c = WriteTask /\ file' = Absent)
           /\ report' = report \/ (c = WriteReport /\ report' = Absent)
           /\ saved' = saved /\ trace' = trace
BY Kinds DEF HalfReplaced

\* A crash interrupts the call that would have been next, if there is one.
LEMMA CrashHalf ==
    ASSUME TodoOK, Crash
    PROVE  /\ \/ file' = file
              \/ todo # <<>> /\ todo[1].call = WriteTask /\ file' = Absent
           /\ \/ report' = report
              \/ todo # <<>> /\ todo[1].call = WriteReport /\ report' = Absent
           /\ saved' = saved /\ trace' = trace
<1>1. CASE todo = <<>>
  BY <1>1 DEF Crash, HalfReplaced, Said
<1>2. CASE todo # <<>>
  <2>1. todo[1].call \in AnyCall /\ HalfReplaced(todo[1].call)
    BY <1>2, NextCall DEF Crash
  <2> QED BY <2>1, <1>2, Half
<1> QED BY <1>1, <1>2

\* The store, the session and the directory stay well-typed and in order.
LEMMA StoreStep ==
    ASSUME StoreOK, TaskOK, RunOK, TodoOK, [Next]_vars
    PROVE  StoreOK'
<1> DEFINE c == todo[1].call
<1>A. ASSUME UNCHANGED <<session, saved, file, report, trace, run>>
      PROVE  StoreOK'
  BY <1>A DEF StoreOK
<1>1. CASE Perform
  <2>1. at # "idle" /\ InMemory(c) /\ Store(c) /\ c \in AnyCall /\ run' = run
    BY <1>1, NextCall DEF Perform
  <2>2. session' \in Sessions /\ session.answers \subseteq session'.answers
        /\ session.checkpoint <= session'.checkpoint
        /\ session'.answers \subseteq 1..run
    <3>1. session' \in Sessions
      BY <2>1, Memory
    <3>2. /\ session'.answers = IF c = Answered THEN session.answers \cup {run} ELSE session.answers
          /\ session'.checkpoint = IF c = Checkpoint THEN session.checkpoint + 1
                                   ELSE session.checkpoint
      BY <2>1, Memory
    <3>3. run \in 1..run /\ session.checkpoint \in Nat
      BY <2>1, Bounds DEF RunOK, StoreOK, Sessions
    <3> QED BY <3>1, <3>2, <3>3 DEF StoreOK
  <2>3. saved' = session' \/ saved' = saved
    BY <2>1, Stored
  <2>4. file' \in Tasks \cup {Absent} /\ report' \in Tasks \cup {Absent}
    BY <2>1, Stored DEF StoreOK, TaskOK
  <2>5. trace' \in Seq(Events)
    BY <2>1, Stored DEF StoreOK
  <2>6. session \in Sessions /\ saved \in Sessions
        /\ saved.answers \subseteq session.answers /\ saved.checkpoint <= session.checkpoint
    BY DEF StoreOK
  <2>7. saved'.checkpoint <= session'.checkpoint
    BY <2>2, <2>3, <2>6 DEF Sessions
  <2>8. saved' \in Sessions /\ saved'.answers \subseteq session'.answers
    BY <2>2, <2>3, <2>6
  <2> QED BY <2>1, <2>2, <2>4, <2>5, <2>7, <2>8 DEF StoreOK
<1>2. CASE Fail
  <2>1. at # "idle" /\ InMemory(c) /\ HalfReplaced(c) /\ c \in AnyCall /\ run' = run
    BY <1>2, NextCall DEF Fail
  <2>2. session' \in Sessions /\ session.answers \subseteq session'.answers
        /\ session.checkpoint <= session'.checkpoint
        /\ session'.answers \subseteq 1..run
    <3>1. session' \in Sessions
      BY <2>1, Memory
    <3>2. /\ session'.answers = IF c = Answered THEN session.answers \cup {run} ELSE session.answers
          /\ session'.checkpoint = IF c = Checkpoint THEN session.checkpoint + 1
                                   ELSE session.checkpoint
      BY <2>1, Memory
    <3>3. run \in 1..run /\ session.checkpoint \in Nat
      BY <2>1, Bounds DEF RunOK, StoreOK, Sessions
    <3> QED BY <3>1, <3>2, <3>3 DEF StoreOK
  <2>3. saved' = saved /\ trace' = trace
    BY <2>1, Half
  <2>4. file' \in Tasks \cup {Absent} /\ report' \in Tasks \cup {Absent}
    BY <2>1, Half DEF StoreOK
  <2>6. session \in Sessions /\ saved \in Sessions /\ trace \in Seq(Events)
        /\ saved.answers \subseteq session.answers /\ saved.checkpoint <= session.checkpoint
    BY DEF StoreOK
  <2>7. saved'.checkpoint <= session'.checkpoint
    BY <2>2, <2>3, <2>6 DEF Sessions
  <2> QED BY <2>1, <2>2, <2>3, <2>4, <2>6, <2>7 DEF StoreOK
<1>3. CASE Begin
  <2>1. /\ session' \in {session, saved} /\ saved' = saved /\ run' = run + 1
        /\ file' = Absent /\ report' = Absent /\ trace' = <<>> /\ run \in Nat
    BY <1>3, Bounds DEF Begin, RunOK
  <2>2. session \in Sessions /\ saved \in Sessions
        /\ saved.answers \subseteq session.answers /\ saved.checkpoint <= session.checkpoint
        /\ session.answers \subseteq 1..run
    BY DEF StoreOK
  <2>3. 1..run \subseteq 1..run' /\ saved.checkpoint <= saved.checkpoint
    BY <2>1, <2>2 DEF Sessions
  <2> QED BY <2>1, <2>2, <2>3 DEF StoreOK
<1>4. CASE Crash
  <2>1. session' = saved /\ run' = run
    BY <1>4 DEF Crash
  <2>2. saved.checkpoint <= saved.checkpoint
    BY DEF StoreOK, Sessions
  <2> QED BY <1>4, <2>1, <2>2, CrashHalf DEF StoreOK
<1>5. CASE Enter \/ Attempt \/ RequestModel \/ Gate \/ Executed \/ Finish \/ StopAtLimit
           \/ ReturnAnswer \/ WorldStep
  BY <1>5, <1>A DEF Enter, Attempt, RequestModel, Gate, Executed, Finish, StopAtLimit,
                    ReturnAnswer, WorldStep, ModelFails, ModelAnswers, RunTool, InLoop, directory
<1>6. CASE BuildPrompt \/ RequestStop \/ UNCHANGED vars
  BY <1>6, <1>A DEF BuildPrompt, RequestStop, vars, directory
<1> QED BY <1>1, <1>2, <1>3, <1>4, <1>5, <1>6 DEF Next, LoopStep

\* The closing answer of a run is stored before anything in its directory says
\* that the run is over, and a checkpoint before a file names it.
LEMMA AnswerStep ==
    ASSUME AnswerOK, StoreOK, TaskOK, RunOK, TodoOK, [Next]_vars
    PROVE  AnswerOK'
<1> DEFINE c == todo[1].call
<1> USE DEF DirectoryFollowsSession
<1>0. /\ task.checkpoint \in Nat /\ saved.checkpoint \in Nat /\ session.checkpoint \in Nat
      /\ saved.answers \subseteq session.answers /\ saved.checkpoint <= session.checkpoint
  BY DEF TaskOK, Tasks, StoreOK, Sessions
<1>A. ASSUME UNCHANGED <<saved, file, report, run, faulty>>, task'.checkpoint = task.checkpoint,
             at' \notin {"answered", "finished"}
      PROVE  AnswerOK'
  BY <1>A DEF AnswerOK
<1>1. CASE Perform
  <2>1. at # "idle" /\ InMemory(c) /\ Store(c) /\ c \in AnyCall /\ run' = run /\ at' = at
        /\ faulty' = faulty
    BY <1>1, NextCall DEF Perform
  <2>2. /\ session'.answers = IF c = Answered THEN session.answers \cup {run} ELSE session.answers
        /\ session'.checkpoint = IF c = Checkpoint THEN session.checkpoint + 1 ELSE session.checkpoint
        /\ task'.checkpoint = IF c = Checkpoint THEN session'.checkpoint ELSE task.checkpoint
    BY <2>1, Memory
  <2>3. /\ saved' = IF c \in Records \cup {Said, Answered, Checkpoint} THEN session' ELSE saved
        /\ file' = IF c = WriteTask THEN task ELSE file
        /\ report' = IF c = WriteReport THEN task ELSE report
    BY <2>1, Stored
  <2>4. saved.answers \subseteq saved'.answers /\ saved.checkpoint <= saved'.checkpoint
        /\ saved'.checkpoint \in Nat
    BY <2>2, <2>3, <1>0
  <2>5. ~faulty => task'.checkpoint <= saved'.checkpoint
    BY <2>2, <2>3, <2>4, <1>0 DEF AnswerOK
  <2>6. at \in {"answered", "finished"} => run \in saved'.answers
    BY <2>2, <2>3, <2>4, <1>1 DEF AnswerOK
  <2>7. c \in {WriteTask, WriteReport} /\ task.reason \in Limits \cup {"final_answer_returned"}
        => run \in saved.answers
    <3>1. c \in {WriteTask, WriteReport} => c # Answered
      BY DEF WriteTask, WriteReport, Answered
    <3>2. task.reason \in Limits \cup {"final_answer_returned"} => at = "finished"
      BY <2>1 DEF TaskOK, Limits
    <3> QED BY <3>1, <3>2 DEF AnswerOK
  <2>8. \A d \in {file', report'} \ {Absent} :
            \/ d \in {file, report} \ {Absent}
            \/ d = task /\ c \in {WriteTask, WriteReport}
    BY <2>3
  <2>9. ASSUME NEW d \in {file, report} \ {Absent}
        PROVE  d.checkpoint \in Nat
    BY DEF StoreOK, Tasks
  <2>10. DirectoryFollowsSession'
    <3> SUFFICES ASSUME NEW d \in {file', report'} \ {Absent}
                 PROVE  /\ d.reason \in Limits \cup {"final_answer_returned"} => run \in saved'.answers
                        /\ ~faulty => d.checkpoint <= saved'.checkpoint
      BY <2>1
    <3>1. CASE d \in {file, report} \ {Absent}
      BY <3>1, <2>4, <2>9, <1>0 DEF AnswerOK
    <3>2. CASE d = task /\ c \in {WriteTask, WriteReport}
      BY <3>2, <2>4, <2>7, <1>0 DEF AnswerOK
    <3> QED BY <3>1, <3>2, <2>8
  <2> QED BY <2>1, <2>5, <2>6, <2>10 DEF AnswerOK
<1>2. CASE Fail
  <2>1. /\ at # "idle" /\ InMemory(c) /\ HalfReplaced(c) /\ c \in AnyCall /\ run' = run /\ faulty'
    BY <1>2, NextCall DEF Fail
  <2>2. saved' = saved /\ file' \in {file, Absent} /\ report' \in {report, Absent}
    BY <2>1, Half
  <2>3. \/ at' = "idle"
        \/ at' = at /\ (c = Answered => at \notin {"answered", "finished"})
    BY <1>2, NextCall DEF Fail, Return, TodoOK
  <2>4. at' \in {"answered", "finished"} => run \in saved.answers
    BY <2>3, <1>2 DEF AnswerOK, Fail
  <2> QED BY <2>1, <2>2, <2>4 DEF AnswerOK
<1>3. CASE Begin
  BY <1>3, <1>0, NewTaskOK DEF Begin, AnswerOK
<1>4. CASE Crash
  <2>1. /\ task'.checkpoint = 0 /\ at' = "idle" /\ run' = run /\ faulty' = faulty
    BY <1>4, NewTaskOK DEF Crash, Return
  <2>2. saved' = saved /\ file' \in {file, Absent} /\ report' \in {report, Absent}
    BY <1>4, CrashHalf
  <2> QED BY <2>1, <2>2, <1>0 DEF AnswerOK
<1>5. CASE Finish
  <2>1. at = "answered" /\ todo = <<>>
    BY <1>5 DEF Finish, At
  <2>2. run \in saved.answers
    BY <2>1 DEF AnswerOK
  <2>3. task'.checkpoint = task.checkpoint
    BY <1>5 DEF Finish, TaskOK, Tasks
  <2> QED BY <1>5, <2>2, <2>3 DEF Finish, AnswerOK, InLoop, directory
<1>6. CASE StopAtLimit
  <2>1. todo' = LimitCalls /\ todo'[1].call = Answered /\ todo' # <<>>
    BY <1>6 DEF StopAtLimit, Then, LimitCalls, Must
  <2>2. task'.checkpoint = task.checkpoint
    BY <1>6 DEF StopAtLimit, TaskOK, Tasks
  <2> QED BY <1>6, <2>1, <2>2 DEF StopAtLimit, AnswerOK, InLoop, directory
<1>7. CASE ModelAnswers
  <2>1. task'.checkpoint = task.checkpoint
    BY <1>7 DEF ModelAnswers, FinishCancelled, TaskOK, Tasks
  <2>2. at' \in {"answered", "finished"} => todo' = <<Must(Answered)>>
    BY <1>7 DEF ModelAnswers, FinishCancelled, Then
  <2>3. at' \in {"answered", "finished"} => todo' # <<>> /\ todo'[1].call = Answered
    BY <2>2 DEF Must
  <2>4. UNCHANGED <<saved, file, report, run, faulty>>
    BY <1>7 DEF ModelAnswers, InLoop, directory
  <2> QED BY <2>1, <2>3, <2>4 DEF AnswerOK
<1>8. CASE Enter \/ RequestModel \/ Gate \/ ReturnAnswer \/ ModelFails \/ RunTool
  BY <1>8, <1>A DEF Enter, RequestModel, Gate, ReturnAnswer, ModelFails, RunTool, Return, Then,
                    InLoop, directory
<1>9. CASE Attempt \/ Executed
  <2>1. task'.checkpoint = task.checkpoint
    BY <1>9 DEF Attempt, Executed, RecordAttempt, FinishCancelled, TaskOK, Tasks
  <2> QED BY <1>9, <2>1, <1>A DEF Attempt, Executed, FinishCancelled, Then, InLoop, directory
<1>10. CASE BuildPrompt
  BY <1>10, <1>A DEF BuildPrompt, Then, directory
<1>11. CASE RequestStop
  BY <1>11 DEF RequestStop, AnswerOK, directory
<1>12. CASE UNCHANGED vars
  BY <1>12 DEF vars, AnswerOK, directory
<1> QED BY <1>1, <1>2, <1>3, <1>4, <1>5, <1>6, <1>7, <1>8, <1>9, <1>10, <1>11, <1>12
        DEF Next, LoopStep, WorldStep

-----------------------------------------------------------------------------
(* After a stop *)

\* The stop token is looked at after every call of the model and every tool.
LEMMA StopStep ==
    ASSUME StopOK, RunOK, TodoOK, [Next]_vars
    PROVE  StopOK'
<1>0. run \in Nat /\ outcome \in [1..MaxRuns -> Outcomes] /\ run \in 0..MaxRuns
      /\ (at # "idle" => run \in 1..MaxRuns /\ outcome[run] = "running")
  BY Bounds DEF RunOK
<1>A. ASSUME late' = late, run' = run, stop' = stop, late = 1 => at' \in {"cancelled", "idle"},
             outcome' = outcome \/ (at # "idle" /\ outcome' = [outcome EXCEPT ![run] = "error"])
      PROVE  StopOK'
  <2>1. late = 1 => outcome'[run] # "answered"
    BY <1>A, <1>0 DEF StopOK
  <2> QED BY <1>A, <2>1, Zenon DEF StopOK
<1>1. CASE Perform
  BY <1>1 DEF Perform, StopOK, history
<1>2. CASE Fail
  <2>1. at # "idle" /\ (late = 1 => at' \in {"cancelled", "idle"})
    BY <1>2, NextCall DEF Fail, Return, StopOK
  <2> QED BY <1>2, <2>1, <1>A DEF Fail, Return, history
<1>3. CASE Begin
  BY <1>3 DEF Begin, StopOK
<1>4. CASE Enter
  BY <1>4 DEF Enter, At, StopOK, history
<1>5. CASE Attempt
  BY <1>5 DEF Attempt, At, StopOK, history
<1>6. CASE BuildPrompt
  BY <1>6 DEF BuildPrompt, At, StopOK, history
<1>7. CASE RequestModel
  BY <1>7, <1>0 DEF RequestModel, At, Then, CountLate, InLoop, StopOK, RunOK
<1>8. CASE ModelFails
  BY <1>8, <1>A DEF ModelFails, At, Return, InLoop, history
<1>9. CASE ModelAnswers
  BY <1>9, <1>A DEF ModelAnswers, At, StopRequested, FinishCancelled, Then, InLoop, StopOK, history
<1>10. CASE Gate
  BY <1>10 DEF Gate, At, StopOK
<1>11. CASE RunTool
  BY <1>11, <1>0 DEF RunTool, At, Then, CountLate, InLoop, StopOK, RunOK
<1>12. CASE Executed
  BY <1>12, <1>A DEF Executed, At, StopRequested, FinishCancelled, Then, InLoop, StopOK, history
<1>13. CASE Finish
  BY <1>13 DEF Finish, At, StopOK, history
<1>14. CASE StopAtLimit
  BY <1>14 DEF StopAtLimit, At, StopOK, history
<1>15. CASE ReturnAnswer
  BY <1>15, <1>0 DEF ReturnAnswer, At, Return, InLoop, StopOK, history
<1>16. CASE RequestStop
  BY <1>16 DEF RequestStop, StopOK, history
<1>17. CASE Crash
  BY <1>17, <1>0 DEF Crash, Return, StopOK, history
<1>18. CASE UNCHANGED vars
  BY <1>18 DEF vars, StopOK, history
<1> QED BY <1>1, <1>2, <1>3, <1>4, <1>5, <1>6, <1>7, <1>8, <1>9, <1>10, <1>11, <1>12, <1>13,
           <1>14, <1>15, <1>16, <1>17, <1>18 DEF Next, LoopStep, WorldStep

-----------------------------------------------------------------------------
(* The history of tool calls *)

\* How the count of tools that ran grows with a history.
LEMMA RanAppend ==
    ASSUME NEW s \in Seq(Items), NEW x \in Items, NEW r
    PROVE  /\ Ran(r, s) \in Nat
           /\ x.run = r /\ x.ran => Ran(r, Append(s, x)) = Ran(r, s) + 1
           /\ ~(x.run = r /\ x.ran) => Ran(r, Append(s, x)) = Ran(r, s)
           /\ x.run = r => Ran(r, Append(s, x)) = Ran(r, s) + One(x.ran)
<1> DEFINE t == Append(s, x)
           A == {i \in DOMAIN s : s[i].run = r /\ s[i].ran}
           B == {i \in DOMAIN t : t[i].run = r /\ t[i].ran}
<1>1. /\ Len(s) \in Nat /\ DOMAIN s = 1..Len(s) /\ DOMAIN t = 1..(Len(s) + 1)
      /\ t[Len(s) + 1] = x /\ \A i \in 1..Len(s) : t[i] = s[i]
  OBVIOUS
<1>2. IsFiniteSet(1..Len(s))
  BY <1>1, FS_Interval
<1>3. A \in SUBSET (1..Len(s))
  BY <1>1
<1>4. IsFiniteSet(A) /\ Cardinality(A) \in Nat
  BY <1>2, <1>3, FS_Subset, FS_CardinalityType
<1>5. Len(s) + 1 \notin A
  BY <1>1
<1>6. ASSUME x.run = r /\ x.ran PROVE Cardinality(B) = Cardinality(A) + 1
  <2>1. B = A \cup {Len(s) + 1}
    BY <1>1, <1>6
  <2> HIDE DEF A, B
  <2> QED BY <2>1, <1>4, <1>5, FS_AddElement
<1>7. ASSUME ~(x.run = r /\ x.ran) PROVE Cardinality(B) = Cardinality(A)
  <2>1. B = A
    BY <1>1, <1>7
  <2> QED BY <2>1
<1>8. Ran(r, s) = Cardinality(A) /\ Ran(r, Append(s, x)) = Cardinality(B)
  BY DEF Ran
<1> HIDE DEF A, B
<1> QED BY <1>4, <1>6, <1>7, <1>8 DEF One

\* A run that is not in a history ran nothing there.
LEMMA RanNone ==
    ASSUME NEW s \in Seq(Items), NEW r, \A i \in 1..Len(s) : s[i].run # r
    PROVE  Ran(r, s) = 0
<1>1. {i \in DOMAIN s : s[i].run = r /\ s[i].ran} = {}
  OBVIOUS
<1> QED BY <1>1, FS_EmptySet DEF Ran

\* The count of tools that ran is a number.
LEMMA RanNat ==
    ASSUME NEW s \in Seq(Items), NEW r
    PROVE  Ran(r, s) \in Nat
<1> DEFINE A == {i \in DOMAIN s : s[i].run = r /\ s[i].ran}
<1>1. A \in SUBSET (1..Len(s)) /\ IsFiniteSet(1..Len(s))
  BY FS_Interval
<1>2. Cardinality(A) \in Nat
  BY <1>1, FS_Subset, FS_CardinalityType
<1> QED BY <1>2 DEF Ran

\* A run is good as long as nothing it has done can be missing from the history.
LEMMA GoodStep ==
    ASSUME RunOK, TodoOK, [Next]_vars, NEW r \in 1..run
    PROVE  Good(r)' => Good(r)
<1>0. /\ run \in 0..MaxRuns /\ run \in Nat /\ outcome \in [1..MaxRuns -> Outcomes]
      /\ (at # "idle" => run \in 1..MaxRuns /\ outcome[run] = "running") /\ r \in 1..MaxRuns
  BY Bounds DEF RunOK
<1> USE DEF Good
<1>1. CASE Perform \/ RequestStop \/ UNCHANGED vars
  BY <1>1 DEF Perform, RequestStop, vars
<1>2. CASE Fail
  BY <1>0, <1>2, NextCall DEF Fail, Return
<1>3. CASE Begin
  BY <1>0, <1>3 DEF Begin, At
<1>4. CASE Enter \/ ReturnAnswer \/ ModelFails
  BY <1>0, <1>4 DEF Enter, ReturnAnswer, ModelFails, At, Return, Then, InLoop
<1>5. CASE Attempt \/ BuildPrompt \/ RequestModel \/ Gate \/ Executed \/ Finish \/ StopAtLimit
  BY <1>0, <1>5 DEF Attempt, BuildPrompt, RequestModel, Gate, Executed, Finish, StopAtLimit,
                    FinishCancelled, At, Then, InLoop
<1>6. CASE ModelAnswers \/ RunTool
  BY <1>0, <1>6 DEF ModelAnswers, RunTool, FinishCancelled, At, Then, InLoop
<1>7. CASE Crash
  BY <1>0, <1>7 DEF Crash, Return
<1> QED BY <1>1, <1>2, <1>3, <1>4, <1>5, <1>6, <1>7 DEF Next, LoopStep, WorldStep

\* Every call answered is of a run so far.
LEMMA CallsRuns ==
    ASSUME CallsOK, RunOK
    PROVE  /\ calls \in Seq(Items) /\ Len(calls) \in Nat /\ run \in Nat
           /\ \A i \in 1..Len(calls) : calls[i] \in Items /\ calls[i].run \in 1..run
<1>1. calls \in Seq(Items) /\ run \in Nat
  BY Bounds DEF CallsOK, RunOK
<1> SUFFICES ASSUME NEW i \in 1..Len(calls)
             PROVE  calls[i] \in Items /\ calls[i].run \in 1..run
  BY <1>1
<1>2. calls[i] \in Items
  BY <1>1
<1>3. calls[i].run \in 1..MaxRuns
  BY <1>2 DEF Items
<1>4. calls[i].run <= run
  BY DEF CallsOK, RunsTo
<1> QED BY <1>1, <1>2, <1>3, <1>4, Bounds

\* The parts that only look at what runs are good.
LEMMA StillThere ==
    ASSUME CallsOK, LastOK, TripleOK, StoreOK, RunOK, calls' = calls, session'.tools = session.tools,
           run' = run, RunsTo(run, saved.tools)', ~Pending, ~Pending',
           \A r \in 1..run : Good(r)' => Good(r)
    PROVE  CallsOK' /\ LastOK' /\ TripleOK'
<1> DEFINE n == Len(calls)
<1>1. /\ calls \in Seq(Items) /\ \A i \in 1..n : calls[i].run \in 1..run
  BY CallsRuns
<1>2. CallsOK'
  BY DEF CallsOK, RunsTo
<1>3. \A i \in 1..n : Good(calls[i].run)' => Good(calls[i].run)
  <2> SUFFICES ASSUME NEW i \in 1..n PROVE Good(calls[i].run)' => Good(calls[i].run)
    OBVIOUS
  <2>1. PICK r \in 1..run : r = calls[i].run
    BY <1>1
  <2>2. calls'[i].run = r
    BY <2>1
  <2> QED BY <2>1, <2>2 DEF Good
<1>4. LastOK'
  <2>1. LastAre(n, session.tools)
    BY DEF LastOK
  <2>2. LastAre(n, session.tools)'
    BY <1>1, <1>3, <2>1 DEF LastAre
  <2> QED BY <2>2 DEF LastOK
<1>5. TripleOK'
  <2> SUFFICES ASSUME NEW i \in 1..(n - 2), Thrice(i)'
               PROVE  \E j \in {i, i + 1, i + 2} : ~Good(calls[j].run)'
    BY DEF TripleOK
  <2>1. Thrice(i)
    BY DEF Thrice
  <2>2. PICK j \in {i, i + 1, i + 2} : ~Good(calls[j].run)
    BY <2>1 DEF TripleOK
  <2>3. j \in 1..n
    BY <1>1
  <2> QED BY <2>2, <2>3, <1>3
<1> QED BY <1>2, <1>4, <1>5

\* The counts in a gap are numbers.
LEMMA GapInt ==
    ASSUME CallsOK, StoreOK, NEW r
    PROVE  Ran(r, calls) \in Nat /\ Ran(r, saved.tools) \in Nat /\ Ran(r, session.tools) \in Nat
BY RanNat DEF CallsOK, StoreOK, Sessions

\* A run that is not waiting for its item to be recorded has at most lost one.
LEMMA GapSame ==
    ASSUME GapOK, calls' = calls, saved'.tools = saved.tools, run' = run, ~Pending, ~Pending',
           \A r \in 1..run : Good(r)' => Good(r)
    PROVE  GapOK'
<1> SUFFICES ASSUME NEW r \in 1..run
             PROVE  Gap(r, saved.tools)' \in {0, 1} /\ (Good(r)' => Gap(r, saved.tools)' = 0)
  BY DEF GapOK
<1>1. Gap(r, saved.tools)' = Gap(r, saved.tools)
  BY DEF Gap
<1>2. Gap(r, saved.tools) \in {0, 1} /\ (Good(r) => Gap(r, saved.tools) = 0)
  BY DEF GapOK
<1> QED BY <1>1, <1>2

\* A session stays ahead of its store while nothing is recorded.
LEMMA AheadSame ==
    ASSUME AheadOK, calls' = calls, session'.tools = session.tools, saved'.tools = saved.tools,
           run' = run, \A r \in 1..run : Good(r)' => Good(r),
           \/ session.tools = saved.tools
           \/ at' \in {"idle", "entry"}
           \/ at' = "loop" /\ todo' # <<>> /\ todo'[1].call = Said
    PROVE  AheadOK'
<1>1. CASE session.tools = saved.tools
  BY <1>1 DEF AheadOK
<1>2. CASE session.tools # saved.tools
  <2>1. PICK item \in Items : AheadBy(item)
    BY <1>2 DEF AheadOK
  <2>2. PICK r \in 1..run : r = item.run
    BY <2>1 DEF AheadBy
  <2>3. ~Good(r)'
    BY <2>1, <2>2 DEF AheadBy
  <2>4. ~Good(item.run)'
    BY <2>2, <2>3
  <2>5. Gap(item.run, saved.tools)' = One(item.ran)
    BY <2>1 DEF AheadBy, Gap
  <2>6. AheadBy(item)'
    BY <1>2, <2>1, <2>4, <2>5 DEF AheadBy
  <2> QED BY <2>6 DEF AheadOK
<1> QED BY <1>1, <1>2

\* Only between two runs, and until a run has saved for the first time, the
\* session in memory may be ahead of its store.
LEMMA NotAhead ==
    ASSUME AheadOK, at \notin {"idle", "entry"},
           ~(at = "loop" /\ todo # <<>> /\ todo[1].call = Said)
    PROVE  session.tools = saved.tools
BY DEF AheadOK, AheadBy

\* The loop goes on without a word about tools.
LEMMA RestHistory ==
    ASSUME HistoryOK, StoreOK, RunOK, TodoOK, [Next]_vars,
           calls' = calls, session'.tools = session.tools, saved'.tools = saved.tools,
           run' = run, ~Pending, ~Pending',
           \/ session.tools = saved.tools
           \/ at' \in {"idle", "entry"}
           \/ at' = "loop" /\ todo' # <<>> /\ todo'[1].call = Said
    PROVE  HistoryOK'
<1>1. \A r \in 1..run : Good(r)' => Good(r)
  BY GoodStep
<1>2. RunsTo(run, saved.tools)'
  BY DEF HistoryOK, CallsOK, RunsTo
<1> QED BY <1>1, <1>2, StillThere, GapSame, AheadSame DEF HistoryOK

\* A call of Perform or Fail is recorded.
LEMMA RecordHistory ==
    ASSUME HistoryOK, StoreOK, RunOK, TaskOK, TodoOK, todo # <<>>, todo[1].call \in Records
    PROVE  LET item == todo[1].call.item IN
           /\ item \in Items /\ item.run = run /\ run \in 1..run
           /\ Pending /\ at = "loop" /\ session.tools = saved.tools
           /\ calls # <<>> /\ calls[Len(calls)] = item
           /\ session.tools \in Seq(Items)
           /\ Gap(run, saved.tools) = One(item.ran)
           /\ LastAre(Len(calls) - 1, session.tools)
<1>1. at = "loop" /\ Pending
  BY DEF TodoOK, Pending
<1>2. todo[1].call \in AnyCall /\ todo[1].call.op = "record"
  BY NextCall, Kinds
<1>3. todo[1].call.item \in Items
  BY <1>2, NextCall, Kinds
<1>4. session.tools = saved.tools
  BY <1>1, <1>2, NotAhead DEF HistoryOK, Said
<1>5. calls # <<>> /\ calls[Len(calls)] = todo[1].call.item /\ calls[Len(calls)].run = run
  BY <1>1 DEF HistoryOK, CallsOK
<1>6. run \in 1..run
  BY <1>1, Bounds DEF RunOK
<1>7. Gap(run, saved.tools) = One(todo[1].call.item.ran)
  BY <1>1, <1>5, <1>6 DEF HistoryOK, GapOK
<1>8. LastAre(Len(calls) - 1, session.tools)
  BY <1>1 DEF HistoryOK, LastOK
<1>9. session.tools \in Seq(Items)
  BY DEF StoreOK, Sessions
<1> QED BY <1>1, <1>3, <1>4, <1>5, <1>6, <1>7, <1>8, <1>9

\* A tool's item is recorded: the history and its store both end with it.
LEMMA PerformHistory ==
    ASSUME HistoryOK, StoreOK, RunOK, TaskOK, TodoOK, Perform
    PROVE  HistoryOK'
<1> DEFINE c == todo[1].call
           n == Len(calls)
           m == Len(session.tools)
<1>0. /\ todo # <<>> /\ c \in AnyCall /\ InMemory(c) /\ Store(c) /\ at # "idle"
      /\ UNCHANGED <<at, run, outcome, calls, action>>
      /\ todo' = Tail(todo) /\ PlainTail(todo') /\ at # "executed"
  BY NextCall DEF Perform, history
<1>1. [Next]_vars
  BY DEF Next, LoopStep
<1>2. \A r \in 1..run : Good(r)' => Good(r)
  BY <1>1, GoodStep
<1>3. ~Pending'
  <2>1. \A i \in 1..Len(todo') : todo'[i].call \in Plain
    BY <1>0, NextCall
  <2>2. todo' # <<>> => todo'[1].call \in Plain
    BY <1>0, <2>1, EmptySeq DEF PlainTail
  <2>3. \A d \in Plain : d \notin Records
    BY Kinds DEF AnyCall, Records, Record
  <2> QED BY <1>0, <2>2, <2>3 DEF Pending
<1>4. /\ session'.tools = IF c \in Records THEN Append(session.tools, c.item) ELSE session.tools
      /\ saved' = IF c \in Records \cup {Said, Answered, Checkpoint} THEN session' ELSE saved
  BY <1>0, Memory, Stored
<1>5. CASE c \in Records
  <2>0. PICK item \in Items : item = c.item
    BY <1>0, <1>5, RecordHistory
  <2>1. /\ item \in Items /\ item.run = run /\ run \in 1..run
        /\ Pending /\ at = "loop" /\ session.tools = saved.tools
        /\ calls # <<>> /\ calls[n] = item
        /\ session.tools \in Seq(Items) /\ m \in Nat
        /\ Gap(run, saved.tools) = One(item.ran)
        /\ LastAre(n - 1, session.tools)
    BY <1>0, <1>5, <2>0, RecordHistory
  <2>2. session'.tools = Append(session.tools, item) /\ saved'.tools = session'.tools
    BY <1>4, <1>5, <2>0
  <2>3. /\ Len(session'.tools) = m + 1 /\ session'.tools[m + 1] = item
        /\ \A i \in 1..m : session'.tools[i] = session.tools[i]
    BY <2>1, <2>2
  <2> HIDE DEF c, m, n
  <2>4. CallsOK'
    <3>1. RunsTo(run, session.tools) /\ run \in Nat
      BY Bounds DEF HistoryOK, CallsOK, RunOK
    <3>2. RunsTo(run, session'.tools)
      <4> SUFFICES ASSUME NEW i \in 1..(m + 1) PROVE session'.tools[i].run <= run
        BY <2>3 DEF RunsTo
      <4>1. CASE i = m + 1
        BY <2>1, <2>3, <3>1, <4>1
      <4>2. CASE i # m + 1
        <5>1. i \in 1..m
          BY <2>1, <4>2
        <5>2. session.tools[i].run <= run
          BY <3>1, <5>1 DEF RunsTo, m
        <5> QED BY <2>3, <5>1, <5>2
      <4> QED BY <4>1, <4>2
    <3>3. RunsTo(run, session.tools)' /\ RunsTo(run, saved.tools)'
      BY <1>0, <2>2, <3>2 DEF RunsTo
    <3> QED BY <1>0, <1>3, <3>3 DEF HistoryOK, CallsOK, RunsTo
  <2>5. GapOK'
    <3> SUFFICES ASSUME NEW r \in 1..run PROVE Gap(r, saved.tools)' \in {0, 1}
                        /\ (Good(r)' => Gap(r, saved.tools)' = 0)
      BY <1>0, <1>3 DEF GapOK
    <3>1. /\ Ran(r, calls) \in Nat /\ Ran(r, saved.tools) \in Nat
      BY GapInt DEF HistoryOK
    <3>2. CASE r = run
      <4>1. Ran(r, saved'.tools) = Ran(r, saved.tools) + One(item.ran)
        BY <2>1, <2>2, <3>2, RanAppend
      <4>2. Ran(r, calls) - Ran(r, saved.tools) = One(item.ran)
        BY <2>1, <3>2 DEF Gap
      <4>3. One(item.ran) \in Nat
        BY DEF One
      <4>4. Ran(r, calls) - Ran(r, saved'.tools) = 0
        BY <3>1, <4>1, <4>2, <4>3
      <4> QED BY <1>0, <4>4 DEF Gap
    <3>3. CASE r # run
      <4>1. Ran(r, saved'.tools) = Ran(r, saved.tools)
        BY <2>1, <2>2, <3>3, RanAppend
      <4>2. Gap(r, saved.tools)' = Gap(r, saved.tools)
        BY <1>0, <4>1 DEF Gap
      <4> QED BY <4>2, <3>3, <1>2 DEF HistoryOK, GapOK
    <3> QED BY <3>2, <3>3
  <2>6. AheadOK'
    BY <2>2 DEF AheadOK
  <2>7. n \in Nat \ {0} /\ \A i \in 1..n : calls[i].run \in 1..run
    BY <2>1, CallsRuns, EmptySeq DEF HistoryOK, n
  <2>8. \A i \in 1..n : Good(calls[i].run)' => Good(calls[i].run)
    BY <1>0 DEF Good
  <2>9. LastAre(n, session.tools)'
    <3>1. n >= 2 /\ Good(calls[n - 1].run) => m >= 1 /\ session.tools[m] = calls[n - 1]
      BY <2>1, <2>7 DEF LastAre, m
    <3>2. n >= 2 => n - 1 \in 1..n
      BY <2>7
    <3>3. n >= 2 /\ Good(calls[n - 1].run)' => m >= 1 /\ session'.tools[m] = calls[n - 1]
      <4>1. n' = n /\ calls' = calls
        BY <1>0 DEF n
      <4>2. n >= 2 /\ Good(calls[n - 1].run)' => Good(calls[n - 1].run)
        BY <1>0, <4>1 DEF Good
      <4> QED BY <2>1, <2>3, <3>1, <4>2
    <3>4. n' = n /\ calls' = calls
      BY <1>0 DEF n
    <3> QED BY <2>1, <2>3, <2>7, <3>3, <3>4 DEF LastAre
  <2>10. LastOK'
    BY <1>0, <1>3, <2>9 DEF LastOK, n
  <2>11. TripleOK'
    BY <1>0 DEF HistoryOK, TripleOK, Thrice, Good
  <2> QED BY <2>4, <2>5, <2>6, <2>10, <2>11 DEF HistoryOK
<1>6. CASE c \notin Records
  <2>1. ~Pending
    BY <1>0, <1>6 DEF Pending
  <2>2. session'.tools = session.tools /\ saved'.tools \in {session.tools, saved.tools}
    BY <1>4, <1>6
  <2>3. CASE session.tools = saved.tools
    BY <1>0, <1>1, <1>3, <2>1, <2>2, <2>3, RestHistory
  <2>4. CASE session.tools # saved.tools
    <3>1. PICK item \in Items : AheadBy(item)
      BY <2>4 DEF HistoryOK, AheadOK
    <3>2. c = Said
      BY <1>0, <3>1 DEF AheadBy, TodoOK
    <3>3. saved'.tools = session.tools /\ session.tools = Append(saved.tools, item)
      BY <1>4, <2>2, <3>1, <3>2 DEF AheadBy
    <3>4. saved.tools \in Seq(Items)
      BY DEF StoreOK, Sessions
    <3>5. RunsTo(run, saved.tools)'
      BY <1>0, <3>3 DEF HistoryOK, CallsOK, RunsTo
    <3>6. CallsOK' /\ LastOK' /\ TripleOK'
      BY <1>0, <1>2, <1>3, <2>1, <2>2, <3>5, StillThere DEF HistoryOK
    <3>7. GapOK'
      <4> SUFFICES ASSUME NEW r \in 1..run
                   PROVE  Gap(r, saved.tools)' \in {0, 1} /\ (Good(r)' => Gap(r, saved.tools)' = 0)
        BY <1>0, <1>3 DEF GapOK
      <4>1. Gap(r, saved.tools) \in {0, 1} /\ (Good(r) => Gap(r, saved.tools) = 0)
        BY <2>1 DEF HistoryOK, GapOK
      <4>2. CASE item.run = r
        <5>1. Ran(r, saved'.tools) = Ran(r, saved.tools) + One(item.ran)
          BY <3>3, <3>4, <4>2, RanAppend
        <5>2. Ran(r, calls) - Ran(r, saved.tools) = One(item.ran)
          BY <3>1, <4>2 DEF AheadBy, Gap
        <5>3. Ran(r, calls) \in Nat /\ Ran(r, saved.tools) \in Nat /\ One(item.ran) \in Nat
          BY GapInt DEF HistoryOK, One
        <5>4. Ran(r, calls) - Ran(r, saved'.tools) = 0
          BY <5>1, <5>2, <5>3
        <5> QED BY <1>0, <5>4 DEF Gap
      <4>3. CASE item.run # r
        <5>1. Ran(r, saved'.tools) = Ran(r, saved.tools)
          BY <3>3, <3>4, <4>3, RanAppend
        <5>2. Gap(r, saved.tools)' = Gap(r, saved.tools)
          BY <1>0, <5>1 DEF Gap
        <5> QED BY <4>1, <5>2, <1>2
      <4> QED BY <4>2, <4>3
    <3>8. AheadOK'
      BY <2>2, <3>3 DEF AheadOK
    <3> QED BY <3>6, <3>7, <3>8 DEF HistoryOK
  <2> QED BY <2>3, <2>4
<1> QED BY <1>5, <1>6

\* A call fails: if it was the record of a tool, the session in memory has it
\* and its store has not, and the run is over.
LEMMA FailHistory ==
    ASSUME HistoryOK, StoreOK, RunOK, TaskOK, TodoOK, Fail
    PROVE  HistoryOK'
<1> DEFINE c == todo[1].call
           n == Len(calls)
           m == Len(session.tools)
<1>0. /\ todo # <<>> /\ c \in AnyCall /\ InMemory(c) /\ HalfReplaced(c) /\ at # "idle"
      /\ UNCHANGED <<run, calls, action>> /\ at # "executed"
  BY NextCall DEF Fail, history
<1>1. [Next]_vars
  BY DEF Next
<1>2. \A r \in 1..run : Good(r)' => Good(r)
  BY <1>1, GoodStep
<1>A. \/ /\ at' = "idle" /\ todo' = <<>> /\ outcome' = [outcome EXCEPT ![run] = "error"]
      \/ /\ ~todo[1].checked /\ at' = at /\ todo' = Tail(todo) /\ outcome' = outcome
  BY NextCall DEF Fail, Return
<1>3. ~Pending'
  <2>1. ASSUME at' = at, todo' = Tail(todo) PROVE ~Pending'
    <3>1. PlainTail(todo') /\ \A i \in 1..Len(todo') : todo'[i].call \in Plain
      BY <1>0, <2>1, NextCall
    <3>2. todo' # <<>> => todo'[1].call \in Plain
      BY <1>0, <3>1, EmptySeq DEF PlainTail
    <3>3. \A d \in Plain : d \notin Records
      BY Kinds DEF AnyCall, Records, Record
    <3> QED BY <1>0, <2>1, <3>2, <3>3 DEF Pending
  <2> QED BY <1>A, <2>1 DEF Pending
<1>4. /\ session'.tools = IF c \in Records THEN Append(session.tools, c.item) ELSE session.tools
      /\ saved' = saved
  BY <1>0, Memory, Half
<1>5. CASE c \in Records
  <2>0. PICK item \in Items : item = c.item
    BY <1>0, <1>5, RecordHistory
  <2>1. /\ item \in Items /\ item.run = run /\ run \in 1..run
        /\ Pending /\ at = "loop" /\ session.tools = saved.tools
        /\ calls # <<>> /\ calls[n] = item
        /\ session.tools \in Seq(Items) /\ m \in Nat
        /\ Gap(run, saved.tools) = One(item.ran)
        /\ LastAre(n - 1, session.tools)
    BY <1>0, <1>5, <2>0, RecordHistory
  <2>2. session'.tools = Append(saved.tools, item) /\ saved'.tools = saved.tools
    BY <1>4, <1>5, <2>0, <2>1
  <2>3. /\ Len(session'.tools) = m + 1 /\ session'.tools[m + 1] = item
        /\ \A i \in 1..m : session'.tools[i] = session.tools[i]
    BY <2>1, <2>2
  <2>4. at' = "idle" /\ outcome' = [outcome EXCEPT ![run] = "error"]
    BY <1>A, <1>5, <1>0 DEF TodoOK
  <2>5. \A r \in 1..run : r = run => ~Good(r)'
    <3>1. run \in 1..MaxRuns
      BY <1>0, Bounds DEF RunOK
    <3> QED BY <1>0, <2>4, <3>1 DEF Good, RunOK
  <2> HIDE DEF c, m, n
  <2>6. CallsOK'
    <3>1. RunsTo(run, session.tools) /\ run \in Nat
      BY Bounds DEF HistoryOK, CallsOK, RunOK
    <3>2. RunsTo(run, session'.tools)
      <4> SUFFICES ASSUME NEW i \in 1..(m + 1) PROVE session'.tools[i].run <= run
        BY <2>3 DEF RunsTo
      <4>1. CASE i = m + 1
        BY <2>1, <2>3, <3>1, <4>1
      <4>2. CASE i # m + 1
        <5>1. i \in 1..m
          BY <2>1, <4>2
        <5>2. session.tools[i].run <= run
          BY <3>1, <5>1 DEF RunsTo, m
        <5> QED BY <2>3, <5>1, <5>2
      <4> QED BY <4>1, <4>2
    <3>3. RunsTo(run, session.tools)' /\ RunsTo(run, saved.tools)'
      BY <1>0, <2>2, <3>2 DEF RunsTo, HistoryOK, CallsOK
    <3> QED BY <1>0, <1>3, <3>3 DEF HistoryOK, CallsOK, RunsTo
  <2>7. GapOK'
    <3> SUFFICES ASSUME NEW r \in 1..run PROVE Gap(r, saved.tools)' \in {0, 1}
                        /\ (Good(r)' => Gap(r, saved.tools)' = 0)
      BY <1>0, <1>3 DEF GapOK
    <3>1. Gap(r, saved.tools)' = Gap(r, saved.tools)
      BY <1>0, <2>2 DEF Gap
    <3>2. CASE r = run
      BY <2>1, <2>5, <3>1, <3>2 DEF One
    <3>3. CASE r # run
      BY <3>1, <3>3, <1>2 DEF HistoryOK, GapOK
    <3> QED BY <3>2, <3>3
  <2>8. AheadOK'
    <3>1. Gap(item.run, saved.tools)' = One(item.ran)
      BY <1>0, <2>1, <2>2 DEF Gap
    <3>2. ~Good(item.run)'
      BY <2>1, <2>5
    <3>3. AheadBy(item)'
      BY <1>0, <2>1, <2>2, <2>4, <3>1, <3>2 DEF AheadBy
    <3> QED BY <2>1, <3>3 DEF AheadOK
  <2>9. LastAre(n, session.tools)'
    <3>1. n' = n /\ calls' = calls
      BY <1>0 DEF n
    <3>2. ~Good(calls[n].run)'
      <4>1. ~Good(item.run)'
        BY <2>1, <2>5
      <4> QED BY <2>1, <3>1, <4>1
    <3> QED BY <3>1, <3>2 DEF LastAre
  <2>10. LastOK'
    BY <1>0, <1>3, <2>9 DEF LastOK, n
  <2>11. TripleOK'
    <3> SUFFICES ASSUME NEW i \in 1..(Len(calls) - 2), Thrice(i)
                 PROVE  \E j \in {i, i + 1, i + 2} : ~Good(calls[j].run)'
      BY <1>0 DEF TripleOK, Thrice
    <3>1. PICK j \in {i, i + 1, i + 2} : ~Good(calls[j].run)
      BY DEF HistoryOK, TripleOK
    <3>2. j \in 1..Len(calls) /\ calls[j].run \in 1..run
      BY CallsRuns DEF HistoryOK
    <3>3. PICK r \in 1..run : r = calls[j].run
      BY <3>2
    <3>4. ~Good(r)'
      BY <1>2, <3>1, <3>3
    <3> QED BY <1>0, <3>3, <3>4
  <2> QED BY <2>6, <2>7, <2>8, <2>10, <2>11 DEF HistoryOK
<1>6. CASE c \notin Records
  <2>1. ~Pending
    BY <1>0, <1>6 DEF Pending
  <2>2. session'.tools = session.tools /\ saved'.tools = saved.tools
    BY <1>4, <1>6
  <2>3. session.tools = saved.tools \/ at' \in {"idle", "entry"}
    BY <1>0, <1>A, NotAhead DEF HistoryOK, TodoOK
  <2> QED BY <1>0, <1>1, <1>3, <2>1, <2>2, <2>3, RestHistory
<1> QED BY <1>5, <1>6

\* The next run: of the session in memory or of the stored one.
LEMMA BeginHistory ==
    ASSUME HistoryOK, StoreOK, RunOK, TodoOK, Begin
    PROVE  HistoryOK'
<1> DEFINE n == Len(calls)
<1>0. /\ at = "idle" /\ todo = <<>> /\ at' = "entry" /\ todo' = <<>> /\ run' = run + 1
      /\ calls' = calls /\ saved' = saved /\ session' \in {session, saved}
      /\ outcome' = [outcome EXCEPT ![run'] = "running"]
      /\ run \in Nat /\ run \in 0..MaxRuns /\ run' \in 1..MaxRuns
      /\ ~Pending /\ ~Pending'
  BY Bounds DEF Begin, At, RunOK, Pending
<1>1. [Next]_vars
  BY DEF Next
<1>2. \A r \in 1..run : Good(r)' => Good(r)
  BY <1>1, GoodStep
<1>3. session.tools \in Seq(Items) /\ saved.tools \in Seq(Items) /\ calls \in Seq(Items)
  BY DEF StoreOK, Sessions, HistoryOK, CallsOK
<1>4. RunsTo(run, calls) /\ RunsTo(run, session.tools) /\ RunsTo(run, saved.tools)
  BY DEF HistoryOK, CallsOK
<1>5. CallsOK'
  <2>1. ASSUME NEW s \in Seq(Items), RunsTo(run, s) PROVE RunsTo(run + 1, s)
    <3> SUFFICES ASSUME NEW i \in 1..Len(s) PROVE s[i].run <= run + 1
      BY DEF RunsTo
    <3>1. s[i] \in Items /\ s[i].run <= run
      BY <2>1 DEF RunsTo
    <3>2. s[i].run \in Nat
      BY <3>1, Bounds DEF Items
    <3> QED BY <3>1, <3>2, <1>0
  <2>2. RunsTo(run + 1, calls) /\ RunsTo(run + 1, session'.tools) /\ RunsTo(run + 1, saved.tools)
    BY <1>0, <1>3, <1>4, <2>1
  <2>3. RunsTo(run, calls)' /\ RunsTo(run, session.tools)' /\ RunsTo(run, saved.tools)'
    BY <1>0, <2>2 DEF RunsTo
  <2> QED BY <1>0, <1>3, <2>3 DEF CallsOK
<1>6. GapOK'
  <2> SUFFICES ASSUME NEW r \in 1..(run + 1)
               PROVE  Gap(r, saved.tools)' \in {0, 1} /\ (Good(r)' => Gap(r, saved.tools)' = 0)
    BY <1>0 DEF GapOK
  <2>1. Gap(r, saved.tools)' = Gap(r, saved.tools)
    BY <1>0 DEF Gap
  <2>2. CASE r \in 1..run
    BY <1>0, <1>2, <2>1, <2>2 DEF HistoryOK, GapOK
  <2>3. CASE r \notin 1..run
    <3>1. r = run + 1
      BY <1>0, <2>3
    <3>2. ASSUME NEW s \in Seq(Items), RunsTo(run, s) PROVE Ran(r, s) = 0
      <4>1. \A i \in 1..Len(s) : s[i].run # r
        <5> SUFFICES ASSUME NEW i \in 1..Len(s) PROVE s[i].run # r
          OBVIOUS
        <5>1. s[i] \in Items /\ s[i].run <= run
          BY <3>2 DEF RunsTo
        <5>2. s[i].run \in Nat
          BY <5>1, Bounds DEF Items
        <5> QED BY <5>1, <5>2, <3>1, <1>0
      <4> QED BY <4>1, RanNone
    <3>3. Gap(r, saved.tools) = 0
      BY <1>3, <1>4, <3>2 DEF Gap
    <3> QED BY <2>1, <3>3
  <2> QED BY <2>2, <2>3
<1>7. AheadOK'
  <2>1. CASE session.tools = saved.tools \/ session' = saved
    BY <1>0, <2>1 DEF AheadOK
  <2>2. CASE session.tools # saved.tools /\ session' = session
    <3>1. PICK item \in Items : AheadBy(item)
      BY <2>2 DEF HistoryOK, AheadOK
    <3>2. PICK r \in 1..run : r = item.run
      BY <3>1 DEF AheadBy
    <3>3. ~Good(item.run)'
      BY <1>2, <3>1, <3>2 DEF AheadBy
    <3>4. Gap(item.run, saved.tools)' = One(item.ran)
      BY <1>0, <3>1 DEF AheadBy, Gap
    <3>5. item.run \in 1..run'
      BY <1>0, <3>2
    <3>6. AheadBy(item)'
      BY <1>0, <2>2, <3>1, <3>3, <3>4, <3>5 DEF AheadBy
    <3> QED BY <3>6 DEF AheadOK
  <2> QED BY <1>0, <2>1, <2>2
<1>8. n \in Nat /\ \A i \in 1..n : calls[i].run \in 1..run
  BY CallsRuns DEF HistoryOK
<1>9. \A i \in 1..n : Good(calls[i].run)' => Good(calls[i].run)
  <2> SUFFICES ASSUME NEW i \in 1..n PROVE Good(calls[i].run)' => Good(calls[i].run)
    OBVIOUS
  <2>1. PICK r \in 1..run : r = calls[i].run
    BY <1>8
  <2>2. Good(r)' => Good(r)
    BY <1>2
  <2> QED BY <1>0, <2>1, <2>2
<1>10. LastOK'
  <2>1. LastAre(n, session.tools)
    BY <1>0 DEF HistoryOK, LastOK
  <2>2. CASE session'.tools = session.tools
    <3>1. LastAre(n, session.tools)'
      BY SMTT(30), <1>0, <1>8, <1>9, <2>1, <2>2 DEF LastAre
    <3> QED BY <1>0, <3>1 DEF LastOK
  <2>3. CASE session'.tools # session.tools
    <3>1. PICK item \in Items : AheadBy(item)
      BY <1>0, <2>3 DEF HistoryOK, AheadOK
    <3>2. session.tools[Len(session.tools)] = item /\ ~Good(item.run)
      BY <1>3, <3>1 DEF AheadBy
    <3>3. n >= 1 => ~Good(calls[n].run)
      BY <2>1, <3>2 DEF LastAre
    <3>4. n >= 1 => ~Good(calls[n].run)'
      BY <1>0, <1>8, <1>9, <3>3
    <3>5. LastAre(n, session.tools)'
      BY <1>0, <1>8, <3>4 DEF LastAre
    <3> QED BY <1>0, <3>5 DEF LastOK
  <2> QED BY <2>2, <2>3
<1>11. TripleOK'
  <2> SUFFICES ASSUME NEW i \in 1..(n - 2), Thrice(i)'
               PROVE  \E j \in {i, i + 1, i + 2} : ~Good(calls[j].run)'
    BY <1>0 DEF TripleOK
  <2>1. Thrice(i)
    BY <1>0 DEF Thrice
  <2>2. PICK j \in {i, i + 1, i + 2} : ~Good(calls[j].run)
    BY <2>1 DEF HistoryOK, TripleOK
  <2>3. j \in 1..n
    BY <1>8
  <2> QED BY <2>2, <2>3, <1>9
<1> QED BY <1>5, <1>6, <1>7, <1>10, <1>11 DEF HistoryOK

\* The process dies: the stored session is all there is.
LEMMA CrashHistory ==
    ASSUME HistoryOK, StoreOK, RunOK, TodoOK, Crash
    PROVE  HistoryOK'
<1> DEFINE n == Len(calls)
<1>0. /\ at # "idle" /\ at' = "idle" /\ todo' = <<>> /\ run' = run
      /\ calls' = calls /\ session' = saved
      /\ outcome' = [outcome EXCEPT ![run] = "crashed"]
      /\ run \in Nat /\ run \in 1..MaxRuns /\ ~Pending'
  BY Bounds DEF Crash, Return, RunOK, Pending, history
<1>1. [Next]_vars /\ saved' = saved
  BY CrashHalf DEF Next
<1>2. \A r \in 1..run : Good(r)' => Good(r)
  BY <1>1, GoodStep
<1>3. session.tools \in Seq(Items) /\ saved.tools \in Seq(Items) /\ calls \in Seq(Items)
  BY DEF StoreOK, Sessions, HistoryOK, CallsOK
<1>4. \A r \in 1..run : r = run => ~Good(r)'
  BY <1>0 DEF Good, RunOK
<1>5. CallsOK'
  BY <1>0, <1>1 DEF HistoryOK, CallsOK, RunsTo
<1>6. GapOK'
  <2> SUFFICES ASSUME NEW r \in 1..run
               PROVE  Gap(r, saved.tools)' \in {0, 1} /\ (Good(r)' => Gap(r, saved.tools)' = 0)
    BY <1>0 DEF GapOK
  <2>1. Gap(r, saved.tools)' = Gap(r, saved.tools)
    BY <1>0, <1>1 DEF Gap
  <2>2. CASE Pending /\ r = run
    BY <1>4, <2>1, <2>2 DEF HistoryOK, GapOK, One
  <2>3. CASE ~(Pending /\ r = run)
    BY <1>2, <2>1, <2>3 DEF HistoryOK, GapOK
  <2> QED BY <2>2, <2>3
<1>7. AheadOK'
  BY <1>0, <1>1 DEF AheadOK
<1>8. n \in Nat /\ \A i \in 1..n : calls[i].run \in 1..run
  BY CallsRuns DEF HistoryOK
<1>9. \A i \in 1..n : Good(calls[i].run)' => Good(calls[i].run) /\ calls[i].run # run
  <2> SUFFICES ASSUME NEW i \in 1..n
               PROVE  Good(calls[i].run)' => Good(calls[i].run) /\ calls[i].run # run
    OBVIOUS
  <2>1. PICK r \in 1..run : r = calls[i].run
    BY <1>8
  <2>2. Good(r)' => Good(r) /\ r # run
    BY <1>2, <1>4
  <2> QED BY <1>0, <2>1, <2>2
<1>10. LastOK'
  <2>1. CASE Pending
    <3>1. n \in 1..n /\ calls[n].run = run
      BY <1>8, <2>1, EmptySeq DEF HistoryOK, CallsOK
    <3>2. ~Good(calls[n].run)'
      BY <1>0, <1>9, <3>1
    <3>3. LastAre(n, session.tools)'
      BY <1>0, <3>2 DEF LastAre
    <3> QED BY <1>0, <3>3 DEF LastOK
  <2>2. CASE ~Pending
    <3>1. LastAre(n, session.tools)
      BY <2>2 DEF HistoryOK, LastOK
    <3>2. CASE session.tools = saved.tools
      <4>1. LastAre(n, session.tools)'
        BY SMTT(30), <1>0, <1>8, <1>9, <3>1, <3>2 DEF LastAre
      <4> QED BY <1>0, <4>1 DEF LastOK
    <3>3. CASE session.tools # saved.tools
      <4>1. PICK item \in Items : AheadBy(item)
        BY <3>3 DEF HistoryOK, AheadOK
      <4>2. session.tools[Len(session.tools)] = item /\ ~Good(item.run)
        BY <1>3, <4>1 DEF AheadBy
      <4>3. n >= 1 => ~Good(calls[n].run)
        BY <3>1, <4>2 DEF LastAre
      <4>4. n >= 1 => ~Good(calls[n].run)'
        BY <1>0, <1>8, <1>9, <4>3
      <4>5. LastAre(n, session.tools)'
        BY <1>0, <1>8, <4>4 DEF LastAre
      <4> QED BY <1>0, <4>5 DEF LastOK
    <3> QED BY <3>2, <3>3
  <2> QED BY <2>1, <2>2
<1>11. TripleOK'
  <2> SUFFICES ASSUME NEW i \in 1..(n - 2), Thrice(i)'
               PROVE  \E j \in {i, i + 1, i + 2} : ~Good(calls[j].run)'
    BY <1>0 DEF TripleOK
  <2>1. Thrice(i)
    BY <1>0 DEF Thrice
  <2>2. PICK j \in {i, i + 1, i + 2} : ~Good(calls[j].run)
    BY <2>1 DEF HistoryOK, TripleOK
  <2>3. j \in 1..n
    BY <1>8
  <2> QED BY <2>2, <2>3, <1>9
<1> QED BY <1>5, <1>6, <1>7, <1>10, <1>11 DEF HistoryOK

\* A tool call is answered, refused or run: it waits to be recorded.
LEMMA CallHistory ==
    ASSUME HistoryOK, RepeatOK, StoreOK, RunOK, ActionOK, TodoOK,
           at \in {"gate", "run"}, at' = "executed", todo' = <<>>,
           UNCHANGED <<session, saved, run, outcome>>,
           action' \in [call : Calls \cup {"none"}, ran : BOOLEAN], action'.call = action.call,
           action'.ran => at = "run", calls' = Append(calls, Item(action'))
    PROVE  HistoryOK'
<1> DEFINE n == Len(calls)
           m == Len(session.tools)
<1>0. /\ todo = <<>> /\ ~Pending /\ Pending' /\ run \in 1..run /\ run \in 1..MaxRuns
      /\ run \in Nat /\ Good(run)
  BY Bounds DEF TodoOK, Pending, RunOK, Good
<1>1. PICK x \in Items : x = Item(action')
  BY <1>0 DEF Items, Item, ActionOK
<1>2. /\ x.run = run /\ x.call = action.call /\ x.call \in Calls
      /\ x.ran => at = "run"
  BY <1>1 DEF Item, ActionOK
<1>3. /\ calls \in Seq(Items) /\ n \in Nat
      /\ \A i \in 1..n : calls[i] \in Items /\ calls[i].run \in 1..run
  BY CallsRuns DEF HistoryOK
<1>4. /\ calls' \in Seq(Items) /\ Len(calls') = n + 1 /\ calls'[n + 1] = x /\ calls' # <<>>
      /\ \A i \in 1..n : calls'[i] = calls[i]
  BY <1>1, <1>3
<1>5. session.tools = saved.tools
  BY NotAhead DEF HistoryOK
<1>6. \A r \in 1..run : Good(r)' <=> Good(r)
  BY DEF Good
<1>7. CallsOK'
  <2>1. RunsTo(run, calls) /\ RunsTo(run, session.tools) /\ RunsTo(run, saved.tools)
    BY DEF HistoryOK, CallsOK
  <2>2. RunsTo(run, calls')
    <3> SUFFICES ASSUME NEW i \in 1..(n + 1) PROVE calls'[i].run <= run
      BY <1>4 DEF RunsTo
    <3>1. CASE i = n + 1
      BY <1>0, <1>2, <1>4, <3>1
    <3>2. CASE i # n + 1
      <4>1. i \in 1..n
        BY <1>3, <3>2
      <4> QED BY <1>0, <1>3, <1>4, <4>1
    <3> QED BY <3>1, <3>2
  <2>3. RunsTo(run, calls)' /\ RunsTo(run, session.tools)' /\ RunsTo(run, saved.tools)'
    BY <2>1, <2>2 DEF RunsTo
  <2>4. calls'[Len(calls')] = Item(action)' /\ calls'[Len(calls')].run = run'
    BY <1>1, <1>2, <1>4 DEF Item
  <2> QED BY <1>4, <2>3, <2>4 DEF CallsOK
<1>8. GapOK'
  <2> SUFFICES ASSUME NEW r \in 1..run
               PROVE  IF r = run THEN Gap(r, saved.tools)' = One(calls'[Len(calls')].ran)
                      ELSE Gap(r, saved.tools)' \in {0, 1} /\ (Good(r)' => Gap(r, saved.tools)' = 0)
    BY <1>0 DEF GapOK
  <2>1. Ran(r, calls) \in Nat /\ Ran(r, saved.tools) \in Nat
    BY GapInt DEF HistoryOK
  <2>2. Gap(r, saved.tools) \in {0, 1} /\ (Good(r) => Gap(r, saved.tools) = 0)
    BY <1>0 DEF HistoryOK, GapOK
  <2>3. CASE r = run
    <3>1. Ran(r, calls') = Ran(r, calls) + One(x.ran)
      BY <1>1, <1>2, <1>3, <2>3, RanAppend
    <3>2. Ran(r, calls) - Ran(r, saved.tools) = 0
      BY <1>0, <2>2, <2>3 DEF Gap
    <3>3. One(x.ran) \in Nat
      BY DEF One
    <3>4. Ran(r, calls') - Ran(r, saved.tools) = One(x.ran)
      BY <2>1, <3>1, <3>2, <3>3
    <3> QED BY <1>4, <2>3, <3>4 DEF Gap
  <2>4. CASE r # run
    <3>1. Ran(r, calls') = Ran(r, calls)
      BY <1>1, <1>2, <1>3, <2>4, RanAppend
    <3>2. Gap(r, saved.tools)' = Gap(r, saved.tools)
      BY <3>1 DEF Gap
    <3> QED BY <1>6, <2>2, <2>4, <3>2
  <2> QED BY <2>3, <2>4
<1>9. AheadOK'
  BY <1>5 DEF AheadOK
<1>10. LastAre(n, session.tools)
  BY <1>0 DEF HistoryOK, LastOK
<1>11. \A i \in 1..n : Good(calls[i].run)' => Good(calls[i].run)
  <2> SUFFICES ASSUME NEW i \in 1..n PROVE Good(calls[i].run)' => Good(calls[i].run)
    OBVIOUS
  <2> QED BY <1>4 DEF Good
<1>12. LastOK'
  <2>1. n >= 1 => calls'[n] = calls[n]
    BY <1>3, <1>4
  <2>2. n >= 2 => calls'[n - 1] = calls[n - 1]
    BY <1>3, <1>4
  <2>3. Len(calls') - 1 = n /\ session'.tools = session.tools
    BY <1>3, <1>4
  <2> HIDE DEF n
  <2>4. LastAre(Len(calls) - 1, session.tools)'
    BY SMTT(30), <1>3, <1>10, <2>1, <2>2, <2>3 DEF LastAre, Good
  <2> QED BY <1>0, <2>4 DEF LastOK
<1>13. TripleOK'
  <2> SUFFICES ASSUME NEW i \in 1..(n - 1), Thrice(i)'
               PROVE  \E j \in {i, i + 1, i + 2} : ~Good(calls[j].run)'
    BY SMTT(30), <1>3, <1>4 DEF TripleOK
  <2>1. CASE i \in 1..(n - 2)
    <3>1. {i, i + 1, i + 2} \subseteq 1..n
      BY <1>3, <2>1
    <3>2. calls'[i] = calls[i] /\ calls'[i + 1] = calls[i + 1] /\ calls'[i + 2] = calls[i + 2]
      BY <1>4, <3>1
    <3>3. Thrice(i)
      BY <3>2 DEF Thrice
    <3>4. PICK j \in {i, i + 1, i + 2} : ~Good(calls[j].run)
      BY <2>1, <3>3 DEF HistoryOK, TripleOK
    <3> QED BY <1>11, <3>1, <3>4
  <2>2. CASE i = n - 1
    <3>1. /\ calls'[i] = calls[n - 1] /\ calls'[i + 1] = calls[n] /\ calls'[i + 2] = x
          /\ n - 1 \in 1..n /\ n \in 1..n /\ i + 1 = n
      BY <1>3, <1>4, <2>2
    <3>2. x.ran /\ calls[n].call = x.call /\ calls[n - 1].call = x.call
      BY <3>1 DEF Thrice
    <3>3. ~Repeated(x.call)
      BY <1>2, <3>2 DEF RepeatOK
    <3>4. SUFFICES ASSUME Good(calls[n - 1].run), Good(calls[n].run) PROVE FALSE
      BY <1>4, <3>1 DEF Good
    <3>5. m >= 2 /\ session.tools[m] = calls[n] /\ session.tools[m - 1] = calls[n - 1]
      BY <1>10, <3>1, <3>4 DEF LastAre
    <3>6. m \in Nat
      BY DEF StoreOK, Sessions
    <3>7. Repeated(x.call)
      <4>1. \A k \in (m - 1)..m : k = m - 1 \/ k = m
        BY <3>6
      <4>2. \A k \in (m - 1)..m : session.tools[k].call = x.call
        BY <3>2, <3>5, <4>1
      <4> QED BY <3>5, <4>2 DEF Repeated
    <3> QED BY <3>3, <3>7
  <2> QED BY SMTT(30), <1>3, <2>1, <2>2
<1> QED BY <1>7, <1>8, <1>9, <1>12, <1>13 DEF HistoryOK

\* The tool has returned: its item is on the way to the history, or lost with
\* the run that is cancelled.
LEMMA ExecutedHistory ==
    ASSUME HistoryOK, StoreOK, RunOK, ActionOK, TodoOK, Executed
    PROVE  HistoryOK'
<1> DEFINE n == Len(calls)
<1>0. /\ at = "executed" /\ Pending
      /\ UNCHANGED <<session, saved, run, outcome, calls>>
      /\ run \in 1..run /\ run \in 1..MaxRuns /\ run \in Nat /\ Good(run)
      /\ outcome[run] = "running"
  BY Bounds DEF Executed, At, InLoop, history, Pending, RunOK, Good
<1>1. [Next]_vars
  BY DEF Next, LoopStep
<1>2. \A r \in 1..run : Good(r)' => Good(r)
  BY <1>1, GoodStep
<1>3. session.tools = saved.tools
  BY <1>0, NotAhead DEF HistoryOK
<1>4. AheadOK'
  BY <1>0, <1>3 DEF AheadOK
<1>5. /\ calls \in Seq(Items) /\ n \in 1..n /\ calls # <<>>
      /\ calls[n] = Item(action) /\ calls[n].run = run
      /\ \A i \in 1..n : calls[i] \in Items /\ calls[i].run \in 1..run
  BY <1>0, CallsRuns, EmptySeq DEF HistoryOK, CallsOK
<1>6. \A i \in 1..n : Good(calls[i].run)' => Good(calls[i].run)
  <2> SUFFICES ASSUME NEW i \in 1..n PROVE Good(calls[i].run)' => Good(calls[i].run)
    OBVIOUS
  <2>1. PICK r \in 1..run : r = calls[i].run
    BY <1>5
  <2>2. Good(r)' => Good(r)
    BY <1>2
  <2> QED BY <1>0, <2>1, <2>2
<1>7. TripleOK'
  <2> SUFFICES ASSUME NEW i \in 1..(n - 2), Thrice(i)'
               PROVE  \E j \in {i, i + 1, i + 2} : ~Good(calls[j].run)'
    BY <1>0 DEF TripleOK
  <2>1. Thrice(i)
    BY <1>0 DEF Thrice
  <2>2. PICK j \in {i, i + 1, i + 2} : ~Good(calls[j].run)
    BY <2>1 DEF HistoryOK, TripleOK
  <2>3. j \in 1..n
    BY <1>5
  <2> QED BY <2>2, <2>3, <1>6
<1>8. CASE at' = "cancelled" /\ todo' = CancelCalls
  <2>1. ~Pending'
    <3>1. todo'[1].call \in Plain
      BY <1>8, Lists
    <3>2. \A d \in Plain : d \notin Records
      BY Kinds DEF AnyCall, Records, Record
    <3> QED BY <1>8, <3>1, <3>2 DEF Pending
  <2>2. \A r \in 1..run : r = run => ~Good(r)'
    BY <1>0, <1>8 DEF Good
  <2>3. CallsOK'
    BY <1>0, <2>1 DEF HistoryOK, CallsOK, RunsTo
  <2>4. GapOK'
    <3> SUFFICES ASSUME NEW r \in 1..run
                 PROVE  Gap(r, saved.tools)' \in {0, 1} /\ (Good(r)' => Gap(r, saved.tools)' = 0)
      BY <1>0, <2>1 DEF GapOK
    <3>1. Gap(r, saved.tools)' = Gap(r, saved.tools)
      BY <1>0 DEF Gap
    <3>2. CASE r = run
      BY <1>0, <2>2, <3>1, <3>2 DEF HistoryOK, GapOK, One
    <3>3. CASE r # run
      BY <1>2, <3>1, <3>3 DEF HistoryOK, GapOK
    <3> QED BY <3>2, <3>3
  <2>5. LastOK'
    <3>1. ~Good(calls[n].run)'
      BY <1>0, <1>5, <1>8 DEF Good
    <3>2. LastAre(n, session.tools)'
      BY <1>0, <3>1 DEF LastAre
    <3> QED BY <1>0, <2>1, <3>2 DEF LastOK
  <2> QED BY <1>4, <1>7, <2>3, <2>4, <2>5 DEF HistoryOK
<1>9. CASE at' = "loop" /\ todo' = ToolCalls
  <2>1. /\ todo' # <<>> /\ todo'[1].call = Record(Item(action))
        /\ todo'[1].call.item = calls[n] /\ todo'[1].call \in Records /\ Pending'
    BY <1>5, <1>9 DEF ToolCalls, Must, Records, Record, Pending
  <2>2. CallsOK'
    BY <1>0, <1>5, <1>9, <2>1 DEF HistoryOK, CallsOK, RunsTo
  <2>3. \A r \in 1..run : Good(r)' <=> Good(r)
    BY <1>0, <1>9 DEF Good
  <2>4. GapOK'
    <3> SUFFICES ASSUME NEW r \in 1..run
                 PROVE  IF r = run THEN Gap(r, saved.tools)' = One(calls'[Len(calls')].ran)
                        ELSE Gap(r, saved.tools)' \in {0, 1} /\ (Good(r)' => Gap(r, saved.tools)' = 0)
      BY <1>0, <2>1 DEF GapOK
    <3>1. Gap(r, saved.tools)' = Gap(r, saved.tools)
      BY <1>0 DEF Gap
    <3> QED BY <1>0, <2>3, <3>1 DEF HistoryOK, GapOK
  <2>5. LastOK'
    <3>1. LastAre(n - 1, session.tools)
      BY <1>0 DEF HistoryOK, LastOK
    <3>2. LastAre(n - 1, session.tools)'
      BY SMTT(30), <1>0, <1>5, <1>6, <3>1 DEF LastAre
    <3> QED BY <1>0, <2>1, <3>2 DEF LastOK
  <2> QED BY <1>4, <1>7, <2>2, <2>4, <2>5 DEF HistoryOK
<1> QED BY <1>8, <1>9 DEF Executed, FinishCancelled, Then

\* Only Gate lets a tool run.
LEMMA RepeatStep ==
    ASSUME RepeatOK, RunOK, TodoOK, [Next]_vars
    PROVE  RepeatOK'
<1>1. CASE at' \notin {"gate", "run"}
  BY <1>1 DEF RepeatOK
<1>2. CASE ModelAnswers
  <2>1. at' = "gate" => \E call \in Calls : action' = [call |-> call, ran |-> FALSE]
    BY <1>2 DEF ModelAnswers, FinishCancelled, Then
  <2>2. at' = "gate" => ~action'.ran
    BY <2>1
  <2>3. at' # "run"
    BY <1>2 DEF ModelAnswers, FinishCancelled, Then
  <2> QED BY <2>2, <2>3 DEF RepeatOK
<1>3. CASE Gate
  BY <1>3 DEF Gate, Then, InLoop, RepeatOK, Repeated
<1>4. CASE RequestStop \/ UNCHANGED vars
  BY <1>4 DEF RequestStop, vars, RepeatOK, Repeated
<1>5. CASE Perform \/ Fail
  <2>1. at \notin {"gate", "run"} /\ at' \in {at, "idle"}
    BY <1>5, NextCall DEF Perform, Fail, Return
  <2> QED BY <2>1, <1>1
<1>6. CASE Enter \/ Attempt \/ BuildPrompt \/ RequestModel \/ Executed \/ Finish \/ StopAtLimit
           \/ ReturnAnswer
  BY <1>1, <1>6 DEF Enter, Attempt, BuildPrompt, RequestModel, Executed, Finish, StopAtLimit,
                    ReturnAnswer, FinishCancelled, Then, Return
<1>7. CASE ModelFails \/ RunTool \/ Begin \/ Crash
  BY <1>1, <1>7 DEF ModelFails, RunTool, Begin, Crash, Then, Return
<1> QED BY <1>2, <1>3, <1>4, <1>5, <1>6, <1>7 DEF Next, LoopStep, WorldStep

\* Every step keeps the part about the history.
LEMMA HistoryStep ==
    ASSUME HistoryOK, RepeatOK, StoreOK, RunOK, TaskOK, ActionOK, TodoOK, [Next]_vars
    PROVE  HistoryOK'
<1>A. ASSUME UNCHANGED <<calls, session, saved, run>>, at # "executed", at' # "executed", todo = <<>>,
             todo' # <<>> => todo'[1].call \notin Records,
             \/ at \notin {"idle", "entry"}
             \/ at' \in {"idle", "entry"}
             \/ at' = "loop" /\ todo' # <<>> /\ todo'[1].call = Said
      PROVE  HistoryOK'
  <2>1. ~Pending /\ ~Pending'
    BY <1>A DEF Pending
  <2>2. \/ session.tools = saved.tools
        \/ at' \in {"idle", "entry"}
        \/ at' = "loop" /\ todo' # <<>> /\ todo'[1].call = Said
    BY <1>A, NotAhead DEF HistoryOK
  <2> QED BY <1>A, <2>1, <2>2, RestHistory
<1>B. ASSUME UNCHANGED <<calls, session, saved, run, at, todo, action, outcome>>
      PROVE  HistoryOK'
  <2>1. /\ Pending' = Pending /\ \A r : Good(r)' = Good(r)
    BY <1>B DEF Pending, Good
  <2>2. CallsOK' /\ GapOK'
    BY <1>B DEF HistoryOK, CallsOK, GapOK, RunsTo, Item, Pending, Good, Gap
  <2>3. AheadOK'
    BY <1>B DEF HistoryOK, AheadOK, AheadBy, Good, Gap
  <2>4. LastOK' /\ TripleOK'
    BY <1>B DEF HistoryOK, LastOK, LastAre, TripleOK, Thrice, Pending, Good
  <2> QED BY <2>2, <2>3, <2>4 DEF HistoryOK
<1>C. \A d \in Plain \cup {Said, Answered} : d \notin Records
  BY Kinds DEF AnyCall, Records, Record, Said, Answered
<1>1. CASE Perform
  BY <1>1, PerformHistory
<1>2. CASE Fail
  BY <1>2, FailHistory
<1>3. CASE Begin
  BY <1>3, BeginHistory
<1>4. CASE Crash
  BY <1>4, CrashHistory
<1>5. CASE Executed
  BY <1>5, ExecutedHistory
<1>6. CASE RunTool
  <2>1. /\ at = "run" /\ at' = "executed" /\ todo' = <<>> /\ action' = [action EXCEPT !.ran = TRUE]
        /\ calls' = Append(calls, Item(action')) /\ UNCHANGED <<session, saved, run, outcome>>
    BY <1>6 DEF RunTool, At, Then, InLoop
  <2>2. action' \in [call : Calls \cup {"none"}, ran : BOOLEAN] /\ action'.call = action.call
    BY <2>1 DEF ActionOK
  <2> QED BY <2>1, <2>2, CallHistory
<1>7. CASE Gate
  <2>1. CASE at' = "run"
    BY <1>7, <2>1, <1>A DEF Gate, At, Then, InLoop
  <2>2. CASE at' = "executed"
    <3>1. /\ at = "gate" /\ todo' = <<>> /\ action' = action
          /\ calls' = Append(calls, Item(action)) /\ UNCHANGED <<session, saved, run, outcome>>
      BY <1>7, <2>2 DEF Gate, At, Then, InLoop
    <3>2. Item(action') = Item(action) /\ (action'.ran => at = "run")
      BY <3>1 DEF RepeatOK
    <3>3. action' \in [call : Calls \cup {"none"}, ran : BOOLEAN] /\ action'.call = action.call
      BY <3>1 DEF ActionOK
    <3>4. calls' = Append(calls, Item(action'))
      BY <3>1, <3>2
    <3> QED BY <2>2, <3>1, <3>2, <3>3, <3>4, CallHistory
  <2> QED BY <1>7, <2>1, <2>2 DEF Gate, Then
<1>8. CASE Enter
  <2>1. /\ at = "entry" /\ todo = <<>> /\ UNCHANGED <<calls, session, saved, run>>
        /\ \/ at' = "idle" /\ todo' = <<>>
           \/ /\ at' = "loop"
              /\ todo' = <<Must(Said), Must(WriteTask), May(Trace("run_started"))>>
    BY <1>8 DEF Enter, At, Return, Then, InLoop, history
  <2>2. at' = "loop" => todo' # <<>> /\ todo'[1].call = Said
    BY <2>1 DEF Must
  <2> QED BY <2>1, <2>2, <1>A, <1>C
<1>9. CASE Attempt
  <2>1. /\ at = "loop" /\ todo = <<>> /\ UNCHANGED <<calls, session, saved, run>>
        /\ \/ at' = "cancelled" /\ todo' = CancelCalls
           \/ at' = "prompt" /\ todo' = <<Must(WriteTask)>>
    BY <1>9 DEF Attempt, At, FinishCancelled, Then, InLoop, history
  <2>2. todo'[1].call \in Plain
    BY <2>1, Lists DEF Must, Plain
  <2> QED BY <2>1, <2>2, <1>A, <1>C
<1>10. CASE BuildPrompt
  <2>1. /\ at = "prompt" /\ todo = <<>> /\ UNCHANGED <<calls, session, saved, run>>
        /\ at' = "request"
        /\ todo' = <<>> \/ todo' \in {Notice, Notice \o Notice}
    BY <1>10 DEF BuildPrompt, At, Then, history
  <2>2. todo' # <<>> => todo'[1].call \in Plain
    BY <2>1, Lists
  <2> QED BY <2>1, <2>2, <1>A, <1>C
<1>11. CASE RequestModel
  BY <1>11, <1>A DEF RequestModel, At, Then, InLoop
<1>12. CASE ModelFails
  BY <1>12, <1>A DEF ModelFails, At, Return, InLoop, history
<1>13. CASE ModelAnswers
  <2>1. /\ at = "model" /\ todo = <<>> /\ UNCHANGED <<calls, session, saved, run>>
        /\ \/ at' = "cancelled" /\ todo' = CancelCalls
           \/ at' = "gate" /\ todo' = <<>>
           \/ at' = "loop" /\ todo' = <<Must(Said), May(WriteTask)>>
           \/ at' = "answered" /\ todo' = <<Must(Answered)>>
    BY <1>13 DEF ModelAnswers, At, FinishCancelled, Then, InLoop, history
  <2>2. todo' # <<>> => todo'[1].call \in Plain \cup {Said, Answered}
    BY <2>1, Lists DEF Must
  <2> QED BY <2>1, <2>2, <1>A, <1>C
<1>14. CASE Finish
  <2>1. /\ at = "answered" /\ todo = <<>> /\ UNCHANGED <<calls, session, saved, run>>
        /\ at' = "finished" /\ todo' = FinalCalls
    BY <1>14 DEF Finish, At, Then, InLoop, history
  <2> QED BY <2>1, <1>A, <1>C, Lists
<1>15. CASE StopAtLimit
  <2>1. /\ at = "loop" /\ todo = <<>> /\ UNCHANGED <<calls, session, saved, run>>
        /\ at' = "finished" /\ todo' = LimitCalls
    BY <1>15 DEF StopAtLimit, At, Then, InLoop, history
  <2>2. todo'[1].call = Answered
    BY <2>1, Lists DEF Must
  <2> QED BY <2>1, <2>2, <1>A, <1>C
<1>16. CASE ReturnAnswer
  BY <1>16, <1>A DEF ReturnAnswer, At, Return, InLoop, history
<1>17. CASE RequestStop
  BY <1>17, <1>B DEF RequestStop, history
<1>18. CASE UNCHANGED vars
  BY <1>18, <1>B DEF vars, history
<1> QED BY <1>1, <1>2, <1>3, <1>4, <1>5, <1>6, <1>7, <1>8, <1>9, <1>10, <1>11, <1>12, <1>13,
           <1>14, <1>15, <1>16, <1>17, <1>18 DEF Next, LoopStep, WorldStep

\* What HistoryOK says is enough for SideEffectsKept.
LEMMA HistoryKept ==
    ASSUME HistoryOK, StoreOK, RunOK, TodoOK
    PROVE  SideEffectsKept
<1>1. ASSUME NEW r \in 1..run
      PROVE  Ran(r, calls) - Ran(r, saved.tools) \in IF outcome[r] = "answered" THEN {0} ELSE {0, 1}
  <2>1. CASE Pending /\ r = run
    <3>1. Gap(r, saved.tools) \in {0, 1}
      BY <2>1 DEF HistoryOK, GapOK, One
    <3>2. at # "idle"
      BY <2>1, NextCall DEF Pending
    <3>3. outcome[r] # "answered"
      BY <2>1, <3>2 DEF RunOK
    <3>4. Ran(r, calls) - Ran(r, saved.tools) \in {0, 1}
      BY <3>1 DEF Gap
    <3> QED BY <3>3, <3>4
  <2>2. CASE ~(Pending /\ r = run)
    BY <2>2 DEF HistoryOK, GapOK, Good, Gap
  <2> QED BY <2>1, <2>2
<1>2. ASSUME NEW i \in 1..(Len(calls) - 2),
             \A c \in {calls[j] : j \in i..(i + 2)} : c.ran /\ c.call = calls[i].call
      PROVE  \E c \in {calls[j] : j \in i..(i + 2)} : outcome[c.run] # "answered"
  <2>1. i \in i..(i + 2) /\ i + 1 \in i..(i + 2) /\ i + 2 \in i..(i + 2)
    OBVIOUS
  <2>2. Thrice(i)
    BY <1>2, <2>1 DEF Thrice
  <2>3. PICK j \in {i, i + 1, i + 2} : ~Good(calls[j].run)
    BY <2>2 DEF HistoryOK, TripleOK
  <2> QED BY <2>1, <2>3 DEF Good
<1> QED BY <1>1, <1>2 DEF SideEffectsKept

-----------------------------------------------------------------------------
(* The directory of a run *)

\* How the count of an event grows with a trace.
LEMMA CountAppend ==
    ASSUME NEW t \in Seq(Events), NEW x \in Events, NEW e
    PROVE  /\ CountIn(t, e) \in Nat
           /\ CountIn(Append(t, x), e) = IF x = e THEN CountIn(t, e) + 1 ELSE CountIn(t, e)
<1> DEFINE u == Append(t, x)
           A == {i \in DOMAIN t : t[i] = e}
           B == {i \in DOMAIN u : u[i] = e}
<1>1. /\ Len(t) \in Nat /\ DOMAIN t = 1..Len(t) /\ DOMAIN u = 1..(Len(t) + 1)
      /\ u[Len(t) + 1] = x /\ \A i \in 1..Len(t) : u[i] = t[i]
  OBVIOUS
<1>2. A \in SUBSET (1..Len(t)) /\ IsFiniteSet(1..Len(t))
  BY <1>1, FS_Interval
<1>3. IsFiniteSet(A) /\ Cardinality(A) \in Nat
  BY <1>2, FS_Subset, FS_CardinalityType
<1>4. Len(t) + 1 \notin A
  BY <1>1
<1>5. ASSUME x = e PROVE Cardinality(B) = Cardinality(A) + 1
  <2>1. B = A \cup {Len(t) + 1}
    BY <1>1, <1>5
  <2> HIDE DEF A, B
  <2> QED BY <2>1, <1>3, <1>4, FS_AddElement
<1>6. ASSUME x # e PROVE Cardinality(B) = Cardinality(A)
  <2>1. B = A
    BY <1>1, <1>6
  <2> QED BY <2>1
<1>7. CountIn(t, e) = Cardinality(A) /\ CountIn(u, e) = Cardinality(B)
  BY DEF CountIn
<1> HIDE DEF A, B
<1> QED BY <1>3, <1>5, <1>6, <1>7

\* An empty trace counts nothing.
LEMMA CountEmpty == \A e : CountIn(<<>>, e) = 0
<1> SUFFICES ASSUME NEW e PROVE CountIn(<<>>, e) = 0
  OBVIOUS
<1>1. {i \in DOMAIN <<>> : <<>>[i] = e} = {}
  OBVIOUS
<1> QED BY <1>1, FS_EmptySet DEF CountIn

\* Calls that neither end the story of a run nor count a tool.
Calm(c) == /\ c # WriteReport
           /\ \A e \in Closing \cup {"tool_executed"} : c # Trace(e)

\* The calls of a run that goes on are calm, but for the event of a tool.
LEMMA CalmCalls ==
    /\ Calm(WriteTask) /\ Calm(Checkpoint) /\ Calm(Said) /\ Calm(Answered)
    /\ Calm(Trace("run_started")) /\ Calm(Trace("checkpoint_created"))
    /\ \A c \in Records : Calm(c)
    /\ Trace("tool_executed") # WriteReport
    /\ \A e \in Closing : Trace("tool_executed") # Trace(e)
<1>1. WriteReport.op = "report" /\ \A e : Trace(e).op = "trace" /\ Trace(e).event = e
  BY DEF WriteReport, Trace
<1>2. \A c : c.op \notin {"report", "trace"} => Calm(c)
  BY <1>1 DEF Calm
<1>3. WriteTask.op = "write" /\ Checkpoint.op = "checkpoint" /\ Said.op = "say"
      /\ Answered.op = "answer" /\ \A c \in Records : c.op = "record"
  BY DEF WriteTask, Checkpoint, Said, Answered, Records, Record
<1>4. Calm(Trace("run_started")) /\ Calm(Trace("checkpoint_created"))
  BY <1>1 DEF Calm, Closing
<1>5. Trace("tool_executed") # WriteReport /\ \A e \in Closing : Trace("tool_executed") # Trace(e)
  BY <1>1 DEF Closing
<1> QED BY <1>2, <1>3, <1>4, <1>5

\* A step of a list leaves the rest of it.
LEMMA RestTail ==
    ASSUME NEW list \in Seq(Steps), Rest(list), todo \in Seq(Steps), todo # <<>>,
           todo' = Tail(todo)
    PROVE  Rest(list)'
<1>1. /\ Len(todo) \in Nat \ {0} /\ Len(todo') = Len(todo) - 1 /\ Len(list) \in Nat
      /\ \A i \in 1..(Len(todo) - 1) : todo'[i] = todo[i + 1]
  BY HeadTail
<1>2. ASSUME NEW i \in 1..Len(todo')
      PROVE  todo'[i] = list[Len(list) - Len(todo') + i]
  <2>1. i + 1 \in 1..Len(todo) /\ i \in 1..(Len(todo) - 1)
    BY <1>1
  <2>2. todo[i + 1] = list[Len(list) - Len(todo) + (i + 1)]
    BY <2>1 DEF Rest
  <2>3. Len(list) - Len(todo) + (i + 1) = Len(list) - Len(todo') + i
    BY <1>1, <2>1
  <2> QED BY <1>1, <2>1, <2>2, <2>3
<1> QED BY <1>1, <1>2 DEF Rest

\* A run that ends follows its list.
LEMMA PlansStep ==
    ASSUME PlansOK, StoreOK, RunOK, TaskOK, ActionOK, TodoOK, [Next]_vars
    PROVE  PlansOK'
<1>0. /\ CancelCalls \in Seq(Steps) /\ FinalCalls \in Seq(Steps) /\ LimitCalls \in Seq(Steps)
      /\ todo \in Seq(Steps)
  BY Lists DEF PlainTail, TodoOK
<1>A. ASSUME todo' = <<>> PROVE PlansOK'
  <2>1. Len(todo') = 0
    BY <1>A
  <2>2. \A L \in Seq(Steps) : Len(L) \in Nat
    OBVIOUS
  <2>3. Rest(CancelCalls)' /\ Rest(LimitCalls)' /\ Rest(FinalCalls)'
    BY <1>0, <2>1, <2>2 DEF Rest, CancelCalls, LimitCalls, FinalCalls
  <2>4. \A i \in 1..Len(todo') : FALSE
    BY <2>1
  <2> QED BY <2>3, <2>4 DEF PlansOK
<1>B. ASSUME todo # <<>>, todo' = Tail(todo), at' = at, task'.reason = task.reason
      PROVE  PlansOK'
  <2>1. /\ at = "cancelled" => Rest(CancelCalls)'
        /\ at = "finished" => IF task.reason \in Limits THEN Rest(LimitCalls)' ELSE Rest(FinalCalls)'
    BY <1>0, <1>B, RestTail DEF PlansOK
  <2>2. /\ Len(todo) \in Nat \ {0} /\ Len(todo') = Len(todo) - 1
        /\ \A i \in 1..(Len(todo) - 1) : todo'[i] = todo[i + 1]
    BY <1>B, NextCall
  <2>3. ASSUME ~Ending, NEW i \in 1..Len(todo')
        PROVE  /\ todo'[i].call # WriteReport
               /\ \A e \in Closing : todo'[i].call # Trace(e)
               /\ todo'[i].call = Trace("tool_executed") <=> at = "loop" /\ i = Len(todo') - 3
    <3>1. i + 1 \in 1..Len(todo) /\ todo'[i] = todo[i + 1]
      BY <2>2
    <3>2. i + 1 = Len(todo) - 3 <=> i = Len(todo') - 3
      BY <2>2
    <3> QED BY <2>3, <3>1, <3>2 DEF PlansOK
  <2> QED BY <1>B, <2>1, <2>3 DEF PlansOK, Ending
<1>C. ASSUME at' \notin {"loop", "finished", "cancelled"},
             \A i \in 1..Len(todo') : Calm(todo'[i].call)
      PROVE  PlansOK'
  BY <1>C DEF PlansOK, Calm, Ending
<1>D. ASSUME at' = "loop", Len(todo') \in 0..3,
             \A i \in 1..Len(todo') : Calm(todo'[i].call)
      PROVE  PlansOK'
  <2>1. \A i \in 1..Len(todo') : i # Len(todo') - 3
    BY <1>D
  <2> QED BY <1>D, <2>1 DEF PlansOK, Calm, Ending
<1>E. ASSUME UNCHANGED <<todo, at, task>> PROVE PlansOK'
  BY <1>E DEF PlansOK, Ending, Rest, CancelCalls, LimitCalls, FinalCalls
<1>F. ASSUME at' = "cancelled", todo' = CancelCalls PROVE PlansOK'
  <2>1. Len(todo') = 5 /\ CancelCalls' = CancelCalls
    BY <1>F, Lists DEF CancelCalls
  <2>2. Rest(CancelCalls)'
    BY <1>F, <2>1 DEF Rest
  <2> QED BY <1>F, <2>2 DEF PlansOK, Ending
<1>1. CASE Perform
  <2>1. /\ todo # <<>> /\ todo' = Tail(todo) /\ at' = at
        /\ at # "idle" /\ InMemory(todo[1].call) /\ todo[1].call \in AnyCall
    BY <1>1, NextCall DEF Perform
  <2>2. task'.reason = task.reason
    BY <2>1, Memory
  <2> QED BY <2>1, <2>2, <1>B
<1>2. CASE Fail
  <2>1. /\ todo # <<>> /\ at # "idle" /\ InMemory(todo[1].call) /\ todo[1].call \in AnyCall
        /\ todo' = <<>> \/ (todo' = Tail(todo) /\ at' = at)
    BY <1>2, NextCall DEF Fail, Return
  <2>2. task'.reason = task.reason
    BY <2>1, Memory
  <2> QED BY <2>1, <2>2, <1>A, <1>B
<1>3. CASE Begin \/ RequestModel \/ ModelFails \/ Gate \/ RunTool \/ ReturnAnswer \/ Crash
  BY <1>3, <1>A DEF Begin, At, RequestModel, ModelFails, Gate, RunTool, ReturnAnswer, Crash,
                    Then, Return
<1>4. CASE Enter
  <2>1. \/ todo' = <<>>
        \/ /\ todo' = <<Must(Said), Must(WriteTask), May(Trace("run_started"))>>
           /\ at' = "loop"
    BY <1>4 DEF Enter, Return, Then
  <2>2. ASSUME todo' = <<Must(Said), Must(WriteTask), May(Trace("run_started"))>>, at' = "loop"
        PROVE  PlansOK'
    <3>1. Len(todo') = 3 /\ \A i \in 1..3 : todo'[i].call \in {Said, WriteTask, Trace("run_started")}
      BY <2>2 DEF Must, May
    <3> QED BY <2>2, <3>1, <1>D, CalmCalls
  <2> QED BY <2>1, <2>2, <1>A
<1>5. CASE Attempt
  <2>1. \/ todo' = CancelCalls /\ at' = "cancelled"
        \/ todo' = <<Must(WriteTask)>> /\ at' = "prompt"
    BY <1>5 DEF Attempt, FinishCancelled, Then
  <2>2. ASSUME todo' = <<Must(WriteTask)>>, at' = "prompt" PROVE PlansOK'
    <3>1. \A i \in 1..Len(todo') : todo'[i].call = WriteTask
      BY <2>2 DEF Must
    <3> QED BY <2>2, <3>1, <1>C, CalmCalls
  <2> QED BY <2>1, <2>2, <1>F
<1>6. CASE BuildPrompt
  <2>1. /\ at' = "request"
        /\ todo' = <<>> \/ todo' \in {Notice, Notice \o Notice}
    BY <1>6 DEF BuildPrompt, Then
  <2>2. ASSUME todo' \in {Notice, Notice \o Notice} PROVE PlansOK'
    <3>1. todo' \in Seq(NoticeSteps)
      BY <2>2, Notices
    <3>2. \A i \in 1..Len(todo') : todo'[i] \in NoticeSteps
      BY <3>1
    <3>3. \A s \in NoticeSteps : Calm(s.call)
      BY CalmCalls DEF NoticeSteps, May
    <3> QED BY <2>1, <3>2, <3>3, <1>C
  <2> QED BY <2>1, <2>2, <1>A
<1>7. CASE ModelAnswers
  <2>1. \/ todo' = CancelCalls /\ at' = "cancelled"
        \/ todo' = <<>>
        \/ todo' = <<Must(Said), May(WriteTask)>> /\ at' = "loop"
        \/ todo' = <<Must(Answered)>> /\ at' = "answered"
    BY <1>7 DEF ModelAnswers, FinishCancelled, Then
  <2>2. ASSUME todo' = <<Must(Said), May(WriteTask)>>, at' = "loop" PROVE PlansOK'
    <3>1. Len(todo') = 2 /\ \A i \in 1..2 : todo'[i].call \in {Said, WriteTask}
      BY <2>2 DEF Must, May
    <3> QED BY <2>2, <3>1, <1>D, CalmCalls
  <2>3. ASSUME todo' = <<Must(Answered)>>, at' = "answered" PROVE PlansOK'
    <3>1. \A i \in 1..Len(todo') : todo'[i].call = Answered
      BY <2>3 DEF Must
    <3> QED BY <2>3, <3>1, <1>C, CalmCalls
  <2> QED BY <2>1, <2>2, <2>3, <1>A, <1>F
<1>8. CASE Executed
  <2>1. at = "executed" /\ Item(action) \in Items
    BY <1>8, Bounds DEF Executed, At, Item, Items, ActionOK, RunOK
  <2>2. \/ todo' = CancelCalls /\ at' = "cancelled"
        \/ todo' = ToolCalls /\ at' = "loop"
    BY <1>8 DEF Executed, FinishCancelled, Then
  <2>3. ASSUME todo' = ToolCalls, at' = "loop" PROVE PlansOK'
    <3>1. /\ Len(todo') = 6 /\ todo'[1].call \in Records
          /\ todo'[2].call = WriteTask /\ todo'[3].call = Trace("tool_executed")
          /\ todo'[4].call = Checkpoint /\ todo'[5].call = WriteTask
          /\ todo'[6].call = Trace("checkpoint_created")
      BY <2>1, <2>3 DEF ToolCalls, Must, May, Records
    <3>2. \A i \in {1, 2, 4, 5, 6} : Calm(todo'[i].call)
      BY <3>1, CalmCalls
    <3>3. \A i \in 1..6 : i \in {1, 2, 4, 5, 6} \/ i = 3
      OBVIOUS
    <3>4. ASSUME NEW i \in 1..6
          PROVE  /\ todo'[i].call # WriteReport
                 /\ \A e \in Closing : todo'[i].call # Trace(e)
                 /\ todo'[i].call = Trace("tool_executed") <=> i = 6 - 3
      <4>1. CASE i = 3
        BY <3>1, <4>1, CalmCalls
      <4>2. CASE i \in {1, 2, 4, 5, 6}
        BY <3>2, <4>2 DEF Calm
      <4> QED BY <3>3, <4>1, <4>2
    <3> QED BY <2>3, <3>1, <3>4 DEF PlansOK, Ending
  <2> QED BY <2>2, <2>3, <1>F
<1>9. CASE Finish
  <2>1. todo' = FinalCalls /\ at' = "finished" /\ task'.reason = "final_answer_returned"
    BY <1>9 DEF Finish, Then, TaskOK, Tasks
  <2>2. Len(todo') = 5 /\ FinalCalls' = FinalCalls
    BY <2>1, Lists DEF FinalCalls
  <2>3. Rest(FinalCalls)'
    BY <2>1, <2>2 DEF Rest
  <2> QED BY <2>1, <2>3 DEF PlansOK, Ending, Limits
<1>10. CASE StopAtLimit
  <2>1. todo' = LimitCalls /\ at' = "finished" /\ task'.reason \in Limits
    BY <1>10 DEF StopAtLimit, Then, TaskOK, Tasks, Limits
  <2>2. Len(todo') = 6 /\ LimitCalls' = LimitCalls
    BY <2>1, Lists DEF LimitCalls
  <2>3. Rest(LimitCalls)'
    BY <2>1, <2>2 DEF Rest
  <2> QED BY <2>1, <2>3 DEF PlansOK, Ending
<1>11. CASE RequestStop \/ UNCHANGED vars
  BY <1>11, <1>E DEF RequestStop, vars
<1> QED BY <1>1, <1>2, <1>3, <1>4, <1>5, <1>6, <1>7, <1>8, <1>9, <1>10, <1>11
        DEF Next, LoopStep, WorldStep

-----------------------------------------------------------------------------

\* DirectoryAgrees but for the outcome of the run: what a crash must leave intact.
OneStory ==
    /\ \A i \in DOMAIN trace : trace[i] \in Closing =>
          i = Len(trace) /\ file # Absent /\ file.reason # "running"
    /\ report # Absent =>
          /\ trace # <<>> /\ trace[Len(trace)] \in Closing
          /\ [file EXCEPT !.checkpoint = 0] = [report EXCEPT !.checkpoint = 0]
          /\ report.reason \notin Limits => file.checkpoint = report.checkpoint
          /\ report.tool_steps - Count("tool_executed") \in
                IF report.reason = "cancelled" THEN {0, 1} ELSE {0}

\* At every place of a run its files tell one story.
LEMMA StoryAgrees ==
    ASSUME TaskOK, StoreOK, RunOK, StoryOK, StepsOK, at # "idle"
    PROVE  OneStory
<1>0. /\ trace \in Seq(Events) /\ Len(trace) \in Nat /\ DOMAIN trace = 1..Len(trace)
      /\ task \in Tasks /\ task # Absent /\ task.reason \in Reasons
      /\ file \in Tasks \cup {Absent}
      /\ Count("tool_executed") = CountIn(trace, "tool_executed")
  BY AbsentAssumption DEF StoreOK, TaskOK, Count, CountIn, Tasks
<1>1. CASE ~Ending \/ Len(todo) >= 2
  <2>1. report = Absent /\ NoClosing(Len(trace))
    BY <1>1 DEF StoryOK, Ending, NoClosing
  <2>2. \A i \in DOMAIN trace : trace[i] \notin Closing
    BY <1>0, <2>1 DEF NoClosing
  <2> QED BY <2>1, <2>2 DEF OneStory
<1>2. CASE Ending /\ ~(Len(todo) >= 2)
  <2>0. Len(todo) < 2 \/ todo = <<>>
    BY <1>2
  <2>A. Len(todo) < 2 /\ Len(todo) <= 3 /\ Len(todo) <= 4
    BY <1>2, <2>0
  <2>1. trace # <<>> /\ NoClosing(Len(trace) - 1) /\ trace[Len(trace)] \in Closing
    BY <1>2, <2>A DEF StoryOK
  <2>2. /\ file # Absent /\ Unchecked(file) = Unchecked(task)
        /\ task.reason \notin Limits => file = task
    BY <1>0, <1>2, <2>A DEF StoryOK, AtLimit
  <2>3. task.reason # "running"
    BY <1>2 DEF TaskOK, Ending, Limits
  <2>4. file \in Tasks /\ file.reason = task.reason
    <3>1. file \in Tasks
      BY <1>0, <2>2
    <3>2. Unchecked(file).reason = file.reason /\ Unchecked(task).reason = task.reason
      BY <1>0, <3>1 DEF Unchecked, Tasks
    <3> QED BY <3>1, <3>2, <2>2
  <2>5. \A i \in DOMAIN trace : trace[i] \in Closing => i = Len(trace)
    BY <1>0, <2>1 DEF NoClosing
  <2>6. ASSUME report # Absent
        PROVE  /\ report = task
               /\ report.tool_steps - Count("tool_executed") \in
                     IF report.reason = "cancelled" THEN {0, 1} ELSE {0}
    <3>1. report = task
      BY <1>2, <2>6 DEF StoryOK
    <3>2. at = "cancelled" => Uncounted \in {0, 1}
      BY DEF StepsOK
    <3>3. at = "finished" => Uncounted = 0 /\ task.reason # "cancelled"
      BY DEF StepsOK, TaskOK, Limits
    <3>4. at = "cancelled" => task.reason = "cancelled"
      BY DEF TaskOK
    <3> QED BY <1>0, <1>2, <3>1, <3>2, <3>3, <3>4 DEF Uncounted, Ending
  <2> QED BY <2>1, <2>2, <2>3, <2>4, <2>5, <2>6 DEF OneStory, Unchecked
<1> QED BY <1>1, <1>2

\* The calls of a run that ends, by how many are left.
LEMMA EndingCalls ==
    ASSUME PlansOK, TodoOK, TaskOK, Ending, todo # <<>>
    PROVE  LET c == todo[1].call
               n == Len(todo)
           IN  /\ n \in 1..6
               /\ n >= 3 => c # WriteReport /\ \A e \in Closing : c # Trace(e)
               /\ n = 2 => \E e \in Closing : c = Trace(e)
               /\ n = 1 => c = WriteReport
               /\ c # Trace("tool_executed")
               /\ AtLimit /\ n = 5 => c = WriteTask
               /\ ~AtLimit /\ n = 4 => c = WriteTask
               /\ ~AtLimit /\ n <= 3 => c # Checkpoint
<1> DEFINE c == todo[1].call
           n == Len(todo)
           F(k) == /\ k >= 3 => c # WriteReport /\ \A e \in Closing : c # Trace(e)
                   /\ k = 2 => \E e \in Closing : c = Trace(e)
                   /\ k = 1 => c = WriteReport
                   /\ c # Trace("tool_executed")
<1>1. n \in Nat \ {0}
  BY NextCall
<1>2. /\ \A e, f : Trace(e) = Trace(f) => e = f
      /\ \A e : Trace(e) \notin {WriteReport, WriteTask, Checkpoint, Answered}
      /\ WriteReport \notin {WriteTask, Checkpoint, Answered}
      /\ WriteTask # Checkpoint
  <2>1. /\ \A e : Trace(e).op = "trace" /\ Trace(e).event = e
        /\ WriteReport.op = "report" /\ WriteTask.op = "write" /\ Checkpoint.op = "checkpoint"
        /\ Answered.op = "answer"
    BY DEF Trace, WriteReport, WriteTask, Checkpoint, Answered
  <2> QED BY <2>1
<1>3. "run_finished" \in Closing /\ "run_cancelled" \in Closing
      /\ "checkpoint_created" \notin Closing /\ "tool_executed" \notin Closing
  BY DEF Closing
<1>4. CASE at = "cancelled"
  <2>1. Rest(CancelCalls) /\ ~AtLimit
    BY <1>4 DEF PlansOK, AtLimit
  <2>2. n \in 1..5 /\ c = CancelCalls[5 - n + 1].call
    <3>1. Len(CancelCalls) = 5 /\ n <= 5
      BY <2>1, Lists DEF Rest
    <3>2. 1 \in 1..n
      BY <1>1
    <3>3. todo[1] = CancelCalls[Len(CancelCalls) - n + 1]
      BY <2>1, <3>2 DEF Rest
    <3>4. n \in 1..5
      <4> HIDE DEF n
      <4> QED BY <1>1, <3>1
    <3>5. c = CancelCalls[5 - n + 1].call
      BY <3>1, <3>3, Zenon
    <3> QED BY <3>4, <3>5
  <2>3. /\ n = 5 => c = Checkpoint
        /\ n = 4 => c = WriteTask
        /\ n = 3 => c = Trace("checkpoint_created")
        /\ n = 2 => c = Trace("run_cancelled")
        /\ n = 1 => c = WriteReport
    <3>1. /\ CancelCalls[1].call = Checkpoint
          /\ CancelCalls[2].call = WriteTask
          /\ CancelCalls[3].call = Trace("checkpoint_created")
          /\ CancelCalls[4].call = Trace("run_cancelled")
          /\ CancelCalls[5].call = WriteReport
      BY DEF CancelCalls, May, Must
    <3> HIDE DEF n, c
    <3> QED BY <2>2, <3>1
  <2> HIDE DEF c, n
  <2>4. n \in {1, 2, 3, 4, 5}
    BY <2>2
  <2>5. F(n)
    BY <2>3, <2>4, <1>2, <1>3
  <2>6. /\ n = 4 => c = WriteTask
        /\ n <= 3 => c # Checkpoint
    BY <2>3, <2>4, <1>2
  <2> QED BY <2>1, <2>2, <2>5, <2>6 DEF c, n
<1>5. CASE at = "finished" /\ ~AtLimit
  <2>1. Rest(FinalCalls)
    BY <1>5 DEF PlansOK, AtLimit
  <2>2. n \in 1..5 /\ c = FinalCalls[5 - n + 1].call
    <3>1. Len(FinalCalls) = 5 /\ n <= 5
      BY <2>1, Lists DEF Rest
    <3>2. 1 \in 1..n
      BY <1>1
    <3>3. todo[1] = FinalCalls[Len(FinalCalls) - n + 1]
      BY <2>1, <3>2 DEF Rest
    <3>4. n \in 1..5
      <4> HIDE DEF n
      <4> QED BY <1>1, <3>1
    <3>5. c = FinalCalls[5 - n + 1].call
      BY <3>1, <3>3, Zenon
    <3> QED BY <3>4, <3>5
  <2>3. /\ n = 5 => c = Checkpoint
        /\ n = 4 => c = WriteTask
        /\ n = 3 => c = Trace("checkpoint_created")
        /\ n = 2 => c = Trace("run_finished")
        /\ n = 1 => c = WriteReport
    <3>1. /\ FinalCalls[1].call = Checkpoint
          /\ FinalCalls[2].call = WriteTask
          /\ FinalCalls[3].call = Trace("checkpoint_created")
          /\ FinalCalls[4].call = Trace("run_finished")
          /\ FinalCalls[5].call = WriteReport
      BY DEF FinalCalls, May, Must
    <3> HIDE DEF n, c
    <3> QED BY <2>2, <3>1
  <2> HIDE DEF c, n
  <2>4. n \in {1, 2, 3, 4, 5}
    BY <2>2
  <2>5. F(n)
    BY <2>3, <2>4, <1>2, <1>3
  <2>6. /\ n = 4 => c = WriteTask
        /\ n <= 3 => c # Checkpoint
    BY <2>3, <2>4, <1>2
  <2> QED BY <1>5, <2>2, <2>5, <2>6 DEF c, n
<1>6. CASE at = "finished" /\ AtLimit
  <2>1. Rest(LimitCalls)
    BY <1>6 DEF PlansOK, AtLimit
  <2>2. n \in 1..6 /\ c = LimitCalls[6 - n + 1].call
    <3>1. Len(LimitCalls) = 6 /\ n <= 6
      BY <2>1, Lists DEF Rest
    <3>2. 1 \in 1..n
      BY <1>1
    <3>3. todo[1] = LimitCalls[Len(LimitCalls) - n + 1]
      BY <2>1, <3>2 DEF Rest
    <3>4. n \in 1..6
      <4> HIDE DEF n
      <4> QED BY <1>1, <3>1
    <3>5. c = LimitCalls[6 - n + 1].call
      BY <3>1, <3>3, Zenon
    <3> QED BY <3>4, <3>5
  <2>3. /\ n = 6 => c = Answered
        /\ n = 5 => c = WriteTask
        /\ n = 4 => c = Checkpoint
        /\ n = 3 => c = Trace("checkpoint_created")
        /\ n = 2 => c = Trace("run_finished")
        /\ n = 1 => c = WriteReport
    <3>1. /\ LimitCalls[1].call = Answered
          /\ LimitCalls[2].call = WriteTask
          /\ LimitCalls[3].call = Checkpoint
          /\ LimitCalls[4].call = Trace("checkpoint_created")
          /\ LimitCalls[5].call = Trace("run_finished")
          /\ LimitCalls[6].call = WriteReport
      BY DEF LimitCalls, May, Must
    <3> HIDE DEF n, c
    <3> QED BY <2>2, <3>1
  <2> HIDE DEF c, n
  <2>4. n \in {1, 2, 3, 4, 5, 6}
    BY <2>2
  <2>5. F(n)
    BY <2>3, <2>4, <1>2, <1>3
  <2>6. n = 5 => c = WriteTask
    BY <2>3
  <2> QED BY <1>6, <2>2, <2>5, <2>6 DEF c, n
<1> QED BY <1>4, <1>5, <1>6 DEF Ending

\* What a call changes in the directory.
StoreEffect(c) ==
    /\ file' = IF c = WriteTask THEN task ELSE file
    /\ report' = IF c = WriteReport THEN task ELSE report
    /\ trace' = IF \E e \in Events : c = Trace(e) THEN Append(trace, c.event) ELSE trace

\* A call that is made brings the files one step further.
LEMMA StoryPerform ==
    ASSUME Perform, TaskOK, StoreOK, RunOK, ActionOK, TodoOK, PlansOK, StoryOK, StepsOK
    PROVE  StoryOK' /\ StepsOK'
<1> DEFINE c == todo[1].call
           n == Len(todo)
           k == "tool_executed"
<1>1. /\ todo # <<>> /\ todo' = Tail(todo) /\ at' = at /\ at # "idle" /\ at # "entry"
      /\ at \notin {"model", "gate", "run", "executed"}
      /\ c \in AnyCall /\ InMemory(c) /\ Store(c)
      /\ n \in Nat \ {0} /\ Len(todo') = n - 1 /\ (todo' = <<>> <=> n = 1)
  BY NextCall DEF Perform
<1>2. StoreEffect(c)
  BY <1>1, Kinds DEF StoreEffect, Store
<1>3. /\ task' \in Tasks /\ task'.tool_steps = task.tool_steps /\ task'.reason = task.reason
      /\ c # Checkpoint => task' = task
      /\ Unchecked(task') = Unchecked(task)
  <2>1. /\ task' \in Tasks /\ task'.tool_steps = task.tool_steps /\ task'.reason = task.reason
        /\ task'.attempts = task.attempts
        /\ c # Checkpoint => task' = task
    BY <1>1, Memory
  <2>2. \A t \in Tasks : Unchecked(t) = [attempts |-> t.attempts, tool_steps |-> t.tool_steps,
                                        reason |-> t.reason, checkpoint |-> 0]
    BY DEF Unchecked, Tasks
  <2>3. task \in Tasks
    BY DEF TaskOK
  <2>4. Unchecked(task') = Unchecked(task)
    BY <2>1, <2>2, <2>3
  <2> QED BY <2>1, <2>4
<1>4. /\ trace \in Seq(Events) /\ Len(trace) \in Nat /\ task \in Tasks /\ task # Absent
      /\ CountIn(trace, k) \in Nat /\ task.tool_steps \in Nat
  <2>1. trace \in Seq(Events) /\ task \in Tasks
    BY DEF StoreOK, TaskOK
  <2>2. CountIn(trace, k) \in Nat
    BY <2>1, CountAppend DEF Events
  <2> QED BY <2>1, <2>2, AbsentAssumption, Bounds DEF Tasks
<1>5. ASSUME NEW e \in Events, c = Trace(e)
      PROVE  /\ trace' = Append(trace, e) /\ Len(trace') = Len(trace) + 1
             /\ trace'[Len(trace) + 1] = e
             /\ \A i \in 1..Len(trace) : trace'[i] = trace[i]
             /\ file' = file /\ report' = report /\ task' = task
             /\ CountIn(trace', k) = IF e = k THEN CountIn(trace, k) + 1 ELSE CountIn(trace, k)
  <2>1. /\ c.event = e /\ c # WriteTask /\ c # WriteReport /\ c # Checkpoint
    BY <1>5 DEF Trace, WriteTask, WriteReport, Checkpoint
  <2>2. trace' = Append(trace, e) /\ file' = file /\ report' = report
    BY <2>1, <1>2, <1>5 DEF StoreEffect
  <2> QED BY <2>1, <2>2, <1>3, <1>4, CountAppend
<1>6. ASSUME \A e \in Events : c # Trace(e)
      PROVE  trace' = trace
  BY <1>6, <1>2 DEF StoreEffect
<1>7. k \in Events /\ k \notin Closing /\ Closing \subseteq Events
  BY DEF Events, Closing
<1>8. Ending' = Ending /\ AtLimit' = AtLimit
  BY <1>1, <1>3 DEF Ending, AtLimit
<1>9. ASSUME \A e \in Closing : c # Trace(e), NoClosing(Len(trace))
      PROVE  NoClosing(Len(trace))'
  <2>1. CASE \E e \in Events : c = Trace(e)
    <3>1. PICK e \in Events : c = Trace(e)
      BY <2>1
    <3>2. e \notin Closing
      BY <1>9, <3>1
    <3>3. ASSUME NEW i \in 1..Len(trace') PROVE trace'[i] \notin Closing
      <4>1. CASE i \in 1..Len(trace)
        BY <4>1, <1>5, <3>1, <1>9, <1>4 DEF NoClosing
      <4>2. CASE i = Len(trace) + 1
        BY <4>2, <1>5, <3>1, <3>2
      <4> QED BY <4>1, <4>2, <1>5, <3>1, <1>4
    <3> QED BY <3>3 DEF NoClosing
  <2>2. CASE ~(\E e \in Events : c = Trace(e))
    BY <2>2, <1>6, <1>9 DEF NoClosing
  <2> QED BY <2>1, <2>2
<1>10. ASSUME c # Trace(k) PROVE Uncounted' = Uncounted
  <2>1. CountIn(trace', k) = CountIn(trace, k)
    <3>1. CASE \E e \in Events : c = Trace(e)
      BY <3>1, <1>5, <1>10
    <3>2. CASE ~(\E e \in Events : c = Trace(e))
      BY <3>2, <1>6
    <3> QED BY <3>1, <3>2
  <2> QED BY <2>1, <1>3 DEF Uncounted
<1>13. \A e : Trace(e) # WriteReport
  <2>1. WriteReport.op = "report" /\ \A e : Trace(e).op = "trace"
    BY DEF Trace, WriteReport
  <2> QED BY <2>1
<1>11. CASE ~Ending
  <2>1. /\ c # WriteReport /\ \A e \in Closing : c # Trace(e)
        /\ c = Trace(k) <=> at = "loop" /\ n = 4
    <3>1. 1 \in 1..n
      BY <1>1
    <3>2. 1 = n - 3 <=> n = 4
      BY <1>1
    <3> QED BY <1>11, <3>1, <3>2 DEF PlansOK
  <2>2. report = Absent /\ NoClosing(Len(trace))
    BY <1>11 DEF StoryOK
  <2>3. report' = Absent /\ NoClosing(Len(trace))'
    BY <2>1, <2>2, <1>2, <1>9 DEF StoreEffect
  <2>4. StoryOK'
    BY <2>3, <1>1, <1>8, <1>11 DEF StoryOK, AtLimit, Ending
  <2>5. StepsOK'
    <3>1. CASE c = Trace(k)
      <4>1. at = "loop" /\ n = 4 /\ Uncounted = 1
        BY <2>1, <3>1 DEF StepsOK, One
      <4>2. CountIn(trace', k) = CountIn(trace, k) + 1
        BY <3>1, <1>5, <1>7
      <4>3. task.tool_steps - CountIn(trace, k) = 1
        BY <4>1 DEF Uncounted
      <4>4. Uncounted' = task'.tool_steps - CountIn(trace', k)
        BY DEF Uncounted
      <4>5. Uncounted' = 0
        <5>1. \A a, b \in Nat : a - b = 1 => a - (b + 1) = 0
          OBVIOUS
        <5>2. task.tool_steps - (CountIn(trace, k) + 1) = 0
          BY <4>3, <5>1, <1>4
        <5> QED BY <4>2, <4>4, <5>2, <1>3, Zenon
      <4>6. at' = "loop" /\ Len(todo') = 3
        BY <4>1, <1>1
      <4> QED BY <4>5, <4>6 DEF StepsOK, One
    <3>2. CASE c # Trace(k)
      <4>1. Uncounted' = Uncounted
        BY <3>2, <1>10
      <4>2. at = "loop" => (n >= 4 <=> n - 1 >= 4)
        BY <2>1, <3>2, <1>1
      <4> QED BY <4>1, <4>2, <1>1 DEF StepsOK, One
    <3> QED BY <3>1, <3>2
  <2> QED BY <2>4, <2>5
<1>12. CASE Ending
  <2>1. /\ n \in 1..6
        /\ n >= 3 => c # WriteReport /\ \A e \in Closing : c # Trace(e)
        /\ n = 2 => \E e \in Closing : c = Trace(e)
        /\ n = 1 => c = WriteReport
        /\ c # Trace(k)
        /\ AtLimit /\ n = 5 => c = WriteTask
        /\ ~AtLimit /\ n = 4 => c = WriteTask
        /\ ~AtLimit /\ n <= 3 => c # Checkpoint
    BY <1>1, <1>12, EndingCalls
  <2>2. StepsOK'
    BY <2>1, <1>10, <1>1, <1>12 DEF StepsOK, Ending
  <2>3. report = Absent
    BY <1>1, <1>12 DEF StoryOK
  <2>4. n >= 2 => NoClosing(Len(trace))
    BY <1>12 DEF StoryOK
  <2>5. IF n = 1 THEN report' = task' ELSE report' = Absent
    <3>1. CASE n = 1
      <4>1. c = WriteReport /\ c # Checkpoint
        BY <2>1, <3>1 DEF WriteReport, Checkpoint
      <4> QED BY <3>1, <4>1, <1>2, <1>3 DEF StoreEffect
    <3>2. CASE n # 1
      <4>1. c # WriteReport
        <5>1. CASE n = 2
          BY <5>1, <2>1, <1>13
        <5>2. CASE n >= 3
          BY <5>2, <2>1
        <5> QED BY SMTT(30), <3>2, <5>1, <5>2, <2>1
      <4> QED BY <3>2, <4>1, <2>3, <1>2 DEF StoreEffect
    <3> QED BY <3>1, <3>2
  <2>6. n >= 3 => NoClosing(Len(trace))'
    BY <2>1, <2>4, <1>9
  <2>7. n < 3 => trace' # <<>> /\ NoClosing(Len(trace) - 1)' /\ trace'[Len(trace')] \in Closing
    <3>1. CASE n = 2
      <4>1. PICK e \in Closing : c = Trace(e)
        BY <2>1, <3>1
      <4>2. /\ Len(trace') = Len(trace) + 1 /\ trace'[Len(trace) + 1] = e
            /\ \A i \in 1..Len(trace) : trace'[i] = trace[i]
            /\ trace' = Append(trace, e)
        BY <4>1, <1>5, <1>7
      <4>3. \A i \in 1..Len(trace) : trace[i] \notin Closing
        BY <2>4, <3>1, <1>4 DEF NoClosing
      <4>4. NoClosing(Len(trace) - 1)'
        BY <4>2, <4>3, <1>4 DEF NoClosing
      <4>5. trace' # <<>>
        BY <4>2, <1>4
      <4> QED BY <4>1, <4>2, <4>4, <4>5
    <3>2. CASE n = 1
      <4>1. trace # <<>> /\ NoClosing(Len(trace) - 1) /\ trace[Len(trace)] \in Closing
        BY <3>2, <1>12 DEF StoryOK
      <4>2. trace' = trace
        BY <3>2, <2>1, <1>6, <1>13
      <4>3. NoClosing(Len(trace) - 1)'
        BY <4>1, <4>2 DEF NoClosing
      <4>4. trace' # <<>> /\ trace'[Len(trace')] \in Closing
        BY <4>1, <4>2
      <4> QED BY <4>3, <4>4, Zenon
    <3>3. n < 3 => n = 1 \/ n = 2
      <4> HIDE DEF n, c
      <4> QED BY <2>1
    <3> QED BY <3>1, <3>2, <3>3
  <2>8. AtLimit /\ n - 1 <= 4 => file' # Absent /\ Unchecked(file') = Unchecked(task')
    <3>1. CASE c = WriteTask
      BY <3>1, <1>2, <1>3, <1>4 DEF StoreEffect
    <3>2. CASE c # WriteTask /\ AtLimit /\ n <= 4
      <4>1. file' = file /\ file # Absent /\ Unchecked(file) = Unchecked(task)
        BY <3>2, <1>2, <1>12 DEF StoreEffect, StoryOK
      <4> QED BY <4>1, <1>3
    <3>3. n - 1 <= 4 /\ AtLimit => n <= 4 \/ c = WriteTask
      <4> HIDE DEF n, c
      <4> QED BY <2>1
    <3> QED BY <3>1, <3>2, <3>3
  <2>9. ~AtLimit /\ n - 1 <= 3 => file' = task'
    <3>1. CASE c = WriteTask
      <4>1. c # Checkpoint
        BY <3>1 DEF WriteTask, Checkpoint
      <4> QED BY <3>1, <4>1, <1>2, <1>3 DEF StoreEffect
    <3>2. CASE c # WriteTask /\ ~AtLimit /\ n <= 3
      <4>1. file' = file /\ file = task
        BY <3>2, <1>2, <1>12 DEF StoreEffect, StoryOK
      <4> QED BY <4>1, <3>2, <2>1, <1>3
    <3>3. n - 1 <= 3 /\ ~AtLimit => n <= 3 \/ c = WriteTask
      <4> HIDE DEF n, c
      <4> QED BY <2>1
    <3> QED BY <3>1, <3>2, <3>3
  <2>10. StoryOK'
    <3>1. /\ Len(todo') >= 2 <=> n >= 3
          /\ Len(todo') < 2 <=> n < 3
          /\ Len(todo') <= 4 <=> n - 1 <= 4
          /\ Len(todo') <= 3 <=> n - 1 <= 3
          /\ todo' = <<>> <=> n = 1
      BY <1>1
    <3> HIDE DEF n, c
    <3>2. Ending' /\ at' # "entry" /\ AtLimit' = AtLimit
      BY <1>1, <1>8, <1>12
    <3>3. IF todo' = <<>> THEN report' = task' ELSE report' = Absent
      BY <3>1, <2>5
    <3> QED BY <3>1, <3>2, <3>3, <2>6, <2>7, <2>8, <2>9 DEF StoryOK, Unchecked
  <2> QED BY <2>2, <2>10
<1> QED BY <1>11, <1>12

\* A step between two calls leaves the files alone, and starts the end of a run with at
\* least five calls to make.
LEMMA StoryMoves ==
    ASSUME StoryOK, StoreOK, ~Ending, at # "idle", UNCHANGED directory,
           at' \notin {"idle", "entry"}, Ending' => todo' # <<>> /\ Len(todo') >= 5
    PROVE  StoryOK'
<1>1. report' = Absent /\ NoClosing(Len(trace))'
  BY DEF StoryOK, directory, NoClosing
<1>2. CASE ~Ending'
  BY <1>1, <1>2 DEF StoryOK, AtLimit, Ending
<1>3. CASE Ending'
  <2>1. ~(Len(todo') < 2) /\ ~(Len(todo') <= 4) /\ ~(Len(todo') <= 3)
    <3>1. ASSUME Len(todo') \in Nat PROVE ~(Len(todo') < 2) /\ ~(Len(todo') <= 4) /\ ~(Len(todo') <= 3)
      BY <1>3, <3>1
    <3> QED BY <1>3, <3>1
  <2> QED BY <1>1, <1>3, <2>1 DEF StoryOK
<1> QED BY <1>2, <1>3

\* A crash, perhaps in the middle of a replacement, leaves one story: the state is not
\* replaced any more when the trace is closed, and the report is the last call.
LEMMA CrashStory ==
    ASSUME Crash, TaskOK, StoreOK, RunOK, ActionOK, TodoOK, PlansOK, StoryOK, StepsOK
    PROVE  OneStory'
<1>1. /\ at # "idle" /\ trace' = trace
      /\ file' \in {file, Absent} /\ report' \in {report, Absent}
      /\ todo = <<>> => UNCHANGED <<file, report>>
      /\ todo # <<>> /\ todo[1].call # WriteTask => file' = file
  <2>1. todo # <<>> => /\ Head(todo) = todo[1]
                       /\ todo[1].call.op = "write" <=> todo[1].call = WriteTask
    BY NextCall, Kinds
  <2>2. Said.op \notin {"write", "report"}
    BY DEF Said
  <2> QED BY <2>1, <2>2 DEF Crash, HalfReplaced
<1>2. OneStory
  BY <1>1, StoryAgrees
<1>3. CASE todo = <<>>
  BY <1>1, <1>2, <1>3 DEF OneStory, Count
<1>4. CASE todo # <<>> /\ ~(Ending /\ Len(todo) < 2)
  <2>1. Len(todo) \in Nat
    BY <1>4, NextCall
  <2>2. report = Absent /\ NoClosing(Len(trace))
    BY <1>4, <2>1 DEF StoryOK
  <2>3. report' = Absent /\ \A i \in DOMAIN trace' : trace'[i] \notin Closing
    <3>1. trace \in Seq(Events) /\ DOMAIN trace = 1..Len(trace) /\ Len(trace) \in Nat
      BY DEF StoreOK
    <3> QED BY <1>1, <2>2, <3>1 DEF NoClosing
  <2> QED BY <2>3 DEF OneStory
<1>5. CASE todo # <<>> /\ Ending /\ Len(todo) < 2
  <2>1. todo[1].call = WriteReport
    <3>1. Len(todo) \in Nat \ {0}
      BY <1>5, NextCall
    <3>2. \A m \in Nat \ {0} : m < 2 => m = 1
      OBVIOUS
    <3>3. Len(todo) = 1
      BY <1>5, <3>1, <3>2, Zenon
    <3> QED BY <1>5, <3>3, EndingCalls
  <2>2. todo[1].call # WriteTask
    BY <2>1 DEF WriteTask, WriteReport
  <2>3. report = Absent
    BY <1>5 DEF StoryOK
  <2>4. file' = file /\ report' = Absent
    BY <1>1, <1>5, <2>2, <2>3
  <2> QED BY <1>1, <1>2, <2>4 DEF OneStory
<1> QED BY <1>3, <1>4, <1>5

\* Every step keeps the part about the directory.
LEMMA DirectoryStep ==
    ASSUME TaskOK, StoreOK, RunOK, ActionOK, TodoOK, PlansOK, DirectoryOK, TodoOK',
           [Next]_vars
    PROVE  DirectoryOK'
<1> DEFINE k == "tool_executed"
<1>1. CASE Fail
  BY <1>1 DEF Fail, DirectoryOK
<1>2. CASE Begin
  <2>1. /\ at' = "entry" /\ file' = Absent /\ report' = Absent /\ trace' = <<>> /\ task' = NewTask
    BY <1>2 DEF Begin
  <2>2. \A i \in 1..Len(trace') : FALSE
    BY <2>1
  <2>3. StoryOK'
    BY <2>1, <2>2 DEF StoryOK, NoClosing, Ending, AtLimit
  <2>4. Uncounted' = 0
    BY <2>1, CountEmpty DEF Uncounted, NewTask
  <2>5. StepsOK'
    BY <2>1, <2>4 DEF StepsOK
  <2> QED BY <2>1, <2>3, <2>5 DEF DirectoryOK
<1>3. ASSUME ~Fail, ~Begin, ~faulty, at # "idle" PROVE DirectoryOK'
  <2>0. /\ CancelCalls # <<>> /\ Len(CancelCalls) >= 5
        /\ FinalCalls # <<>> /\ Len(FinalCalls) >= 5
        /\ LimitCalls # <<>> /\ Len(LimitCalls) >= 5
    BY DEF CancelCalls, FinalCalls, LimitCalls
  <2>1. StoryOK /\ StepsOK
    BY <1>3 DEF DirectoryOK
  <2>2. OneStory
    BY <1>3, <2>1, StoryAgrees
  <2>3. run \in 1..MaxRuns /\ outcome \in [1..MaxRuns -> Outcomes]
    BY <1>3, Bounds DEF RunOK
  \* A step inside a run that leaves its directory alone.
  <2>4. ASSUME UNCHANGED directory, StoryOK', StepsOK', at' # "idle" PROVE DirectoryOK'
    BY <2>4 DEF DirectoryOK
  \* The end of a run.
  <2>5. ASSUME at' = "idle", NEW how \in Outcomes, outcome' = [outcome EXCEPT ![run] = how],
               UNCHANGED run, OneStory', how = "answered" => report' # Absent,
               how = "cancelled" /\ report' = Absent => file' = Absent
        PROVE  DirectoryOK'
    <3>1. outcome'[run'] = how
      BY <2>3, <2>5
    <3> QED BY <2>5, <3>1 DEF DirectoryOK, DirectoryAgrees, OneStory
  <2>6. UNCHANGED directory => UNCHANGED <<file, report, trace>> /\ (OneStory => OneStory')
                               /\ (task'.tool_steps = task.tool_steps => Uncounted' = Uncounted)
    BY DEF directory, OneStory, Count, Uncounted
  <2>7. CASE Perform
    <3>1. StoryOK' /\ StepsOK' /\ at' = at
      BY <2>1, <2>7, StoryPerform DEF Perform
    <3> QED BY <1>3, <3>1 DEF DirectoryOK
  <2>8. CASE Crash
    <3>1. OneStory'
      BY <2>1, <2>8, CrashStory
    <3> QED BY <2>8, <2>5, <3>1 DEF Crash, Return, Outcomes
  <2>9. CASE Enter
    <3>1. at = "entry" /\ UNCHANGED <<directory, task, run>>
      BY <2>9 DEF Enter, At, InLoop
    <3>2. Uncounted = 0 /\ file = Absent
      BY <2>1, <3>1 DEF StepsOK, StoryOK
    <3>3. CASE Return("cancelled")
      BY <3>1, <3>2, <3>3, <2>2, <2>5, <2>6 DEF Return, Outcomes
    <3>4. CASE ~Return("cancelled")
      <4>1. at' = "loop" /\ Len(todo') = 3
        BY <2>9, <3>4 DEF Enter, Then
      <4>2. StoryOK'
        BY <2>1, <3>1, <4>1, StoryMoves DEF Ending
      <4>3. StepsOK'
        BY <3>1, <3>2, <4>1, <2>6 DEF StepsOK, One
      <4> QED BY <3>1, <4>1, <4>2, <4>3, <2>4
    <3> QED BY <3>3, <3>4
  <2>10. CASE Attempt
    <3>1. /\ at = "loop" /\ todo = <<>> /\ UNCHANGED directory
          /\ task'.tool_steps = task.tool_steps
          /\ \/ todo' = CancelCalls /\ at' = "cancelled"
             \/ at' = "prompt"
      BY <2>10 DEF Attempt, At, InLoop, FinishCancelled, Then, RecordAttempt, TaskOK, Tasks
    <3>2. StoryOK'
      BY <2>1, <2>0, <3>1, StoryMoves DEF Ending
    <3>3. Uncounted' = 0
      BY <2>1, <2>6, <3>1 DEF StepsOK, One
    <3>4. StepsOK'
      BY <3>1, <3>3 DEF StepsOK
    <3> QED BY <3>1, <3>2, <3>4, <2>4
  <2>11. CASE BuildPrompt \/ RequestModel
    <3>1. /\ at \in {"prompt", "request"} /\ at' \in {"request", "model"}
          /\ UNCHANGED <<directory, task>>
      BY <2>11 DEF BuildPrompt, RequestModel, At, InLoop, Then
    <3>2. StoryOK'
      BY <2>1, <3>1, StoryMoves DEF Ending
    <3>3. Uncounted' = 0
      BY <2>1, <2>6, <3>1 DEF StepsOK
    <3>4. StepsOK'
      BY <3>1, <3>3 DEF StepsOK
    <3> QED BY <3>1, <3>2, <3>4, <2>4
  <2>12. CASE ModelFails
    BY <2>12, <2>2, <2>5, <2>6 DEF ModelFails, Return, InLoop, Outcomes
  <2>13. CASE ModelAnswers
    <3>1. /\ at = "model" /\ UNCHANGED directory
          /\ \/ todo' = CancelCalls /\ at' = "cancelled" /\ task'.tool_steps = task.tool_steps
             \/ at' = "gate" /\ task'.tool_steps = task.tool_steps + 1
             \/ at' = "loop" /\ Len(todo') = 2 /\ task' = task
             \/ at' = "answered" /\ task' = task
      BY <2>13 DEF ModelAnswers, At, InLoop, FinishCancelled, Then, TaskOK, Tasks
    <3>2. StoryOK'
      BY <2>1, <2>0, <3>1, StoryMoves DEF Ending
    <3>3. Uncounted = 0 /\ task.tool_steps \in Nat /\ CountIn(trace, k) \in Nat
          /\ trace' = trace
      <4>1. trace \in Seq(Events) /\ task \in Tasks /\ k \in Events
        BY DEF StoreOK, TaskOK, Events
      <4>2. CountIn(trace, k) \in Nat
        BY <4>1, CountAppend
      <4> QED BY <2>1, <2>6, <3>1, <4>1, <4>2, Bounds DEF StepsOK, Tasks
    <3>4. Uncounted' = IF at' = "gate" THEN 1 ELSE 0
      <4>1. CASE at' = "gate"
        <5>1. \A a, b \in Nat : a - b = 0 => (a + 1) - b = 1
          OBVIOUS
        <5>2. (task.tool_steps + 1) - CountIn(trace, k) = 1
          BY <3>3, <5>1 DEF Uncounted
        <5>3. Uncounted' = task'.tool_steps - CountIn(trace', k)
          BY DEF Uncounted
        <5>4. task'.tool_steps = task.tool_steps + 1
          BY <3>1, <4>1
        <5>5. Uncounted' = 1
          BY <3>3, <5>2, <5>3, <5>4, Zenon
        <5> QED BY <4>1, <5>5
      <4>2. CASE at' # "gate"
        BY <2>6, <3>1, <3>3, <4>2
      <4> QED BY <4>1, <4>2
    <3>5. StepsOK'
      <4>1. at' = "loop" => One(Len(todo') >= 4) = 0
        <5>1. at' = "loop" => Len(todo') = 2
          BY <3>1
        <5>2. One(2 >= 4) = 0
          BY DEF One
        <5> QED BY <5>1, <5>2, Zenon
      <4> QED BY <3>1, <3>4, <4>1 DEF StepsOK
    <3> QED BY <3>1, <3>2, <3>5, <2>4
  <2>14. CASE Gate \/ RunTool
    <3>1. /\ at \in {"gate", "run"} /\ at' \in {"run", "executed"} /\ UNCHANGED <<directory, task>>
      BY <2>14 DEF Gate, RunTool, At, InLoop, Then
    <3>2. StoryOK'
      BY <2>1, <3>1, StoryMoves DEF Ending
    <3>3. Uncounted' = 1
      BY <2>1, <2>6, <3>1 DEF StepsOK
    <3>4. StepsOK'
      BY <3>1, <3>3 DEF StepsOK
    <3> QED BY <3>1, <3>2, <3>4, <2>4
  <2>15. CASE Executed
    <3>1. /\ at = "executed" /\ UNCHANGED directory /\ task'.tool_steps = task.tool_steps
          /\ \/ todo' = CancelCalls /\ at' = "cancelled"
             \/ at' = "loop" /\ Len(todo') = 6
      BY <2>15 DEF Executed, At, InLoop, FinishCancelled, Then, ToolCalls, TaskOK, Tasks
    <3>2. StoryOK'
      BY <2>1, <2>0, <3>1, StoryMoves DEF Ending
    <3>3. Uncounted' = 1
      BY <2>1, <2>6, <3>1 DEF StepsOK
    <3>4. StepsOK'
      <4>1. at' = "loop" => One(Len(todo') >= 4) = 1
        <5>1. at' = "loop" => Len(todo') = 6
          BY <3>1
        <5>2. One(6 >= 4) = 1
          BY DEF One
        <5> QED BY <5>1, <5>2, Zenon
      <4> QED BY <3>1, <3>3, <4>1 DEF StepsOK
    <3> QED BY <3>1, <3>2, <3>4, <2>4
  <2>16. CASE Finish \/ StopAtLimit
    <3>1. /\ at \in {"answered", "loop"} /\ todo = <<>> /\ UNCHANGED directory
          /\ task'.tool_steps = task.tool_steps
          /\ at' = "finished" /\ todo' \in {FinalCalls, LimitCalls}
      BY <2>16 DEF Finish, StopAtLimit, At, InLoop, Then, TaskOK, Tasks
    <3>2. StoryOK'
      BY <2>1, <2>0, <3>1, StoryMoves DEF Ending
    <3>3. Uncounted' = 0
      BY <2>1, <2>6, <3>1 DEF StepsOK, One
    <3>4. StepsOK'
      BY <3>1, <3>3 DEF StepsOK
    <3> QED BY <3>1, <3>2, <3>4, <2>4
  <2>17. CASE ReturnAnswer
    <3>1. /\ Ending /\ todo = <<>> /\ UNCHANGED <<directory, run>>
          /\ at' = "idle"
          /\ \E how \in {"answered", "cancelled"} : outcome' = [outcome EXCEPT ![run] = how]
      BY <2>17 DEF ReturnAnswer, At, InLoop, Return, Ending
    <3>2. report # Absent
      BY <2>1, <3>1, AbsentAssumption DEF StoryOK, TaskOK
    <3>3. PICK how \in {"answered", "cancelled"} : outcome' = [outcome EXCEPT ![run] = how]
      BY <3>1
    <3> QED BY <3>1, <3>2, <3>3, <2>2, <2>5, <2>6 DEF Outcomes
  <2>18. CASE RequestStop \/ UNCHANGED vars
    <3>1. UNCHANGED <<file, report, trace, at, todo, task, faulty>> /\ UNCHANGED directory
      BY <2>18 DEF RequestStop, vars, directory
    <3>2. StoryOK'
      BY <2>1, <3>1 DEF StoryOK, AtLimit, Ending, NoClosing, Unchecked
    <3>3. StepsOK'
      BY <2>1, <3>1 DEF StepsOK, Uncounted, One
    <3> QED BY <1>3, <3>1, <3>2, <3>3, <2>4
  <2> QED BY <1>3, <2>7, <2>8, <2>9, <2>10, <2>11, <2>12, <2>13, <2>14, <2>15, <2>16, <2>17, <2>18
          DEF Next, LoopStep, WorldStep
<1>4. ASSUME ~Fail, ~Begin, faulty PROVE DirectoryOK'
  <2>1. faulty'
    BY <1>4 DEF Next, LoopStep, WorldStep, Perform, Enter, Attempt, BuildPrompt, RequestModel, Gate,
                Executed, Finish, StopAtLimit, ReturnAnswer, ModelFails, ModelAnswers, RunTool,
                RequestStop, Crash, InLoop, vars
  <2> QED BY <2>1 DEF DirectoryOK
<1>5. ASSUME ~Fail, ~Begin, at = "idle" PROVE DirectoryOK'
  <2>1. todo = <<>>
    BY <1>5 DEF TodoOK
  <2>2. UNCHANGED vars
    BY <1>5, <2>1 DEF Next, LoopStep, WorldStep, Perform, Enter, Attempt, BuildPrompt, RequestModel,
                Gate, Executed, Finish, StopAtLimit, ReturnAnswer, ModelFails, ModelAnswers, RunTool,
                RequestStop, Crash, At
  <2> QED BY <1>5, <2>2 DEF DirectoryOK, DirectoryAgrees, Count, vars, directory
<1>6. faulty \in BOOLEAN
  BY DEF RunOK
<1> QED BY <1>1, <1>2, <1>3, <1>4, <1>5, <1>6

-----------------------------------------------------------------------------
(* The theorems *)

\* The inductive invariant.
IInv == /\ TaskOK /\ StoreOK /\ RunOK /\ ActionOK /\ TodoOK /\ AnswerOK /\ StopOK
        /\ HistoryOK /\ RepeatOK /\ PlansOK /\ DirectoryOK

\* It holds at first.
LEMMA InitIInv == Init => IInv
<1> SUFFICES ASSUME Init PROVE IInv
  OBVIOUS
<1>1. /\ at = "idle" /\ todo = <<>> /\ Len(todo) = 0 /\ run = 0 /\ calls = <<>>
      /\ trace = <<>> /\ file = Absent /\ report = Absent /\ task = NewTask /\ ~faulty
      /\ session.tools = <<>> /\ saved.tools = <<>> /\ saved = session /\ Len(calls) = 0
      /\ session.answers = {} /\ session.checkpoint = 0 /\ stop = FALSE /\ late = 0
      /\ action = NoAction
  BY DEF Init
<1>2. TaskOK
  BY <1>1, NewTaskOK DEF TaskOK, NewTask
<1>3. StoreOK
  <2>1. session \in Sessions
    BY DEF Init, Sessions
  <2> QED BY <1>1, <2>1 DEF StoreOK
<1>4. RunOK
  <2>1. outcome \in [1..MaxRuns -> Outcomes] /\ run \in 0..MaxRuns
    BY Bounds DEF Init, Outcomes
  <2>2. stop \in BOOLEAN /\ faulty \in BOOLEAN
    BY DEF Init
  <2> QED BY <1>1, <2>1, <2>2 DEF RunOK, Places
<1>5. ActionOK /\ TodoOK /\ StopOK /\ RepeatOK
  <2>1. PlainTail(todo)
    BY <1>1, Lists
  <2> QED BY <1>1, <2>1 DEF ActionOK, NoAction, TodoOK, StopOK, RepeatOK
<1>6. AnswerOK
  BY <1>1 DEF AnswerOK, NewTask, DirectoryFollowsSession
<1>7. ~Pending
  BY <1>1 DEF Pending
<1>8. CallsOK /\ GapOK /\ AheadOK /\ TripleOK /\ LastOK
  BY <1>1, <1>7 DEF CallsOK, RunsTo, GapOK, AheadOK, TripleOK, LastOK, LastAre
<1>9. PlansOK
  BY <1>1 DEF PlansOK, Ending
<1>10. DirectoryOK
  <2>1. \A i \in DOMAIN trace : FALSE
    BY <1>1
  <2> QED BY <1>1, <2>1 DEF DirectoryOK, DirectoryAgrees
<1> QED BY <1>2, <1>3, <1>4, <1>5, <1>6, <1>8, <1>9, <1>10 DEF IInv, HistoryOK

\* Every step keeps it.
LEMMA NextIInv == IInv /\ [Next]_vars => IInv'
<1> SUFFICES ASSUME IInv, [Next]_vars PROVE IInv'
  OBVIOUS
<1>1. TaskOK' /\ StoreOK' /\ RunOK' /\ ActionOK' /\ TodoOK' /\ AnswerOK' /\ StopOK'
  BY TaskStep, StoreStep, RunStep, ActionStep, TodoStep, AnswerStep, StopStep DEF IInv
<1>2. HistoryOK' /\ RepeatOK' /\ PlansOK'
  BY HistoryStep, RepeatStep, PlansStep DEF IInv
<1>3. DirectoryOK'
  BY <1>1, DirectoryStep DEF IInv
<1> QED BY <1>1, <1>2, <1>3 DEF IInv

\* The inductive invariant holds in every reachable state, under any fairness.
THEOREM Invariant == Init /\ [][Next]_vars => []IInv
<1> QED BY InitIInv, NextIInv, PTL

\* The state stays well-typed, and no run makes more attempts or tool steps than its limits,
\* in memory or on disk (AgentLoop::run, src/src/agent/agent_loop.cpp).
THEOREM TypeCorrect == Spec => []TypeOK
<1>1. ASSUME IInv PROVE TypeOK
  <2>1. /\ task \in Tasks /\ task.tool_steps <= task.attempts
        /\ {file, report} \subseteq Tasks \cup {Absent}
        /\ action.call \in Calls \cup {"none"}
    BY <1>1 DEF IInv, TaskOK, StoreOK, ActionOK
  <2>2. /\ at \in Places /\ outcome \in [1..MaxRuns -> Outcomes] /\ run \in 0..MaxRuns
        /\ at = "idle" => todo = <<>>
    BY <1>1 DEF IInv, RunOK, TodoOK
  <2>3. session.answers \cup saved.answers \subseteq 1..run
    BY <1>1 DEF IInv, StoreOK
  <2> QED BY <2>1, <2>2, <2>3 DEF TypeOK, Places, Outcomes
<1>2. IInv => TypeOK
  BY <1>1
<1> QED BY <1>2, Invariant, PTL DEF Spec

\* What the directory of a run says is in the stored session, whatever fails and wherever the
\* process dies: the answer is recorded before the state is terminal, the checkpoint is
\* created before the state names it (finish_success, stop_at_limit).
THEOREM DirectoryIsBacked == Spec => []DirectoryFollowsSession
<1>1. IInv => DirectoryFollowsSession
  BY DEF IInv, AnswerOK
<1> QED BY <1>1, Invariant, PTL DEF Spec

\* If nothing failed, state, trace and report of a run agree at every moment at which the
\* process may die, and a run that returned an answer has all three.
THEOREM DirectoryIsOneStory == Spec => []DirectoryAgrees
<1>1. ASSUME IInv, at # "idle", ~faulty PROVE DirectoryAgrees
  <2>1. StoryOK /\ StepsOK
    BY <1>1 DEF IInv, DirectoryOK
  <2>2. OneStory
    BY <1>1, <2>1, StoryAgrees DEF IInv
  <2>3. outcome[run] = "running"
    BY <1>1 DEF IInv, RunOK
  <2> QED BY <2>2, <2>3 DEF OneStory, DirectoryAgrees
<1>2. ASSUME IInv, at = "idle" \/ faulty PROVE DirectoryAgrees
  BY <1>2 DEF IInv, DirectoryOK, DirectoryAgrees
<1>3. IInv => DirectoryAgrees
  BY <1>1, <1>2
<1> QED BY <1>3, Invariant, PTL DEF Spec

\* A tool that ran is in the stored history of its session, but for the last one of a run
\* that was cut off; so a call runs three times in a row, in whatever runs of the session,
\* only if one of these was lost like that (the check on repetition of ToolExecutor).
THEOREM SideEffectsAreKept == Spec => []SideEffectsKept
<1>1. IInv => SideEffectsKept
  BY HistoryKept DEF IInv
<1> QED BY <1>1, Invariant, PTL DEF Spec

\* After a stop the model or a tool is called at most once more, and a run that did so
\* returns no answer (the stop token in AgentLoop::run).
THEOREM StopIsObeyed == Spec => []StopIsHeard
<1>1. IInv => StopIsHeard
  BY DEF IInv, StopOK, StopIsHeard
<1> QED BY <1>1, Invariant, PTL DEF Spec

-----------------------------------------------------------------------------
(* The end of a run *)

\* How many steps are left at each place when nothing more has to be persisted there.
Rank(place) ==
    IF place \in {"finished", "cancelled"} THEN 1
    ELSE IF place = "answered" THEN 7
    ELSE IF place = "loop" THEN 8
    ELSE IF place = "entry" THEN 12
    ELSE IF place = "executed" THEN 15
    ELSE IF place = "run" THEN 16
    ELSE IF place = "gate" THEN 17
    ELSE IF place = "model" THEN 18
    ELSE IF place = "request" THEN 19
    ELSE 26

\* A bound on the steps of a run until it returns: of the attempts that are left, of this
\* one, what is to be persisted, and the request to stop.
Left(place, attempts, steps, stopped) ==
    IF place = "idle" THEN 0
    ELSE 20 * (MaxAttempts - attempts) + Rank(place) + steps + One(~stopped)
Distance == Left(at, task.attempts, Len(todo), stop)
Longest == 20 * MaxAttempts + 13

\* The lengths of what the loop persists before it goes on.
LEMMA Lengths ==
    ASSUME TodoOK
    PROVE  /\ Len(todo) \in Nat
           /\ Len(CancelCalls) = 5 /\ Len(FinalCalls) = 5 /\ Len(LimitCalls) = 6
           /\ Len(ToolCalls) = 6 /\ Len(Notice) = 3 /\ Len(Notice \o Notice) = 6
           /\ Len(<<Must(Said), Must(WriteTask), May(Trace("run_started"))>>) = 3
           /\ Len(<<Must(Said), May(WriteTask)>>) = 2
           /\ Len(<<Must(Answered)>>) = 1 /\ Len(<<Must(WriteTask)>>) = 1
           /\ Len(<<>>) = 0
<1>1. Len(Notice) = 3 /\ Notice \in Seq(NoticeSteps)
  BY DEF Notice, NoticeSteps
<1>2. Len(Notice \o Notice) = Len(Notice) + Len(Notice)
  BY <1>1, ConcatProperties
<1>3. Len(todo) \in Nat
  BY DEF TodoOK, PlainTail
<1>4. Len(ToolCalls) = 6
  BY DEF ToolCalls
<1> QED BY <1>1, <1>2, <1>3, <1>4, Lists

\* The distance is a natural number.
LEMMA DistanceIsNat ==
    ASSUME TaskOK, TodoOK
    PROVE  Distance \in Nat
<1> DEFINE A == task.attempts
           n == Len(todo)
<1>1. A \in Nat /\ A <= MaxAttempts /\ n \in Nat /\ MaxAttempts \in Nat
  BY Bounds, Lengths DEF TaskOK, Tasks
<1>2. Rank(at) \in Nat /\ One(~stop) \in Nat
  BY DEF Rank, One
<1>3. Distance = IF at = "idle" THEN 0
                 ELSE 20 * (MaxAttempts - A) + Rank(at) + n + One(~stop)
  BY DEF Distance, Left
<1> HIDE DEF A, n
<1> QED BY <1>1, <1>2, <1>3

\* Every step of a run, of the loop or of its environment, brings it nearer to its end.
LEMMA Nearer ==
    ASSUME TaskOK, StoreOK, RunOK, TodoOK, Next, at # "idle"
    PROVE  Distance' < Distance
<1> DEFINE A == task.attempts
           A1 == task'.attempts
           n == Len(todo)
           n1 == Len(todo')
<1>0. A \in Nat /\ A <= MaxAttempts /\ n \in Nat /\ MaxAttempts \in Nat /\ stop \in BOOLEAN
  BY Bounds, Lengths DEF TaskOK, Tasks, RunOK
<1>D. /\ Distance = Left(at, A, n, stop)
      /\ Distance' = Left(at', A1, n1, stop')
  BY DEF Distance
<1>E. Distance >= 1
  <2>1. Rank(at) \in Nat /\ Rank(at) >= 1 /\ One(~stop) \in {0, 1}
    BY DEF Rank, One
  <2>2. Distance = 20 * (MaxAttempts - A) + Rank(at) + n + One(~stop)
    BY <1>D DEF Left
  <2> HIDE DEF Rank, One, A, n
  <2> QED BY <1>0, <2>1, <2>2
<1>R. ASSUME at' = "idle" PROVE Distance' < Distance
  BY <1>R, <1>0, <1>D, <1>E DEF Left
<1> HIDE DEF A, A1, n, n1
<1>S. ASSUME A1 = A, stop' = stop, n1 \in Nat, at' # "idle", Rank(at') + n1 < Rank(at) + n
      PROVE  Distance' < Distance
  <2>1. One(~stop) \in {0, 1}
    BY DEF One
  <2>2. Rank(at) \in Nat /\ Rank(at') \in Nat
    BY DEF Rank
  <2>3. Distance = 20 * (MaxAttempts - A) + Rank(at) + n + One(~stop)
    BY <1>D DEF Left
  <2>4. Distance' = 20 * (MaxAttempts - A) + Rank(at') + n1 + One(~stop)
    BY <1>D, <1>S DEF Left
  <2> HIDE DEF Rank, One
  <2> QED BY <1>0, <1>S, <2>1, <2>2, <2>3, <2>4
<1>1. CASE Perform
  <2>1. todo # <<>> /\ InMemory(todo[1].call) /\ todo[1].call \in AnyCall
        /\ n1 = n - 1 /\ n \in Nat \ {0}
    BY <1>1, NextCall DEF Perform, n, n1
  <2>2. A1 = A
    BY <2>1, Memory DEF A, A1
  <2>3. at' = at /\ stop' = stop
    BY <1>1 DEF Perform
  <2>4. Rank(at) \in Nat
    BY DEF Rank
  <2> QED BY <1>S, <2>1, <2>2, <2>3, <2>4
<1>2. CASE Fail
  <2>1. todo # <<>> /\ InMemory(todo[1].call) /\ todo[1].call \in AnyCall
        /\ n \in Nat \ {0}
    BY <1>2, NextCall DEF Fail, n
  <2>2. A1 = A
    BY <2>1, Memory DEF A, A1
  <2>3. stop' = stop /\ (at' = "idle" \/ (at' = at /\ todo' = Tail(todo)))
    BY <1>2 DEF Fail, Return
  <2>4. Rank(at) \in Nat
    BY DEF Rank
  <2>5. ASSUME todo' = Tail(todo), at' = at PROVE Distance' < Distance
    <3>1. n1 = n - 1
      BY <2>1, <2>5, NextCall DEF n, n1
    <3> QED BY <1>S, <2>1, <2>2, <2>3, <2>4, <2>5, <3>1
  <2> QED BY <1>R, <2>3, <2>5
<1>3. CASE Begin
  BY <1>3 DEF Begin, At
<1>M. ASSUME at' = "cancelled", todo' = CancelCalls, A1 = A, stop' = stop,
             at \in {"loop", "model", "executed"}, todo = <<>>
      PROVE  Distance' < Distance
  <2>1. n = 0 /\ n1 = 5
    BY <1>M, Lengths DEF n, n1
  <2> QED BY <1>S, <1>M, <2>1 DEF Rank
<1>4. CASE Enter
  <2>1. /\ at = "entry" /\ todo = <<>> /\ stop' = stop /\ task' = task
        /\ \/ at' = "idle"
           \/ /\ at' = "loop"
              /\ todo' = <<Must(Said), Must(WriteTask), May(Trace("run_started"))>>
    BY <1>4 DEF Enter, At, InLoop, Return, Then
  <2>2. ASSUME at' = "loop",
               todo' = <<Must(Said), Must(WriteTask), May(Trace("run_started"))>>
        PROVE  Distance' < Distance
    <3>1. n = 0 /\ n1 = 3 /\ A1 = A
      BY <2>1, <2>2, Lengths DEF n, n1, A, A1
    <3> QED BY <1>S, <2>1, <2>2, <3>1 DEF Rank
  <2> QED BY <1>R, <2>1, <2>2
<1>5. CASE Attempt
  <2>1. at = "loop" /\ todo = <<>> /\ stop' = stop
    BY <1>5 DEF Attempt, At, InLoop
  <2>2. CASE StopRequested
    <3>1. at' = "cancelled" /\ todo' = CancelCalls /\ A1 = A
      BY <1>5, <2>2 DEF Attempt, FinishCancelled, Then, A, A1, TaskOK, Tasks
    <3> QED BY <1>M, <2>1, <3>1
  <2>3. CASE ~StopRequested
    <3>1. at' = "prompt" /\ todo' = <<Must(WriteTask)>> /\ A1 = A + 1
      BY <1>5, <2>3 DEF Attempt, RecordAttempt, Then, A, A1, TaskOK, Tasks
    <3>2. n = 0 /\ n1 = 1
      BY <2>1, <3>1, Lengths DEF n, n1
    <3> QED BY <1>0, <1>D, <2>1, <3>1, <3>2 DEF Left, Rank, One
  <2> QED BY <2>2, <2>3
<1>6. CASE BuildPrompt
  <2>1. /\ at = "prompt" /\ todo = <<>> /\ stop' = stop /\ task' = task /\ at' = "request"
        /\ todo' = <<>> \/ todo' \in {Notice, Notice \o Notice}
    BY <1>6 DEF BuildPrompt, At, Then
  <2>2. n = 0 /\ n1 \in {0, 3, 6} /\ A1 = A
    BY <2>1, Lengths DEF n, n1, A, A1
  <2> QED BY <1>S, <2>1, <2>2 DEF Rank
<1>7. CASE RequestModel
  <2>1. /\ at = "request" /\ todo = <<>> /\ stop' = stop /\ task' = task /\ at' = "model"
        /\ todo' = <<>>
    BY <1>7 DEF RequestModel, At, Then, InLoop
  <2>2. n = 0 /\ n1 = 0 /\ A1 = A
    BY <2>1, Lengths DEF n, n1, A, A1
  <2> QED BY <1>S, <2>1, <2>2 DEF Rank
<1>8. CASE ModelFails
  BY <1>8, <1>R DEF ModelFails, Return
<1>9. CASE ModelAnswers
  <2>1. at = "model" /\ todo = <<>> /\ stop' = stop
    BY <1>9 DEF ModelAnswers, At, InLoop
  <2>2. A1 = A
    BY <1>9 DEF ModelAnswers, FinishCancelled, A, A1, TaskOK, Tasks
  <2>3. \/ todo' = CancelCalls /\ at' = "cancelled"
        \/ todo' = <<>> /\ at' = "gate"
        \/ todo' = <<Must(Said), May(WriteTask)>> /\ at' = "loop"
        \/ todo' = <<Must(Answered)>> /\ at' = "answered"
    BY <1>9 DEF ModelAnswers, FinishCancelled, Then
  <2>4. ASSUME at' # "cancelled" PROVE Distance' < Distance
    <3>1. /\ n = 0
          /\ \/ n1 = 0 /\ at' = "gate"
             \/ n1 = 2 /\ at' = "loop"
             \/ n1 = 1 /\ at' = "answered"
      BY <2>1, <2>3, <2>4, Lengths DEF n, n1
    <3> QED BY <1>S, <2>1, <2>2, <3>1 DEF Rank
  <2> QED BY <1>M, <2>1, <2>2, <2>3, <2>4
<1>10. CASE Gate
  <2>1. /\ at = "gate" /\ todo = <<>> /\ stop' = stop /\ task' = task
        /\ at' \in {"run", "executed"} /\ todo' = <<>>
    BY <1>10 DEF Gate, At, Then, InLoop
  <2>2. n = 0 /\ n1 = 0 /\ A1 = A
    BY <2>1, Lengths DEF n, n1, A, A1
  <2> QED BY <1>S, <2>1, <2>2 DEF Rank
<1>11. CASE RunTool
  <2>1. /\ at = "run" /\ todo = <<>> /\ stop' = stop /\ task' = task
        /\ at' = "executed" /\ todo' = <<>>
    BY <1>11 DEF RunTool, At, Then, InLoop
  <2>2. n = 0 /\ n1 = 0 /\ A1 = A
    BY <2>1, Lengths DEF n, n1, A, A1
  <2> QED BY <1>S, <2>1, <2>2 DEF Rank
<1>12. CASE Executed
  <2>1. at = "executed" /\ todo = <<>> /\ stop' = stop
    BY <1>12 DEF Executed, At, InLoop
  <2>2. A1 = A
    BY <1>12 DEF Executed, FinishCancelled, A, A1, TaskOK, Tasks
  <2>3. \/ todo' = CancelCalls /\ at' = "cancelled"
        \/ todo' = ToolCalls /\ at' = "loop"
    BY <1>12 DEF Executed, FinishCancelled, Then
  <2>4. ASSUME todo' = ToolCalls, at' = "loop" PROVE Distance' < Distance
    <3>1. n = 0 /\ n1 = 6
      BY <2>1, <2>4, Lengths DEF n, n1
    <3> QED BY <1>S, <2>1, <2>2, <2>4, <3>1 DEF Rank
  <2> QED BY <1>M, <2>1, <2>2, <2>3, <2>4
<1>13. CASE Finish
  <2>1. /\ at = "answered" /\ todo = <<>> /\ stop' = stop /\ at' = "finished"
        /\ todo' = FinalCalls
    BY <1>13 DEF Finish, At, Then, InLoop
  <2>2. A1 = A
    BY <1>13 DEF Finish, A, A1, TaskOK, Tasks
  <2>3. n = 0 /\ n1 = 5
    BY <2>1, Lengths DEF n, n1
  <2> QED BY <1>S, <2>1, <2>2, <2>3 DEF Rank
<1>14. CASE StopAtLimit
  <2>1. /\ at = "loop" /\ todo = <<>> /\ stop' = stop /\ at' = "finished"
        /\ todo' = LimitCalls
    BY <1>14 DEF StopAtLimit, At, Then, InLoop
  <2>2. A1 = A
    BY <1>14 DEF StopAtLimit, A, A1, TaskOK, Tasks
  <2>3. n = 0 /\ n1 = 6
    BY <2>1, Lengths DEF n, n1
  <2> QED BY <1>S, <2>1, <2>2, <2>3 DEF Rank
<1>15. CASE ReturnAnswer
  BY <1>15, <1>R DEF ReturnAnswer, Return
<1>16. CASE RequestStop
  <2>1. /\ at' = at /\ todo' = todo /\ task' = task /\ stop = FALSE /\ stop' = TRUE
    BY <1>16, <1>0 DEF RequestStop
  <2>2. n1 = n /\ A1 = A
    BY <2>1 DEF n, n1, A, A1
  <2>3. Rank(at) \in Nat
    BY DEF Rank
  <2>4. /\ Distance = 20 * (MaxAttempts - A) + Rank(at) + n + 1
        /\ Distance' = 20 * (MaxAttempts - A) + Rank(at) + n + 0
    BY <1>D, <2>1, <2>2 DEF Left, One
  <2> HIDE DEF Rank
  <2> QED BY <1>0, <2>3, <2>4
<1>17. CASE Crash
  BY <1>17, <1>R DEF Crash, Return
<1> QED BY <1>1, <1>2, <1>3, <1>4, <1>5, <1>6, <1>7, <1>8, <1>9, <1>10, <1>11, <1>12, <1>13,
           <1>14, <1>15, <1>16, <1>17 DEF Next, LoopStep, WorldStep

\* A run that begins has all its steps before it.
LEMMA Farthest ==
    ASSUME IInv, [Next]_vars, Distance <= Longest
    PROVE  Distance' <= Longest
<1> USE DEF IInv
<1>1. Distance \in Int /\ Distance' \in Int /\ Longest \in Int
  <2>1. Distance \in Nat
    BY DistanceIsNat
  <2>2. IInv'
    BY NextIInv
  <2>3. (Distance \in Nat)'
    BY <2>2, DistanceIsNat, PTL
  <2> QED BY <2>1, <2>3, Bounds DEF Longest
<1>2. CASE UNCHANGED vars
  BY <1>2 DEF vars, Distance
<1>3. CASE Next /\ at # "idle"
  BY <1>1, <1>3, Nearer
<1>4. CASE Next /\ at = "idle"
  <2>1. todo = <<>>
    BY <1>4 DEF TodoOK
  <2>2. Begin
    BY <1>4, <2>1 DEF Next, LoopStep, WorldStep, Perform, Enter, Attempt, BuildPrompt,
       RequestModel, Gate, Executed, Finish, StopAtLimit, ReturnAnswer, ModelFails,
       ModelAnswers, RunTool, RequestStop, Fail, Crash, At
  <2>3. at' = "entry" /\ stop' = FALSE /\ task'.attempts = 0 /\ todo' = <<>>
    BY <2>1, <2>2 DEF Begin, NewTask
  <2>4. Len(todo') = 0
    BY <2>3
  <2>5. Distance' = Left("entry", 0, 0, FALSE)
    BY <2>3, <2>4 DEF Distance
  <2> QED BY <2>5, Bounds DEF Left, Rank, One, Longest
<1> QED BY <1>2, <1>3, <1>4

\* Where the distance stands: a natural number, of which a new run has the most.
WithinDistance == Distance \in 0..Longest
Approaches == at # "idle" => Distance' < Distance

\* A run takes at most Longest steps until it has returned, whatever the model and the tools
\* answer, whatever fails and whenever it is stopped: every step brings it nearer to its
\* end, and no attempt is forgotten (the loop of AgentLoop::run and its limits).  All that
\* RunReturns needs from there is that steps are taken.
THEOREM RunIsBounded == Spec => []WithinDistance /\ [][Approaches]_vars
<1>1. Init => Distance <= Longest
  <2>1. Init => Distance = 0
    BY DEF Init, Distance, Left
  <2> QED BY <2>1, Bounds DEF Longest
<1>2. IInv /\ Distance <= Longest /\ [Next]_vars => (Distance <= Longest)'
  <2>1. Longest' = Longest
    BY DEF Longest, MaxAttempts
  <2> QED BY <2>1, Farthest
<1>3. IInv /\ Distance <= Longest => WithinDistance
  <2> SUFFICES ASSUME IInv, Distance <= Longest PROVE WithinDistance
    OBVIOUS
  <2>1. Distance \in Nat
    BY DistanceIsNat DEF IInv
  <2> QED BY <2>1, Bounds DEF WithinDistance, Longest
<1>4. IInv /\ [Next]_vars => [Approaches]_vars
  BY Nearer DEF IInv, Approaches
<1> QED BY <1>1, <1>2, <1>3, <1>4, Invariant, PTL DEF Spec
=============================================================================
