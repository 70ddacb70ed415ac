---------------------------- MODULE AgentMemory ----------------------------
(***************************************************************************)
(* What one agent knows of the files it works on, while others edit them:  *)
(* its working memory (LayeredMemory, memory.cpp) with summaries of the    *)
(* files it has read, the checkpoint and its evaluation at every prompt    *)
(* and at a resume (checkpoint.cpp), and the tools on files with the gates *)
(* and the snapshots around them (tool_executor.cpp, tools.cpp,            *)
(* runtime.cpp).  Staleness is found by comparing hashes; a hash is here   *)
(* the contents themselves.  Each step looks at the disk once or changes   *)
(* it once.  AgentLoop has what this leaves out: limits, stops, the files  *)
(* of a run, and saves that fail.                                          *)
(***************************************************************************)
EXTENDS Naturals, Sequences, FiniteSets, SequencesExt, FiniteSetsExt

CONSTANTS
    Files,              \* the paths tools are called with
    WorkingFileLimit,   \* kWorkingFileLimit
    Edits,              \* contents that others give a file
    Options,            \* what else runtime_identity names: limits, model, policy
    MaxTools, MaxEvents \* bounds on tool calls, and on edits and deaths

\* The contents of a file: who made them, and how often they have the old_text
\* of a patch.
Contents == [by : {"repository", "agent", "others", "failure"}, olds : 0..2]
Absent == [by |-> "nobody", olds |-> 0]

ASSUME AgentAssumption ==
    /\ WorkingFileLimit \in Nat \ {0}
    /\ Edits \subseteq Contents \cup {Absent}
    /\ {MaxTools, MaxEvents} \subseteq Nat

VARIABLES
    disk,        \* contents of the files
    session,     \* the session and the memory in it
    saved,       \* the stored session
    prefix,      \* the workspace fingerprint of the prefix, and the options
    resume,      \* resume_state: status and stale paths
    at,          \* where the agent is
    call,        \* the tool call
    text,        \* what the tool has read
    before,      \* the snapshot before a risky tool
    result,      \* status and affected paths of the call
    shown,       \* the files of which the prompt has a summary
    did,         \* history: files the tool changed, and if it is exact
    touched,     \* history: files that others changed during the call
    used         \* how much of the bounds is used

agent == <<session, saved, prefix, resume, shown>>
tool == <<call, text, before, result, did>>
vars == <<disk, agent, at, tool, touched, used>>

NoSummary == [of |-> Absent, hash |-> Absent]
NoCheckpoint == [keys |-> {}, identity |-> <<>>]
NoCall == [name |-> "none", file |-> ""]
NoResult == [status |-> "none", affected |-> {}]
Nothing == [files |-> {}, exact |-> FALSE]
Start == [by |-> "repository", olds |-> 1]

\* told and blind are history: what the agent was last told of each file, and
\* the files of which a change was, or can be, taken over unnoticed.
NewSession ==
    [recent |-> <<>>, summaries |-> [f \in Files |-> NoSummary], checkpoint |-> NoCheckpoint,
     told |-> [f \in Files |-> Start], blind |-> {}]

\* WorkspaceContext::fingerprint, as far as git status tells the files apart.
Fingerprint == [f \in Files |-> IF disk[f] = Start THEN "clean" ELSE
                                IF disk[f] = Absent THEN "deleted" ELSE "modified"]

Init ==
    /\ disk = [f \in Files |-> Start]
    /\ session = NewSession /\ saved = NewSession
    /\ prefix \in {<<Fingerprint, o>> : o \in Options}
    /\ resume = [status |-> "no-checkpoint", stale |-> {}]
    /\ at = "idle" /\ call = NoCall /\ text = Absent /\ before = <<>>
    /\ result = NoResult /\ shown = {} /\ did = Nothing /\ touched = {}
    /\ used = [tools |-> 0, events |-> 0]

Goto(from, to) == at = from /\ at' = to

-----------------------------------------------------------------------------
(* Memory *)

\* remember_file: the last of the recent files, of which the oldest gives way.
Remember(recent, f) ==
    LET files == Append(SelectSeq(recent, LAMBDA g : g # f), f)
    IN  IF Len(files) > WorkingFileLimit THEN Tail(files) ELSE files

Summarized(s) == {f \in Files : s.summaries[f] # NoSummary}

\* Bug: a summary is shown as long as there is one.
AnySummary(s, f) == f \in Summarized(s)
\* file_freshness agrees with what was kept with the summary.
FreshSummary(s, f) == f \in Summarized(s) /\ s.summaries[f].hash = disk[f]

\* Files are told of as in `now`, and are blind no more unless a summary stays.
Tell(s, files, now) ==
    [s EXCEPT !.told = [f \in Files |-> IF f \in files THEN now[f] ELSE @[f]],
              !.blind = {f \in @ : f \notin files \/ FreshSummary(s, f)}]

\* What later prompts compare a file with when its checkpoint stays as it is,
\* unless there is a summary to compare.
Named(s, f) == {c \in Contents \cup {Absent} : <<f, c>> \in s.checkpoint.keys}
Baseline(s) == [f \in Files |-> IF Named(s, f) = {} \/ FreshSummary(s, f) THEN disk[f]
                                ELSE CHOOSE c \in Named(s, f) : TRUE]

-----------------------------------------------------------------------------
(* Checkpoint and resume *)

\* create_checkpoint: the recent files as they are now are its key files.  With
\* that a change is no longer noticed, unless a summary still disagrees.
WithCheckpoint(s) ==
    LET files == ToSet(s.recent)
        unnoticed == {f \in files : s.told[f] # disk[f] /\ (f \in Summarized(s) => FreshSummary(s, f))}
    IN  [s EXCEPT !.checkpoint = [keys |-> {<<f, disk[f]>> : f \in files}, identity |-> prefix],
                  !.blind = @ \cup unnoticed]

\* invalidate_stale_file_summaries.
Invalidated(s) == {f \in Summarized(s) : ~FreshSummary(s, f)}

\* Bug: only summaries are compared.
NoStaleKeys(s) == {}
StaleKeys(s) == {f \in Files : \E c \in Named(s, f) : c # disk[f]}

\* evaluate_resume_state of session s under `identity`, and what it tells.
Evaluate(s, identity, now) ==
    LET stale == Invalidated(s) \cup (IF s.checkpoint = NoCheckpoint THEN {} ELSE StaleKeys(s))
    IN  /\ resume' = [stale |-> stale,
                      status |-> IF s.checkpoint = NoCheckpoint THEN "no-checkpoint"
                                 ELSE IF stale # {} THEN "partial-stale"
                                 ELSE IF s.checkpoint.identity # identity THEN "workspace-mismatch"
                                 ELSE "full-valid"]
        /\ session' = [Tell(s, stale, now) EXCEPT
              !.summaries = [f \in Files |-> IF f \in Invalidated(s) THEN NoSummary ELSE @[f]]]

\* The constructor, with a session that is loaded or with the one there is.
Construct ==
    /\ Goto("down", "idle")
    /\ \E o \in Options :
          /\ prefix' = <<Fingerprint, o>>
          /\ Evaluate(saved, prefix', Baseline(saved))
    /\ saved' = session'
    /\ UNCHANGED <<disk, shown, tool, touched, used>>

\* build_prompt: the prefix is refreshed, and the last checkpoint evaluated...
Prompt ==
    /\ at \in {"idle", "loop"} /\ at' = "evaluated"
    /\ prefix' = <<Fingerprint, prefix[2]>>
    /\ Evaluate(session, prefix', disk)
    /\ UNCHANGED <<disk, saved, shown, tool, touched, used>>

\* ... then the sections are rendered; memory and history show summaries.
Render ==
    /\ Goto("evaluated", "notice")
    /\ shown' = {f \in Files : FreshSummary(session, f)}
    /\ UNCHANGED <<disk, session, saved, prefix, resume, tool, touched, used>>

SaveCheckpoint == session' = WithCheckpoint(session) /\ saved' = session'

\* The loop makes a checkpoint of what was found changed.
NoticeChange ==
    /\ Goto("notice", "model")
    /\ IF resume.status \in {"partial-stale", "workspace-mismatch"}
       THEN SaveCheckpoint ELSE UNCHANGED <<session, saved>>
    /\ shown' = {}
    /\ UNCHANGED <<disk, prefix, resume, tool, touched, used>>

\* A final answer.
Answer ==
    /\ Goto("model", "idle") /\ SaveCheckpoint
    /\ UNCHANGED <<disk, prefix, resume, shown, tool, touched, used>>

\* reset forgets history and memory, and with them all the agent was told; it
\* keeps the checkpoint.
Reset ==
    /\ at = "idle"
    /\ LET s == [NewSession EXCEPT !.checkpoint = session.checkpoint]
       IN  session' = Tell(s, Files, Baseline(s))
    /\ session' # session /\ saved' = session'
    /\ UNCHANGED <<disk, prefix, resume, shown, at, tool, touched, used>>

-----------------------------------------------------------------------------
(* ToolExecutor::execute: the gates *)

FileTools == {"read_file", "write_file", "patch_file"}
Calls == [name : FileTools, file : Files] \cup [name : {"run_shell"}, file : {""}]
Risky == call.name # "read_file"

Ask ==
    /\ Goto("model", "gate") /\ used.tools < MaxTools
    /\ used' = [used EXCEPT !.tools = @ + 1]
    /\ call' \in Calls
    /\ touched' = {}
    /\ UNCHANGED <<disk, agent, text, before, result, did>>

\* Bug: old_text has to occur, and may do so more than once.
OccursAtAll(contents) == contents.olds > 0
OccursOnce(contents) == contents.olds = 1

\* The validation of the call; what the file is tells for it at that moment.
Valid ==
    CASE call.name = "read_file" -> disk[call.file] # Absent
      [] call.name = "patch_file" -> disk[call.file] # Absent /\ OccursOnce(disk[call.file])
      [] OTHER -> TRUE

\* A call is refused: not allowed, unknown, invalid, repeated or not approved.
Refuse ==
    /\ at \in {"gate", "approve"} /\ at' = "executed"
    /\ result' = [status |-> "rejected", affected |-> {}]
    /\ UNCHANGED <<disk, agent, call, text, before, did, touched, used>>

Validate ==
    /\ Goto("gate", IF Risky THEN "approve" ELSE "run")
    /\ Valid
    /\ UNCHANGED <<disk, agent, tool, touched, used>>

\* Approval may take its time; then the workspace is recorded.
Approve ==
    /\ Goto("approve", "run")
    /\ before' = disk
    /\ UNCHANGED <<disk, agent, call, text, result, did, touched, used>>

-----------------------------------------------------------------------------
(* The tools, each in two steps if others may come in between *)

\* The tool returns, well or with an error.
Ran(how) == result' = [status |-> how, affected |-> {}]
Change(f, contents) ==
    /\ disk' = [disk EXCEPT ![f] = contents]
    /\ did' = [did EXCEPT !.files = IF disk[f] = contents THEN @ ELSE @ \cup {f}]

\* read_text_file; for a patch also the search for old_text.
ReadFile ==
    /\ at = "run" /\ call.name \in {"read_file", "patch_file"}
    /\ text' = disk[call.file]
    /\ IF text' = Absent THEN Ran("error") /\ at' = "ran"
       ELSE IF call.name = "read_file" THEN Ran("ok") /\ at' = "ran"
       \* std::string::replace at npos throws: the run is gone, and what it knew.
       ELSE at' = (IF text'.olds = 0 THEN "threw" ELSE "write") /\ UNCHANGED result
    /\ UNCHANGED <<disk, agent, call, before, did, touched, used>>

\* write_text_file of the new contents, or a failure before or after truncation.
WriteFile ==
    /\ \/ at = "run" /\ call.name = "write_file"
       \/ at = "write"
    /\ at' = "ran"
    /\ LET new == [by |-> "agent", olds |-> IF at = "write" THEN text.olds - 1 ELSE 1]
       IN  \/ Ran("ok") /\ disk' = [disk EXCEPT ![call.file] = new]
              /\ did' = [files |-> IF disk[call.file] = new THEN {} ELSE {call.file},
                         exact |-> text.olds = 1 /\ disk[call.file] = text]
           \/ Ran("error") /\ Change(call.file, [by |-> "failure", olds |-> 0])
           \/ Ran("error") /\ UNCHANGED <<disk, did>>
    /\ UNCHANGED <<agent, call, text, before, touched, used>>

\* A command changes a file or none, and then succeeds, reports an exit code, or
\* cannot be run to its end.
RunShell ==
    /\ at = "run" /\ call.name = "run_shell" /\ at' = "ran"
    /\ \E how \in {"ok", "exit", "error"} : Ran(how)
    /\ \/ UNCHANGED <<disk, did>>
       \/ \E f \in Files, c \in {[by |-> "agent", olds |-> 1], Absent} : Change(f, c)
    /\ UNCHANGED <<agent, call, text, before, touched, used>>

-----------------------------------------------------------------------------
(* ToolExecutor::execute: the result *)

\* diff_workspace_snapshots; a tool that is not risky has none.
Diff == IF Risky THEN {f \in Files : before[f] # disk[f]} ELSE {}

\* The snapshot after, and the status that follows.
Compare ==
    /\ Goto("ran", "compared")
    /\ result' = [affected |-> Diff,
                  status |-> IF result.status = "ok" THEN "ok"
                             ELSE IF Diff # {} THEN "partial_success" ELSE "error"]
    /\ before' = <<>>
    /\ UNCHANGED <<disk, agent, call, text, did, touched, used>>

\* update_memory_after_tool: of what was read a summary is kept, with the hash
\* that the file has by now.  A tool that could not be run changes no memory.
UpdateMemory ==
    /\ Goto("compared", "executed")
    /\ IF result.status # "ok" \/ call.file \notin Files THEN UNCHANGED session
       ELSE LET f == call.file
                s == [session EXCEPT
                        !.recent = Remember(@, f),
                        !.summaries[f] = IF call.name = "read_file" THEN [of |-> text, hash |-> disk[f]]
                                         ELSE NoSummary,
                        !.told[f] = IF call.name = "read_file" THEN text
                                    ELSE disk[f]]
            IN  session' = [s EXCEPT !.blind = IF s.told[f] = disk[f] THEN @ \ {f} ELSE @ \cup {f}]
    /\ UNCHANGED <<disk, saved, prefix, resume, shown, tool, touched, used>>

\* The result is recorded and saved...  If no checkpoint follows, the last one
\* names what was there before: who undoes a change then is not noticed.
RecordTool ==
    /\ Goto("executed", "recorded")
    /\ saved' = [session EXCEPT !.blind = @ \cup
                    {f \in Files \ Summarized(session) :
                        \E c \in Named(session, f) : session.told[f] # c}]
    /\ call' = NoCall /\ text' = Absent /\ before' = <<>> /\ result' = NoResult /\ did' = Nothing
    /\ touched' = {}
    /\ UNCHANGED <<disk, session, prefix, resume, shown, used>>

\* ... and then a checkpoint is made.
CheckpointTool ==
    /\ Goto("recorded", "loop") /\ SaveCheckpoint
    /\ UNCHANGED <<disk, prefix, resume, shown, tool, touched, used>>

-----------------------------------------------------------------------------
(* Others *)

Edit(f) ==
    /\ used.events < MaxEvents /\ used' = [used EXCEPT !.events = @ + 1]
    /\ \E c \in Edits \ {disk[f]} : disk' = [disk EXCEPT ![f] = c]
    /\ touched' = IF call = NoCall THEN touched ELSE touched \cup {f}
    /\ UNCHANGED <<agent, at, tool>>

\* The agent is gone: its process has died, or a tool has thrown.
Die ==
    /\ \/ at = "threw" /\ UNCHANGED used
       \/ /\ at \notin {"down", "threw"}
          /\ used.events < MaxEvents /\ used' = [used EXCEPT !.events = @ + 1]
    /\ at' = "down"
    /\ session' = saved /\ shown' = {}
    /\ call' = NoCall /\ text' = Absent /\ before' = <<>> /\ result' = NoResult /\ did' = Nothing
    /\ touched' = {}
    /\ UNCHANGED <<disk, saved, prefix, resume>>

AgentStep ==
    \/ Construct \/ Prompt \/ Render \/ NoticeChange \/ Answer \/ Reset
    \/ Ask \/ Refuse \/ Validate \/ Approve \/ ReadFile \/ WriteFile \/ RunShell
    \/ Compare \/ UpdateMemory \/ RecordTool \/ CheckpointTool

Next == AgentStep \/ Die \/ \E f \in Files : Edit(f)

Spec == Init /\ [][Next]_vars

-----------------------------------------------------------------------------
(* Properties *)

\* A summary in the prompt is of the file as it is, also if the file changed
\* after the checkpoint was evaluated: except when it changed between the read
\* and the hash that is kept with the summary.
SummariesAreCurrent ==
    [][at = "evaluated" /\ at' = "notice" => \A f \in shown' :
          session.summaries[f].of = disk[f] \/ f \in session.blind]_vars

\* Whoever changes a file that the checkpoint or a summary names, be it the agent
\* itself in a run that was cut off, the next prompt or resume says so: except
\* for what a checkpoint or a hash has taken over unseen, and what is undone when
\* a death came between a tool and its checkpoint.
EditsAreNoticed ==
    [][at' # at /\ (at' = "evaluated" \/ at = "down") => \A f \in Files :
          /\ f \in Summarized(session) \/ \E c \in Contents : <<f, c>> \in session.checkpoint.keys
          /\ session.told[f] # disk[f]
          => f \in resume'.stale \cup session.blind]_vars

\* What a tool's result says is what it did: all files it changed are among the
\* affected ones, a call that is refused or fails without an effect has none,
\* and a patch that succeeds has replaced the one occurrence of its text and kept
\* all else; unless others changed the file during the call.
ResultTellsTruth ==
    at = "executed" =>
        /\ did.files \subseteq result.affected \cup touched
        /\ result.status \in {"rejected", "error"} => did.files \subseteq touched
        /\ call.name = "patch_file" /\ result.status = "ok" =>
              did.exact \/ call.file \in touched
=============================================================================
