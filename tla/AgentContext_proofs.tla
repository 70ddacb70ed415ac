------------------------- MODULE AgentContext_proofs -------------------------
(***************************************************************************)
(* The safety of AgentMemory for every set of files and of contents that   *)
(* others give them, any number of calls, edits and deaths; that of        *)
(* ContextCache for every set of keys and of callers, every capacity and   *)
(* any number of changes of the sources; and that of ContextManager for    *)
(* every text, history, notes and budgets.  MemoryInv, CacheInv and        *)
(* ContextInv are the inductive invariants: the invariants that            *)
(* AgentContext.cfg checks, with what they need of the sessions and the    *)
(* tool, of the callers inside get_or_compute, and of the budgets.         *)
(***************************************************************************)
EXTENDS AgentMemory, ContextCache, ContextManager, FiniteSetTheorems, SequenceTheorems,
        WellFoundedInduction, TLAPS

-----------------------------------------------------------------------------
(* AgentMemory *)

Anything == Contents \cup {Absent}
Summaries == [of : Anything, hash : Anything]

\* A session whose memory is about files, with any recent files and checkpoint.
SessionTyped(s) ==
    s \in [recent : {s.recent}, summaries : [Files -> Summaries], checkpoint : {s.checkpoint},
           told : [Files -> Anything], blind : {s.blind}]

\* A checkpoint names one contents of a file.
NamedOnce(s) == \A f \in Files : \A c, d \in Named(s, f) : c = d

\* A summary is of what the agent was told, and its hash is of that too, unless
\* the file changed before it was hashed.
SummariesOK(s) ==
    \A f \in Summarized(s) :
        \/ f \in s.blind
        \/ s.summaries[f].of = s.summaries[f].hash /\ s.told[f] = s.summaries[f].hash

\* What a checkpoint names is what the agent was told, unless it took that over
\* unseen, or a summary will disagree when it is evaluated.
CheckpointOK(s) ==
    \A f \in Files : \A c \in Named(s, f) :
        \/ s.told[f] = c \/ f \in s.blind
        \/ f \in Summarized(s) /\ s.summaries[f].hash # c

SessionOK(s) == SessionTyped(s) /\ NamedOnce(s) /\ SummariesOK(s)

Places == {"idle", "loop", "evaluated", "notice", "model", "gate", "approve", "run", "write",
           "threw", "ran", "compared", "executed", "recorded", "down"}
InTool == {"gate", "approve", "run", "write", "threw", "ran", "compared", "executed"}

MemoryTypeOK ==
    /\ disk \in [Files -> Anything] /\ at \in Places
    /\ SessionTyped(session) /\ SessionTyped(saved)
    /\ IF at \in InTool THEN call \in Calls ELSE call = NoCall
    /\ text \in Anything
    /\ result \in [status : {"none", "ok", "exit", "error", "partial_success", "rejected"},
                   affected : SUBSET Files]
    /\ did \in [files : SUBSET Files, exact : BOOLEAN] /\ touched \subseteq Files

\* The loaded session is the stored one; whenever a checkpoint is evaluated it
\* agrees with what the agent was told.
KnowledgeOK ==
    /\ SessionOK(session) /\ SessionOK(saved) /\ CheckpointOK(saved)
    /\ at \in {"idle", "loop"} => CheckpointOK(session)
    /\ at = "down" => session = saved

\* Where the tool is, and what of its file was looked at.
Untouched == Files \ touched
BeforeOK ==
    /\ at \in {"run", "write", "ran"} /\ Risky => before \in [Files -> Anything]
    /\ at \in {"run", "write"} /\ Risky => \A f \in Untouched : before[f] = disk[f]
PatchOK ==
    /\ at \in {"write", "threw"} => call.name = "patch_file"
    /\ at = "write" => text \in Contents /\ text.olds \in 1..2
    /\ call.name = "patch_file" /\ call.file \in Untouched =>
          /\ at \in {"approve", "run"} => disk[call.file].olds = 1
          /\ at = "write" => text = disk[call.file] /\ text.olds = 1

\* What the tool did so far.
DidOK ==
    /\ at \notin {"ran", "compared", "executed"} => did = Nothing
    /\ at = "ran" => \A f \in did.files \cap Untouched : Risky /\ before[f] # disk[f]
    /\ at = "compared" =>
          /\ did.files \subseteq result.affected \cup touched
          /\ result.status \in {"rejected", "error"} => did.files \subseteq touched
    /\ at \in {"ran", "compared"} /\ call.name = "patch_file" /\ result.status = "ok" =>
          did.exact \/ call.file \in touched
    /\ ResultTellsTruth

ToolOK == BeforeOK /\ PatchOK /\ DidOK

MemoryInv == MemoryTypeOK /\ KnowledgeOK /\ ToolOK

-----------------------------------------------------------------------------
\* Evaluating a session keeps what is known of its summaries.
LEMMA EvaluateKeeps ==
    ASSUME NEW s, SessionOK(s), disk \in [Files -> Anything], NEW now \in [Files -> Anything],
           NEW identity, Evaluate(s, identity, now),
           \A f \in Files : FreshSummary(s, f) => now[f] = disk[f]
    PROVE  SessionOK(session')
<1> DEFINE stale == Invalidated(s) \cup (IF s.checkpoint = NoCheckpoint THEN {} ELSE StaleKeys(s))
<1>1. session' = [[s EXCEPT !.told = [f \in Files |-> IF f \in stale THEN now[f] ELSE @[f]],
                            !.blind = {f \in @ : f \notin stale \/ FreshSummary(s, f)}]
                     EXCEPT !.summaries = [f \in Files |-> IF f \in Invalidated(s) THEN NoSummary
                                                           ELSE @[f]]]
  BY DEF Evaluate, Tell
<1>2. SessionTyped(s)
  BY DEF SessionOK
<1> HIDE DEF stale
<1>3. /\ session'.recent = s.recent /\ session'.checkpoint = s.checkpoint
      /\ session'.told = [f \in Files |-> IF f \in stale THEN now[f] ELSE s.told[f]]
      /\ session'.blind = {f \in s.blind : f \notin stale \/ FreshSummary(s, f)}
      /\ session'.summaries = [f \in Files |-> IF f \in Invalidated(s) THEN NoSummary
                                               ELSE s.summaries[f]]
      /\ SessionTyped(session')
  <2>1. session' = [recent |-> s.recent, checkpoint |-> s.checkpoint,
           told |-> [f \in Files |-> IF f \in stale THEN now[f] ELSE s.told[f]],
           blind |-> {f \in s.blind : f \notin stale \/ FreshSummary(s, f)},
           summaries |-> [f \in Files |-> IF f \in Invalidated(s) THEN NoSummary
                                         ELSE s.summaries[f]]]
    BY <1>1, <1>2 DEF SessionTyped
  <2>2. NoSummary \in Summaries
    BY DEF NoSummary, Summaries, Anything
  <2>3. s.told \in [Files -> Anything] /\ s.summaries \in [Files -> Summaries]
    BY <1>2 DEF SessionTyped
  <2> QED BY <2>1, <2>2, <2>3 DEF SessionTyped
<1>4. NamedOnce(session')
  BY <1>3 DEF SessionOK, NamedOnce, Named
<1>5. SummariesOK(session')
  <2> SUFFICES ASSUME NEW f \in Summarized(session'), f \notin session'.blind
               PROVE  /\ session'.summaries[f].of = session'.summaries[f].hash
                      /\ session'.told[f] = session'.summaries[f].hash
    BY DEF SummariesOK
  <2>1. f \in Files /\ f \in Summarized(s) \ Invalidated(s) /\ session'.summaries[f] = s.summaries[f]
    BY <1>3 DEF Summarized
  <2>2. FreshSummary(s, f)
    BY <2>1 DEF Invalidated
  <2>3. f \notin s.blind
    BY <1>3, <2>2
  <2>4. s.summaries[f].of = s.summaries[f].hash /\ s.told[f] = s.summaries[f].hash
    BY <2>1, <2>3 DEF SessionOK, SummariesOK
  <2> QED BY <1>3, <2>1, <2>2, <2>4 DEF FreshSummary
<1> QED BY <1>3, <1>4, <1>5 DEF SessionOK

\* After a resume the checkpoint is what the agent was told, where the two matter.
LEMMA ResumeAgrees ==
    ASSUME NEW s, SessionOK(s), CheckpointOK(s), disk \in [Files -> Anything], NEW identity,
           Evaluate(s, identity, Baseline(s))
    PROVE  SessionOK(session') /\ CheckpointOK(session')
<1> DEFINE stale == Invalidated(s) \cup (IF s.checkpoint = NoCheckpoint THEN {} ELSE StaleKeys(s))
<1>0. Baseline(s) \in [Files -> Anything]
  <2>1. \A f \in Files : Named(s, f) # {} => (CHOOSE c \in Named(s, f) : TRUE) \in Named(s, f)
    OBVIOUS
  <2>2. \A f \in Files : Named(s, f) \subseteq Anything
    BY DEF Named, Anything
  <2> QED BY <2>1, <2>2 DEF Baseline
<1>1. SessionOK(session')
  BY <1>0, EvaluateKeeps DEF Baseline
<1>2. session' = [[s EXCEPT !.told = [f \in Files |-> IF f \in stale THEN Baseline(s)[f] ELSE @[f]],
                            !.blind = {f \in @ : f \notin stale \/ FreshSummary(s, f)}]
                     EXCEPT !.summaries = [f \in Files |-> IF f \in Invalidated(s) THEN NoSummary
                                                           ELSE @[f]]]
  BY DEF Evaluate, Tell
<1> HIDE DEF stale
<1>3. /\ session'.checkpoint = s.checkpoint
      /\ session'.told = [f \in Files |-> IF f \in stale THEN Baseline(s)[f] ELSE s.told[f]]
      /\ session'.blind = {f \in s.blind : f \notin stale \/ FreshSummary(s, f)}
      /\ session'.summaries = [f \in Files |-> IF f \in Invalidated(s) THEN NoSummary
                                               ELSE s.summaries[f]]
  BY <1>2 DEF SessionOK, SessionTyped
<1>4. ASSUME NEW f \in Files, NEW c \in Named(session', f), f \notin session'.blind,
             session'.told[f] # c
      PROVE  f \in Summarized(session') /\ session'.summaries[f].hash # c
  <2>1. Named(session', f) = Named(s, f)
    BY <1>3 DEF Named
  <2>2. CASE f \notin stale
    <3>1. f \notin s.blind /\ s.told[f] # c /\ f \notin Invalidated(s)
      BY <2>2, <1>3, <1>4 DEF stale
    <3>2. f \in Summarized(s) /\ s.summaries[f].hash # c
      BY <3>1, <2>1, <1>4 DEF CheckpointOK
    <3> QED BY <3>1, <3>2, <1>3 DEF Summarized
  <2>3. CASE f \in stale /\ ~FreshSummary(s, f)
    <3>1. Baseline(s)[f] \in Named(s, f)
      BY <2>1, <2>3, <1>4 DEF Baseline
    <3>2. Baseline(s)[f] = c
      BY <3>1, <2>1, <1>4 DEF SessionOK, NamedOnce
    <3> QED BY <3>2, <2>3, <1>3, <1>4
  <2>4. CASE f \in stale /\ FreshSummary(s, f)
    <3>1. Baseline(s)[f] = disk[f] /\ s.summaries[f].hash = disk[f] /\ f \notin Invalidated(s)
      BY <2>4 DEF Baseline, FreshSummary, Invalidated
    <3>2. disk[f] # c
      BY <3>1, <2>4, <1>3, <1>4
    <3> QED BY <3>1, <3>2, <2>4, <1>3 DEF Summarized, FreshSummary
  <2> QED BY <2>2, <2>3, <2>4
<1>5. CheckpointOK(session')
  BY <1>4 DEF CheckpointOK
<1> QED BY <1>1, <1>5

\* A new checkpoint names the files as they are: what is unseen is marked.
LEMMA CheckpointAgrees ==
    ASSUME NEW s, SessionOK(s), disk \in [Files -> Anything]
    PROVE  SessionOK(WithCheckpoint(s)) /\ CheckpointOK(WithCheckpoint(s))
<1> DEFINE t == WithCheckpoint(s)
           files == ToSet(s.recent)
           unnoticed == {f \in files : s.told[f] # disk[f] /\ (f \in Summarized(s) => FreshSummary(s, f))}
<1>1. t = [s EXCEPT !.checkpoint = [keys |-> {<<f, disk[f]>> : f \in files}, identity |-> prefix],
                    !.blind = @ \cup unnoticed]
  BY DEF WithCheckpoint
<1> HIDE DEF t
<1>2. /\ t.recent = s.recent /\ t.summaries = s.summaries /\ t.told = s.told
      /\ t.checkpoint.keys = {<<f, disk[f]>> : f \in files}
      /\ t.blind = s.blind \cup unnoticed
  BY <1>1 DEF SessionOK, SessionTyped
<1>3. SessionOK(t)
  <2>1. t = [recent |-> s.recent, summaries |-> s.summaries, told |-> s.told, checkpoint |-> t.checkpoint,
             blind |-> s.blind \cup unnoticed]
    BY <1>1 DEF SessionOK, SessionTyped
  <2>2. SessionTyped(t)
    BY <2>1 DEF SessionOK, SessionTyped
  <2>3. NamedOnce(t)
    BY <1>2 DEF NamedOnce, Named
  <2>4. SummariesOK(t)
    BY <1>2 DEF SessionOK, SummariesOK, Summarized
  <2> QED BY <2>2, <2>3, <2>4 DEF SessionOK
<1>4. CheckpointOK(t)
  <2> SUFFICES ASSUME NEW f \in Files, NEW c \in Named(t, f), t.told[f] # c, f \notin t.blind
               PROVE  f \in Summarized(t) /\ t.summaries[f].hash # c
    BY DEF CheckpointOK
  <2>1. f \in files /\ c = disk[f]
    BY <1>2 DEF Named
  <2>2. f \notin unnoticed
    BY <1>2
  <2>3. f \in Summarized(s) /\ ~FreshSummary(s, f)
    BY <2>1, <2>2, <1>2
  <2> QED BY <2>1, <2>3, <1>2 DEF FreshSummary, Summarized
<1> QED BY <1>3, <1>4 DEF t

\* A reset leaves the checkpoint, and what it names is all the agent was told.
LEMMA ResetAgrees ==
    ASSUME SessionOK(session), disk \in [Files -> Anything], Reset
    PROVE  SessionOK(session') /\ CheckpointOK(session')
<1> DEFINE t == [NewSession EXCEPT !.checkpoint = session.checkpoint]
<1>1. t = [recent |-> <<>>, summaries |-> [f \in Files |-> NoSummary], checkpoint |-> session.checkpoint,
           told |-> [f \in Files |-> Start], blind |-> {}]
  <2> DEFINE none == [f \in Files |-> NoSummary]
             start == [f \in Files |-> Start]
  <2>1. NewSession = [recent |-> <<>>, summaries |-> none, checkpoint |-> NoCheckpoint,
                      told |-> start, blind |-> {}]
    BY DEF NewSession
  <2>2. t = [NewSession EXCEPT !.checkpoint = session.checkpoint]
    OBVIOUS
  <2> HIDE DEF none, start, t
  <2>3. t = [recent |-> <<>>, summaries |-> none, checkpoint |-> session.checkpoint,
             told |-> start, blind |-> {}]
    BY <2>1, <2>2
  <2> QED BY <2>3 DEF none, start
<1>2. session' = Tell(t, Files, Baseline(t))
  BY DEF Reset
<1> HIDE DEF t
<1>3. Summarized(t) = {}
  BY <1>1 DEF Summarized
<1>4. \A f \in Files : Named(t, f) = Named(session, f)
  BY <1>1 DEF Named
<1>5. session' = [recent |-> <<>>, summaries |-> t.summaries, checkpoint |-> session.checkpoint,
                  told |-> [f \in Files |-> Baseline(t)[f]], blind |-> {}]
  <2>1. {f \in t.blind : f \notin Files \/ FreshSummary(t, f)} = {}
    BY <1>1
  <2>2. [f \in Files |-> IF f \in Files THEN Baseline(t)[f] ELSE t.told[f]] = [f \in Files |-> Baseline(t)[f]]
    OBVIOUS
  <2> QED BY <1>1, <1>2, <2>1, <2>2 DEF Tell
<1>6. \A f \in Files : Baseline(t)[f] \in Anything /\ \A c \in Named(t, f) : Baseline(t)[f] = c
  <2> SUFFICES ASSUME NEW f \in Files
               PROVE  Baseline(t)[f] \in Anything /\ \A c \in Named(t, f) : Baseline(t)[f] = c
    OBVIOUS
  <2>1. ~FreshSummary(t, f)
    BY <1>3 DEF FreshSummary
  <2>2. CASE Named(t, f) = {}
    BY <2>2 DEF Baseline
  <2>3. CASE Named(t, f) # {}
    <3>1. Baseline(t)[f] \in Named(t, f)
      BY <2>1, <2>3 DEF Baseline
    <3>2. Named(t, f) \subseteq Anything
      BY DEF Named, Anything
    <3> QED BY <3>1, <3>2, <1>4 DEF SessionOK, NamedOnce
  <2> QED BY <2>2, <2>3
<1>7. \A f \in Files : Named(session', f) = Named(session, f)
  BY <1>5 DEF Named
<1>8. Summarized(session') = {}
  BY <1>3, <1>5 DEF Summarized
<1>9. SessionTyped(session')
  <2>1. NoSummary \in Summaries
    BY DEF NoSummary, Summaries, Anything
  <2> QED BY <2>1, <1>1, <1>5, <1>6 DEF SessionTyped
<1> QED BY <1>4, <1>5, <1>6, <1>7, <1>8, <1>9 DEF SessionOK, NamedOnce, SummariesOK, CheckpointOK

\* A file that was read or written, and what is kept of it.
LEMMA UpdateKeeps ==
    ASSUME SessionOK(session), MemoryTypeOK, UpdateMemory
    PROVE  SessionOK(session')
<1>1. CASE UNCHANGED session
  BY <1>1
<1>2. CASE ~UNCHANGED session
  <2> DEFINE f == call.file
             s == [session EXCEPT
                     !.recent = Remember(@, f),
                     !.summaries[f] = IF call.name = "read_file" THEN [of |-> text, hash |-> disk[f]]
                                      ELSE NoSummary,
                     !.told[f] = IF call.name = "read_file" THEN text ELSE disk[f]]
  <2>1. f \in Files
    BY <1>2 DEF UpdateMemory
  <2>2. session' = [s EXCEPT !.blind = IF s.told[f] = disk[f] THEN @ \ {f} ELSE @ \cup {f}]
    BY <1>2 DEF UpdateMemory
  <2>3. SessionTyped(session) /\ text \in Anything /\ disk \in [Files -> Anything]
    BY DEF MemoryTypeOK
  <2>4. s = [recent |-> Remember(session.recent, f), checkpoint |-> session.checkpoint,
             blind |-> session.blind,
             summaries |-> [session.summaries EXCEPT ![f] =
                 IF call.name = "read_file" THEN [of |-> text, hash |-> disk[f]] ELSE NoSummary],
             told |-> [session.told EXCEPT ![f] = IF call.name = "read_file" THEN text ELSE disk[f]]]
    <3> DEFINE new == IF call.name = "read_file" THEN [of |-> text, hash |-> disk[f]] ELSE NoSummary
               now == IF call.name = "read_file" THEN text ELSE disk[f]
    <3>1. s = [session EXCEPT !.recent = Remember(@, f), !.summaries[f] = new, !.told[f] = now]
      OBVIOUS
    <3> HIDE DEF new, now, s, f
    <3>2. s = [recent |-> Remember(session.recent, f), checkpoint |-> session.checkpoint,
               blind |-> session.blind, summaries |-> [session.summaries EXCEPT ![f] = new],
               told |-> [session.told EXCEPT ![f] = now]]
      BY <2>3, <3>1 DEF SessionTyped
    <3> QED BY <3>2 DEF new, now
  <2> HIDE DEF f, s
  <2>5. /\ session'.checkpoint = session.checkpoint /\ session'.recent = Remember(session.recent, f)
        /\ session'.summaries = s.summaries /\ session'.told = s.told
        /\ session'.blind = IF s.told[f] = disk[f] THEN session.blind \ {f} ELSE session.blind \cup {f}
        /\ session' = [recent |-> Remember(session.recent, f), checkpoint |-> session.checkpoint,
                       blind |-> session'.blind, summaries |-> s.summaries, told |-> s.told]
    BY <2>2, <2>4
  <2>6. NoSummary \in Summaries /\ [of |-> text, hash |-> disk[f]] \in Summaries
    BY <2>1, <2>3 DEF NoSummary, Summaries, Anything
  <2>7. s.summaries \in [Files -> Summaries] /\ s.told \in [Files -> Anything]
    BY <2>1, <2>3, <2>4, <2>6 DEF SessionTyped
  <2>8. SessionTyped(session')
    BY <2>5, <2>7 DEF SessionTyped
  <2>9. NamedOnce(session')
    BY <2>5 DEF SessionOK, NamedOnce, Named
  <2>10. SummariesOK(session')
    <3> SUFFICES ASSUME NEW g \in Summarized(session'), g \notin session'.blind
                 PROVE  /\ session'.summaries[g].of = session'.summaries[g].hash
                        /\ session'.told[g] = session'.summaries[g].hash
      BY DEF SummariesOK
    <3>1. CASE g # f
      <4>1. /\ g \in Summarized(session) /\ g \notin session.blind
            /\ session'.summaries[g] = session.summaries[g] /\ session'.told[g] = session.told[g]
        BY <3>1, <2>3, <2>4, <2>5 DEF Summarized, SessionTyped
      <4> QED BY <4>1 DEF SessionOK, SummariesOK
    <3>2. CASE g = f
      <4>1. /\ s.told[f] = IF call.name = "read_file" THEN text ELSE disk[f]
            /\ s.summaries[f] = IF call.name = "read_file" THEN [of |-> text, hash |-> disk[f]]
                                ELSE NoSummary
        BY <2>1, <2>3, <2>4 DEF SessionTyped
      <4>2. s.told[f] = disk[f]
        BY <3>2, <2>5
      <4>3. call.name = "read_file"
        BY <3>2, <4>1, <2>5 DEF Summarized
      <4> QED BY <3>2, <4>1, <4>2, <4>3, <2>5
    <3> QED BY <3>1, <3>2
  <2> QED BY <2>8, <2>9, <2>10 DEF SessionOK
<1> QED BY <1>1, <1>2

\* What is stored before the checkpoint marks what that would have named.
LEMMA RecordAgrees ==
    ASSUME SessionOK(session), RecordTool
    PROVE  SessionOK(saved') /\ CheckpointOK(saved')
<1> DEFINE behind == {f \in Files \ Summarized(session) :
                         \E c \in Named(session, f) : session.told[f] # c}
<1>1. saved' = [session EXCEPT !.blind = @ \cup behind]
  BY DEF RecordTool
<1>2. saved' = [recent |-> session.recent, summaries |-> session.summaries, told |-> session.told,
                checkpoint |-> session.checkpoint, blind |-> session.blind \cup behind]
  BY <1>1 DEF SessionOK, SessionTyped
<1> HIDE DEF behind
<1>3. /\ saved'.summaries = session.summaries /\ saved'.told = session.told
      /\ saved'.checkpoint = session.checkpoint /\ saved'.blind = session.blind \cup behind
  BY <1>2
<1>4. SessionTyped(saved')
  BY <1>2 DEF SessionOK, SessionTyped
<1>5. NamedOnce(saved') /\ SummariesOK(saved')
  BY <1>3 DEF SessionOK, NamedOnce, Named, SummariesOK, Summarized
<1>6. CheckpointOK(saved')
  <2> SUFFICES ASSUME NEW f \in Files, NEW c \in Named(saved', f), saved'.told[f] # c,
                      f \notin saved'.blind
               PROVE  f \in Summarized(saved') /\ saved'.summaries[f].hash # c
    BY DEF CheckpointOK
  <2>1. c \in Named(session, f) /\ f \notin behind /\ f \notin session.blind /\ session.told[f] # c
    BY <1>3 DEF Named
  <2>2. f \in Summarized(session)
    BY <2>1 DEF behind
  <2>3. session.told[f] = session.summaries[f].hash
    BY <2>1, <2>2 DEF SessionOK, SummariesOK
  <2> QED BY <2>1, <2>2, <2>3, <1>3 DEF Summarized
<1> QED BY <1>4, <1>5, <1>6 DEF SessionOK

-----------------------------------------------------------------------------
\* The invariant holds at first.
LEMMA InitMemory == Init => MemoryInv
<1> SUFFICES ASSUME Init PROVE MemoryInv
  OBVIOUS
<1> USE DEF Init
<1>1. NoSummary \in Summaries /\ Start \in Anything /\ Absent \in Anything
  BY DEF NoSummary, Summaries, Anything, Start, Contents
<1>2. NewSession = [recent |-> <<>>, summaries |-> [f \in Files |-> NoSummary],
                    checkpoint |-> NoCheckpoint, told |-> [f \in Files |-> Start], blind |-> {}]
  BY DEF NewSession
<1>3. SessionTyped(NewSession)
  BY <1>1, <1>2 DEF SessionTyped
<1>4. \A f \in Files : Named(NewSession, f) = {}
  BY <1>2 DEF Named, NoCheckpoint
<1>5. Summarized(NewSession) = {}
  BY <1>2 DEF Summarized
<1>6. SessionOK(NewSession) /\ CheckpointOK(NewSession)
  BY <1>3, <1>4, <1>5 DEF SessionOK, NamedOnce, SummariesOK, CheckpointOK
<1>7. KnowledgeOK
  BY <1>6 DEF KnowledgeOK
<1>8. MemoryTypeOK
  BY <1>1, <1>3 DEF MemoryTypeOK, Places, InTool, NoResult, Nothing
<1>9. ToolOK
  BY DEF ToolOK, BeforeOK, PatchOK, DidOK, ResultTellsTruth
<1> QED BY <1>7, <1>8, <1>9 DEF MemoryInv

\* The session in memory and the stored one, step by step.
LEMMA KnowledgeStep == ASSUME MemoryInv, [Next]_vars PROVE KnowledgeOK'
<1>0. /\ MemoryTypeOK /\ KnowledgeOK /\ disk \in [Files -> Anything]
  BY DEF MemoryInv, MemoryTypeOK
<1> SUFFICES /\ SessionOK(session') /\ SessionOK(saved') /\ CheckpointOK(saved')
             /\ at' \in {"idle", "loop"} => CheckpointOK(session')
             /\ at' = "down" => session' = saved'
  BY DEF KnowledgeOK, SessionOK, SessionTyped, NamedOnce, SummariesOK, CheckpointOK,
         Named, Summarized
<1> USE DEF Goto
<1>1. CASE Construct
  <2>1. PICK o \in Options : Evaluate(saved, prefix', Baseline(saved))
    BY <1>1 DEF Construct
  <2>2. SessionOK(session') /\ CheckpointOK(session')
    BY <2>1, <1>0, ResumeAgrees DEF KnowledgeOK
  <2> QED BY <2>2, <1>1 DEF Construct
<1>2. CASE Prompt
  <2>1. SessionOK(session')
    BY <1>2, <1>0, EvaluateKeeps DEF Prompt, KnowledgeOK
  <2> QED BY <2>1, <1>2, <1>0 DEF Prompt, KnowledgeOK
<1>3. CASE NoticeChange \/ Answer \/ CheckpointTool
  <2>1. CASE UNCHANGED <<session, saved>> /\ at' = "model"
    BY <2>1, <1>0 DEF KnowledgeOK
  <2>2. CASE SaveCheckpoint /\ at' # "down"
    <3>1. SessionOK(session') /\ CheckpointOK(session') /\ saved' = session'
      BY <2>2, <1>0, CheckpointAgrees DEF SaveCheckpoint, KnowledgeOK
    <3> QED BY <3>1, <2>2
  <2> QED BY <2>1, <2>2, <1>3 DEF NoticeChange, Answer, CheckpointTool
<1>4. CASE Reset
  <2>1. SessionOK(session') /\ CheckpointOK(session')
    BY <1>4, <1>0, ResetAgrees DEF KnowledgeOK
  <2> QED BY <2>1, <1>4 DEF Reset
<1>5. CASE UpdateMemory
  <2>1. SessionOK(session')
    BY <1>5, <1>0, UpdateKeeps DEF KnowledgeOK
  <2> QED BY <2>1, <1>5, <1>0 DEF UpdateMemory, KnowledgeOK
<1>6. CASE RecordTool
  <2>1. SessionOK(saved') /\ CheckpointOK(saved')
    BY <1>6, <1>0, RecordAgrees DEF KnowledgeOK
  <2> QED BY <2>1, <1>6, <1>0 DEF RecordTool, KnowledgeOK
<1>7. CASE Die
  <2>1. session' = saved /\ saved' = saved /\ at' = "down"
    BY <1>7 DEF Die
  <2> QED BY <2>1, <1>0 DEF KnowledgeOK
<1>8. CASE \/ Render \/ Ask \/ Refuse \/ Validate \/ Approve \/ ReadFile \/ WriteFile
           \/ RunShell \/ Compare
  <2>1. session' = session /\ saved' = saved /\ at' \notin {"idle", "loop", "down"}
    BY <1>8 DEF Render, Ask, Refuse, Validate, Approve, ReadFile, WriteFile, RunShell, Compare,
                agent, Ran
  <2> QED BY <2>1, <1>0 DEF KnowledgeOK
<1>9. CASE UNCHANGED vars \/ \E f \in Files : Edit(f)
  <2>1. session' = session /\ saved' = saved /\ at' = at
    BY <1>9 DEF Edit, vars, agent
  <2> QED BY <2>1, <1>0 DEF KnowledgeOK
<1> QED BY <1>1, <1>2, <1>3, <1>4, <1>5, <1>6, <1>7, <1>8, <1>9 DEF Next, AgentStep

\* The types, by what the steps do.
LEMMA MemoryTypeStep == ASSUME MemoryInv, [Next]_vars PROVE MemoryTypeOK'
<1>0. SessionTyped(session)' /\ SessionTyped(saved)'
  BY KnowledgeStep DEF KnowledgeOK, SessionOK
<1>1. MemoryTypeOK /\ PatchOK
  BY DEF MemoryInv, ToolOK
<1> DEFINE ToolTypeOK ==
      /\ disk \in [Files -> Anything] /\ at \in Places
      /\ IF at \in InTool THEN call \in Calls ELSE call = NoCall
      /\ text \in Anything
      /\ result \in [status : {"none", "ok", "exit", "error", "partial_success", "rejected"},
                     affected : SUBSET Files]
      /\ did \in [files : SUBSET Files, exact : BOOLEAN] /\ touched \subseteq Files
<1> SUFFICES ToolTypeOK'
  BY <1>0 DEF MemoryTypeOK
<1> USE <1>1 DEF MemoryTypeOK, Places, InTool, Goto, tool
<1>2. Absent \in Anything /\ [by |-> "failure", olds |-> 0] \in Anything
      /\ \A n \in 0..2 : [by |-> "agent", olds |-> n] \in Anything
  BY DEF Anything, Contents
<1>3. /\ NoResult \in [status : {"none", "ok", "exit", "error", "partial_success", "rejected"},
                       affected : SUBSET Files]
      /\ Nothing \in [files : SUBSET Files, exact : BOOLEAN]
  BY DEF NoResult, Nothing
<1>4. ASSUME NEW f \in Files, NEW c \in Anything, Change(f, c)
      PROVE  disk' \in [Files -> Anything] /\ did' \in [files : SUBSET Files, exact : BOOLEAN]
  BY <1>4 DEF Change
<1>5. CASE Construct \/ Prompt \/ Render \/ NoticeChange \/ Answer \/ Reset
  BY <1>5 DEF Construct, Prompt, Render, NoticeChange, Answer, Reset
<1>6. CASE Ask
  BY <1>6 DEF Ask
<1>7. CASE Refuse
  BY <1>7 DEF Refuse
<1>8. CASE Validate \/ Approve
  BY <1>8 DEF Validate, Approve
<1>9. CASE ReadFile
  <2>1. call.file \in Files
    BY <1>9 DEF ReadFile, Calls
  <2> QED BY <2>1, <1>9 DEF ReadFile, Ran
<1>10. CASE WriteFile
  <2> DEFINE new == [by |-> "agent", olds |-> IF at = "write" THEN text.olds - 1 ELSE 1]
  <2>1. call.file \in Files
    BY <1>10 DEF WriteFile, PatchOK, Calls
  <2>2. new \in Anything
    BY <1>2, <1>10 DEF WriteFile, PatchOK
  <2>3. /\ at' = "ran" /\ call' = call /\ call \in Calls /\ text' = text /\ touched' = touched
        /\ \/ Ran("ok") /\ disk' = [disk EXCEPT ![call.file] = new]
              /\ did' = [files |-> IF disk[call.file] = new THEN {} ELSE {call.file},
                         exact |-> text.olds = 1 /\ disk[call.file] = text]
           \/ Ran("error") /\ Change(call.file, [by |-> "failure", olds |-> 0])
           \/ Ran("error") /\ UNCHANGED <<disk, did>>
    BY <1>10 DEF WriteFile
  <2> HIDE DEF new
  <2>4. did' \in [files : SUBSET Files, exact : BOOLEAN] /\ disk' \in [Files -> Anything]
    <3>1. CASE /\ disk' = [disk EXCEPT ![call.file] = new]
               /\ did' = [files |-> IF disk[call.file] = new THEN {} ELSE {call.file},
                          exact |-> text.olds = 1 /\ disk[call.file] = text]
      <4> DEFINE isExact == text.olds = 1 /\ disk[call.file] = text
                 files == IF disk[call.file] = new THEN {} ELSE {call.file}
      <4>1. did' = [files |-> files, exact |-> isExact]
        BY <3>1
      <4>2. isExact \in BOOLEAN /\ files \in SUBSET Files
        BY <2>1
      <4> HIDE DEF isExact, files
      <4> QED BY <4>1, <4>2, <3>1, <2>1, <2>2
    <3>2. CASE Change(call.file, [by |-> "failure", olds |-> 0])
      BY <3>2, <2>1, <1>2, <1>4
    <3>3. CASE UNCHANGED <<disk, did>>
      BY <3>3
    <3> QED BY <2>3, <3>1, <3>2, <3>3
  <2>5. result' \in [status : {"none", "ok", "exit", "error", "partial_success", "rejected"},
                     affected : SUBSET Files]
    BY <2>3 DEF Ran
  <2> QED BY <2>3, <2>4, <2>5
<1>11. CASE RunShell
  <2>1. did' \in [files : SUBSET Files, exact : BOOLEAN] /\ disk' \in [Files -> Anything]
    BY <1>11, <1>2, <1>4 DEF RunShell
  <2> QED BY <2>1, <1>11 DEF RunShell, Ran
<1>12. CASE Compare
  BY <1>12 DEF Compare, Diff
<1>13. CASE UpdateMemory
  BY <1>13 DEF UpdateMemory
<1>14. CASE RecordTool
  BY <1>14, <1>2, <1>3 DEF RecordTool
<1>15. CASE CheckpointTool
  BY <1>15 DEF CheckpointTool
<1>16. CASE Die
  BY <1>16, <1>2, <1>3 DEF Die
<1>17. ASSUME NEW f \in Files, Edit(f) PROVE ToolTypeOK'
  <2>1. disk' \in [Files -> Anything]
    BY <1>17, AgentAssumption DEF Edit, Anything
  <2> QED BY <2>1, <1>17 DEF Edit
<1>18. CASE UNCHANGED vars
  BY <1>18 DEF vars
<1> QED BY <1>5, <1>6, <1>7, <1>8, <1>9, <1>10, <1>11, <1>12, <1>13, <1>14, <1>15, <1>16, <1>17,
           <1>18 DEF Next, AgentStep

\* A call is told from none by its name.
LEMMA NoCallIsNone == NoCall \notin Calls
<1>1. NoCall.name = "none"
  BY DEF NoCall
<1>2. \A c \in Calls : c.name \in {"read_file", "write_file", "patch_file", "run_shell"}
  BY DEF Calls, FileTools
<1> QED BY <1>1, <1>2

\* The snapshot is of the files as they are, until others touch them.
LEMMA BeforeStep == ASSUME MemoryInv, [Next]_vars PROVE BeforeOK'
<1>1. MemoryTypeOK /\ BeforeOK /\ PatchOK
  BY DEF MemoryInv, ToolOK
<1> USE <1>1 DEF MemoryTypeOK, BeforeOK, Untouched, Goto, tool, Risky
<1>2. CASE at' \notin {"run", "write", "ran"}
  BY <1>2
<1>3. CASE Validate
  BY <1>3 DEF Validate, Risky
<1>4. CASE Approve
  BY <1>4 DEF Approve
<1>5. CASE ReadFile
  BY <1>5 DEF ReadFile
<1>6. CASE WriteFile
  <2>1. at' = "ran" /\ call' = call /\ before' = before /\ at \in {"run", "write"}
    BY <1>6 DEF WriteFile
  <2> QED BY <2>1
<1>7. CASE RunShell
  <2>1. at' = "ran" /\ call' = call /\ before' = before /\ at = "run"
    BY <1>7 DEF RunShell
  <2> QED BY <2>1
<1>8. ASSUME NEW f \in Files, Edit(f), at \in InTool PROVE BeforeOK'
  <2>1. call # NoCall
    BY <1>8, NoCallIsNone
  <2>2. /\ touched' = touched \cup {f} /\ call' = call /\ before' = before /\ at' = at
        /\ \A g \in Files \ {f} : disk'[g] = disk[g]
    BY <1>8, <2>1 DEF Edit
  <2> QED BY <2>2
<1>9. CASE UNCHANGED vars
  BY <1>9 DEF vars
<1>10. ASSUME NEW f \in Files, Edit(f), at \notin InTool PROVE BeforeOK'
  BY <1>2, <1>10 DEF Edit, InTool
<1>11. CASE \/ Construct \/ Prompt \/ Render \/ NoticeChange \/ Answer \/ Reset \/ Ask \/ Refuse
            \/ Compare \/ UpdateMemory \/ RecordTool \/ CheckpointTool \/ Die
  <2>1. at' \notin {"run", "write", "ran"}
    BY <1>11 DEF Construct, Prompt, Render, NoticeChange, Answer, Reset, Ask, Refuse, Compare,
                 UpdateMemory, RecordTool, CheckpointTool, Die
  <2> QED BY <2>1, <1>2
<1> QED BY <1>3, <1>4, <1>5, <1>6, <1>7, <1>8, <1>9, <1>10, <1>11 DEF Next, AgentStep

\* A patch is of a text that occurs once, unless others touch the file.
LEMMA PatchStep == ASSUME MemoryInv, [Next]_vars PROVE PatchOK'
<1>1. MemoryTypeOK /\ PatchOK
  BY DEF MemoryInv, ToolOK
<1> USE <1>1 DEF MemoryTypeOK, PatchOK, Untouched, Goto, tool
<1>2. CASE at' \notin {"approve", "run", "write", "threw"}
  BY <1>2
<1>3. CASE Validate
  BY <1>3 DEF Validate, Valid, OccursOnce, Risky, Calls, FileTools
<1>4. CASE Approve
  BY <1>4 DEF Approve
<1>5. CASE ReadFile
  <2>1. call.file \in Files
    BY <1>5 DEF ReadFile, Calls, InTool
  <2>2. text' = disk[call.file] /\ text' \in Anything /\ call' = call /\ touched' = touched /\ disk' = disk
    BY <2>1, <1>5 DEF ReadFile
  <2>3. at' # "ran" => text' \in Contents /\ text'.olds \in 0..2 /\ call.name = "patch_file"
                       /\ at' = (IF text'.olds = 0 THEN "threw" ELSE "write") /\ at = "run"
    BY <2>2, <1>5 DEF ReadFile, Anything, Contents
  <2> QED BY <2>2, <2>3
<1>6. ASSUME NEW f \in Files, Edit(f), at \in InTool PROVE PatchOK'
  <2>1. call # NoCall
    BY <1>6, NoCallIsNone
  <2>2. /\ touched' = touched \cup {f} /\ call' = call /\ at' = at /\ text' = text
        /\ \A g \in Files \ {f} : disk'[g] = disk[g]
    BY <1>6, <2>1 DEF Edit
  <2> QED BY <2>2
<1>7. CASE UNCHANGED vars
  BY <1>7 DEF vars
<1>8. ASSUME NEW f \in Files, Edit(f), at \notin InTool PROVE PatchOK'
  BY <1>2, <1>8 DEF Edit, InTool
<1>9. CASE \/ Construct \/ Prompt \/ Render \/ NoticeChange \/ Answer \/ Reset \/ Ask \/ Refuse
           \/ WriteFile \/ RunShell \/ Compare \/ UpdateMemory \/ RecordTool \/ CheckpointTool \/ Die
  <2>1. at' \notin {"approve", "run", "write", "threw"}
    BY <1>9 DEF Construct, Prompt, Render, NoticeChange, Answer, Reset, Ask, Refuse, WriteFile,
                RunShell, Compare, UpdateMemory, RecordTool, CheckpointTool, Die
  <2> QED BY <2>1, <1>2
<1> QED BY <1>3, <1>4, <1>5, <1>6, <1>7, <1>8, <1>9 DEF Next, AgentStep

\* What the tool did differs from the snapshot, and so does the result say.
LEMMA DidStep == ASSUME MemoryInv, [Next]_vars PROVE DidOK'
<1>1. MemoryTypeOK /\ BeforeOK /\ PatchOK /\ DidOK
  BY DEF MemoryInv, ToolOK
<1> USE <1>1 DEF MemoryTypeOK, DidOK, ResultTellsTruth, Untouched, Goto, tool, Nothing
<1>2. CASE \/ Construct \/ Prompt \/ Render \/ NoticeChange \/ Answer \/ Reset \/ Ask
           \/ Validate \/ Approve \/ RecordTool \/ CheckpointTool \/ Die
  <2>1. at' \notin {"ran", "compared", "executed"} /\ did' = Nothing
    BY <1>2 DEF Construct, Prompt, Render, NoticeChange, Answer, Reset, Ask, Validate, Approve,
                 RecordTool, CheckpointTool, Die
  <2> QED BY <2>1
<1>3. CASE Refuse
  BY <1>3 DEF Refuse
<1>4. CASE ReadFile
  BY <1>4 DEF ReadFile, Ran
<1>5. CASE WriteFile
  <2>1. call.file \in Files /\ Risky /\ did = Nothing
    BY <1>5 DEF WriteFile, PatchOK, Calls, InTool, Risky
  <2>2. /\ at' = "ran" /\ call' = call /\ touched' = touched /\ before' = before
        /\ (at = "run" /\ call.name = "write_file") \/ at = "write"
    BY <1>5 DEF WriteFile
  <2>3. \A f \in Files \ touched : before[f] = disk[f]
    BY <2>1, <2>2 DEF BeforeOK
  <2>4. \A f \in did'.files : f = call.file /\ disk'[f] # disk[f]
    BY <2>1, <1>5 DEF WriteFile, Change
  <2>5. \A f \in did'.files \cap Untouched' : Risky' /\ before'[f] # disk'[f]
    BY <2>1, <2>2, <2>3, <2>4 DEF Risky
  <2>6. call.name = "patch_file" /\ result'.status = "ok" => did'.exact \/ call.file \in touched
    <3> SUFFICES ASSUME call.name = "patch_file", result'.status = "ok", call.file \notin touched
                 PROVE  did'.exact
      OBVIOUS
    <3> DEFINE isExact == text.olds = 1 /\ disk[call.file] = text
    <3>1. isExact
      BY <2>1, <2>2 DEF PatchOK
    <3>2. did'.exact = isExact
      BY <1>5 DEF WriteFile, Ran
    <3> QED BY <3>1, <3>2
  <2>7. result'.status \notin {"none", "partial_success", "rejected"}
    BY <1>5 DEF WriteFile, Ran
  <2> QED BY <2>2, <2>5, <2>6, <2>7
<1>6. CASE RunShell
  <2>1. call.name = "run_shell" /\ Risky /\ did = Nothing
    BY <1>6 DEF RunShell, Risky
  <2>2. at' = "ran" /\ call' = call /\ touched' = touched /\ before' = before /\ at = "run"
    BY <1>6 DEF RunShell
  <2>3. \A f \in Files \ touched : before[f] = disk[f]
    BY <2>1, <2>2 DEF BeforeOK
  <2>4. \A f \in did'.files : f \in Files /\ disk'[f] # disk[f]
    BY <2>1, <1>6 DEF RunShell, Change
  <2>5. \A f \in did'.files \cap Untouched' : Risky' /\ before'[f] # disk'[f]
    BY <2>1, <2>2, <2>3, <2>4 DEF Risky
  <2> QED BY <2>1, <2>2, <2>5
<1>7. CASE Compare
  BY <1>7 DEF Compare, Diff
<1>8. CASE UpdateMemory
  BY <1>8 DEF UpdateMemory
<1>9. ASSUME NEW f \in Files, Edit(f) PROVE DidOK'
  <2>1. /\ call' = call /\ at' = at /\ did' = did /\ result' = result /\ before' = before
        /\ touched \subseteq touched' /\ \A g \in Files \ touched' : g # f \/ at \notin InTool
        /\ \A g \in Files \ {f} : disk'[g] = disk[g]
    BY <1>9, NoCallIsNone DEF Edit
  <2> QED BY <2>1 DEF Risky, InTool
<1>10. CASE UNCHANGED vars
  BY <1>10 DEF vars, Risky
<1> QED BY <1>2, <1>3, <1>4, <1>5, <1>6, <1>7, <1>8, <1>9, <1>10 DEF Next, AgentStep

\* The invariant is inductive.
LEMMA NextMemory == MemoryInv /\ [Next]_vars => MemoryInv'
  BY MemoryTypeStep, KnowledgeStep, BeforeStep, PatchStep, DidStep DEF MemoryInv, ToolOK

\* A summary that is shown has a hash that is the file's, so it is of the file,
\* unless it is marked.
LEMMA ShownIsCurrent ==
    ASSUME MemoryInv, [Next]_vars, at = "evaluated", at' = "notice", NEW f \in shown'
    PROVE  session.summaries[f].of = disk[f] \/ f \in session.blind
<1>1. Render
  BY DEF Next, AgentStep, Construct, Prompt, Render, NoticeChange, Answer, Reset, Ask, Refuse,
         Validate, Approve, ReadFile, WriteFile, RunShell, Compare, UpdateMemory, RecordTool,
         CheckpointTool, Die, Edit, vars, Goto
<1>2. f \in Summarized(session) /\ session.summaries[f].hash = disk[f]
  BY <1>1 DEF Render, FreshSummary
<1>3. SummariesOK(session)
  BY DEF MemoryInv, KnowledgeOK, SessionOK
<1> QED BY <1>2, <1>3 DEF SummariesOK

\* A prompt or a resume compares what was told with the file as it is.
LEMMA EvaluationNotices ==
    ASSUME MemoryInv, [Next]_vars, at' # at, at' = "evaluated" \/ at = "down", NEW f \in Files,
           f \in Summarized(session) \/ \E c \in Contents : <<f, c>> \in session.checkpoint.keys,
           session.told[f] # disk[f], f \notin session.blind
    PROVE  f \in resume'.stale
<1> DEFINE stale == Invalidated(session) \cup
                    (IF session.checkpoint = NoCheckpoint THEN {} ELSE StaleKeys(session))
<1>1. /\ SessionOK(session) /\ CheckpointOK(session)
      /\ resume'.stale = stale
  <2>1. KnowledgeOK
    BY DEF MemoryInv
  <2>2. Prompt \/ Construct
    BY DEF Next, AgentStep, Construct, Prompt, Render, NoticeChange, Answer, Reset, Ask, Refuse,
           Validate, Approve, ReadFile, WriteFile, RunShell, Compare, UpdateMemory, RecordTool,
           CheckpointTool, Die, Edit, vars, Goto
  <2>3. CASE Prompt
    <3>1. Evaluate(session, prefix', disk) /\ at \in {"idle", "loop"}
      BY <2>3 DEF Prompt
    <3> QED BY <3>1, <2>1 DEF Evaluate, KnowledgeOK
  <2>4. CASE Construct
    <3>1. at = "down" /\ \E o \in Options : Evaluate(saved, prefix', Baseline(saved))
      BY <2>4 DEF Construct, Goto
    <3>2. session = saved
      BY <3>1, <2>1 DEF KnowledgeOK
    <3> QED BY <3>1, <3>2, <2>1 DEF Evaluate, KnowledgeOK
  <2> QED BY <2>2, <2>3, <2>4
<1>2. CASE f \in Summarized(session)
  <2>1. session.summaries[f].hash # disk[f]
    BY <1>1, <1>2 DEF SessionOK, SummariesOK
  <2> QED BY <1>1, <1>2, <2>1 DEF Invalidated, FreshSummary
<1>3. CASE f \notin Summarized(session)
  <2>1. PICK c \in Contents : <<f, c>> \in session.checkpoint.keys
    BY <1>3
  <2>2. c \in Named(session, f)
    BY <2>1 DEF Named
  <2>3. session.told[f] = c
    BY <1>1, <1>3, <2>2 DEF CheckpointOK
  <2>4. f \in StaleKeys(session)
    BY <2>2, <2>3 DEF StaleKeys
  <2>5. session.checkpoint # NoCheckpoint
    BY <2>1 DEF NoCheckpoint
  <2> QED BY <1>1, <2>4, <2>5
<1> QED BY <1>2, <1>3

\* Types of the disk, the sessions and the tool.
THEOREM MemoryTypeCorrect == Spec => []MemoryTypeOK
<1>1. MemoryInv => MemoryTypeOK
  BY DEF MemoryInv
<1> QED BY InitMemory, NextMemory, <1>1, PTL DEF Spec

\* The result of a tool says what the tool did, whatever others do meanwhile to
\* other files, and wherever a failure or a refusal falls.
THEOREM ResultsAreTrue == Spec => []ResultTellsTruth
<1>1. MemoryInv => ResultTellsTruth
  BY DEF MemoryInv, ToolOK, DidOK
<1> QED BY InitMemory, NextMemory, <1>1, PTL DEF Spec

\* No prompt shows a summary of what a file no longer is, but for the change
\* between the read and its hash.
THEOREM ShownSummariesAreCurrent == Spec => SummariesAreCurrent
<1>1. MemoryInv /\ [Next]_vars =>
         [at = "evaluated" /\ at' = "notice" => \A f \in shown' :
             session.summaries[f].of = disk[f] \/ f \in session.blind]_vars
  BY ShownIsCurrent
<1> QED BY InitMemory, NextMemory, <1>1, PTL DEF Spec, SummariesAreCurrent

\* The next prompt or resume names every file that has changed, but for the marked.
THEOREM ChangesAreNoticed == Spec => EditsAreNoticed
<1>1. MemoryInv /\ [Next]_vars =>
         [at' # at /\ (at' = "evaluated" \/ at = "down") => \A f \in Files :
             /\ f \in Summarized(session) \/ \E c \in Contents : <<f, c>> \in session.checkpoint.keys
             /\ session.told[f] # disk[f]
             => f \in resume'.stale \cup session.blind]_vars
  BY EvaluationNotices
<1> QED BY InitMemory, NextMemory, <1>1, PTL DEF Spec, EditsAreNoticed

-----------------------------------------------------------------------------
(* ContextCache *)

\* A caller past the first critical section knows its key, one that waits its
\* leader, and one that has computed what it may publish.
CallersOK ==
    \A c \in Callers :
        /\ place[c] # "idle" => key[c] \in Keys
        /\ place[c] = "wait" => leader[c] \in Callers
        /\ place[c] = "publish" => computed[c] # None

\* What a leader is about to publish is as new as the last invalidation, or
\* the invalidation met the computation.
ComputedOK ==
    \A c \in Callers :
        place[c] = "publish" /\ computed[c] < settled[key[c]] => key[c] \in raced

SettledOK == \A k \in Keys : settled[k] <= source[k]

CacheInv ==
    /\ TypeOK /\ CallersOK /\ LruMatchesEntries /\ SingleFlight
    /\ SettledOK /\ ComputedOK /\ StaleOnlyAfterRace

-----------------------------------------------------------------------------
\* The keys of an order without repetitions are as many as its places.
LEMMA OrderSize ==
    ASSUME NEW S, NEW order \in Seq(S)
    PROVE  /\ IsFiniteSet(ToSet(order))
           /\ Cardinality(ToSet(order)) = Len(order)
                <=> \A i, j \in 1..Len(order) : order[i] = order[j] => i = j
<1> DEFINE T == ToSet(order)
           I == 1..Len(order)
<1>1. order \in Surjection(I, T)
  <2>1. order \in [I -> T]
    BY DEF ToSet
  <2>2. \A t \in T : \E i \in I : order[i] = t
    BY DEF ToSet
  <2> QED BY <2>1, <2>2 DEF Surjection
<1>2. IsFiniteSet(I) /\ Cardinality(I) = Len(order)
  <2>1. Len(order) \in Nat
    OBVIOUS
  <2> QED BY SMTT(30), <2>1, FS_Interval
<1>3. /\ IsFiniteSet(T)
      /\ Cardinality(T) = Cardinality(I) <=> order \in Injection(I, T)
  BY <1>1, <1>2, FS_Surjection
<1>4. order \in Injection(I, T) <=> \A i, j \in I : order[i] = order[j] => i = j
  BY <1>1 DEF Injection, Surjection, IsInjective
<1> HIDE DEF T, I
<1>5. IsFiniteSet(T) /\ (Cardinality(T) = Len(order)
                          <=> \A i, j \in I : order[i] = order[j] => i = j)
  BY <1>2, <1>3, <1>4
<1> QED BY <1>5 DEF T, I

\* The keys of an order are what it has at some place.
LEMMA KeysOfOrder ==
    \A order, e : e \in ToSet(order) <=> \E i \in DOMAIN order : order[i] = e
  BY DEF ToSet

\* RemoveAt: what is left of an order without the element at one place.
LEMMA RemoveAtShape ==
    ASSUME NEW S, NEW order \in Seq(S), NEW pos \in 1..Len(order)
    PROVE  /\ RemoveAt(order, pos) \in Seq(S)
           /\ Len(RemoveAt(order, pos)) = Len(order) - 1
           /\ \A i \in 1..(Len(order) - 1) :
                  RemoveAt(order, pos)[i] = order[IF i < pos THEN i ELSE i + 1]
<1> DEFINE left == SubSeq(order, 1, pos - 1)
           right == SubSeq(order, pos + 1, Len(order))
<1>0. Len(order) \in Nat /\ pos \in Nat /\ 1 <= pos /\ pos <= Len(order)
  OBVIOUS
<1>1. /\ left \in Seq(S) /\ Len(left) = pos - 1
      /\ \A i \in 1..(pos - 1) : left[i] = order[i]
  BY <1>0
<1>2. /\ right \in Seq(S) /\ Len(right) = Len(order) - pos
      /\ \A i \in 1..(Len(order) - pos) : right[i] = order[pos + i]
  BY <1>0
<1>3. RemoveAt(order, pos) = left \o right
  BY DEF RemoveAt
<1> HIDE DEF left, right
<1>4. RemoveAt(order, pos) \in Seq(S) /\ Len(RemoveAt(order, pos)) = Len(order) - 1
  <2>1. left \o right \in Seq(S) /\ Len(left \o right) = Len(order) - 1
    BY <1>0, <1>1, <1>2
  <2> QED BY ONLY <1>3, <2>1
<1>5. ASSUME NEW i \in 1..(Len(order) - 1)
      PROVE  RemoveAt(order, pos)[i] = order[IF i < pos THEN i ELSE i + 1]
  <2>1. CASE i < pos
    BY <1>0, <1>1, <1>2, <1>3, <2>1
  <2>2. CASE i >= pos
    <3>1. RemoveAt(order, pos)[i] = right[i - (pos - 1)]
      BY SMTT(30), <1>0, <1>1, <1>2, <1>3, <2>2
    <3>2. i - (pos - 1) \in 1..(Len(order) - pos) /\ pos + (i - (pos - 1)) = i + 1
      BY <1>0, <2>2
    <3>3. right[i - (pos - 1)] = order[pos + (i - (pos - 1))]
      BY <1>2, <3>2
    <3> QED BY <2>2, <3>1, <3>2, <3>3
  <2> QED BY <1>0, <2>1, <2>2
<1> QED BY <1>4, <1>5

\* Erase takes the key out of the order and keeps the others once each.
LEMMA EraseKey ==
    ASSUME NEW S, NEW order \in Seq(S), NEW k,
           Cardinality(ToSet(order)) = Len(order)
    PROVE  /\ Erase(order, k) \in Seq(S)
           /\ ToSet(Erase(order, k)) = ToSet(order) \ {k}
           /\ Len(Erase(order, k)) = Cardinality(ToSet(order) \ {k})
           /\ Len(Erase(order, k)) <= Len(order)
<1>0. /\ IsFiniteSet(ToSet(order)) /\ Len(order) \in Nat
      /\ \A i, j \in 1..Len(order) : order[i] = order[j] => i = j
  BY OrderSize
<1>1. CASE k \notin ToSet(order)
  <2> DEFINE others == ToSet(order) \ {k}
  <2>1. others = ToSet(order) /\ Erase(order, k) = order
    BY <1>1 DEF Erase
  <2> HIDE DEF others
  <2>2. Len(order) = Cardinality(others) /\ Len(order) <= Len(order)
    BY <1>0, <2>1
  <2>3. /\ order \in Seq(S) /\ ToSet(order) = others
        /\ Len(order) = Cardinality(others) /\ Len(order) <= Len(order)
    BY <2>1, <2>2
  <2> QED BY <2>1, <2>3 DEF others
<1>2. CASE k \in ToSet(order)
  <2>1. PICK pos \in 1..Len(order) : Erase(order, k) = RemoveAt(order, pos) /\ order[pos] = k
    <3>1. \E i \in DOMAIN order : order[i] = k
      BY <1>2 DEF ToSet
    <3> DEFINE pos == CHOOSE i \in DOMAIN order : order[i] = k
    <3>2. Erase(order, k) = RemoveAt(order, pos)
      BY <1>2 DEF Erase
    <3>3. pos \in 1..Len(order) /\ order[pos] = k
      BY <3>1
    <3> HIDE DEF pos
    <3> QED BY <3>2, <3>3
  <2> DEFINE rest == RemoveAt(order, pos)
  <2>2. /\ rest \in Seq(S) /\ Len(rest) = Len(order) - 1
        /\ \A i \in 1..(Len(order) - 1) : rest[i] = order[IF i < pos THEN i ELSE i + 1]
    BY RemoveAtShape
  <2> HIDE DEF rest
  <2>3. ToSet(rest) = ToSet(order) \ {k}
    <3>1. ASSUME NEW i \in 1..(Len(order) - 1) PROVE rest[i] \in ToSet(order) \ {k}
      <4> DEFINE j == IF i < pos THEN i ELSE i + 1
      <4>1. j \in 1..Len(order) /\ j # pos
        BY <1>0
      <4>2. rest[i] = order[j]
        BY <2>2
      <4> HIDE DEF j
      <4>3. order[j] \in ToSet(order)
        BY <4>1 DEF ToSet
      <4>4. order[j] # k
        BY <1>0, <2>1, <4>1
      <4> QED BY <4>2, <4>3, <4>4
    <3>2. ASSUME NEW j \in 1..Len(order), order[j] # k
          PROVE  \E i \in 1..(Len(order) - 1) : rest[i] = order[j]
      <4>0. j # pos
        BY <2>1, <3>2
      <4>1. CASE j < pos
        <5>1. j \in 1..(Len(order) - 1)
          BY <1>0, <4>1
        <5> QED BY <2>2, <4>1, <5>1
      <4>2. CASE j > pos
        <5>1. j - 1 \in 1..(Len(order) - 1) /\ ~(j - 1 < pos) /\ (j - 1) + 1 = j
          BY <1>0, <4>2
        <5>2. rest[j - 1] = order[j]
          BY <2>2, <5>1
        <5> QED BY <5>1, <5>2
      <4> QED BY <4>0, <4>1, <4>2
    <3>3. DOMAIN rest = 1..(Len(order) - 1) /\ DOMAIN order = 1..Len(order)
      BY <2>2
    <3>4. ToSet(rest) \subseteq ToSet(order) \ {k}
      BY <3>1, <3>3, KeysOfOrder
    <3>5. ToSet(order) \ {k} \subseteq ToSet(rest)
      <4> SUFFICES ASSUME NEW e \in ToSet(order), e # k PROVE e \in ToSet(rest)
        OBVIOUS
      <4>1. PICK j \in 1..Len(order) : order[j] = e
        BY <3>3, KeysOfOrder
      <4>2. PICK i \in 1..(Len(order) - 1) : rest[i] = e
        BY <3>2, <4>1
      <4> QED BY <3>3, <4>2, KeysOfOrder
    <3> QED BY <3>4, <3>5
  <2>4. Cardinality(ToSet(order) \ {k}) = Cardinality(ToSet(order)) - 1
    BY <1>0, <1>2, FS_RemoveElement
  <2>5. Len(rest) = Cardinality(ToSet(order) \ {k}) /\ Len(rest) <= Len(order)
    BY <1>0, <2>2, <2>4
  <2> QED BY <2>1, <2>2, <2>3, <2>5 DEF rest
<1> QED BY <1>1, <1>2

\* The keys of an order, and one more.
WithKey(order, k) == ToSet(order) \cup {k}

\* The order with one more key at its front.
LEMMA PushKey ==
    ASSUME NEW S, NEW order \in Seq(S), NEW k \in S, k \notin ToSet(order),
           Cardinality(ToSet(order)) = Len(order)
    PROVE  /\ PushFront(k, order) \in Seq(S)
           /\ ToSet(PushFront(k, order)) = WithKey(order, k)
           /\ Len(PushFront(k, order)) = Len(order) + 1
           /\ Cardinality(WithKey(order, k)) = Len(order) + 1
           /\ (PushFront(k, order))[1] = k
<1> DEFINE push == PushFront(k, order)
<1>0. IsFiniteSet(ToSet(order)) /\ Len(order) \in Nat
  BY OrderSize
<1>1. /\ push \in Seq(S) /\ Len(push) = Len(order) + 1 /\ push[1] = k
      /\ \A i \in 1..Len(order) : push[i + 1] = order[i]
  BY <1>0 DEF PushFront
<1> HIDE DEF push
<1>2. DOMAIN push = 1..(Len(order) + 1) /\ DOMAIN order = 1..Len(order)
  BY <1>1
<1>3. ToSet(push) \subseteq ToSet(order) \cup {k}
  <2> SUFFICES ASSUME NEW i \in 1..(Len(order) + 1), i # 1 PROVE push[i] \in ToSet(order)
    BY <1>1, <1>2, KeysOfOrder
  <2>1. i - 1 \in 1..Len(order) /\ (i - 1) + 1 = i
    BY <1>0
  <2>2. push[i] = order[i - 1]
    BY <1>1, <2>1
  <2> QED BY <1>2, <2>1, <2>2, KeysOfOrder
<1>4. ToSet(order) \cup {k} \subseteq ToSet(push)
  <2>1. k \in ToSet(push)
    <3>1. 1 \in DOMAIN push
      BY <1>0, <1>2
    <3> QED BY <1>1, <3>1 DEF ToSet
  <2>2. ASSUME NEW i \in 1..Len(order) PROVE order[i] \in ToSet(push)
    <3>1. i + 1 \in DOMAIN push /\ push[i + 1] = order[i]
      BY <1>0, <1>1, <1>2
    <3> QED BY <3>1, KeysOfOrder
  <2> QED BY <1>2, <2>1, <2>2, KeysOfOrder
<1>5. Cardinality(ToSet(order) \cup {k}) = Len(order) + 1
  BY <1>0, FS_AddElement
<1>6. ToSet(push) = ToSet(order) \cup {k}
  BY <1>3, <1>4
<1> QED BY <1>1, <1>5, <1>6 DEF push, WithKey

\* The order without its last key.
LEMMA FrontSize ==
    ASSUME NEW S, NEW order \in Seq(S), Len(order) > 1,
           Cardinality(ToSet(order)) = Len(order)
    PROVE  /\ Front(order) \in Seq(S)
           /\ ToSet(Front(order)) \subseteq ToSet(order)
           /\ order[1] \in ToSet(Front(order))
           /\ Len(Front(order)) = Len(order) - 1
           /\ Cardinality(ToSet(Front(order))) = Len(order) - 1
<1> DEFINE front == Front(order)
<1>0. /\ Len(order) \in Nat
      /\ \A i, j \in 1..Len(order) : order[i] = order[j] => i = j
  BY OrderSize
<1>1. /\ front \in Seq(S) /\ Len(front) = Len(order) - 1
      /\ \A i \in 1..(Len(order) - 1) : front[i] = order[i]
  BY <1>0 DEF Front
<1> HIDE DEF front
<1>2. /\ DOMAIN front = 1..(Len(order) - 1) /\ DOMAIN order = 1..Len(order)
      /\ 1 \in 1..(Len(order) - 1)
      /\ \A i \in 1..(Len(order) - 1) : i \in 1..Len(order)
  BY <1>0, <1>1
<1>3. ToSet(front) \subseteq ToSet(order) /\ order[1] \in ToSet(front)
  BY <1>1, <1>2, KeysOfOrder
<1>4. Cardinality(ToSet(front)) = Len(front)
  <2>1. \A i, j \in 1..Len(front) : front[i] = front[j] => i = j
    BY <1>0, <1>1, <1>2
  <2> QED BY <1>1, <2>1, OrderSize
<1> QED BY <1>1, <1>3, <1>4 DEF front

-----------------------------------------------------------------------------
(* TypeOK in three parts *)

StoreOK ==
    /\ lru \in Seq(Keys)
    /\ Cached \subseteq Keys /\ \A k \in Cached : entries[k] \in 0..MaxVersion
    /\ expired \subseteq Cached

FlightOK ==
    /\ inflight \in [Keys -> Callers \cup {NoKey}]
    /\ place \in [Callers -> {"idle", "wait", "compute", "publish", "fulfil"}]
    /\ key \in [Callers -> Keys \cup {NoKey}]
    /\ leader \in [Callers -> Callers \cup {NoKey}]

ValuesOK ==
    /\ computed \in [Callers -> 0..(MaxVersion + 2)]
    /\ source \in [Keys -> 0..MaxVersion] /\ settled \in [Keys -> 0..MaxVersion]
    /\ raced \subseteq Keys

\* TypeOK is the three together.
LEMMA TypeParts == TypeOK <=> StoreOK /\ FlightOK /\ ValuesOK
BY DEF TypeOK, StoreOK, FlightOK, ValuesOK

\* SingleFlight in three parts.
LeadersOK == \A c \in Callers, k \in Keys : Leading(c, k) <=> inflight[k] = c
NotCached == \A k \in Cached : inflight[k] = NoKey
WaitersOK ==
    \A c \in Callers : place[c] = "wait" =>
        /\ place[leader[c]] \in {"compute", "publish", "fulfil"}
        /\ key[leader[c]] = key[c]

\* SingleFlight is the three together.
LEMMA FlightParts == SingleFlight <=> LeadersOK /\ NotCached /\ WaitersOK
BY DEF SingleFlight, LeadersOK, NotCached, WaitersOK

\* An empty cache that nobody has asked.
LEMMA InitCache == CacheInit => CacheInv
<1> SUFFICES ASSUME CacheInit PROVE CacheInv
  OBVIOUS
<1> USE CacheAssumption DEF CacheInit
<1>1. Cached = {} /\ ToSet(lru) = {} /\ Len(lru) = 0
  BY DEF Cached, ToSet
<1>2. StoreOK /\ FlightOK /\ ValuesOK
  BY <1>1 DEF StoreOK, FlightOK, ValuesOK, None
<1>3. LruMatchesEntries
  BY <1>1, FS_EmptySet DEF LruMatchesEntries
<1>4. CallersOK /\ SettledOK /\ ComputedOK
  BY DEF CallersOK, SettledOK, ComputedOK
<1>5. SingleFlight /\ StaleOnlyAfterRace
  BY <1>1 DEF SingleFlight, StaleOnlyAfterRace, Leading
<1> QED BY <1>2, <1>3, <1>4, <1>5, TypeParts DEF CacheInv

-----------------------------------------------------------------------------
(* lru_ and entries_ *)

\* Erasing a key from both keeps the two together.
LEMMA DropKeepsStore ==
    ASSUME StoreOK, LruMatchesEntries, NEW k, DropExpired(k)
    PROVE  /\ StoreOK' /\ LruMatchesEntries'
           /\ Cached' = Cached \ {k}
           /\ \A other \in Cached' : entries'[other] = entries[other]
<1>1. Cardinality(ToSet(lru)) = Len(lru) /\ lru \in Seq(Keys)
  BY DEF StoreOK, LruMatchesEntries
<1>2. /\ lru' \in Seq(Keys) /\ ToSet(lru') = ToSet(lru) \ {k}
      /\ Len(lru') = Cardinality(ToSet(lru) \ {k}) /\ Len(lru') <= Len(lru)
  BY <1>1, EraseKey DEF DropExpired
<1>3. /\ Cached' = Cached \ {k}
      /\ \A other \in Cached' : entries'[other] = entries[other]
  BY DEF DropExpired, Without, Cached
<1>4. StoreOK'
  <2>1. expired' = expired \ {k}
    BY DEF DropExpired
  <2> QED BY <1>2, <1>3, <2>1 DEF StoreOK
<1>5. LruMatchesEntries'
  <2>1. ToSet(lru) = Cached /\ Len(lru) <= Capacity
    BY DEF LruMatchesEntries
  <2>2. ToSet(lru') = Cached' /\ Len(lru') = Cardinality(Cached')
    BY <1>2, <1>3, <2>1
  <2>3. Len(lru') <= Capacity
    BY <1>1, <1>2, <2>1, CacheAssumption
  <2> QED BY <2>2, <2>3 DEF LruMatchesEntries
<1> QED BY <1>3, <1>4, <1>5

\* A hit moves its key to the front.
LEMMA HitKeepsStore ==
    ASSUME StoreOK, LruMatchesEntries, NEW c \in Callers, NEW k \in Keys, Hit(c, k)
    PROVE  StoreOK' /\ LruMatchesEntries' /\ Cached' = Cached
<1> DEFINE rest == Erase(lru, k)
<1>1. /\ Cardinality(ToSet(lru)) = Len(lru) /\ lru \in Seq(Keys) /\ k \in ToSet(lru)
      /\ IsFiniteSet(ToSet(lru)) /\ Len(lru) \in Nat
  <2>1. lru \in Seq(Keys) /\ Cardinality(ToSet(lru)) = Len(lru) /\ k \in ToSet(lru)
    BY DEF StoreOK, LruMatchesEntries, Hit, Live
  <2>2. IsFiniteSet(ToSet(lru))
    BY <2>1, OrderSize
  <2>3. Len(lru) \in Nat
    BY <2>1
  <2> QED BY <2>1, <2>2, <2>3
<1>2. /\ rest \in Seq(Keys) /\ ToSet(rest) = ToSet(lru) \ {k}
      /\ Len(rest) = Cardinality(ToSet(lru) \ {k})
  BY <1>1, EraseKey
<1>3. Cardinality(ToSet(lru) \ {k}) = Len(lru) - 1
  BY ZenonT(60), <1>1, FS_RemoveElement
<1>4. lru' = PushFront(k, rest)
  BY DEF Hit
<1> HIDE DEF rest
<1>5. k \notin ToSet(rest) /\ Cardinality(ToSet(rest)) = Len(rest) /\ Len(rest) = Len(lru) - 1
  BY <1>2, <1>3
<1>6. lru' \in Seq(Keys) /\ ToSet(lru') = ToSet(rest) \cup {k} /\ Len(lru') = Len(rest) + 1
  <2> DEFINE push == PushFront(k, rest)
  <2>1. /\ push \in Seq(Keys) /\ ToSet(push) = WithKey(rest, k)
        /\ Len(push) = Len(rest) + 1
    <3>1. k \in Keys /\ rest \in Seq(Keys) /\ k \notin ToSet(rest)
          /\ Cardinality(ToSet(rest)) = Len(rest)
      BY <1>2, <1>5
    <3> QED BY ONLY <3>1, PushKey
  <2>2. lru' = push
    BY <1>4
  <2> HIDE DEF push
  <2> QED BY <2>1, <2>2 DEF WithKey
<1>7. ToSet(lru') = ToSet(lru) /\ Len(lru') = Len(lru)
  BY <1>1, <1>2, <1>5, <1>6
<1>8. UNCHANGED <<entries, expired>> /\ Cached' = Cached
  BY DEF Hit, Cached
<1> QED BY <1>6, <1>7, <1>8 DEF StoreOK, LruMatchesEntries

\* A publication adds a key that is not cached, and drops the last one when full.
LEMMA PublishKeepsStore ==
    ASSUME CacheInv, NEW c \in Callers, Publish(c)
    PROVE  /\ StoreOK' /\ LruMatchesEntries'
           /\ Cached' \subseteq Cached \cup {key[c]}
           /\ \A k \in Cached' : entries'[k] = IF k = key[c] THEN computed[c] ELSE entries[k]
<1>0. /\ StoreOK /\ LruMatchesEntries /\ place[c] = "publish" /\ key[c] \in Keys
      /\ inflight[key[c]] = c /\ key[c] \notin Cached
      /\ Cacheable(c) => computed[c] \in 0..MaxVersion
  <2>1. place[c] = "publish" /\ key[c] \in Keys /\ computed[c] # None
    BY DEF Publish, CacheInv, CallersOK
  <2>2. inflight[key[c]] = c
    BY <2>1 DEF CacheInv, SingleFlight, Leading
  <2>3. key[c] \notin Cached
    BY <2>2, CacheAssumption DEF CacheInv, SingleFlight
  <2>4. Cacheable(c) => computed[c] \in 0..MaxVersion
    BY <2>1, CacheAssumption, TypeParts DEF CacheInv, ValuesOK, Cacheable, Failed, None
  <2> QED BY <2>1, <2>2, <2>3, <2>4, TypeParts DEF CacheInv
<1>1. CASE ~Cacheable(c)
  <2>1. UNCHANGED <<lru, entries, expired>> /\ Cached' = Cached
    BY <1>1 DEF Publish, Cached
  <2> QED BY <1>0, <2>1 DEF StoreOK, LruMatchesEntries
<1>2. CASE Cacheable(c)
  <2> DEFINE push == PushFront(key[c], lru)
             order == EvictOldest(push)
  <2>1. /\ lru \in Seq(Keys) /\ Cardinality(ToSet(lru)) = Len(lru) /\ Len(lru) \in Nat
        /\ ToSet(lru) = Cached /\ Len(lru) <= Capacity
    BY <1>0 DEF StoreOK, LruMatchesEntries
  <2>2. /\ push \in Seq(Keys) /\ ToSet(push) = ToSet(lru) \cup {key[c]} /\ push[1] = key[c]
        /\ Len(push) = Len(lru) + 1 /\ Cardinality(ToSet(push)) = Len(push)
    <3>1. key[c] \notin ToSet(lru)
      BY <1>0, <2>1
    <3>2. /\ push \in Seq(Keys) /\ ToSet(push) = WithKey(lru, key[c]) /\ push[1] = key[c]
          /\ Len(push) = Len(lru) + 1 /\ Cardinality(WithKey(lru, key[c])) = Len(lru) + 1
      BY <1>0, <2>1, <3>1, PushKey
    <3> HIDE DEF push
    <3>3. Cardinality(ToSet(push)) = Len(push)
      BY <3>2
    <3> QED BY <3>2, <3>3 DEF WithKey
  <2> HIDE DEF push
  <2>3. /\ order \in Seq(Keys) /\ ToSet(order) \subseteq ToSet(push)
        /\ Cardinality(ToSet(order)) = Len(order) /\ Len(order) <= Capacity
    <3>1. CASE Len(push) > Capacity
      <4>1. order = Front(push) /\ Len(push) > 1 /\ Len(push) = Capacity + 1
        BY <2>1, <2>2, <3>1, CacheAssumption DEF EvictOldest
      <4> HIDE DEF order
      <4>2. /\ order \in Seq(Keys) /\ ToSet(order) \subseteq ToSet(push)
            /\ Len(order) = Len(push) - 1 /\ Cardinality(ToSet(order)) = Len(push) - 1
        BY <2>2, <4>1, FrontSize
      <4>3. Len(order) = Capacity
        BY <2>1, <2>2, <4>1, <4>2, CacheAssumption
      <4> QED BY <4>2, <4>3, CacheAssumption
    <3>2. CASE ~(Len(push) > Capacity)
      <4>1. order = push /\ Len(push) <= Capacity
        BY <2>1, <2>2, <3>2, CacheAssumption DEF EvictOldest
      <4> HIDE DEF order
      <4> QED BY <2>2, <4>1
    <3> QED BY <3>1, <3>2
  <2>4. /\ lru' = order /\ expired' = expired \cap ToSet(order)
        /\ Cached' = ToSet(order)
        /\ \A k \in Cached' : entries'[k] = IF k = key[c] THEN computed[c] ELSE entries[k]
    BY <1>2 DEF Publish, Cached, push
  <2> HIDE DEF order
  <2>5. Cached' \subseteq Cached \cup {key[c]}
    BY <2>1, <2>2, <2>3, <2>4
  <2>6. StoreOK'
    BY <1>0, <1>2, <2>3, <2>4, <2>5 DEF StoreOK
  <2>7. LruMatchesEntries'
    BY <2>3, <2>4 DEF LruMatchesEntries
  <2> QED BY <2>4, <2>5, <2>6, <2>7
<1> QED BY <1>1, <1>2

\* lru_ and entries_ stay together: every step erases from both or adds to both.
LEMMA StoreStep == ASSUME CacheInv, [CacheNext]_cacheVars PROVE StoreOK' /\ LruMatchesEntries'
<1>0. StoreOK /\ LruMatchesEntries
  BY TypeParts DEF CacheInv
<1>1. ASSUME NEW c \in Callers, NEW k \in Keys, Hit(c, k) PROVE StoreOK' /\ LruMatchesEntries'
  BY <1>0, <1>1, HitKeepsStore
<1>2. ASSUME NEW c \in Callers, NEW k \in Keys, Coalesce(c, k) PROVE StoreOK'
      /\ LruMatchesEntries'
  BY <1>0, <1>2, DropKeepsStore DEF Coalesce
<1>3. ASSUME NEW c \in Callers, NEW k \in Keys, Lead(c, k) PROVE StoreOK' /\ LruMatchesEntries'
  BY <1>0, <1>3, DropKeepsStore DEF Lead
<1>4. ASSUME NEW c \in Callers, Compute(c) PROVE StoreOK' /\ LruMatchesEntries'
  <2>1. UNCHANGED <<lru, entries>> /\ Cached' = Cached /\ expired' = expired
    BY <1>4 DEF Compute, cache, Cached
  <2> QED BY <2>1, <1>0, <1>4 DEF StoreOK, LruMatchesEntries, Live
<1>5. ASSUME NEW c \in Callers, Publish(c) PROVE StoreOK' /\ LruMatchesEntries'
  BY <1>5, PublishKeepsStore
<1>6. ASSUME NEW c \in Callers, Fulfil(c) PROVE StoreOK' /\ LruMatchesEntries'
  <2>1. UNCHANGED <<lru, entries>> /\ Cached' = Cached /\ expired' = expired
    BY <1>6 DEF Fulfil, cache, Cached
  <2> QED BY <2>1, <1>0, <1>6 DEF StoreOK, LruMatchesEntries, Live
<1>7. ASSUME NEW k \in Keys, Invalidate(k) PROVE StoreOK' /\ LruMatchesEntries'
  BY <1>0, <1>7, DropKeepsStore DEF Invalidate, InvalidateKey
<1>8. CASE Clear
  <2>1. Cached' = {} /\ ToSet(lru') = {} /\ lru' = <<>> /\ Len(lru') = 0 /\ expired' = {}
    BY <1>8 DEF Clear, Cached, ToSet
  <2>2. Cardinality(Cached') = 0
    BY <2>1, FS_EmptySet
  <2>3. StoreOK'
    BY <2>1 DEF StoreOK
  <2>4. LruMatchesEntries'
    <3>1. ToSet(lru') = Cached'
      BY <2>1
    <3>2. Len(lru') = Cardinality(Cached') /\ Len(lru') <= Capacity
      BY <2>1, <2>2, CacheAssumption
    <3> QED BY <3>1, <3>2 DEF LruMatchesEntries
  <2> QED BY <2>3, <2>4
<1>9. ASSUME NEW k \in Keys, Expire(k) PROVE StoreOK' /\ LruMatchesEntries'
  <2>1. /\ UNCHANGED <<lru, entries>> /\ Cached' = Cached
        /\ expired' = expired \cup {k} /\ k \in Cached
    BY <1>9 DEF Expire, cache, Cached, Live
  <2>2. StoreOK'
    BY <1>0, <2>1 DEF StoreOK
  <2>3. LruMatchesEntries'
    BY <1>0, <2>1 DEF LruMatchesEntries
  <2> QED BY <2>2, <2>3
<1>10. ASSUME NEW k \in Keys, ChangeSource(k) PROVE StoreOK' /\ LruMatchesEntries'
  <2>1. UNCHANGED <<lru, entries>> /\ Cached' = Cached /\ expired' = expired
    BY <1>10 DEF ChangeSource, cache, Cached
  <2> QED BY <2>1, <1>0, <1>10 DEF StoreOK, LruMatchesEntries, Live
<1>11. CASE UNCHANGED cacheVars
  <2>1. UNCHANGED <<lru, entries>> /\ Cached' = Cached /\ expired' = expired
    BY <1>11 DEF cacheVars, cache, Cached
  <2> QED BY <2>1, <1>0, <1>11 DEF StoreOK, LruMatchesEntries, Live
<1> QED
  BY <1>1, <1>2, <1>3, <1>4, <1>5, <1>6, <1>7, <1>8, <1>9, <1>10, <1>11
  DEF CacheNext, Lookup, LeaderStep

\* What the callers hold has its type.
LEMMA FlightStep == ASSUME CacheInv, [CacheNext]_cacheVars PROVE FlightOK'
<1>0. FlightOK
  BY TypeParts DEF CacheInv
<1> USE <1>0 DEF FlightOK, cache, callers
<1>1. ASSUME NEW c \in Callers, NEW k \in Keys, Hit(c, k) PROVE FlightOK'
  BY <1>1 DEF Hit
<1>2. ASSUME NEW c \in Callers, NEW k \in Keys, Coalesce(c, k) PROVE FlightOK'
  BY <1>2 DEF Coalesce
<1>3. ASSUME NEW c \in Callers, NEW k \in Keys, Lead(c, k) PROVE FlightOK'
  BY <1>3 DEF Lead, LeadForAll
<1>4. ASSUME NEW c \in Callers, Compute(c) PROVE FlightOK'
  BY <1>4 DEF Compute
<1>5. ASSUME NEW c \in Callers, Publish(c) PROVE FlightOK'
  BY <1>5 DEF Publish
<1>6. ASSUME NEW c \in Callers, Fulfil(c) PROVE FlightOK'
  BY <1>6 DEF Fulfil
<1>7. ASSUME NEW k \in Keys, Invalidate(k) PROVE FlightOK'
  BY <1>7 DEF Invalidate
<1>8. CASE Clear
  BY <1>8 DEF Clear
<1>9. ASSUME NEW k \in Keys, Expire(k) PROVE FlightOK'
  BY <1>9 DEF Expire
<1>10. ASSUME NEW k \in Keys, ChangeSource(k) PROVE FlightOK'
  BY <1>10 DEF ChangeSource
<1>11. CASE UNCHANGED cacheVars
  BY <1>11 DEF cacheVars
<1> QED
  BY <1>1, <1>2, <1>3, <1>4, <1>5, <1>6, <1>7, <1>8, <1>9, <1>10, <1>11
  DEF CacheNext, Lookup, LeaderStep

\* Values have their type: a leader computes the version of its key's source.
LEMMA ValuesStep == ASSUME CacheInv, [CacheNext]_cacheVars PROVE ValuesOK'
<1>0. ValuesOK /\ FlightOK /\ CallersOK /\ MaxVersion \in Nat
  BY TypeParts, CacheAssumption DEF CacheInv
<1> USE <1>0 DEF ValuesOK, callers, world
<1>1. ASSUME NEW c \in Callers, NEW k \in Keys, Hit(c, k) PROVE ValuesOK'
  BY <1>1 DEF Hit
<1>2. ASSUME NEW c \in Callers, NEW k \in Keys, Coalesce(c, k) PROVE ValuesOK'
  BY <1>2 DEF Coalesce
<1>3. ASSUME NEW c \in Callers, NEW k \in Keys, Lead(c, k) PROVE ValuesOK'
  BY <1>3 DEF Lead
<1>4. ASSUME NEW c \in Callers, Compute(c) PROVE ValuesOK'
  BY <1>4 DEF Compute, Failed, CallersOK
<1>5. ASSUME NEW c \in Callers, Publish(c) PROVE ValuesOK'
  BY <1>5 DEF Publish
<1>6. ASSUME NEW c \in Callers, Fulfil(c) PROVE ValuesOK'
  BY <1>6 DEF Fulfil, None
<1>7. ASSUME NEW k \in Keys, Invalidate(k) PROVE ValuesOK'
  BY <1>7 DEF Invalidate, Settle
<1>8. CASE Clear
  BY <1>8 DEF Clear, Settle
<1>9. ASSUME NEW k \in Keys, Expire(k) PROVE ValuesOK'
  BY <1>9 DEF Expire
<1>10. ASSUME NEW k \in Keys, ChangeSource(k) PROVE ValuesOK'
  BY <1>10 DEF ChangeSource
<1>11. CASE UNCHANGED cacheVars
  BY <1>11 DEF cacheVars
<1> QED
  BY <1>1, <1>2, <1>3, <1>4, <1>5, <1>6, <1>7, <1>8, <1>9, <1>10, <1>11
  DEF CacheNext, Lookup, LeaderStep

\* A caller learns its key and its leader where it enters.
LEMMA CallersStep == ASSUME CacheInv, [CacheNext]_cacheVars PROVE CallersOK'
<1>0. CallersOK /\ FlightOK /\ ValuesOK /\ MaxVersion \in Nat
  BY TypeParts, CacheAssumption DEF CacheInv
<1> USE <1>0 DEF CallersOK, FlightOK, callers
<1>1. ASSUME NEW c \in Callers, NEW k \in Keys, Hit(c, k) PROVE CallersOK'
  BY <1>1 DEF Hit
<1>2. ASSUME NEW c \in Callers, NEW k \in Keys, Coalesce(c, k) PROVE CallersOK'
  BY <1>2 DEF Coalesce
<1>3. ASSUME NEW c \in Callers, NEW k \in Keys, Lead(c, k) PROVE CallersOK'
  BY <1>3 DEF Lead, LeadForAll
<1>4. ASSUME NEW c \in Callers, Compute(c) PROVE CallersOK'
  BY <1>4 DEF Compute, ValuesOK, Failed, None
<1>5. ASSUME NEW c \in Callers, Publish(c) PROVE CallersOK'
  BY <1>5 DEF Publish
<1>6. ASSUME NEW c \in Callers, Fulfil(c) PROVE CallersOK'
  BY <1>6 DEF Fulfil
<1>7. ASSUME NEW k \in Keys, Invalidate(k) PROVE CallersOK'
  BY <1>7 DEF Invalidate
<1>8. CASE Clear
  BY <1>8 DEF Clear
<1>9. ASSUME NEW k \in Keys, Expire(k) PROVE CallersOK'
  BY <1>9 DEF Expire
<1>10. ASSUME NEW k \in Keys, ChangeSource(k) PROVE CallersOK'
  BY <1>10 DEF ChangeSource
<1>11. CASE UNCHANGED cacheVars
  BY <1>11 DEF cacheVars
<1> QED
  BY <1>1, <1>2, <1>3, <1>4, <1>5, <1>6, <1>7, <1>8, <1>9, <1>10, <1>11
  DEF CacheNext, Lookup, LeaderStep

\* inflight_ names the leader of each key from its entry to its publication.
LEMMA LeadersStep == ASSUME CacheInv, [CacheNext]_cacheVars PROVE LeadersOK'
<1>0. LeadersOK /\ FlightOK /\ CallersOK /\ NoKey \notin Callers /\ NoKey \notin Keys
  BY TypeParts, FlightParts, CacheAssumption DEF CacheInv
<1> USE <1>0 DEF LeadersOK, Leading, CallersOK, FlightOK, cache, callers
<1>1. ASSUME NEW c \in Callers, NEW k \in Keys, Hit(c, k) PROVE LeadersOK'
  BY <1>1 DEF Hit
<1>2. ASSUME NEW c \in Callers, NEW k \in Keys, Coalesce(c, k) PROVE LeadersOK'
  BY <1>2 DEF Coalesce
<1>3. ASSUME NEW c \in Callers, NEW k \in Keys, Lead(c, k) PROVE LeadersOK'
  BY <1>3 DEF Lead, LeadForAll
<1>4. ASSUME NEW c \in Callers, Compute(c) PROVE LeadersOK'
  BY <1>4 DEF Compute
<1>5. ASSUME NEW c \in Callers, Publish(c) PROVE LeadersOK'
  BY <1>5 DEF Publish
<1>6. ASSUME NEW c \in Callers, Fulfil(c) PROVE LeadersOK'
  BY <1>6 DEF Fulfil, SharersOf
<1>7. ASSUME NEW k \in Keys, Invalidate(k) PROVE LeadersOK'
  BY <1>7 DEF Invalidate
<1>8. CASE Clear
  BY <1>8 DEF Clear
<1>9. ASSUME NEW k \in Keys, Expire(k) PROVE LeadersOK'
  BY <1>9 DEF Expire
<1>10. ASSUME NEW k \in Keys, ChangeSource(k) PROVE LeadersOK'
  BY <1>10 DEF ChangeSource
<1>11. CASE UNCHANGED cacheVars
  BY <1>11 DEF cacheVars
<1> QED
  BY <1>1, <1>2, <1>3, <1>4, <1>5, <1>6, <1>7, <1>8, <1>9, <1>10, <1>11
  DEF CacheNext, Lookup, LeaderStep

\* The keys that are cached: only a publication adds one.
LEMMA CachedStep ==
    ASSUME CacheInv, [CacheNext]_cacheVars
    PROVE  /\ Cached' \subseteq Cached
                \/ \E c \in Callers : Publish(c) /\ Cached' \subseteq Cached \cup {key[c]}
           /\ \A c \in Callers, k \in Keys : Lead(c, k) => k \notin Cached'
<1>0. StoreOK /\ LruMatchesEntries
  BY TypeParts DEF CacheInv
<1>1. ASSUME NEW c \in Callers, Publish(c) PROVE Cached' \subseteq Cached \cup {key[c]}
  BY <1>1, PublishKeepsStore
<1>2. ASSUME NEW k, DropExpired(k) PROVE Cached' = Cached \ {k}
  BY <1>0, <1>2, DropKeepsStore
<1>3. ASSUME entries' = entries PROVE Cached' = Cached
  BY <1>3 DEF Cached
<1>5. ASSUME NEW c \in Callers, NEW k \in Keys, Lead(c, k) PROVE k \notin Cached'
  BY <1>2, <1>5 DEF Lead
<1>6. \/ \E c \in Callers : Publish(c)
      \/ \E k : DropExpired(k)
      \/ entries' = entries
      \/ Clear
  BY DEF CacheNext, Lookup, LeaderStep, Hit, Coalesce, Lead, Compute, Fulfil, Invalidate,
         InvalidateKey, Expire, ChangeSource, cacheVars, cache
<1>7. \/ Cached' \subseteq Cached
      \/ \E c \in Callers : Publish(c) /\ Cached' \subseteq Cached \cup {key[c]}
  <2>1. CASE Clear
    <3>1. Cached' = {}
      BY <2>1 DEF Clear, Cached
    <3> QED BY <3>1
  <2> QED BY <1>1, <1>2, <1>3, <1>6, <2>1
<1> QED BY <1>5, <1>7

\* A key in flight is not cached: its leader dropped what had expired, and takes
\* it out of inflight_ in the step that publishes it.
LEMMA NotCachedStep == ASSUME CacheInv, [CacheNext]_cacheVars PROVE NotCached'
<1>0. NotCached /\ FlightOK /\ Cached \subseteq Keys /\ NoKey \notin Callers
      /\ \A c \in Callers : place[c] = "publish" => key[c] \in Keys
  BY TypeParts, FlightParts, CacheAssumption DEF CacheInv, StoreOK, CallersOK
<1>1. ASSUME NEW c \in Callers, Publish(c) PROVE NotCached'
  <2>1. Cached' \subseteq Cached \cup {key[c]} /\ key[c] \in Keys
    BY <1>0, <1>1, PublishKeepsStore DEF Publish
  <2>2. inflight' = [inflight EXCEPT ![key[c]] = NoKey]
    BY <1>1 DEF Publish
  <2> QED BY <1>0, <2>1, <2>2 DEF NotCached, FlightOK
<1>2. ASSUME NEW c \in Callers, NEW k \in Keys, Lead(c, k), Cached' \subseteq Cached
      PROVE  NotCached'
  <2>1. k \notin Cached' /\ inflight' = [inflight EXCEPT ![k] = c]
    BY <1>2, CachedStep DEF Lead, LeadForAll
  <2> QED BY <1>0, <1>2, <2>1 DEF NotCached, FlightOK
<1>3. ASSUME inflight' = inflight, Cached' \subseteq Cached PROVE NotCached'
  BY <1>0, <1>3 DEF NotCached
<1>4. \/ \E c \in Callers : Publish(c)
      \/ \E c \in Callers, k \in Keys : Lead(c, k)
      \/ inflight' = inflight
  BY DEF CacheNext, Lookup, LeaderStep, Hit, Coalesce, Compute, Fulfil, Invalidate, Clear,
         Expire, ChangeSource, cacheVars, cache
<1> QED BY <1>1, <1>2, <1>3, <1>4, CachedStep

\* A waiter's leader returns only with the waiter.
LEMMA WaitersStep == ASSUME CacheInv, [CacheNext]_cacheVars PROVE WaitersOK'
<1>0. WaitersOK /\ LeadersOK /\ FlightOK /\ CallersOK /\ NoKey \notin Callers
  BY TypeParts, FlightParts, CacheAssumption DEF CacheInv
<1> USE <1>0 DEF WaitersOK, CallersOK, FlightOK, callers
<1>1. ASSUME NEW c \in Callers, NEW k \in Keys, Hit(c, k) PROVE WaitersOK'
  BY <1>1 DEF Hit
<1>2. ASSUME NEW c \in Callers, NEW k \in Keys, Coalesce(c, k) PROVE WaitersOK'
  BY <1>2 DEF Coalesce, LeadersOK, Leading
<1>3. ASSUME NEW c \in Callers, NEW k \in Keys, Lead(c, k) PROVE WaitersOK'
  BY <1>3 DEF Lead
<1>4. ASSUME NEW c \in Callers, Compute(c) PROVE WaitersOK'
  BY <1>4 DEF Compute
<1>5. ASSUME NEW c \in Callers, Publish(c) PROVE WaitersOK'
  BY <1>5 DEF Publish
<1>6. ASSUME NEW c \in Callers, Fulfil(c) PROVE WaitersOK'
  BY <1>6 DEF Fulfil, SharersOf
<1>7. ASSUME NEW k \in Keys, Invalidate(k) PROVE WaitersOK'
  BY <1>7 DEF Invalidate
<1>8. CASE Clear
  BY <1>8 DEF Clear
<1>9. ASSUME NEW k \in Keys, Expire(k) PROVE WaitersOK'
  BY <1>9 DEF Expire
<1>10. ASSUME NEW k \in Keys, ChangeSource(k) PROVE WaitersOK'
  BY <1>10 DEF ChangeSource
<1>11. CASE UNCHANGED cacheVars
  BY <1>11 DEF cacheVars
<1> QED
  BY <1>1, <1>2, <1>3, <1>4, <1>5, <1>6, <1>7, <1>8, <1>9, <1>10, <1>11
  DEF CacheNext, Lookup, LeaderStep

\* A source only moves forward, and an invalidation settles on its version.
LEMMA SettledStep == ASSUME CacheInv, [CacheNext]_cacheVars PROVE SettledOK'
<1>0. SettledOK /\ ValuesOK /\ MaxVersion \in Nat
  BY TypeParts, CacheAssumption DEF CacheInv
<1> USE <1>0 DEF SettledOK, ValuesOK, world
<1>1. ASSUME NEW c \in Callers, NEW k \in Keys, Hit(c, k) PROVE SettledOK'
  BY <1>1 DEF Hit
<1>2. ASSUME NEW c \in Callers, NEW k \in Keys, Coalesce(c, k) PROVE SettledOK'
  BY <1>2 DEF Coalesce
<1>3. ASSUME NEW c \in Callers, NEW k \in Keys, Lead(c, k) PROVE SettledOK'
  BY <1>3 DEF Lead
<1>4. ASSUME NEW c \in Callers, Compute(c) PROVE SettledOK'
  BY <1>4 DEF Compute
<1>5. ASSUME NEW c \in Callers, Publish(c) PROVE SettledOK'
  BY <1>5 DEF Publish
<1>6. ASSUME NEW c \in Callers, Fulfil(c) PROVE SettledOK'
  BY <1>6 DEF Fulfil
<1>7. ASSUME NEW k \in Keys, Invalidate(k) PROVE SettledOK'
  BY <1>7 DEF Invalidate, Settle
<1>8. CASE Clear
  BY <1>8 DEF Clear, Settle
<1>9. ASSUME NEW k \in Keys, Expire(k) PROVE SettledOK'
  BY <1>9 DEF Expire
<1>10. ASSUME NEW k \in Keys, ChangeSource(k) PROVE SettledOK'
  BY <1>10 DEF ChangeSource
<1>11. CASE UNCHANGED cacheVars
  BY <1>11 DEF cacheVars
<1> QED
  BY <1>1, <1>2, <1>3, <1>4, <1>5, <1>6, <1>7, <1>8, <1>9, <1>10, <1>11
  DEF CacheNext, Lookup, LeaderStep

\* A leader computes from the source; an invalidation between that and the
\* publication finds the key in flight, and is remembered in raced.
LEMMA ComputedStep == ASSUME CacheInv, [CacheNext]_cacheVars PROVE ComputedOK'
<1>0. /\ ComputedOK /\ SettledOK /\ ValuesOK /\ FlightOK /\ LeadersOK /\ MaxVersion \in Nat
      /\ \A c \in Callers : place[c] \in {"compute", "publish"} =>
             key[c] \in Keys /\ inflight[key[c]] = c
      /\ NoKey \notin Callers
  BY TypeParts, FlightParts, CacheAssumption DEF CacheInv, CallersOK, LeadersOK, Leading
<1> USE <1>0 DEF ComputedOK, FlightOK, ValuesOK, callers, world
<1>1. ASSUME NEW c \in Callers, NEW k \in Keys, Hit(c, k) PROVE ComputedOK'
  BY <1>1 DEF Hit
<1>2. ASSUME NEW c \in Callers, NEW k \in Keys, Coalesce(c, k) PROVE ComputedOK'
  BY <1>2 DEF Coalesce
<1>3. ASSUME NEW c \in Callers, NEW k \in Keys, Lead(c, k) PROVE ComputedOK'
  BY <1>3 DEF Lead
<1>4. ASSUME NEW c \in Callers, Compute(c) PROVE ComputedOK'
  BY <1>4 DEF Compute, SettledOK, Failed
<1>5. ASSUME NEW c \in Callers, Publish(c) PROVE ComputedOK'
  BY <1>5 DEF Publish
<1>6. ASSUME NEW c \in Callers, Fulfil(c) PROVE ComputedOK'
  BY <1>6 DEF Fulfil, SharersOf
<1>7. ASSUME NEW k \in Keys, Invalidate(k) PROVE ComputedOK'
  BY <1>7 DEF Invalidate, Settle
<1>8. CASE Clear
  BY <1>8 DEF Clear, Settle
<1>9. ASSUME NEW k \in Keys, Expire(k) PROVE ComputedOK'
  BY <1>9 DEF Expire
<1>10. ASSUME NEW k \in Keys, ChangeSource(k) PROVE ComputedOK'
  BY <1>10 DEF ChangeSource
<1>11. CASE UNCHANGED cacheVars
  BY <1>11 DEF cacheVars
<1> QED
  BY <1>1, <1>2, <1>3, <1>4, <1>5, <1>6, <1>7, <1>8, <1>9, <1>10, <1>11
  DEF CacheNext, Lookup, LeaderStep

\* What is cached was published, and an invalidation since has removed it.
LEMMA StaleStep == ASSUME CacheInv, [CacheNext]_cacheVars PROVE StaleOnlyAfterRace'
<1>0. /\ StaleOnlyAfterRace /\ StoreOK /\ LruMatchesEntries /\ Cached \subseteq Keys
      /\ ComputedOK
  BY TypeParts DEF CacheInv, StoreOK
<1>1. ASSUME NEW c \in Callers, Publish(c) PROVE StaleOnlyAfterRace'
  <2>1. /\ Cached' \subseteq Cached \cup {key[c]}
        /\ \A k \in Cached' : entries'[k] = IF k = key[c] THEN computed[c] ELSE entries[k]
    BY <1>1, PublishKeepsStore
  <2>2. place[c] = "publish" /\ UNCHANGED <<settled, raced>>
    BY <1>1 DEF Publish, world
  <2> QED BY <1>0, <2>1, <2>2 DEF StaleOnlyAfterRace, ComputedOK
<1>2. ASSUME NEW k \in Keys, Invalidate(k) PROVE StaleOnlyAfterRace'
  <2>1. Cached' = Cached \ {k} /\ \A other \in Cached' : entries'[other] = entries[other]
    BY <1>0, <1>2, DropKeepsStore DEF Invalidate, InvalidateKey
  <2>2. raced \subseteq raced' /\ \A other \in Keys \ {k} : settled'[other] = settled[other]
    BY <1>2 DEF Invalidate, Settle
  <2> QED BY <1>0, <2>1, <2>2 DEF StaleOnlyAfterRace
<1>3. CASE Clear
  <2>1. Cached' = {}
    BY <1>3 DEF Clear, Cached
  <2> QED BY <2>1 DEF StaleOnlyAfterRace
<1>4. ASSUME NEW k, DropExpired(k), UNCHANGED <<settled, raced>> PROVE StaleOnlyAfterRace'
  <2>1. Cached' = Cached \ {k} /\ \A other \in Cached' : entries'[other] = entries[other]
    BY <1>0, <1>4, DropKeepsStore
  <2> QED BY <1>0, <1>4, <2>1 DEF StaleOnlyAfterRace
<1>5. ASSUME UNCHANGED <<entries, settled, raced>> PROVE StaleOnlyAfterRace'
  BY <1>0, <1>5 DEF StaleOnlyAfterRace, Cached
<1>6. \/ \E c \in Callers : Publish(c)
      \/ \E k \in Keys : Invalidate(k)
      \/ Clear
      \/ \E k : DropExpired(k) /\ UNCHANGED <<settled, raced>>
      \/ UNCHANGED <<entries, settled, raced>>
  BY DEF CacheNext, Lookup, LeaderStep, Hit, Coalesce, Lead, Compute, Fulfil, Expire,
         ChangeSource, cacheVars, cache, world
<1> QED BY <1>1, <1>2, <1>3, <1>4, <1>5, <1>6

\* CacheInv is inductive.
LEMMA NextCache == CacheInv /\ [CacheNext]_cacheVars => CacheInv'
<1> SUFFICES ASSUME CacheInv, [CacheNext]_cacheVars PROVE CacheInv'
  OBVIOUS
<1>1. TypeOK'
  <2>1. StoreOK' /\ FlightOK' /\ ValuesOK'
    BY StoreStep, FlightStep, ValuesStep
  <2> QED BY <2>1 DEF TypeOK, StoreOK, FlightOK, ValuesOK
<1>2. SingleFlight'
  <2>1. LeadersOK' /\ NotCached' /\ WaitersOK'
    BY LeadersStep, NotCachedStep, WaitersStep
  <2> QED BY <2>1 DEF SingleFlight, LeadersOK, NotCached, WaitersOK
<1> QED
  BY <1>1, <1>2, StoreStep, CallersStep, SettledStep, ComputedStep, StaleStep DEF CacheInv

-----------------------------------------------------------------------------
\* Types: the cache, the callers and the values they hold.
THEOREM CacheTypeCorrect == CacheSpec => []TypeOK
<1>1. CacheInv => TypeOK
  BY DEF CacheInv
<1> QED BY InitCache, NextCache, <1>1, PTL DEF CacheSpec

\* lru_ and entries_ hold the same keys, each once and at most capacity_ of them:
\* no erase or eviction misses one of the two.
THEOREM LruAndEntriesAgree == CacheSpec => []LruMatchesEntries
<1>1. CacheInv => LruMatchesEntries
  BY DEF CacheInv
<1> QED BY InitCache, NextCache, <1>1, PTL DEF CacheSpec

\* One computation per key at a time, and nobody waits for a leader that returned.
THEOREM ComputationsAreShared == CacheSpec => []SingleFlight
<1>1. CacheInv => SingleFlight
  BY DEF CacheInv
<1> QED BY InitCache, NextCache, <1>1, PTL DEF CacheSpec

\* A value older than an invalidation is cached only where a computation was in
\* flight then.
THEOREM StalenessNeedsRace == CacheSpec => []StaleOnlyAfterRace
<1>1. CacheInv => StaleOnlyAfterRace
  BY DEF CacheInv
<1> QED BY InitCache, NextCache, <1>1, PTL DEF CacheSpec

-----------------------------------------------------------------------------
(* ContextManager *)

\* Every set of numbers has a least one.
LEMMA LeastNumber ==
    ASSUME NEW T, T \subseteq Nat, T # {}
    PROVE  \E n \in T : \A m \in T : n <= m
<1> DEFINE R == OpToRel(<, Nat)
<1>1. IsWellFoundedOn(R, Nat)
  BY NatLessThanWellFounded, Zenon
<1>2. \A x, y \in Nat : y < x => <<y, x>> \in R
  BY DEF OpToRel
<1> HIDE DEF R
<1>3. PICK n \in T : \A m \in T : ~(<<m, n>> \in R)
  BY <1>1, WFMin
<1>4. \A m \in T : m \in Nat /\ n \in Nat /\ ~(m < n)
  BY <1>2, <1>3
<1> QED BY <1>4

\* Induction over the positions of a sequence.
LEMMA UpTo ==
    ASSUME NEW n \in Nat, NEW T, 0 \in T, \A k \in 1..n : k - 1 \in T => k \in T
    PROVE  0..n \subseteq T
<1> DEFINE U == {k \in 0..n : k \notin T}
<1> SUFFICES ASSUME U # {} PROVE FALSE
  OBVIOUS
<1>1. U \subseteq Nat
  OBVIOUS
<1>2. \A k \in U : k \in 1..n /\ k - 1 \in U
  OBVIOUS
<1> HIDE DEF U
<1>3. PICK m \in U : \A k \in U : m <= k
  BY <1>1, LeastNumber
<1> QED BY <1>1, <1>2, <1>3

\* f goes n steps from base.
Iterates(f, n, S, base, Step) ==
    f \in [0..n -> S] /\ f[0] = base /\ \A k \in 1..n : f[k] = Step[<<k, f[k - 1]>>]

\* A function over these positions can be defined by recursion.
LEMMA Recursion ==
    ASSUME NEW S, NEW base \in S, NEW n \in Nat, NEW Step \in [(1..n) \X S -> S]
    PROVE  \E f : Iterates(f, n, S, base, Step)
<1> USE DEF Iterates
<1> DEFINE Is(f, m) == Iterates(f, m, S, base, Step)
           T == {m \in 0..n : \E f : Is(f, m)}
<1>1. 0 \in T
  <2>1. Is([k \in 0..0 |-> base], 0)
    OBVIOUS
  <2>2. 0 \in 0..n
    OBVIOUS
  <2> QED BY <2>1, <2>2
<1>2. ASSUME NEW m \in 1..n, m - 1 \in T PROVE m \in T
  <2>1. PICK f : Is(f, m - 1)
    BY <1>2
  <2> DEFINE g == [k \in 0..m |-> IF k = m THEN Step[<<m, f[m - 1]>>] ELSE f[k]]
  <2>2. m - 1 \in 0..(m - 1) /\ f[m - 1] \in S /\ Step[<<m, f[m - 1]>>] \in S
    BY <2>1
  <2>3. g \in [0..m -> S] /\ g[0] = base
    BY <2>1, <2>2
  <2>4. ASSUME NEW k \in 1..m PROVE g[k] = Step[<<k, g[k - 1]>>]
    <3>1. CASE k = m
      BY SMTT(30), <3>1
    <3>2. CASE k # m
      <4>1. k \in 1..(m - 1) /\ k - 1 # m /\ k - 1 \in 0..m /\ k \in 0..m
        BY <3>2
      <4> QED BY <4>1, <2>1
    <3> QED BY <3>1, <3>2
  <2> HIDE DEF g
  <2>5. Is(g, m)
    BY <2>3, <2>4
  <2> QED BY <2>5
<1> HIDE DEF T
<1>3. 0..n \subseteq T
  BY <1>1, <1>2, UpTo
<1>4. n \in T
  BY <1>3
<1> QED BY <1>4 DEF T

\* sum[k] is the sum of the first k.
Sums(sum, lines) ==
    /\ Total(lines) = sum[Len(lines)] /\ sum[0] = 0
    /\ \A k \in 1..Len(lines) : sum[k] = sum[k - 1] + lines[k]
    /\ \A k \in 0..Len(lines) : sum[k] \in Nat

\* The sum of a sequence is what its recursion comes to.
LEMMA TotalSteps ==
    ASSUME NEW lines \in Seq(Nat)
    PROVE  \E sum : Sums(sum, lines)
<1> DEFINE n == Len(lines)
           IsSum(f) == f = [k \in 0..n |-> IF k = 0 THEN 0 ELSE f[k - 1] + lines[k]]
           sum == CHOOSE f : IsSum(f)
<1>1. n \in Nat /\ \A k \in 1..n : lines[k] \in Nat
  OBVIOUS
<1>2. Total(lines) = sum[n]
  BY Zenon DEF Total
<1> HIDE DEF n
<1>3. \E f : IsSum(f)
  <2> DEFINE Step == [x \in (1..n) \X Nat |-> x[2] + lines[x[1]]]
  <2>1. Step \in [(1..n) \X Nat -> Nat]
    BY <1>1
  <2>2. \A k \in 1..n, v \in Nat : Step[<<k, v>>] = v + lines[k]
    OBVIOUS
  <2> HIDE DEF Step
  <2>3. PICK f : Iterates(f, n, Nat, 0, Step)
    BY <1>1, <2>1, Recursion
  <2>4. ASSUME NEW k \in 1..n PROVE f[k] = f[k - 1] + lines[k]
    <3>1. k - 1 \in 0..n
      BY <1>1
    <3>2. f[k - 1] \in Nat
      BY <2>3, <3>1 DEF Iterates
    <3> QED BY <2>2, <2>3, <3>2 DEF Iterates
  <2>5. ASSUME NEW k \in 0..n PROVE f[k] = IF k = 0 THEN 0 ELSE f[k - 1] + lines[k]
    BY <1>1, <2>3, <2>4 DEF Iterates
  <2>6. IsSum(f)
    BY <2>3, <2>5 DEF Iterates
  <2> HIDE DEF IsSum
  <2> QED BY <2>6
<1>4. IsSum(sum)
  <2> HIDE DEF IsSum
  <2> QED BY <1>3
<1> HIDE DEF sum
<1>5. sum[0] = 0 /\ \A k \in 1..n : sum[k] = sum[k - 1] + lines[k]
  BY <1>1, <1>4
<1> HIDE DEF IsSum
<1> DEFINE T == {k \in 0..n : sum[k] \in Nat}
<1>6. 0 \in T /\ \A k \in 1..n : k - 1 \in T => k \in T
  <2>1. ASSUME NEW k \in 1..n, k - 1 \in T PROVE k \in T
    <3>1. sum[k - 1] \in Nat /\ lines[k] \in Nat /\ sum[k] = sum[k - 1] + lines[k]
      BY <1>1, <1>5, <2>1
    <3> QED BY <1>1, <3>1
  <2> QED BY <1>1, <1>5, <2>1
<1> HIDE DEF T
<1>7. 0..n \subseteq T
  BY <1>1, <1>6, UpTo
<1>8. \A k \in 0..n : sum[k] \in Nat
  BY <1>7 DEF T
<1> QED BY <1>2, <1>5, <1>8 DEF n, Sums

LEMMA TotalIsNat ==
    ASSUME NEW lines \in Seq(Nat), NEW header \in Nat
    PROVE  Total(lines) \in Nat /\ Below(header, lines) \in Nat
BY TotalSteps DEF Below, Sums

LEMMA ShortTotals ==
    /\ \A a \in Nat : Total(<<a>>) = a
    /\ \A a, b \in Nat : Total(<<a, b>>) = a + b
    /\ \A f \in [1..4 -> Nat] : Total(f) = f[1] + f[2] + f[3] + f[4]
<1>1. ASSUME NEW a \in Nat PROVE Total(<<a>>) = a
  <2>1. <<a>> \in Seq(Nat) /\ Len(<<a>>) = 1 /\ <<a>>[1] = a
    OBVIOUS
  <2>2. PICK sum : Sums(sum, <<a>>)
    BY <2>1, TotalSteps
  <2>3. Total(<<a>>) = sum[1] /\ sum[0] = 0 /\ sum[1] = sum[0] + a
    BY <2>1, <2>2 DEF Sums
  <2> QED BY <2>2, <2>3
<1>2. ASSUME NEW a \in Nat, NEW b \in Nat PROVE Total(<<a, b>>) = a + b
  <2> DEFINE l == <<a, b>>
  <2>1. l \in Seq(Nat) /\ Len(l) = 2 /\ l[1] = a /\ l[2] = b
    OBVIOUS
  <2> HIDE DEF l
  <2>2. PICK sum : Sums(sum, l)
    BY <2>1, TotalSteps
  <2>3. Total(l) = sum[2] /\ sum[0] = 0 /\ sum[1] = sum[0] + a /\ sum[2] = sum[1] + b
    BY <2>1, <2>2 DEF Sums
  <2>4. Total(l) = a + b
    BY <2>3
  <2> QED BY <2>4 DEF l
<1>3. ASSUME NEW f \in [1..4 -> Nat] PROVE Total(f) = f[1] + f[2] + f[3] + f[4]
  <2>1. f \in Seq(Nat) /\ Len(f) = 4
    <3>1. f = [i \in 1..4 |-> f[i]]
      OBVIOUS
    <3>2. [i \in 1..4 |-> f[i]] \in Seq(Nat) /\ Len([i \in 1..4 |-> f[i]]) = 4
      OBVIOUS
    <3> QED BY <3>1, <3>2, Zenon
  <2>2. PICK sum : Sums(sum, f)
    BY <2>1, TotalSteps
  <2>3. /\ Total(f) = sum[4] /\ sum[0] = 0 /\ sum[1] = sum[0] + f[1] /\ sum[2] = sum[1] + f[2]
        /\ sum[3] = sum[2] + f[3] /\ sum[4] = sum[3] + f[4]
    BY <2>1, <2>2 DEF Sums
  <2> QED BY <2>3
<1> QED BY <1>1, <1>2, <1>3

LEMMA Limits ==
    \A a, b \in Int : /\ Larger(a, b) = IF a >= b THEN a ELSE b
                      /\ Clip(a, b) = IF a <= b THEN a ELSE b
<1> SUFFICES ASSUME NEW a \in Int, NEW b \in Int
             PROVE  /\ Larger(a, b) = IF a >= b THEN a ELSE b
                    /\ Clip(a, b) = IF a <= b THEN a ELSE b
  OBVIOUS
<1> DEFINE m == IF a >= b THEN a ELSE b
           l == IF a <= b THEN a ELSE b
<1>1. m \in {a, b} /\ \A x \in {a, b} : x <= m
  OBVIOUS
<1>2. l \in {a, b} /\ \A x \in {a, b} : l <= x
  OBVIOUS
<1>3. Larger(a, b) = m
  BY <1>1 DEF Larger, Max
<1>4. Clip(a, b) = l
  BY <1>2 DEF Clip, Min
<1> QED BY <1>3, <1>4

-----------------------------------------------------------------------------
(* The history *)

EntryTypes == [item : Nat, recent : BOOLEAN, lines : Seq(Nat)]
Renderings == [items : SUBSET Nat, lines : Seq(Nat)]

LEMMA EntryType ==
    ASSUME NEW history \in Seq(Items), NEW i \in 1..Len(history)
    PROVE  Entry(history, i) \in EntryTypes
<1> DEFINE item == history[i]
<1>1. item \in Items
  OBVIOUS
<1> HIDE DEF item
<1>2. item.call \in Nat /\ item.content \in Nat /\ item.brief \in Nat /\ item.reusable \in Nat
  BY <1>1 DEF Items
<1>3. \A limit \in Nat : ItemLines(item, limit) \in Seq(Nat)
  <2> SUFFICES ASSUME NEW limit \in Nat PROVE ItemLines(item, limit) \in Seq(Nat)
    OBVIOUS
  <2>1. Clip(item.content, limit) \in Nat /\ Clip(item.content, Larger(20, limit)) \in Nat
    BY SMTT(30), <1>2, Limits
  <2> QED BY <1>2, <2>1 DEF ItemLines
<1> DEFINE lines == IF Recent(history, i) THEN ItemLines(item, 900)
                    ELSE IF item.reusable > 0 THEN <<item.reusable>>
                    ELSE IF item.tool THEN <<item.brief>> ELSE ItemLines(item, 60)
<1>4. lines \in Seq(Nat)
  <2>1. <<item.reusable>> \in Seq(Nat) /\ <<item.brief>> \in Seq(Nat)
    BY <1>2
  <2>2. ItemLines(item, 900) \in Seq(Nat) /\ ItemLines(item, 60) \in Seq(Nat)
    BY SMTT(30), <1>3
  <2> QED BY <2>1, <2>2, ZenonT(60)
<1>5. Recent(history, i) \in BOOLEAN
  BY DEF Recent
<1>6. Entry(history, i) = [item |-> i, recent |-> Recent(history, i), lines |-> lines]
  BY Zenon DEF Entry, item
<1> HIDE DEF lines
<1> QED BY <1>4, <1>5, <1>6 DEF EntryTypes

\* An entry is put before the lines so far, as it is or clipped, or is left out.
LEMMA PutType ==
    ASSUME NEW rendered \in Renderings, NEW entry \in EntryTypes, NEW budget \in Nat
    PROVE  /\ Put(rendered, entry, budget) \in Renderings
           /\ Put(rendered, entry, budget).items \in {rendered.items, rendered.items \cup {entry.item}}
<1> DEFINE room == Larger(20, budget - Below(TranscriptHeader, rendered.lines) - 1)
           limit == IF entry.recent THEN room ELSE 20
           clipped == [i \in DOMAIN entry.lines |-> Clip(entry.lines[i], limit)]
           With(lines) == [items |-> rendered.items \cup {entry.item},
                           lines |-> lines \o rendered.lines]
<1>1. rendered.items \in SUBSET Nat /\ rendered.lines \in Seq(Nat) /\ entry.item \in Nat
      /\ entry.lines \in Seq(Nat)
  BY DEF Renderings, EntryTypes
<1>2. limit \in Nat
  <2>1. Below(TranscriptHeader, rendered.lines) \in Nat
    BY <1>1, TotalIsNat DEF TranscriptHeader
  <2>2. budget - Below(TranscriptHeader, rendered.lines) - 1 \in Int /\ 20 \in Int
    BY <2>1
  <2>3. room \in Nat
    BY <2>2, Limits
  <2> QED BY <2>3
<1> HIDE DEF limit
<1>3. clipped \in Seq(Nat)
  <2>1. \A i \in 1..Len(entry.lines) : Clip(entry.lines[i], limit) \in Nat
    BY SMTT(30), <1>1, <1>2, Limits
  <2>2. DOMAIN entry.lines = 1..Len(entry.lines)
    BY <1>1
  <2> QED BY <1>1, <2>1, <2>2
<1> HIDE DEF clipped
<1>4. \A lines \in Seq(Nat) : lines \o rendered.lines \in Seq(Nat)
  BY <1>1
<1>5. \A lines \in Seq(Nat) : With(lines) \in Renderings /\ With(lines).items = rendered.items \cup {entry.item}
  BY <1>1, <1>4 DEF Renderings
<1>6. Put(rendered, entry, budget) \in {With(entry.lines), With(clipped), rendered}
  BY DEF Put, clipped, limit
<1> HIDE DEF With
<1> QED BY <1>1, <1>3, <1>5, <1>6

\* The transcript is well-formed, and the newest item is in it if it is put into
\* the empty one.
LEMMA RenderedHistory ==
    ASSUME NEW history \in Seq(Items), history # <<>>, NEW budget \in Nat
    PROVE  /\ RenderedEntries(history, budget) \in Renderings
           /\ Len(history) \in RenderedEntries(history, budget).items <=>
                 Len(history) \in Put(NothingYet, Entry(history, Len(history)), budget).items
<1> DEFINE n == Len(history)
           order == NewestFirst(history)
           E(k) == Entry(history, order[k])
           IsRendered(f) ==
               f = [k \in 0..n |->
                       IF k = 0 THEN NothingYet
                       ELSE IF Collapsed(history, order[k]) THEN f[k - 1]
                       ELSE Put(f[k - 1], E(k), budget)]
           r == CHOOSE f : IsRendered(f)
<1>1. n \in Nat \ {0}
  OBVIOUS
<1>2. RenderedEntries(history, budget) = r[n]
  BY Zenon DEF RenderedEntries
<1>3. \A k \in 1..n : order[k] = n + 1 - k /\ order[k] \in 1..n
  BY <1>1 DEF NewestFirst
<1>4. \A k \in 1..n : E(k) \in EntryTypes /\ E(k).item = order[k]
  <2> SUFFICES ASSUME NEW k \in 1..n PROVE E(k) \in EntryTypes /\ E(k).item = order[k]
    OBVIOUS
  <2>1. E(k) \in EntryTypes
    BY <1>3, EntryType
  <2> QED BY <2>1 DEF Entry
<1>5. NothingYet \in Renderings
  BY DEF NothingYet, Renderings
<1> HIDE DEF n, order, E
<1>6. \E f : IsRendered(f)
  <2> DEFINE Step == [x \in (1..n) \X Renderings |->
                          IF Collapsed(history, order[x[1]]) THEN x[2] ELSE Put(x[2], E(x[1]), budget)]
  <2>1. Step \in [(1..n) \X Renderings -> Renderings]
    BY <1>4, PutType
  <2>2. \A k \in 1..n, v \in Renderings :
            Step[<<k, v>>] = IF Collapsed(history, order[k]) THEN v ELSE Put(v, E(k), budget)
    OBVIOUS
  <2> HIDE DEF Step
  <2>3. PICK f : Iterates(f, n, Renderings, NothingYet, Step)
    BY <1>1, <1>5, <2>1, Recursion
  <2>4. ASSUME NEW k \in 1..n
        PROVE  f[k] = IF Collapsed(history, order[k]) THEN f[k - 1] ELSE Put(f[k - 1], E(k), budget)
    <3>1. k - 1 \in 0..n
      BY <1>1
    <3>2. f[k - 1] \in Renderings
      BY <2>3, <3>1 DEF Iterates
    <3> QED BY <2>2, <2>3, <3>2 DEF Iterates
  <2>5. ASSUME NEW k \in 0..n
        PROVE  f[k] = IF k = 0 THEN NothingYet
                      ELSE IF Collapsed(history, order[k]) THEN f[k - 1] ELSE Put(f[k - 1], E(k), budget)
    BY <1>1, <2>3, <2>4 DEF Iterates
  <2>6. IsRendered(f)
    BY <2>3, <2>5 DEF Iterates
  <2> HIDE DEF IsRendered
  <2> QED BY <2>6
<1>7. IsRendered(r)
  <2> HIDE DEF IsRendered
  <2> QED BY <1>6
<1> HIDE DEF r
<1>8. /\ r[0] = NothingYet
      /\ \A k \in 1..n : r[k] = IF Collapsed(history, order[k]) THEN r[k - 1] ELSE Put(r[k - 1], E(k), budget)
  BY <1>1, <1>7
<1> HIDE DEF IsRendered
<1>9. r[1] = Put(NothingYet, Entry(history, n), budget)
  <2>1. order[1] = n /\ 1 \in 1..n
    BY <1>1, <1>3
  <2>2. ~Collapsed(history, n)
    <3>1. Recent(history, n)
      BY <1>1 DEF Recent, RecentWindow, n
    <3> QED BY <3>1 DEF Collapsed
  <2>3. r[1] = Put(r[0], E(1), budget)
    BY <1>8, <2>1, <2>2
  <2> QED BY <1>8, <2>1, <2>3 DEF E
<1> DEFINE T == {k \in 0..n : r[k] \in Renderings /\ (k >= 1 => (n \in r[k].items <=> n \in r[1].items))}
<1>10. 0 \in T
  BY <1>1, <1>5, <1>8
<1>11. ASSUME NEW k \in 1..n, k - 1 \in T PROVE k \in T
  <2>1. r[k - 1] \in Renderings
    BY <1>11
  <2>2. r[k] \in {r[k - 1], Put(r[k - 1], E(k), budget)}
    BY <1>8
  <2>3. r[k] \in Renderings
    BY <1>4, <2>1, <2>2, PutType
  <2>4. CASE k = 1
    BY <2>3, <2>4
  <2>5. CASE k # 1
    <3>1. k - 1 >= 1 /\ order[k] # n
      BY <1>1, <1>3, <2>5
    <3>2. r[k].items \in {r[k - 1].items, r[k - 1].items \cup {order[k]}}
      BY <1>4, <2>1, <2>2, PutType
    <3>3. n \in r[k].items <=> n \in r[k - 1].items
      BY <3>1, <3>2
    <3> QED BY <1>11, <2>3, <3>1, <3>3
  <2> QED BY <2>4, <2>5
<1> HIDE DEF T
<1>12. 0..n \subseteq T
  BY <1>1, <1>10, <1>11, UpTo
<1>13. r[n] \in Renderings /\ (n \in r[n].items <=> n \in r[1].items)
  BY <1>1, <1>12 DEF T
<1> QED BY <1>2, <1>9, <1>13 DEF n

-----------------------------------------------------------------------------
(* What is shown of the newest item *)

LEMMA TwoLines ==
    \A a, b, budget \in Nat : Fits(<<a, b>>, budget) <=> 13 + a + b <= budget
<1> SUFFICES ASSUME NEW a \in Nat, NEW b \in Nat, NEW budget \in Nat
             PROVE  Fits(<<a, b>>, budget) <=> 13 + a + b <= budget
  OBVIOUS
<1>1. Total(<<a, b>>) = a + b /\ Len(<<a, b>>) = 2
  BY ShortTotals
<1> HIDE ShortTotals
<1> QED BY <1>1 DEF Fits, Below, TranscriptHeader

LEMMA NewestEntry ==
    ASSUME NEW history \in Seq(Items), history # <<>>, NEW budget \in Nat
    PROVE  LET n == Len(history)
               item == history[n]
               put == Put(NothingYet, Entry(history, n), budget)
           IN  IF item.tool THEN n \in put.items <=> Fits(ItemLines(item, 900), budget)
               ELSE budget >= 32 => n \in put.items
<1> DEFINE n == Len(history)
           item == history[n]
           entry == Entry(history, n)
           room == Larger(20, budget - Below(TranscriptHeader, NothingYet.lines) - 1)
           clipped == [i \in DOMAIN entry.lines |-> Clip(entry.lines[i], room)]
           put == Put(NothingYet, entry, budget)
           content == Clip(item.content, 900)
<1> SUFFICES IF item.tool THEN n \in put.items <=> Fits(ItemLines(item, 900), budget)
             ELSE budget >= 32 => n \in put.items
  OBVIOUS
<1>1. n \in Nat \ {0} /\ item \in Items
  OBVIOUS
<1> HIDE DEF item
<1>2. item.call \in Nat /\ item.content \in Nat /\ item.tool \in BOOLEAN
  BY <1>1 DEF Items
<1>3. content \in Nat
  BY <1>2, Limits
<1>4. entry.item = n /\ entry.recent /\ entry.lines = ItemLines(item, 900)
  <2>1. Recent(history, n)
    BY <1>1 DEF Recent, RecentWindow
  <2> QED BY <2>1 DEF Entry, item
<1> HIDE DEF n, entry
<1>5. /\ Total(<<>>) = 0 /\ Below(TranscriptHeader, NothingYet.lines) = 11
      /\ \A lines \in Seq(Nat) : lines \o NothingYet.lines = lines
  <2>1. <<>> \in Seq(Nat) /\ Len(<<>>) = 0
    OBVIOUS
  <2>2. Total(<<>>) = 0
    BY <2>1, TotalSteps DEF Sums
  <2>3. Below(TranscriptHeader, NothingYet.lines) = 11
    BY <2>1, <2>2 DEF Below, TranscriptHeader, NothingYet
  <2> QED BY <2>2, <2>3 DEF NothingYet
<1>6. room = IF budget >= 32 THEN budget - 12 ELSE 20
  BY <1>5, Limits
<1>7. ASSUME NEW lines \in Seq(Nat)
      PROVE  lines \o NothingYet.lines = lines /\ Fits(lines, budget) \in BOOLEAN
  BY <1>5 DEF Fits
<1> HIDE DEF room
<1>8. ASSUME entry.lines \in Seq(Nat), clipped \in Seq(Nat)
      PROVE  n \in put.items <=> Fits(entry.lines, budget) \/ Fits(clipped, budget)
  <2> DEFINE With(lines) == [items |-> NothingYet.items \cup {entry.item},
                             lines |-> lines \o NothingYet.lines]
  <2>1. With(entry.lines).lines = entry.lines /\ With(clipped).lines = clipped
    BY <1>5, <1>8
  <2>2. put = IF Fits(With(entry.lines).lines, budget) THEN With(entry.lines)
              ELSE IF Fits(With(clipped).lines, budget) THEN With(clipped) ELSE NothingYet
    BY <1>4 DEF Put, room
  <2>3. put = IF Fits(entry.lines, budget) THEN With(entry.lines)
              ELSE IF Fits(clipped, budget) THEN With(clipped) ELSE NothingYet
    BY ONLY <2>1, <2>2
  <2>4. n \in With(entry.lines).items /\ n \in With(clipped).items /\ n \notin NothingYet.items
    BY <1>4 DEF NothingYet
  <2> HIDE DEF With, clipped, put
  <2>5. CASE Fits(entry.lines, budget)
    BY ONLY <2>3, <2>4, <2>5
  <2>6. CASE ~Fits(entry.lines, budget) /\ Fits(clipped, budget)
    BY ONLY <2>3, <2>4, <2>6
  <2>7. CASE ~Fits(entry.lines, budget) /\ ~Fits(clipped, budget)
    BY ONLY <2>3, <2>4, <2>7
  <2> QED BY ONLY <2>5, <2>6, <2>7
<1>9. CASE item.tool
  <2>1. entry.lines = <<item.call, Clip(item.content, 900)>>
    BY <1>2, <1>4, <1>9, Limits DEF ItemLines
  <2>2. clipped = <<Clip(item.call, room), Clip(content, room)>>
    BY <2>1
  <2> DEFINE a == Clip(item.call, room)
             b == Clip(content, room)
  <2> HIDE DEF content
  <2>3. room \in Nat /\ a = (IF item.call <= room THEN item.call ELSE room)
        /\ b = (IF content <= room THEN content ELSE room)
    BY <1>2, <1>3, <1>6, Limits
  <2>4. a \in Nat /\ b \in Nat
    BY <1>2, <1>3, <2>3
  <2> HIDE DEF a, b, clipped
  <2>5. Fits(entry.lines, budget) <=> 13 + item.call + content <= budget
    <3>1. entry.lines = <<item.call, content>>
      BY <2>1 DEF content
    <3> QED BY <1>2, <1>3, <3>1, TwoLines
  <2>6. Fits(clipped, budget) <=> 13 + a + b <= budget
    <3>1. clipped = <<a, b>>
      BY <2>2 DEF a, b
    <3> QED BY <2>4, <3>1, TwoLines
  <2>7. Fits(clipped, budget) => Fits(entry.lines, budget)
    BY SMTT(30), <1>2, <1>3, <1>6, <2>3, <2>5, <2>6
  <2>8. entry.lines \in Seq(Nat) /\ clipped \in Seq(Nat)
    <3>1. clipped = <<a, b>>
      BY <2>2 DEF a, b
    <3> QED BY <1>2, <1>3, <2>1, <2>4, <3>1 DEF content
  <2>9. n \in put.items <=> Fits(ItemLines(item, 900), budget)
    BY <1>4, <1>8, <2>7, <2>8
  <2> QED BY <1>9, <2>9
<1>10. CASE ~item.tool
  <2> DEFINE length == item.call + content
  <2>1. entry.lines = <<length>> /\ clipped = <<Clip(length, room)>>
    BY <1>4, <1>10 DEF ItemLines
  <2>2. Fits(clipped, budget) <=> 12 + Clip(length, room) <= budget
    BY <1>2, <1>3, <1>6, <2>1, ShortTotals, Limits DEF Fits, Below, TranscriptHeader
  <2>3. budget >= 32 => Fits(clipped, budget)
    BY <1>2, <1>3, <1>6, <2>2, Limits
  <2>4. Clip(length, room) \in Nat
    BY <1>2, <1>3, <1>6, Limits
  <2>5. entry.lines \in Seq(Nat) /\ clipped \in Seq(Nat)
    BY <1>2, <1>3, <2>1, <2>4
  <2> HIDE DEF clipped
  <2>6. budget >= 32 => n \in put.items
    BY <1>8, <2>3, <2>5
  <2> QED BY <1>10, <2>6
<1> QED BY <1>2, <1>9, <1>10

-----------------------------------------------------------------------------
(* The lengths of the sections *)

\* A section of notes is within a budget above zero, or is the one that is empty.
LEMMA RelevantLength ==
    ASSUME NEW notes \in Seq(Nat), NEW budget \in Nat
    PROVE  /\ RelevantMemory(notes, budget) \in Nat
           /\ budget > 0 => RelevantMemory(notes, budget) <= Larger(23, budget)
<1> DEFINE n == Len(notes)
           share == Larger(1, (budget - 16 - 3 * n) \div n)
           With(k) == Below(16, [i \in 1..n |-> 2 + Clip(notes[i], k)])
           raw == Below(16, [i \in 1..n |-> 2 + notes[i]])
<1>1. n \in Nat /\ \A i \in 1..n : notes[i] \in Nat
  OBVIOUS
<1>2. RelevantMemory(notes, budget) =
          IF n = 0 THEN 23
          ELSE IF With(share) > budget /\ budget > 0 THEN Clip(raw, budget) ELSE With(share)
  BY DEF RelevantMemory
<1>3. CASE n = 0
  BY <1>2, <1>3, Limits
<1>4. CASE n # 0
  <2>1. (budget - 16 - 3 * n) \div n \in Int
    BY <1>1, <1>4
  <2>2. share \in Nat
    BY <2>1, Limits
  <2> HIDE DEF n, share
  <2>3. With(share) \in Nat
    <3>1. \A i \in 1..n : 2 + Clip(notes[i], share) \in Nat
      BY SMTT(30), <1>1, <2>2, Limits
    <3>2. [i \in 1..n |-> 2 + Clip(notes[i], share)] \in Seq(Nat)
      BY <1>1, <3>1
    <3> QED BY <3>2, TotalIsNat
  <2>4. raw \in Nat
    <3>1. [i \in 1..n |-> 2 + notes[i]] \in Seq(Nat)
      BY <1>1
    <3> QED BY <3>1, TotalIsNat
  <2> HIDE DEF With, raw
  <2> QED BY <1>2, <1>4, <2>3, <2>4, Limits
<1> QED BY <1>3, <1>4

LEMMA HistoryLength ==
    ASSUME NEW history \in Seq(Items), NEW budget \in Nat
    PROVE  /\ History(history, budget) \in Nat
           /\ budget > 0 => History(history, budget) <= Larger(23, budget)
<1> DEFINE length == Below(TranscriptHeader, RenderedEntries(history, budget).lines)
           raw == RawHistory(history)
<1>1. CASE history = <<>>
  BY <1>1, Limits DEF History, RawHistory, TranscriptHeader
<1>2. CASE history # <<>>
  <2>1. length \in Nat
    BY <1>2, RenderedHistory, TotalIsNat DEF Renderings, TranscriptHeader
  <2>2. raw \in Nat
    <3> DEFINE m == Len(history)
               e(i) == history[i].call + history[i].content + (IF history[i].tool THEN 2 ELSE 1)
               lines == [i \in 1..m |-> e(i)]
    <3>1. \A i \in 1..Len(history) : history[i].call \in Nat /\ history[i].content \in Nat
      <4>1. \A i \in 1..Len(history) : history[i] \in Items
        OBVIOUS
      <4> QED BY <4>1 DEF Items
    <3>2. DOMAIN history = 1..Len(history) /\ Len(history) \in Nat
      OBVIOUS
    <3>3. lines \in Seq(Nat)
      <4>1. m \in Nat /\ \A i \in 1..m : e(i) \in Nat
        BY <3>1, <3>2
      <4> HIDE DEF m, e
      <4> QED BY <4>1
    <3>4. raw = 11 + Total(lines)
      BY <1>2, <3>2 DEF RawHistory, TranscriptHeader
    <3> HIDE DEF lines, raw
    <3>5. Total(lines) \in Nat
      BY <3>3, TotalIsNat
    <3> QED BY <3>4, <3>5
  <2>3. History(history, budget) = IF length > budget /\ budget > 0 THEN Clip(raw, budget) ELSE length
    BY <1>2 DEF History
  <2> HIDE DEF length, raw
  <2> QED BY <2>1, <2>2, <2>3, Limits
<1> QED BY <1>1, <1>2

LEMMA SectionNames ==
    /\ ReductionOrder = <<"relevant_memory", "history", "memory", "prefix">>
    /\ Sections = {"relevant_memory", "history", "memory", "prefix"}
    /\ \A i \in 1..4 : ReductionOrder[i] \in Sections
    /\ \A s \in Sections : \E i \in 1..4 : s = ReductionOrder[i]
<1>1. DOMAIN ReductionOrder = 1..4
  BY DEF ReductionOrder
<1> QED BY <1>1 DEF ReductionOrder, Sections, ToSet

LEMMA InputTypes ==
    ASSUME input \in Inputs
    PROVE  /\ input.text["prefix"] \in Nat /\ input.text["memory"] \in Nat
           /\ input.text["request"] \in Nat
           /\ input.notes \in Seq(Nat) /\ input.history \in Seq(Items)
           /\ input.budgets \in [Sections -> Nat] /\ input.total \in Nat
           /\ \A s \in Sections : Floor(s) \in Nat
<1>1. /\ input.text \in [{"prefix", "memory", "request"} -> Nat]
      /\ input.notes \in Seq(Nat) /\ input.history \in Seq(Items)
      /\ input.budgets \in [Sections -> Nat] /\ input.total \in Nat
      /\ \A s \in DOMAIN input.overrides : s \in Sections /\ input.overrides[s] \in Nat
  BY InputAssumption
<1>2. ASSUME NEW s \in Sections PROVE Floor(s) \in Nat
  <2>1. input.budgets[s] \div 4 \in Int
    BY <1>1
  <2>2. Larger(20, input.budgets[s] \div 4) \in Nat
    BY <2>1, Limits
  <2> QED BY <1>1, <2>2 DEF Floor
<1> QED BY <1>1, <1>2

\* A section within a budget above zero is no longer than it, or is an empty one.
LEMMA RenderedLength ==
    ASSUME input \in Inputs, NEW s \in Sections, NEW budget \in Nat
    PROVE  /\ Rendered(s, budget) \in Nat
           /\ budget > 0 => Rendered(s, budget) <= Larger(23, budget)
<1>1. CASE s = "relevant_memory"
  BY <1>1, InputTypes, RelevantLength DEF Rendered
<1>2. CASE s = "history"
  BY <1>2, InputTypes, HistoryLength DEF Rendered
<1>3. CASE s \in {"memory", "prefix"}
  <2>1. Rendered(s, budget) = Clip(input.text[s], budget) /\ input.text[s] \in Nat
    BY <1>3, InputTypes DEF Rendered
  <2> QED BY <2>1, Limits
<1> QED BY <1>1, <1>2, <1>3, SectionNames

-----------------------------------------------------------------------------
(* The loop of build *)

AllAtFloors == \A s \in Sections : budgets[s] <= Floor(s)

\* Budgets only shrink, and only one that was zero, or may become so, is zero; what is built fits, or
\* no budget can give way.
ContextInv ==
    /\ input \in Inputs /\ phase \in {"rendered", "built"}
    /\ budgets \in [Sections -> Nat]
    /\ \A s \in Sections : budgets[s] <= input.budgets[s]
                          /\ (budgets[s] = 0 => 0 \in {Floor(s), input.budgets[s]})
    /\ phase = "built" /\ input.reduce => PromptLength <= input.total \/ AllAtFloors

LEMMA InitContext == ContextInit => ContextInv
<1> SUFFICES ASSUME ContextInit PROVE ContextInv
  OBVIOUS
<1>1. input \in Inputs /\ budgets = input.budgets /\ phase = "rendered"
  BY DEF ContextInit
<1>2. budgets \in [Sections -> Nat]
  BY <1>1, InputTypes
<1> QED BY <1>1, <1>2 DEF ContextInv

LEMMA PromptIsNat == ContextInv => PromptLength \in Nat /\
    PromptLength = input.text["request"] + 8 +
        Rendered(ReductionOrder[1], budgets[ReductionOrder[1]]) +
        Rendered(ReductionOrder[2], budgets[ReductionOrder[2]]) +
        Rendered(ReductionOrder[3], budgets[ReductionOrder[3]]) +
        Rendered(ReductionOrder[4], budgets[ReductionOrder[4]])
<1> SUFFICES ASSUME ContextInv
             PROVE  PromptLength \in Nat /\
                    PromptLength = input.text["request"] + 8 +
                        Rendered(ReductionOrder[1], budgets[ReductionOrder[1]]) +
                        Rendered(ReductionOrder[2], budgets[ReductionOrder[2]]) +
                        Rendered(ReductionOrder[3], budgets[ReductionOrder[3]]) +
                        Rendered(ReductionOrder[4], budgets[ReductionOrder[4]])
  OBVIOUS
<1> DEFINE lengths == [i \in 1..4 |-> Rendered(ReductionOrder[i], budgets[ReductionOrder[i]])]
<1>1. \A i \in 1..4 : Rendered(ReductionOrder[i], budgets[ReductionOrder[i]]) \in Nat
  <2> SUFFICES ASSUME NEW i \in 1..4
               PROVE  Rendered(ReductionOrder[i], budgets[ReductionOrder[i]]) \in Nat
    OBVIOUS
  <2>1. ReductionOrder[i] \in Sections
    BY SectionNames
  <2>2. budgets[ReductionOrder[i]] \in Nat
    BY <2>1 DEF ContextInv
  <2> QED BY <2>1, <2>2, RenderedLength DEF ContextInv
<1>2. lengths \in [1..4 -> Nat]
  BY <1>1
<1>3. Total(lengths) = lengths[1] + lengths[2] + lengths[3] + lengths[4]
  BY <1>2, ShortTotals
<1>4. PromptLength = input.text["request"] + 8 + Total(lengths)
  BY DEF PromptLength, Separators
<1>5. input.text["request"] \in Nat
  BY InputTypes DEF ContextInv
<1> QED BY <1>1, <1>3, <1>4, <1>5

LEMMA NextContext == ContextInv /\ [ContextNext]_contextVars => ContextInv'
<1> SUFFICES ASSUME ContextInv, [ContextNext]_contextVars PROVE ContextInv'
  OBVIOUS
<1>1. CASE Reduce
  <2>1. PICK i \in AllSections :
            /\ Reducible(i)
            /\ budgets' = [budgets EXCEPT ![ReductionOrder[i]] =
                  Larger(Floor(ReductionOrder[i]), @ - (PromptLength - input.total))]
    BY <1>1 DEF Reduce
  <2> DEFINE s == ReductionOrder[i]
             b == Larger(Floor(s), budgets[s] - (PromptLength - input.total))
  <2>2. s \in Sections
    BY SectionNames DEF AllSections
  <2>3. UNCHANGED <<input, phase>> /\ phase = "rendered" /\ \A x \in Sections : Floor(x)' = Floor(x)
    BY <1>1 DEF Reduce, Floor
  <2>4. b \in Nat /\ b >= Floor(s) /\ Floor(s) \in Nat /\ b <= budgets[s]
    <3>1. Floor(s) \in Nat /\ input.total \in Nat
      BY <2>2, InputTypes DEF ContextInv
    <3>2. budgets[s] - (PromptLength - input.total) \in Int
      BY <2>2, <3>1, PromptIsNat DEF ContextInv
    <3>3. PromptLength > input.total /\ PromptLength \in Nat /\ budgets[s] \in Nat
          /\ budgets[s] > Floor(s)
      BY <1>1, <2>1, <2>2, PromptIsNat DEF Reduce, Reducible, ContextInv
    <3> QED BY <3>1, <3>2, <3>3, Limits
  <2>5. budgets' = [budgets EXCEPT ![s] = b]
    BY <2>1
  <2> HIDE DEF s, b
  <2>6. budgets' \in [Sections -> Nat]
    BY <2>4, <2>5 DEF ContextInv
  <2>7. ASSUME NEW x \in Sections
        PROVE  budgets'[x] <= input.budgets[x] /\ (budgets'[x] = 0 => 0 \in {Floor(x), input.budgets[x]})
    <3>1. budgets[s] \in Nat /\ input.budgets[s] \in Nat
      BY <2>2, InputTypes DEF ContextInv
    <3> QED BY <2>2, <2>4, <2>5, <3>1 DEF ContextInv
  <2> QED BY <2>3, <2>6, <2>7 DEF ContextInv
<1>2. CASE Built
  <2>1. UNCHANGED <<input, budgets>> /\ phase' = "built"
    BY <1>2 DEF Built
  <2>2. PromptLength' = PromptLength /\ AllAtFloors' = AllAtFloors
        /\ \A x \in Sections : Floor(x)' = Floor(x)
    BY <2>1 DEF PromptLength, AllAtFloors, Floor, Rendered
  <2>3. input.reduce => PromptLength <= input.total \/ AllAtFloors
    <3>1. (\A i \in 1..4 : ~Reducible(i)) => AllAtFloors
      <4> SUFFICES ASSUME \A i \in 1..4 : ~Reducible(i), NEW x \in Sections PROVE budgets[x] <= Floor(x)
        BY DEF AllAtFloors
      <4>1. PICK i \in 1..4 : x = ReductionOrder[i]
        BY SectionNames
      <4>2. ~(budgets[x] > Floor(x))
        BY <4>1 DEF Reducible
      <4>3. budgets[x] \in Nat /\ Floor(x) \in Nat
        BY InputTypes DEF ContextInv
      <4> QED BY <4>2, <4>3
    <3> QED BY <1>2, <3>1 DEF Built, AllSections
  <2> QED BY <2>1, <2>2, <2>3 DEF ContextInv
<1>3. CASE UNCHANGED contextVars
  <2>1. UNCHANGED <<input, budgets, phase>>
    BY <1>3 DEF contextVars
  <2>2. PromptLength' = PromptLength /\ AllAtFloors' = AllAtFloors
        /\ \A x \in Sections : Floor(x)' = Floor(x)
    BY <2>1 DEF PromptLength, AllAtFloors, Floor, Rendered
  <2> QED BY <2>1, <2>2 DEF ContextInv
<1> QED BY <1>1, <1>2, <1>3 DEF ContextNext

\* A prompt is over its budget only if its request leaves too little room for the
\* least of all sections: the loop of build gives up nothing it could still do.
THEOREM PromptFits == ContextSpec => []FitsUnlessAtFloors
<1>1. ASSUME ContextInv PROVE FitsUnlessAtFloors
  <2> SUFFICES ASSUME phase = "built", input.reduce, PromptLength > input.total
               PROVE  input.text["request"] + 8 + Total([i \in 1..4 |-> Least(ReductionOrder[i])]) > input.total
    BY DEF FitsUnlessAtFloors, Separators
  <2> DEFINE least == [i \in 1..4 |-> Least(ReductionOrder[i])]
  <2>1. input.total \in Nat /\ input.text["request"] \in Nat /\ PromptLength \in Nat
    BY <1>1, InputTypes, PromptIsNat DEF ContextInv
  <2>2. AllAtFloors
    BY <1>1, <2>1 DEF ContextInv
  <2>3. ASSUME NEW s \in Sections
        PROVE  Least(s) \in Nat /\ Rendered(s, budgets[s]) \in Nat /\ Rendered(s, budgets[s]) <= Least(s)
    <3>1. /\ budgets[s] \in Nat /\ Floor(s) \in Nat /\ input.budgets[s] \in Nat
          /\ budgets[s] <= Floor(s) /\ budgets[s] <= input.budgets[s]
          /\ (budgets[s] = 0 => 0 \in {Floor(s), input.budgets[s]})
      BY <1>1, <2>2, InputTypes DEF ContextInv, AllAtFloors
    <3>2. /\ Rendered(s, budgets[s]) \in Nat /\ Rendered(s, 0) \in Nat
          /\ budgets[s] > 0 => Rendered(s, budgets[s]) <= Larger(23, budgets[s])
      BY <1>1, <3>1, RenderedLength DEF ContextInv
    <3>3. CASE 0 \in {Floor(s), input.budgets[s]}
      <4>1. budgets[s] = 0
        BY <3>1, <3>3
      <4> QED BY <3>2, <3>3, <4>1 DEF Least
    <3>4. CASE 0 \notin {Floor(s), input.budgets[s]}
      BY <3>1, <3>2, <3>4, Limits DEF Least
    <3> QED BY <3>3, <3>4
  <2>4. PromptLength = input.text["request"] + 8 +
            Rendered(ReductionOrder[1], budgets[ReductionOrder[1]]) +
            Rendered(ReductionOrder[2], budgets[ReductionOrder[2]]) +
            Rendered(ReductionOrder[3], budgets[ReductionOrder[3]]) +
            Rendered(ReductionOrder[4], budgets[ReductionOrder[4]])
    BY <1>1, PromptIsNat
  <2>5. \A i \in 1..4 :
            /\ least[i] \in Nat /\ Rendered(ReductionOrder[i], budgets[ReductionOrder[i]]) \in Nat
            /\ Rendered(ReductionOrder[i], budgets[ReductionOrder[i]]) <= least[i]
    BY <2>3, SectionNames
  <2>6. least \in [1..4 -> Nat]
    BY <2>5
  <2> HIDE DEF least
  <2>7. Total(least) = least[1] + least[2] + least[3] + least[4]
    BY <2>6, ShortTotals
  <2>8. input.text["request"] + 8 + Total(least) > input.total
    BY <2>1, <2>4, <2>5, <2>7
  <2> QED BY <2>8 DEF least
<1> QED BY InitContext, NextContext, <1>1, PTL DEF ContextSpec

\* The newest item is in the transcript as far as its budget can hold it: what is
\* rendered starts with it, and a tool's two lines are never clipped to fit.
THEOREM NewestIsKept == ContextSpec => []NewestIsShown
<1>1. ASSUME ContextInv PROVE NewestIsShown
  <2> DEFINE n == Len(input.history)
             item == input.history[n]
             budget == budgets["history"]
  <2>1. input.history \in Seq(Items) /\ budget \in Nat /\ n \in Nat
    <3>1. input.history \in Seq(Items)
      BY <1>1, InputTypes DEF ContextInv
    <3>2. budgets \in [Sections -> Nat] /\ "history" \in Sections
      BY <1>1, SectionNames DEF ContextInv
    <3> QED BY <3>1, <3>2
  <2>2. ASSUME n > 0
        PROVE  LET visible == n \in RenderedEntries(input.history, budget).items
               IN  IF item.tool THEN visible <=> Fits(ItemLines(item, 900), budget)
                   ELSE budget >= 32 => visible
    <3>1. input.history # <<>>
      BY <2>1, <2>2
    <3>2. n \in RenderedEntries(input.history, budget).items <=>
            n \in Put(NothingYet, Entry(input.history, n), budget).items
      BY <2>1, <3>1, RenderedHistory
    <3>3. LET put == Put(NothingYet, Entry(input.history, n), budget)
          IN  IF item.tool THEN n \in put.items <=> Fits(ItemLines(item, 900), budget)
              ELSE budget >= 32 => n \in put.items
      BY <2>1, <3>1, NewestEntry
    <3> QED BY <3>2, <3>3
  <2> QED BY <2>2, Zenon DEF NewestIsShown
<1> QED BY InitContext, NextContext, <1>1, PTL DEF ContextSpec
=============================================================================
