--------------------------- MODULE DurableMemory ---------------------------
(***************************************************************************)
(* DurableMemoryStore (src/src/context/memory.cpp): notes that outlive a   *)
(* session, kept as MEMORY.md, an index of topics, and one file per topic  *)
(* under topics/.  Every agent of a workspace promotes notes at the end of *)
(* a run, with no lock: promote reads the index and the topics it lists,   *)
(* merges, and writes back the index and every topic.  A step is one read  *)
(* of a file, the truncation that opens one for writing, or its write.     *)
(***************************************************************************)
EXTENDS Naturals, Sequences, FiniteSets, SequencesExt, FiniteSetsExt

CONSTANTS
    Promoters,   \* agents, each with a store object of its own
    Topics,      \* the slugs of kTopicDefaults, numbered in their order
    Subjects,    \* what subject_key may find in a note
    NoSubject,   \* it finds nothing
    Answers,     \* final answers: sequences of the lines that name a topic
    MaxFaults    \* bound on failed writes and deaths of a process

\* A note is its subject and the rest of its text.
Notes == [about : Subjects \cup {NoSubject}, says : {"old", "new"}]

\* A line of an answer, and what reject_durable_reason says of it.
Lines == [topic : Topics, note : Notes, rejected : BOOLEAN]

ASSUME MemoryAssumption ==
    /\ Topics \subseteq Nat /\ IsFiniteSet(Topics)
    /\ NoSubject \notin Subjects
    /\ Answers \subseteq Seq(Lines)
    /\ MaxFaults \in Nat

VARIABLES
    index,        \* the topics MEMORY.md lists
    file,         \* the notes in each topic's file; <<>> when there is none
    at,           \* where each promoter is in promote
    promotions,   \* what it promotes
    topicMap,     \* its topic_map: the topics it will list
    topicNotes,   \* its topic_notes
    todo,         \* topics it has still to read, or to write
    faults,
    owed,         \* history: what promotions that returned have stored
    overlapped    \* history: two promotions at a time, a fault, or two writers

disk == <<index, file>>
local == <<promotions, topicMap, topicNotes, todo>>
history == <<owed, overlapped>>
memoryVars == <<disk, at, local, faults, history>>

NoNotes == [t \in Topics |-> <<>>]

MemoryInit ==
    /\ index = <<>> /\ file = NoNotes
    /\ at = [p \in Promoters |-> "idle"]
    /\ promotions = [p \in Promoters |-> <<>>]
    /\ topicMap = [p \in Promoters |-> {}]
    /\ topicNotes = [p \in Promoters |-> NoNotes]
    /\ todo = [p \in Promoters |-> {}]
    /\ faults = 0 /\ owed = {} /\ overlapped = {}

Goto(p, from, to) == at[p] = from /\ at' = [at EXCEPT ![p] = to]
\* promote ends, and its locals with it.
Leave(p, how) ==
    /\ at' = [at EXCEPT ![p] = how]
    /\ promotions' = [promotions EXCEPT ![p] = <<>>]
    /\ topicMap' = [topicMap EXCEPT ![p] = {}]
    /\ topicNotes' = [topicNotes EXCEPT ![p] = NoNotes]
    /\ todo' = [todo EXCEPT ![p] = {}]
Busy == {p \in Promoters : at[p] \notin {"idle", "returned", "threw"}}
Ascending(S) ==
    CHOOSE s \in [1..Cardinality(S) -> S] :
        \A i, j \in 1..Cardinality(S) : i < j => s[i] < s[j]

-----------------------------------------------------------------------------
(* What is promoted, and how it is merged *)

\* extract_durable_promotions: the lines of a final answer that pass
\* reject_durable_reason, if the user asked to remember something.
Extract(wanted, answer) ==
    LET kept[n \in 0..Len(answer)] ==
            IF n = 0 THEN <<>>
            ELSE IF answer[n].rejected THEN kept[n - 1] ELSE Append(kept[n - 1], answer[n])
    IN  IF wanted THEN kept[Len(answer)] ELSE <<>>

SameSubject(old, new) == old.about = new.about /\ new.about # NoSubject

\* One promotion: a note that is there stays, a note on the same subject is
\* superseded in its place, any other is appended.
MergeNote(existing, note) ==
    IF Contains(existing, note) THEN existing
    ELSE LET same == {i \in DOMAIN existing : SameSubject(existing[i], note)}
         IN  IF same = {} THEN Append(existing, note)
             ELSE [existing EXCEPT ![Min(same)] = note]

Merge(notes, lines) ==
    LET found[n \in 0..Len(lines)] ==
            IF n = 0 THEN notes
            ELSE [found[n - 1] EXCEPT ![lines[n].topic] = MergeNote(@, lines[n].note)]
    IN  found[Len(lines)]

\* Bug: the index is written anew from the promotions.
OwnTopics(p) == {line.topic : line \in ToSet(promotions[p])}
\* The keys of topic_map: the topics that were listed and those promoted to.
ListedTopics(p) == topicMap[p] \cup {line.topic : line \in ToSet(promotions[p])}

\* The loop over the promotions, once the last topic has been read.
Merged(p, read) ==
    /\ topicMap' = [topicMap EXCEPT ![p] = ListedTopics(p)]
    /\ topicNotes' = [topicNotes EXCEPT ![p] = Merge(read, promotions[p])]
    /\ todo' = [todo EXCEPT ![p] = {t \in Topics : topicNotes'[p][t] # <<>>}]
    /\ at' = [at EXCEPT ![p] = "open_index"]

-----------------------------------------------------------------------------
(* promote *)

\* The call; with nothing to promote it returns at once.
Promote(p, wanted, answer) ==
    /\ LET lines == Extract(wanted, answer) IN
       /\ Goto(p, "idle", IF lines = <<>> THEN "returned" ELSE "read_index")
       /\ promotions' = [promotions EXCEPT ![p] = lines]
       /\ overlapped' = IF lines = <<>> \/ Busy = {} THEN overlapped
                        ELSE overlapped \cup {"promotions"}
    /\ UNCHANGED <<disk, topicMap, topicNotes, todo, faults, owed>>

\* load_index, for the keys of topic_map.
ReadIndex(p) ==
    /\ at[p] = "read_index"
    /\ LET listed == ToSet(index) IN
       IF listed = {} THEN Merged(p, NoNotes)
       ELSE /\ Goto(p, "read_index", "read_topics")
            /\ topicMap' = [topicMap EXCEPT ![p] = listed]
            /\ todo' = [todo EXCEPT ![p] = listed]
            /\ UNCHANGED topicNotes
    /\ UNCHANGED <<disk, promotions, faults, history>>

\* load_topic_notes of the next topic in topic_map.
ReadTopic(p) ==
    /\ at[p] = "read_topics"
    /\ LET t == Min(todo[p])
           read == [topicNotes[p] EXCEPT ![t] = file[t]]
       IN  IF todo[p] = {t} THEN Merged(p, read)
           ELSE /\ topicNotes' = [topicNotes EXCEPT ![p] = read]
                /\ todo' = [todo EXCEPT ![p] = @ \ {t}]
                /\ UNCHANGED <<at, topicMap>>
    /\ UNCHANGED <<disk, promotions, faults, history>>

\* write_text_file: the stream's constructor truncates the file and the write
\* starts at its beginning, over whatever somebody else has written there since.
Over(new, old) == new \o SubSeq(old, Len(new) + 1, Len(old))
\* Somebody else has the file open for writing.
Shared(p, place) == \E q \in Promoters \ {p} : at[q] = place
SharedTopic(p, t) == \E q \in Promoters \ {p} : at[q] = "write_topic" /\ Min(todo[q]) = t

\* write_index.
OpenIndex(p) ==
    /\ Goto(p, "open_index", "write_index")
    /\ index' = <<>>
    /\ overlapped' = IF Shared(p, "write_index") THEN overlapped \cup {"writes"}
                     ELSE overlapped
    /\ UNCHANGED <<file, local, faults, owed>>

WriteIndex(p) ==
    /\ Goto(p, "write_index", "open_topic")
    /\ index' = Over(Ascending(topicMap[p]), index)
    /\ UNCHANGED <<file, local, faults, history>>

\* write_topic, for every topic of topic_notes in order.
OpenTopic(p) ==
    /\ Goto(p, "open_topic", "write_topic")
    /\ LET t == Min(todo[p]) IN
       /\ file' = [file EXCEPT ![t] = <<>>]
       /\ overlapped' = IF SharedTopic(p, t) THEN overlapped \cup {"writes"}
                        ELSE overlapped
    /\ UNCHANGED <<index, local, faults, owed>>

\* What is owed once p's promotions are stored: its notes, and those stored
\* before that none of them is about; of two of its own on one subject, the
\* later one.
Owed(p) ==
    LET lines == promotions[p]
        gone(t, note, from) == \E i \in from..Len(lines) :
            lines[i].topic = t /\ SameSubject(note, lines[i].note)
    IN  {o \in owed : ~gone(o[1], o[2], 1)} \cup
        {<<lines[i].topic, lines[i].note>> :
            i \in {j \in DOMAIN lines : ~gone(lines[j].topic, lines[j].note, j + 1)}}

WriteTopic(p) ==
    /\ at[p] = "write_topic"
    /\ LET t == Min(todo[p]) IN
       /\ file' = [file EXCEPT ![t] = Over(topicNotes[p][t], file[t])]
       /\ IF todo[p] = {t} THEN Leave(p, "returned") /\ owed' = Owed(p)
          ELSE /\ Goto(p, "write_topic", "open_topic")
               /\ todo' = [todo EXCEPT ![p] = @ \ {t}]
               /\ UNCHANGED <<promotions, topicMap, topicNotes, owed>>
    /\ UNCHANGED <<index, faults, overlapped>>

\* A file cannot be opened or written, and promote throws; or the process dies.
\* What the file held before, or nothing, is left of it.
Throw(p) ==
    /\ at[p] \in {"open_index", "write_index", "open_topic", "write_topic"}
    /\ faults < MaxFaults
    /\ faults' = faults + 1
    /\ Leave(p, "threw")
    /\ overlapped' = overlapped \cup {"fault"}
    /\ UNCHANGED <<disk, owed>>

PromoteStep(p) == \/ ReadIndex(p) \/ ReadTopic(p)
                  \/ OpenIndex(p) \/ WriteIndex(p)
                  \/ OpenTopic(p) \/ WriteTopic(p)

-----------------------------------------------------------------------------
(* What can be found again *)

\* Retrieval visits the topics the index lists.
Stored == {o \in Topics \X Notes : o[1] \in ToSet(index) /\ o[2] \in ToSet(file[o[1]])}

\* One thing is told once, and there is one note on a subject.
OneNotePerSubject(notes) ==
    \A i, j \in DOMAIN notes :
        i # j => notes[i] # notes[j] /\ ~SameSubject(notes[i], notes[j])
=============================================================================
