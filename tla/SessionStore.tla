---------------------------- MODULE SessionStore ----------------------------
(***************************************************************************)
(* The two stores of one session: SessionStore (session_store.cpp), a JSON *)
(* file that is truncated and written in place, and SqliteSessionStore     *)
(* (sqlite_session_store.cpp), a row that is compared and swapped with up  *)
(* to four attempts.  Every Runi that holds the session saves its whole    *)
(* copy when it is built and on every record; several may hold it, after   *)
(* `--resume` in two processes or with a service and a command line.       *)
(***************************************************************************)
EXTENDS Naturals, FiniteSets

CONSTANTS
    Writers,                \* holders of the session
    Creator,                \* the one that creates it
    MaxSaves,               \* bound on the saves of each writer
    MaxCrashes, MaxFailures \* bounds on deaths and on failing operations

\* SqliteSessionStore::save
MaxAttempts == 4

ASSUME SessionAssumption ==
    /\ Creator \in Writers
    /\ MaxSaves \in [Writers -> Nat]
    /\ {MaxCrashes, MaxFailures} \subseteq Nat

VARIABLES
    backend,           \* "file" or "sqlite"
    stored,            \* the state that is stored, by who saved it and when
    version,           \* state_version of the row
    holder,            \* where each writer is
    attempt, seen,     \* save: its attempt, and the version it read
    saves,             \* saves begun by each writer
    result,            \* of its last save or load
    crashes, failures, \* how much of the bounds is used
    since,             \* history: version when a writer's save began
    mixed,             \* history: a crash while writing, or two at a time
    kept               \* history: the last save of each writer that was stored

inSave == <<attempt, seen>>
used == <<crashes, failures>>
sessionVars == <<backend, stored, version, holder, saves, result, inSave, used,
                 since, mixed, kept>>

\* A state is a writer's copy; there may be none, or one that does not parse.
State(w) == <<w, saves[w]>>
Absent == <<>>
Unreadable == <<"unreadable">>

SessionInit ==
    /\ backend \in {"file", "sqlite"}
    /\ stored = Absent /\ version = 0
    /\ holder = [w \in Writers |-> IF w = Creator THEN "built" ELSE "down"]
    /\ attempt = [w \in Writers |-> 0] /\ seen = [w \in Writers |-> 0]
    /\ saves = [w \in Writers |-> 0]
    /\ result = [w \in Writers |-> "none"]
    /\ crashes = 0 /\ failures = 0
    /\ since = [w \in Writers |-> 0] /\ mixed = FALSE
    /\ kept = [w \in Writers |-> 0]

Step(w, from, to) == holder[w] = from /\ holder' = [holder EXCEPT ![w] = to]
\* save returns, and its locals are gone.
Finish(w, from, what) ==
    /\ Step(w, from, "up")
    /\ attempt' = [attempt EXCEPT ![w] = 0]
    /\ seen' = [seen EXCEPT ![w] = 0]
    /\ result' = [result EXCEPT ![w] = what]
Store(w) ==
    /\ stored' = State(w)
    /\ kept' = [kept EXCEPT ![w] = saves[w]]

-----------------------------------------------------------------------------
(* Saving *)

\* save is called, first by the constructor.
Save(w) ==
    /\ holder[w] \in {"built", "up"} /\ saves[w] < MaxSaves[w]
    /\ holder' = [holder EXCEPT ![w] = IF backend = "file" THEN "open" ELSE "read"]
    /\ saves' = [saves EXCEPT ![w] = @ + 1]
    /\ since' = [since EXCEPT ![w] = version]
    /\ result' = [result EXCEPT ![w] = "none"]
    /\ UNCHANGED <<backend, stored, version, inSave, used, mixed, kept>>

\* An operation of the store fails for a reason of its own.
SaveFails(w) ==
    /\ holder[w] \in {"open", "write", "read", "create", "swap"}
    /\ failures < MaxFailures /\ failures' = failures + 1
    /\ Finish(w, holder[w], "failed")
    /\ mixed' = (mixed \/ holder[w] = "write")
    /\ UNCHANGED <<backend, stored, version, saves, crashes, since, kept>>

Writing == {w \in Writers : holder[w] = "write"}

\* SessionStore::save: the stream truncates the file when it is opened...
OpenFile(w) ==
    /\ Step(w, "open", "write")
    /\ stored' = Unreadable
    /\ mixed' = (mixed \/ Writing # {})
    /\ UNCHANGED <<backend, version, saves, result, inSave, used, since, kept>>

\* ... and writes from the beginning: over a longer state that another writer
\* has put there meanwhile, that one's tail remains.
WriteState(w) ==
    /\ Finish(w, "write", "saved")
    /\ \/ Store(w)
       \/ stored # Unreadable /\ stored' = Unreadable /\ UNCHANGED kept
    /\ UNCHANGED <<backend, version, saves, used, since, mixed>>

\* SqliteSessionStore::save: read the version...
Read(w) ==
    /\ Step(w, "read", IF stored = Absent THEN "create" ELSE "swap")
    /\ seen' = [seen EXCEPT ![w] = version]
    /\ UNCHANGED <<backend, stored, version, saves, result, attempt, since, used,
                   mixed, kept>>

\* ... create_session if there is no row: INSERT OR IGNORE ...
Create(w) ==
    /\ Finish(w, "create", "saved")
    /\ IF stored = Absent THEN Store(w) ELSE UNCHANGED <<stored, kept>>
    /\ UNCHANGED <<backend, version, saves, used, since, mixed>>

AnotherAttempt(w) == attempt[w] + 1 < MaxAttempts

\* Bug: the last conflict is taken for a success.
ReportSaved == "saved"
OutOfAttempts == "conflict"

Unchanged(w) == version = seen[w]

\* ... or compare_and_swap_session, and from the start again after a conflict.
Swap(w) ==
    /\ holder[w] = "swap"
    /\ IF Unchanged(w)
       THEN /\ Store(w) /\ version' = version + 1
            /\ Finish(w, "swap", "saved")
       ELSE /\ IF AnotherAttempt(w)
               THEN /\ Step(w, "swap", "read")
                    /\ attempt' = [attempt EXCEPT ![w] = @ + 1]
                    /\ UNCHANGED <<seen, result>>
               ELSE Finish(w, "swap", OutOfAttempts)
            /\ UNCHANGED <<stored, version, kept>>
    /\ UNCHANGED <<backend, saves, since, used, mixed>>

-----------------------------------------------------------------------------
(* Holders come and go *)

\* load, for `--resume` or for a run of the service.  A session that cannot be
\* read ends the process.
Load(w) ==
    /\ holder[w] = "down" /\ stored # Absent
    /\ IF stored = Unreadable
       THEN result' = [result EXCEPT ![w] = "session_parse_failed"] /\ UNCHANGED holder
       ELSE Step(w, "down", "built") /\ UNCHANGED result
    /\ UNCHANGED <<backend, stored, version, saves, inSave, used, since, mixed, kept>>

\* The process dies; what it was writing stays as it is.
Crash(w) ==
    /\ holder[w] # "down" /\ crashes < MaxCrashes
    /\ crashes' = crashes + 1
    /\ holder' = [holder EXCEPT ![w] = "down"]
    /\ result' = [result EXCEPT ![w] = "none"]
    /\ attempt' = [attempt EXCEPT ![w] = 0]
    /\ seen' = [seen EXCEPT ![w] = 0]
    /\ mixed' = (mixed \/ holder[w] = "write")
    /\ UNCHANGED <<backend, stored, version, saves, failures, since, kept>>

SessionNext ==
    \E w \in Writers : \/ Save(w) \/ SaveFails(w)
                       \/ OpenFile(w) \/ WriteState(w)
                       \/ Read(w) \/ Create(w) \/ Swap(w)
                       \/ Load(w) \/ Crash(w)

SessionSpec == SessionInit /\ [][SessionNext]_sessionVars

-----------------------------------------------------------------------------
(* Properties *)

\* A save that reports success has been stored; one that gives up with
\* session_version_conflict was overtaken four times since it began, for every
\* attempt looks at the row again.  And a session that exists can be loaded: in
\* SQLite always, in a file unless a write was interrupted or met another one, and
\* otherwise only until the write that has begun is over.
SaveTellsTruth ==
    /\ \A w \in Writers :
           /\ result[w] = "saved" /\ holder[w] = "up" => kept[w] = saves[w] \/ mixed
           /\ result[w] = "conflict" => version - since[w] >= MaxAttempts
    /\ stored = Unreadable => backend = "file" /\ (Writing # {} \/ mixed)
=============================================================================
