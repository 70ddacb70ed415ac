------------------------- MODULE WorkspaceCommitter -------------------------
(***************************************************************************)
(* WorkspaceCommitter::commit (src/src/orchestration/multi_agent.cpp): a   *)
(* batch of patches is validated and written to temporary files, then each *)
(* target is renamed to a backup and replaced, and the backups go; any     *)
(* failure undoes what was done.  A step is one operation on the file      *)
(* system.  Others may write or delete a target at any moment, operations  *)
(* may fail, and the process may die: a behaviour that ends in any state   *)
(* is a crash, so what is said of every state is said of a crash there.    *)
(* Temporary files and backups have names nobody else uses.                *)
(***************************************************************************)
EXTENDS Naturals, Sequences, FiniteSets

CONSTANTS
    Files,                \* the targets
    Batches,              \* what commit may be called with: a target per patch
    MaxFaults, MaxEdits   \* bounds on failed operations and on what others do

ASSUME CommitterAssumption ==
    /\ Batches \subseteq Seq(Files) \ {<<>>}
    /\ MaxFaults \in Nat /\ MaxEdits \in Nat

VARIABLES
    target,               \* what each target holds
    batch,                \* the proposals, by their target
    temporary, backup,    \* what these files of each patch hold
    at, index,            \* where commit is, and the patch it is at
    moved, replaced,      \* patches with backup_created, target_replaced
    result,               \* what commit will return
    faults, edits,        \* how much of the bounds is used
    undone, touched       \* history: undos that failed, targets others changed

bounds == <<faults, edits, undone, touched>>
flags == <<moved, replaced>>
vars == <<target, batch, temporary, backup, at, index, flags, result, bounds>>

\* "base" is the content every proposal was made against, its expected_sha256.
Contents == {"base", "new", "edit", "partial", "absent"}
Patches == DOMAIN batch
\* The patches staged so far; all of them once at leaves "validate" and "write".
Staged == 1..index

Init ==
    /\ target \in [Files -> {"base", "edit", "absent"}]
    /\ batch \in Batches
    /\ temporary = [i \in Patches |-> "absent"]
    /\ backup = [i \in Patches |-> "absent"]
    /\ at = "validate" /\ index = 1
    /\ moved = {} /\ replaced = {} /\ result = "none"
    /\ faults = 0 /\ edits = 0 /\ undone = {} /\ touched = {}

Goto(place, i) == at' = place /\ index' = i
Return(what) == result' = what

\* The operation fails, for a reason outside the program.
Fault ==
    /\ faults < MaxFaults
    /\ faults' = faults + 1
    /\ UNCHANGED <<edits, touched>>

-----------------------------------------------------------------------------
(* Staging *)

Conflict(i) == target[batch[i]] # "base"
Duplicate(i) == \E j \in 1..(i - 1) : batch[j] = batch[i]

Validate ==
    /\ at = "validate"
    /\ IF Duplicate(index) THEN Goto("cleanup", index - 1) /\ Return("duplicate")
       ELSE IF Conflict(index) THEN Goto("cleanup", index - 1) /\ Return("conflict")
       ELSE Goto("write", index) /\ UNCHANGED result
    /\ UNCHANGED <<target, batch, temporary, backup, flags, bounds>>

Write ==
    /\ at = "write"
    /\ \/ /\ temporary' = [temporary EXCEPT ![index] = "new"]
          /\ IF index = Len(batch) THEN Goto("move", 1) ELSE Goto("validate", index + 1)
          /\ UNCHANGED <<result, bounds>>
       \/ /\ Fault
          /\ \E left \in {"absent", "partial"} :
                 temporary' = [temporary EXCEPT ![index] = left]
          /\ Goto("cleanup", index) /\ Return("io") /\ UNCHANGED undone
    /\ UNCHANGED <<target, batch, backup, flags>>

\* cleanup_staged: nothing has been moved yet, so only temporaries exist.  One
\* that cannot be removed stays.
Cleanup ==
    /\ at = "cleanup"
    /\ \/ /\ temporary' = [i \in Patches |-> IF i \in Staged THEN "absent"
                                             ELSE temporary[i]]
          /\ UNCHANGED bounds
       \/ \E kept \in Staged :
              /\ Fault /\ UNCHANGED undone
              /\ temporary' = [i \in Patches |-> IF i \in Staged \ {kept} THEN "absent"
                                                 ELSE temporary[i]]
    /\ Goto("done", index)
    /\ UNCHANGED <<target, batch, backup, flags, result>>

-----------------------------------------------------------------------------
(* Replacing the targets *)

StartRollback == Goto("remove", Len(batch)) /\ Return("failed")

MoveAside ==
    LET f == batch[index] IN
    /\ at = "move"
    /\ \/ /\ target[f] # "absent"
          /\ backup' = [backup EXCEPT ![index] = target[f]]
          /\ target' = [target EXCEPT ![f] = "absent"]
          /\ moved' = moved \cup {index}
          /\ Goto("install", index)
          /\ UNCHANGED <<result, bounds>>
       \/ /\ \/ target[f] = "absent" /\ UNCHANGED bounds
             \/ Fault /\ UNCHANGED undone
          /\ StartRollback
          /\ UNCHANGED <<target, backup, moved>>
    /\ UNCHANGED <<batch, temporary, replaced>>

\* Bug: a backup is dropped as soon as its own target is replaced.
DropBackupEarly == backup' = [backup EXCEPT ![index] = "absent"]
KeepBackup == backup' = backup

Install ==
    /\ at = "install"
    /\ \/ /\ target' = [target EXCEPT ![batch[index]] = temporary[index]]
          /\ temporary' = [temporary EXCEPT ![index] = "absent"]
          /\ replaced' = replaced \cup {index}
          /\ KeepBackup
          /\ IF index = Len(batch) THEN Goto("drop", 1) /\ Return("committed")
             ELSE Goto("move", index + 1) /\ UNCHANGED result
          /\ UNCHANGED bounds
       \/ /\ Fault /\ UNCHANGED undone
          /\ StartRollback
          /\ UNCHANGED <<target, temporary, backup, replaced>>
    /\ UNCHANGED <<batch, moved>>

DropBackup ==
    /\ at = "drop"
    /\ \/ backup' = [backup EXCEPT ![index] = "absent"] /\ UNCHANGED bounds
       \/ Fault /\ UNCHANGED <<backup, undone>>
    /\ IF index = Len(batch) THEN Goto("done", index) ELSE Goto("drop", index + 1)
    /\ UNCHANGED <<target, batch, temporary, flags, result>>

-----------------------------------------------------------------------------
(* rollback_staged, from the last patch to the first; errors are ignored *)

RollbackRemove ==
    /\ at = "remove"
    /\ \/ /\ target' = IF index \in replaced THEN [target EXCEPT ![batch[index]] = "absent"]
                       ELSE target
          /\ UNCHANGED bounds
       \/ index \in replaced /\ Fault /\ UNCHANGED <<target, undone>>
    /\ Goto("restore", index)
    /\ UNCHANGED <<batch, temporary, backup, flags, result>>

\* Bug: only the patches whose target was replaced are restored.
RestoreReplaced == replaced
Restorable == moved

RollbackRestore ==
    /\ at = "restore"
    /\ IF index \notin Restorable THEN UNCHANGED <<target, backup, bounds>>
       ELSE \/ /\ target' = [target EXCEPT ![batch[index]] = backup[index]]
               /\ backup' = [backup EXCEPT ![index] = "absent"]
               /\ UNCHANGED bounds
            \/ /\ Fault /\ undone' = undone \cup {index}
               /\ UNCHANGED <<target, backup>>
    /\ Goto("discard", index)
    /\ UNCHANGED <<batch, temporary, flags, result>>

RollbackDiscard ==
    /\ at = "discard"
    /\ \/ temporary' = [temporary EXCEPT ![index] = "absent"] /\ UNCHANGED bounds
       \/ Fault /\ UNCHANGED <<temporary, undone>>
    /\ IF index = 1 THEN Goto("done", 1) ELSE Goto("remove", index - 1)
    /\ UNCHANGED <<target, batch, backup, flags, result>>

-----------------------------------------------------------------------------
\* An editor, another process or another committer writes or deletes a target.
Edit(f) ==
    /\ edits < MaxEdits /\ at # "done"
    /\ \E content \in {"edit", "absent"} : target' = [target EXCEPT ![f] = content]
    /\ edits' = edits + 1
    /\ touched' = touched \cup {f}
    /\ UNCHANGED <<batch, temporary, backup, at, index, flags, result, faults, undone>>

Rollback == RollbackRemove \/ RollbackRestore \/ RollbackDiscard

Next ==
    \/ Validate \/ Write \/ Cleanup
    \/ MoveAside \/ Install \/ DropBackup \/ Rollback
    \/ \E f \in Files : Edit(f)

Spec == Init /\ [][Next]_vars

-----------------------------------------------------------------------------
(* Properties *)

TypeOK ==
    /\ target \in [Files -> Contents] /\ batch \in Batches
    /\ temporary \in [Patches -> Contents] /\ backup \in [Patches -> Contents]
    /\ at \in {"validate", "write", "cleanup", "move", "install", "drop",
               "remove", "restore", "discard", "done"}
    /\ index \in 0..Len(batch) /\ (index = 0 => at \in {"cleanup", "done"})
    /\ replaced \subseteq moved /\ moved \subseteq Patches
    /\ result \in {"none", "duplicate", "conflict", "io", "failed", "committed"}
    /\ (at = "done" => result # "none")
    /\ faults \in 0..MaxFaults /\ edits \in 0..MaxEdits
    /\ undone \subseteq Patches /\ touched \subseteq Files

\* The original of a patch is on disk until every target has been replaced, in
\* its place or in its backup, wherever an operation fails or the process dies.
OriginalSurvives ==
    result # "committed" =>
        \A i \in moved : batch[i] \notin touched =>
            target[batch[i]] = "base" \/ backup[i] = "base"

\* All or nothing: a commit that returns has replaced every target, or has left
\* every target as it was, unless others changed it or its undo failed; and it
\* leaves no temporary file and no backup behind, unless one of its own operations
\* failed.
AllOrNothing ==
    at = "done" =>
        /\ \A i \in Patches : batch[i] \notin touched =>
               IF result = "committed" THEN target[batch[i]] = "new"
               ELSE i \in moved \ undone => target[batch[i]] = "base"
        /\ faults = 0 =>
               \A i \in Patches : temporary[i] = "absent" /\ backup[i] = "absent"

\* Refuted below: what a commit moves aside, and drops in the end, is the base
\* version that its proposal was made against.
OnlyBaseIsReplaced == \A i \in Patches : backup[i] \in {"base", "absent"}
=============================================================================
