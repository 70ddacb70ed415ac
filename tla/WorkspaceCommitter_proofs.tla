---------------------- MODULE WorkspaceCommitter_proofs ----------------------
(***************************************************************************)
(* The safety of WorkspaceCommitter::commit for every batch, any number of *)
(* failed operations and any number of changes that others make.  IInv     *)
(* says, for each place commit can be at, which patches it has validated,  *)
(* moved aside, replaced and rolled back, and what this leaves in their    *)
(* three files.                                                            *)
(***************************************************************************)
EXTENDS WorkspaceCommitter, TLAPS

Refused == result \in {"duplicate", "conflict", "io"}

\* The patches whose target was found to be distinct and at its base version.
Validated ==
    IF Refused THEN {}
    ELSE {i \in Patches : /\ at = "validate" => i < index
                          /\ at = "write" => i <= index}

\* The patches that rollback_staged has dealt with.
RolledBack ==
    {i \in Patches : result = "failed" /\ (at = "done" \/ i > index
                                           \/ (at = "discard" /\ i = index))}

\* What the place in the code says of the result and of the two flags.
PlaceOK ==
    /\ at \in {"validate", "write"} => result = "none" /\ moved = {}
    /\ at = "move" => result = "none" /\ replaced = moved
                        /\ moved = {i \in Patches : i < index}
    /\ at = "install" => result = "none" /\ moved = {i \in Patches : i <= index}
                        /\ replaced = {i \in Patches : i < index}
    /\ at = "cleanup" => Refused
    /\ at = "drop" => result = "committed"
    /\ at \in {"remove", "restore", "discard"} => result = "failed"
    /\ Refused => at \in {"cleanup", "done"} /\ moved = {}
    /\ result = "committed" => at \in {"drop", "done"} /\ replaced = Patches
    /\ result = "failed" => at \in {"remove", "restore", "discard", "done"}

DistinctTargets == \A i, j \in Validated : batch[i] = batch[j] => i = j

\* What is in patch i's target, which nobody else changed, and where its
\* original is.
TargetOK(i) ==
    /\ i \notin moved => target[batch[i]] = "base"
    /\ i \in moved /\ result # "committed" =>
           IF i \in RolledBack \ undone THEN target[batch[i]] = "base"
           ELSE backup[i] = "base"
    /\ i \in replaced /\ result # "failed" => target[batch[i]] = "new"

TargetsOK == \A i \in Validated : batch[i] \notin touched => TargetOK(i)

\* The temporary files that are to be installed, and those that are gone.
TemporariesOK ==
    \A i \in Patches :
        /\ at \in {"validate", "write"} =>
               temporary[i] = IF i < index THEN "new" ELSE "absent"
        /\ at = "cleanup" /\ i > index => temporary[i] = "absent"
        /\ at \in {"move", "install"} =>
               temporary[i] = IF i < index THEN "absent" ELSE "new"
        /\ at = "drop" => temporary[i] = "absent"
        /\ faults = 0 /\ at \in {"remove", "restore", "discard"} /\ i > index =>
               temporary[i] = "absent"
        /\ faults = 0 /\ at = "done" => temporary[i] = "absent"

BackupsOK ==
    \A i \in Patches :
        /\ i \notin moved => backup[i] = "absent"
        /\ faults = 0 /\ i \in RolledBack => backup[i] = "absent"
        /\ faults = 0 /\ at = "drop" /\ i < index => backup[i] = "absent"
        /\ faults = 0 /\ at = "done" => backup[i] = "absent"

\* Only a patch that rollback_staged has reached can have failed to be undone.
UndoneOK == undone \subseteq RolledBack

IInv ==
    /\ TypeOK /\ PlaceOK /\ UndoneOK
    /\ DistinctTargets /\ TargetsOK /\ TemporariesOK /\ BackupsOK

-----------------------------------------------------------------------------
\* A batch is a nonempty sequence of targets.
LEMMA BatchShape ==
    ASSUME batch \in Batches
    PROVE  /\ Len(batch) \in Nat \ {0} /\ Patches = 1..Len(batch)
           /\ \A i \in Patches : batch[i] \in Files
BY CommitterAssumption DEF Patches

\* No step changes the batch, and commit is at one of its patches.
LEMMA SameBatch ==
    ASSUME IInv, [Next]_vars
    PROVE  /\ Len(batch) \in Nat \ {0} /\ Patches = 1..Len(batch)
           /\ \A i \in Patches : batch[i] \in Files
           /\ batch' = batch /\ Patches' = Patches
           /\ at \notin {"cleanup", "done"} => index \in Patches
<1>1. batch \in Batches /\ (at \notin {"cleanup", "done"} => index \in 1..Len(batch))
  BY BatchShape DEF IInv, TypeOK
<1>2. batch' = batch /\ Patches' = Patches
  BY DEF Next, Validate, Write, Cleanup, MoveAside, Install, DropBackup, Rollback,
         RollbackRemove, RollbackRestore, RollbackDiscard, Edit, vars, Patches
<1> QED BY <1>1, <1>2, BatchShape

\* The bounds are numbers.
LEMMA Bounds == MaxFaults \in Nat /\ MaxEdits \in Nat
BY CommitterAssumption

\* Nothing is validated, moved or written before the first step.
LEMMA InitIInv == Init => IInv
<1> SUFFICES ASSUME Init PROVE IInv
  OBVIOUS
<1> USE BatchShape, Bounds DEF Init
<1>1. TypeOK
  BY DEF TypeOK, Contents
<1>2. PlaceOK
  BY DEF PlaceOK, Refused
<1>3. Validated = {}
  BY DEF Validated, Refused
<1>4. DistinctTargets /\ TargetsOK
  BY <1>3 DEF DistinctTargets, TargetsOK
<1>5. TemporariesOK /\ BackupsOK /\ UndoneOK
  BY DEF TemporariesOK, BackupsOK, UndoneOK, RolledBack
<1> QED BY <1>1, <1>2, <1>4, <1>5 DEF IInv

\* TypeOK in three parts: the files, the control and the counts.
FilesOK ==
    /\ target \in [Files -> Contents]
    /\ temporary \in [Patches -> Contents] /\ backup \in [Patches -> Contents]

ControlOK ==
    /\ batch \in Batches
    /\ at \in {"validate", "write", "cleanup", "move", "install", "drop",
               "remove", "restore", "discard", "done"}
    /\ index \in 0..Len(batch) /\ (index = 0 => at \in {"cleanup", "done"})
    /\ replaced \subseteq moved /\ moved \subseteq Patches
    /\ result \in {"none", "duplicate", "conflict", "io", "failed", "committed"}
    /\ (at = "done" => result # "none")

CountsOK ==
    /\ faults \in 0..MaxFaults /\ edits \in 0..MaxEdits
    /\ undone \subseteq Patches /\ touched \subseteq Files

\* TypeOK is the three together.
LEMMA TypeParts == TypeOK <=> FilesOK /\ ControlOK /\ CountsOK
BY DEF TypeOK, FilesOK, ControlOK, CountsOK

\* Every file keeps one of the contents.
LEMMA FilesStep == ASSUME IInv, [Next]_vars PROVE FilesOK'
<1>0. /\ FilesOK /\ Patches' = Patches /\ batch' = batch
      /\ \A i \in Patches : batch[i] \in Files
      /\ at \notin {"cleanup", "done"} => index \in Patches
  BY SameBatch DEF IInv, TypeOK, FilesOK
<1>c. \A c \in {"base", "new", "edit", "partial", "absent"} : c \in Contents
  BY DEF Contents
<1> USE <1>0, <1>c DEF FilesOK
<1>1. CASE Validate
  BY <1>1 DEF Validate
<1>2. CASE Write
  BY <1>2 DEF Write
<1>3. CASE Cleanup
  BY <1>3 DEF Cleanup
<1>4. CASE MoveAside
  BY <1>4 DEF MoveAside
<1>5. CASE Install
  BY <1>5 DEF Install, KeepBackup
<1>6. CASE DropBackup
  BY <1>6 DEF DropBackup
<1>7. CASE RollbackRemove
  BY <1>7 DEF RollbackRemove
<1>8. CASE RollbackRestore
  BY <1>8 DEF RollbackRestore
<1>9. CASE RollbackDiscard
  BY <1>9 DEF RollbackDiscard
<1>10. ASSUME NEW f \in Files, Edit(f) PROVE FilesOK'
  BY <1>10 DEF Edit
<1>11. CASE UNCHANGED vars
  BY <1>11 DEF vars
<1> QED
  BY <1>1, <1>2, <1>3, <1>4, <1>5, <1>6, <1>7, <1>8, <1>9, <1>10, <1>11 DEF Next, Rollback

\* The index stays in the batch, the flags are set in order.
LEMMA ControlStep == ASSUME IInv, [Next]_vars PROVE ControlOK'
<1>0. /\ Len(batch) \in Nat \ {0} /\ Patches = 1..Len(batch)
      /\ batch' = batch /\ Patches' = Patches /\ ControlOK /\ PlaceOK
      /\ at \notin {"cleanup", "done"} => index \in Patches
  BY SameBatch, TypeParts DEF IInv
<1> USE <1>0 DEF ControlOK, PlaceOK, Refused, Goto, Return, flags
<1>1. CASE Validate
  BY <1>1 DEF Validate
<1>2. CASE Write
  BY <1>2 DEF Write
<1>3. CASE Cleanup
  BY <1>3 DEF Cleanup
<1>4. CASE MoveAside
  <2>1. /\ replaced' = replaced /\ moved' \subseteq moved \cup {index}
        /\ moved \subseteq moved'
    BY <1>4 DEF MoveAside
  <2>2. /\ at' \in {"install", "remove"} /\ result' \in {result, "failed"}
        /\ index \in Patches /\ index' \in Patches
    BY <1>4 DEF MoveAside, StartRollback
  <2> QED BY <2>1, <2>2
<1>5. CASE Install
  BY <1>5 DEF Install, StartRollback
<1>6. CASE DropBackup
  BY <1>6 DEF DropBackup
<1>7. CASE RollbackRemove
  BY <1>7 DEF RollbackRemove
<1>8. CASE RollbackRestore
  BY <1>8 DEF RollbackRestore
<1>9. CASE RollbackDiscard
  BY <1>9 DEF RollbackDiscard
<1>10. ASSUME NEW f \in Files, Edit(f) PROVE ControlOK'
  BY <1>10 DEF Edit
<1>11. CASE UNCHANGED vars
  BY <1>11 DEF vars
<1> QED
  BY <1>1, <1>2, <1>3, <1>4, <1>5, <1>6, <1>7, <1>8, <1>9, <1>10, <1>11 DEF Next, Rollback

\* Faults and edits stay within their bounds.
LEMMA CountsStep == ASSUME IInv, [Next]_vars PROVE CountsOK'
<1>0. /\ Patches' = Patches /\ CountsOK /\ MaxFaults \in Nat /\ MaxEdits \in Nat
      /\ at \notin {"cleanup", "done"} => index \in Patches
  BY SameBatch, TypeParts, Bounds DEF IInv, TypeOK
<1> USE <1>0 DEF CountsOK, Fault, bounds
<1>1. CASE Validate
  BY <1>1 DEF Validate
<1>2. CASE Write
  BY <1>2 DEF Write
<1>3. CASE Cleanup
  BY <1>3 DEF Cleanup, Staged
<1>4. CASE MoveAside
  BY <1>4 DEF MoveAside
<1>5. CASE Install
  BY <1>5 DEF Install
<1>6. CASE DropBackup
  BY <1>6 DEF DropBackup
<1>7. CASE RollbackRemove
  BY <1>7 DEF RollbackRemove
<1>8. CASE RollbackRestore
  BY <1>8 DEF RollbackRestore
<1>9. CASE RollbackDiscard
  BY <1>9 DEF RollbackDiscard
<1>10. ASSUME NEW f \in Files, Edit(f) PROVE CountsOK'
  BY <1>10 DEF Edit
<1>11. CASE UNCHANGED vars
  BY <1>11 DEF vars
<1> QED
  BY <1>1, <1>2, <1>3, <1>4, <1>5, <1>6, <1>7, <1>8, <1>9, <1>10, <1>11 DEF Next, Rollback

\* The flags follow the place: a patch is moved, then replaced, then the next.
LEMMA PlaceStep == ASSUME IInv, [Next]_vars PROVE PlaceOK'
<1>0. /\ Len(batch) \in Nat \ {0} /\ Patches = 1..Len(batch)
      /\ batch' = batch /\ Patches' = Patches /\ ControlOK /\ PlaceOK
      /\ at \notin {"cleanup", "done"} => index \in Patches
  BY SameBatch, TypeParts DEF IInv
<1> USE <1>0 DEF ControlOK, PlaceOK, Refused, Goto, Return, flags
<1>1. CASE Validate
  BY <1>1 DEF Validate
<1>2. CASE Write
  <2>1. moved = {} /\ replaced = {} /\ result = "none" /\ {i \in Patches : i < 1} = {}
    BY <1>2 DEF Write
  <2> QED BY <1>2, <2>1 DEF Write
<1>3. CASE Cleanup
  BY <1>3 DEF Cleanup
<1>4. CASE MoveAside
  BY <1>4 DEF MoveAside, StartRollback
<1>5. CASE Install
  <2>0. /\ index \in Nat /\ moved' = moved /\ moved = {i \in Patches : i <= index}
        /\ replaced = {i \in Patches : i < index} /\ index \in Patches
    BY <1>5 DEF Install
  <2>1. /\ moved' = moved /\ {i \in Patches : i < index + 1} = moved
        /\ moved = replaced \cup {index} /\ (index = Len(batch) => moved = Patches)
    BY <2>0
  <2>2. CASE at' = "remove"
    BY <1>5, <2>1, <2>2 DEF Install, StartRollback
  <2>3. CASE at' = "drop"
    BY <1>5, <2>1, <2>3 DEF Install, StartRollback
  <2>4. CASE at' = "move"
    BY <1>5, <2>1, <2>4 DEF Install, StartRollback
  <2> QED BY <1>5, <2>2, <2>3, <2>4 DEF Install, StartRollback
<1>6. CASE DropBackup
  BY <1>6 DEF DropBackup
<1>7. CASE RollbackRemove
  BY <1>7 DEF RollbackRemove
<1>8. CASE RollbackRestore
  BY <1>8 DEF RollbackRestore
<1>9. CASE RollbackDiscard
  BY <1>9 DEF RollbackDiscard
<1>10. ASSUME NEW f \in Files, Edit(f) PROVE PlaceOK'
  BY <1>10 DEF Edit
<1>11. CASE UNCHANGED vars
  BY <1>11 DEF vars
<1> QED
  BY <1>1, <1>2, <1>3, <1>4, <1>5, <1>6, <1>7, <1>8, <1>9, <1>10, <1>11 DEF Next, Rollback

\* Validated grows by the patch that passes both checks, and only there.
LEMMA ValidatedStep == ASSUME IInv, [Next]_vars PROVE
    Validated' \subseteq Validated \cup {i \in Patches : at = "validate" /\ i = index
                                                        /\ at' = "write"}
<1>0. /\ Len(batch) \in Nat \ {0} /\ Patches = 1..Len(batch)
      /\ batch' = batch /\ Patches' = Patches /\ ControlOK /\ PlaceOK
      /\ at \notin {"cleanup", "done"} => index \in Patches
  BY SameBatch, TypeParts DEF IInv
<1> USE <1>0 DEF ControlOK, PlaceOK, Refused, Validated, Goto, Return, flags
<1>1. CASE Validate
  BY <1>1 DEF Validate
<1>2. CASE Write
  BY <1>2 DEF Write
<1>3. CASE Cleanup
  BY <1>3 DEF Cleanup
<1>4. CASE MoveAside
  BY <1>4 DEF MoveAside, StartRollback
<1>5. CASE Install
  BY <1>5 DEF Install, StartRollback
<1>6. CASE DropBackup
  BY <1>6 DEF DropBackup
<1>7. CASE RollbackRemove
  BY <1>7 DEF RollbackRemove
<1>8. CASE RollbackRestore
  BY <1>8 DEF RollbackRestore
<1>9. CASE RollbackDiscard
  BY <1>9 DEF RollbackDiscard
<1>10. ASSUME NEW f \in Files, Edit(f) PROVE
    Validated' \subseteq Validated \cup {i \in Patches : at = "validate" /\ i = index
                                                        /\ at' = "write"}
  BY <1>10 DEF Edit
<1>11. CASE UNCHANGED vars
  BY <1>11 DEF vars
<1> QED
  BY <1>1, <1>2, <1>3, <1>4, <1>5, <1>6, <1>7, <1>8, <1>9, <1>10, <1>11 DEF Next, Rollback

\* The rollback deals with a patch where it restores it, and with no other there.
LEMMA RolledBackStep ==
    ASSUME IInv, [Next]_vars
    PROVE  RolledBack' = IF at = "restore" /\ at' = "discard" THEN RolledBack \cup {index}
                         ELSE RolledBack
<1>0. /\ Len(batch) \in Nat \ {0} /\ Patches = 1..Len(batch)
      /\ batch' = batch /\ Patches' = Patches /\ ControlOK /\ PlaceOK
      /\ at \notin {"cleanup", "done"} => index \in Patches
  BY SameBatch, TypeParts DEF IInv
<1>1. CASE RollbackRestore
  BY <1>0, <1>1 DEF RollbackRestore, RolledBack, PlaceOK, Goto
<1>2. CASE RollbackDiscard
  <2>1. CASE index = 1
    BY <1>0, <1>2, <2>1 DEF RollbackDiscard, RolledBack, PlaceOK, Goto
  <2>2. CASE index # 1
    BY <1>0, <1>2, <2>2 DEF RollbackDiscard, RolledBack, PlaceOK, Goto
  <2> QED BY <2>1, <2>2
<1>3. CASE RollbackRemove
  BY <1>0, <1>3 DEF RollbackRemove, RolledBack, PlaceOK, Goto
<1>4. CASE MoveAside
  BY <1>0, <1>4 DEF MoveAside, StartRollback, RolledBack, PlaceOK, Goto, Return
<1>5. CASE Install
  BY <1>0, <1>5 DEF Install, StartRollback, RolledBack, PlaceOK, Goto, Return
<1>6. CASE Validate \/ Write \/ Cleanup \/ DropBackup
  BY <1>0, <1>6
  DEF Validate, Write, Cleanup, DropBackup, RolledBack, PlaceOK, Refused, Goto, Return
<1>7. ASSUME UNCHANGED vars \/ \E f \in Files : Edit(f)
      PROVE  RolledBack' = RolledBack /\ at' = at
  BY <1>0, <1>7 DEF Edit, vars, RolledBack
<1> QED BY <1>1, <1>2, <1>3, <1>4, <1>5, <1>6, <1>7 DEF Next, Rollback

\* An undo fails only where a patch is restored.
LEMMA UndoneStep == ASSUME IInv, [Next]_vars PROVE UndoneOK'
<1>1. undone' \subseteq
          IF at = "restore" /\ at' = "discard" THEN undone \cup {index} ELSE undone
  BY DEF Next, Validate, Write, Cleanup, MoveAside, Install, DropBackup, Rollback,
         RollbackRemove, RollbackRestore, RollbackDiscard, Edit, vars, bounds, Fault, Goto
<1> QED BY <1>1, RolledBackStep DEF IInv, UndoneOK

\* The checks of validation, as the step that passes them.
LEMMA PassedChecks ==
    ASSUME [Next]_vars, at = "validate", at' = "write"
    PROVE  /\ ~Duplicate(index) /\ ~Conflict(index)
           /\ UNCHANGED <<target, backup, moved, replaced, result, undone, touched>>
BY DEF Next, Validate, Write, Cleanup, MoveAside, Install, DropBackup, Rollback,
       RollbackRemove, RollbackRestore, RollbackDiscard, Edit, vars, Goto, flags, bounds

\* Two patches of one target never pass validation.
LEMMA DistinctStep == ASSUME IInv, [Next]_vars PROVE DistinctTargets'
<1>1. batch' = batch /\ DistinctTargets
  BY SameBatch DEF IInv
<1> SUFFICES ASSUME NEW i \in Validated', NEW j \in Validated', batch[i] = batch[j]
             PROVE  i = j
  BY <1>1 DEF DistinctTargets
<1>2. ASSUME NEW k \in Validated', NEW l \in Validated, k \notin Validated
      PROVE  batch[l] # batch[k]
  <2>1. at = "validate" /\ k = index /\ at' = "write"
    BY <1>2, ValidatedStep
  <2>2. ~Duplicate(index) /\ l \in 1..(index - 1)
    BY <2>1, PassedChecks, SameBatch DEF Validated, IInv, TypeOK
  <2> QED BY <2>1, <2>2 DEF Duplicate
<1>3. ASSUME i \notin Validated, j \notin Validated PROVE i = j
  BY <1>3, ValidatedStep
<1> QED BY <1>1, <1>2, <1>3 DEF DistinctTargets

\* The patch commit is at shares its target with no other validated patch.
LEMMA OtherTargets ==
    ASSUME IInv, at \notin {"validate", "cleanup", "done"}
    PROVE  /\ index \in Validated
           /\ \A i \in Validated \ {index} : batch[i] # batch[index]
<1>1. index \in Validated
  BY BatchShape DEF IInv, TypeOK, PlaceOK, Validated, Refused
<1> QED BY <1>1 DEF IInv, DistinctTargets

\* Each target is at its base version, moved aside, replaced or restored.
LEMMA TargetsStep == ASSUME IInv, [Next]_vars PROVE TargetsOK'
<1> SUFFICES ASSUME NEW i \in Validated', batch[i] \notin touched' PROVE TargetOK(i)'
  BY SameBatch DEF TargetsOK
<1>0. /\ batch' = batch /\ Patches' = Patches /\ FilesOK /\ ControlOK /\ PlaceOK
      /\ \A k \in Patches : batch[k] \in Files
      /\ i \in Patches /\ Validated \subseteq Patches
      /\ at \notin {"cleanup", "done"} => index \in Patches
  BY SameBatch, TypeParts DEF IInv, Validated
<1>a. CASE i \notin Validated
  <2>1. at = "validate" /\ i = index /\ at' = "write"
    BY <1>a, ValidatedStep
  <2> QED
    BY <1>0, <2>1, PassedChecks DEF Conflict, TargetOK, PlaceOK, ControlOK
<1>b. CASE i \in Validated
  <2>0. batch[i] \notin touched => TargetOK(i)
    BY <1>b DEF IInv, TargetsOK
  <2>d. /\ at \notin {"validate", "cleanup", "done"} =>
              /\ index \in Validated
              /\ i # index => batch[i] # batch[index]
    BY <1>b, OtherTargets
  <2>e. ~Refused /\ UndoneOK
    BY <1>b DEF Validated, IInv
  <2>f. at = "install" => temporary[index] = "new"
    BY <1>0, BatchShape DEF IInv, TypeOK, TemporariesOK
  <2> USE <1>0, <1>b, <2>0, <2>d, <2>e, <2>f
        DEF TargetOK, FilesOK, UndoneOK, PlaceOK, ControlOK, Refused, RolledBack, Goto,
            Return, flags, bounds
  <2>1. CASE Validate
    BY <2>1 DEF Validate
  <2>2. CASE Write
    BY <2>2 DEF Write, Fault
  <2>3. CASE Cleanup
    BY <2>3 DEF Cleanup
  <2>4. CASE MoveAside
    BY <2>4 DEF MoveAside, StartRollback, Fault
  <2>5. CASE Install
    BY <2>5 DEF Install, StartRollback, KeepBackup, Fault
  <2>6. CASE DropBackup
    BY <2>6 DEF DropBackup, Fault
  <2>7. CASE RollbackRemove
    BY <2>7 DEF RollbackRemove, Fault
  <2>8. CASE RollbackRestore
    BY <2>8 DEF RollbackRestore, Restorable, Fault
  <2>9. CASE RollbackDiscard
    <3>1. RolledBack' = RolledBack
      BY <2>9, RolledBackStep DEF RollbackDiscard
    <3> HIDE DEF RolledBack
    <3> QED BY <2>9, <3>1 DEF RollbackDiscard, Fault
  <2>10. ASSUME NEW f \in Files, Edit(f) PROVE TargetOK(i)'
    BY <2>10 DEF Edit
  <2>11. CASE UNCHANGED vars
    BY <2>11 DEF vars
  <2> QED
    BY <2>1, <2>2, <2>3, <2>4, <2>5, <2>6, <2>7, <2>8, <2>9, <2>10, <2>11 DEF Next, Rollback
<1> QED BY <1>a, <1>b

\* A temporary file is there from its write to its installation.
LEMMA TemporariesStep == ASSUME IInv, [Next]_vars PROVE TemporariesOK'
<1>0. /\ Len(batch) \in Nat \ {0} /\ Patches = 1..Len(batch)
      /\ batch' = batch /\ Patches' = Patches /\ ControlOK /\ PlaceOK
      /\ at \notin {"cleanup", "done"} => index \in Patches
      /\ FilesOK /\ TemporariesOK /\ faults \in Nat
  BY SameBatch, TypeParts, Bounds DEF IInv, CountsOK
<1> USE <1>0 DEF FilesOK, TemporariesOK, ControlOK, PlaceOK, Refused, Goto, Return, Fault,
    flags, bounds
<1>1. CASE Validate
  BY <1>1 DEF Validate
<1>2. CASE Write
  BY <1>2 DEF Write
<1>3. CASE Cleanup
  BY <1>3 DEF Cleanup, Staged
<1>4. CASE MoveAside
  BY <1>4 DEF MoveAside, StartRollback
<1>5. CASE Install
  BY <1>5 DEF Install, StartRollback
<1>6. CASE DropBackup
  BY <1>6 DEF DropBackup
<1>7. CASE RollbackRemove
  BY <1>7 DEF RollbackRemove
<1>8. CASE RollbackRestore
  BY <1>8 DEF RollbackRestore
<1>9. CASE RollbackDiscard
  BY <1>9 DEF RollbackDiscard
<1>10. ASSUME NEW f \in Files, Edit(f) PROVE TemporariesOK'
  BY <1>10 DEF Edit
<1>11. CASE UNCHANGED vars
  BY <1>11 DEF vars
<1> QED
  BY <1>1, <1>2, <1>3, <1>4, <1>5, <1>6, <1>7, <1>8, <1>9, <1>10, <1>11 DEF Next, Rollback

\* A backup is there from the move to the drop or the restoration.
LEMMA BackupsStep == ASSUME IInv, [Next]_vars PROVE BackupsOK'
<1>0. /\ Len(batch) \in Nat \ {0} /\ Patches = 1..Len(batch)
      /\ batch' = batch /\ Patches' = Patches /\ ControlOK /\ PlaceOK
      /\ at \notin {"cleanup", "done"} => index \in Patches
      /\ FilesOK /\ BackupsOK /\ faults \in Nat
  BY SameBatch, TypeParts, Bounds DEF IInv, CountsOK
<1> USE <1>0 DEF FilesOK, BackupsOK, RolledBack, ControlOK, PlaceOK, Refused, Goto, Return,
    Fault, flags, bounds
<1>1. CASE Validate
  BY <1>1 DEF Validate
<1>2. CASE Write
  BY <1>2 DEF Write
<1>3. CASE Cleanup
  BY <1>3 DEF Cleanup
<1>4. CASE MoveAside
  BY <1>4 DEF MoveAside, StartRollback
<1>5. CASE Install
  BY <1>5 DEF Install, StartRollback, KeepBackup
<1>6. CASE DropBackup
  BY <1>6 DEF DropBackup
<1>7. CASE RollbackRemove
  BY <1>7 DEF RollbackRemove
<1>8. CASE RollbackRestore
  BY <1>8 DEF RollbackRestore, Restorable
<1>9. CASE RollbackDiscard
  BY <1>9 DEF RollbackDiscard
<1>10. ASSUME NEW f \in Files, Edit(f) PROVE BackupsOK'
  BY <1>10 DEF Edit
<1>11. CASE UNCHANGED vars
  BY <1>11 DEF vars
<1> QED
  BY <1>1, <1>2, <1>3, <1>4, <1>5, <1>6, <1>7, <1>8, <1>9, <1>10, <1>11 DEF Next, Rollback

\* IInv is inductive.
LEMMA NextIInv == IInv /\ [Next]_vars => IInv'
<1> SUFFICES ASSUME IInv, [Next]_vars PROVE IInv'
  OBVIOUS
<1>1. TypeOK'
  <2>1. FilesOK' /\ ControlOK' /\ CountsOK'
    BY FilesStep, ControlStep, CountsStep
  <2> QED BY <2>1 DEF TypeOK, FilesOK, ControlOK, CountsOK
<1> QED
  BY <1>1, PlaceStep, UndoneStep, DistinctStep, TargetsStep, TemporariesStep,
      BackupsStep DEF IInv

-----------------------------------------------------------------------------
\* Types: commit stays within the batch, and returns with a result.
THEOREM TypeCorrect == Spec => []TypeOK
<1>1. IInv => TypeOK
  BY DEF IInv
<1> QED BY InitIInv, NextIInv, <1>1, PTL DEF Spec

\* While the commit is not complete, the original of every patch it moved aside is
\* in place or in the backup: also where an operation failed or the process died.
THEOREM OriginalNeverLost == Spec => []OriginalSurvives
<1>1. IInv => OriginalSurvives
  <2> SUFFICES ASSUME IInv, result # "committed", NEW i \in moved, batch[i] \notin touched
               PROVE  target[batch[i]] = "base" \/ backup[i] = "base"
    BY DEF OriginalSurvives
  <2>1. i \in Validated
    BY DEF IInv, TypeOK, PlaceOK, Validated, Refused
  <2> QED BY <2>1 DEF IInv, TargetsOK, TargetOK
<1> QED BY InitIInv, NextIInv, <1>1, PTL DEF Spec

\* commit returns with every target replaced, or with every target it moved back
\* in place, and leaves no other file behind unless an operation of it failed.
THEOREM CommitIsAtomic == Spec => []AllOrNothing
<1>1. IInv => AllOrNothing
  <2> SUFFICES ASSUME IInv, at = "done" PROVE AllOrNothing
    BY DEF AllOrNothing
  <2>1. ASSUME NEW i \in Patches, batch[i] \notin touched, result = "committed"
        PROVE  target[batch[i]] = "new"
    BY <2>1 DEF IInv, TypeOK, PlaceOK, Validated, Refused, TargetsOK, TargetOK
  <2>2. ASSUME NEW i \in moved \ undone, batch[i] \notin touched, result # "committed"
        PROVE  target[batch[i]] = "base"
    <3>1. result = "failed" /\ i \in Patches
      BY <2>2 DEF IInv, TypeOK, PlaceOK, Refused
    <3>2. i \in Validated /\ i \in RolledBack
      BY <3>1 DEF Validated, Refused, RolledBack
    <3> QED BY <2>2, <3>1, <3>2 DEF IInv, TargetsOK, TargetOK
  <2>3. ASSUME NEW i \in Patches, faults = 0
        PROVE  temporary[i] = "absent" /\ backup[i] = "absent"
    BY <2>3 DEF IInv, TemporariesOK, BackupsOK
  <2> QED BY <2>1, <2>2, <2>3 DEF AllOrNothing
<1> QED BY InitIInv, NextIInv, <1>1, PTL DEF Spec
=============================================================================
