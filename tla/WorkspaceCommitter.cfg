\* Any operation of the commit may fail, and one more in the rollback; others
\* may change the targets twice.
CONSTANTS
    f1 = f1
    f2 = f2
    f3 = f3
    Files = {f1, f2, f3}
    Batches <- MCBatches
    MaxFaults = 2
    MaxEdits = 2
SPECIFICATION Spec
INVARIANTS
    OriginalSurvives
    AllOrNothing
\* commit is called once.
CHECK_DEADLOCK FALSE
