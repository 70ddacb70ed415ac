\* Somebody writes to a target after its hash was compared.
CONSTANTS
    f1 = f1
    f2 = f2
    f3 = f3
    Files = {f1, f2, f3}
    Batches <- MCBatches
    MaxFaults = 0
    MaxEdits = 1
SPECIFICATION Spec
INVARIANT
    OnlyBaseIsReplaced
CHECK_DEADLOCK FALSE
