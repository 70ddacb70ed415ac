\* Two runs of one session of up to two tool steps each; one call that persists
\* fails or the process dies once; one prompt has something to report.
CONSTANTS
    Calls = {read}
    Absent = Absent
    MaxSteps = 2
    MaxRuns = 2
    MaxFailures = 1
    MaxNotices = 1
SPECIFICATION Spec
INVARIANTS
    DirectoryFollowsSession
    DirectoryAgrees
    SideEffectsKept
    StopIsHeard
PROPERTIES
    RunReturns
\* A session need not have another run.
CHECK_DEADLOCK FALSE
