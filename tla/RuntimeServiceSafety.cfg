\* Two runs of one session, two workers behind a queue of one, two requests at a
\* time and one crash.
CONSTANTS
    Runs = {r1, r2}
    Sessions = {s1}
    SessionOf <- OneSession
    Keys = {k1, k2}
    Clients = {c1, c2}
    Workers = {w1, w2}
    QueueCapacity = 1
    NoRun = NoRun
    MaxRequests = 4
    MaxCrashes = 1
SYMMETRY Symmetry
SPECIFICATION Spec
INVARIANTS
    RunningIsTracked
    LogTellsTruth
    HeardCancelWins
    GoneIsQuiet
PROPERTIES
    ImplementsLifecycle
