\* A run that was queued when the process died, and is cancelled after the restart.
CONSTANTS
    Runs = {r1, r2}
    Sessions = {s1}
    SessionOf <- OneSession
    Keys = {k1, k2}
    Clients = {c1}
    Workers = {w1, w2}
    QueueCapacity = 1
    NoRun = NoRun
    MaxRequests = 2
    MaxCrashes = 1
SPECIFICATION FairSpec
PROPERTY
    QueuedCancelConverges
