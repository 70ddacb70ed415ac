\* As in the safety run, without a crash, with one request at a time and no symmetry.
CONSTANTS
    Runs = {r1, r2}
    Sessions = {s1}
    SessionOf <- OneSession
    Keys = {k1, k2}
    Clients = {c1}
    Workers = {w1, w2}
    QueueCapacity = 1
    NoRun = NoRun
    MaxRequests = 3
    MaxCrashes = 0
SPECIFICATION FairSpec
PROPERTIES
    AcceptedRunEnds
    RunningCancelConverges
    DestroyReturns
