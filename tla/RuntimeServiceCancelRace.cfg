\* A cancel that overtakes the registration of its run.
CONSTANTS
    Runs = {r1, r2}
    Sessions = {s1}
    SessionOf <- OneSession
    Keys = {k1, k2}
    Clients = {c1, c2}
    Workers = {w1, w2}
    QueueCapacity = 1
    NoRun = NoRun
    MaxRequests = 2
    MaxCrashes = 0
SYMMETRY Symmetry
SPECIFICATION Spec
INVARIANT
    QueuedCancelIsHonoured
