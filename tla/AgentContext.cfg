\* One recent file of two, so that files are forgotten; two tool calls; two
\* events, each an edit by others or a death, anywhere.  Two keys compete for one
\* entry of the cache; three callers are a leader and two sharers, or a leader
\* with a sharer and the next leader; every source may change once.
CONSTANTS
    Files = {f1, f2}
    WorkingFileLimit = 1
    Edits <- MCEdits
    Options = {1, 2}
    MaxTools = 2
    MaxEvents = 2
    Inputs <- MCInputs
    Keys = {k1, k2}
    Callers = {c1, c2, c3}
    Capacity = 1
    MaxVersion = 1
    NoKey = NoKey
SYMMETRY Symmetry
SPECIFICATION MCSpec
INVARIANTS
    ResultTellsTruth
    FitsUnlessAtFloors
    NewestIsShown
    LruMatchesEntries
    SingleFlight
    StaleOnlyAfterRace
PROPERTIES
    SummariesAreCurrent
    EditsAreNoticed
\* An agent need not be asked again.
CHECK_DEADLOCK FALSE
