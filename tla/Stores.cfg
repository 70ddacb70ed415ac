\* A parent with up to two children and an agent of another process; and two
\* holders of a session, of which one saves more often than the other retries.
CONSTANTS
    Parent = 0
    Outsider = 3
    MaxTasks = 2
    Promoters = {0, 1, 2, 3}
    DelegateWorkers = {1, 2}
    Topics = {1, 2}
    A = A
    B = B
    Subjects = {A, B}
    NoSubject = NoSubject
    Answers <- MCAnswers
    MaxFaults = 1
    w1 = w1
    Writers = {w1, w2}
    Creator = w1
    MaxSaves <- MCMaxSaves
    MaxCrashes = 1
    MaxFailures = 1
    Values <- MCValues
    Layouts <- MCLayouts
    Attributes <- MCAttributes
    Replies <- MCReplies
SPECIFICATION MCSpec
INVARIANTS
    PromotedNotesKept
    SaveTellsTruth
    DocumentsSurvive
    ActionsAreHeard
PROPERTIES
    DelegateReturns
\* Every run may be over, and every holder gone.
CHECK_DEADLOCK FALSE
