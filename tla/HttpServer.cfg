\* One thread and a queue of one: a second connection waits, or is refused when
\* the thread is slow to take the first.  Requests and answers of up to three
\* units can be cut off anywhere; the server is started once.
CONSTANTS
    c1 = c1
    c2 = c2
    Clients = {c1, c2}
    Requests <- MCRequests
    Answers = {1}
    MaxRequest = 2
    Threads = {t1}
    ConnectionQueue = 1
    NoClient = NoClient
    MaxStarts = 1
SPECIFICATION MCSpec
INVARIANT AnswersAreWhole
PROPERTY StopEndsEverything
\* The server may be stopped, and every client answered.
CHECK_DEADLOCK FALSE
