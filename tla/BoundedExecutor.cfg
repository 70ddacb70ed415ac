\* Two workers and a queue of two: five tasks fill the workers and the queue
\* and leave one to be refused; the owner may stop the executor at any moment.
CONSTANTS
    Tasks = {t1, t2, t3, t4, t5}
    Workers = {w1, w2}
    QueueCapacity = 2
    NoTask = NoTask
SPECIFICATION FairSpec
INVARIANTS
    TaskInOnePlace
    NoIdleSleeper
PROPERTIES
    ImplementsPool
    AcceptedTaskCompletes
    ShutdownJoins
\* The executor stops for good once it is joined and every task was offered.
CHECK_DEADLOCK FALSE
