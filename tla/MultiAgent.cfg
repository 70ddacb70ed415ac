\* A batch of three that stops on a failure and one of two that does not, on two
\* workers and a queue of one: tasks wait for an agent, for a worker, or are
\* refused; agents come and go; the caller and the executor stop the batch.
CONSTANTS
    N = 3
    Batches <- MCBatches
    a1 = a1
    a2 = a2
    Agents = {a1, a2}
    MaxConcurrency <- MCMaxConcurrency
    Fits <- MCFits
    Workers = {w1, w2}
    QueueCapacity = 1
    Nobody = Nobody
SPECIFICATION FairSpec
INVARIANTS
    LeasesAreExact
    NoSleepWithCapacity
    CancelHasCause
    QuietOnReturn
PROPERTIES
    RunParallelReturns
