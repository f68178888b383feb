CONSTANTS
    Interview = {c1}
    Request = {r1, r2}
    Worker = {w1, w2}
    FirstIndex = 1
    TotalQuestions = 3
    MaxBatch = 1
    QueueCapacity = 1
    MaxAsks = 2
    MaxFaults = 1
    NoJob = NoJob
SPECIFICATION FairSpec
INVARIANT InOrder
PROPERTIES FeedsQuestions EveryoneServed
CHECK_DEADLOCK FALSE
