CONSTANTS
    Job = {j1, j2}
    WorkerCount = 1
    MaxTasksPerWorker = 1
    Shutdown = TRUE
    Punctual = TRUE
    Boot = Boot
    NoJob = NoJob
SPECIFICATION FairSpec
INVARIANTS CountersExact JobsConserved MetricsBalance
PROPERTIES DeliversJobs ServedOrRestartable BacklogServed StopWaitsForWorkers StopReturns
CHECK_DEADLOCK FALSE
