CONSTANTS
    Run = {r1, r2}
    Interview = {i1}
    TotalQuestions = 2
    MaxBatch = 2
    Faults <- KarmaFault
SPECIFICATION Spec
INVARIANT SuccessMeansSaved
CHECK_DEADLOCK FALSE
