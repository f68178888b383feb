CONSTANTS
    Run = {r1, r2}
    Interview = {i1}
    TotalQuestions = 2
    MaxBatch = 2
    Faults <- AnyFault
SPECIFICATION FairSpec
INVARIANTS TypeOK FlagExact GuardExclusive SuccessExplained PublishedAgain
PROPERTIES SlotReleased RequestServed
CHECK_DEADLOCK FALSE
