CONSTANTS
    Question = {q1, q2}
    Answer = {a1}
    Submission = {s1, s2}
    Faults = {}
    None = None
SPECIFICATION FairSpec
INVARIANT CompletedCovers
PROPERTY ResultsAvailable
CHECK_DEADLOCK FALSE
