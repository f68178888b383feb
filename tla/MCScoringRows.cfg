CONSTANTS
    Question = {q1}
    Answer = {a1, a2}
    Submission = {s1, s2}
    Faults = {"db", "karma", "darius", "crash"}
    None = None
SPECIFICATION Spec
INVARIANTS CompletedIffResult ScoredAfterSubmit StatusMatchesRow AcceptedAnswerAccounted
SYMMETRY ScoringSymmetry
CHECK_DEADLOCK FALSE
