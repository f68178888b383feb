CONSTANTS
    Question = {q1}
    Answer = {a1}
    Submission = {s1, s2}
    Faults = {}
    None = None
SPECIFICATION Spec
PROPERTY CompletedFinal
CHECK_DEADLOCK FALSE
