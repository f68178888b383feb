CONSTANTS
    Call = {c1, c2, c3}
    Speech <- Speeches
    None = None
SPECIFICATION Spec
INVARIANTS OwnAudio FailureExplained MadeOnce
CHECK_DEADLOCK FALSE
