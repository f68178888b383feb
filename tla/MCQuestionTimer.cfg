CONSTANTS
    r1 = r1
    r2 = r2
    r3 = r3
    Request = {r1, r2, r3}
    Question = {q1}
    Plans <- TwoAsk
    None = None
SPECIFICATION FairSpec
INVARIANTS EntryRuns OneTimer CancelProtects
PROPERTY TimedOut
CHECK_DEADLOCK FALSE
