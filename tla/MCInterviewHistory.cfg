CONSTANTS
    Row = {a, b, c}
    NoRow = none
    PageSize = 1
    Toggle = {t1, t2, t3}
SPECIFICATION Spec
INVARIANTS NothingSkipped ShownOnce
PROPERTY LoneToggleInverts
SYMMETRY HistorySymmetry
CONSTRAINT Undecided
CHECK_DEADLOCK FALSE
