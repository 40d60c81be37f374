SPECIFICATION Spec
CHECK_DEADLOCK FALSE
SYMMETRY Symmetric
CONSTANTS
    Workers = {w1, w2}
    Keys = {k1, k2}
    FIRST_MS = 1
    MAX_MS = 3
    FORGET_MS = 3
    LateOdd = TRUE
    MaxSeq = 4
    MaxNow = 1
INVARIANTS
    OnlyWhatFailed
