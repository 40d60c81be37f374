SPECIFICATION Spec
CHECK_DEADLOCK FALSE
SYMMETRY Symmetric
CONSTANTS
    Workers = {w1, w2, w3}
    Keys = {k1, k2}
    FIRST_MS = 1
    MAX_MS = 2
    FORGET_MS = 1
    LateOdd = FALSE
    MaxSeq = 4
    MaxNow = 1
INVARIANTS
    OnlyWhatFailed
    OneWriter
    AnswerClears
