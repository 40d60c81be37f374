SPECIFICATION AnySpec
CHECK_DEADLOCK FALSE
CONSTANTS
    Conns = {c1}
    Tasks = {t1, t2}
    MAX_CONN = 1
    TCP_TX_HIGH = 0
    RX_FIRST = 2
    TX_FIRST = 1
    TX_LIMIT = 1
    SNDBUF = 1
    Bodies = {0, 2}
    Replies = {1}
    MaxQueries = 3
INVARIANTS
    OneWholeZone
PROPERTIES
    EverythingEnds
