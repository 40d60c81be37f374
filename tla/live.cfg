SPECIFICATION AnySpec
CHECK_DEADLOCK FALSE
CONSTANTS
    Clients = {c1, c2}
    Keys = {k1}
    Ids = {1, 2, 3}
    Slots = {1}
    MAX_PENDING = 2
    MAX_DEPTH = 3
    WAITERS = 2
    FAIL_TRIES = 2
    Dns64 = {c1}
PROPERTIES
    AllComes
