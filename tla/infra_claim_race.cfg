SPECIFICATION Spec
CHECK_DEADLOCK FALSE
CONSTANTS
    Workers = {w1, w2}
    Classes = {"A"}
    Flags = {"LAME"}
    EdnsStates = {"UNKNOWN"}
    Ops = {"dot_claim"}
    RTTs = {0}
    RTT_INITIAL = 0
    RTT_MAX = 0
    RTT_BAN = 4000
    INFRA_TTL = 3
    TIMEOUTS_MAX = 3
    HOLD_AFTER = 2
    HOLD_SILENT_S = 1
    HoldS = 1
    DOT_CLAIM_S = 2
    GIVE_UP_KEEP_S = 20
    FAILED_KEEP_S = 3
    RENEW_S = 1
    ECS_OFF_S = 2
    TRIES_MAX = 5
    DotTtl = 3
    DotRetry = 1
    MaxTry = 1
    CachePressure = FALSE
    MaxNow = 2
INVARIANTS
    OneTest
