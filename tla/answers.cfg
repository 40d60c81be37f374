SPECIFICATION AnySpec
CHECK_DEADLOCK FALSE
CONSTANTS
    t1 = t1
    t2 = t2
    s1 = s1
    s2 = s2
    Tasks = {t1, t2}
    Servers = {s1, s2}
    TcpOnly = {}
    Queries = {1, 2, 3}
    DOT_MAX_CONNS = 1
    DOT_MAX_HANDSHAKES = 1
    DOT_MAX_PENDING = 2
SYMMETRY Symmetric
INVARIANTS
    DenialsTrue
    TrustEarned
    ChannelSound
    OneFamilyLeft
    ReservedKept
    CookieKept
    NeverMore
    Hooked
    OutSound
PROPERTIES
    AnswersStep
