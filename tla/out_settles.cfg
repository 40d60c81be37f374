SPECIFICATION FairSpec
CONSTANTS
    Tasks = {t1}
    Servers = {s1, s2}
    TcpOnly = {s2}
    Queries = {1, 2, 3}
    DOT_MAX_CONNS = 1
    DOT_MAX_HANDSHAKES = 1
    DOT_MAX_PENDING = 2
PROPERTIES Settles
