SPECIFICATION AnySpec
CHECK_DEADLOCK FALSE
SYMMETRY Twins
CONSTANTS
    t1 = t1
    t2 = t2
    Nil = Nil
    Names <- ChainNames
    Above <- NamesAbove
    Worlds <- AllWorlds
    Subnets = {"s1", "s2"}
    Tasks = {t1, t2}
    MAX_CHAIN = 2
    MaxAsks = 2
    MaxLapses = 1
INVARIANTS
    AnswerEarned
    TableSound
    SetsWhole
    FiguresTrue
    SessionsTrue
PROPERTIES
    TableIsMap
    StoresStep
