SPECIFICATION FairSpec
CONSTANTS
    Queries = {q1, q2}
    Callers = {q1, q2}
    BigQueries = {q1}
    Closers = {s1}
    Conns = {c1, c2}
    NoConn = NoConn
    None = None
    MaxResets = 1
    IdSpace = 2
INVARIANTS
    ShutdownIsGraceful
    DialIsShared
    NoOrphanConnection
    AnswerIsForQuery
    NoLostId
    NarrowReadIsTransient
PROPERTIES
    ImplementsParts
    
CHECK_DEADLOCK FALSE
