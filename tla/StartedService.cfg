SPECIFICATION FairSpec
CONSTANTS
    Reloaders = {r1, r2}
    Closers = {c1}
    Waiters = {w1}
    Instances = 3
    Queue = 2
    Buffer = 1
    None = None
INVARIANTS  WaiterSawStarted
PROPERTY ComesToRest
CHECK_DEADLOCK FALSE
