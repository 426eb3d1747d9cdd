SPECIFICATION Spec
CONSTANTS
    o1 = o1
    o2 = o2
    o3 = o3
    c1 = c1
    c2 = c2
    x1 = x1
    x2 = x2
    None = None
    Outbounds <- MCOutbounds
    Default = o1
    Callers <- MCCallers
    Conns <- MCConns
    InterruptExternal = TRUE
SYMMETRY Symmetry
INVARIANTS ConnectionsFollowSelection SelectionIsStored
CHECK_DEADLOCK FALSE
