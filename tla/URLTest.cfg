SPECIFICATION Spec
CONSTANTS
    Outbounds <- MCOutbounds
    Networks <- MCNetworks
    Supports <- MCSupports
    RealTag <- MCRealTag
    Delays <- MCDelays
    Tolerance = 2
    Wrap = 16
    InterruptExternal = FALSE
    Conns = {x1}
    None = None
INVARIANTS  ConnectionsFollowSelection
PROPERTY SwitchIsWorthIt
CHECK_DEADLOCK FALSE
