SPECIFICATION FairSpec
CONSTANTS
    Exchanges = {e1, e2, e3}
    Questions = {name, server}
    Servers = {local, remote}
    name = name
    server = server
    local = local
    remote = remote
    None = None
    Requests <- MCRequests
    Needs <- MCNeeds
    Answers <- MCAnswers
    Independent = FALSE
    DisableExpire = FALSE
INVARIANTS
    WaiterHasOwner

    
CHECK_DEADLOCK FALSE
