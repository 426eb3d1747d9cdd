SPECIFICATION Spec
CONSTANTS
    None = None
    NetworkManager <- MCNetworkManager
    Private <- MCPrivate
    Configs <- MCConfigs
    Responses <- MCResponses
    BaseMetadata <- MCBaseMetadata
    Transports <- MCTransports
    Default = "remote"
    MaxClock <- MCMaxClock
    RDRCTimeout = 2
    Parts = 2
    Width = 16
INVARIANT LoadedWithinLifetime
PROPERTIES   CachedForLeastTTL 
CHECK_DEADLOCK FALSE
