SPECIFICATION Spec
CONSTANTS
    None = None
    NetworkManager <- MCNetworkManager
    Private <- MCPrivate
    Configs <- LookupConfigs
    Responses <- MCResponses
    BaseMetadata <- MCBaseMetadata
    Transports <- MCTransports
    Default = "remote"
    MaxClock <- MCMaxClock
    RDRCTimeout = 2
    Parts = 2
    Width = 16
PROPERTY AnswersPassFilter
CHECK_DEADLOCK FALSE
