SPECIFICATION Spec
CONSTANTS
    Streams = {s1}
    Packets = {p1}
    Duplex = TRUE
    Early = TRUE
    None = None
    NetworkManager <- MCNetworkManager
    Private <- MCPrivate
    Arrivals <- MCArrivals
    Outbounds <- MCOutbounds
    DefaultOutbound = "proxy"
    Found <- MCFound
    ServerFirst = {25}
    Magic = {"mux"}
    MaxRead = 3
INVARIANTS  ReportedOnce RoutedHasOutbound
PROPERTIES RejectedAfterSniff NothingSniffedIsLost ImplementsManager CutIsReported
CHECK_DEADLOCK FALSE
