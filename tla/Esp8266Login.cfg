SPECIFICATION Spec
CONSTANTS
    RxTexts = 3
    TxRoom = 2
    MaxFaults = 0
    MaxTexts = 0
    WifiLimit = 2
    WifiSilence = 1
    IpRetry = 1
    IpLimit = 3
    TcpLimit = 1
    LinkLimit = 2
    RecvLimit = 1
    MaxUnits = 1
    MaxRequests = 1
    MaxReconnects = 0
INVARIANT LoginFirst
