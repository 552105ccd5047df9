SPECIFICATION Spec
CONSTANTS
    RxTexts = 3
    TxRoom = 2
    MaxFaults = 2
    MaxTexts = 1
    WifiLimit = 2
    WifiSilence = 1
    IpRetry = 1
    IpLimit = 3
    TcpLimit = 1
    LinkLimit = 2
    RecvLimit = 1
    MaxUnits = 2
    MaxRequests = 2
    MaxReconnects = 1
INVARIANT TypeOK
INVARIANT SentOnce
INVARIANT EveryPollIsASecond
PROPERTY SetsUp
PROPERTY RequestSent
