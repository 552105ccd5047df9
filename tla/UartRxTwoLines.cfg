SPECIFICATION RxFairSpec
CONSTANTS
    Size = 4
    ProcessSize = 4
    Modes = {"requested"}
    Handshake = FALSE
    MaxLine = 0
    RxMaxChars = 7
PROPERTY EachLineExecuted
CHECK_DEADLOCK FALSE
