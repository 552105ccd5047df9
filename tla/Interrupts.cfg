SPECIFICATION InterruptsSpec
CONSTANTS
    Size = 5
    ProcessSize = 5
    Modes = {"polled", "requested"}
    Handshake = TRUE
    MaxLine = 2
    RxMaxChars = 8
    BackToBack = FALSE
    MaxMessage = 5
    TxMaxChars = 11
    TasksNum = 2
    InitRate <- MCRates
    PeriodicDisabled = {1}
    InitRunOnce = {}
    TimeOutTasks = {}
    InitDisabled = {}
    TickModulus = 4
    Task_ButtonPressed = 1
    BUTTON_NUM = 2
    CheckPeriod = 1
    StepPeriod = 2
    LongLimit = 1
    ContinuousLimit = 2
    MaxElapsed = 1
INVARIANTS RxTypeOK NoLoss CopiesOldest NoneRefused
INVARIANTS TxTypeOK TxNoLoss NoStall
INVARIANT PressedIsChecked
PROPERTIES DropsExecutedOnly EachLineExecuted
PROPERTIES SendsInOrder AllSent
PROPERTIES ReportedOnce ContinuousEndsSo ReleaseReported
CHECK_DEADLOCK FALSE
