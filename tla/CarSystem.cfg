SPECIFICATION FairSpec
CONSTANTS
    TasksNum = 3
    InitRate <- MCRates
    PeriodicDisabled = {3}
    InitRunOnce = {}
    TimeOutTasks = {2}
    InitDisabled = {}
    TickModulus = 11
    Task_MotorControl = 1
    Task_MotorTimeout = 2
    Task_DebugUartProcess = 3
    MechanicalMax = 3
    ServoChange = 2
    SpeedChange = 1
    SlideMax = 1
    DcIncrement = 1
    DcStandard = 1
    DcMax = 2
    TurnIncrement = 1
    TurnMax = 1
    SendPeriod = 6
    MaxLink = 0
    SlideCommands = {TRUE, FALSE}
    MaxElapsed = 1
    MaxDelay = 0
    MaxInputs = 3
    MaxLosses = 1
INVARIANTS CarTypeOK StopsWhenSilent NoFalseStop
PROPERTIES NeverReversesAtOnce FollowsRemote
