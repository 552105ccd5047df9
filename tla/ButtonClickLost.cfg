SPECIFICATION FairSpec
CONSTANTS
    TasksNum = 2
    InitRate <- MCRates
    PeriodicDisabled = {1}
    InitRunOnce = {}
    TimeOutTasks = {}
    InitDisabled = {}
    TickModulus = 4
    Task_ButtonPressed = 1
    BUTTON_NUM = 1
    CheckPeriod = 1
    StepPeriod = 2
    LongLimit = 1
    ContinuousLimit = 2
    MaxElapsed = 1
PROPERTY ClickRecorded
