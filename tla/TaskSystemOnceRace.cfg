SPECIFICATION Spec
CONSTANTS
    TasksNum = 2
    InitRate <- MCRaceRates
    PeriodicDisabled = {2}
    InitRunOnce = {1}
    TimeOutTasks = {}
    InitDisabled = {}
    TickModulus = 4
    FromInterrupt = {2}
    FromTask = {}
    Timed = {2}
    Sleepers = {}
    Rates = {1}
    MaxElapsed = 1
    MaxCalls = 1
PROPERTY OnceDespiteInterrupt
