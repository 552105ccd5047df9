SPECIFICATION FairSpec
CONSTANTS
    TasksNum = 4
    InitRate <- MCRates
    PeriodicDisabled = {1}
    InitRunOnce = {3}
    TimeOutTasks = {2}
    InitDisabled = {}
    TickModulus = 5
    FromInterrupt = {1}
    FromTask = {3}
    Timed = {1}
    Sleepers = {2}
    Rates = {1, 2}
    MaxElapsed = 2
    MaxCalls = 1
INVARIANTS SystemTypeOK NoSleepingRequest
PROPERTIES RequestServed PeriodicTaskRuns OnceMeansOnce
