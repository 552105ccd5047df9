SPECIFICATION MainLoopSpec
CONSTANTS
    a = a
    b = b
    Size = 4
    Chars = {a, b}
    NUL = NUL
    MaxString = 3
    Letters = {a, b}
    EndOfString = EndOfString
    MaxLength = 3
    HistorySize = 2
    HistoryInitList <- MCHistoryInitList
    CommandNames <- MCCommandNames
    SavedCommands <- MCSavedCommands
    StoreLength = 4
    Values = {0, 1}
    MaxSecond = 2
    MaxMinute = 1
    MaxHour = 1
    MaxDay = 3
    DaysOfMonth <- MCDaysOfMonth
    YearMin = 2
    YearMax = 5
    LastYear = 8
    SizeX = 5
    SizeY = 2
    MaxScore = 3
    MaxPosition = 3
    MinPeriod = 1
    MaxPeriod = 3
    InitPeriod = 2
    OpenedSets <- MCOpenedSets
    Width = 4
    VarList <- MCVarList
    MaxNumber = 17
    Words <- MCWords
    VarName <- MCVarName
    Lines <- MCLines
    CMDH_COMMAND_ARG_MAX_COUNT = 3
    CmdH_CommandList <- MCCommandList
INVARIANT MainLoopTypeOK
INVARIANT KeysAreHandled
INVARIANT SnakeIsAPath
INVARIANT DisplayRunsAgain
PROPERTY DifferenceWithinYear
PROPERTY ImplementsFifo
PROPERTY ImplementsEditor
PROPERTY ImplementsList
PROPERTY SetIsShown
