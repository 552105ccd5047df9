SPECIFICATION CalendarSpec
CONSTANTS
    MaxSecond = 2
    MaxMinute = 1
    MaxHour = 1
    MaxDay = 3
    DaysOfMonth <- MCDaysOfMonth
    YearMin = 2
    YearMax = 5
    LastYear = 8
PROPERTY DifferenceIsElapsed
