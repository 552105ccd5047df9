------------------------------ MODULE Calendar -------------------------------
(***************************************************************************)
(* The system time of Src/Modules/SysTime.c with the calendar of           *)
(* Src/Common/Helper/DateTime.c: stepped once a second by its task, set by *)
(* the time command and by the clock application's settings.  The lengths  *)
(* of minute, hour, day and months are constants: 60, 60, 24 and           *)
(* days_of_month in the code.                                              *)
(***************************************************************************)
EXTENDS Integers, Sequences, SequencesExt

CONSTANTS
    MaxSecond, MaxMinute, MaxHour,  \* 59, 59, 23
    MaxDay,                         \* 31, all that CheckValue asks of a day
    DaysOfMonth,                    \* days_of_month
    YearMin, YearMax,               \* DATETIME_DATE_YEAR_MIN_VALUE and MAX: 16, 50
    LastYear                        \* 99

ASSUME CalendarAssumption ==
    /\ {MaxSecond, MaxMinute, MaxHour, MaxDay, YearMin, YearMax, LastYear} \subseteq Nat
    /\ YearMin <= YearMax /\ YearMax < LastYear
    /\ DaysOfMonth \in Seq(1 .. MaxDay) /\ Len(DaysOfMonth) >= 2
    /\ DaysOfMonth[2] < MaxDay

VARIABLES systemTime        \* DateTime_SystemTime
calendarVars == <<systemTime>>

February == 2
LastMonth == Len(DaysOfMonth)

\* A static variable: neither the month nor the day is a valid one.
CalendarInit ==
    systemTime = [year |-> 0, month |-> 0, day |-> 0, hour |-> 0, minute |-> 0, second |-> 0]
-----------------------------------------------------------------------------
\* DateTime_CheckItIsLeapYear counts from the year 2000.
IsLeapYear(year) == year % 400 = 0 \/ (year % 100 # 0 /\ year % 4 = 0)

\* The code adds the leap day to February of the years that are not leap years.
GetDaysOfMonth(year, month) ==
    IF month \notin 1 .. LastMonth \/ year > LastYear THEN 0
    ELSE IF month = February /\ ~IsLeapYear(year) THEN DaysOfMonth[February] + 1
    ELSE DaysOfMonth[month]

CheckDateTime(t) ==
    /\ t.year \in YearMin .. YearMax /\ t.month \in 1 .. LastMonth /\ t.day \in 1 .. MaxDay
    /\ t.hour <= MaxHour /\ t.minute <= MaxMinute /\ t.second <= MaxSecond

SumTo(n, terms) ==
    LET sum[k \in 0 .. n] == IF k = 0 THEN 0 ELSE sum[k - 1] + terms[k] IN sum[n]

HoursToSeconds(hours) == hours * (MaxMinute + 1) * (MaxSecond + 1)
DaySeconds == HoursToSeconds(MaxHour + 1)
DaysOfYear(year) == SumTo(LastMonth, DaysOfMonth) + (IF IsLeapYear(year) THEN 1 ELSE 0)

\* Of the years before one, and of the months of a year.
YearDays == [k \in 1 .. LastYear |-> DaysOfYear(k - 1)]
MonthDays(year) == [k \in 1 .. LastMonth |-> GetDaysOfMonth(year, k)]

\* Variant: the month that has begun counts as a full one.
CalculateDateTimeSecond_FullMonth(t) ==
    IF ~CheckDateTime(t) THEN 0
    ELSE DaySeconds * (SumTo(t.year, YearDays) + SumTo(t.month, MonthDays(t.year)) + t.day - 1)
         + HoursToSeconds(t.hour) + t.minute * (MaxSecond + 1) + t.second

CalculateDateTimeSecond(t) ==
    IF ~CheckDateTime(t) THEN 0
    ELSE DaySeconds * (SumTo(t.year, YearDays) + SumTo(t.month - 1, MonthDays(t.year)) + t.day - 1)
         + HoursToSeconds(t.hour) + t.minute * (MaxSecond + 1) + t.second

\* Each unit that passes its end starts again and steps the next one; the year
\* starts again without one.
StepYear(t) == [t EXCEPT !.month = 1, !.year = IF @ < LastYear THEN @ + 1 ELSE 0]
StepMonth(t) ==
    IF t.month < LastMonth THEN [t EXCEPT !.day = 1, !.month = @ + 1]
    ELSE StepYear([t EXCEPT !.day = 1])
StepDay(t) ==
    IF t.day < GetDaysOfMonth(t.year, t.month) THEN [t EXCEPT !.hour = 0, !.day = @ + 1]
    ELSE StepMonth([t EXCEPT !.hour = 0])
StepHour(t) ==
    IF t.hour < MaxHour THEN [t EXCEPT !.minute = 0, !.hour = @ + 1]
    ELSE StepDay([t EXCEPT !.minute = 0])
StepMinute(t) ==
    IF t.minute < MaxMinute THEN [t EXCEPT !.second = 0, !.minute = @ + 1]
    ELSE StepHour([t EXCEPT !.second = 0])

StepOneSecond ==
    systemTime' = IF systemTime.second < MaxSecond THEN [systemTime EXCEPT !.second = @ + 1]
                  ELSE StepMinute(systemTime)
-----------------------------------------------------------------------------
\* The time command: every day from 1 to 31 passes in every month.
SetDate(year, month, day) ==
    systemTime' = [systemTime EXCEPT !.year = year, !.month = month, !.day = day]

SetTime(hour, minute, second) ==
    systemTime' = [systemTime EXCEPT !.hour = hour, !.minute = minute, !.second = second]

\* The clock application: a unit turns round and steps no other.
Up(value, max) == IF value >= max THEN 0 ELSE value + 1
Down(value, max) == IF value = 0 THEN max ELSE value - 1

AddHour == systemTime' = [systemTime EXCEPT !.hour = Up(@, MaxHour)]
SubHour == systemTime' = [systemTime EXCEPT !.hour = Down(@, MaxHour)]
AddMinute == systemTime' = [systemTime EXCEPT !.minute = Up(@, MaxMinute)]
SubMinute == systemTime' = [systemTime EXCEPT !.minute = Down(@, MaxMinute)]

CalendarNext ==
    \/ StepOneSecond
    \/ \E year \in YearMin .. YearMax, month \in 1 .. LastMonth, day \in 1 .. MaxDay :
          SetDate(year, month, day)
    \/ \E hour \in 0 .. MaxHour, minute \in 0 .. MaxMinute, second \in 0 .. MaxSecond :
          SetTime(hour, minute, second)
    \/ AddHour \/ SubHour \/ AddMinute \/ SubMinute

CalendarSpec == CalendarInit /\ [][CalendarNext]_calendarVars
-----------------------------------------------------------------------------
\* The type invariant; the zeros of the start last until the first midnight.
CalendarTypeOK ==
    systemTime \in [year : 0 .. LastYear, month : 0 .. LastMonth, day : 0 .. MaxDay,
                    hour : 0 .. MaxHour, minute : 0 .. MaxMinute, second : 0 .. MaxSecond]

DayExists(t) == t.day <= GetDaysOfMonth(t.year, t.month)

\* Both times are within what is calculated, and the first day is one its month has.
Calculated(from, to) == CheckDateTime(from) /\ CheckDateTime(to) /\ DayExists(from)

Difference(from, to) == CalculateDateTimeSecond(to) - CalculateDateTimeSecond(from)

\* DateTime_CalculateDateTimeSecond: "Result it is elapsed seconds from 2000.01.01,
\* 00:00:00", so that a second more has elapsed after every step of the clock.
DifferenceIsElapsed ==
    [][StepOneSecond /\ Calculated(systemTime, systemTime')
         => Difference(systemTime, systemTime') = 1]_calendarVars

\* The same where the code keeps it: within a year the clock and the calculation
\* turn every minute, hour, day and month at the same second, February with its
\* wrong length included.
DifferenceWithinYear ==
    [][StepOneSecond /\ Calculated(systemTime, systemTime') /\ systemTime'.year = systemTime.year
         => Difference(systemTime, systemTime') = 1]_calendarVars
=============================================================================
