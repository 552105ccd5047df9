----------------------------- MODULE ButtonTask ------------------------------
(***************************************************************************)
(* The buttons: HAL_GPIO_EXTI_Callback (it.c) marks a pressed button and   *)
(* requests the button task; Task_ProcessButtonPressed (TaskList.c) records *)
(* the press, schedules itself again while a button is held, and reports a *)
(* short, long or continuous press when it is released.                    *)
(*                                                                         *)
(* The interrupt sets bits of BUTTON_Clicked while the task reads them one *)
(* button at a time and clears them all at its end.                        *)
(***************************************************************************)
EXTENDS TaskHandler

CONSTANTS
    Task_ButtonPressed,         \* index of the task in TaskList
    BUTTON_NUM,                 \* number of buttons
    CheckPeriod, StepPeriod,    \* the 10 ms and 100 ms the task asks for
    LongLimit,                  \* CONFIG_BUTTON_LONG_PRESS_TIME_TICK_LIMIT
    ContinuousLimit,            \* CONFIG_BUTTON_CONTINUOUS_PRESS_TIME_TICK_LIMIT
    MaxElapsed                  \* bound: milliseconds until the scheduler looks again

ASSUME ButtonAssumption ==
    /\ Task_ButtonPressed \in Tasks \cap PeriodicDisabled
    /\ BUTTON_NUM \in 1 .. 8    \* BUTTON_Clicked is a uint8_t
    /\ {CheckPeriod, StepPeriod} \subseteq 1 .. TickModulus - 1
    /\ ContinuousLimit \in Nat /\ LongLimit \in 0 .. ContinuousLimit    \* 1000 and 400 ms
    /\ MaxElapsed \in Nat

Buttons == 0 .. BUTTON_NUM - 1

VARIABLES
    pin,        \* buttons held down
    clicked,    \* BUTTON_Clicked
    pressedButtons,   \* BUTTON_PressedButtons
    pressTime,  \* HAL_GetTick() - BUTTON_PressTimeTick[b], ContinuousLimit + 1 if more
    step,       \* where the task function is
    b,          \* the button it looks at
    canSleep,   \* its local variable
    reported,   \* the last press type reported since the button was recorded
    edges       \* buttons with a rising edge since their last reported release

buttonVars == <<pin, clicked, pressedButtons, pressTime, step, b, canSleep, reported, edges>>
locals == <<step, b, canSleep>>
allVars == <<vars, buttonVars>>

ButtonInit ==
    /\ Init
    /\ pin = {} /\ clicked = {} /\ pressedButtons = {}
    /\ pressTime = [x \in Buttons |-> 0]
    /\ step = "clicked" /\ b = 0 /\ canSleep = TRUE
    /\ reported = [x \in Buttons |-> "None"] /\ edges = {}
-----------------------------------------------------------------------------
(* Time, pins and the interrupt.                                           *)

Later(time) == IF time > ContinuousLimit THEN time ELSE time + 1

SysTick ==
    /\ elapsed < MaxElapsed
    /\ elapsed' = elapsed + 1
    /\ pressTime' = [x \in Buttons |-> Later(pressTime[x])]
    /\ UNCHANGED <<fields, pc, i, source, pin, clicked, pressedButtons, locals, reported, edges>>

\* HAL_GPIO_EXTI_Callback, on the rising edge of the pin.
Press(x) ==
    /\ x \notin pin
    /\ pin' = pin \cup {x} /\ edges' = edges \cup {x}
    /\ clicked' = clicked \cup {x}
    /\ RequestTaskScheduling(Task_ButtonPressed)
    /\ Stays
    /\ UNCHANGED <<pressedButtons, pressTime, locals, reported>>

Release(x) ==
    /\ x \in pin /\ pin' = pin \ {x}
    /\ UNCHANGED <<vars, clicked, pressedButtons, pressTime, locals, reported, edges>>
-----------------------------------------------------------------------------
(* Task_ProcessButtonPressed with CONFIG_MODULE_BUTTON_LONG_PRESS.         *)

InTask(s) == Running(Task_ButtonPressed) /\ step = s

NextButton ==
    IF b < BUTTON_NUM - 1 THEN step' = "clicked" /\ b' = b + 1 ELSE step' = "clear" /\ b' = 0

CheckAgain(period) ==
    SetTaskOnceRun(Task_ButtonPressed, period) /\ canSleep' = FALSE

\* Variant: the time of the press is taken at every click.
RecordPress_EveryClick ==
    /\ pressedButtons' = pressedButtons \cup {b}
    /\ pressTime' = [pressTime EXCEPT ![b] = 0]
    /\ reported' = IF b \in pressedButtons THEN reported ELSE [reported EXCEPT ![b] = "None"]

RecordPress ==
    IF b \in pressedButtons THEN UNCHANGED <<pressedButtons, pressTime, reported>>
    ELSE /\ pressedButtons' = pressedButtons \cup {b}
         /\ pressTime' = [pressTime EXCEPT ![b] = 0]
         /\ reported' = [reported EXCEPT ![b] = "None"]

TestClicked ==
    /\ InTask("clicked")
    /\ IF b \in clicked
       THEN RecordPress /\ CheckAgain(CheckPeriod) /\ NextButton
       ELSE /\ IF b \in pressedButtons THEN step' = "pressed" /\ UNCHANGED b ELSE NextButton
            /\ UNCHANGED <<fields, canSleep, pressedButtons, pressTime, reported>>
    /\ Stays
    /\ UNCHANGED <<pin, clicked, edges>>

ReleaseType ==
    IF pressTime[b] > LongLimit
    THEN IF pressTime[b] > ContinuousLimit THEN "ReleasedContinuous" ELSE "Long"
    ELSE "Short"

\* Variant: the recorded press is not forgotten.
ReportRelease_KeepsPressed ==
    /\ reported' = [reported EXCEPT ![b] = ReleaseType]
    /\ edges' = edges \ {b}
    /\ UNCHANGED <<fields, canSleep, pressedButtons>>

ReportRelease ==
    /\ pressedButtons' = pressedButtons \ {b}
    /\ reported' = [reported EXCEPT ![b] = ReleaseType]
    /\ edges' = edges \ {b}
    /\ UNCHANGED <<fields, canSleep>>

\* Variant: a press that has become continuous is not checked again.
StillHeld_NotAgain ==
    /\ IF pressTime[b] > ContinuousLimit
       THEN /\ reported' = [reported EXCEPT ![b] = "Continuous"]
            /\ UNCHANGED <<fields, canSleep>>
       ELSE UNCHANGED reported /\ CheckAgain(CheckPeriod)
    /\ UNCHANGED <<pressedButtons, edges>>

StillHeld ==
    /\ IF pressTime[b] > ContinuousLimit
       THEN reported' = [reported EXCEPT ![b] = "Continuous"] /\ CheckAgain(StepPeriod)
       ELSE UNCHANGED reported /\ CheckAgain(CheckPeriod)
    /\ UNCHANGED <<pressedButtons, edges>>

\* BUTTON_GetButtonState reads the pin after the test of BUTTON_Clicked.
TestPressed ==
    /\ InTask("pressed")
    /\ IF b \in pin THEN StillHeld ELSE ReportRelease
    /\ NextButton
    /\ Stays
    /\ UNCHANGED <<pin, clicked, pressTime>>

ClearClicked ==
    /\ InTask("clear")
    /\ clicked' = {}
    /\ step' = "sleep"
    /\ UNCHANGED <<vars, pin, pressedButtons, pressTime, b, canSleep, reported, edges>>

Sleep ==
    /\ InTask("sleep")
    /\ IF canSleep THEN DisableTask(Task_ButtonPressed) ELSE UNCHANGED fields
    /\ step' = "return"
    /\ Stays
    /\ UNCHANGED <<pin, clicked, pressedButtons, pressTime, b, canSleep, reported, edges>>

Return ==
    /\ InTask("return")
    /\ RunTask_End
    /\ step' = "clicked" /\ b' = 0 /\ canSleep' = TRUE
    /\ UNCHANGED <<pin, clicked, pressedButtons, pressTime, reported, edges>>

Task_ProcessButtonPressed == TestClicked \/ TestPressed \/ ClearClicked \/ Sleep \/ Return

\* Every other task, for all this module says of it.
OtherTask == i # Task_ButtonPressed /\ RunTask_End /\ UNCHANGED buttonVars

MainLoop ==
    \/ (Scheduler \/ RunTask_ClearRequest) /\ UNCHANGED buttonVars
    \/ Task_ProcessButtonPressed
    \/ OtherTask

Next == MainLoop \/ SysTick \/ \E x \in Buttons : Press(x) \/ Release(x)

Spec == ButtonInit /\ [][Next]_allVars

\* The main loop goes on and time passes; nothing is assumed of the buttons.
FairSpec == Spec /\ WF_allVars(MainLoop) /\ WF_allVars(SysTick)
-----------------------------------------------------------------------------
ReleaseTypes == {"Short", "Long", "ReleasedContinuous"}

InRun == i = Task_ButtonPressed /\ pc \in {"clearOnce", "clearRequest", "run"}

\* While a recorded press waits for its release the task is enabled and set to
\* run again, although RunTask disables it at every run, and whichever of the
\* buttons decided last when to check again.
PressedIsChecked ==
    pressedButtons # {} /\ ~InRun =>
        Task_ButtonPressed \in isRunOnce /\ Task_ButtonPressed \notin isDisabled

\* One rising edge is reported as released at most once, however it falls
\* between the statements of the task.
ReportedOnce ==
    [][\A x \in Buttons :
          reported'[x] # reported[x] /\ reported'[x] \in ReleaseTypes => x \in edges]_allVars

\* A press reported as continuous ends as a continuous one: it is never
\* reported as short or long, however the contact bounces.
ContinuousEndsSo ==
    [][\A x \in Buttons :
          reported[x] = "Continuous" => reported'[x] \notin {"Short", "Long"}]_allVars

\* The locals of the task function; they have their first values between runs.
Steps == {"clicked", "pressed", "clear", "sleep", "return"}
LocalsInv ==
    /\ step \in Steps /\ b \in Buttons /\ canSleep \in BOOLEAN
    /\ clicked \subseteq Buttons /\ pressedButtons \subseteq Buttons
    /\ pressTime \in [Buttons -> Nat]
    /\ reported \in [Buttons -> ReleaseTypes \cup {"None", "Continuous"}]
    /\ ~Running(Task_ButtonPressed) => step = "clicked" /\ b = 0 /\ canSleep
    /\ step = "pressed" => b \in pressedButtons

\* The task has decided on button x in this run.
Passed(x) == x < b \/ step \notin {"clicked", "pressed"}

\* What makes PressedIsChecked inductive: the task that has passed a recorded
\* press will not sleep, and while it will not sleep it is set to run again.
CheckInv ==
    /\ (\E x \in pressedButtons : Passed(x)) => ~canSleep
    /\ ~canSleep \/ (pressedButtons # {} /\ ~InRun) =>
          Task_ButtonPressed \in isRunOnce /\ Task_ButtonPressed \notin isDisabled

\* What makes ReportedOnce inductive: a recorded press has its edge, and a click
\* whose edge was reported is one this run has passed and is about to clear.
EdgesInv ==
    /\ pressedButtons \subseteq edges
    /\ \A x \in clicked \ edges : Passed(x) /\ step \in {"clicked", "pressed", "clear"}

\* What makes ContinuousEndsSo inductive: the time of the press is not taken
\* again while the press is recorded.
ContinuousInv ==
    \A x \in Buttons :
        reported[x] = "Continuous" => x \in pressedButtons /\ pressTime[x] > ContinuousLimit

IInv == LocalsInv /\ CheckInv /\ EdgesInv /\ ContinuousInv

\* A recorded press is reported once the button stays released.
ReleaseReported ==
    \A x \in Buttons :
        x \in pressedButtons ~> x \notin pressedButtons \/ x \in pin

\* Every click is recorded ("Save: this button is pressed").
ClickRecorded == \A x \in Buttons : x \in clicked ~> x \in pressedButtons
=============================================================================
