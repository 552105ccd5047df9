-------------------------- MODULE ButtonTaskProof ---------------------------
(***************************************************************************)
(* The button task of ButtonTask, for every number of buttons, task list   *)
(* and timing, and wherever the interrupt falls between its statements: a  *)
(* recorded press is always checked again, one edge is reported as         *)
(* released at most once, and a continuous press ends as one.              *)
(***************************************************************************)
EXTENDS ButtonTask, TLAPS

\* Nothing is pressed at the start and the task does not run.
LEMMA InitIInv == ButtonInit => IInv
<1> SUFFICES ASSUME ButtonInit PROVE IInv
  OBVIOUS
<1>1. 0 \in Buttons
  BY ButtonAssumption DEF Buttons
<1>2. LocalsInv
  BY <1>1 DEF ButtonInit, LocalsInv, Steps
<1>3. CheckInv /\ EdgesInv
  BY DEF ButtonInit, CheckInv, EdgesInv, Passed
<1>4. ContinuousInv
  BY DEF ButtonInit, ContinuousInv
<1> QED
  BY <1>2, <1>3, <1>4 DEF IInv

\* Between its runs the task has decided on no button.
LEMMA NotRunning ==
    ASSUME IInv, ~Running(Task_ButtonPressed)
    PROVE  /\ step = "clicked" /\ b = 0 /\ canSleep = TRUE
           /\ \A x \in Buttons : ~Passed(x)
<1>1. step = "clicked" /\ b = 0 /\ canSleep = TRUE
  BY DEF IInv, LocalsInv
<1>2. \A x \in Buttons : ~(x < 0)
  BY ButtonAssumption DEF Buttons
<1> QED
  BY <1>1, <1>2 DEF Passed

\* The scheduler, between the runs of the task; only a run that starts takes
\* the task out of the sight of PressedIsChecked.
LEMMA SchedulerIInv ==
    ASSUME IInv, Scheduler \/ RunTask_ClearRequest, UNCHANGED buttonVars
    PROVE  IInv'
<1>1. LocalsInv /\ CheckInv /\ EdgesInv /\ ContinuousInv
  BY DEF IInv
<1>2. pc # "run" /\ ~Running(Task_ButtonPressed)
  BY DEF Scheduler, StartPass, CheckTask, RunTask_ClearOnce, RunTask_ClearRequest, Running
<1>3. step = "clicked" /\ b = 0 /\ canSleep = TRUE
  BY <1>2, NotRunning
<1>4. LocalsInv' /\ EdgesInv' /\ ContinuousInv'
  BY <1>1, <1>3, SMTT(20) DEF buttonVars, locals, LocalsInv, EdgesInv, ContinuousInv, Passed
<1>5. isRunOnce' = isRunOnce
  BY DEF Scheduler, StartPass, CheckTask, RunTask_ClearOnce, RunTask_ClearRequest, fields
<1>6. InRun \/ InRun' \/ (Task_ButtonPressed \in isDisabled' => Task_ButtonPressed \in isDisabled)
  BY DEF Scheduler, StartPass, CheckTask, RunTask_ClearOnce, RunTask_ClearRequest, fields, InRun
<1>7. InRun => InRun'
  BY DEF Scheduler, StartPass, CheckTask, RunTask_ClearOnce, RunTask_ClearRequest, InRun
<1>8. CheckInv'
  BY <1>1, <1>3, <1>5, <1>6, <1>7 DEF CheckInv, buttonVars, locals, Passed
<1> QED
  BY <1>4, <1>8 DEF IInv

\* The other tasks.
LEMMA OtherTaskIInv == ASSUME IInv, OtherTask PROVE IInv'
<1>1. LocalsInv /\ CheckInv /\ EdgesInv /\ ContinuousInv
  BY DEF IInv
<1>2. /\ ~Running(Task_ButtonPressed) /\ ~Running(Task_ButtonPressed)'
      /\ ~InRun /\ UNCHANGED <<isRunOnce, isDisabled>>
  BY DEF OtherTask, RunTask_End, NextTask, Running, InRun
<1>3. step = "clicked" /\ b = 0 /\ canSleep = TRUE
  BY <1>2, NotRunning
<1>4. UNCHANGED buttonVars
  BY DEF OtherTask
<1>5. LocalsInv' /\ EdgesInv' /\ ContinuousInv'
  BY <1>1, <1>3, <1>4, SMTT(20) DEF buttonVars, locals, LocalsInv, EdgesInv, ContinuousInv, Passed
<1>6. CheckInv'
  BY <1>1, <1>2, <1>3, <1>4 DEF CheckInv, buttonVars, locals, Passed
<1> QED
  BY <1>5, <1>6 DEF IInv

\* Time, and the pins with the interrupt.
LEMMA OutsideIInv ==
    ASSUME IInv, SysTick \/ \E x \in Buttons : Press(x) \/ Release(x)
    PROVE  IInv'
<1>1. LocalsInv /\ CheckInv /\ EdgesInv /\ ContinuousInv
  BY DEF IInv
<1>2. CASE SysTick
  <2>1. /\ UNCHANGED <<clicked, pressedButtons, step, b, canSleep, reported, edges>>
        /\ UNCHANGED <<isRunOnce, isDisabled, pc, i>>
        /\ pressTime' = [x \in Buttons |-> Later(pressTime[x])]
    BY <1>2 DEF SysTick, fields, locals
  <2>2. /\ pressTime' \in [Buttons -> Nat]
        /\ \A x \in Buttons : pressTime[x] > ContinuousLimit => pressTime'[x] > ContinuousLimit
    BY <1>1, <2>1 DEF LocalsInv, Later
  <2>3. LocalsInv' /\ CheckInv' /\ EdgesInv'
    BY <1>1, <2>1, <2>2 DEF LocalsInv, CheckInv, EdgesInv, Passed, Running, InRun
  <2>4. ContinuousInv'
    BY <1>1, <2>1, <2>2 DEF ContinuousInv
  <2> QED
    BY <2>3, <2>4 DEF IInv
<1>3. CASE \E x \in Buttons : Press(x)
  <2>1. PICK x \in Buttons : Press(x)
    BY <1>3
  <2>2. /\ UNCHANGED <<pressedButtons, pressTime, step, b, canSleep, reported, isRunOnce, pc, i>>
        /\ clicked' = clicked \cup {x} /\ edges' = edges \cup {x}
        /\ isDisabled' = isDisabled \ {Task_ButtonPressed}
    BY <2>1 DEF Press, RequestTaskScheduling, Stays, locals
  <2>3. LocalsInv' /\ CheckInv' /\ EdgesInv'
    BY <1>1, <2>2 DEF LocalsInv, CheckInv, EdgesInv, Passed, Running, InRun
  <2>4. ContinuousInv'
    BY <1>1, <2>2 DEF ContinuousInv
  <2> QED
    BY <2>3, <2>4 DEF IInv
<1>4. CASE \E x \in Buttons : Release(x)
  <2>1. /\ UNCHANGED <<pressedButtons, pressTime, step, b, canSleep, reported, isRunOnce, pc, i>>
        /\ UNCHANGED <<clicked, edges, isDisabled>>
    BY <1>4 DEF Release, vars, fields, locals
  <2>2. LocalsInv' /\ CheckInv' /\ EdgesInv' /\ ContinuousInv'
    BY <1>1, <2>1 DEF LocalsInv, CheckInv, EdgesInv, ContinuousInv, Passed, Running, InRun
  <2> QED
    BY <2>2 DEF IInv
<1> QED
  BY <1>2, <1>3, <1>4
-----------------------------------------------------------------------------
\* Moving on, the task has decided on the button it looked at as well.
LEMMA NextButtonPasses ==
    ASSUME b \in Buttons, step \in {"clicked", "pressed"}, NextButton
    PROVE  /\ b' \in Buttons /\ step' \in {"clicked", "clear"}
           /\ \A x \in Buttons : Passed(x)' <=> Passed(x) \/ x = b
<1>1. CASE b < BUTTON_NUM - 1
  <2>1. step' = "clicked" /\ b' = b + 1
    BY <1>1 DEF NextButton
  <2>2. b + 1 \in Buttons /\ \A x \in Buttons : x < b + 1 <=> x < b \/ x = b
    BY <1>1, ButtonAssumption DEF Buttons
  <2> QED
    BY <2>1, <2>2 DEF Passed
<1>2. CASE ~(b < BUTTON_NUM - 1)
  <2>1. step' = "clear" /\ b' = 0
    BY <1>2 DEF NextButton
  <2>2. 0 \in Buttons /\ \A x \in Buttons : x < b \/ x = b
    BY <1>2, ButtonAssumption DEF Buttons
  <2> QED
    BY <2>1, <2>2 DEF Passed
<1> QED
  BY <1>1, <1>2

\* The test of BUTTON_Clicked.
LEMMA TestClickedIInv == ASSUME IInv, TestClicked PROVE IInv'
<1>1. LocalsInv /\ CheckInv /\ EdgesInv /\ ContinuousInv
  BY DEF IInv
<1>2. /\ Running(Task_ButtonPressed) /\ step = "clicked" /\ Running(Task_ButtonPressed)'
      /\ InRun /\ InRun' /\ UNCHANGED <<clicked, edges>>
  BY DEF TestClicked, InTask, Running, Stays, InRun
<1>3. CASE b \in clicked
  <2>1. RecordPress /\ CheckAgain(CheckPeriod) /\ NextButton
    BY <1>3 DEF TestClicked
  <2>2. /\ canSleep' = FALSE
        /\ Task_ButtonPressed \in isRunOnce' /\ Task_ButtonPressed \notin isDisabled'
    BY <2>1 DEF CheckAgain, SetTaskOnceRun
  <2>3. /\ b' \in Buttons /\ step' \in {"clicked", "clear"}
        /\ \A x \in Buttons : Passed(x)' <=> Passed(x) \/ x = b
    BY <1>1, <1>2, <2>1, NextButtonPasses DEF LocalsInv
  <2>4. b \in Buttons /\ ~Passed(b)
    BY <1>1, <1>2, ButtonAssumption DEF LocalsInv, Passed, Buttons
  <2>5. b \in edges
    BY <1>1, <1>3, <2>4 DEF EdgesInv
  <2>6. pressedButtons' = pressedButtons \cup {b}
    BY <2>1 DEF RecordPress
  <2>7. LocalsInv'
    <3>1. /\ pressTime' \in [Buttons -> Nat]
          /\ reported' \in [Buttons -> ReleaseTypes \cup {"None", "Continuous"}]
      BY <1>1, <2>1 DEF LocalsInv, RecordPress
    <3> QED
      BY <1>1, <1>2, <2>2, <2>3, <2>6, <3>1 DEF LocalsInv, Steps
  <2>8. CheckInv'
    BY <2>2 DEF CheckInv
  <2>9. EdgesInv'
    BY <1>1, <1>2, <2>3, <2>5, <2>6 DEF EdgesInv, LocalsInv
  <2>10. ContinuousInv'
    BY <1>1, <2>1, <2>4 DEF ContinuousInv, LocalsInv, RecordPress
  <2> QED
    BY <2>7, <2>8, <2>9, <2>10 DEF IInv
<1>4. CASE b \notin clicked /\ b \in pressedButtons
  <2>1. /\ step' = "pressed"
        /\ UNCHANGED <<b, canSleep, pressedButtons, pressTime, reported, isRunOnce, isDisabled>>
    BY <1>4 DEF TestClicked, fields
  <2>2. LocalsInv' /\ CheckInv' /\ EdgesInv' /\ ContinuousInv'
    BY <1>1, <1>2, <1>4, <2>1 DEF LocalsInv, Steps, CheckInv, EdgesInv, ContinuousInv, Passed
  <2> QED
    BY <2>2 DEF IInv
<1>5. CASE b \notin clicked /\ b \notin pressedButtons
  <2>1. /\ NextButton
        /\ UNCHANGED <<canSleep, pressedButtons, pressTime, reported, isRunOnce, isDisabled>>
    BY <1>5 DEF TestClicked, fields
  <2>2. /\ b' \in Buttons /\ step' \in {"clicked", "clear"}
        /\ \A x \in Buttons : Passed(x)' <=> Passed(x) \/ x = b
    BY <1>1, <1>2, <2>1, NextButtonPasses DEF LocalsInv
  <2>3. LocalsInv'
    BY <1>1, <1>2, <2>1, <2>2 DEF LocalsInv, Steps
  <2>4. CheckInv' /\ EdgesInv'
    BY <1>1, <1>2, <1>5, <2>1, <2>2 DEF LocalsInv, CheckInv, EdgesInv
  <2>5. ContinuousInv'
    BY <1>1, <2>1 DEF ContinuousInv
  <2> QED
    BY <2>3, <2>4, <2>5 DEF IInv
<1> QED
  BY <1>3, <1>4, <1>5

\* The test of the pin: held on, or released and reported.
LEMMA TestPressedIInv == ASSUME IInv, TestPressed PROVE IInv'
<1>1. LocalsInv /\ CheckInv /\ EdgesInv /\ ContinuousInv
  BY DEF IInv
<1>2. /\ Running(Task_ButtonPressed) /\ step = "pressed" /\ Running(Task_ButtonPressed)'
      /\ InRun /\ InRun' /\ NextButton /\ UNCHANGED <<clicked, pressTime>>
  BY DEF TestPressed, InTask, Running, Stays, InRun
<1>3. b \in pressedButtons /\ b \in Buttons
  BY <1>1, <1>2 DEF LocalsInv
<1>4. /\ b' \in Buttons /\ step' \in {"clicked", "clear"}
      /\ \A x \in Buttons : Passed(x)' <=> Passed(x) \/ x = b
  BY <1>2, <1>3, NextButtonPasses
<1>5. CASE b \in pin
  <2>1. StillHeld
    BY <1>5 DEF TestPressed
  <2>2. /\ canSleep' = FALSE
        /\ Task_ButtonPressed \in isRunOnce' /\ Task_ButtonPressed \notin isDisabled'
    BY <2>1 DEF StillHeld, CheckAgain, SetTaskOnceRun
  <2>3. /\ UNCHANGED <<pressedButtons, edges>>
        /\ \/ reported' = reported
           \/ pressTime[b] > ContinuousLimit /\ reported' = [reported EXCEPT ![b] = "Continuous"]
    BY <2>1 DEF StillHeld
  <2>4. LocalsInv'
    BY <1>1, <1>2, <1>4, <2>2, <2>3 DEF LocalsInv, Steps
  <2>5. CheckInv' /\ EdgesInv'
    BY <1>1, <1>2, <1>4, <2>2, <2>3 DEF LocalsInv, CheckInv, EdgesInv
  <2>6. ContinuousInv'
    BY <1>1, <1>2, <1>3, <2>3 DEF ContinuousInv, LocalsInv
  <2> QED
    BY <2>4, <2>5, <2>6 DEF IInv
<1>6. CASE b \notin pin
  <2>1. /\ pressedButtons' = pressedButtons \ {b} /\ edges' = edges \ {b}
        /\ reported' = [reported EXCEPT ![b] = ReleaseType]
        /\ UNCHANGED <<canSleep, isRunOnce, isDisabled>>
    BY <1>6 DEF TestPressed, ReportRelease, fields
  <2>2. ReleaseType \in ReleaseTypes
    BY DEF ReleaseType, ReleaseTypes
  <2>3. LocalsInv'
    BY <1>1, <1>2, <1>4, <2>1, <2>2 DEF LocalsInv, Steps
  <2>4. CheckInv' /\ EdgesInv'
    BY <1>1, <1>2, <1>4, <2>1 DEF LocalsInv, CheckInv, EdgesInv
  <2>5. ContinuousInv'
    BY <1>1, <1>2, <2>1, <2>2 DEF ContinuousInv, LocalsInv, ReleaseTypes
  <2> QED
    BY <2>3, <2>4, <2>5 DEF IInv
<1> QED
  BY <1>5, <1>6

\* The end of the task: clear, sleep unless a press was seen, return.
LEMMA EndIInv == ASSUME IInv, ClearClicked \/ Sleep \/ Return PROVE IInv'
<1>1. LocalsInv /\ CheckInv /\ EdgesInv /\ ContinuousInv
  BY DEF IInv
<1>2. CASE ClearClicked
  <2>1. /\ InTask("clear") /\ clicked' = {} /\ step' = "sleep"
        /\ UNCHANGED <<pressedButtons, pressTime, b, canSleep, reported, edges>>
        /\ UNCHANGED <<isRunOnce, isDisabled, pc, i>>
    BY <1>2 DEF ClearClicked, vars, fields
  <2>2. LocalsInv' /\ CheckInv' /\ EdgesInv' /\ ContinuousInv'
    BY <1>1, <2>1 DEF InTask, LocalsInv, Steps, CheckInv, EdgesInv, ContinuousInv, Passed,
       Running, InRun
  <2> QED
    BY <2>2 DEF IInv
<1>3. CASE Sleep
  <2>1. /\ InTask("sleep") /\ step' = "return"
        /\ UNCHANGED <<clicked, pressedButtons, pressTime, b, canSleep, reported, edges>>
        /\ UNCHANGED <<isRunOnce, pc, i>>
        /\ isDisabled' = IF canSleep THEN isDisabled \cup {Task_ButtonPressed} ELSE isDisabled
    BY <1>3 DEF Sleep, DisableTask, fields, Stays
  <2>2. pressedButtons # {} => ~canSleep
    BY <1>1, <2>1 DEF CheckInv, InTask, Passed
  <2>3. LocalsInv' /\ EdgesInv' /\ ContinuousInv'
    BY <1>1, <2>1 DEF InTask, LocalsInv, Steps, EdgesInv, ContinuousInv, Running
  <2>4. InRun /\ InRun'
    BY <2>1 DEF InTask, Running, InRun
  <2>5. CheckInv'
    BY <1>1, <2>1, <2>2, <2>4 DEF CheckInv
  <2> QED
    BY <2>3, <2>5 DEF IInv
<1>4. CASE Return
  <2>1. /\ InTask("return") /\ step' = "clicked" /\ b' = 0 /\ canSleep' = TRUE
        /\ UNCHANGED <<clicked, pressedButtons, pressTime, reported, edges, isRunOnce, isDisabled>>
        /\ pc' \in {"check", "loop"}
    BY <1>4 DEF Return, RunTask_End, NextTask
  <2>2. pressedButtons # {} => Task_ButtonPressed \in isRunOnce /\ Task_ButtonPressed \notin isDisabled
    BY <1>1, <2>1 DEF CheckInv, InTask, Passed
  <2>3. 0 \in Buttons /\ \A x \in Buttons : ~(x < 0)
    BY ButtonAssumption DEF Buttons
  <2>4. LocalsInv'
    BY <1>1, <2>1, <2>3 DEF LocalsInv, Steps
  <2>5. EdgesInv' /\ ContinuousInv'
    BY <1>1, <2>1 DEF InTask, EdgesInv, ContinuousInv
  <2>6. CheckInv'
    BY <1>1, <2>1, <2>2, <2>3 DEF LocalsInv, CheckInv, Passed
  <2> QED
    BY <2>4, <2>5, <2>6 DEF IInv
<1> QED
  BY <1>2, <1>3, <1>4

LEMMA StutterIInv == ASSUME IInv, UNCHANGED allVars PROVE IInv'
<1>1. /\ UNCHANGED <<clicked, pressedButtons, pressTime, step, b, canSleep, reported, edges>>
      /\ UNCHANGED <<isRunOnce, isDisabled, pc, i>>
  BY DEF allVars, vars, fields, buttonVars
<1> QED
  BY <1>1 DEF IInv, LocalsInv, CheckInv, EdgesInv, ContinuousInv, Passed, Running, InRun

LEMMA NextIInv == IInv /\ [Next]_allVars => IInv'
  BY SchedulerIInv, OtherTaskIInv, OutsideIInv, TestClickedIInv, TestPressedIInv, EndIInv,
     StutterIInv DEF Next, MainLoop, Task_ProcessButtonPressed

\* The inductive invariant holds in every reachable state.
THEOREM Invariance == Spec => []IInv
  BY InitIInv, NextIInv, PTL DEF Spec

\* A recorded press never waits on a task that sleeps, though RunTask disables
\* the task at every run and any button may be the last to decide.
THEOREM PressIsChecked == Spec => []PressedIsChecked
<1>1. IInv => PressedIsChecked
  BY DEF IInv, CheckInv, PressedIsChecked
<1> QED
  BY <1>1, Invariance, PTL

\* What a step may change of the report of a button.
LEMMA ReportStep ==
    ASSUME IInv, Next, NEW x \in Buttons, reported'[x] # reported[x]
    PROVE  \/ reported'[x] \in {"None", "Continuous"} /\ (reported'[x] = "None" => x \notin pressedButtons)
           \/ reported'[x] = ReleaseType /\ x = b /\ x \in pressedButtons
<1>1. LocalsInv /\ CheckInv /\ EdgesInv /\ ContinuousInv
  BY DEF IInv
<1>2. TestClicked \/ TestPressed
  BY DEF Next, MainLoop, Task_ProcessButtonPressed, ClearClicked, Sleep, Return, OtherTask,
     buttonVars, SysTick, Press, Release
<1>3. CASE TestClicked
  <2>1. RecordPress
    BY <1>3 DEF TestClicked
  <2> QED
    BY <1>1, <2>1 DEF RecordPress, LocalsInv
<1>4. CASE TestPressed
  <2>1. b \in pressedButtons
    BY <1>1, <1>4 DEF TestPressed, InTask, LocalsInv
  <2>2. CASE b \in pin
    <3>1. StillHeld
      BY <1>4, <2>2 DEF TestPressed
    <3> QED
      BY <1>1, <3>1 DEF StillHeld, LocalsInv
  <2>3. CASE b \notin pin
    <3>1. reported' = [reported EXCEPT ![b] = ReleaseType]
      BY <1>4, <2>3 DEF TestPressed, ReportRelease
    <3> QED
      BY <1>1, <2>1, <3>1 DEF LocalsInv
  <2> QED
    BY <2>2, <2>3
<1> QED
  BY <1>2, <1>3, <1>4

\* No edge is reported as released twice, although the interrupt sets the bits
\* the task tests one by one and clears all at once.
THEOREM EdgeReportedOnce == Spec => ReportedOnce
<1>1. ASSUME IInv, Next, NEW x \in Buttons, reported'[x] # reported[x], reported'[x] \in ReleaseTypes
      PROVE  x \in edges
  <2>1. x \in pressedButtons
    BY <1>1, ReportStep DEF ReleaseTypes
  <2> QED
    BY <1>1, <2>1 DEF IInv, EdgesInv
<1>2. ASSUME UNCHANGED allVars PROVE reported' = reported
  BY <1>2 DEF allVars, buttonVars
<1>3. IInv /\ [Next]_allVars =>
         [\A x \in Buttons :
             reported'[x] # reported[x] /\ reported'[x] \in ReleaseTypes => x \in edges]_allVars
  BY <1>1, <1>2
<1> QED
  BY <1>3, Invariance, PTL DEF Spec, ReportedOnce

\* A press reported as continuous is not reported as short or long afterwards.
THEOREM ContinuousStaysSo == Spec => ContinuousEndsSo
<1>1. ASSUME IInv, Next, NEW x \in Buttons, reported[x] = "Continuous"
      PROVE  reported'[x] \notin {"Short", "Long"}
  <2>1. x \in pressedButtons /\ pressTime[x] > ContinuousLimit
    BY <1>1 DEF IInv, ContinuousInv
  <2>2. pressTime[x] \in Nat
    BY <1>1 DEF IInv, LocalsInv
  <2>3. x = b => ReleaseType = "ReleasedContinuous"
    BY <2>1, <2>2, ButtonAssumption DEF ReleaseType
  <2> QED
    BY <1>1, <2>3, ReportStep
<1>2. ASSUME UNCHANGED allVars PROVE reported' = reported
  BY <1>2 DEF allVars, buttonVars
<1>3. IInv /\ [Next]_allVars =>
         [\A x \in Buttons :
             reported[x] = "Continuous" => reported'[x] \notin {"Short", "Long"}]_allVars
  BY <1>1, <1>2
<1> QED
  BY <1>3, Invariance, PTL DEF Spec, ContinuousEndsSo
=============================================================================
