--------------------------- MODULE CarSystemProof ---------------------------
(***************************************************************************)
(* The car and its remote control, for every rate of the timeout, every    *)
(* speed of the main loop, every step and limit of the motor and every     *)
(* order of commands, losses and ticks: no value wraps, the motor is never *)
(* reversed in motion, a car that hears nothing stands still in time, and  *)
(* one whose remote is heard is not stopped.                               *)
(***************************************************************************)
EXTENDS CarSystem, TLAPS

-----------------------------------------------------------------------------
(* Types: the motor's arithmetic.                                          *)

LEMMA Bounds ==
    /\ PercentMax \in 0 .. 255 /\ SlideMax + SpeedChange <= PercentMax /\ DcMax <= PercentMax
    /\ AngleMax \in Nat /\ MechanicalMax + ServoChange <= AngleMax /\ TurnMax <= AngleMax
    /\ AngleMax + ServoChange <= 127
<1>1. /\ MechanicalMax \in Nat /\ ServoChange \in Nat /\ SpeedChange \in 1 .. 100
      /\ SlideMax \in 0 .. 100 /\ DcMax \in 0 .. 99 /\ TurnMax \in 0 .. 90
      /\ MechanicalMax + 2 * ServoChange <= 127 /\ TurnMax + ServoChange <= 127
  BY MotorAssumption, RemoteAssumption, TimingAssumption, SMTT(20)
<1> QED
  BY <1>1 DEF PercentMax, AngleMax, Greatest

ControlStates == [dir : Dirs, dcPercent : 0 .. PercentMax, angle : -AngleMax .. AngleMax]
ActualStates == [dir : Dirs, dcPercent : 0 .. PercentMax,
                 angle : -(AngleMax + ServoChange) .. AngleMax + ServoChange]

\* The unsigned and signed bytes do not wrap.
LEMMA MotorInvType == MotorInv => MotorTypeOK
<1> SUFFICES ASSUME MotorInv PROVE MotorTypeOK
  OBVIOUS
<1>1. PercentMax \in 0 .. 255 /\ AngleMax \in Nat /\ ServoChange \in Nat /\ AngleMax + ServoChange <= 127
  BY Bounds, MotorAssumption
<1>2. /\ control.dir \in Dirs /\ control.dcPercent \in 0 .. 255 /\ control.angle \in -128 .. 127
  BY <1>1 DEF MotorInv
<1>3. /\ actual.dir \in Dirs /\ actual.dcPercent \in 0 .. 255 /\ actual.angle \in -128 .. 127
  BY <1>1 DEF MotorInv
<1> QED
  BY <1>2, <1>3 DEF MotorInv, MotorTypeOK

\* What a command and the timeout set.
LEMMA CommandStates ==
    ASSUME NEW state \in ControlStates
    PROVE  /\ Stopped(state) \in ControlStates
           /\ \A d \in -DcMax .. DcMax, a \in -TurnMax .. TurnMax :
                 WithAngle(WithDc(state, d), a) \in ControlStates
<1>1. Stopped(state) \in ControlStates
  BY Bounds DEF Stopped, ControlStates, Dirs
<1>2. ASSUME NEW d \in -DcMax .. DcMax, NEW a \in -TurnMax .. TurnMax
      PROVE  WithAngle(WithDc(state, d), a) \in ControlStates
  <2>1. DcMax \in Nat /\ TurnMax \in Nat
    BY RemoteAssumption, SMTT(20)
  <2>2. (IF d >= 0 THEN d ELSE -d) \in 0 .. PercentMax /\ a \in -AngleMax .. AngleMax
    BY <2>1, Bounds
  <2>3. (IF d > 0 THEN "Forward" ELSE IF d < 0 THEN "Backward" ELSE "Stop") \in Dirs
    BY DEF Dirs
  <2> QED
    BY <2>2, <2>3 DEF WithAngle, WithDc, ControlStates
<1> QED
  BY <1>1, <1>2

\* The slide's steps stay within one step of its limits.
LEMMA SlideSteps ==
    ASSUME NEW a \in -AngleMax .. AngleMax, NEW p \in 0 .. PercentMax
    PROVE  SlideAngle(a) \in -AngleMax .. AngleMax /\ SlideSpeed(p) \in 0 .. PercentMax
<1>1. ServoChange \in Nat /\ MechanicalMax \in Nat /\ SpeedChange \in Nat /\ SlideMax \in Nat
  BY MotorAssumption
<1>2. SlideAngle(a) \in -AngleMax .. AngleMax
  BY <1>1, Bounds DEF SlideAngle
<1>3. SlideSpeed(p) \in 0 .. PercentMax
  BY <1>1, Bounds DEF SlideSpeed
<1> QED
  BY <1>2, <1>3

\* The outputs follow the control state: the speed at once, as every difference
\* counts as small, and the servo past what is wanted by less than one step.
LEMMA SpeedFollows ==
    ASSUME NEW from \in Int, NEW to \in Int PROVE SpeedStep(from, to) = to
<1>1. from - to < SpeedChange \/ to - from < SpeedChange
  BY MotorAssumption
<1> QED
  BY <1>1 DEF SpeedStep, IsSmall

LEMMA ServoFollows ==
    ASSUME NEW from \in -(AngleMax + ServoChange) .. AngleMax + ServoChange,
           NEW to \in -AngleMax .. AngleMax
    PROVE  ServoStep(from, to) \in -(AngleMax + ServoChange) .. AngleMax + ServoChange
<1>1. ServoChange \in Nat /\ AngleMax \in Nat /\ ServoChange <= AngleMax
  BY MotorAssumption, Bounds
<1> QED
  BY <1>1 DEF ServoStep

LEMMA OutputStates ==
    ASSUME NEW state \in ActualStates, NEW wanted \in ControlStates
    PROVE  [DcStep(state, wanted) EXCEPT !.angle = ServoStep(@, wanted.angle)] \in ActualStates
<1>1. /\ state.dcPercent \in 0 .. PercentMax /\ wanted.dcPercent \in 0 .. PercentMax
      /\ state.angle \in -(AngleMax + ServoChange) .. AngleMax + ServoChange
      /\ wanted.angle \in -AngleMax .. AngleMax
      /\ wanted.dir \in Dirs
  BY DEF ActualStates, ControlStates
<1>2. /\ SpeedStep(state.dcPercent, wanted.dcPercent) \in 0 .. PercentMax
      /\ 0 \in 0 .. PercentMax
  BY <1>1, SpeedFollows, Bounds
<1>3. ServoStep(state.angle, wanted.angle) \in -(AngleMax + ServoChange) .. AngleMax + ServoChange
  BY <1>1, ServoFollows
<1>4. DcStep(state, wanted) \in ActualStates /\ DcStep(state, wanted).angle = state.angle
  BY <1>1, <1>2 DEF DcStep, ActualStates
<1> QED
  BY <1>3, <1>4 DEF ActualStates

LEMMA MotorParts ==
    MotorInv <=> /\ control \in ControlStates /\ actual \in ActualStates
                 /\ slide \in BOOLEAN /\ angleDir \in 0 .. 1 /\ dcDir \in 0 .. 1
  BY DEF MotorInv, ControlStates, ActualStates

LEMMA MotorStateMachineTypes == ASSUME MotorInv, Motor_StateMachine PROVE MotorInv'
<1>1. /\ control \in ControlStates /\ actual \in ActualStates
      /\ slide \in BOOLEAN /\ angleDir \in 0 .. 1 /\ dcDir \in 0 .. 1
  BY MotorParts
<1>2. control' \in ControlStates /\ angleDir' \in 0 .. 1 /\ dcDir' \in 0 .. 1
  <2>1. CASE slide
    <3>1. Slide
      BY <2>1 DEF Motor_StateMachine
    <3>2. /\ SlideAngle(control.angle) \in -AngleMax .. AngleMax
          /\ SlideSpeed(control.dcPercent) \in 0 .. PercentMax
      BY <1>1, SlideSteps DEF ControlStates
    <3>3. 1 - angleDir \in 0 .. 1 /\ 1 - dcDir \in 0 .. 1
      BY <1>1
    <3> QED
      BY <1>1, <3>1, <3>2, <3>3 DEF Slide, ControlStates, Dirs
  <2>2. CASE ~slide
    BY <1>1, <2>2 DEF Motor_StateMachine
  <2> QED
    BY <2>1, <2>2
<1>3. actual' \in ActualStates
  BY <1>1, <1>2, OutputStates DEF Motor_StateMachine
<1>4. slide' \in BOOLEAN
  BY <1>1 DEF Motor_StateMachine
<1> QED
  BY <1>2, <1>3, <1>4 DEF MotorInv, ControlStates, ActualStates
-----------------------------------------------------------------------------
(* Types: the scheduler, the remote and the link.                          *)

LinkTypeOK ==
    /\ link \in Seq(Messages) /\ inbox \in Seq(Messages) /\ delay \in 0 .. MaxDelay
    /\ inputs \in 0 .. MaxInputs /\ lost \in 0 .. MaxLosses
    /\ silence \in {Nothing} \cup 0 .. StopBound + 1

LEMMA TypeParts == TypeOK /\ MotorInv /\ RemoteTypeOK /\ LinkTypeOK => TypeInv
  BY MotorInvType DEF TypeInv, CarTypeOK, LinkTypeOK

LEMMA TypePartsPrime == (TypeOK /\ MotorInv /\ RemoteTypeOK /\ LinkTypeOK)' => TypeInv'
  BY TypeParts, PTL

LEMMA TypeInvParts == TypeInv => TypeOK /\ MotorInv /\ RemoteTypeOK /\ LinkTypeOK
  BY DEF TypeInv, CarTypeOK, LinkTypeOK

LEMMA BoundIsNat == StopBound \in Nat /\ TimeoutRate \in Nat \ {0} /\ MaxElapsed \in Nat \ {0}
<1>1. Task_MotorTimeout \in Tasks
  BY CarAssumption
<1>2. InitRate[Task_MotorTimeout] \in Nat \ {0}
  BY <1>1, ListAssumption, TasksAssumption
<1> QED
  BY <1>2, CarAssumption DEF StopBound, TimeoutRate

LEMMA InitTypes == SystemInit => TypeInv
<1> SUFFICES ASSUME SystemInit PROVE TypeOK /\ MotorInv /\ RemoteTypeOK /\ LinkTypeOK
  BY TypeParts
<1>1. TypeOK
  BY TasksAssumption, ListAssumption, CarAssumption DEF SystemInit, Init, TypeOK, Tasks, PCs, Sources
<1>2. MotorInv
  <2>1. 0 \in 0 .. PercentMax /\ 0 \in -AngleMax .. AngleMax
        /\ 0 \in -(AngleMax + ServoChange) .. AngleMax + ServoChange
    BY Bounds, MotorAssumption
  <2>2. "Unknown" \in Dirs
    BY DEF Dirs
  <2>3. /\ control \in ControlStates /\ actual \in ActualStates
    BY <2>1, <2>2 DEF SystemInit, MotorInit, ControlStates, ActualStates
  <2>4. slide \in BOOLEAN /\ angleDir = 0 /\ dcDir = 0
    BY DEF SystemInit, MotorInit
  <2>5. angleDir \in 0 .. 1 /\ dcDir \in 0 .. 1
    BY <2>4
  <2> QED
    BY <2>3, <2>4, <2>5, MotorParts
<1>3. RemoteTypeOK
  <2>1. 0 \in -DcMax .. DcMax /\ 0 \in -TurnMax .. TurnMax /\ 0 \in 0 .. SendPeriod
    BY RemoteAssumption, SMTT(20)
  <2> QED
    BY <2>1 DEF SystemInit, RemoteInit, RemoteTypeOK
<1>4. LinkTypeOK
  BY CarAssumption DEF SystemInit, RemoteInit, LinkTypeOK
<1> QED
  BY <1>1, <1>2, <1>3, <1>4

LEMMA NextTaskType ==
    ASSUME i \in Tasks, NextTask PROVE i' \in Tasks /\ pc' \in PCs
  BY TasksAssumption DEF NextTask, Tasks, PCs

LEMMA SchedulerTypes == ASSUME TypeOK, Scheduler \/ RunTask_ClearRequest PROVE TypeOK'
<1>1. CASE StartPass
  <2>1. \A t \in Tasks : (tick[t] + elapsed) % TickModulus \in 0 .. TickModulus - 1
    BY TasksAssumption DEF TypeOK
  <2>2. tick' \in [Tasks -> 0 .. TickModulus - 1]
    BY <1>1, <2>1 DEF StartPass
  <2>3. i' \in Tasks /\ pc' \in PCs /\ elapsed' \in Nat
    BY <1>1, TasksAssumption DEF StartPass, PCs, Tasks
  <2> QED
    BY <1>1, <2>2, <2>3 DEF StartPass, TypeOK
<1>2. CASE CheckTask
  <2>1. i' \in Tasks /\ pc' \in PCs
    BY <1>2, NextTaskType DEF CheckTask, TypeOK, PCs
  <2>2. source' \in Sources
    BY <1>2 DEF CheckTask, TypeOK, DueSource, Sources
  <2> QED
    BY <1>2, <2>1, <2>2 DEF CheckTask, fields, TypeOK
<1>3. CASE RunTask_ClearOnce
  BY <1>3 DEF RunTask_ClearOnce, TypeOK, PCs
<1>4. CASE RunTask_ClearRequest
  BY <1>4 DEF RunTask_ClearRequest, TypeOK, PCs
<1> QED
  BY <1>1, <1>2, <1>3, <1>4 DEF Scheduler

LEMMA ReturnTypes == ASSUME TypeOK, RunTask_End PROVE TypeOK'
<1>1. i' \in Tasks /\ pc' \in PCs
  BY NextTaskType DEF RunTask_End, TypeOK
<1>2. 0 \in 0 .. TickModulus - 1
  BY TasksAssumption
<1> QED
  BY <1>1, <1>2 DEF RunTask_End, TypeOK, Sources

\* A request from the interrupt changes no number and no place.
LEMMA RequestTypes ==
    ASSUME TypeOK, NEW t \in Tasks, RequestTaskScheduling(t), Stays
    PROVE  TypeOK'
  BY DEF RequestTaskScheduling, Stays, TypeOK

\* The remote's limits hold whichever button is pressed.
LEMMA ButtonTypes ==
    ASSUME RemoteTypeOK, Right \/ Left \/ Up \/ Down
    PROVE  /\ backForward' \in {"Stop", "Fordward", "Back"} /\ turning' \in {"Straight", "Left", "Right"}
           /\ dc' \in -DcMax .. DcMax /\ turn' \in -TurnMax .. TurnMax
<1>1. /\ DcMax \in Nat /\ DcStandard \in 0 .. DcMax /\ DcIncrement \in Nat
      /\ TurnMax \in Nat /\ TurnIncrement \in 0 .. TurnMax
  BY RemoteAssumption, SMTT(20)
<1>2. /\ dc \in -DcMax .. DcMax /\ turn \in -TurnMax .. TurnMax
      /\ backForward \in {"Stop", "Fordward", "Back"} /\ turning \in {"Straight", "Left", "Right"}
  BY DEF RemoteTypeOK
<1>3. /\ Greatest(turn - TurnIncrement, -TurnMax) \in -TurnMax .. TurnMax
      /\ Least(turn + TurnIncrement, TurnMax) \in -TurnMax .. TurnMax
      /\ TurnIncrement \in -TurnMax .. TurnMax /\ 0 \in -TurnMax .. TurnMax
  BY <1>1, <1>2 DEF Greatest, Least
<1>4. /\ Greatest(dc - DcIncrement, -DcMax) \in -DcMax .. DcMax
      /\ Least(dc + DcIncrement, DcMax) \in -DcMax .. DcMax
      /\ DcStandard \in -DcMax .. DcMax /\ -DcStandard \in -DcMax .. DcMax /\ 0 \in -DcMax .. DcMax
  BY <1>1, <1>2 DEF Greatest, Least
<1>5. CASE Right
  BY <1>2, <1>3, <1>5 DEF Right
<1>6. CASE Left
  BY <1>2, <1>3, <1>6 DEF Left
<1>7. CASE Up
  BY <1>2, <1>4, <1>7 DEF Up
<1>8. CASE Down
  BY <1>2, <1>4, <1>8 DEF Down
<1> QED
  BY <1>5, <1>6, <1>7, <1>8

\* What is sent is within the remote's limits.
LEMMA SentTypes ==
    ASSUME link \in Seq(Messages), NEW d \in -DcMax .. DcMax, NEW a \in -TurnMax .. TurnMax
    PROVE  Append(link, DriveMessage(d, a)) \in Seq(Messages)
<1>1. DriveMessage(d, a) \in Messages
  BY DEF DriveMessage, Messages
<1> QED
  BY <1>1

LEMMA RemoteTypes == ASSUME TypeInv, Remote PROVE TypeInv'
<1>1. TypeOK /\ MotorInv /\ RemoteTypeOK /\ LinkTypeOK
  BY TypeInvParts
<1>2. UNCHANGED <<carVars, inbox, delay, lost, silence>>
  BY DEF Remote
<1>3. TypeOK' /\ MotorInv'
  BY <1>1, <1>2 DEF carVars, vars, fields, motorVars, TypeOK, MotorInv
<1>4. SendPeriod \in Nat
  BY RemoteAssumption, SMTT(20)
<1>5. /\ backForward' \in {"Stop", "Fordward", "Back"} /\ turning' \in {"Straight", "Left", "Right"}
      /\ dc' \in -DcMax .. DcMax /\ turn' \in -TurnMax .. TurnMax
  BY <1>1, ButtonTypes DEF Remote, Task_RemoteControllerSending, Logic_RemoteController_Button, RemoteTypeOK
<1>6. link' \in Seq(Messages)
  <2>1. Append(link, DriveMessage(dc', turn')) \in Seq(Messages)
    BY <1>1, <1>5, SentTypes DEF LinkTypeOK
  <2> QED
    BY <1>1, <2>1 DEF Remote, Task_RemoteControllerSending, Logic_RemoteController_Button, SendMessage, LinkTypeOK
<1>7. sendTick' \in 0 .. SendPeriod
  BY <1>1, <1>4 DEF Remote, Task_RemoteControllerSending, Logic_RemoteController_Button, SendMessage, RemoteTypeOK
<1>8. inputs' \in 0 .. MaxInputs
  BY <1>1, CarAssumption DEF Remote, LinkTypeOK
<1> QED
  BY <1>1, <1>2, <1>3, <1>5, <1>6, <1>7, <1>8, TypePartsPrime DEF RemoteTypeOK, LinkTypeOK

\* Time and the link.
LEMMA LinkTypes ==
    ASSUME TypeInv, Tick \/ Deliver \/ Lose \/ \E on \in SlideCommands : Operator(on)
    PROVE  TypeInv'
<1>1. TypeOK /\ MotorInv /\ RemoteTypeOK /\ LinkTypeOK
  BY TypeInvParts
<1>2. MotorInv'
  BY <1>1 DEF Tick, Deliver, Lose, Operator, carVars, motorVars, MotorInv
<1>3. CASE Tick
  <2>1. TypeOK'
    BY <1>1, <1>3 DEF Tick, fields, TypeOK
  <2>2. RemoteTypeOK'
    BY <1>1, <1>3, RemoteAssumption, SMTT(20) DEF Tick, RemoteTypeOK
  <2>3. delay' \in 0 .. MaxDelay
    BY <1>1, <1>3, CarAssumption DEF Tick, LinkTypeOK
  <2>4. silence' \in {Nothing} \cup 0 .. StopBound + 1
    BY <1>1, <1>3, BoundIsNat DEF Tick, LinkTypeOK, Nothing
  <2> QED
    BY <1>1, <1>2, <1>3, <2>1, <2>2, <2>3, <2>4, TypePartsPrime DEF Tick, LinkTypeOK
<1>4. CASE Deliver
  <2>1. TypeOK'
    BY <1>1, <1>4, RequestTypes, CarAssumption DEF Deliver
  <2>2. RemoteTypeOK'
    BY <1>1, <1>4 DEF Deliver, remoteVars, RemoteTypeOK
  <2>3. link' \in Seq(Messages) /\ inbox' \in Seq(Messages)
    BY <1>1, <1>4 DEF Deliver, LinkTypeOK
  <2>4. delay' \in 0 .. MaxDelay
    BY <1>4, CarAssumption DEF Deliver
  <2> QED
    BY <1>1, <1>2, <1>4, <2>1, <2>2, <2>3, <2>4, TypePartsPrime DEF Deliver, LinkTypeOK
<1>5. CASE Lose
  <2>1. TypeOK' /\ RemoteTypeOK'
    BY <1>1, <1>5 DEF Lose, carVars, vars, fields, remoteVars, TypeOK, RemoteTypeOK
  <2>2. link' \in Seq(Messages)
    BY <1>1, <1>5 DEF Lose, LinkTypeOK
  <2>3. delay' \in 0 .. MaxDelay /\ lost' \in 0 .. MaxLosses
    BY <1>1, <1>5, CarAssumption DEF Lose, LinkTypeOK
  <2> QED
    BY <1>1, <1>2, <1>5, <2>1, <2>2, <2>3, TypePartsPrime DEF Lose, LinkTypeOK
<1>6. CASE \E on \in SlideCommands : Operator(on)
  <2>1. PICK on \in BOOLEAN : Operator(on)
    BY <1>6, CarAssumption
  <2>2. TypeOK' /\ RemoteTypeOK'
    BY <1>1, <2>1 DEF Operator, carVars, vars, fields, remoteVars, TypeOK, RemoteTypeOK
  <2>3. link' \in Seq(Messages)
    <3>1. [kind |-> "slide", on |-> on] \in Messages
      BY DEF Messages
    <3> QED
      BY <1>1, <2>1, <3>1 DEF Operator, LinkTypeOK
  <2>4. inputs' \in 0 .. MaxInputs
    BY <1>1, <2>1, CarAssumption DEF Operator, LinkTypeOK
  <2> QED
    BY <1>1, <1>2, <2>1, <2>2, <2>3, <2>4, TypePartsPrime DEF Operator, LinkTypeOK
<1> QED
  BY <1>3, <1>4, <1>5, <1>6

\* The car's own tasks.
LEMMA CarTypes == ASSUME TypeInv, Car PROVE TypeInv'
<1>1. TypeOK /\ MotorInv /\ RemoteTypeOK /\ LinkTypeOK
  BY TypeInvParts
<1>2. RemoteTypeOK'
  BY <1>1 DEF Car, Task_Motor, Task_MotorConnStop, Task_ProcessDebugUartCommandReceived,
     remoteVars, RemoteTypeOK
<1>3. /\ control \in ControlStates /\ actual \in ActualStates
      /\ slide \in BOOLEAN /\ angleDir \in 0 .. 1 /\ dcDir \in 0 .. 1
  BY <1>1, MotorParts
<1>4. CASE (Scheduler \/ RunTask_ClearRequest) /\ UNCHANGED <<motorVars, remoteVars, linkVars>>
  <2>1. TypeOK'
    BY <1>1, <1>4, SchedulerTypes
  <2>2. MotorInv' /\ LinkTypeOK'
    BY <1>1, <1>4 DEF motorVars, linkVars, MotorInv, LinkTypeOK
  <2> QED
    BY <1>2, <2>1, <2>2, TypePartsPrime
<1>5. CASE Task_Motor
  <2>1. TypeOK' /\ MotorInv'
    BY <1>1, <1>5, ReturnTypes, MotorStateMachineTypes DEF Task_Motor
  <2>2. LinkTypeOK'
    BY <1>1, <1>5 DEF Task_Motor, linkVars, LinkTypeOK
  <2> QED
    BY <1>2, <2>1, <2>2, TypePartsPrime
<1>6. CASE Task_MotorConnStop
  <2>1. TypeOK'
    BY <1>1, <1>6, ReturnTypes DEF Task_MotorConnStop
  <2>2. Stopped(control) \in ControlStates
    BY <1>3, CommandStates
  <2>3. MotorInv'
    BY <1>1, <1>3, <1>6, <2>2 DEF Task_MotorConnStop, Motor_ControlStop, MotorInv, ControlStates
  <2>4. LinkTypeOK'
    BY <1>1, <1>6 DEF Task_MotorConnStop, linkVars, LinkTypeOK
  <2> QED
    BY <1>2, <2>1, <2>3, <2>4, TypePartsPrime
<1>7. CASE Task_ProcessDebugUartCommandReceived /\ inbox = <<>>
  <2>1. TypeOK'
    BY <1>1, <1>7, ReturnTypes DEF Task_ProcessDebugUartCommandReceived
  <2>2. MotorInv' /\ LinkTypeOK'
    BY <1>1, <1>7 DEF Task_ProcessDebugUartCommandReceived, motorVars, MotorInv, LinkTypeOK
  <2> QED
    BY <1>2, <2>1, <2>2, TypePartsPrime
<1>8. CASE Task_ProcessDebugUartCommandReceived /\ inbox # <<>>
  <2>1. /\ Head(inbox) \in Messages /\ Tail(inbox) \in Seq(Messages)
    BY <1>1, <1>8 DEF LinkTypeOK
  <2>2. /\ IF Head(inbox).kind = "drive" THEN Drive(Head(inbox)) ELSE SlideCommand(Head(inbox))
        /\ inbox' = Tail(inbox)
        /\ source' = "Unknown" /\ NextTask
        /\ UNCHANGED <<taskScheduleRate, isRequestScheduling, isRunOnce, elapsed>>
        /\ UNCHANGED <<link, delay, inputs, lost>>
    BY <1>8 DEF Task_ProcessDebugUartCommandReceived
  <2>3. i' \in Tasks /\ pc' \in PCs
    BY <1>1, <2>2, NextTaskType DEF TypeOK
  <2>4. /\ tick' \in [Tasks -> 0 .. TickModulus - 1] /\ isDisabled' \subseteq Tasks
        /\ silence' = 0
    <3>1. 0 \in 0 .. TickModulus - 1
      BY TasksAssumption
    <3> QED
      BY <1>1, <2>2, <3>1 DEF Drive, SlideCommand, TypeOK
  <2>5. TypeOK'
    BY <1>1, <2>2, <2>3, <2>4 DEF TypeOK, Sources
  <2>6. silence' \in {Nothing} \cup 0 .. StopBound + 1
    BY <2>4, BoundIsNat
  <2>7. LinkTypeOK'
    BY <1>1, <2>1, <2>2, <2>6 DEF LinkTypeOK
  <2>8. CASE Head(inbox).kind = "drive"
    <3>1. Head(inbox).dc \in -DcMax .. DcMax /\ Head(inbox).angle \in -TurnMax .. TurnMax
      BY <2>1, <2>8 DEF Messages
    <3>2. WithAngle(WithDc(control, Head(inbox).dc), Head(inbox).angle) \in ControlStates
      BY <1>3, <3>1, CommandStates
    <3>3. MotorInv'
      BY <1>1, <2>2, <2>8, <3>2 DEF Drive, MotorInv, ControlStates
    <3> QED
      BY <1>2, <2>5, <2>7, <3>3, TypePartsPrime
  <2>9. CASE Head(inbox).kind # "drive"
    <3>1. Head(inbox).on \in BOOLEAN
      BY <2>1, <2>9 DEF Messages
    <3>2. Stopped(control) \in ControlStates
      BY <1>3, CommandStates
    <3>3. control' \in ControlStates /\ UNCHANGED <<actual, angleDir, dcDir>> /\ slide' = Head(inbox).on
      BY <1>3, <2>2, <2>9, <3>2 DEF SlideCommand
    <3>4. slide' \in BOOLEAN
      BY <3>1, <3>3
    <3>5. MotorInv'
      BY <1>1, <3>3, <3>4 DEF MotorInv, ControlStates
    <3> QED
      BY <1>2, <2>5, <2>7, <3>5, TypePartsPrime
  <2> QED
    BY <2>8, <2>9
<1> QED
  BY <1>4, <1>5, <1>6, <1>7, <1>8 DEF Car

LEMMA StutterTypes == ASSUME TypeInv, UNCHANGED systemVars PROVE TypeInv'
<1>1. TypeOK /\ MotorInv /\ RemoteTypeOK /\ LinkTypeOK
  BY TypeInvParts
<1>2. TypeOK' /\ MotorInv' /\ RemoteTypeOK' /\ LinkTypeOK'
  BY <1>1 DEF systemVars, carVars, vars, fields, motorVars, remoteVars, linkVars,
     TypeOK, MotorInv, RemoteTypeOK, LinkTypeOK
<1> QED
  BY <1>2, TypePartsPrime

LEMMA NextTypes == TypeInv /\ [SystemNext]_systemVars => TypeInv'
  BY LinkTypes, RemoteTypes, CarTypes, StutterTypes DEF SystemNext

\* No sequence of commands, slides and steps makes a percent or an angle wrap.
THEOREM TypeInvariance == Spec => []TypeInv
  BY InitTypes, NextTypes, PTL DEF Spec

\* The types of the car, the remote and the link, for all constants.
THEOREM CarTypeCorrect == Spec => []CarTypeOK
<1>1. TypeInv => CarTypeOK
  BY DEF TypeInv
<1> QED
  BY <1>1, TypeInvariance, PTL

\* Only the motor task changes the outputs, and it stops the motor before it
\* changes its direction.
THEOREM NeverReverses == Spec => NeverReversesAtOnce
<1>1. ASSUME TypeInv, SystemNext, actual'.dcPercent > 0 PROVE actual'.dir = actual.dir
  <2>1. CASE Task_Motor
    <3>1. /\ actual' = [DcStep(actual, control') EXCEPT !.angle = ServoStep(@, control'.angle)]
      BY <2>1 DEF Task_Motor, Motor_StateMachine
    <3>2. actual \in ActualStates
      BY <1>1, MotorParts DEF TypeInv
    <3>3. DcStep(actual, control').dcPercent = actual'.dcPercent /\ DcStep(actual, control').dir = actual'.dir
      BY <3>1, <3>2 DEF DcStep, ActualStates
    <3>4. CASE actual.dir # control'.dir
      <4>1. DcStep(actual, control').dcPercent = 0
        BY <3>2, <3>4 DEF DcStep, ActualStates
      <4> QED
        BY <1>1, <3>3, <4>1
    <3>5. CASE actual.dir = control'.dir
      <4>1. DcStep(actual, control').dir = actual.dir
        BY <3>2, <3>5 DEF DcStep, ActualStates
      <4> QED
        BY <3>3, <4>1
    <3> QED
      BY <3>4, <3>5
  <2>2. CASE ~Task_Motor
    <3>1. actual' = actual
      BY <1>1, <2>2 DEF SystemNext, Tick, Deliver, Lose, Remote, Operator, Car, Task_MotorConnStop,
         Motor_ControlStop, Task_ProcessDebugUartCommandReceived, Drive, SlideCommand, carVars, motorVars
    <3> QED
      BY <3>1
  <2> QED
    BY <2>1, <2>2
<1>2. ASSUME UNCHANGED systemVars PROVE actual' = actual
  BY <1>2 DEF systemVars, carVars, motorVars
<1>3. TypeInv /\ [SystemNext]_systemVars =>
         [actual.dcPercent > 0 /\ actual'.dcPercent > 0 => actual'.dir = actual.dir]_systemVars
  BY <1>1, <1>2
<1> QED
  BY <1>3, TypeInvariance, PTL DEF Spec, NeverReversesAtOnce
-----------------------------------------------------------------------------
(* The scheduler: who is due, and how far the ticks go.                    *)

LEMMA Distinct ==
    /\ Task_MotorControl \in Tasks /\ Task_MotorTimeout \in Tasks /\ Task_DebugUartProcess \in Tasks
    /\ Task_MotorControl # Task_MotorTimeout
    /\ Task_DebugUartProcess # Task_MotorControl /\ Task_DebugUartProcess # Task_MotorTimeout
  BY CarAssumption, TimingAssumption

\* Moving on, the pass has finished one task and has still the later ones ahead.
LEMMA NextTaskAhead ==
    ASSUME i \in Tasks, pc # "loop", NextTask, NEW t \in Tasks
    PROVE  /\ pc' \in {"check", "loop"}
           /\ Ahead(t)' <=> Ahead(t) /\ i # t
<1>1. i \in Nat /\ t \in Nat /\ t <= TasksNum /\ TasksNum \in Nat
  BY TasksAssumption DEF Tasks
<1>2. CASE i < TasksNum
  <2>1. i' = i + 1 /\ pc' = "check"
    BY <1>2 DEF NextTask
  <2>2. i + 1 <= t <=> i <= t /\ i # t
    BY <1>1
  <2> QED
    BY <2>1, <2>2 DEF Ahead
<1>3. CASE ~(i < TasksNum)
  <2>1. pc' = "loop"
    BY <1>3 DEF NextTask
  <2>2. i <= t => i = t
    BY <1>1, <1>3
  <2> QED
    BY <2>1, <2>2 DEF Ahead
<1> QED
  BY <1>2, <1>3

\* A task that does not move on keeps its place.
LEMMA SamePlace ==
    ASSUME pc # "loop", pc' # "loop", i' = i, NEW t PROVE Ahead(t)' <=> Ahead(t)
  BY DEF Ahead

LEMMA InitSchedule == SystemInit => ScheduleInv
<1> SUFFICES ASSUME SystemInit PROVE ScheduleInv
  OBVIOUS
<1>1. tick[Task_MotorControl] = 0 /\ TimeoutTick = 0
  BY Distinct DEF SystemInit, Init, TimeoutTick
<1>2. /\ ~Ahead(Task_MotorControl) /\ ~Ahead(Task_MotorTimeout)
      /\ pc = "loop" /\ elapsed = 0
      /\ isRunOnce = {} /\ isDisabled = {} /\ taskScheduleRate = InitRate /\ isRequestScheduling = {}
  BY CarAssumption DEF SystemInit, Init, Ahead
<1> QED
  BY <1>1, <1>2, BoundIsNat DEF ScheduleInv

\* A new pass adds the elapsed time to the ticks, which do not wrap.
LEMMA PassAdds ==
    ASSUME TypeInv, ScheduleInv, StartPass
    PROVE  /\ elapsed \in 1 .. MaxElapsed /\ elapsed' = 0 /\ pc = "loop" /\ pc' = "check"
           /\ TimeoutTick' = TimeoutTick + elapsed /\ TimeoutTick \in Nat
           /\ TimeoutTick < TimeoutRate
           /\ tick'[Task_MotorControl] = elapsed
           /\ \A t \in Tasks : ~Ahead(t) /\ Ahead(t)'
<1>1. TypeOK
  BY TypeInvParts
<1>2. /\ pc = "loop" /\ pc' = "check" /\ i' = 1 /\ elapsed' = 0 /\ elapsed # 0
      /\ tick' = [t \in Tasks |-> (tick[t] + elapsed) % TickModulus]
  BY DEF StartPass
<1>3. elapsed \in 1 .. MaxElapsed
  BY <1>1, <1>2, BoundIsNat DEF TypeOK, ScheduleInv
<1>4. \A t \in Tasks : ~Ahead(t) /\ Ahead(t)'
  BY <1>2, TasksAssumption DEF Ahead, Tasks
<1>5. /\ tick[Task_MotorControl] = 0 /\ TimeoutTick < TimeoutRate
      /\ TimeoutTick \in Nat
  BY <1>1, <1>4, Distinct, TasksAssumption DEF ScheduleInv, TimeoutTick, TypeOK
<1>6. TimeoutRate + MaxElapsed <= TickModulus /\ TickModulus \in Nat /\ TimeoutRate \in Nat \ {0}
  BY TimingAssumption, TasksAssumption, BoundIsNat DEF TimeoutRate
<1>7. \A n \in 0 .. TickModulus - 1 : n % TickModulus = n
  BY <1>6
<1>8. TimeoutTick + elapsed \in 0 .. TickModulus - 1 /\ 0 + elapsed \in 0 .. TickModulus - 1
  BY <1>3, <1>5, <1>6, BoundIsNat
<1>9. /\ TimeoutTick' = (TimeoutTick + elapsed) % TickModulus
      /\ tick'[Task_MotorControl] = (0 + elapsed) % TickModulus
  BY <1>2, <1>5, Distinct DEF TimeoutTick
<1>10. TimeoutTick' = TimeoutTick + elapsed /\ tick'[Task_MotorControl] = 0 + elapsed
  BY <1>7, <1>8, <1>9
<1>11. tick'[Task_MotorControl] = elapsed
  BY <1>3, <1>10, BoundIsNat
<1> QED
  BY <1>2, <1>3, <1>4, <1>5, <1>10, <1>11

\* The check runs the motor task whenever it comes to it, and the timeout task
\* when its time has passed.
LEMMA CheckRuns ==
    ASSUME TypeInv, ScheduleInv, CheckTask
    PROVE  /\ pc = "check" /\ UNCHANGED <<fields, elapsed>>
           /\ \/ pc' = "clearOnce" /\ i' = i /\ (i = Task_MotorTimeout => TimeoutTick >= TimeoutRate)
              \/ NextTask /\ i # Task_MotorControl /\ (i = Task_MotorTimeout => TimeoutTick < TimeoutRate)
<1>1. TypeOK
  BY TypeInvParts
<1>2. pc = "check" /\ UNCHANGED <<fields, elapsed>>
  BY DEF CheckTask
<1>3. i \notin isDisabled /\ i \notin isRunOnce
  BY DEF ScheduleInv
<1>4. CASE i = Task_MotorControl
  <2>1. tick[i] >= 1
    BY <1>2, <1>4, Distinct, BoundIsNat, TasksAssumption DEF ScheduleInv, Ahead, Tasks
  <2>2. Due(i)
    BY <1>4, <2>1, TimingAssumption DEF Due, ScheduleInv
  <2>3. DueSource(i) = "PeriodicSchedule"
    BY <1>4, <2>2, CarAssumption, Distinct DEF DueSource
  <2> QED
    BY <1>2, <1>3, <1>4, <2>3, Distinct DEF CheckTask
<1>5. CASE i = Task_MotorTimeout
  <2>1. Due(i) <=> TimeoutTick >= TimeoutRate
    BY <1>5 DEF Due, ScheduleInv, TimeoutTick, TimeoutRate
  <2>2. i \notin isRequestScheduling /\ i \notin PeriodicDisabled
    BY <1>5, CarAssumption, Distinct DEF ScheduleInv
  <2>3. DueSource(i) = IF Due(i) THEN "PeriodicSchedule" ELSE "Unknown"
    BY <1>3, <2>2 DEF DueSource
  <2>4. TimeoutTick \in Nat /\ TimeoutRate \in Nat
    BY <1>1, Distinct, TasksAssumption, BoundIsNat DEF TypeOK, TimeoutTick
  <2> QED
    BY <1>2, <1>3, <1>5, <2>1, <2>3, <2>4, Distinct DEF CheckTask
<1>6. CASE i # Task_MotorControl /\ i # Task_MotorTimeout
  BY <1>2, <1>6 DEF CheckTask
<1> QED
  BY <1>4, <1>5, <1>6

\* The end of a run, whatever the task did to the ticks of others.
LEMMA RunEnds ==
    ASSUME TypeInv, ScheduleInv, pc = "run", NextTask,
           tick'[i] = 0,
           i # Task_MotorControl => tick'[Task_MotorControl] = tick[Task_MotorControl],
           i # Task_MotorTimeout => TimeoutTick' \in {TimeoutTick, 0},
           isRunOnce' = {}, isDisabled' = {}, taskScheduleRate' = taskScheduleRate,
           isRequestScheduling' = isRequestScheduling, elapsed' = elapsed
    PROVE  ScheduleInv'
<1>1. TypeOK
  BY TypeInvParts
<1>2. /\ pc' \in {"check", "loop"}
      /\ Ahead(Task_MotorControl)' <=> Ahead(Task_MotorControl) /\ i # Task_MotorControl
      /\ Ahead(Task_MotorTimeout)' <=> Ahead(Task_MotorTimeout) /\ i # Task_MotorTimeout
  BY <1>1, NextTaskAhead, Distinct DEF TypeOK
<1>3. elapsed = 0 /\ TimeoutRate \in Nat \ {0} /\ MaxElapsed \in Nat
  BY BoundIsNat DEF ScheduleInv
<1>4. /\ Ahead(Task_MotorControl)' => tick'[Task_MotorControl] \in 1 .. MaxElapsed
      /\ ~Ahead(Task_MotorControl)' => tick'[Task_MotorControl] = 0
  BY <1>2 DEF ScheduleInv
<1>5. i = Task_MotorTimeout => TimeoutTick' = 0
  BY DEF TimeoutTick
<1>6. /\ Ahead(Task_MotorTimeout)' => TimeoutTick' < TimeoutRate + MaxElapsed
      /\ ~Ahead(Task_MotorTimeout)' => TimeoutTick' < TimeoutRate
  <2>1. CASE TimeoutTick' = 0
    BY <1>3, <2>1
  <2>2. CASE TimeoutTick' # 0
    BY <1>2, <1>5, <2>2 DEF ScheduleInv
  <2> QED
    BY <2>1, <2>2
<1> QED
  BY <1>2, <1>3, <1>4, <1>6 DEF ScheduleInv, TimeoutRate

LEMMA CarSchedule == ASSUME TypeInv, ScheduleInv, Car PROVE ScheduleInv'
<1>1. TypeOK
  BY TypeInvParts
<1>2. CASE StartPass
  <2>1. /\ isRunOnce' = {} /\ isDisabled' = {} /\ taskScheduleRate' = InitRate
        /\ isRequestScheduling' \subseteq {Task_DebugUartProcess}
    BY <1>2 DEF StartPass, ScheduleInv
  <2>2. /\ Ahead(Task_MotorControl)' /\ Ahead(Task_MotorTimeout)'
        /\ tick'[Task_MotorControl] \in 1 .. MaxElapsed
        /\ TimeoutTick' < TimeoutRate + MaxElapsed
    BY <1>2, PassAdds, Distinct, BoundIsNat
  <2>3. elapsed' <= MaxElapsed /\ elapsed' = 0 /\ pc' = "check"
    BY <1>2, PassAdds, BoundIsNat
  <2> QED
    BY <2>1, <2>2, <2>3 DEF ScheduleInv, TimeoutRate
<1>3. CASE CheckTask
  <2>1. /\ pc = "check" /\ UNCHANGED <<fields, elapsed>>
        /\ \/ pc' = "clearOnce" /\ i' = i /\ (i = Task_MotorTimeout => TimeoutTick >= TimeoutRate)
           \/ NextTask /\ i # Task_MotorControl /\ (i = Task_MotorTimeout => TimeoutTick < TimeoutRate)
    BY <1>3, CheckRuns
  <2>2. UNCHANGED <<tick, isRunOnce, isDisabled, taskScheduleRate, isRequestScheduling, elapsed, TimeoutTick>>
    BY <2>1 DEF fields, TimeoutTick
  <2>3. CASE pc' = "clearOnce" /\ i' = i /\ (i = Task_MotorTimeout => TimeoutTick >= TimeoutRate)
    <3>1. /\ Ahead(Task_MotorControl)' <=> Ahead(Task_MotorControl)
          /\ Ahead(Task_MotorTimeout)' <=> Ahead(Task_MotorTimeout)
      BY <2>1, <2>3, SamePlace
    <3> QED
      BY <2>1, <2>2, <2>3, <3>1 DEF ScheduleInv, TimeoutRate
  <2>4. CASE NextTask /\ i # Task_MotorControl /\ (i = Task_MotorTimeout => TimeoutTick < TimeoutRate)
    <3>1. /\ pc' \in {"check", "loop"}
          /\ Ahead(Task_MotorControl)' <=> Ahead(Task_MotorControl)
          /\ Ahead(Task_MotorTimeout)' <=> Ahead(Task_MotorTimeout) /\ i # Task_MotorTimeout
      BY <1>1, <2>1, <2>4, NextTaskAhead, Distinct DEF TypeOK
    <3> QED
      BY <2>1, <2>2, <2>4, <3>1 DEF ScheduleInv, TimeoutRate
  <2> QED
    BY <2>1, <2>3, <2>4
<1>4. CASE RunTask_ClearOnce \/ RunTask_ClearRequest
  <2>1. /\ pc \in {"clearOnce", "clearRequest"} /\ pc' \in {"clearRequest", "run"} /\ i' = i
        /\ UNCHANGED <<tick, isRunOnce, isDisabled, taskScheduleRate, elapsed, TimeoutTick>>
        /\ isRequestScheduling' \subseteq isRequestScheduling
    BY <1>4 DEF RunTask_ClearOnce, RunTask_ClearRequest, ScheduleInv, TimeoutTick
  <2>2. /\ Ahead(Task_MotorControl)' <=> Ahead(Task_MotorControl)
        /\ Ahead(Task_MotorTimeout)' <=> Ahead(Task_MotorTimeout)
    BY <2>1, SamePlace
  <2> QED
    BY <2>1, <2>2 DEF ScheduleInv, TimeoutRate
<1>5. CASE Task_Motor \/ Task_MotorConnStop \/ (Task_ProcessDebugUartCommandReceived /\ inbox = <<>>)
  <2>1. RunTask_End
    BY <1>5 DEF Task_Motor, Task_MotorConnStop, Task_ProcessDebugUartCommandReceived
  <2>2. /\ tick'[i] = 0
        /\ i # Task_MotorControl => tick'[Task_MotorControl] = tick[Task_MotorControl]
        /\ i # Task_MotorTimeout => TimeoutTick' = TimeoutTick
    BY <1>1, <2>1, Distinct DEF RunTask_End, TypeOK, TimeoutTick
  <2>3. isRunOnce' = {} /\ isDisabled' = {}
    BY <2>1 DEF RunTask_End, ScheduleInv
  <2> QED
    BY <2>1, <2>2, <2>3, RunEnds DEF RunTask_End
<1>6. CASE Task_ProcessDebugUartCommandReceived /\ inbox # <<>>
  <2>1. /\ i = Task_DebugUartProcess /\ pc = "run" /\ NextTask
        /\ UNCHANGED <<taskScheduleRate, isRequestScheduling, isRunOnce, elapsed>>
        /\ \/ tick' = [tick EXCEPT ![i] = 0, ![Task_MotorTimeout] = 0] /\ isDisabled' \subseteq isDisabled
           \/ tick' = [tick EXCEPT ![i] = 0] /\ isDisabled' = isDisabled
    BY <1>6 DEF Task_ProcessDebugUartCommandReceived, Running, Drive, SlideCommand
  <2>2. /\ tick'[i] = 0
        /\ tick'[Task_MotorControl] = tick[Task_MotorControl]
        /\ TimeoutTick' \in {TimeoutTick, 0}
    BY <1>1, <2>1, Distinct DEF TypeOK, TimeoutTick
  <2>3. isRunOnce' = {} /\ isDisabled' = {}
    BY <2>1 DEF ScheduleInv
  <2> QED
    BY <2>1, <2>2, <2>3, RunEnds
<1> QED
  BY <1>2, <1>3, <1>4, <1>5, <1>6 DEF Car, Scheduler

LEMMA NextSchedule == TypeInv /\ ScheduleInv /\ [SystemNext]_systemVars => ScheduleInv'
<1> SUFFICES ASSUME TypeInv, ScheduleInv, [SystemNext]_systemVars PROVE ScheduleInv'
  OBVIOUS
<1>1. CASE Tick
  <2>1. /\ pc = "loop" /\ elapsed < MaxElapsed /\ elapsed' = elapsed + 1
        /\ UNCHANGED <<pc, i, tick, isRunOnce, isDisabled, taskScheduleRate, isRequestScheduling>>
    BY <1>1 DEF Tick, fields
  <2>2. elapsed \in Nat
    BY TypeInvParts DEF TypeOK
  <2>3. elapsed' <= MaxElapsed
    BY <2>1, <2>2, BoundIsNat
  <2> QED
    BY <2>1, <2>3 DEF ScheduleInv, Ahead, TimeoutTick, TimeoutRate
<1>2. CASE Deliver
  <2>1. /\ UNCHANGED <<pc, i, tick, isRunOnce, taskScheduleRate, elapsed>>
        /\ isDisabled' \subseteq isDisabled
        /\ isRequestScheduling' = isRequestScheduling \cup {Task_DebugUartProcess}
    BY <1>2 DEF Deliver, RequestTaskScheduling, Stays
  <2> QED
    BY <2>1 DEF ScheduleInv, Ahead, TimeoutTick, TimeoutRate
<1>3. CASE Lose \/ Remote \/ (\E on \in SlideCommands : Operator(on)) \/ UNCHANGED systemVars
  <2>1. UNCHANGED <<pc, i, tick, isRunOnce, isDisabled, taskScheduleRate, isRequestScheduling, elapsed>>
    BY <1>3 DEF Lose, Remote, Operator, systemVars, carVars, vars, fields
  <2> QED
    BY <2>1 DEF ScheduleInv, Ahead, TimeoutTick, TimeoutRate
<1> QED
  BY <1>1, <1>2, <1>3, CarSchedule DEF SystemNext

\* The motor task runs in every pass and the timeout is run when it is due.
THEOREM ScheduleInvariance == Spec => []ScheduleInv
  BY TypeInvariance, InitSchedule, NextSchedule, PTL DEF Spec
-----------------------------------------------------------------------------
(* A car that hears nothing stands still.                                  *)

\* The numbers the invariants compare.
LEMMA Numbers ==
    ASSUME TypeInv
    PROVE  /\ TimeoutTick \in Nat /\ elapsed \in Nat /\ silence \in Int /\ silence >= -1
           /\ sendTick \in Nat /\ sendTick <= SendPeriod /\ SendPeriod \in Nat
           /\ delay \in Nat /\ delay <= MaxDelay /\ MaxDelay \in Nat
           /\ i \in Tasks /\ lost \in Nat
<1>1. TypeOK /\ RemoteTypeOK /\ LinkTypeOK
  BY TypeInvParts
<1>2. TimeoutTick \in Nat /\ elapsed \in Nat /\ i \in Tasks
  BY <1>1, Distinct, TasksAssumption DEF TypeOK, TimeoutTick
<1>3. silence \in Int /\ silence >= -1
  BY <1>1, BoundIsNat DEF LinkTypeOK, Nothing
<1>4. SendPeriod \in Nat
  BY RemoteAssumption, SMTT(20)
<1>5. sendTick \in Nat /\ sendTick <= SendPeriod
  BY <1>1, <1>4 DEF RemoteTypeOK
<1>6. delay \in Nat /\ delay <= MaxDelay /\ MaxDelay \in Nat /\ lost \in Nat
  BY <1>1, CarAssumption DEF LinkTypeOK
<1> QED
  BY <1>2, <1>3, <1>4, <1>5, <1>6

\* After a run of the motor task the motor runs only if the control state has it
\* run: a change of direction stops it, and otherwise the speed is the wanted one.
LEMMA OutputsFollow ==
    ASSUME TypeInv, Motor_StateMachine, ~slide, actual'.dcPercent # 0
    PROVE  control.dcPercent # 0 /\ control' = control
<1>1. actual \in ActualStates /\ control \in ControlStates /\ control' = control
  BY MotorParts DEF TypeInv, Motor_StateMachine
<1>2. DcStep(actual, control).dcPercent = actual'.dcPercent
  BY <1>1 DEF Motor_StateMachine, DcStep, ActualStates
<1>3. SpeedStep(actual.dcPercent, control.dcPercent) = control.dcPercent
  BY <1>1, SpeedFollows, Bounds DEF ActualStates, ControlStates
<1>4. DcStep(actual, control).dcPercent \in {0, control.dcPercent}
  BY <1>1, <1>3 DEF DcStep, ActualStates
<1> QED
  BY <1>1, <1>2, <1>4

LEMMA InitSilence == SystemInit => SilenceInv
  BY DEF SystemInit, MotorInit, SilenceInv

\* What the car does about its own silence.
LEMMA CarSilence ==
    ASSUME TypeInv, ScheduleInv, SilenceInv, Car
    PROVE  SilenceInv'
<1>1. /\ TimeoutTick \in Nat /\ elapsed \in Nat /\ silence \in Int /\ i \in Tasks
      /\ TimeoutRate \in Nat \ {0} /\ MaxElapsed \in Nat
  BY Numbers, BoundIsNat
<1>2. CASE StartPass /\ UNCHANGED <<motorVars, linkVars>>
  <2>1. /\ elapsed <= MaxElapsed /\ TimeoutTick' = TimeoutTick + elapsed /\ elapsed' = 0
        /\ ~Ahead(Task_MotorControl) /\ Ahead(Task_MotorControl)'
    BY <1>1, <1>2, PassAdds, Distinct
  <2>2. UNCHANGED <<slide, control, actual, silence>>
    BY <1>2 DEF motorVars, linkVars
  <2>3. CASE ~slide
    <3>1. control.dcPercent # 0 => silence <= TimeoutTick + elapsed + 0
      BY <1>1, <2>3 DEF SilenceInv
    <3>2. actual.dcPercent # 0 => silence < TimeoutRate + MaxElapsed + 0 + MaxElapsed
      BY <1>1, <2>1, <2>3 DEF SilenceInv
    <3> QED
      BY <2>1, <2>2, <3>1, <3>2 DEF SilenceInv, TimeoutRate
  <2> QED
    BY <2>2, <2>3 DEF SilenceInv
<1>3. CASE (CheckTask \/ RunTask_ClearOnce \/ RunTask_ClearRequest) /\ UNCHANGED <<motorVars, linkVars>>
  <2>1. UNCHANGED <<slide, control, actual, silence, TimeoutTick, elapsed>>
    BY <1>3 DEF CheckTask, RunTask_ClearOnce, RunTask_ClearRequest, fields, motorVars, linkVars, TimeoutTick
  <2>2. Ahead(Task_MotorControl)' <=> Ahead(Task_MotorControl)
    <3>1. CASE CheckTask
      BY <1>1, <3>1, CheckRuns, NextTaskAhead, SamePlace, Distinct
    <3>2. CASE RunTask_ClearOnce \/ RunTask_ClearRequest
      BY <3>2 DEF RunTask_ClearOnce, RunTask_ClearRequest, Ahead
    <3> QED
      BY <1>3, <3>1, <3>2
  <2> QED
    BY <2>1, <2>2 DEF SilenceInv, TimeoutRate
<1>4. CASE Task_Motor
  <2>1. /\ Motor_StateMachine /\ i = Task_MotorControl /\ pc = "run" /\ RunTask_End
        /\ UNCHANGED <<elapsed, silence>> /\ elapsed = 0 /\ slide' = slide
    BY <1>4 DEF Task_Motor, Running, RunTask_End, linkVars, ScheduleInv, Motor_StateMachine
  <2>2. TimeoutTick' = TimeoutTick
    BY <2>1, Distinct, TypeInvParts DEF RunTask_End, TimeoutTick, TypeOK
  <2>3. CASE ~slide
    <3>1. control' = control
      BY <2>1, <2>3 DEF Motor_StateMachine
    <3>2. control.dcPercent # 0 => silence <= TimeoutTick + elapsed
      BY <2>3 DEF SilenceInv
    <3>3. actual'.dcPercent # 0 => silence < TimeoutRate + MaxElapsed
      <4>1. SUFFICES ASSUME actual'.dcPercent # 0 PROVE silence < TimeoutRate + MaxElapsed
        OBVIOUS
      <4>2. silence <= TimeoutTick
        BY <1>1, <2>1, <2>3, <3>2, <4>1, OutputsFollow
      <4>3. TimeoutTick < TimeoutRate + MaxElapsed
        BY <1>1 DEF ScheduleInv
      <4> QED
        BY <1>1, <4>2, <4>3
    <3>4. actual'.dcPercent # 0 =>
             silence < TimeoutRate + MaxElapsed + elapsed
                       + (IF Ahead(Task_MotorControl)' THEN MaxElapsed ELSE 0)
      BY <1>1, <2>1, <3>3
    <3> QED
      BY <2>1, <2>2, <3>1, <3>2, <3>4 DEF SilenceInv, TimeoutRate
  <2> QED
    BY <2>1, <2>3 DEF SilenceInv
<1>5. CASE Task_MotorConnStop
  <2>1. /\ control' = Stopped(control) /\ UNCHANGED <<actual, slide, elapsed, silence>>
        /\ i = Task_MotorTimeout /\ pc = "run" /\ NextTask
    BY <1>5 DEF Task_MotorConnStop, Motor_ControlStop, Running, RunTask_End, linkVars
  <2>2. Ahead(Task_MotorControl)' <=> Ahead(Task_MotorControl)
    BY <1>1, <2>1, NextTaskAhead, Distinct
  <2>3. control'.dcPercent = 0
    BY <2>1 DEF Stopped
  <2> QED
    BY <2>1, <2>2, <2>3 DEF SilenceInv, TimeoutRate
<1>6. CASE Task_ProcessDebugUartCommandReceived /\ inbox = <<>>
  <2>1. /\ i = Task_DebugUartProcess /\ pc = "run" /\ RunTask_End
        /\ UNCHANGED <<slide, control, actual, silence, elapsed>>
    BY <1>6 DEF Task_ProcessDebugUartCommandReceived, Running, RunTask_End, motorVars
  <2>2. TimeoutTick' = TimeoutTick
    BY <2>1, Distinct, TypeInvParts DEF RunTask_End, TimeoutTick, TypeOK
  <2>3. Ahead(Task_MotorControl)' <=> Ahead(Task_MotorControl)
    BY <1>1, <2>1, NextTaskAhead, Distinct DEF RunTask_End
  <2> QED
    BY <2>1, <2>2, <2>3 DEF SilenceInv, TimeoutRate
<1>7. CASE Task_ProcessDebugUartCommandReceived /\ inbox # <<>>
  <2>1. /\ i = Task_DebugUartProcess /\ pc = "run"
        /\ silence' = 0 /\ elapsed' = elapsed /\ elapsed = 0
        /\ \/ tick' = [tick EXCEPT ![i] = 0, ![Task_MotorTimeout] = 0]
           \/ tick' = [tick EXCEPT ![i] = 0]
    BY <1>7 DEF Task_ProcessDebugUartCommandReceived, Running, Drive, SlideCommand, ScheduleInv
  <2>2. TimeoutTick' \in {TimeoutTick, 0}
    BY <2>1, Distinct, TypeInvParts DEF TypeOK, TimeoutTick
  <2>3. 0 <= TimeoutTick' + 0
    <3>1. 0 <= TimeoutTick + 0 /\ 0 <= 0 + 0
      BY <1>1
    <3>2. TimeoutTick' = TimeoutTick \/ TimeoutTick' = 0
      BY <2>2
    <3> QED
      BY <3>1, <3>2
  <2>4. 0 < TimeoutRate + MaxElapsed + 0 + (IF Ahead(Task_MotorControl)' THEN MaxElapsed ELSE 0)
    BY <1>1
  <2> QED
    BY <2>1, <2>3, <2>4 DEF SilenceInv, TimeoutRate
<1> QED
  BY <1>2, <1>3, <1>4, <1>5, <1>6, <1>7 DEF Car, Scheduler

LEMMA NextSilence == TypeInv /\ ScheduleInv /\ SilenceInv /\ [SystemNext]_systemVars => SilenceInv'
<1> SUFFICES ASSUME TypeInv, ScheduleInv, SilenceInv, [SystemNext]_systemVars PROVE SilenceInv'
  OBVIOUS
<1>1. CASE Tick
  <2>1. /\ UNCHANGED <<slide, control, actual, TimeoutTick, pc, i>> /\ elapsed' = elapsed + 1
        /\ silence' = silence \/ silence' = silence + 1
    BY <1>1 DEF Tick, fields, motorVars, TimeoutTick
  <2>2. Ahead(Task_MotorControl)' <=> Ahead(Task_MotorControl)
    BY <2>1 DEF Ahead
  <2>3. /\ TimeoutTick \in Nat /\ elapsed \in Nat /\ silence \in Int
        /\ TimeoutRate \in Nat /\ MaxElapsed \in Nat
    BY Numbers, BoundIsNat
  <2>4. CASE ~slide
    <3>1. control.dcPercent # 0 => silence' <= TimeoutTick + (elapsed + 1)
      BY <2>1, <2>3, <2>4 DEF SilenceInv
    <3>2. actual.dcPercent # 0 => silence' < TimeoutRate + MaxElapsed + (elapsed + 1)
                    + (IF Ahead(Task_MotorControl) THEN MaxElapsed ELSE 0)
      BY <2>1, <2>3, <2>4 DEF SilenceInv
    <3> QED
      BY <2>1, <2>2, <3>1, <3>2 DEF SilenceInv, TimeoutRate
  <2> QED
    BY <2>1, <2>4 DEF SilenceInv
<1>2. CASE Deliver \/ Lose \/ Remote \/ (\E on \in SlideCommands : Operator(on)) \/ UNCHANGED systemVars
  <2>1. UNCHANGED <<slide, control, actual, silence, TimeoutTick, elapsed, pc, i>>
    BY <1>2 DEF Deliver, RequestTaskScheduling, Stays, Lose, Remote, Operator, systemVars, carVars,
       linkVars, vars, fields, motorVars, TimeoutTick
  <2> QED
    BY <2>1 DEF SilenceInv, Ahead, TimeoutRate
<1> QED
  BY <1>1, <1>2, CarSilence DEF SystemNext

\* A car whose last command is older than the timeout and two turns of its main
\* loop stands still, unless it is in the slide test.
THEOREM CarStopsWhenSilent == Spec => []StopsWhenSilent
<1>1. ASSUME TypeInv, ScheduleInv, SilenceInv, silence > StopBound, ~slide
      PROVE  actual.dcPercent = 0
  <2>1. /\ elapsed \in Nat /\ silence \in Int /\ TimeoutRate \in Nat /\ MaxElapsed \in Nat
        /\ elapsed <= MaxElapsed /\ (pc # "loop" => elapsed = 0)
        /\ StopBound = TimeoutRate + 2 * MaxElapsed
    BY <1>1, Numbers, BoundIsNat DEF ScheduleInv, StopBound, TimeoutRate
  <2>2. pc = "loop" => ~Ahead(Task_MotorControl)
    BY DEF Ahead
  <2>3. TimeoutRate + MaxElapsed + elapsed + (IF Ahead(Task_MotorControl) THEN MaxElapsed ELSE 0)
           <= TimeoutRate + 2 * MaxElapsed
    BY <2>1, <2>2
  <2> QED
    BY <1>1, <2>1, <2>3 DEF SilenceInv
<1>2. TypeInv /\ ScheduleInv /\ SilenceInv => StopsWhenSilent
  BY <1>1 DEF StopsWhenSilent
<1> QED
  BY <1>2, TypeInvariance, ScheduleInvariance, InitSilence, NextSilence, PTL DEF Spec
-----------------------------------------------------------------------------
(* A car whose remote is heard is not stopped.                             *)

\* The positions of the messages when one arrives and when one is sent.
LEMMA TailMoves ==
    ASSUME NEW q \in Seq(Messages), q # <<>>
    PROVE  /\ Head(q) = q[1] /\ Len(q) \in Nat \ {0} /\ Len(Tail(q)) = Len(q) - 1
           /\ \A p \in 1 .. Len(q) - 1 : Tail(q)[p] = q[p + 1]
  OBVIOUS

LEMMA AppendKeeps ==
    ASSUME NEW q \in Seq(Messages), NEW m \in Messages
    PROVE  /\ Len(Append(q, m)) = Len(q) + 1 /\ Len(q) \in Nat /\ Append(q, m)[Len(q) + 1] = m
           /\ \A p \in 1 .. Len(q) : Append(q, m)[p] = q[p]
  OBVIOUS

\* A slide command at the head of a queue hides no drive message.
LEMMA TailDrives ==
    ASSUME NEW q \in Seq(Messages), q # <<>>, ~IsDrive(Head(q))
    PROVE  HasDrive(Tail(q)) <=> HasDrive(q)
<1>1. ASSUME HasDrive(Tail(q)) PROVE HasDrive(q)
  <2>1. PICK p \in 1 .. Len(Tail(q)) : IsDrive(Tail(q)[p])
    BY <1>1 DEF HasDrive
  <2>2. p + 1 \in 1 .. Len(q) /\ q[p + 1] = Tail(q)[p]
    BY TailMoves
  <2> QED
    BY <2>1, <2>2 DEF HasDrive
<1>2. ASSUME HasDrive(q) PROVE HasDrive(Tail(q))
  <2>1. PICK p \in 1 .. Len(q) : IsDrive(q[p])
    BY <1>2 DEF HasDrive
  <2>2. p # 1
    BY <2>1, TailMoves
  <2>3. p - 1 \in 1 .. Len(Tail(q)) /\ Tail(q)[p - 1] = q[p]
    BY <2>2, TailMoves
  <2> QED
    BY <2>1, <2>3 DEF HasDrive
<1> QED
  BY <1>1, <1>2

LEMMA AppendDrives ==
    ASSUME NEW q \in Seq(Messages), NEW m \in Messages
    PROVE  HasDrive(Append(q, m)) <=> HasDrive(q) \/ IsDrive(m)
<1>1. ASSUME HasDrive(Append(q, m)), ~IsDrive(m) PROVE HasDrive(q)
  <2>1. PICK p \in 1 .. Len(Append(q, m)) : IsDrive(Append(q, m)[p])
    BY <1>1 DEF HasDrive
  <2>2. p # Len(q) + 1
    BY <1>1, <2>1, AppendKeeps
  <2>3. p \in 1 .. Len(q)
    BY <2>2, AppendKeeps
  <2> QED
    BY <2>1, <2>3, AppendKeeps DEF HasDrive
<1>2. ASSUME HasDrive(q) PROVE HasDrive(Append(q, m))
  <2>1. PICK p \in 1 .. Len(q) : IsDrive(q[p])
    BY <1>2 DEF HasDrive
  <2>2. p \in 1 .. Len(Append(q, m)) /\ Append(q, m)[p] = q[p]
    BY AppendKeeps
  <2> QED
    BY <2>1, <2>2 DEF HasDrive
<1>3. ASSUME IsDrive(m) PROVE HasDrive(Append(q, m))
  BY <1>3, AppendKeeps DEF HasDrive
<1> QED
  BY <1>1, <1>2, <1>3

\* Delays add up.
LEMMA DelayMonotone ==
    ASSUME NEW p \in Nat, NEW n \in Nat, NEW d \in Nat, p <= n PROVE p * d <= n * d
  OBVIOUS

LEMMA DelayStep == ASSUME NEW p \in Nat, NEW d \in Nat PROVE (p - 1) * d = p * d - d /\ p * d \in Nat
  OBVIOUS

\* Slide commands are sent over an idle link only.
SlidesAhead == \A p \in 1 .. Len(link) : ~IsDrive(link[p]) => p <= MaxLink + 1

\* A drive message is near, and not too late.
DriveNear(age) ==
    \E p \in 1 .. Len(link) :
        /\ IsDrive(link[p]) /\ p <= MaxLink + 2
        /\ age + p * MaxDelay - delay <= SendPeriod + LinkBound

InTime(age) == IF HasDrive(link) THEN DriveNear(age) ELSE age <= sendTick

LEMMA PeriodParts ==
    PeriodInv <=> SlidesAhead /\ (lost = 0 /\ ~HasDrive(inbox) => InTime(TimeoutTick + elapsed))
  BY DEF PeriodInv, SlidesAhead, InTime, DriveNear

\* The tick of the timeout has just been cleared.
LEMMA ClearedInTime == ASSUME TypeInv, SlidesAhead PROVE InTime(0)
<1>1. link \in Seq(Messages) /\ MaxLink \in Nat
  BY TypeInvParts, CarAssumption DEF LinkTypeOK
<1>2. CASE HasDrive(link)
  <2>1. PICK p \in 1 .. Len(link) : IsDrive(link[p]) /\ p <= MaxLink + 2
    <3>1. PICK p \in 1 .. Len(link) : IsDrive(link[p])
      BY <1>2 DEF HasDrive
    <3>2. CASE p <= MaxLink + 2
      BY <3>1, <3>2
    <3>3. CASE ~(p <= MaxLink + 2)
      <4>1. Len(link) \in Nat
        BY <1>1
      <4>2. MaxLink + 2 \in 1 .. Len(link) /\ ~(MaxLink + 2 <= MaxLink + 1)
        BY <1>1, <3>3, <4>1
      <4>3. IsDrive(link[MaxLink + 2])
        BY <4>2 DEF SlidesAhead
      <4> QED
        BY <1>1, <4>2, <4>3
    <3> QED
      BY <3>2, <3>3
  <2>2. p \in Nat /\ delay \in Nat /\ MaxDelay \in Nat /\ SendPeriod \in Nat
    BY <1>1, Numbers
  <2>3. p * MaxDelay <= (MaxLink + 2) * MaxDelay
    BY <1>1, <2>1, <2>2, DelayMonotone
  <2>4. p * MaxDelay \in Nat /\ (MaxLink + 2) * MaxDelay \in Nat
    BY <1>1, <2>2, DelayStep
  <2>5. 0 + p * MaxDelay - delay <= SendPeriod + LinkBound
    BY <2>2, <2>3, <2>4 DEF LinkBound
  <2> QED
    BY <1>2, <2>1, <2>5 DEF InTime, DriveNear
<1>3. CASE ~HasDrive(link)
  BY <1>3, Numbers DEF InTime
<1> QED
  BY <1>2, <1>3

LEMMA InitPeriod == SystemInit => PeriodInv
<1> SUFFICES ASSUME SystemInit PROVE PeriodInv
  OBVIOUS
<1>1. link = <<>> /\ Len(link) = 0 /\ sendTick = 0 /\ elapsed = 0 /\ TimeoutTick = 0
  BY Distinct DEF SystemInit, Init, RemoteInit, TimeoutTick
<1>2. ~HasDrive(link) /\ SlidesAhead
  BY <1>1 DEF HasDrive, SlidesAhead
<1> QED
  BY <1>1, <1>2, PeriodParts DEF InTime

LEMMA QueueTypes ==
    ASSUME TypeInv
    PROVE  link \in Seq(Messages) /\ inbox \in Seq(Messages) /\ Len(link) \in Nat /\ MaxLink \in Nat
  BY TypeInvParts, CarAssumption DEF LinkTypeOK

\* An empty queue holds no drive message.
LEMMA EmptyHasNone == HasDrive(<<>>) = FALSE
  BY DEF HasDrive

LEMMA TickPeriod == ASSUME TypeInv, PeriodInv, Tick PROVE PeriodInv'
<1>1. /\ UNCHANGED <<link, inbox, lost, TimeoutTick>>
      /\ elapsed' = elapsed + 1 /\ sendTick' = sendTick + 1
      /\ delay' = IF link = <<>> THEN 0 ELSE delay + 1
  BY DEF Tick, fields, TimeoutTick
<1>2. /\ TimeoutTick \in Nat /\ elapsed \in Nat /\ sendTick \in Nat /\ delay \in Nat
      /\ SendPeriod \in Nat /\ MaxDelay \in Nat /\ LinkBound \in Nat
  BY Numbers, QueueTypes, DelayStep DEF LinkBound
<1>3. SlidesAhead'
  BY <1>1, PeriodParts DEF SlidesAhead
<1>4. ASSUME lost = 0, ~HasDrive(inbox) PROVE InTime(TimeoutTick + elapsed)'
  <2>1. InTime(TimeoutTick + elapsed)
    BY <1>4, PeriodParts
  <2>2. CASE HasDrive(link)
    <3>1. delay' = delay + 1
      BY <1>1, <2>2, EmptyHasNone
    <3>2. PICK p \in 1 .. Len(link) :
             /\ IsDrive(link[p]) /\ p <= MaxLink + 2
             /\ TimeoutTick + elapsed + p * MaxDelay - delay <= SendPeriod + LinkBound
      BY <2>1, <2>2 DEF InTime, DriveNear
    <3>3. p * MaxDelay \in Nat
      BY <1>2, <3>2, DelayStep, QueueTypes
    <3>4. TimeoutTick + (elapsed + 1) + p * MaxDelay - (delay + 1) <= SendPeriod + LinkBound
      BY <1>2, <3>2, <3>3
    <3>5. TimeoutTick' + elapsed' + p * MaxDelay - delay' <= SendPeriod + LinkBound
      BY <1>1, <3>1, <3>4
    <3> QED
      BY <1>1, <2>2, <3>2, <3>5 DEF InTime, DriveNear, HasDrive, IsDrive, LinkBound
  <2>3. CASE ~HasDrive(link)
    <3>1. TimeoutTick + (elapsed + 1) <= sendTick + 1
      BY <1>2, <2>1, <2>3 DEF InTime
    <3> QED
      BY <1>1, <2>3, <3>1 DEF InTime, HasDrive, IsDrive
  <2> QED
    BY <2>2, <2>3
<1>5. (lost = 0 /\ ~HasDrive(inbox))' <=> lost = 0 /\ ~HasDrive(inbox)
  BY <1>1 DEF HasDrive, IsDrive
<1> QED
  BY <1>3, <1>4, <1>5, PeriodParts, PTL

\* A message leaves the link: what is behind it moves up.
LEMMA HeadLeaves ==
    ASSUME TypeInv, SlidesAhead, link # <<>>, link' = Tail(link) PROVE SlidesAhead'
<1>1. \A p \in 1 .. Len(Tail(link)) : p + 1 \in 1 .. Len(link) /\ Tail(link)[p] = link[p + 1]
  BY QueueTypes, TailMoves
<1>2. \A p \in 1 .. Len(Tail(link)) : ~IsDrive(Tail(link)[p]) => p <= MaxLink + 1
  <2>1. SUFFICES ASSUME NEW p \in 1 .. Len(Tail(link)), ~IsDrive(Tail(link)[p])
                 PROVE  p <= MaxLink + 1
    OBVIOUS
  <2>2. p + 1 <= MaxLink + 1
    BY <1>1, <2>1 DEF SlidesAhead
  <2> QED
    BY <2>2, QueueTypes
<1> QED
  BY <1>2 DEF SlidesAhead, IsDrive

\* The delay of the next message begins when the one before it has arrived.
LEMMA DeliverPeriod == ASSUME TypeInv, PeriodInv, Deliver PROVE PeriodInv'
<1>1. /\ link # <<>> /\ link' = Tail(link) /\ inbox' = Append(inbox, Head(link)) /\ delay' = 0
      /\ UNCHANGED <<lost, sendTick, TimeoutTick, elapsed>>
  BY DEF Deliver, RequestTaskScheduling, Stays, remoteVars, TimeoutTick
<1>2. /\ link \in Seq(Messages) /\ inbox \in Seq(Messages) /\ Head(link) \in Messages
      /\ Tail(link) \in Seq(Messages)
  BY <1>1, QueueTypes
<1>3. SlidesAhead'
  BY <1>1, HeadLeaves, PeriodParts
<1>4. ASSUME lost = 0, ~HasDrive(Append(inbox, Head(link))) PROVE InTime(TimeoutTick + elapsed)'
  <2>1. ~IsDrive(Head(link)) /\ ~HasDrive(inbox)
    BY <1>2, <1>4, AppendDrives
  <2>2. HasDrive(Tail(link)) <=> HasDrive(link)
    BY <1>1, <1>2, <2>1, TailDrives
  <2>3. InTime(TimeoutTick + elapsed)
    BY <1>4, <2>1, PeriodParts
  <2>4. CASE HasDrive(link)
    <3>1. PICK p \in 1 .. Len(link) :
             /\ IsDrive(link[p]) /\ p <= MaxLink + 2
             /\ TimeoutTick + elapsed + p * MaxDelay - delay <= SendPeriod + LinkBound
      BY <2>3, <2>4 DEF InTime, DriveNear
    <3>2. p # 1
      BY <1>1, <1>2, <2>1, <3>1, TailMoves
    <3>3. p - 1 \in 1 .. Len(Tail(link)) /\ Tail(link)[p - 1] = link[p] /\ p \in Nat
      BY <1>1, <1>2, <3>2, TailMoves
    <3>4. /\ TimeoutTick \in Nat /\ elapsed \in Nat /\ delay \in Nat /\ delay <= MaxDelay
          /\ MaxDelay \in Nat /\ MaxLink \in Nat /\ SendPeriod \in Nat /\ LinkBound \in Nat
      BY Numbers, QueueTypes, DelayStep DEF LinkBound
    <3>5. (p - 1) * MaxDelay = p * MaxDelay - MaxDelay /\ p * MaxDelay \in Nat
      BY <3>3, <3>4, DelayStep
    <3>6. p * MaxDelay - MaxDelay <= p * MaxDelay - delay
      BY <3>4, <3>5
    <3>7. TimeoutTick + elapsed + (p - 1) * MaxDelay - 0 <= SendPeriod + LinkBound
      BY <3>1, <3>4, <3>5, <3>6
    <3>8. p - 1 <= MaxLink + 2
      BY <3>1, <3>3, <3>4
    <3> QED
      BY <1>1, <2>2, <2>4, <3>1, <3>3, <3>7, <3>8 DEF InTime, DriveNear, HasDrive, IsDrive, LinkBound
  <2>5. CASE ~HasDrive(link)
    <3>1. TimeoutTick + elapsed <= sendTick
      BY <2>3, <2>5 DEF InTime
    <3>2. ~HasDrive(Tail(link))
      BY <1>1, <1>2, <2>1, <2>5, TailDrives
    <3> QED
      BY <1>1, <3>1, <3>2 DEF InTime, HasDrive, IsDrive
  <2> QED
    BY <2>4, <2>5
<1>5. (lost = 0 /\ ~HasDrive(inbox))' <=> lost = 0 /\ ~HasDrive(Append(inbox, Head(link)))
  BY <1>1 DEF HasDrive, IsDrive
<1> QED
  BY <1>3, <1>4, <1>5, PeriodParts, PTL

LEMMA LosePeriod == ASSUME TypeInv, PeriodInv, Lose PROVE PeriodInv'
<1>1. link # <<>> /\ link' = Tail(link) /\ lost' = lost + 1
  BY DEF Lose
<1>2. SlidesAhead'
  BY <1>1, HeadLeaves, PeriodParts
<1>3. ~(lost = 0 /\ ~HasDrive(inbox))'
  <2>1. lost' # 0
    BY <1>1, Numbers
  <2> QED
    BY <2>1
<1> QED
  BY <1>2, <1>3, PeriodParts, PTL

\* A message is put on the link: what is before it keeps its place.
LEMMA SentPeriod ==
    ASSUME TypeInv, PeriodInv, NEW m \in Messages, link' = Append(link, m),
           UNCHANGED <<inbox, delay, lost, elapsed, TimeoutTick>>,
           \/ IsDrive(m)
           \/ ~IsDrive(m) /\ Len(link) <= MaxLink /\ sendTick' = sendTick
    PROVE  PeriodInv'
<1>1. /\ Len(link') = Len(link) + 1 /\ Len(link) \in Nat /\ link'[Len(link) + 1] = m
      /\ \A p \in 1 .. Len(link) : link'[p] = link[p]
      /\ HasDrive(link') <=> HasDrive(link) \/ IsDrive(m)
  <2>1. link \in Seq(Messages)
    BY QueueTypes
  <2> QED
    BY <2>1, AppendKeeps, AppendDrives
<1>2. /\ TimeoutTick \in Nat /\ elapsed \in Nat /\ delay \in Nat /\ sendTick \in Nat
      /\ MaxDelay \in Nat /\ MaxLink \in Nat /\ SendPeriod \in Nat /\ sendTick <= SendPeriod
  BY Numbers, QueueTypes
<1>3. \A p \in 1 .. Len(link') : ~IsDrive(link'[p]) => p <= MaxLink + 1
  <2>1. SUFFICES ASSUME NEW p \in 1 .. Len(link'), ~IsDrive(link'[p]) PROVE p <= MaxLink + 1
    OBVIOUS
  <2>2. CASE p \in 1 .. Len(link)
    BY <1>1, <2>1, <2>2, PeriodParts DEF SlidesAhead
  <2>3. CASE p \notin 1 .. Len(link)
    <3>1. p = Len(link) + 1
      BY <1>1, <2>3
    <3> QED
      BY <1>1, <1>2, <2>1, <3>1
  <2> QED
    BY <2>2, <2>3
<1>4. ASSUME lost = 0, ~HasDrive(inbox)
      PROVE IF HasDrive(link')
            THEN \E p \in 1 .. Len(link') :
                    /\ IsDrive(link'[p]) /\ p <= MaxLink + 2
                    /\ TimeoutTick + elapsed + p * MaxDelay - delay <= SendPeriod + LinkBound
            ELSE TimeoutTick + elapsed <= sendTick'
  <2>1. InTime(TimeoutTick + elapsed)
    BY <1>4, PeriodParts
  <2>2. CASE HasDrive(link)
    <3>1. PICK p \in 1 .. Len(link) :
             /\ IsDrive(link[p]) /\ p <= MaxLink + 2
             /\ TimeoutTick + elapsed + p * MaxDelay - delay <= SendPeriod + LinkBound
      BY <2>1, <2>2 DEF InTime, DriveNear
    <3>2. p \in 1 .. Len(link') /\ link'[p] = link[p]
      BY <1>1
    <3> QED
      BY <1>1, <2>2, <3>1, <3>2
  <2>3. CASE ~HasDrive(link) /\ IsDrive(m)
    <3>1. TimeoutTick + elapsed <= sendTick
      BY <2>1, <2>3 DEF InTime
    <3>2. Len(link) <= MaxLink + 1
      <4>1. CASE Len(link) = 0
        BY <1>2, <4>1
      <4>2. CASE Len(link) # 0
        <5>1. Len(link) \in 1 .. Len(link)
          BY <1>1, <4>2
        <5>2. ~IsDrive(link[Len(link)])
          BY <2>3, <5>1 DEF HasDrive
        <5> QED
          BY <5>1, <5>2, PeriodParts DEF SlidesAhead
      <4> QED
        BY <4>1, <4>2
    <3>3. Len(link) + 1 <= MaxLink + 2 /\ Len(link) + 1 \in 1 .. Len(link')
      BY <1>1, <1>2, <3>2
    <3>4. (Len(link) + 1) * MaxDelay <= (MaxLink + 2) * MaxDelay
      BY <1>1, <1>2, <3>3, DelayMonotone
    <3>5. (Len(link) + 1) * MaxDelay \in Nat /\ (MaxLink + 2) * MaxDelay \in Nat
      BY <1>1, <1>2, DelayStep
    <3>6. TimeoutTick + elapsed + (Len(link) + 1) * MaxDelay - delay <= SendPeriod + LinkBound
      BY <1>2, <3>1, <3>4, <3>5 DEF LinkBound
    <3> QED
      BY <1>1, <2>3, <3>3, <3>6
  <2>4. CASE ~HasDrive(link) /\ ~IsDrive(m)
    BY <1>1, <2>1, <2>4 DEF InTime
  <2> QED
    BY <2>2, <2>3, <2>4
<1>5. SlidesAhead'
  BY <1>3 DEF SlidesAhead, IsDrive
<1>6. (lost = 0 /\ ~HasDrive(inbox))' <=> lost = 0 /\ ~HasDrive(inbox)
  BY DEF HasDrive, IsDrive
<1>7. ASSUME lost = 0, ~HasDrive(inbox) PROVE InTime(TimeoutTick + elapsed)'
  BY <1>4, <1>7 DEF InTime, DriveNear, HasDrive, IsDrive, LinkBound
<1> QED
  BY <1>5, <1>6, <1>7, PeriodParts, PTL

LEMMA RemotePeriod == ASSUME TypeInv, PeriodInv, Remote PROVE PeriodInv'
<1>1. UNCHANGED <<inbox, delay, lost, elapsed, TimeoutTick>>
  BY DEF Remote, carVars, vars, fields, TimeoutTick
<1>2. CASE SendMessage(dc', turn')
  <2>1. DriveMessage(dc', turn') \in Messages /\ IsDrive(DriveMessage(dc', turn'))
    <3>1. dc' \in -DcMax .. DcMax /\ turn' \in -TurnMax .. TurnMax
      BY RemoteTypes, TypeInvParts DEF TypeInv, CarTypeOK, RemoteTypeOK
    <3> QED
      BY <3>1 DEF DriveMessage, Messages, IsDrive
  <2>2. link' = Append(link, DriveMessage(dc', turn'))
    BY <1>2 DEF SendMessage
  <2> QED
    BY <1>1, <2>1, <2>2, SentPeriod
<1>3. CASE UNCHANGED <<sendTick, link>>
  <2>1. SlidesAhead' /\ (lost = 0 /\ ~HasDrive(inbox) => InTime(TimeoutTick + elapsed))'
    <3>1. (lost = 0 /\ ~HasDrive(inbox) => InTime(TimeoutTick + elapsed)) /\ SlidesAhead
      BY PeriodParts
    <3> QED
      BY <1>1, <1>3, <3>1 DEF SlidesAhead, InTime, DriveNear, HasDrive, IsDrive, LinkBound
  <2> QED
    BY <2>1, PeriodParts, PTL
<1> QED
  BY <1>2, <1>3 DEF Remote, Task_RemoteControllerSending, Logic_RemoteController_Button

LEMMA OperatorPeriod ==
    ASSUME TypeInv, PeriodInv, NEW on \in SlideCommands, Operator(on) PROVE PeriodInv'
<1>1. [kind |-> "slide", on |-> on] \in Messages /\ ~IsDrive([kind |-> "slide", on |-> on])
  BY CarAssumption DEF Messages, IsDrive
<1>2. Len(link) + Len(inbox) <= MaxLink /\ Len(inbox) \in Nat
  BY QueueTypes DEF Operator, Idle
<1>3. Len(link) <= MaxLink
  BY <1>2, QueueTypes
<1>4. /\ UNCHANGED <<inbox, delay, lost, elapsed, TimeoutTick, sendTick>>
      /\ link' = Append(link, [kind |-> "slide", on |-> on])
  BY DEF Operator, carVars, vars, fields, TimeoutTick, remoteVars
<1> QED
  BY <1>1, <1>3, <1>4, SentPeriod

\* A step that leaves the link alone, and whose car is no later than before.
LEMMA SameLinkPeriod ==
    ASSUME TypeInv, PeriodInv, UNCHANGED <<link, delay, lost, sendTick>>,
           \/ /\ TimeoutTick' + elapsed' = TimeoutTick + elapsed
              /\ HasDrive(inbox)' <=> HasDrive(inbox)
           \/ TimeoutTick' + elapsed' = 0
    PROVE  PeriodInv'
<1>1. SlidesAhead /\ (lost = 0 /\ ~HasDrive(inbox) => InTime(TimeoutTick + elapsed)) /\ InTime(0)
  BY PeriodParts, ClearedInTime
<1>2. SlidesAhead'
  BY <1>1 DEF SlidesAhead, IsDrive
<1>3. ASSUME NEW age, InTime(age), TimeoutTick' + elapsed' = age PROVE InTime(TimeoutTick + elapsed)'
  BY <1>3 DEF InTime, DriveNear, HasDrive, IsDrive, LinkBound
<1>4. (lost = 0 /\ ~HasDrive(inbox) => InTime(TimeoutTick + elapsed))'
  BY <1>1, <1>3
<1> QED
  BY <1>2, <1>4, PeriodParts, PTL

LEMMA CarPeriod == ASSUME TypeInv, ScheduleInv, PeriodInv, Car PROVE PeriodInv'
<1>1. UNCHANGED <<link, delay, lost, sendTick>>
  BY DEF Car, Task_Motor, Task_MotorConnStop, Task_ProcessDebugUartCommandReceived, linkVars, remoteVars
<1>2. TimeoutTick \in Nat /\ elapsed \in Nat /\ i \in Tasks /\ 0 + 0 = 0
  BY Numbers
<1>3. CASE inbox' = inbox /\ (Scheduler \/ RunTask_ClearRequest)
  <2>1. HasDrive(inbox)' <=> HasDrive(inbox)
    BY <1>3 DEF HasDrive, IsDrive
  <2>2. TimeoutTick' + elapsed' = TimeoutTick + elapsed
    <3>1. CASE StartPass
      <4>1. TimeoutTick' = TimeoutTick + elapsed /\ elapsed' = 0
        BY <3>1, PassAdds
      <4> QED
        BY <1>2, <4>1
    <3>2. CASE CheckTask \/ RunTask_ClearOnce \/ RunTask_ClearRequest
      BY <3>2 DEF CheckTask, RunTask_ClearOnce, RunTask_ClearRequest, fields, TimeoutTick
    <3> QED
      BY <1>3, <3>1, <3>2 DEF Scheduler
  <2> QED
    BY <1>1, <2>1, <2>2, SameLinkPeriod
<1>4. CASE inbox' = inbox /\ RunTask_End /\ pc = "run"
  <2>1. HasDrive(inbox)' <=> HasDrive(inbox)
    BY <1>4 DEF HasDrive, IsDrive
  <2>2. elapsed' = elapsed /\ elapsed = 0 /\ (TimeoutTick' = TimeoutTick \/ TimeoutTick' = 0)
    BY <1>4, TypeInvParts, Distinct DEF RunTask_End, ScheduleInv, TypeOK, TimeoutTick
  <2> QED
    BY <1>1, <1>2, <2>1, <2>2, SameLinkPeriod
<1>5. CASE Task_ProcessDebugUartCommandReceived /\ inbox # <<>>
  <2>1. /\ i = Task_DebugUartProcess /\ pc = "run" /\ inbox' = Tail(inbox)
        /\ elapsed' = elapsed /\ elapsed = 0
        /\ IF IsDrive(Head(inbox)) THEN Drive(Head(inbox)) ELSE SlideCommand(Head(inbox))
    BY <1>5 DEF Task_ProcessDebugUartCommandReceived, Running, ScheduleInv, IsDrive
  <2>2. CASE IsDrive(Head(inbox))
    <3>1. TimeoutTick' = 0
      BY <2>1, <2>2, TypeInvParts, Distinct DEF Drive, TypeOK, TimeoutTick
    <3> QED
      BY <1>1, <1>2, <2>1, <3>1, SameLinkPeriod
  <2>3. CASE ~IsDrive(Head(inbox))
    <3>1. TimeoutTick' = TimeoutTick
      BY <2>1, <2>3, TypeInvParts, Distinct DEF SlideCommand, TypeOK, TimeoutTick
    <3>2. HasDrive(Tail(inbox)) <=> HasDrive(inbox)
      BY <1>5, <2>3, QueueTypes, TailDrives
    <3>3. HasDrive(inbox)' <=> HasDrive(inbox)
      BY <2>1, <3>2 DEF HasDrive, IsDrive
    <3> QED
      BY <1>1, <2>1, <3>1, <3>3, SameLinkPeriod
  <2> QED
    BY <2>2, <2>3
<1> QED
  BY <1>3, <1>4, <1>5 DEF Car, Task_Motor, Task_MotorConnStop, Task_ProcessDebugUartCommandReceived,
     Running, linkVars

LEMMA NextPeriod == TypeInv /\ ScheduleInv /\ PeriodInv /\ [SystemNext]_systemVars => PeriodInv'
<1> SUFFICES ASSUME TypeInv, ScheduleInv, PeriodInv, [SystemNext]_systemVars PROVE PeriodInv'
  OBVIOUS
<1>1. CASE UNCHANGED systemVars
  <2>1. /\ UNCHANGED <<link, inbox, delay, lost, sendTick, elapsed, TimeoutTick>>
    BY <1>1 DEF systemVars, carVars, vars, fields, remoteVars, linkVars, TimeoutTick
  <2>2. HasDrive(inbox)' <=> HasDrive(inbox)
    BY <2>1 DEF HasDrive, IsDrive
  <2> QED
    BY <2>1, <2>2, SameLinkPeriod
<1> QED
  BY <1>1, TickPeriod, DeliverPeriod, LosePeriod, RemotePeriod, OperatorPeriod, CarPeriod DEF SystemNext

\* While no message is lost, a car whose remote repeats itself before the timeout
\* could run out behind a full link is not stopped: when the timeout stops it,
\* a line waits in its rx buffer.
THEOREM CarNotStopped ==
    ASSUME SendPeriod + LinkBound < TimeoutRate
    PROVE  Spec => []NoFalseStop
<1>1. ASSUME TypeInv, ScheduleInv, PeriodInv, lost = 0, Running(Task_MotorTimeout), inbox = <<>>
      PROVE  FALSE
  <2>1. TimeoutTick >= TimeoutRate /\ elapsed = 0
    BY <1>1 DEF ScheduleInv, Running
  <2>2. InTime(TimeoutTick + elapsed)
    BY <1>1, PeriodParts, EmptyHasNone
  <2>3. /\ TimeoutTick \in Nat /\ TimeoutRate \in Nat /\ delay \in Nat /\ delay <= MaxDelay
        /\ MaxDelay \in Nat /\ MaxLink \in Nat /\ SendPeriod \in Nat /\ LinkBound \in Nat
        /\ sendTick \in Nat /\ sendTick <= SendPeriod
    BY <1>1, Numbers, QueueTypes, BoundIsNat, DelayStep DEF LinkBound
  <2>4. TimeoutTick + elapsed <= SendPeriod + LinkBound
    <3>1. CASE HasDrive(link)
      <4>1. PICK p \in 1 .. Len(link) : TimeoutTick + elapsed + p * MaxDelay - delay <= SendPeriod + LinkBound
        BY <2>2, <3>1 DEF InTime, DriveNear
      <4>2. 1 * MaxDelay <= p * MaxDelay /\ p * MaxDelay \in Nat
        BY <1>1, <2>3, QueueTypes, DelayMonotone, DelayStep
      <4> QED
        BY <2>1, <2>3, <4>1, <4>2
    <3>2. CASE ~HasDrive(link)
      BY <2>1, <2>2, <2>3, <3>2 DEF InTime
    <3> QED
      BY <3>1, <3>2
  <2> QED
    BY <2>1, <2>3, <2>4
<1>2. TypeInv /\ ScheduleInv /\ PeriodInv => NoFalseStop
  BY <1>1 DEF NoFalseStop
<1> QED
  BY <1>2, TypeInvariance, ScheduleInvariance, InitPeriod, NextPeriod, PTL DEF Spec
=============================================================================
