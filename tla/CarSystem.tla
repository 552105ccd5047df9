------------------------------ MODULE CarSystem ------------------------------
(***************************************************************************)
(* The remote control, a link that loses messages, and the car: its        *)
(* scheduler (TaskHandler) with the motor task, the connection timeout     *)
(* task and the task that executes received commands.                      *)
(*                                                                         *)
(* The unit of time is MotorTask's period; SendPeriod, the rate of the     *)
(* timeout task and the bounds are in this unit.                           *)
(***************************************************************************)
EXTENDS TaskHandler, Motor, RemoteController

CONSTANTS
    Task_MotorControl, Task_MotorTimeout, Task_DebugUartProcess,   \* TaskID_t
    SlideCommands,    \* what an operator may send as "motor slide": TRUE is on
    MaxElapsed,       \* bound: time that passes during a turn of the main loop
    MaxDelay,         \* bound: time a message is under way
    MaxLink,          \* bound: unexecuted messages when a button is pressed
    MaxInputs,        \* bound: buttons pressed and slide commands sent
    MaxLosses         \* bound: messages lost

ASSUME CarAssumption ==
    /\ Tasks = {Task_MotorControl, Task_MotorTimeout, Task_DebugUartProcess}
    /\ TimeOutTasks = {Task_MotorTimeout} /\ PeriodicDisabled = {Task_DebugUartProcess}
    /\ InitRunOnce = {} /\ InitDisabled = {} /\ SlideCommands \subseteq BOOLEAN
    /\ MaxElapsed \in Nat \ {0} /\ MaxDelay \in Nat
    /\ MaxLink \in Nat /\ MaxInputs \in Nat /\ MaxLosses \in Nat

\* The tasks are three; the turns the remote sends are within what the servo's
\* int8_t can follow; the unit of time, and the range of a tick beyond what the
\* timeout task can reach.
ASSUME TimingAssumption ==
    /\ Task_MotorControl # Task_MotorTimeout
    /\ Task_DebugUartProcess \notin {Task_MotorControl, Task_MotorTimeout}
    /\ TurnMax + ServoChange <= 127
    /\ InitRate[Task_MotorControl] = 1
    /\ InitRate[Task_MotorTimeout] + MaxElapsed <= TickModulus

VARIABLES
    inbox,       \* lines in the car's rx buffer
    delay,       \* age of the first message of link
    inputs,      \* buttons pressed and slide commands sent
    lost,        \* messages lost
    silence      \* time since the car executed a command, Nothing before

carVars == <<vars, motorVars>>
linkVars == <<link, inbox, delay, inputs, lost, silence>>
systemVars == <<carVars, remoteVars, linkVars>>

Nothing == -1

\* The time after which a car that hears nothing stands still.
StopBound == InitRate[Task_MotorTimeout] + 2 * MaxElapsed

SystemInit ==
    /\ Init /\ MotorInit /\ RemoteInit
    /\ inbox = <<>> /\ delay = 0 /\ inputs = 0 /\ lost = 0 /\ silence = Nothing
-----------------------------------------------------------------------------
(* Time and the link.                                                      *)

\* Neither the remote's main loop, nor the link, nor the car's main loop falls
\* behind by more than the bounds say.  The time a turn of the car's main loop
\* takes is counted before its next turn.
Tick ==
    /\ pc = "loop"
    /\ sendTick < SendPeriod /\ elapsed < MaxElapsed /\ (link # <<>> => delay < MaxDelay)
    /\ sendTick' = sendTick + 1 /\ elapsed' = elapsed + 1
    /\ delay' = IF link = <<>> THEN 0 ELSE delay + 1
    /\ silence' = IF silence \in {Nothing, StopBound + 1} THEN silence ELSE silence + 1
    /\ UNCHANGED <<fields, pc, i, source, motorVars>>
    /\ UNCHANGED <<backForward, turning, dc, turn, link, inbox, inputs, lost>>

\* A line arrives: it is put into the rx buffer and the task is requested.
Deliver ==
    /\ link # <<>>
    /\ inbox' = Append(inbox, Head(link)) /\ link' = Tail(link) /\ delay' = 0
    /\ RequestTaskScheduling(Task_DebugUartProcess) /\ Stays
    /\ UNCHANGED <<motorVars, remoteVars, inputs, lost, silence>>

Lose ==
    /\ link # <<>> /\ lost < MaxLosses
    /\ link' = Tail(link) /\ lost' = lost + 1 /\ delay' = 0
    /\ UNCHANGED <<carVars, remoteVars, inbox, inputs, silence>>

\* Bound: buttons and slide commands are not given in a burst.
Idle == Len(link) + Len(inbox) <= MaxLink

Remote ==
    /\ \/ Task_RemoteControllerSending /\ UNCHANGED inputs
       \/ inputs < MaxInputs /\ Idle /\ Logic_RemoteController_Button /\ inputs' = inputs + 1
    /\ UNCHANGED <<carVars, inbox, delay, lost, silence>>

Operator(on) ==
    /\ inputs < MaxInputs /\ Idle /\ inputs' = inputs + 1
    /\ link' = Append(link, [kind |-> "slide", on |-> on])
    /\ UNCHANGED <<carVars, remoteVars, inbox, delay, lost, silence>>
-----------------------------------------------------------------------------
(* The car's tasks.                                                        *)

Task_Motor ==
    /\ Running(Task_MotorControl)
    /\ Motor_StateMachine
    /\ RunTask_End
    /\ UNCHANGED <<remoteVars, linkVars>>

Task_MotorConnStop ==
    /\ Running(Task_MotorTimeout)
    /\ Motor_ControlStop
    /\ RunTask_End
    /\ UNCHANGED <<remoteVars, linkVars>>

\* Variant: the command does not restart the connection timeout.
Drive_NoClear(message) ==
    /\ control' = WithAngle(WithDc(control, message.dc), message.angle)
    /\ UNCHANGED <<actual, slide, angleDir, dcDir>>
    /\ tick' = [tick EXCEPT ![i] = 0] /\ UNCHANGED isDisabled
    /\ silence' = 0

\* CommandFunction_Motor, "motor <dc> <angle>", and the end of its task's run.
Drive(message) ==
    /\ control' = WithAngle(WithDc(control, message.dc), message.angle)
    /\ UNCHANGED <<actual, slide, angleDir, dcDir>>
    /\ tick' = [tick EXCEPT ![i] = 0, ![Task_MotorTimeout] = 0]
    /\ isDisabled' = isDisabled \ {Task_MotorTimeout}
    /\ silence' = 0

\* "motor slide on" and "off"; neither clears the connection timeout.
SlideCommand(message) ==
    /\ slide' = message.on
    /\ control' = IF message.on THEN control ELSE Stopped(control)
    /\ tick' = [tick EXCEPT ![i] = 0]
    /\ silence' = 0
    /\ UNCHANGED <<actual, angleDir, dcDir, isDisabled>>

\* One received line is executed per run of the task.
Task_ProcessDebugUartCommandReceived ==
    /\ Running(Task_DebugUartProcess)
    /\ IF inbox = <<>>
       THEN RunTask_End /\ UNCHANGED <<motorVars, inbox, silence>>
       ELSE /\ IF Head(inbox).kind = "drive" THEN Drive(Head(inbox)) ELSE SlideCommand(Head(inbox))
            /\ inbox' = Tail(inbox)
            /\ source' = "Unknown" /\ NextTask
            /\ UNCHANGED <<taskScheduleRate, isRequestScheduling, isRunOnce, elapsed>>
    /\ UNCHANGED <<remoteVars, link, delay, inputs, lost>>

Car ==
    \/ (Scheduler \/ RunTask_ClearRequest) /\ UNCHANGED <<motorVars, remoteVars, linkVars>>
    \/ Task_Motor
    \/ Task_MotorConnStop
    \/ Task_ProcessDebugUartCommandReceived

SystemNext == Tick \/ Deliver \/ Lose \/ Remote \/ Car \/ \E on \in SlideCommands : Operator(on)

Spec == SystemInit /\ [][SystemNext]_systemVars

\* Both main loops go on, the link delivers what it does not lose, time passes.
FairSpec ==
    /\ Spec
    /\ WF_systemVars(Car) /\ WF_systemVars(Deliver) /\ WF_systemVars(Tick)
    /\ WF_systemVars(Task_RemoteControllerSending /\ UNCHANGED <<carVars, inbox, delay, inputs, lost, silence>>)
-----------------------------------------------------------------------------
Messages ==
    [kind : {"drive"}, dc : -DcMax .. DcMax, angle : -TurnMax .. TurnMax]
    \cup [kind : {"slide"}, on : BOOLEAN]

\* The type invariant: no sequence of commands, slides and steps makes the
\* uint8_t percents and the int8_t angles wrap.
CarTypeOK ==
    /\ TypeOK /\ MotorTypeOK /\ RemoteTypeOK
    /\ link \in Seq(Messages) /\ inbox \in Seq(Messages) /\ delay \in 0 .. MaxDelay
    /\ inputs \in 0 .. MaxInputs /\ lost \in 0 .. MaxLosses
    /\ silence \in {Nothing} \cup 0 .. StopBound + 1

\* A car whose last command is longer ago than the timeout stands still,
\* in whatever order the timeout, the commands and the motor task ran.  The
\* test mode drives on its own and is the exception.
StopsWhenSilent == silence > StopBound /\ ~slide => actual.dcPercent = 0

\* As long as no message is lost, the timeout does not stop a driven car: the
\* remote repeats itself often enough for the delays on the way.  The exception
\* is a line that waits in the rx buffer: two lines that come close together are
\* one request, so the second one waits for the next line to come.
NoFalseStop ==
    silence # Nothing /\ lost = 0 /\ Running(Task_MotorTimeout) => inbox # <<>>

\* The motor is never driven against its motion: between forward and backward
\* there is a run of the motor task that has it stopped.
NeverReversesAtOnce ==
    [][actual.dcPercent > 0 /\ actual'.dcPercent > 0 => actual'.dir = actual.dir]_systemVars

\* What makes CarTypeOK inductive: the slide turns back where it has passed its
\* limit by one step, and the servo passes what is wanted by less than one.
PercentMax == Greatest(SlideMax + SpeedChange, DcMax)
AngleMax == Greatest(MechanicalMax + ServoChange, TurnMax)

MotorInv ==
    /\ control \in [dir : Dirs, dcPercent : 0 .. PercentMax, angle : -AngleMax .. AngleMax]
    /\ actual \in [dir : Dirs, dcPercent : 0 .. PercentMax,
                   angle : -(AngleMax + ServoChange) .. AngleMax + ServoChange]
    /\ slide \in BOOLEAN /\ angleDir \in 0 .. 1 /\ dcDir \in 0 .. 1

TypeInv == CarTypeOK /\ MotorInv

\* The pass has still to run, or to finish, task t.
Ahead(t) == pc # "loop" /\ i <= t

TimeoutTick == tick[Task_MotorTimeout]
TimeoutRate == InitRate[Task_MotorTimeout]

\* The motor task runs in every pass; the timeout task at the first pass that
\* finds it due, so that its tick never reaches its rate between passes.
ScheduleInv ==
    /\ isRunOnce = {} /\ isDisabled = {} /\ taskScheduleRate = InitRate
    /\ isRequestScheduling \subseteq {Task_DebugUartProcess}
    /\ elapsed <= MaxElapsed /\ (pc # "loop" => elapsed = 0)
    /\ Ahead(Task_MotorControl) => tick[Task_MotorControl] \in 1 .. MaxElapsed
    /\ ~Ahead(Task_MotorControl) => tick[Task_MotorControl] = 0
    /\ Ahead(Task_MotorTimeout) => TimeoutTick < TimeoutRate + MaxElapsed
    /\ ~Ahead(Task_MotorTimeout) => TimeoutTick < TimeoutRate
    /\ i = Task_MotorTimeout /\ pc \in {"clearOnce", "clearRequest", "run"} =>
          TimeoutTick >= TimeoutRate

\* What makes StopsWhenSilent inductive: the control state is as old as the tick
\* of the timeout says, and the outputs follow it within one pass.
SilenceInv == ~slide =>
    /\ control.dcPercent # 0 => silence <= TimeoutTick + elapsed
    /\ actual.dcPercent # 0 =>
          silence < TimeoutRate + MaxElapsed + elapsed
                    + (IF Ahead(Task_MotorControl) THEN MaxElapsed ELSE 0)

IsDrive(message) == message.kind = "drive"
HasDrive(queue) == \E p \in 1 .. Len(queue) : IsDrive(queue[p])

\* The longest a drive message is under way behind slide commands.
LinkBound == (MaxLink + 2) * MaxDelay

\* What makes NoFalseStop inductive.  With no drive message under way the tick of
\* the timeout is not ahead of the remote's own; with one, it is within what the
\* messages before it need.  A slide command is sent only over an idle link.
PeriodInv ==
    /\ \A p \in 1 .. Len(link) : ~IsDrive(link[p]) => p <= MaxLink + 1
    /\ lost = 0 /\ ~HasDrive(inbox) =>
          IF HasDrive(link)
          THEN \E p \in 1 .. Len(link) :
                  /\ IsDrive(link[p]) /\ p <= MaxLink + 2
                  /\ TimeoutTick + elapsed + p * MaxDelay - delay <= SendPeriod + LinkBound
          ELSE TimeoutTick + elapsed <= sendTick

Wanted ==
    [dir |-> IF dc > 0 THEN "Forward" ELSE IF dc < 0 THEN "Backward" ELSE "Stop",
     dcPercent |-> IF dc >= 0 THEN dc ELSE -dc]

\* When the buttons are left alone and no more messages are lost, the car comes
\* to drive as the remote says, whatever was lost before, and its servo to
\* within one step of it.
FollowsRemote ==
    <>[](slide \/ /\ [dir |-> actual.dir, dcPercent |-> actual.dcPercent] = Wanted
                  /\ actual.angle - turn \in -ServoChange + 1 .. ServoChange - 1)
=============================================================================
