-------------------------------- MODULE Motor --------------------------------
(***************************************************************************)
(* The car's motors: commands set ControlState, and Motor_StateMachine     *)
(* (Motor.c), run by its task, moves ActualState and the outputs after it. *)
(*                                                                         *)
(* The PWM of the DC motor is actual.dcPercent and its direction pins are  *)
(* those of actual.dir: Motor_DcMotorChangePercent and                     *)
(* Motor_DcMotorSeDirection are called whenever the fields change.         *)
(***************************************************************************)
EXTENDS Integers

CONSTANTS
    MechanicalMax,     \* MOTOR_SERVO_MECHANICAL_MAX_ANGLE
    ServoChange,       \* MOTOR_SERVO_CHANGE_LIMIT
    SpeedChange,       \* MOTOR_STATE_MACHINE_SPEED_CHANGE_LIMIT
    SlideMax           \* MOTOR_SLIDE_DCMOTOR_LIMIT_MAX; the minimum is 0

ASSUME MotorAssumption ==
    /\ MechanicalMax \in 1 .. 90 /\ ServoChange \in 1 .. MechanicalMax
    /\ MechanicalMax + 2 * ServoChange <= 127    \* 30 and 10 degrees in an int8_t
    /\ SpeedChange \in 1 .. 100 /\ SlideMax \in SpeedChange .. 100

VARIABLES
    actual, control,      \* MotorState_t: what the outputs have, and shall have
    slide,                \* MotorTestSlide_Enabled
    angleDir, dcDir       \* MotorTestSlide_AngleDir, MotorTestSlide_DcDir

motorVars == <<actual, control, slide, angleDir, dcDir>>

Dirs == {"Unknown", "Forward", "Backward", "Stop"}

MotorInit ==
    /\ actual = [dir |-> "Unknown", dcPercent |-> 0, angle |-> 0] /\ control = actual
    /\ slide = FALSE /\ angleDir = 0 /\ dcDir = 0
-----------------------------------------------------------------------------
(* What commands and the connection timeout change.                        *)

Stopped(state) == [dir |-> "Stop", dcPercent |-> 0, angle |-> 0]

\* Motor_StateMachine_SetDc
WithDc(state, dc) ==
    [state EXCEPT !.dcPercent = IF dc >= 0 THEN dc ELSE -dc,
                  !.dir = IF dc > 0 THEN "Forward" ELSE IF dc < 0 THEN "Backward" ELSE "Stop"]

\* Motor_StateMachine_SetAngle
WithAngle(state, angle) == [state EXCEPT !.angle = angle]

\* Variant: the connection timeout clears the speed and leaves the direction.
Motor_ControlStop_Nothing == control' = control /\ UNCHANGED <<actual, slide, angleDir, dcDir>>

\* It stops "control" states; the outputs follow with the next Motor_StateMachine.
Motor_ControlStop == control' = Stopped(control) /\ UNCHANGED <<actual, slide, angleDir, dcDir>>
-----------------------------------------------------------------------------
(* Motor_StateMachine                                                      *)

\* The test mode drives the control state to and fro by itself.
SlideAngle(angle) ==
    IF angleDir = 1
    THEN IF angle <= MechanicalMax THEN angle + ServoChange ELSE angle
    ELSE IF angle >= -MechanicalMax THEN angle - ServoChange ELSE angle

SlideSpeed(percent) ==
    IF dcDir = 1
    THEN IF percent <= SlideMax THEN percent + SpeedChange ELSE percent
    ELSE IF percent > SpeedChange THEN percent - SpeedChange ELSE percent

Slide ==
    LET angle == SlideAngle(control.angle)
        percent == SlideSpeed(control.dcPercent)
    IN /\ control' = [dir |-> IF percent > 0 THEN "Forward" ELSE "Stop",
                      dcPercent |-> percent, angle |-> angle]
       /\ angleDir' = IF angle = control.angle THEN 1 - angleDir ELSE angleDir
       /\ dcDir' = IF percent = control.dcPercent THEN 1 - dcDir ELSE dcDir

\* One of the two differences is never positive, so every difference is small.
IsSmall(from, to) == from - to < SpeedChange \/ to - from < SpeedChange

SpeedStep(from, to) ==
    IF IsSmall(from, to) THEN to
    ELSE IF from < to THEN from + SpeedChange ELSE from - SpeedChange

\* Variant: a new direction is set under the old speed.
DcStep_Unstopped(state, wanted) ==
    [state EXCEPT !.dir = wanted.dir, !.dcPercent = SpeedStep(@, wanted.dcPercent)]

\* A new direction is set with the motor stopped; its speed follows one run later.
DcStep(state, wanted) ==
    IF state.dir # wanted.dir
    THEN [state EXCEPT !.dir = wanted.dir, !.dcPercent = 0]
    ELSE [state EXCEPT !.dcPercent = SpeedStep(@, wanted.dcPercent)]

\* Variant: steps are always doubled.
ServoStep_Double(from, to) ==
    IF from = to THEN from
    ELSE IF from < to THEN from + 2 * ServoChange ELSE from - 2 * ServoChange

\* Steps are doubled on the way through the centre.
ServoStep(from, to) ==
    IF from = to THEN from
    ELSE IF from < to
         THEN IF from < 0 /\ to > 0 THEN from + 2 * ServoChange ELSE from + ServoChange
         ELSE IF from > 0 /\ to < 0 THEN from - 2 * ServoChange ELSE from - ServoChange

Motor_StateMachine ==
    /\ IF slide THEN Slide ELSE UNCHANGED <<control, angleDir, dcDir>>
    /\ actual' = [DcStep(actual, control') EXCEPT !.angle = ServoStep(@, control'.angle)]
    /\ UNCHANGED slide
-----------------------------------------------------------------------------
\* The type invariant of the states: percent is a uint8_t and angle an int8_t,
\* and no sequence of commands, slides and steps makes them wrap.
MotorTypeOK ==
    /\ \A state \in {actual, control} :
          /\ state.dir \in Dirs
          /\ state.dcPercent \in 0 .. 255 /\ state.angle \in -128 .. 127
    /\ slide \in BOOLEAN /\ angleDir \in 0 .. 1 /\ dcDir \in 0 .. 1
=============================================================================
