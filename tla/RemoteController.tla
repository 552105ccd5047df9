-------------------------- MODULE RemoteController ---------------------------
(***************************************************************************)
(* The remote control of the car (RemoteController.c): four buttons change *)
(* the wanted speed and turning, and every change is sent at once and then *)
(* again with every period of the task, since a message may be lost.       *)
(*                                                                         *)
(* The link is what SEND_MESSAGE_TO_CAR writes to: a serial line or radio. *)
(***************************************************************************)
EXTENDS Integers, Sequences

CONSTANTS
    DcIncrement, DcStandard, DcMax,    \* Car_DcForward_...Value
    TurnIncrement, TurnMax,            \* Car_Turning_...Value
    SendPeriod                         \* rate of Task_RemoteController

ASSUME RemoteAssumption ==
    /\ {DcIncrement, DcStandard, TurnIncrement} \subseteq Nat \ {0}
    /\ DcMax \in DcStandard .. 99 /\ TurnMax \in TurnIncrement .. 90
    /\ SendPeriod \in Nat \ {0}

VARIABLES
    backForward, turning,     \* Car_BackForwardState, Car_TurningState
    dc, turn,                 \* Car_DcForward_ActualValue, Car_Turning_ActualValue
    sendTick,                 \* tick of Task_RemoteController
    link                      \* messages on their way to the car

remoteVars == <<backForward, turning, dc, turn, sendTick>>

RemoteInit ==
    /\ backForward = "Stop" /\ turning = "Straight" /\ dc = 0 /\ turn = 0
    /\ sendTick = 0 /\ link = <<>>
-----------------------------------------------------------------------------
Least(a, b) == IF a <= b THEN a ELSE b
Greatest(a, b) == IF a >= b THEN a ELSE b

DriveMessage(speed, angle) == [kind |-> "drive", dc |-> speed, angle |-> angle]

\* Logic_RemoteController_SendMessage restarts the period of its own task.
SendMessage(speed, angle) ==
    link' = Append(link, DriveMessage(speed, angle)) /\ sendTick' = 0

\* The first press on Right turns as the first press on Left does.
Right ==
    /\ turning' = CASE turning = "Left" -> "Straight" [] OTHER -> "Right"
    /\ turn' = CASE turning = "Right" -> Greatest(turn - TurnIncrement, -TurnMax)
                 [] turning = "Straight" -> TurnIncrement
                 [] turning = "Left" -> 0
    /\ UNCHANGED <<backForward, dc>>

Left ==
    /\ turning' = CASE turning = "Right" -> "Straight" [] OTHER -> "Left"
    /\ turn' = CASE turning = "Left" -> Least(turn + TurnIncrement, TurnMax)
                 [] turning = "Straight" -> TurnIncrement
                 [] turning = "Right" -> 0
    /\ UNCHANGED <<backForward, dc>>

Up ==
    /\ backForward' = CASE backForward = "Back" -> "Stop" [] OTHER -> "Fordward"
    /\ dc' = CASE backForward = "Fordward" -> Least(dc + DcIncrement, DcMax)
               [] backForward = "Stop" -> DcStandard
               [] backForward = "Back" -> 0
    /\ UNCHANGED <<turning, turn>>

\* Variant: the limit is checked before the step.
Down_StepsPastLimit ==
    /\ backForward' = CASE backForward = "Fordward" -> "Stop" [] OTHER -> "Back"
    /\ dc' = CASE backForward = "Back" -> Greatest(dc, -DcMax) - DcIncrement
               [] backForward = "Stop" -> -DcStandard
               [] backForward = "Fordward" -> 0
    /\ UNCHANGED <<turning, turn>>

Down ==
    /\ backForward' = CASE backForward = "Fordward" -> "Stop" [] OTHER -> "Back"
    /\ dc' = CASE backForward = "Back" -> Greatest(dc - DcIncrement, -DcMax)
               [] backForward = "Stop" -> -DcStandard
               [] backForward = "Fordward" -> 0
    /\ UNCHANGED <<turning, turn>>

\* Logic_RemoteController_Button: the message goes out when a value has changed.
Logic_RemoteController_Button ==
    /\ Right \/ Left \/ Up \/ Down
    /\ IF <<dc, turn>>' # <<dc, turn>> THEN SendMessage(dc', turn')
       ELSE UNCHANGED <<sendTick, link>>

\* Task_RemoteControllerSending, when its period has passed.
Task_RemoteControllerSending ==
    /\ sendTick >= SendPeriod
    /\ SendMessage(dc, turn)
    /\ UNCHANGED <<backForward, turning, dc, turn>>
-----------------------------------------------------------------------------
\* The type invariant of the remote: the values stay within their limits.
RemoteTypeOK ==
    /\ backForward \in {"Stop", "Fordward", "Back"} /\ turning \in {"Straight", "Left", "Right"}
    /\ dc \in -DcMax .. DcMax /\ turn \in -TurnMax .. TurnMax
    /\ sendTick \in 0 .. SendPeriod
=============================================================================
