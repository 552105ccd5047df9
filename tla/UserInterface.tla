---------------------------- MODULE UserInterface ----------------------------
(***************************************************************************)
(* The menu of Src/Application/Logic.c and its applications (Snake.c,      *)
(* SmallApps.c), run by three tasks in the order of TaskList: the button   *)
(* task passes each button's press to the shown application, the display   *)
(* task draws it, and the system time task steps the clock.  Only these    *)
(* tasks, never an interrupt, touch Task_Display, so a run of one is a     *)
(* step.  The build has every application and both clocks.                 *)
(*                                                                         *)
(* What is drawn is left out, and so are values that change nothing but    *)
(* the drawing: letters, elevator level, lamps.                            *)
(***************************************************************************)
EXTENDS Snake, Sequences

CONSTANTS MaxPosition,      \* DisplayInput_LetterPosition_MaxLimit
          MinPeriod, MaxPeriod,    \* DisplayCarAnimation_RefreshPeriod limits
          InitPeriod,       \* and its first value
          OpenedSets        \* bound: the sets of applications of which one is used

AppList == <<"Snake", "Input", "CarAnimation", "Clock", "TrafficLight", "Elevator">>
Apps == {AppList[k] : k \in DOMAIN AppList}
Menu == "MainMenu"
AppOf(state) == IF state = 0 THEN Menu ELSE AppList[state]

ClockStates == <<"HourAndMinute", "Hour", "Minute", "AMPM">>
LightModes == <<"Automatic", "Manual", "TurnedOff">>
Buttons == <<"Up", "Down", "Right", "Left">>
PressTypes == {"Short", "Long", "Continuous", "ReleasedContinuous"}

\* The bytes of the letter position and the 16 bits of the period do not overflow.
ASSUME UserInterfaceAssumption ==
    /\ MaxPosition \in 0 .. 252
    /\ MinPeriod \in Nat /\ MaxPeriod \in Nat /\ MaxPeriod + MinPeriod <= 65535
    /\ InitPeriod \in 0 .. MaxPeriod + MinPeriod

VARIABLES
    ui,         \* Logic_Display_... and the schedule of Task_Display
    apps,       \* the applications' own states
    game,       \* the state of the Snake game
    opened,     \* bound: the applications used in this behaviour
    at          \* the button looked at, then display, then system time

uiVars == <<ui, apps, game, opened, at>>

Display == Len(Buttons) + 1
SystemTime == Display + 1

UiInit ==
    /\ ui = [actual |-> Menu, selected |-> 0, changed |-> FALSE,
             requested |-> FALSE, runOnce |-> FALSE, disabled |-> FALSE]
    /\ apps = [snakeMenu |-> FALSE, menuItem |-> "NewGame", clock |-> 1,
               position |-> 0, period |-> InitPeriod, mode |-> 1]
    /\ game = NoGame
    /\ opened \in OpenedSets
    /\ at = 1
-----------------------------------------------------------------------------
(* TaskHandler's functions on Task_Display, and Logic_Display_ChangeState. *)

\* Variant: the request does not enable the task.
Request_StaysDisabled(u) == [u EXCEPT !.requested = TRUE]

Request(u) == [u EXCEPT !.requested = TRUE, !.disabled = FALSE]
SetOnceRun(u) == [u EXCEPT !.runOnce = TRUE, !.disabled = FALSE]
Disable(u) == [u EXCEPT !.disabled = TRUE]

ChangeState(u, app) == Request([u EXCEPT !.changed = TRUE, !.actual = app])

\* Snake_FinishLose, if the step of the snake lost the game.
AfterStep(u, before, after) ==
    IF before.inProgress /\ ~after.inProgress THEN ChangeState(u, "Snake") ELSE u
MenuAfterStep(before, after) ==
    [apps EXCEPT !.snakeMenu = @ \/ (before.inProgress /\ ~after.inProgress)]
-----------------------------------------------------------------------------
(* The event functions, for a press of a button.                           *)

MenuEvent(button) ==
    /\ CASE button \in {"Right", "Left"} -> ui' = ChangeState(ui, AppOf(ui.selected))
         [] button = "Up" ->
              ui' = Request([ui EXCEPT !.selected = IF @ > 0 THEN @ - 1 ELSE @])
         [] button = "Down" ->
              ui' = Request([ui EXCEPT !.selected = IF @ < Len(AppList) THEN @ + 1 ELSE @])
    /\ UNCHANGED <<apps, game>>

SnakeMenuEvent(button) ==
    /\ CASE button \in {"Right", "Left"} ->
              /\ ui' = ChangeState(ui, IF apps.menuItem = "NewGame" THEN "Snake" ELSE Menu)
              /\ apps' = [apps EXCEPT !.snakeMenu = FALSE]
         [] button \in {"Up", "Down"} ->
              /\ ui' = Request(ui)
              /\ apps' = [apps EXCEPT !.menuItem = IF button = "Up" THEN "NewGame" ELSE "Exit"]
    /\ UNCHANGED game

Snake_Event(button, type) ==
    IF apps.snakeMenu THEN SnakeMenuEvent(button)
    ELSE IF type = "ReleasedContinuous" THEN UNCHANGED <<ui, apps, game>>
    ELSE \E after \in Stepped(game, button) :
            /\ game' = after
            /\ ui' = AfterStep(ui, game, after) /\ apps' = MenuAfterStep(game, after)

\* The letter position is a uint8_t: below 0 it is above the limit, too.
Position(step) ==
    IF apps.position + step \in 0 .. MaxPosition THEN apps.position + step
    ELSE IF step > 0 THEN 0 ELSE MaxPosition

Input_Event(button, type) ==
    LET step == IF type \in {"Short", "Continuous"} THEN 1 ELSE 3
    IN /\ UNCHANGED game
       /\ IF type = "ReleasedContinuous" THEN UNCHANGED <<ui, apps>>
          ELSE IF button \in {"Right", "Left"}
          THEN /\ apps' = [apps EXCEPT !.position =
                              Position(IF button = "Right" THEN step ELSE -step)]
               /\ ui' = Request(ui)
          ELSE /\ ui' = IF apps.position = MaxPosition THEN ChangeState(ui, Menu) ELSE Request(ui)
               /\ UNCHANGED apps

CarAnimation_Event(button, type) ==
    LET longer == button = "Right" /\ apps.period <= MaxPeriod
        shorter == button = "Left" /\ apps.period >= MinPeriod
    IN /\ UNCHANGED game
       /\ IF type = "ReleasedContinuous" THEN UNCHANGED <<ui, apps>>
          ELSE IF longer \/ shorter
          THEN /\ apps' = [apps EXCEPT !.period = IF longer THEN @ + MinPeriod ELSE @ - MinPeriod]
               /\ ui' = SetOnceRun(ui)
          ELSE /\ ui' = IF button \in {"Up", "Down"} THEN ChangeState(ui, Menu) ELSE ui
               /\ UNCHANGED apps

Clock_Event(button) ==
    /\ UNCHANGED game
    /\ IF button \in {"Right", "Left"}
       THEN /\ apps' = [apps EXCEPT !.clock = IF @ = Len(ClockStates) THEN 1 ELSE @ + 1]
            /\ ui' = Request(ui)
       ELSE /\ ui' = CASE ClockStates[apps.clock] = "HourAndMinute" -> ChangeState(ui, Menu)
                       [] ClockStates[apps.clock] \in {"Hour", "Minute"} -> Request(ui)
                       [] ClockStates[apps.clock] = "AMPM" -> ui
            /\ UNCHANGED apps

\* Whatever the button, the light is drawn from the event, not by the task.
TrafficLight_Event(button) ==
    /\ apps' = CASE button = "Right" ->
                      [apps EXCEPT !.mode = IF @ = Len(LightModes) THEN 1 ELSE @ + 1]
                 [] button = "Left" ->
                      [apps EXCEPT !.mode = IF @ = 1 THEN Len(LightModes) ELSE @ - 1]
                 [] OTHER -> apps
    /\ UNCHANGED <<ui, game>>

\* App_DisplayElevator_Update puts Task_Display to sleep, also from an event.
Elevator_Event(button, type) ==
    /\ ui' = CASE button = "Right" /\ type = "Long" -> ChangeState(ui, Menu)
               [] button = "Left" /\ type = "Short" -> Disable(ui)
               [] button \in {"Up", "Down"} /\ type # "ReleasedContinuous" -> Disable(ui)
               [] OTHER -> ui
    /\ UNCHANGED <<apps, game>>

ButtonEventHandler(button, type) ==
    CASE ui.actual = Menu -> MenuEvent(button)
      [] ui.actual = "Snake" -> Snake_Event(button, type)
      [] ui.actual = "Input" -> Input_Event(button, type)
      [] ui.actual = "CarAnimation" -> CarAnimation_Event(button, type)
      [] ui.actual = "Clock" -> Clock_Event(button)
      [] ui.actual = "TrafficLight" -> TrafficLight_Event(button)
      [] ui.actual = "Elevator" -> Elevator_Event(button, type)

\* The button task looks at one button after the other.
ButtonTask ==
    /\ at < Display /\ at' = at + 1
    /\ \/ UNCHANGED <<ui, apps, game>>
       \/ \E type \in PressTypes : ButtonEventHandler(Buttons[at], type)
    /\ ui'.actual \in opened \cup {Menu}     \* bound
    /\ UNCHANGED opened
-----------------------------------------------------------------------------
(* The display task.                                                       *)

\* TaskHandler_RunTask up to the call of the task.
RunTask(u) == [u EXCEPT !.requested = FALSE, !.disabled = @ \/ u.runOnce]

\* Logic_Display_Init.
Initialised(u) ==
    CASE u.actual = "TrafficLight" -> SetOnceRun(u)
      [] u.actual = "Clock" -> SetOnceRun(u)
      [] u.actual = "Elevator" -> Disable(u)
      [] OTHER -> u

InitialisedGames(u) == IF u.actual = "Snake" /\ ~apps.snakeMenu THEN NewGames ELSE {game}

\* The update functions: the animations ask for their next picture, the menu
\* and the elevator wait for a request.
Updated(u, timeout) ==
    CASE u.actual \in {Menu, "Elevator"} -> Disable(u)
      [] u.actual \in {"Snake", "Input", "CarAnimation", "Clock"} -> SetOnceRun(u)
      [] u.actual = "TrafficLight" ->
            IF timeout /\ LightModes[apps.mode] = "Automatic" THEN SetOnceRun(u) ELSE u

\* The steps the game of the display task's run may make.
UpdatedGames(u, before) ==
    IF u.actual = "Snake" /\ before.inProgress THEN Stepped(before, before.lastStep) ELSE {before}

\* Logic_DisplayHandler.
DisplayHandler(timeout) ==
    LET u == RunTask(ui)
        shown == IF u.changed THEN Initialised([u EXCEPT !.changed = FALSE]) ELSE u
    IN \E before \in IF u.changed THEN InitialisedGames(u) ELSE {game} :
          \E after \in UpdatedGames(u, before) :
              /\ game' = after
              /\ ui' = Updated(AfterStep(shown, before, after), timeout)
              /\ apps' = IF u.changed /\ u.actual = "TrafficLight"
                         THEN [apps EXCEPT !.mode = 1] ELSE MenuAfterStep(before, after)

\* The task runs if its time has come, which other tasks decide, or on request.
DisplayTask ==
    /\ at = Display /\ at' = SystemTime
    /\ \/ ~ui.disabled /\ DisplayHandler(TRUE)
       \/ ~ui.disabled /\ ui.requested /\ DisplayHandler(FALSE)
       \/ (ui.disabled \/ ~ui.requested) /\ UNCHANGED <<ui, apps, game>>
    /\ UNCHANGED opened

\* Task_SystemTimeSecondStep: the large clock is drawn each minute, the small
\* one each second.
SystemTimeTask ==
    /\ at = SystemTime /\ at' = 1
    /\ \E secondPassed \in BOOLEAN, minutePassed \in BOOLEAN :
          ui' = IF secondPassed /\ (minutePassed \/ ui.actual = Menu) THEN Request(ui) ELSE ui
    /\ UNCHANGED <<apps, game, opened>>

UiNext == ButtonTask \/ DisplayTask \/ SystemTimeTask

UiSpec == UiInit /\ [][UiNext]_uiVars
-----------------------------------------------------------------------------
\* The type invariant of the user interface.
UiTypeOK ==
    /\ ui \in [actual : Apps \cup {Menu}, selected : 0 .. Len(AppList), changed : BOOLEAN,
               requested : BOOLEAN, runOnce : BOOLEAN, disabled : BOOLEAN]
    /\ apps \in [snakeMenu : BOOLEAN, menuItem : {"NewGame", "Exit"}, clock : DOMAIN ClockStates,
                 position : 0 .. MaxPosition, period : 0 .. MaxPeriod + MinPeriod,
                 mode : DOMAIN LightModes]
    /\ DOMAIN game.matrix = Points /\ at \in 1 .. SystemTime

\* While a game is played it is shown, and its snake is in one piece, however
\* button presses and the clock's requests fall between its own steps.
SnakeIsAPath ==
    game.inProgress => ui.actual = "Snake" /\ ~apps.snakeMenu /\ ~ui.changed /\ IsAPath(game)

Animated == {"Snake", "Input", "CarAnimation", "Clock"}

\* An application that was chosen will be drawn, and an animation goes on: its
\* next run is set, although every run clears it and any other request may take
\* its place.  Not so while the elevator is shown, which puts the display task
\* to sleep even if it has not been drawn yet; and the traffic light is drawn
\* first but may stop.
DisplayRunsAgain ==
    /\ ui.changed => ui.requested /\ (ui.disabled => ui.actual = "Elevator")
    /\ ui.actual \in Animated => ~ui.disabled
=============================================================================
