# FastenHomeAut: a verification model

FastenHomeAut is bare-metal firmware for STM32 boards (and a build for the host): a
cooperative scheduler, serial lines with a command interpreter, Wi-Fi, GSM and Bluetooth
modules, buttons, displays, motors and a set of small applications over them. There is one
thread, the main loop of `TaskHandler_Scheduler`, and the interrupts. Nothing is locked:
whatever an interrupt and a task share is shared statement by statement. Most of what is
hard to test in this code is there, and that is where the model starts.

The modules are translated from the sources. A definition that begins with "Variant:" is a
plausible mistake in the definition that follows it and is used by nothing else: each
property has one that breaks it.

## 1. Inventory

### Scheduler - `Common/Handler/TaskHandler.c`, `List/TaskList.c`
State: the array `TaskList`, with tick, rate and the flags isRequestScheduling, isRunOnce,
isTimeOutTask, isPeriodicScheduleDisabled and isDisabled of each task; the index and the
reason of the running task. Operations: the loop (advance the ticks by the elapsed time, run
what is due or requested, in list order), and the API that tasks and interrupts call
(request, periodic time, single run, disable, clear a timeout). Hard: requests arrive from
interrupts between any two statements of `TaskHandler_RunTask`; a task changes its own entry
while it runs, and its tick is cleared after it returns; ticks wrap; one long task delays
all. Correct when: no request is lost or left on a disabled task, a task that shall run once
runs once, no periodic task starves.

### Circular buffer - `Common/Helper/CircularBuffer.c`
State: a byte array and two volatile counters; one slot stays free. Operations: put a
character or a string, get a character, copy the content, drop characters, clear. Hard: the
wrap of both counters, and callers on both sides of an interrupt. Correct when: it is a
bounded FIFO for callers that do not overlap, and remains one for a reader and a writer.

### UART driver and command line - `Communication/UART.c`, `Communication/DebugUart.c`
State: an rx and a tx circular buffer, the interrupt enable bits, the request of the command
task. Operations: the interrupt handler (one character each way), send, and the task that
copies, searches, executes and drops a line. Hard: everything interleaves; one line is
executed per run; the transmit interrupt is disabled by the interrupt and enabled by the
main loop. Correct when: no character is lost, doubled, reordered or dropped unexecuted,
text never stays in the tx buffer with the interrupt disabled, and each line is executed.

### Buttons - `Modules/Button.c`, `Task_ProcessButtonPressed` in `List/TaskList.c`, `it.c`
State: the clicked and the pressed buttons as bit masks, press times, the schedule of the
task, which it rewrites in every run. Operations: the EXTI interrupt sets a bit and requests
the task; the task tells short, long and continuous presses. Hard: several buttons share one
task and one period; contacts bounce; clicks arrive while the task clears the mask. Correct
when: a recorded press is reported once and as what it was, and is not forgotten.

### Remote-controlled car - `Application/RemoteController.c`, `Modules/Motor.c`, its tasks
State: on the remote the wanted speed and turning; on the car control state, actual state,
the slide (test) mode, and a timeout task that every drive command restarts. Operations:
buttons change the wanted values and send them, a periodic task repeats them; the motor task
moves the actual state after the control state. Hard: messages are lost or late; the timeout
races the commands; commands skip states. Correct when: a car that hears nothing stops, one
that is heard is not stopped, the motor is never reversed at speed, and the car ends in the
state the remote shows.

### Events - `Common/Handler/EventHandler.c`, `EventLog.c`, `List/EventList.c`
State: per event a mask of the tasks that have not seen it; a circular log. Operations:
generate (and request the required task), check, clear, log. Compiled for the Discovery board
and the unit tests only (`options.h:394`), where no task reads an event.

### ESP8266 Wi-Fi client - `Modules/ESP8266.c`
State: a status machine of some fifty states, a receive buffer, an error count, flags of a
message that is being sent. Operations: one step per run of its task, and requests to send.
Hard: answers are late, lost, merged or of an earlier command; the receive buffer is copied
and then cleared as a whole; the module restarts by itself. Correct when: it comes back to
state Idle from every failure of the setup, the end of a message reaches the server at most once
and in order, and a connection in use does not keep a message for ever.

### Other communication - `GSM_SIM800.c`, `Bluetooth_HC05.c`, `GpsHandler.c`, `HomeAutMessage.c`, `HwTester/CommonUART.c`
State machines and receive paths of the same kind as the above, each with its own rule for
what it drops.

### Command line - `Communication/Terminal.c`, `CommandHandler.c`, `List/CommandList.c`, `GlobalVarHandler.c`
State: the line being edited, the cursor, flags of the keys that came, the command history;
the words of the last command; the global variables. Operations: take what the rx buffer
holds, edit, complete, recall; split a line and call the command's function; set and get a
variable, with conversion and range check. Sequential; hard at its limits and in its orders:
several keys in one batch, a full line, the cursor at an end, a history that wraps, values at
the edge of their range, spaces too many. Correct when: each key does to the line what it
should, whatever it came together with; a variable that a command says it set has the value
that was typed. The trace buffer is switched off (`options.h:790`).

### Menu and applications - `Application/Logic.c`, `SmallApps.c`, `Snake.c`, `Display/DisplayHandler.c`
State: the shown application, the application to come, the schedule of the display task, a
state per application (the game's matrix, the clock's setting, ...). Operations: a press of a
button goes to the shown application; the display task initialises and draws it and sets its
own next run; the clock requests the display each second or minute. Hard: three tasks write
the schedule of one, and each of its runs clears it. Correct when: what was chosen is drawn,
an animation goes on, and the snake is in one piece.

### System time - `Modules/SysTime.c`, `Common/Helper/DateTime.c`
State: date and time. Operations: step a second, set, add and subtract from the clock
application, compare and subtract. Hard: the ends of months and years. Correct when: the
difference of two times is the time that passed (over the turn of a year it is not).

### Libraries - `LinkedList.c`, `Queue.c`, `MemHandler.c`, `StringHelper.c`, `MathHelper.c`
A doubly linked list over a fixed store, correct when it is a list of values whatever was
removed in between; pure functions on strings and memory, of which the model has what the
command line uses. `Queue.c` is unfinished.

### Other peripherals - `IO.c`, `SwWatchDog.c`, `ADC.c`, displays
Outputs with polarity and blinking; a watchdog in the SysTick interrupt, switched off
(`options.h:637`); pixel layout.

How they interact: interrupts put characters and clicks and *request* tasks; the scheduler
runs tasks in list order; tasks call each other's modules directly (command bodies call
Motor, IO, TaskHandler; the button handler calls the menu or the remote control) and
reschedule each other through the TaskHandler API. `PROJECT.json` lists every part, the
ones without a model too, and the hazards at their lines.

## 2. Modules

| Module | What it models | Uses |
|---|---|---|
| `ByteFifo` | abstract: a bounded queue of characters and the replies of its calls | |
| `CircularBuffer` | the counter arithmetic as operators: fullness, wrap, the two ways to drop | |
| `CircularBufferApi` | the buffer with one action per API function; implements `ByteFifo` | CircularBuffer |
| `UartRx` | receive interrupt against the command task, one read of `writeCnt` per step | CircularBuffer |
| `UartTx` | `SendMessage` against the transmit interrupt, one counter access per step | CircularBuffer |
| `TaskHandler` | scheduler, statement by statement, and the effect of each API function | |
| `TaskSystem` | the scheduler under arbitrary tasks and interrupts | TaskHandler |
| `ButtonTask` | the button task, its interrupt and the pins, in the scheduler | TaskHandler |
| `Interrupts` | what an interrupt and the main loop share, one source of interrupts in a behaviour | UartRx, UartTx, ButtonTask |
| `Motor`, `RemoteController` | control and actual state; wanted state and its messages | |
| `CarSystem` | remote, link and car with its three tasks in the scheduler | TaskHandler, Motor, RemoteController |
| `WifiModule` | external: the ESP8266 module and the TCP server behind it | |
| `Esp8266` | the Wi-Fi client: its state machine, requests to send, the reconnect command | WifiModule |
| `LineEditor` | abstract: a line, a cursor, recallable commands, what each key does | |
| `Terminal` | one turn of `Terminal_CheckCommand` on a batch of characters; implements `LineEditor` | |
| `CommandHandler` | cutting, trimming, splitting and looking up a command line | |
| `GlobalVariables` | the commands set and get on a variable of each type | CommandHandler |
| `ValueList` | abstract: a list of values | |
| `LinkedList` | add and remove, pointer by pointer; implements `ValueList` | |
| `Calendar` | system time: its step, its setters, the difference of two times | |
| `Snake` | the game, as operators on its state | |
| `UserInterface` | menu, applications and the three tasks that run them | Snake |
| `MainLoop` | the components only the main loop runs, in one run | CircularBufferApi, Terminal, LinkedList, Calendar, UserInterface, GlobalVariables |
| `*Proof` | the theorems about the module they extend | |
| `MC*` | constants for TLC | |

### Correspondence of state and actions

*Characters* are their numbers in the order in which they were accepted, so order, loss and
doubling are all visible; `newlines` is the set of the numbers that are line ends, `nuls` that of the
NUL characters, behind which the task finds no line end (`StringHelper.c:1909`).
`CircularBufferApi`, where contents matter to replies, has two characters and NUL instead.

*Grain.* An interrupt handler is one step: interrupts of these boards do not nest in this
build. A task is cut where it reads or writes something an interrupt changes. So `UartRx`
has one step per evaluation of a loop condition of `CircularBuffer_GetString` (each reads
`writeCnt` again) and `UartTx` one per statement of `PutChar`, with `writeCnt = size` between
the increment and the wrap. `TaskHandler` has a step for the check of a task, for disabling a
run-once task, for clearing its request, and for the end of its run. What happens between
`RunTask_ClearRequest` and `RunTask_End` belongs to the module that uses the scheduler.

*Flags and masks* are sets of tasks or of buttons. *Time* is the number of ticks since the
main loop last looked (`elapsed`). `owed`, `accepted`, `consumed`, `put`, `sent`, `reported`,
`edges`, `silence`, `inputs` and `lost` are history variables: no action of the program reads
them.

*Car.* The unit of time is 50 ms, the period of the motor task: the timeout is 10 units and
the remote repeats itself every 6. Angles and speeds keep the ratios that matter: servo steps
are twice the remote's increments, and the speed reaches its limit in one increment.

*Wi-Fi client.* A run of the task is two steps: `Run` copies the receive buffer, `Process` handles the
copy, and what arrives in between is in the buffer but not in the copy. `line` is the transmit buffer of 512
characters, in units of the 96 that leave it in the shortest period, 100 ms at 9600 baud (`board.h:938`): a
command or the login is one unit, a message (up to 499 characters) one or more. `Put` puts what fits;
`SendMessage` then keeps the flag and puts the whole message again at the next poll. `HasLeft` says how much
of the buffer is gone before the next run: all of it in a second, a unit at least in 100 ms. `Process`
is one of the state machine's cases: the cases that only send a command are one action with a table, so
are the checks of the configuration commands. `WifiModule` is written from what the client sends and expects;
it may answer late (the task runs before it has answered), refuse a command, and lose the link at any
time. In data mode everything it gets is for the server; in command mode a text without CR LF, as the login
is, has no answer and begins the line that the next text ends. The reconnect command comes in any mode.

*Interrupts.* The two directions of a UART and the buttons share no state with each other, so `Interrupts`
lets one source be active in each behaviour, like `MainLoop` below.

*Main loop.* The buffer's callers, the terminal, the list, the calendar, the applications and the
command line run in the main loop alone and share no state. `MainLoop` lets one of them run in each
behaviour: the state spaces add up and are not multiplied. Where they do meet, at
`Task_Display`, the tasks that meet are in one module, `UserInterface`.

*Terminal.* A turn of `Terminal_CheckCommand` is one step on a *batch*, the characters that came since
the last one: it processes them up to the first key, drops the rest, sets flags, and handles one
flag, the first in its order of priority. Letters are model values. The line has the 255 places of the
array (`MaxLength`). Two statements write the byte behind it, Enter on a full line (`Terminal.c:439`) and a
letter inserted into a line of 254 (`498`, `501`): `WritesBehind` finds them, and the model records the
write (`overrun`) and ends, since what lies there is the linker's choice.

*Pointers* of the linked list are indices of the store, or `Null`. *Calendar*: the lengths of minute,
hour, day and months are constants. *Applications*: a run of a task is a step; pictures, letters, lamps
and the elevator's level change nothing but the drawing and are left out; `ui` holds the flags of
`Task_Display`, and whether its period is over is left open.

*Command lines* are sequences of words and spaces. A word is the form of its text (decimal, negative,
hexadecimal, binary with its length, other) with the number or the name it writes, so a conversion is
what it makes of each form and of each number beyond its range or with too many digits (`long`); `CmdH_CommandArguments` holds the words
where the code has pointers into the line. A variable is a record of `GlobVarH_VarList`, its value the
word in memory. A line that is empty up to its end does not occur: no caller passes one.

## 3. Runs

| Run | Question | Result |
|---|---|---|
| `main_loop` | Is the buffer a FIFO for calls that do not overlap, the terminal a line editor, the linked list a list, a time difference within a year the time elapsed, the snake in one piece, the shown application alive, and a set variable what was typed? | yes, with the exceptions below |
| `interrupts` | Does the receive path keep, copy, execute and drop the right characters, is accepted text sent once, in order, and never left over a disabled interrupt, and are presses checked, reported once, and as what they were? | yes |
| `uart_rx_two_lines` | Is each line executed when lines come without a pause? | no |
| `uart_tx_back_to_back` | Also when two interrupts fall into one statement of `PutChar`? | no |
| `task_system` | Are requests served, periods kept, single runs single? | yes |
| `task_once_race` | Also of tasks that an interrupt requests? | no |
| `button_click_lost` | Is every click recorded? | no |
| `car` | Does the car stop when silent, run when heard, never reverse at speed, and follow? | yes |
| `esp8266` | Does the client set up despite faults, get the end of each message out once and in order, and not keep one that fits? | yes |
| `esp8266_login` | Is the login message the first of each connection? | no |
| `calendar_year_turn` | Is a difference the time elapsed over the turn of a year, too? | no |
| `linked_list_refuses` | Is a value refused only when the store is full? | no |

**What the seven disagreements are.**

* `uart_rx_two_lines`. The command task executes one line per run and a request is a flag,
  so of two lines received before the run the second waits for a further character. In the
  polled build it is executed at the next poll. `interrupts` therefore claims `EachLineExecuted`
  of the polled build, and of the request-driven build with a sender that awaits its
  answers. The `car` run meets the same effect: see `NoFalseStop`.
* `uart_tx_back_to_back`. `PutChar` increments `writeCnt` and wraps it in a later statement.
  If the interrupt takes the last character in between and comes a second time before the
  wrap, it takes the empty buffer for one with characters and sends an old one. This needs
  the shift register to be idle, so that the data register empties at once; `interrupts`
  excludes the second interrupt in that instant (`BackToBack = FALSE`).
* `task_once_race`. An interrupt's request between the statements that disable a run-once
  task and clear its request enables the task again and loses the flag: the task, still
  due by its tick, runs once more than it was asked to.
* `esp8266_login`. The login message is requested like any other message. If another task has
  put one into the transmit buffer while the client waited for the prompt, the login is refused,
  but the flag says it was sent: the server gets that message and never a login. The options say
  "Send "login" message after TCP connection" (`Inc/options.h:920`).
* `button_click_lost`. The task ends by clearing the whole click mask and then disabling
  itself: a click after its button was looked at is erased, or its request is.
* `calendar_year_turn`. February gets its additional day in the years that are *not* leap years
  (`DateTime.c:517`, whose branch says "February and leap year"), while whole years are counted rightly:
  "elapsed seconds" (`408`) are a day off over the turn of a year, and after an ordinary year the later
  of two times comes out as the former.
* `linked_list_refuses`. The free position is tested with `> 0` (`LinkedList.c:118`), so slot 0 is taken by
  an empty list only: once it was given back and others are in use, every add is refused, although the
  comment of that branch is "Full, no free space" (`132`).

**Properties worth a note.**

* `RxTypeOK` and `TxTypeOK` are about indexing: the counters are slots at every
  statement at which either side uses them, except `writeCnt = Size` before the wrap.
* `NoneRefused`: a sender that awaits answers and keeps lines within `MaxLine` never
  overflows the buffer. A sender that does not may, and the driver ignores that result.
* `EachLineExecuted` speaks of lines before a NUL character. The interrupt takes any byte, the search for a
  line end stops at a NUL (`StringHelper.c:1909`), and what it stopped at is never dropped: no later line is
  executed.
* `PeriodicTaskRuns` is checked of a task at the end of the list, behind tasks of every other kind, whose
  tick comes up to the modulus; its period and the longest pass together must stay below that.
* `PressedIsChecked`: `RunTask` disables the run-once button task before each run and the
  task enables itself again by the last button that wants it; the invariant says that a
  recorded press is never left with a sleeping task.
* `StopsWhenSilent`: the bound is the timeout and twice the time a turn of the loop may take.
  It holds in every order of the timeout, the commands and the motor task. The slide mode is
  excepted in the property because it is excepted in the code: the timeout clears the control
  state, and the mode sets it again in the next run.
* `NoFalseStop`: with no message lost, the timeout runs only while a line waits in the rx
  buffer. That exception is needed: a slide command right before a drive message leaves the
  latter waiting for the next one (the effect of `uart_rx_two_lines`), and the timeout is
  faster.
* `FollowsRemote` asks for the servo only to be within one step: it moves by 10 towards
  multiples of 5 and swings about an odd one for ever.
* `SentOnce` counts the end of a message: parts of one that did not fit are put again, and the server gets
  them more than once (`ESP8266.c:2073`). `RequestSent` therefore speaks of messages no longer than what leaves in
  a period, and of a connection in use (`Steady`): starting the data connection frees the buffer
  (`1905`), and a line before the prompt stays in the receive buffer for ever (`1932`, which its comment admits).
* `SetsUp` ends where data mode begins: a reconnect command in data mode sends its commands to the server
  as text (`1580`-`1633` ask for no mode), and the client polls until the link breaks.
* That the client notices a broken link is not claimed: an `Unlink` behind a line of the server is dropped with it
  (`2021`), one that comes with the prompt is cleared with it (`1925`), and a text without CR LF then
  gets no "wrong syntax" from a module in command mode.
* `ImplementsEditor` relates the arrays that are shifted in place, the cursor and the counters that
  wrap to a text with a cursor and a list of commands, until a byte behind the array is written. What the code
  really does is in the abstract editor: Delete does nothing at the first position. `ESC [ 3` without a tilde swallows every later byte (`Terminal.c:404`): a line that takes no
  keys is still a line, so the property holds of it.
* `KeysAreHandled`: one flag is handled per batch. A key is left for a later run, and takes the place
  of the key of that run, only after a letter typed *inside* the line came together with a key
  (`mixed`): that letter sets a flag of its own.
* `ImplementsList` says that an add appends the value or changes nothing, and that both directions of
  pointers give the same items; when an add may be refused is the question of `linked_list_refuses`.
* `DifferenceWithinYear`: a step of the clock that stays in its year adds one to the difference, so clock and
  calculation agree on the length of every month, February included, wrong as it is. It claims nothing of days
  that the month does not have, which the setters accept.
* `DisplayRunsAgain`: every run of the display task clears its request and its single run. The
  exceptions it states are in the code: the elevator puts the task to sleep from its button events, too
  (`SmallApps.c:1182`), and the traffic light stops after a run on request (`SmallApps.c:926`).
* `SnakeIsAPath`: the game is stepped by the button task and by every run of the display task, those
  on request of the clock included, and can be lost in either.
* `SetIsShown`: a command that answers with success was a set of this variable and stored what
  stands between the second and the third space; any other line leaves the value alone. A third word that
  is empty, because of a second space before the value, says 0 and is accepted as such
  (`StringHelper.c:1079`, `:2007`), and for a string it is answered with success and nothing is written
  (`:1642`); numbers beyond 32 bits wrap, and of a hexadecimal one only nine digits are read (`:1032`); words beyond the third are not seen. Of a
  bit group, what is shown lacks the highest bit, which can be set but not cleared
  (`GlobalVarHandler.c:988`, `:568`): the property says so, and that the neighbours of the group are kept.
* The ramp of the motor's speed is unreachable code (`Motor.c:503`, see the hazards): the
  model jumps, as the code does.

**Bounds, and why they are enough.** A ring of 4 or 5 slots has every alignment of the two
counters, both wraps, and a full and an empty buffer in each; 7 to 9 characters go round it
more than once. `ProcessSize = Size` as in the sources. Four tasks in `task_system` are one of
each kind, the periodic one at the end of the list behind an event-driven one that an interrupt requests, a
timeout and a run-once task; its period is 3 and a pass takes 2 at most, so that its tick comes up to the
modulus of 5, and the ticks of the others, which may not run, wrap; one call per run, of every kind, on every task that the kind allows. Two buttons are what "the last
one decides" needs, and limits of 1 and 2 steps give all three kinds of press. In `car`,
three inputs reach forward - stop - backward, limits at both ends and the slide mode on and
off; one loss is what it takes to skip the stop. Buttons are not pressed while a message is
unexecuted (`MaxLink = 0`), but the periodic message may follow at once.
In `esp8266` two faults and a reconnect command are enough for a fault in the recovery from another
one, two messages for an order, one text of the server to stand before an `Unlink`; messages of one unit and of
two in a buffer of two fit, fit in part, and do not fit at all; the limits of polls are 1 to 3 instead of 3 to 20
and keep every branch, that of a repeated question for the address (`IpRetry < IpLimit`) included; the receive
buffer has room for three texts.
In `main_loop`, a line of 3 places has a beginning, an inside and a full end, behind which both statements
write, and a history of 2
wraps with each save; batches are a key or a letter alone, a letter and one more, or a key and one more,
and sequences that are cut; at most one flag waits, and the commands that reach the history are two.
A store of 4 leaves three items to remove in every order beside slot 0. A day has 2 hours of 2
minutes of 3 seconds, and the years 2 to 5 of months with 3, 2 and 3 days contain an ordinary year before a
leap year and one after it. A field of 5 by 2 is the least that holds the first snake; three gifts make it six
points long, enough to meet itself. Each behaviour opens one or two applications: all that they share is the
display task. `Width` is 4 bits in place of 32 and numbers go to 17, past every limit and every wrap, with too many digits, too; there is
one variable of each type, of types shorter than the width, with limits, and read-only; the typed lines are
the regular ones and those with spaces, words or line ends too many or too few.
`CHECK_DEADLOCK FALSE` appears where a bounded number of characters has been sent and all
is done; the scheduler modules never stop.

**Fairness.** Weak fairness of the main loop: the processor returns to it after every
interrupt, and no task blocks (a task that does not return stops the system; that is
a watchdog's concern). Weak fairness of SysTick, where time matters. In `UartTx` a pending
interrupt is served and the transmitter finishes its character. In `CarSystem` the remote's
main loop goes on as well and the link delivers what it does not lose, of which there is a
bounded number. In `Esp8266` the task runs again and again (it is periodic and never disabled) and the module goes
on answering; late answers, refusals and broken links are bounded (`MaxFaults`).
Nothing is assumed of senders, buttons and operators.

## 4. Proofs

All for every value of the constants that the modules' assumptions allow, and every length of a
behaviour. Each theorem is `Spec => []P` (or an action property, or the specification of an abstract
module) and rests on three facts: `Init => Inv`, `Inv /\ [Next]_vars => Inv'` and `Inv => P`, where `Inv`
is an invariant that, unlike `P`, is inductive. Every invariant was checked by TLC first, on the
instances of the runs.

### Interrupts against the main loop

* `CircularBufferProof`: the arithmetic. `IsFullExact` and `IsNotEmptyExact` say that the case
  distinctions of the code count the content; `PutAdds`, `PutSpares` and `DropRemoves` say
  what moving a counter does to content and positions; `DropExact` says that dropping no more
  than the content drops exactly that, at every alignment. Assumption: `Size` from 2 to
  65535 (the counters are 16-bit).
* `UartRxProof`: `TypeCorrect`, `RxNoLoss`, `RxCopiesOldest`, `RxDropsExecutedOnly`, `RxNoneRefused`.
  The invariant `RxInv` adds to the claims what each read of `writeCnt` still means when it is used
  (`PcInv`): a wrapped content stays wrapped, since `writeCnt` cannot pass `readCnt`; a straight
  one may wrap during the copy, but then the copy ends early and what is dropped lies before
  the end of the buffer. Without `PcInv` no claim is inductive: the drop uses a comparison that
  may no longer be true. `NoneRefused` needs `SenderInv`, which bounds what lies in the buffer by the line
  begun and the one the task is still dropping; its theorem assumes `2 * MaxLine < Size`, that both fit
  beside the empty slot.
* `UartTxProof`: `TxTypeCorrect`, and, under `~BackToBack`, `TxLosesNothing`, `TxNoStall`, `TxSendsInOrder`. The
  invariant says that the free slot `IsFull` found stays free although `readCnt` moves, that before the
  wrap `readCnt` can only be 0 by the one character sent in that instant (`WindowInv`), and that
  with TXE disabled over waiting text the main loop is still on its way to enable it
  (`StallInv`). The assumption is necessary: `uart_tx_back_to_back` violates the claim without it.
* `TaskSystemProof`: `TypeCorrect`, `RequestsStayAwake`, `OnceWithoutInterrupt`, for every task
  list and all sets of calls. `NoSleepingRequest` is inductive by itself; `OnceMeansOnce` needs
  `OnceInvariant`: while nothing is owed to a task there is no request, and a single run is
  disabled.
* `ButtonTaskProof`: `PressIsChecked`, `EdgeReportedOnce`, `ContinuousStaysSo`, for any number of buttons
  up to the width of the mask. That a press is never left with a sleeping task depends on all
  buttons: `CheckInv` says that a run that has passed a recorded press will not sleep, wherever the
  interrupt falls. `EdgesInv`: a click without an edge is one that this run has passed and is about to clear.
  The last one needs `LongLimit <= ContinuousLimit` (`ButtonAssumption`; 400 and 1000 ms).

### The car

* `CarTypeCorrect`: with `MotorAssumption`, `RemoteAssumption` and `TimingAssumption`, which the sources' limits
  satisfy, no percent leaves a `uint8_t` and no angle an `int8_t`. The type alone is not inductive: `MotorInv`
  holds the control state to the limits and the servo to one step beyond them.
* `NeverReverses` follows from the types, for every order of commands, losses and slides.
* `CarStopsWhenSilent`. `ScheduleInv` says what the scheduler does to the two tasks: the motor task runs
  in each turn, and the timeout's tick is below its rate outside the turn that runs it. `SilenceInv` says that the
  control state is no older than the tick, and that the outputs follow it within one turn.
* `CarNotStopped`, under `SendPeriod + LinkBound < TimeoutRate`, where `LinkBound` is the time a message
  may spend behind slide commands. With 300 ms between messages and a timeout of 500 ms the sources leave
  200 ms for the link. `PeriodInv` places a drive message: with none under way the timeout is not ahead
  of the remote's period, with one it is not beyond what the messages before it need.

### The Wi-Fi client

* `Esp8266Proof`: `SendsOnce`, `PollsEverySecond`, `ClientTypeCorrect`, for all limits of polls and any number of
  messages, faults and reconnect commands. `OnceInv` orders the ends of messages by where they are: at the
  server before on the line, on the line before in the message buffer, and none beyond the numbers
  given, with only an end put once freeing that buffer; `SentOnce` alone does not survive the step in which
  the unit on the line arrives.
  `PollInv` adds `PrintMyIpAddress`, which lies between two waiting states and keeps the period.
  `ClientInv` has the texts the module may send, that the copy is the head of the receive buffer, that
  a buffer that is not free holds a message, and that the transmit buffer keeps its room. The model of the module is part of the theorems: it passes on
  what it gets, once. `LimitsAssumption`: each limit fits into a `uint8_t`.

### The main loop's components

`MainLoopProof`. Each component has an invariant of its own, which the turns of the others leave alone.
tlapm has no induction rule that its provers can use; where one is needed the proof takes the least
number at which a fact fails (`LeastNumber`, from the library's `NatLessThanWellFounded`) and shows that there
is none, and a function defined by recursion is shown to exist up to each number before it is used.

* `SnakeStaysAPath`, `UiTypeCorrect`, `DisplayKeepsRunning` (`UiInv`). The model's `IsAPath` follows the arrows
  from the snake's end and is not inductive as such; `PathOf` has the path as a function from `0 .. n` to points,
  without a repetition, and there is one proof for each way it changes: the head moves and the end follows,
  or it does not. That the gift has a place and the score its length come from the same function.
  `UiInv` also says that a game in progress is the application shown, with its menu closed (`IsPlayed`).
* `KeysTakeEffect`: what a batch leaves in the flags, by its characters; `KeysInv` is the property with a type.
* `ListKeepsItsOrder`: `LinkedListSpec` implements `ValueList`. `IsList` has the sequence of the slots, to which
  both directions of pointers, the free slots and the two ends are related; what an addition and a removal do to
  the pointers is shown once to be what they do to that sequence (`ListGrows`, `ListShrinks`).
* `BufferIsAQueue`: `CircularBufferApi` implements `ByteFifo`, replies included. The content is the
  function of the counters that `CircularBufferProof` reasons about; the loops of `PutString` and `GetString`
  are functions of the number of characters handled, each of which keeps that relation.
* `CalendarTypeCorrect`, `CalendarCountsSeconds`, for units and months of any length. Of two times in one
  year a step of the clock apart, the sums of the months' lengths cancel. `CalendarAssumption` asks for `YearMax < LastYear` (the setters stop at
  50, the counter wraps after 99): without it a step would leave the range that is claimed.
* `TerminalTypeCorrect`, `TerminalIsAnEditor`: `Terminal` implements `LineEditor`. `TerminalInv` adds to the type
  that the places before `actualLength` hold letters and that no entry of the history is a full line, until
  `overrun`. The
  characters of a batch are handled one after the other, each with the line and the waiting keys it leaves
  (`BatchDone`); then the one flag that is handled does what `Pressed` says, key by key: the shifts in the
  array are the insertion and the removal of a letter, the wrapping counters the turning of the history.
  `TerminalAssumption`: every command name and every initial entry fits (255 characters; the longest name has 17).
* `GlobalVariablesTypeCorrect`: no line makes a variable leave the bits, the limits or the array of its type, and
  the splitter does not count beyond its places. `GlobalVariablesAssumption` is what
  `GlobVarH_CheckGlobalVarArray` asserts of the list at the start. `CommandHandlerAssumption` asks for two
  places or more: with one, a line of a single space would take a second (the sources have three).
* `SetShowsWhatItStored`, in three parts. The splitter: after each character the words found so far are those a
  reader takes from the line (`Follows`), its number being that of the spaces; the assumption on `Lines` is
  that between two words stands a space, which the abstraction of a text to words and spaces means. The numbers:
  what `CheckValue` lets pass is not changed when it is cut to the bits of its type, and a signed number comes
  back with its sign (`CutToType`, `SignedBack`). The bits: a word has the bits it was put together from
  (`BitsOfWord`), a number moved up has none below its place (`MovedUp`), and words with the same bits in a group
  show the same number (`SameField`); so the neighbours of a group keep theirs.
* `MainLoopTypeCorrect` joins the type invariants.

The abstract modules `ByteFifo`, `LineEditor` and `ValueList` extend nothing but `Integers` and `Sequences`: an
instance brings every operator of the modules it extends into each obligation.

### Not proved

All liveness (`EachLineExecuted`, `AllSent`, `RequestServed`, `PeriodicTaskRuns`, `ReleaseReported`,
`FollowsRemote`, `SetsUp`, `RequestSent`) needs fairness and ENABLED, which are beyond the
prover; TLC checks it. Every other property of the runs that pass is stated by a theorem, for every value
of the constants.

## 5. Plan

Of the proofs, that liveness which can be bounded: a count of turns, as `StopsWhenSilent` does for the car,
is a safety property and within the prover's reach.
Then the model further: the client's receive buffer character by character, its normal mode with
`SEND OK`; the transfer to the display with its interrupt; the outputs; and what the options now switch
off (events and their log, the software watchdog, GSM), if they are switched on.

## 6. Not modelled

What follows a write behind the terminal's line. Registers, clocks and pins beyond what a property needs; formatting, text of answers and
logging; display contents; vendored code (CMSIS, HAL, FreeRTOS), `Old/` and host tools. UART
errors count as a lost character. EXTI lines do not nest. Printing in the command task is
left out of `CarSystem`, and the car receives over the serial line of `UartRx`, of which a whole
line is one delivery there. Code that no configuration compiles or calls has no behaviour to model: GSM,
Bluetooth and `CommonUART` (`options.h:56`, `67`, `463`), the software watchdog and the trace of variables
(`637`, `790`), the event log outside the Discovery board, `Queue.c`, whose put and get end in stubs. Home
automation messages are formatted and sent, and read by their unit test alone; the same holds of the
coordinate of the GPS receiver. The reason for every part is in `PROJECT.json`.
