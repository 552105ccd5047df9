----------------------------- MODULE Interrupts ------------------------------
(***************************************************************************)
(* What an interrupt and the main loop share: the rx buffer of a UART      *)
(* (RXNE), its tx buffer (TXE) and the buttons (EXTI).  The three share no *)
(* state with each other: in a behaviour one source of interrupts is       *)
(* active and the others rest, so that every state of each is reached and  *)
(* not every combination.                                                  *)
(***************************************************************************)
EXTENDS UartRx, UartTx, ButtonTask

VARIABLE active    \* the source of interrupts of this behaviour

interruptVars == <<active, rxVars, txVars, allVars>>

InterruptsInit ==
    /\ active \in {"RXNE", "TXE", "EXTI"}
    /\ RxInit /\ TxInit /\ ButtonInit
    /\ active = "RXNE" \/ mode = CHOOSE m \in Modes : TRUE

Receiving == active = "RXNE" /\ UNCHANGED <<active, txVars, allVars>>
Transmitting == active = "TXE" /\ UNCHANGED <<active, rxVars, allVars>>
Pressing == active = "EXTI" /\ UNCHANGED <<active, rxVars, txVars>>

ReceiveTask == Task /\ Receiving
ReceiveInterrupt == (\E char \in Chars : UART_Handler(char)) /\ Receiving

SendTask == (\E n \in 1 .. MaxMessage : SendMessage(n)) /\ Transmitting
SendLoop == TxMainLoop /\ Transmitting
SendInterrupt == UART_Handler_TXE /\ Transmitting
ShiftOut == Transmitted /\ Transmitting

ButtonLoop == MainLoop /\ Pressing
ButtonTick == SysTick /\ Pressing
ButtonInterrupt == (\E x \in Buttons : Press(x) \/ Release(x)) /\ Pressing

InterruptsNext ==
    \/ ReceiveTask \/ ReceiveInterrupt
    \/ SendTask \/ SendLoop \/ SendInterrupt \/ ShiftOut
    \/ ButtonLoop \/ ButtonTick \/ ButtonInterrupt

\* The fairness of the three: of the main loop, of time, of a pending interrupt and
\* of the transmitter, and none of whoever sends or presses.
InterruptsSpec ==
    /\ InterruptsInit /\ [][InterruptsNext]_interruptVars
    /\ WF_interruptVars(ReceiveTask)
    /\ WF_interruptVars(SendLoop) /\ WF_interruptVars(SendInterrupt) /\ WF_interruptVars(ShiftOut)
    /\ WF_interruptVars(ButtonLoop) /\ WF_interruptVars(ButtonTick)
=============================================================================
