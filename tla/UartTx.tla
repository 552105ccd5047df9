------------------------------- MODULE UartTx -------------------------------
(***************************************************************************)
(* The transmit path of a UART: the main loop puts a message into the tx   *)
(* CircularBuffer and enables the TXE interrupt (DebugUart_SendMessage);   *)
(* UART_Handler takes one character per interrupt and disables TXE when    *)
(* it finds the buffer empty.                                              *)
(*                                                                         *)
(* PutChar runs in the main loop, so the interrupt may come between any    *)
(* two of its accesses to the volatile counters; in particular between     *)
(* writeCnt++ and the wrap of writeCnt, when writeCnt may be Size.         *)
(* Characters are numbered in the order in which they are accepted.        *)
(***************************************************************************)
EXTENDS CircularBuffer

CONSTANTS
    BackToBack,   \* the transmitter may finish a character between two
                  \* statements of PutChar and interrupt a second time
    MaxMessage,   \* bound: longest message
    TxMaxChars    \* bound: characters accepted

ASSUME BackToBackAssumption == BackToBack \in BOOLEAN
ASSUME MaxAssumption == MaxMessage \in Nat \ {0} /\ TxMaxChars \in Nat

VARIABLES
    txBuffer, txReadCnt, txWriteCnt,   \* the tx CircularBuffer
    txeEnabled,   \* the TXE interrupt source is enabled
    txReady,      \* the data register is empty: the TXE flag
    txPc,         \* where DebugUart_SendMessage is
    left, count,  \* PutString: characters still to put, characters put
    put,          \* characters accepted since the start
    sent,         \* characters handed to the data register since the start
    lastSent      \* the last one of them

txRing == <<txBuffer, txReadCnt, txWriteCnt>>
txVars == <<txRing, txeEnabled, txReady, txPc, left, count, put, sent, lastSent>>

TxInit ==
    /\ txBuffer = [s \in Slots |-> 0] /\ txReadCnt = 0 /\ txWriteCnt = 0
    /\ txeEnabled = FALSE /\ txReady = TRUE
    /\ txPc = "idle" /\ left = 0 /\ count = 0
    /\ put = 0 /\ sent = 0 /\ lastSent = 0
-----------------------------------------------------------------------------
Goto(label) == txPc' = label

SendMessage(n) ==
    /\ txPc = "idle" /\ put + n <= TxMaxChars
    /\ left' = n /\ count' = 0 /\ Goto("put")
    /\ UNCHANGED <<txRing, txeEnabled, txReady, put, sent, lastSent>>

\* Variant: TXE is enabled only for a message that was accepted whole.
Finish_WholeOnly == Goto(IF left = 0 THEN "enable" ELSE "idle")

\* PutString returned; SendMessage enables TXE if anything was put.
Finish == Goto(IF count > 0 THEN "enable" ELSE "idle")

\* The loop of PutString, with the first read of readCnt in IsFull.
PutString ==
    /\ txPc = "put"
    /\ IF left = 0 THEN Finish
       ELSE IF txReadCnt > 0 THEN Goto("fullAbove") ELSE Goto("fullAtZero")
    /\ UNCHANGED <<txRing, txeEnabled, txReady, left, count, put, sent, lastSent>>

\* Variant: the branch for readCnt = 0 forgets the slot kept empty.
SeenFull_NoGapAtZero == IF txPc = "fullAbove" THEN txWriteCnt = txReadCnt - 1 ELSE txWriteCnt = Size

\* IsFull reads the counters again after its first look at readCnt.
SeenFull == IF txPc = "fullAbove" THEN txWriteCnt = txReadCnt - 1 ELSE txWriteCnt = Size - 1

PutChar_IsFull ==
    /\ txPc \in {"fullAbove", "fullAtZero"}
    /\ IF SeenFull THEN Finish ELSE Goto("store")
    /\ UNCHANGED <<txRing, txeEnabled, txReady, left, count, put, sent, lastSent>>

PutChar_Store ==
    /\ txPc = "store"
    /\ txBuffer' = [txBuffer EXCEPT ![txWriteCnt] = put + 1]
    /\ Goto("increment")
    /\ UNCHANGED <<txReadCnt, txWriteCnt, txeEnabled, txReady, left, count, put, sent, lastSent>>

PutChar_Increment ==
    /\ txPc = "increment"
    /\ txWriteCnt' = txWriteCnt + 1
    /\ put' = put + 1
    /\ Goto("wrap")
    /\ UNCHANGED <<txBuffer, txReadCnt, txeEnabled, txReady, left, count, sent, lastSent>>

PutChar_Wrap ==
    /\ txPc = "wrap"
    /\ txWriteCnt' = Wrap(txWriteCnt)
    /\ left' = left - 1 /\ count' = count + 1
    /\ Goto("put")
    /\ UNCHANGED <<txBuffer, txReadCnt, txeEnabled, txReady, put, sent, lastSent>>

SendEnable ==
    /\ txPc = "enable"
    /\ txeEnabled' = TRUE
    /\ Goto("idle")
    /\ UNCHANGED <<txRing, txReady, left, count, put, sent, lastSent>>
-----------------------------------------------------------------------------
\* Variant: readCnt is not wrapped at the end of the buffer but one later.
GetChar_LateWrap == txReadCnt' = IF txReadCnt + 1 > Size THEN 0 ELSE txReadCnt + 1

\* The interrupt is atomic for the main loop: both stores of GetChar in one.
GetChar == txReadCnt' = Wrap(txReadCnt + 1)

\* UART_Handler with TXE set.
UART_Handler_TXE ==
    /\ txeEnabled /\ txReady
    /\ IF IsNotEmpty(txReadCnt, txWriteCnt)
       THEN /\ lastSent' = txBuffer[txReadCnt]
            /\ sent' = sent + 1
            /\ GetChar
            /\ txReady' = FALSE
            /\ UNCHANGED txeEnabled
       ELSE /\ txeEnabled' = FALSE
            /\ UNCHANGED <<txReadCnt, txReady, sent, lastSent>>
    /\ UNCHANGED <<txBuffer, txWriteCnt, txPc, left, count, put>>

\* The data register moves on to the shift register.  Unless BackToBack, the
\* instant between increment and wrap is too short for that.
Transmitted ==
    /\ ~txReady
    /\ BackToBack \/ txPc # "wrap"
    /\ txReady' = TRUE
    /\ UNCHANGED <<txRing, txeEnabled, txPc, left, count, put, sent, lastSent>>

TxMainLoop ==
    \/ PutString \/ PutChar_IsFull \/ PutChar_Store \/ PutChar_Increment \/ PutChar_Wrap
    \/ SendEnable

TxNext == (\E n \in 1 .. MaxMessage : SendMessage(n)) \/ TxMainLoop \/ UART_Handler_TXE \/ Transmitted

TxSpec == TxInit /\ [][TxNext]_txVars

\* The processor returns to the main loop after every interrupt, a pending
\* interrupt is served, and the transmitter shifts out what it holds.
TxFairSpec == TxSpec /\ WF_txVars(TxMainLoop) /\ WF_txVars(UART_Handler_TXE) /\ WF_txVars(Transmitted)
-----------------------------------------------------------------------------
TxPCs == {"idle", "put", "fullAbove", "fullAtZero", "store", "increment", "wrap", "enable"}

\* The write counter once PutChar has wrapped it.
WriteSlot == Wrap(txWriteCnt)
Pending == Used(txReadCnt, WriteSlot)

Counters == txReadCnt \in Slots /\ txWriteCnt \in 0 .. Size /\ put \in Nat /\ sent \in Nat
Words == txBuffer \in [Slots -> Nat] /\ left \in Nat /\ count \in Nat /\ lastSent \in Nat
Flags == txeEnabled \in BOOLEAN /\ txReady \in BOOLEAN
Control == txPc \in TxPCs /\ (txPc # "wrap" => txWriteCnt # Size)

\* The type invariant: readCnt always indexes the buffer for the interrupt,
\* writeCnt does when PutChar stores, and is Size only before the wrap.
TxTypeOK == Counters /\ Words /\ Flags /\ Control

\* The slots from readCnt up hold the characters accepted and not yet sent, in
\* order, at every point of PutChar.
TxNoLoss ==
    /\ put - sent = Pending
    /\ \A k \in 0 .. Pending - 1 : txBuffer[SlotAfter(txReadCnt, k)] = sent + k + 1

\* The line carries the accepted characters in order, each once: CircularBuffer.c
\* promises of GetChar "get & drop", and of IsNotEmpty that true means a new
\* character.
SendsInOrder == [][sent' # sent => lastSent' = sent']_txVars

\* No lost wake-up: characters never wait in the buffer with TXE disabled and
\* nobody left to enable it, although TXE is disabled by the interrupt and
\* enabled only once per message.
NoStall == txPc = "idle" /\ put # sent => txeEnabled

\* Every accepted character is sent: as the messages end after TxMaxChars characters
\* at the latest, none waits in the end.
AllSent == put # sent ~> put = sent

\* What makes TxNoLoss and NoStall inductive.  A free slot found by IsFull stays
\* free, also when IsFull used a readCnt that has moved since; and in the
\* instant in which writeCnt is Size, readCnt can only have wrapped to 0 by the
\* one character sent in that instant, so the interrupt cannot see it.
TxPcInv ==
    /\ txPc = "fullAtZero" => txReadCnt <= txWriteCnt
    /\ txPc = "fullAbove" /\ txReadCnt = 0 => txWriteCnt < Size - 1
    /\ txPc \in {"store", "increment"} => ~IsFull(txReadCnt, txWriteCnt)
    /\ txPc = "increment" => txBuffer[txWriteCnt] = put + 1
    /\ txPc \in {"fullAtZero", "fullAbove", "store", "increment", "wrap"} => left > 0

WindowInv == txWriteCnt = Size /\ txReadCnt = 0 => ~txReady

StallInv == put # sent /\ ~txeEnabled => txPc = "wrap" \/ (txPc # "idle" /\ count > 0)

TxInv == TxTypeOK /\ TxNoLoss /\ TxPcInv /\ WindowInv /\ StallInv
=============================================================================
