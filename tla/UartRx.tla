------------------------------- MODULE UartRx -------------------------------
(***************************************************************************)
(* The receive path of a command UART: UART_Handler (UART.c) puts every    *)
(* received character into the rx CircularBuffer and requests the task;    *)
(* DebugUart_ProcessReceivedCharacters (DebugUart.c) copies the unread     *)
(* characters, executes the first complete line and drops it.              *)
(*                                                                         *)
(* The interrupt runs to its end between two steps of the task.  The task  *)
(* advances by one read of writeCnt, which is volatile and moves under it, *)
(* per step.  A character is represented by its number: the n-th accepted  *)
(* one is n, newlines has the numbers of the '\r' and '\n' and nuls those   *)
(* of the NUL characters, which end the text for the search of a line end. *)
(***************************************************************************)
EXTENDS CircularBuffer, FiniteSets

CONSTANTS
    ProcessSize,     \* DEBUGUART_PROCESS_BUFFER
    Modes,           \* how the task is scheduled, see mode
    Handshake,       \* the sender of a requested task awaits each answer
    MaxLine,         \* longest line, terminator included, of such a sender
    RxMaxChars         \* bound: characters the sender sends

ASSUME ProcessSizeAssumption == ProcessSize \in 2 .. 65535
ASSUME SenderAssumption ==
    /\ Modes \subseteq {"polled", "requested"} /\ Handshake \in BOOLEAN
    /\ MaxLine \in Nat /\ RxMaxChars \in Nat

VARIABLES
    mode,        \* "requested" with CONFIG_MODULE_UART_REQUIRE_TASKSCHEDULE_ENABLE
    buffer, readCnt, writeCnt,   \* the rx CircularBuffer
    requested,   \* Task_t.isRequestScheduling of the task
    rxPc,          \* where the task is
    recvBuf, rxI,  \* DebugUart_ProcessReceivedCharacters and GetString locals
    oldCnt,      \* GetString: characters copied up to the end of the buffer
    length,      \* DropCharacters: its argument
    accepted,    \* number of characters PutChar took
    consumed,    \* number of characters dropped by the task
    refused,     \* whether a character found the buffer full
    newlines, nuls,    \* which accepted characters are line ends, and which NUL
    answered     \* the last character of the last executed line

ring == <<buffer, readCnt, writeCnt>>
rxLocals == <<recvBuf, rxI, oldCnt, length>>
rxVars == <<mode, ring, requested, rxPc, rxLocals, accepted, consumed, refused, newlines, nuls, answered>>

Unread == Used(readCnt, writeCnt)
EmptyBuf == [k \in 0 .. ProcessSize - 1 |-> 0]

RequestDriven == mode = "requested"

RxInit ==
    /\ mode \in Modes
    /\ buffer = [s \in Slots |-> 0] /\ readCnt = 0 /\ writeCnt = 0
    /\ requested = FALSE /\ rxPc = "wait"
    /\ recvBuf = EmptyBuf /\ rxI = 0 /\ oldCnt = 0 /\ length = 0
    /\ accepted = 0 /\ consumed = 0 /\ refused = FALSE
    /\ newlines = {} /\ nuls = {} /\ answered = 0
-----------------------------------------------------------------------------
\* The kinds of characters the task tells apart.
Chars == {"newline", "NUL", "other"}

\* What a sender that awaits answers may send next: nothing while a line is
\* unanswered, and a line end before the line gets longer than MaxLine.
Allowed(char) ==
    Handshake /\ RequestDriven =>
        /\ \A n \in newlines : n <= answered
        /\ char = "newline" \/ accepted - answered < MaxLine - 1

Accept(char) ==
    /\ buffer' = [buffer EXCEPT ![writeCnt] = accepted + 1]
    /\ writeCnt' = Wrap(writeCnt + 1)
    /\ accepted' = accepted + 1
    /\ newlines' = IF char = "newline" THEN newlines \cup {accepted + 1} ELSE newlines
    /\ nuls' = IF char = "NUL" THEN nuls \cup {accepted + 1} ELSE nuls
    /\ UNCHANGED refused

\* Variant: the free slot is not checked.
PutChar_Unchecked(char) == Accept(char)

\* CircularBuffer_PutChar in the interrupt; its result is ignored.
PutChar(char) ==
    IF IsFull(readCnt, writeCnt)
    THEN refused' = TRUE /\ UNCHANGED <<buffer, writeCnt, accepted, newlines, nuls>>
    ELSE Accept(char)

\* Variant: the task is requested only when the buffer was empty.
UART_Handler_RequestWhenEmpty(char) ==
    /\ accepted < RxMaxChars /\ Allowed(char)
    /\ PutChar(char)
    /\ requested' = (requested \/ (RequestDriven /\ ~IsNotEmpty(readCnt, writeCnt)))
    /\ UNCHANGED <<mode, readCnt, rxPc, rxLocals, consumed, answered>>

\* UART_Handler with RXNE set and no line error: any byte is taken.
UART_Handler(char) ==
    /\ accepted < RxMaxChars /\ Allowed(char)
    /\ PutChar(char)
    /\ requested' = (requested \/ RequestDriven)
    /\ UNCHANGED <<mode, readCnt, rxPc, rxLocals, consumed, answered>>
-----------------------------------------------------------------------------
\* The scheduler runs the task: TaskHandler_RunTask clears the request first.
\* Without requests the task is polled.
RunTask ==
    /\ rxPc = "wait" /\ (requested \/ ~RequestDriven)
    /\ requested' = FALSE
    /\ rxPc' = IF IsNotEmpty(readCnt, writeCnt) THEN "select" ELSE "wait"
    /\ UNCHANGED <<ring, rxLocals, accepted, consumed, refused, newlines, nuls, answered>>

GetString_Select ==
    /\ rxPc = "select"
    /\ rxPc' = IF readCnt < writeCnt THEN "copyStraight" ELSE "copyToEnd"
    /\ UNCHANGED <<ring, requested, rxLocals, accepted, consumed, refused, newlines, nuls, answered>>

CopyFrom(slot) ==
    /\ recvBuf' = [recvBuf EXCEPT ![rxI] = buffer[slot]]
    /\ rxI' = rxI + 1
    /\ UNCHANGED <<rxPc, oldCnt>>

\* readCnt < writeCnt was read; writeCnt is read again for every character,
\* and when it has wrapped meanwhile the loop ends early.
GetString_CopyStraight ==
    /\ rxPc = "copyStraight"
    /\ IF rxI < writeCnt - readCnt /\ rxI < ProcessSize - 1
       THEN CopyFrom(readCnt + rxI)
       ELSE rxPc' = "scan" /\ UNCHANGED <<recvBuf, rxI, oldCnt>>
    /\ UNCHANGED <<ring, requested, length, accepted, consumed, refused, newlines, nuls, answered>>

GetString_CopyToEnd ==
    /\ rxPc = "copyToEnd"
    /\ IF rxI < Size - readCnt /\ rxI < ProcessSize - 1
       THEN CopyFrom(readCnt + rxI)
       ELSE rxPc' = "copyFromStart" /\ oldCnt' = rxI /\ UNCHANGED <<recvBuf, rxI>>
    /\ UNCHANGED <<ring, requested, length, accepted, consumed, refused, newlines, nuls, answered>>

\* Variant: the second run is not limited by writeCnt.
GetString_CopyFromStart_Unlimited ==
    /\ rxPc = "copyFromStart"
    /\ IF rxI - oldCnt < readCnt /\ rxI < ProcessSize - 1
       THEN CopyFrom(rxI - oldCnt)
       ELSE rxPc' = "scan" /\ UNCHANGED <<recvBuf, rxI, oldCnt>>
    /\ UNCHANGED <<ring, requested, length, accepted, consumed, refused, newlines, nuls, answered>>

GetString_CopyFromStart ==
    /\ rxPc = "copyFromStart"
    /\ IF rxI - oldCnt < writeCnt /\ rxI < ProcessSize - 1
       THEN CopyFrom(rxI - oldCnt)
       ELSE rxPc' = "scan" /\ UNCHANGED <<recvBuf, rxI, oldCnt>>
    /\ UNCHANGED <<ring, requested, length, accepted, consumed, refused, newlines, nuls, answered>>

\* The task function returns; its locals are gone.
RxReturn ==
    /\ rxPc' = "wait" /\ recvBuf' = EmptyBuf /\ rxI' = 0 /\ oldCnt' = 0 /\ length' = 0

IsNewline(k) == k < rxI /\ recvBuf[k] \in newlines

\* STRING_FindCharacters stops at a NUL: a line end behind one is not found.
IsFirstNewline(k) ==
    IsNewline(k) /\ \A j \in 0 .. k - 1 : ~IsNewline(j) /\ recvBuf[j] \notin nuls

\* Variant: a second line end is dropped whatever the next character is.
ProcessedLength_Always2(k) == k + 2

\* A "\r\n" is dropped whole when both characters are already there.
ProcessedLength(k) == IF IsNewline(k + 1) THEN k + 2 ELSE k + 1

\* Search the first line end; if there is one, execute the line.
ExecuteLine ==
    /\ rxPc = "scan"
    /\ IF \E k \in 0 .. rxI - 1 : IsFirstNewline(k)
       THEN \E k \in 0 .. rxI - 1 :
               /\ IsFirstNewline(k)
               /\ length' = ProcessedLength(k)
               /\ answered' = recvBuf[ProcessedLength(k) - 1]
               /\ rxPc' = "dropSelect"
               /\ UNCHANGED <<recvBuf, rxI, oldCnt>>
       ELSE RxReturn /\ UNCHANGED answered
    /\ UNCHANGED <<ring, requested, accepted, consumed, refused, newlines, nuls>>

\* DropCharacters compares the counters twice before it uses them.
DropCharacters_Select ==
    /\ rxPc = "dropSelect"
    /\ rxPc' = IF readCnt < writeCnt THEN "dropStraight" ELSE "dropWrapped"
    /\ UNCHANGED <<ring, requested, rxLocals, accepted, consumed, refused, newlines, nuls, answered>>

DropTo(r, n) ==
    /\ readCnt' = r
    /\ consumed' = consumed + n
    /\ RxReturn
    /\ UNCHANGED <<buffer, writeCnt, requested, accepted, refused, newlines, nuls, answered>>

\* Variant: everything received is cleared instead of the processed characters.
DropCharacters_Straight_All ==
    /\ rxPc = "dropStraight"
    /\ DropTo(writeCnt, Used(readCnt, writeCnt))

DropCharacters_Straight ==
    /\ rxPc = "dropStraight"
    /\ LET dropped == DropStraight(readCnt, writeCnt, length)
       IN DropTo(dropped.readCnt, dropped.length)

\* readCnt > writeCnt, and it stays so: writeCnt cannot pass readCnt.
DropCharacters_Wrapped ==
    /\ rxPc = "dropWrapped"
    /\ LET dropped == DropWrapped(readCnt, writeCnt, length)
       IN DropTo(dropped.readCnt, dropped.length)

GetString ==
    GetString_Select \/ GetString_CopyStraight \/ GetString_CopyToEnd \/ GetString_CopyFromStart

DropCharacters == DropCharacters_Select \/ DropCharacters_Straight \/ DropCharacters_Wrapped

Task == (RunTask \/ GetString \/ ExecuteLine \/ DropCharacters) /\ UNCHANGED mode

RxNext == Task \/ \E char \in Chars : UART_Handler(char)

RxSpec == RxInit /\ [][RxNext]_rxVars

\* The main loop keeps running: the scheduler returns to the task and the task
\* to its next statement.  Nothing is assumed of the sender.
RxFairSpec == RxSpec /\ WF_rxVars(Task)
-----------------------------------------------------------------------------
RxPCs == {"wait", "select", "copyStraight", "copyToEnd", "copyFromStart", "scan",
        "dropSelect", "dropStraight", "dropWrapped"}

RingType == buffer \in [Slots -> Nat] /\ readCnt \in Slots /\ writeCnt \in Slots
LocalsType ==
    /\ recvBuf \in [0 .. ProcessSize - 1 -> Nat]
    /\ rxI \in 0 .. ProcessSize - 1 /\ oldCnt \in 0 .. rxI /\ length \in 0 .. rxI
CountsType == accepted \in Nat /\ consumed \in Nat /\ answered \in Nat
FlagsType == requested \in BOOLEAN /\ refused \in BOOLEAN

\* The type invariant: the counters are slots after every statement, so
\* neither the interrupt nor the task ever indexes outside the buffer.
RxTypeOK ==
    /\ RingType /\ LocalsType /\ CountsType /\ FlagsType
    /\ rxPc \in RxPCs /\ newlines \subseteq Nat /\ nuls \subseteq Nat

\* Nothing is lost, doubled or reordered between the two sides: the slots from
\* readCnt up hold exactly the accepted characters not yet dropped, in order.
NoLoss ==
    /\ accepted - consumed = Unread
    /\ \A k \in 0 .. Unread - 1 : buffer[SlotAfter(readCnt, k)] = consumed + k + 1

\* What GetString has copied so far is the oldest unread text, although
\* characters arrive and writeCnt wraps while it copies.
CopiesOldest == rxI <= Unread /\ \A k \in 0 .. rxI - 1 : recvBuf[k] = consumed + k + 1

\* What makes the above inductive.  Each read of writeCnt stays true enough
\* until it is used: a wrapped content stays wrapped, because writeCnt cannot
\* pass readCnt, and a straight one may wrap, but then the copy ends and the
\* characters to drop still lie before the end of the buffer.
PcInv ==
    /\ rxPc = "wait" => rxI = 0 /\ oldCnt = 0 /\ length = 0
    /\ rxPc = "select" => rxI = 0 /\ readCnt # writeCnt
    /\ rxPc = "copyToEnd" => writeCnt < readCnt /\ rxI <= Size - readCnt
    /\ rxPc = "copyFromStart" =>
          writeCnt < readCnt /\ (oldCnt = Size - readCnt \/ rxI >= ProcessSize - 1)
    /\ rxPc \in {"dropSelect", "dropStraight", "dropWrapped"} =>
          length > 0 /\ answered = consumed + length
    /\ rxPc = "dropStraight" => readCnt + length < Size
    /\ rxPc = "dropWrapped" => writeCnt < readCnt

RxInv == RxTypeOK /\ NoLoss /\ CopiesOldest /\ PcInv

\* DropCharacters removes executed characters only: never a character that
\* arrived after the copy was taken.
DropsExecutedOnly == [][consumed' # consumed => consumed' = answered]_rxVars

\* A sender that awaits every answer and keeps its lines within half the
\* buffer never has a character refused.
NoneRefused == Handshake /\ RequestDriven => ~refused

\* What makes NoneRefused inductive.  A character is sent only while every line
\* is answered: then the buffer holds at most the line begun and the one the
\* task is still dropping.
Dropping == rxPc \in {"dropSelect", "dropStraight", "dropWrapped"}

SenderInv == Handshake /\ RequestDriven =>
    /\ answered <= accepted /\ accepted - answered <= MaxLine
    /\ (\A n \in newlines : n <= answered) => accepted - answered <= MaxLine - 1
    /\ ~Dropping => answered = consumed
    /\ Dropping => length <= MaxLine
    /\ ~refused

\* A line that was received and is not executed.  A NUL character stays at the head
\* of the text for ever, and no line behind it is found.
LineWaits == \E n \in newlines : n > answered /\ \A m \in nuls : m > n

\* Every line that was received is executed (DebugUart.c: "Has newline, process the
\* received command"): as the sender stops after RxMaxChars characters at the
\* latest, no line waits in the end.
EachLineExecuted == LineWaits ~> ~LineWaits
=============================================================================
