---------------------------- MODULE UartTxProof -----------------------------
(***************************************************************************)
(* UartTx sends every accepted character once and in order and never       *)
(* stalls, for every buffer size, as long as the transmitter cannot finish *)
(* a character between writeCnt++ and its wrap (~BackToBack).              *)
(***************************************************************************)
EXTENDS UartTx, CircularBufferProof

\* Nothing is pending at the start.
LEMMA InitIInv == TxInit => TxInv
<1> SUFFICES ASSUME TxInit PROVE TxInv
  OBVIOUS
<1>1. Counters /\ Words /\ Control
  BY SizeAssumption, SMTT(20) DEF TxInit, Counters, Words, Control, TxPCs, Slots
<1>2. Flags
  BY DEF TxInit, Flags
<1>3. Pending = 0
  BY SizeAssumption, SMTT(20) DEF TxInit, Pending, WriteSlot, Wrap, Used
<1>4. TxNoLoss
  BY <1>3 DEF TxInit, TxNoLoss
<1>5. TxPcInv /\ StallInv
  BY DEF TxInit, TxPcInv, StallInv
<1>6. WindowInv
  BY SizeAssumption DEF TxInit, WindowInv
<1> QED
  BY <1>1, <1>2, <1>4, <1>5, <1>6 DEF TxInv, TxTypeOK

\* The write counter, wrapped, is a slot, and Pending counts up to Size - 1.
LEMMA PendingType ==
    ASSUME Counters
    PROVE  WriteSlot \in Slots /\ Pending \in 0 .. Size - 1
<1>1. WriteSlot \in Slots
  BY SizeAssumption, SMTT(20) DEF Counters, WriteSlot, Wrap, Slots
<1> QED
  BY <1>1, UsedType DEF Counters, Pending

\* Steps of the main loop that write neither buffer nor counters.
LEMMA RingUnchanged ==
    ASSUME TxNoLoss, UNCHANGED <<txRing, put, sent>>
    PROVE  TxNoLoss'
  BY DEF TxNoLoss, Pending, WriteSlot, txRing

\* The main loop outside the three stores of PutChar.
LEMMA ControlIInv ==
    ASSUME TxInv, (\E n \in 1 .. MaxMessage : SendMessage(n)) \/ PutString \/ PutChar_IsFull \/ SendEnable
    PROVE  TxInv'
<1>1. Counters /\ Words /\ Flags /\ Control /\ TxNoLoss /\ TxPcInv /\ WindowInv /\ StallInv
  BY DEF TxInv, TxTypeOK
<1>2. UNCHANGED <<txBuffer, txReadCnt, txWriteCnt, put, sent, lastSent, txReady>>
  BY DEF SendMessage, PutString, PutChar_IsFull, SendEnable, txRing
<1>3. Counters' /\ TxNoLoss' /\ WindowInv'
  BY <1>1, <1>2, RingUnchanged DEF Counters, WindowInv, txRing
<1>4. Flags'
  BY <1>1 DEF Flags, SendMessage, PutString, PutChar_IsFull, SendEnable
<1>5. CASE \E n \in 1 .. MaxMessage : SendMessage(n)
  <2>1. PICK n \in 1 .. MaxMessage : SendMessage(n)
    BY <1>5
  <2>2. /\ txPc = "idle" /\ txPc' = "put" /\ left' = n /\ count' = 0
        /\ txeEnabled' = txeEnabled
    BY <2>1 DEF SendMessage, Goto
  <2>3. Words' /\ Control'
    BY <1>1, <1>2, <2>2, MaxAssumption DEF Words, Control, TxPCs
  <2>4. TxPcInv' /\ StallInv'
    BY <1>1, <1>2, <2>2 DEF TxPcInv, StallInv
  <2> QED
    BY <1>3, <1>4, <2>3, <2>4 DEF TxInv, TxTypeOK
<1>6. CASE PutString
  <2>1. /\ txPc = "put" /\ left' = left /\ count' = count /\ txeEnabled' = txeEnabled
        /\ txPc' = IF left = 0 THEN IF count > 0 THEN "enable" ELSE "idle"
                 ELSE IF txReadCnt > 0 THEN "fullAbove" ELSE "fullAtZero"
    BY <1>6 DEF PutString, Finish, Goto
  <2>2. Words' /\ Control'
    BY <1>1, <1>2, <2>1 DEF Words, Control, TxPCs
  <2>3. TxPcInv'
    BY <1>1, <1>2, <2>1, SizeAssumption, SMTT(20) DEF TxPcInv, Counters, Words, Slots
  <2>4. StallInv'
    BY <1>1, <1>2, <2>1 DEF StallInv
  <2> QED
    BY <1>3, <1>4, <2>2, <2>3, <2>4 DEF TxInv, TxTypeOK
<1>7. CASE PutChar_IsFull
  <2>1. /\ txPc \in {"fullAbove", "fullAtZero"}
        /\ left' = left /\ count' = count /\ txeEnabled' = txeEnabled
        /\ txPc' = IF SeenFull THEN IF count > 0 THEN "enable" ELSE "idle" ELSE "store"
    BY <1>7 DEF PutChar_IsFull, Finish, Goto
  <2>2. Words' /\ Control'
    BY <1>1, <1>2, <2>1 DEF Words, Control, TxPCs
  <2>3. ~SeenFull => ~IsFull(txReadCnt, txWriteCnt)
    BY <1>1, <2>1, SizeAssumption, SMTT(20) DEF SeenFull, IsFull, TxPcInv, Counters, Slots
  <2>4. TxPcInv'
    BY <1>1, <1>2, <2>1, <2>3 DEF TxPcInv
  <2>5. StallInv'
    BY <1>1, <1>2, <2>1 DEF StallInv
  <2> QED
    BY <1>3, <1>4, <2>2, <2>4, <2>5 DEF TxInv, TxTypeOK
<1>8. CASE SendEnable
  <2>1. txPc' = "idle" /\ left' = left /\ count' = count /\ txeEnabled' = TRUE /\ txPc = "enable"
    BY <1>8 DEF SendEnable, Goto
  <2>2. Words' /\ Control'
    BY <1>1, <1>2, <2>1 DEF Words, Control, TxPCs
  <2>3. TxPcInv' /\ StallInv'
    BY <1>1, <1>2, <2>1 DEF TxPcInv, StallInv
  <2> QED
    BY <1>3, <1>4, <2>2, <2>3 DEF TxInv, TxTypeOK
<1> QED
  BY <1>5, <1>6, <1>7, <1>8

\* The three stores of PutChar.
LEMMA PutCharIInv ==
    ASSUME TxInv, PutChar_Store \/ PutChar_Increment \/ PutChar_Wrap
    PROVE  TxInv'
<1>1. Counters /\ Words /\ Flags /\ Control /\ TxNoLoss /\ TxPcInv /\ WindowInv /\ StallInv
  BY DEF TxInv, TxTypeOK
<1>2. UNCHANGED <<txReadCnt, txeEnabled, txReady, sent, lastSent>>
  BY DEF PutChar_Store, PutChar_Increment, PutChar_Wrap
<1>3. Flags'
  BY <1>1, <1>2 DEF Flags
<1>4. Pending \in 0 .. Size - 1 /\ WriteSlot \in Slots
  BY <1>1, PendingType
<1>5. CASE PutChar_Store
  <2>1. /\ txPc = "store" /\ txPc' = "increment" /\ UNCHANGED <<txWriteCnt, left, count, put>>
        /\ txBuffer' = [txBuffer EXCEPT ![txWriteCnt] = put + 1]
    BY <1>5 DEF PutChar_Store, Goto
  <2>2. /\ txWriteCnt \in Slots /\ txReadCnt \in Slots /\ put \in Nat /\ sent \in Nat
        /\ txBuffer \in [Slots -> Nat] /\ WriteSlot = txWriteCnt
    BY <1>1, <2>1, SizeAssumption DEF Counters, Words, Control, Slots, WriteSlot, Wrap
  <2>3. Counters' /\ Words' /\ Control'
    BY <1>1, <1>2, <2>1, <2>2 DEF Counters, Words, Control, TxPCs
  <2>4. Pending' = Pending /\ Pending = Used(txReadCnt, txWriteCnt)
    BY <1>2, <2>1, <2>2 DEF Pending, WriteSlot
  <2>5. ASSUME NEW k \in 0 .. Pending - 1
        PROVE  txBuffer'[SlotAfter(txReadCnt, k)] = sent + k + 1
    <3>1. SlotAfter(txReadCnt, k) # txWriteCnt
      BY <2>2, <2>4, PutSpares
    <3>2. SlotAfter(txReadCnt, k) \in Slots
      BY <1>4, <2>2, SizeAssumption, SlotAfterType, SMTT(20)
    <3> QED
      BY <1>1, <2>1, <2>2, <3>1, <3>2 DEF TxNoLoss
  <2>6. TxNoLoss'
    BY <1>1, <1>2, <2>1, <2>4, <2>5 DEF TxNoLoss
  <2>7. TxPcInv'
    BY <1>1, <1>2, <2>1, <2>2 DEF TxPcInv
  <2>8. WindowInv' /\ StallInv'
    BY <1>1, <1>2, <2>1 DEF WindowInv, StallInv
  <2> QED
    BY <1>3, <2>3, <2>6, <2>7, <2>8 DEF TxInv, TxTypeOK
<1>6. CASE PutChar_Increment
  <2>1. /\ txPc = "increment" /\ txPc' = "wrap" /\ UNCHANGED <<txBuffer, left, count>>
        /\ txWriteCnt' = txWriteCnt + 1 /\ put' = put + 1
    BY <1>6 DEF PutChar_Increment, Goto
  <2>2. /\ txWriteCnt \in Slots /\ txReadCnt \in Slots /\ put \in Nat /\ sent \in Nat
        /\ WriteSlot = txWriteCnt
    BY <1>1, <2>1, SizeAssumption, SMTT(20) DEF Counters, Words, Control, Slots, WriteSlot, Wrap
  <2>3. ~IsFull(txReadCnt, txWriteCnt) /\ txBuffer[txWriteCnt] = put + 1 /\ left > 0
    BY <1>1, <2>1 DEF TxPcInv
  <2>4. Counters' /\ Words' /\ Control'
    BY <1>1, <1>2, <2>1, <2>2, SizeAssumption, SMTT(20) DEF Counters, Words, Control, TxPCs, Slots
  <2>5. Pending' = Pending + 1 /\ SlotAfter(txReadCnt, Pending) = txWriteCnt
    BY <1>2, <2>1, <2>2, <2>3, PutAdds DEF Pending, WriteSlot
  <2>6. put = sent + Pending
    BY <1>1, <1>4, <2>2, SizeAssumption DEF TxNoLoss
  <2>7. ASSUME NEW k \in 0 .. Pending' - 1
        PROVE  txBuffer[SlotAfter(txReadCnt, k)] = sent + k + 1
    <3>1. CASE k = Pending
      BY <3>1, <2>3, <2>5, <2>6
    <3>2. CASE k # Pending
      <4>1. k \in 0 .. Pending - 1
        BY <1>4, <2>5, <3>2, SizeAssumption, SMTT(20)
      <4> QED
        BY <4>1, <1>1 DEF TxNoLoss
    <3> QED
      BY <3>1, <3>2
  <2>8. put' - sent' = Pending'
    BY <1>2, <1>4, <2>1, <2>2, <2>5, <2>6, SizeAssumption, SMTT(20)
  <2>9. TxNoLoss'
    BY <1>2, <2>1, <2>7, <2>8 DEF TxNoLoss
  <2>10. txWriteCnt' = Size /\ txReadCnt' = 0 => FALSE
    BY <1>2, <2>1, <2>2, <2>3, SizeAssumption, SMTT(20) DEF IsFull, Slots
  <2>11. TxPcInv'
    BY <2>1, <2>3 DEF TxPcInv
  <2>12. WindowInv' /\ StallInv'
    BY <2>1, <2>10 DEF WindowInv, StallInv
  <2> QED
    BY <1>3, <2>4, <2>9, <2>11, <2>12 DEF TxInv, TxTypeOK
<1>7. CASE PutChar_Wrap
  <2>1. /\ txPc = "wrap" /\ txPc' = "put" /\ UNCHANGED <<txBuffer, put>>
        /\ txWriteCnt' = WriteSlot /\ left' = left - 1 /\ count' = count + 1
    BY <1>7 DEF PutChar_Wrap, Goto, WriteSlot
  <2>2. left > 0
    BY <1>1, <2>1 DEF TxPcInv
  <2>3. Counters' /\ Words' /\ Control'
    BY <1>1, <1>2, <1>4, <2>1, <2>2, SizeAssumption, SMTT(20) DEF Counters, Words, Control, TxPCs, Slots
  <2>4. WriteSlot' = WriteSlot
    BY <1>1, <2>1, SizeAssumption DEF WriteSlot, Wrap, Slots, Counters
  <2>5. TxNoLoss'
    BY <1>1, <1>2, <2>1, <2>4 DEF TxNoLoss, Pending
  <2>6. txWriteCnt' # Size
    BY <1>4, <2>1, SizeAssumption DEF Slots
  <2>7. TxPcInv' /\ WindowInv'
    BY <2>1, <2>6 DEF TxPcInv, WindowInv
  <2>8. count' > 0
    BY <1>1, <2>1 DEF Words
  <2>9. StallInv'
    BY <2>1, <2>8 DEF StallInv
  <2> QED
    BY <1>3, <2>3, <2>5, <2>7, <2>9 DEF TxInv, TxTypeOK
<1> QED
  BY <1>5, <1>6, <1>7

\* What the interrupt takes is the oldest character not yet sent.
LEMMA TakesOldest ==
    ASSUME TxInv, UART_Handler_TXE, IsNotEmpty(txReadCnt, txWriteCnt)
    PROVE  /\ Pending > 0
           /\ lastSent' = sent + 1 /\ sent' = sent + 1
           /\ txReadCnt' = SlotAfter(txReadCnt, 1)
<1>1. Counters /\ TxNoLoss /\ WindowInv
  BY DEF TxInv, TxTypeOK
<1>2. txReady
  BY DEF UART_Handler_TXE
<1>3. txReadCnt # WriteSlot
  BY <1>1, <1>2, SizeAssumption DEF IsNotEmpty, WriteSlot, Wrap, WindowInv, Counters, Slots
<1>4. Pending \in 1 .. Size - 1
  BY <1>1, <1>3, PendingType, SizeAssumption, SMTT(20) DEF Pending, Used, Counters, Slots
<1>5. txBuffer[SlotAfter(txReadCnt, 0)] = sent + 0 + 1
  BY <1>1, <1>4, SizeAssumption, SMTT(20) DEF TxNoLoss
<1>6. SlotAfter(txReadCnt, 0) = txReadCnt /\ SlotAfter(txReadCnt, 1) = Wrap(txReadCnt + 1)
  BY <1>1, SizeAssumption, SMTT(20) DEF SlotAfter, Wrap, Counters, Slots
<1>7. lastSent' = txBuffer[txReadCnt] /\ sent' = sent + 1 /\ txReadCnt' = Wrap(txReadCnt + 1)
  BY DEF UART_Handler_TXE, GetChar
<1>8. sent \in Nat
  BY <1>1 DEF Counters
<1> QED
  BY <1>4, <1>5, <1>6, <1>7, <1>8

\* The interrupt, at any point of the main loop.
LEMMA HandlerIInv == ASSUME TxInv, UART_Handler_TXE PROVE TxInv'
<1>1. Counters /\ Words /\ Flags /\ Control /\ TxNoLoss /\ TxPcInv /\ WindowInv /\ StallInv
  BY DEF TxInv, TxTypeOK
<1>2. UNCHANGED <<txBuffer, txWriteCnt, txPc, left, count, put>>
  BY DEF UART_Handler_TXE
<1>3. Flags'
  BY <1>1 DEF UART_Handler_TXE, Flags
<1>4. Pending \in 0 .. Size - 1 /\ WriteSlot \in Slots /\ WriteSlot' = WriteSlot
  BY <1>1, <1>2, PendingType DEF WriteSlot
<1>5. CASE IsNotEmpty(txReadCnt, txWriteCnt)
  <2>1. /\ Pending > 0 /\ lastSent' = sent + 1 /\ sent' = sent + 1
        /\ txReadCnt' = SlotAfter(txReadCnt, 1)
    BY <1>5, TakesOldest
  <2>2. txReady' = FALSE /\ txeEnabled' = TRUE
    BY <1>5 DEF UART_Handler_TXE
  <2>3. txReadCnt \in Slots /\ put \in Nat /\ sent \in Nat
    BY <1>1 DEF Counters
  <2>4. /\ txReadCnt' \in Slots /\ Pending' = Pending - 1
        /\ \A k \in 0 .. Pending - 1 - 1 : SlotAfter(txReadCnt', k) = SlotAfter(txReadCnt, 1 + k)
    BY <1>4, <2>1, <2>3, DropRemoves, SizeAssumption DEF Pending
  <2>5. Counters' /\ Words' /\ Control'
    BY <1>1, <1>2, <2>1, <2>3, <2>4 DEF Counters, Words, Control
  <2>6. ASSUME NEW k \in 0 .. Pending' - 1
        PROVE  txBuffer[SlotAfter(txReadCnt', k)] = sent' + k + 1
    <3>1. 1 + k \in 0 .. Pending - 1 /\ SlotAfter(txReadCnt', k) = SlotAfter(txReadCnt, 1 + k)
      BY <1>4, <2>4, SizeAssumption, SMTT(20)
    <3>2. txBuffer[SlotAfter(txReadCnt, 1 + k)] = sent + (1 + k) + 1
      BY <1>1, <3>1 DEF TxNoLoss
    <3> QED
      BY <3>1, <3>2, <2>1, <2>3
  <2>7. put' - sent' = Pending'
    BY <1>1, <1>2, <1>4, <2>1, <2>3, <2>4, SizeAssumption DEF TxNoLoss
  <2>8. TxNoLoss'
    BY <1>2, <2>6, <2>7 DEF TxNoLoss
  <2>9. txPc \in {"store", "increment"} => ~IsFull(txReadCnt', txWriteCnt)
    <3>1. ASSUME txPc \in {"store", "increment"} PROVE ~IsFull(txReadCnt', txWriteCnt)
      <4>1. txWriteCnt \in Slots /\ WriteSlot = txWriteCnt
        BY <1>1, <3>1, SizeAssumption DEF Counters, Control, Slots, WriteSlot, Wrap
      <4>2. Pending' = Used(txReadCnt', txWriteCnt)
        BY <1>2, <1>4, <4>1 DEF Pending
      <4> QED
        BY <1>4, <2>4, <4>1, <4>2, IsFullExact, SizeAssumption
    <3> QED
      BY <3>1
  <2>10. txReadCnt' = IF txReadCnt + 1 < Size THEN txReadCnt + 1 ELSE 0
    BY <2>1, <2>3, SizeAssumption DEF SlotAfter, Slots
  <2>11. txReadCnt # txWriteCnt
    BY <1>5 DEF IsNotEmpty
  <2>12. txPc = "fullAtZero" => txReadCnt' <= txWriteCnt
    BY <1>1, <2>3, <2>10, <2>11, SizeAssumption, SMTT(20) DEF TxPcInv, Control, Counters, Slots
  <2>13. txPc = "fullAbove" /\ txReadCnt' = 0 => txWriteCnt < Size - 1
    BY <1>1, <2>3, <2>10, <2>11, SizeAssumption, SMTT(20) DEF TxPcInv, Control, Counters, Slots
  <2>14. TxPcInv'
    BY <1>1, <1>2, <2>9, <2>12, <2>13 DEF TxPcInv
  <2>15. WindowInv' /\ StallInv'
    BY <2>2 DEF WindowInv, StallInv
  <2> QED
    BY <1>3, <2>5, <2>8, <2>14, <2>15 DEF TxInv, TxTypeOK
<1>6. CASE ~IsNotEmpty(txReadCnt, txWriteCnt)
  <2>1. UNCHANGED <<txReadCnt, txReady, sent, lastSent>>
    BY <1>6 DEF UART_Handler_TXE
  <2>2. Counters' /\ Words' /\ Control' /\ TxNoLoss' /\ TxPcInv' /\ WindowInv'
    BY <1>1, <1>2, <2>1, RingUnchanged DEF Counters, Words, Control, TxPcInv, WindowInv, txRing
  <2>3. txReadCnt = txWriteCnt
    BY <1>6 DEF IsNotEmpty
  <2>4. put = sent
    BY <1>1, <2>3, SizeAssumption DEF TxNoLoss, Pending, WriteSlot, Wrap, Used, Counters, Slots
  <2>5. StallInv'
    BY <1>2, <2>1, <2>4 DEF StallInv
  <2> QED
    BY <1>3, <2>2, <2>5 DEF TxInv, TxTypeOK
<1> QED
  BY <1>5, <1>6

\* The transmitter; this is where ~BackToBack is needed.
LEMMA TransmittedIInv == ASSUME ~BackToBack, TxInv, Transmitted PROVE TxInv'
<1>1. Counters /\ Words /\ Flags /\ Control /\ TxNoLoss /\ TxPcInv /\ StallInv
  BY DEF TxInv, TxTypeOK
<1>2. UNCHANGED <<txBuffer, txReadCnt, txWriteCnt, txeEnabled, txPc, left, count, put, sent, lastSent>>
  BY DEF Transmitted, txRing
<1>3. Flags'
  BY <1>1 DEF Transmitted, Flags
<1>4. txPc # "wrap"
  BY DEF Transmitted
<1>5. Counters' /\ Words' /\ Control' /\ TxNoLoss' /\ TxPcInv' /\ StallInv'
  BY <1>1, <1>2, RingUnchanged DEF Counters, Words, Control, TxPcInv, StallInv, txRing
<1>6. WindowInv'
  BY <1>1, <1>2, <1>4 DEF Control, WindowInv
<1> QED
  BY <1>3, <1>5, <1>6 DEF TxInv, TxTypeOK

LEMMA StutterIInv == ASSUME TxInv, UNCHANGED txVars PROVE TxInv'
  BY DEF txVars, txRing, TxInv, TxTypeOK, Counters, Words, Flags, Control, TxNoLoss, Pending, WriteSlot, TxPcInv, WindowInv, StallInv

LEMMA NextIInv == ASSUME ~BackToBack PROVE TxInv /\ [TxNext]_txVars => TxInv'
  BY ControlIInv, PutCharIInv, HandlerIInv, TransmittedIInv, StutterIInv DEF TxNext, TxMainLoop

\* The inductive invariant holds in every reachable state.
THEOREM Invariance == ASSUME ~BackToBack PROVE TxSpec => []TxInv
  BY InitIInv, NextIInv, PTL DEF TxSpec

\* The buffer holds exactly what was accepted and not yet sent, in order, also
\* while PutChar is half done.
THEOREM TxLosesNothing == ASSUME ~BackToBack PROVE TxSpec => []TxNoLoss
<1>1. TxInv => TxNoLoss
  BY DEF TxInv
<1> QED
  BY <1>1, Invariance, PTL

\* Characters never wait with TXE disabled and nobody to enable it.
THEOREM TxNoStall == ASSUME ~BackToBack PROVE TxSpec => []NoStall
<1>1. TxInv => NoStall
  BY DEF TxInv, StallInv, NoStall
<1> QED
  BY <1>1, Invariance, PTL

\* The line carries every accepted character once, in order.
THEOREM TxSendsInOrder == ASSUME ~BackToBack PROVE TxSpec => SendsInOrder
<1>1. ASSUME TxInv, TxNext, sent' # sent PROVE lastSent' = sent'
  <2>1. UART_Handler_TXE /\ IsNotEmpty(txReadCnt, txWriteCnt)
    BY <1>1 DEF TxNext, TxMainLoop, SendMessage, PutString, PutChar_IsFull, PutChar_Store,
       PutChar_Increment, PutChar_Wrap, SendEnable, UART_Handler_TXE, Transmitted
  <2> QED
    BY <1>1, <2>1, TakesOldest
<1>2. TxInv /\ [TxNext]_txVars => [sent' # sent => lastSent' = sent']_txVars
  BY <1>1 DEF txVars
<1> QED
  BY <1>2, Invariance, PTL DEF TxSpec, SendsInOrder
-----------------------------------------------------------------------------
\* What the types need, whether or not the transmitter is back to back: PutChar
\* has a character left to put while it is on its way.
PutsOne == txPc \in {"fullAtZero", "fullAbove", "store", "increment", "wrap"} => left > 0

TypeInv == TxTypeOK /\ PutsOne

LEMMA InitTypeInv == TxInit => TypeInv
<1>1. TxInit => PutsOne
  BY DEF TxInit, PutsOne
<1> QED
  BY <1>1, InitIInv DEF TxInv, TypeInv

\* The main loop: writeCnt leaves the slots only between writeCnt++ and its wrap.
LEMMA MainLoopTypeInv ==
    ASSUME TypeInv, (\E n \in 1 .. MaxMessage : SendMessage(n)) \/ TxMainLoop
    PROVE  TypeInv'
<1>1. Counters /\ Words /\ Flags /\ Control /\ PutsOne
  BY DEF TypeInv, TxTypeOK
<1>2. CASE \E n \in 1 .. MaxMessage : SendMessage(n)
  BY <1>1, <1>2, MaxAssumption, SMTT(20) DEF SendMessage, Goto, txRing,
     TypeInv, TxTypeOK, Counters, Words, Flags, Control, TxPCs, PutsOne
<1>3. CASE PutString
  <2>1. /\ UNCHANGED <<txBuffer, txReadCnt, txWriteCnt, txeEnabled, txReady, left, count, put, sent, lastSent>>
        /\ txPc = "put"
        /\ txPc' \in {"enable", "idle", "fullAbove", "fullAtZero"}
        /\ txPc' \in {"fullAbove", "fullAtZero"} => left # 0
    BY <1>3 DEF PutString, Finish, Goto, txRing
  <2> QED
    BY <1>1, <2>1, SMTT(20) DEF TypeInv, TxTypeOK, Counters, Words, Flags, Control, TxPCs, PutsOne
<1>4. CASE PutChar_IsFull
  <2>1. /\ UNCHANGED <<txBuffer, txReadCnt, txWriteCnt, txeEnabled, txReady, left, count, put, sent, lastSent>>
        /\ txPc \in {"fullAbove", "fullAtZero"}
        /\ txPc' \in {"enable", "idle", "store"}
    BY <1>4 DEF PutChar_IsFull, Finish, Goto, txRing
  <2> QED
    BY <1>1, <2>1, SMTT(20) DEF TypeInv, TxTypeOK, Counters, Words, Flags, Control, TxPCs, PutsOne
<1>5. CASE PutChar_Store
  <2>1. txWriteCnt \in Slots /\ put + 1 \in Nat
    BY <1>1, <1>5, SizeAssumption, SMTT(20) DEF PutChar_Store, Counters, Control, Slots
  <2> QED
    BY <1>1, <1>5, <2>1 DEF PutChar_Store, Goto,
       TypeInv, TxTypeOK, Counters, Words, Flags, Control, TxPCs, PutsOne
<1>6. CASE PutChar_Increment
  <2>1. txWriteCnt + 1 \in 0 .. Size
    BY <1>1, <1>6, SizeAssumption, SMTT(20) DEF PutChar_Increment, Counters, Control
  <2> QED
    BY <1>1, <1>6, <2>1 DEF PutChar_Increment, Goto,
       TypeInv, TxTypeOK, Counters, Words, Flags, Control, TxPCs, PutsOne
<1>7. CASE PutChar_Wrap
  <2>1. WriteSlot \in Slots
    BY <1>1, PendingType
  <2>2. Counters' /\ Control'
    BY <1>1, <1>7, <2>1, SizeAssumption, SMTT(20) DEF PutChar_Wrap, Goto, WriteSlot, Slots,
       Counters, Control, TxPCs
  <2>3. Words' /\ Flags' /\ PutsOne'
    BY <1>1, <1>7 DEF PutChar_Wrap, Goto, Words, Flags, PutsOne
  <2> QED
    BY <2>2, <2>3 DEF TypeInv, TxTypeOK
<1>8. CASE SendEnable
  BY <1>1, <1>8 DEF SendEnable, Goto, txRing,
     TypeInv, TxTypeOK, Counters, Words, Flags, Control, TxPCs, PutsOne
<1> QED
  BY <1>2, <1>3, <1>4, <1>5, <1>6, <1>7, <1>8 DEF TxMainLoop

\* The interrupt and the transmitter, at any point of the main loop.
LEMMA InterruptTypeInv == ASSUME TypeInv, UART_Handler_TXE \/ Transmitted PROVE TypeInv'
<1>1. Counters /\ Words /\ Flags /\ Control /\ PutsOne
  BY DEF TypeInv, TxTypeOK
<1>2. Wrap(txReadCnt + 1) \in Slots /\ txBuffer[txReadCnt] \in Nat /\ sent + 1 \in Nat
  BY <1>1, SizeAssumption, SMTT(20) DEF Counters, Words, Wrap, Slots
<1>3. CASE UART_Handler_TXE
  <2>1. Counters' /\ Words'
    BY <1>1, <1>2, <1>3 DEF UART_Handler_TXE, GetChar, Counters, Words
  <2>2. Flags'
    BY <1>1, <1>3 DEF UART_Handler_TXE, Flags
  <2>3. Control' /\ PutsOne'
    BY <1>1, <1>3 DEF UART_Handler_TXE, Control, PutsOne
  <2> QED
    BY <2>1, <2>2, <2>3 DEF TypeInv, TxTypeOK
<1>4. CASE Transmitted
  BY <1>1, <1>4 DEF Transmitted, txRing, TypeInv, TxTypeOK, Counters, Words, Flags, Control, PutsOne
<1> QED
  BY <1>3, <1>4

LEMMA NextTypeInv == TypeInv /\ [TxNext]_txVars => TypeInv'
<1>1. ASSUME TypeInv, UNCHANGED txVars PROVE TypeInv'
  BY <1>1 DEF txVars, txRing, TypeInv, TxTypeOK, Counters, Words, Flags, Control, PutsOne
<1> QED
  BY <1>1, MainLoopTypeInv, InterruptTypeInv DEF TxNext

\* The interrupt never indexes outside the buffer and PutChar stores inside it,
\* even for a transmitter that interrupts between writeCnt++ and its wrap.
THEOREM TxTypeCorrect == TxSpec => []TxTypeOK
<1>1. TypeInv => TxTypeOK
  BY DEF TypeInv
<1> QED
  BY <1>1, InitTypeInv, NextTypeInv, PTL DEF TxSpec
=============================================================================
