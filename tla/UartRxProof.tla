---------------------------- MODULE UartRxProof -----------------------------
(***************************************************************************)
(* UartRx loses, doubles and reorders nothing, for every buffer size,      *)
(* process buffer size, sender and interleaving.                           *)
(***************************************************************************)
EXTENDS UartRx, CircularBufferProof

\* The invariant holds when the buffers have been initialised.
LEMMA InitIInv == RxInit => RxInv
<1> SUFFICES ASSUME RxInit PROVE RxInv
  OBVIOUS
<1>1. RingType
  BY SizeAssumption, SMTT(20) DEF RxInit, RingType, Slots
<1>2. LocalsType
  BY ProcessSizeAssumption DEF RxInit, LocalsType, EmptyBuf
<1>3. CountsType /\ newlines \subseteq Nat /\ nuls \subseteq Nat /\ rxPc \in RxPCs
  BY DEF RxInit, CountsType, RxPCs
<1>4. FlagsType
  BY DEF RxInit, FlagsType
<1>5. Unread = 0
  BY DEF RxInit, Unread, Used
<1>6. NoLoss /\ CopiesOldest
  BY <1>5 DEF RxInit, NoLoss, CopiesOldest
<1>7. PcInv
  BY DEF RxInit, PcInv
<1> QED
  BY <1>1, <1>2, <1>3, <1>4, <1>6, <1>7 DEF RxInv, RxTypeOK

\* The interrupt, at any point of the task.
LEMMA HandlerIInv ==
    ASSUME RxInv, NEW char \in Chars, UART_Handler(char)
    PROVE  RxInv'
<1>1. /\ RingType /\ LocalsType /\ CountsType /\ FlagsType
      /\ rxPc \in RxPCs /\ newlines \subseteq Nat /\ nuls \subseteq Nat
      /\ NoLoss /\ CopiesOldest /\ PcInv
  BY DEF RxInv, RxTypeOK
<1>2. UNCHANGED <<readCnt, rxPc, recvBuf, rxI, oldCnt, length, consumed, answered>>
  BY DEF UART_Handler, rxLocals
<1>3. FlagsType'
  BY <1>1 DEF UART_Handler, PutChar, Accept, FlagsType, RequestDriven
<1>4. CASE IsFull(readCnt, writeCnt)
  <2>1. UNCHANGED <<buffer, writeCnt, accepted, newlines, nuls>>
    BY <1>4 DEF UART_Handler, PutChar
  <2>2. RingType' /\ LocalsType' /\ CountsType' /\ rxPc' \in RxPCs /\ newlines' \subseteq Nat /\ nuls' \subseteq Nat
    BY <1>1, <1>2, <2>1 DEF RingType, LocalsType, CountsType
  <2>3. NoLoss' /\ CopiesOldest' /\ PcInv'
    BY <1>1, <1>2, <2>1 DEF NoLoss, CopiesOldest, PcInv, Unread
  <2> QED
    BY <1>3, <2>2, <2>3 DEF RxInv, RxTypeOK
<1>5. CASE ~IsFull(readCnt, writeCnt)
  <2>1. /\ readCnt \in Slots /\ writeCnt \in Slots /\ buffer \in [Slots -> Nat]
        /\ accepted \in Nat /\ consumed \in Nat
    BY <1>1 DEF RingType, CountsType
  <2>2. /\ buffer' = [buffer EXCEPT ![writeCnt] = accepted + 1]
        /\ writeCnt' = Wrap(writeCnt + 1)
        /\ accepted' = accepted + 1
    BY <1>5 DEF UART_Handler, PutChar, Accept
  <2>3. /\ newlines' \in {newlines, newlines \cup {accepted + 1}}
        /\ nuls' \in {nuls, nuls \cup {accepted + 1}}
    BY <1>5 DEF UART_Handler, PutChar, Accept
  <2>4. /\ writeCnt' \in Slots
        /\ Unread' = Unread + 1
        /\ SlotAfter(readCnt, Unread) = writeCnt
    BY <1>2, <1>5, <2>1, <2>2, PutAdds DEF Unread
  <2>5. Unread \in 0 .. Size - 1
    BY <2>1, UsedType DEF Unread
  <2>6. RingType' /\ CountsType'
    BY <1>1, <1>2, <2>1, <2>2, <2>4 DEF RingType, CountsType
  <2>7. LocalsType' /\ rxPc' \in RxPCs
    BY <1>1, <1>2 DEF LocalsType
  <2>8. newlines' \subseteq Nat /\ nuls' \subseteq Nat
    BY <1>1, <2>1, <2>3
  <2>9. accepted' - consumed' = Unread'
    BY <1>1, <1>2, <2>1, <2>2, <2>4, <2>5 DEF NoLoss
  <2>10. ASSUME NEW k \in 0 .. Unread' - 1
         PROVE  buffer'[SlotAfter(readCnt, k)] = consumed + k + 1
    <3>1. CASE k = Unread
      <4>1. buffer'[writeCnt] = accepted + 1
        BY <2>1, <2>2
      <4>2. accepted = consumed + Unread
        BY <1>1, <2>1, <2>5 DEF NoLoss
      <4> QED
        BY <3>1, <4>1, <4>2, <2>4
    <3>2. CASE k # Unread
      <4>1. k \in 0 .. Unread - 1
        BY <3>2, <2>4, <2>5
      <4>2. SlotAfter(readCnt, k) # writeCnt
        BY <4>1, <2>1, PutSpares DEF Unread
      <4>3. SlotAfter(readCnt, k) \in Slots
        BY <4>1, <2>1, <2>5, SizeAssumption, SlotAfterType
      <4>4. buffer'[SlotAfter(readCnt, k)] = buffer[SlotAfter(readCnt, k)]
        BY <4>2, <4>3, <2>1, <2>2
      <4> QED
        BY <4>1, <4>4, <1>1 DEF NoLoss
    <3> QED
      BY <3>1, <3>2
  <2>11. NoLoss'
    BY <2>9, <2>10, <1>2 DEF NoLoss
  <2>12. rxI \in Nat
    BY <1>1, ProcessSizeAssumption, SMTT(20) DEF LocalsType
  <2>13. CopiesOldest'
    BY <1>1, <1>2, <2>4, <2>5, <2>12 DEF CopiesOldest
  <2>14. readCnt # writeCnt'
    BY <1>5, <2>1, <2>2, SizeAssumption, SMTT(20) DEF IsFull, Wrap, Slots
  <2>15. writeCnt < readCnt => writeCnt' < readCnt
    BY <1>5, <2>1, <2>2, SizeAssumption, SMTT(20) DEF IsFull, Wrap, Slots
  <2>16. PcInv'
    BY <1>1, <1>2, <2>14, <2>15 DEF PcInv
  <2> QED
    BY <1>3, <2>6, <2>7, <2>8, <2>11, <2>13, <2>16 DEF RxInv, RxTypeOK
<1> QED
  BY <1>4, <1>5

\* The scheduler starting the task.
LEMMA RunTaskIInv == ASSUME RxInv, RunTask PROVE RxInv'
<1>1. /\ RingType /\ LocalsType /\ CountsType /\ FlagsType
      /\ rxPc \in RxPCs /\ newlines \subseteq Nat /\ nuls \subseteq Nat
      /\ NoLoss /\ CopiesOldest /\ PcInv
  BY DEF RxInv, RxTypeOK
<1>2. /\ UNCHANGED <<buffer, readCnt, writeCnt, recvBuf, rxI, oldCnt, length>>
      /\ UNCHANGED <<accepted, consumed, newlines, nuls, answered>>
      /\ rxPc = "wait"
      /\ rxPc' = IF readCnt # writeCnt THEN "select" ELSE "wait"
  BY DEF RunTask, IsNotEmpty, ring, rxLocals
<1>3. FlagsType'
  BY <1>1 DEF RunTask, FlagsType
<1>4. RingType' /\ LocalsType' /\ CountsType' /\ rxPc' \in RxPCs /\ newlines' \subseteq Nat /\ nuls' \subseteq Nat
  BY <1>1, <1>2 DEF RingType, LocalsType, CountsType, RxPCs
<1>5. NoLoss' /\ CopiesOldest' /\ PcInv'
  BY <1>1, <1>2 DEF NoLoss, CopiesOldest, PcInv, Unread
<1> QED
  BY <1>3, <1>4, <1>5 DEF RxInv, RxTypeOK

\* Copying the next unread character keeps the copy a prefix of the unread
\* text.
LEMMA CopyPrefix ==
    ASSUME RxInv, NEW slot \in Slots, slot = SlotAfter(readCnt, rxI),
           rxI < Unread, rxI < ProcessSize - 1, CopyFrom(slot),
           UNCHANGED <<ring, requested, length, accepted, consumed, refused, newlines, nuls, answered>>
    PROVE  RxTypeOK' /\ NoLoss' /\ CopiesOldest'
<1>1. /\ RingType /\ LocalsType /\ CountsType /\ FlagsType
      /\ rxPc \in RxPCs /\ newlines \subseteq Nat /\ nuls \subseteq Nat
      /\ NoLoss /\ CopiesOldest
  BY DEF RxInv, RxTypeOK
<1>2. /\ UNCHANGED <<buffer, readCnt, writeCnt, rxPc, oldCnt, length>>
      /\ UNCHANGED <<accepted, consumed, newlines, nuls, answered>>
  BY DEF CopyFrom, ring
<1>3. FlagsType'
  BY <1>1 DEF FlagsType
<1>4. /\ rxI \in 0 .. ProcessSize - 1 /\ recvBuf \in [0 .. ProcessSize - 1 -> Nat]
      /\ consumed \in Nat /\ Unread \in 0 .. Size - 1
  BY <1>1, UsedType DEF LocalsType, RingType, CountsType, Unread
<1>5. buffer[slot] = consumed + rxI + 1
  BY <1>1, <1>4, SizeAssumption, SMTT(20) DEF NoLoss
<1>6. rxI' = rxI + 1 /\ recvBuf' = [recvBuf EXCEPT ![rxI] = consumed + rxI + 1]
  BY <1>5 DEF CopyFrom
<1>7. RingType' /\ CountsType' /\ NoLoss' /\ rxPc' \in RxPCs /\ newlines' \subseteq Nat /\ nuls' \subseteq Nat
  BY <1>1, <1>2 DEF RingType, CountsType, NoLoss, Unread
<1>8. LocalsType'
  BY <1>1, <1>2, <1>4, <1>6, ProcessSizeAssumption, SMTT(20) DEF LocalsType
<1>9. ASSUME NEW k \in 0 .. rxI' - 1 PROVE recvBuf'[k] = consumed + k + 1
  <2>1. CASE k = rxI
    BY <2>1, <1>4, <1>6
  <2>2. CASE k # rxI
    <3>1. k \in 0 .. rxI - 1 /\ k \in 0 .. ProcessSize - 1
      BY <2>2, <1>4, <1>6, ProcessSizeAssumption, SMTT(20)
    <3> QED
      BY <2>2, <3>1, <1>1, <1>4, <1>6 DEF CopiesOldest
  <2> QED
    BY <2>1, <2>2
<1>10. rxI' <= Unread'
  <2>1. Unread' = Unread
    BY <1>2 DEF Unread
  <2> QED
    BY <2>1, <1>4, <1>6, ProcessSizeAssumption, SMTT(20)
<1>11. CopiesOldest'
  BY <1>2, <1>9, <1>10 DEF CopiesOldest
<1> QED
  BY <1>3, <1>7, <1>8, <1>11 DEF RxTypeOK

\* A step that moves only pc and oldCnt disturbs nothing but PcInv.
LEMMA PcStep ==
    ASSUME RxInv, UNCHANGED <<ring, requested, recvBuf, rxI, length>>,
           UNCHANGED <<accepted, consumed, refused, newlines, nuls, answered>>,
           oldCnt' \in {oldCnt, rxI}, rxPc' \in RxPCs
    PROVE  RxTypeOK' /\ NoLoss' /\ CopiesOldest'
<1>1. /\ RingType /\ LocalsType /\ CountsType /\ FlagsType
      /\ newlines \subseteq Nat /\ nuls \subseteq Nat /\ NoLoss /\ CopiesOldest
  BY DEF RxInv, RxTypeOK
<1>2. FlagsType'
  BY <1>1 DEF FlagsType
<1>3. RingType' /\ CountsType' /\ newlines' \subseteq Nat /\ nuls' \subseteq Nat
  BY <1>1 DEF RingType, CountsType, ring
<1>4. LocalsType'
  BY <1>1, ProcessSizeAssumption, SMTT(20) DEF LocalsType
<1>5. NoLoss' /\ CopiesOldest'
  BY <1>1 DEF NoLoss, CopiesOldest, Unread, ring
<1> QED
  BY <1>2, <1>3, <1>4, <1>5 DEF RxTypeOK

\* GetString, one character or one decision at a time.
LEMMA GetStringIInv == ASSUME RxInv, GetString PROVE RxInv'
<1>1. /\ readCnt \in Slots /\ writeCnt \in Slots
      /\ rxI \in 0 .. ProcessSize - 1 /\ oldCnt \in 0 .. rxI /\ rxI <= Unread
      /\ PcInv
  BY DEF RxInv, RxTypeOK, RingType, LocalsType, CopiesOldest
<1>2. CASE GetString_Select
  <2>1. RxTypeOK' /\ NoLoss' /\ CopiesOldest'
    BY <1>2, PcStep DEF GetString_Select, RxPCs, rxLocals
  <2>2. PcInv'
    BY <1>1, <1>2, SizeAssumption, SMTT(20) DEF GetString_Select, PcInv, rxLocals, ring, Slots
  <2> QED
    BY <2>1, <2>2 DEF RxInv
<1>3. CASE GetString_CopyStraight
  <2>1. CASE rxI < writeCnt - readCnt /\ rxI < ProcessSize - 1
    <3>1. SlotAfter(readCnt, rxI) = readCnt + rxI /\ readCnt + rxI \in Slots /\ rxI < Unread
      BY <2>1, <1>1, SizeAssumption, ProcessSizeAssumption, SMTT(20) DEF SlotAfter, Slots, Unread, Used
    <3>2. CopyFrom(readCnt + rxI)
      BY <1>3, <2>1 DEF GetString_CopyStraight
    <3>3. RxTypeOK' /\ NoLoss' /\ CopiesOldest'
      BY <1>3, <2>1, <3>1, <3>2, CopyPrefix DEF GetString_CopyStraight
    <3>4. PcInv'
      BY <1>3, <3>2 DEF GetString_CopyStraight, CopyFrom, PcInv
    <3> QED
      BY <3>3, <3>4 DEF RxInv
  <2>2. CASE ~(rxI < writeCnt - readCnt /\ rxI < ProcessSize - 1)
    <3>1. RxTypeOK' /\ NoLoss' /\ CopiesOldest'
      BY <1>3, <2>2, PcStep DEF GetString_CopyStraight, RxPCs
    <3>2. PcInv'
      BY <1>3, <2>2 DEF GetString_CopyStraight, PcInv
    <3> QED
      BY <3>1, <3>2 DEF RxInv
  <2> QED
    BY <2>1, <2>2
<1>4. CASE GetString_CopyToEnd
  <2>1. writeCnt < readCnt /\ rxI <= Size - readCnt
    <3>1. rxPc = "copyToEnd"
      BY <1>4 DEF GetString_CopyToEnd
    <3> QED
      BY <1>1, <3>1, Zenon DEF PcInv
  <2>2. CASE rxI < Size - readCnt /\ rxI < ProcessSize - 1
    <3>1. SlotAfter(readCnt, rxI) = readCnt + rxI /\ readCnt + rxI \in Slots /\ rxI < Unread
      BY <2>1, <2>2, <1>1, SizeAssumption, ProcessSizeAssumption, SMTT(20) DEF SlotAfter, Slots, Unread, Used
    <3>2. CopyFrom(readCnt + rxI)
      BY <1>4, <2>2 DEF GetString_CopyToEnd
    <3>3. RxTypeOK' /\ NoLoss' /\ CopiesOldest'
      BY <1>4, <2>2, <3>1, <3>2, CopyPrefix DEF GetString_CopyToEnd
    <3>4. PcInv'
      <4>1. /\ rxPc' = "copyToEnd" /\ rxI' = rxI + 1
            /\ UNCHANGED <<readCnt, writeCnt, oldCnt>>
        BY <1>4, <3>2 DEF GetString_CopyToEnd, CopyFrom, ring
      <4>2. rxI' <= Size - readCnt'
        BY <1>1, <2>1, <2>2, <4>1, SizeAssumption, ProcessSizeAssumption, SMTT(20) DEF Slots
      <4> QED
        BY <2>1, <4>1, <4>2 DEF PcInv
    <3> QED
      BY <3>3, <3>4 DEF RxInv
  <2>3. CASE ~(rxI < Size - readCnt /\ rxI < ProcessSize - 1)
    <3>1. RxTypeOK' /\ NoLoss' /\ CopiesOldest'
      BY <1>4, <2>3, PcStep DEF GetString_CopyToEnd, RxPCs
    <3>2. PcInv'
      <4>1. /\ rxPc' = "copyFromStart" /\ rxI' = rxI /\ oldCnt' = rxI
            /\ UNCHANGED <<readCnt, writeCnt>>
        BY <1>4, <2>3 DEF GetString_CopyToEnd, ring
      <4>2. oldCnt' = Size - readCnt' \/ rxI' >= ProcessSize - 1
        BY <1>1, <2>1, <2>3, <4>1, SizeAssumption, ProcessSizeAssumption, SMTT(20) DEF Slots
      <4> QED
        BY <2>1, <4>1, <4>2 DEF PcInv
    <3> QED
      BY <3>1, <3>2 DEF RxInv
  <2> QED
    BY <2>2, <2>3
<1>5. CASE GetString_CopyFromStart
  <2>1. writeCnt < readCnt /\ (oldCnt = Size - readCnt \/ rxI >= ProcessSize - 1)
    <3>1. rxPc = "copyFromStart"
      BY <1>5 DEF GetString_CopyFromStart
    <3>2. PcInv
      BY <1>1
    <3> QED
      BY <3>1, <3>2 DEF PcInv
  <2>2. CASE rxI - oldCnt < writeCnt /\ rxI < ProcessSize - 1
    <3>1. SlotAfter(readCnt, rxI) = rxI - oldCnt /\ rxI - oldCnt \in Slots /\ rxI < Unread
      BY <2>1, <2>2, <1>1, SizeAssumption, ProcessSizeAssumption, SMTT(20) DEF SlotAfter, Slots, Unread, Used
    <3>2. CopyFrom(rxI - oldCnt)
      BY <1>5, <2>2 DEF GetString_CopyFromStart
    <3>3. RxTypeOK' /\ NoLoss' /\ CopiesOldest'
      BY <1>5, <2>2, <3>1, <3>2, CopyPrefix DEF GetString_CopyFromStart
    <3>4. PcInv'
      <4>1. /\ rxPc' = "copyFromStart" /\ rxI' = rxI + 1
            /\ UNCHANGED <<readCnt, writeCnt, oldCnt>>
        BY <1>5, <3>2 DEF GetString_CopyFromStart, CopyFrom, ring
      <4>2. oldCnt' = Size - readCnt' \/ rxI' >= ProcessSize - 1
        BY <1>1, <2>1, <2>2, <4>1, SizeAssumption, ProcessSizeAssumption DEF Slots
      <4> QED
        BY <2>1, <4>1, <4>2 DEF PcInv
    <3> QED
      BY <3>3, <3>4 DEF RxInv
  <2>3. CASE ~(rxI - oldCnt < writeCnt /\ rxI < ProcessSize - 1)
    <3>1. RxTypeOK' /\ NoLoss' /\ CopiesOldest'
      BY <1>5, <2>3, PcStep DEF GetString_CopyFromStart, RxPCs
    <3>2. PcInv'
      BY <1>5, <2>3 DEF GetString_CopyFromStart, PcInv
    <3> QED
      BY <3>1, <3>2 DEF RxInv
  <2> QED
    BY <2>2, <2>3
<1> QED
  BY <1>2, <1>3, <1>4, <1>5 DEF GetString

\* Executing the first complete line, or returning without one.
LEMMA ExecuteLineIInv == ASSUME RxInv, ExecuteLine PROVE RxInv'
<1>1. /\ RingType /\ LocalsType /\ CountsType /\ FlagsType
      /\ newlines \subseteq Nat /\ nuls \subseteq Nat /\ NoLoss /\ CopiesOldest
  BY DEF RxInv, RxTypeOK
<1>2. UNCHANGED <<buffer, readCnt, writeCnt, accepted, consumed, newlines, nuls>>
  BY DEF ExecuteLine, ring
<1>3. FlagsType'
  BY <1>1 DEF ExecuteLine, FlagsType
<1>4. RingType' /\ NoLoss' /\ newlines' \subseteq Nat /\ nuls' \subseteq Nat
  BY <1>1, <1>2 DEF RingType, NoLoss, Unread
<1>5. /\ rxI \in 0 .. ProcessSize - 1 /\ consumed \in Nat
      /\ Unread \in 0 .. Size - 1 /\ Unread' = Unread
  BY <1>1, <1>2, UsedType DEF LocalsType, RingType, CountsType, Unread
<1>6. CASE \E k \in 0 .. rxI - 1 : IsFirstNewline(k)
  <2>1. PICK k \in 0 .. rxI - 1 :
           /\ length' = ProcessedLength(k)
           /\ answered' = recvBuf[ProcessedLength(k) - 1]
           /\ rxPc' = "dropSelect"
           /\ UNCHANGED <<recvBuf, rxI, oldCnt>>
    BY <1>6 DEF ExecuteLine
  <2>2. ProcessedLength(k) \in 1 .. rxI
    BY <1>5, ProcessSizeAssumption, SMTT(20) DEF ProcessedLength, IsNewline
  <2>3. recvBuf[ProcessedLength(k) - 1] = consumed + ProcessedLength(k)
    BY <1>1, <1>5, <2>2, ProcessSizeAssumption, SMTT(20) DEF CopiesOldest
  <2>4. LocalsType'
    BY <1>1, <2>1, <2>2, ProcessSizeAssumption, SMTT(20) DEF LocalsType
  <2>5. CountsType'
    BY <1>1, <1>2, <1>5, <2>1, <2>2, <2>3, ProcessSizeAssumption, SMTT(20) DEF CountsType
  <2>6. CopiesOldest'
    BY <1>1, <1>2, <1>5, <2>1 DEF CopiesOldest
  <2>7. PcInv'
    BY <1>2, <1>5, <2>1, <2>2, <2>3 DEF PcInv
  <2> QED
    BY <1>3, <1>4, <2>1, <2>4, <2>5, <2>6, <2>7 DEF RxInv, RxTypeOK, RxPCs
<1>7. CASE ~\E k \in 0 .. rxI - 1 : IsFirstNewline(k)
  <2>1. RxReturn /\ answered' = answered
    BY <1>7 DEF ExecuteLine
  <2>2. LocalsType' /\ CountsType' /\ rxPc' \in RxPCs
    BY <1>1, <1>2, <2>1, ProcessSizeAssumption, SMTT(20) DEF RxReturn, LocalsType, CountsType, EmptyBuf, RxPCs
  <2>3. CopiesOldest'
    BY <1>5, <2>1 DEF RxReturn, CopiesOldest
  <2>4. PcInv'
    BY <2>1 DEF RxReturn, PcInv
  <2> QED
    BY <1>3, <1>4, <2>2, <2>3, <2>4 DEF RxInv, RxTypeOK
<1> QED
  BY <1>6, <1>7

\* Dropping n executed characters, however DropCharacters got there.
LEMMA DropToIInv ==
    ASSUME RxInv, NEW n \in 0 .. Unread, DropTo(SlotAfter(readCnt, n), n)
    PROVE  RxInv'
<1>1. /\ RingType /\ CountsType /\ FlagsType
      /\ newlines \subseteq Nat /\ nuls \subseteq Nat /\ NoLoss
  BY DEF RxInv, RxTypeOK
<1>2. /\ UNCHANGED <<buffer, writeCnt, accepted, newlines, nuls, answered>>
      /\ readCnt' = SlotAfter(readCnt, n) /\ consumed' = consumed + n
      /\ RxReturn
  BY DEF DropTo
<1>3. FlagsType'
  BY <1>1 DEF DropTo, FlagsType
<1>4. readCnt \in Slots /\ writeCnt \in Slots /\ consumed \in Nat /\ accepted \in Nat
  BY <1>1 DEF RingType, CountsType
<1>5. Unread \in 0 .. Size - 1
  BY <1>4, UsedType DEF Unread
<1>6. /\ readCnt' \in Slots /\ Unread' = Unread - n
      /\ \A k \in 0 .. Unread - n - 1 : SlotAfter(readCnt', k) = SlotAfter(readCnt, n + k)
  BY <1>2, <1>4, DropRemoves DEF Unread
<1>7. RingType' /\ CountsType' /\ newlines' \subseteq Nat /\ nuls' \subseteq Nat
  BY <1>1, <1>2, <1>4, <1>5, <1>6, SizeAssumption, SMTT(20) DEF RingType, CountsType
<1>8. LocalsType' /\ rxPc' \in RxPCs /\ CopiesOldest'
  <2>1. EmptyBuf \in [0 .. ProcessSize - 1 -> Nat]
    BY DEF EmptyBuf
  <2>2. /\ rxPc' = "wait" /\ recvBuf' = EmptyBuf /\ rxI' = 0 /\ oldCnt' = 0 /\ length' = 0
    BY <1>2 DEF RxReturn
  <2>3. LocalsType'
    BY <2>1, <2>2, ProcessSizeAssumption DEF LocalsType
  <2>4. Unread' \in Nat
    BY <1>5, <1>6, SizeAssumption
  <2>5. CopiesOldest'
    BY <2>2, <2>4 DEF CopiesOldest
  <2> QED
    BY <2>2, <2>3, <2>5 DEF RxPCs
<1>9. NoLoss'
  <2>1. accepted' - consumed' = Unread'
    BY <1>1, <1>2, <1>4, <1>5, <1>6, SizeAssumption, SMTT(20) DEF NoLoss
  <2>2. ASSUME NEW k \in 0 .. Unread' - 1
        PROVE  buffer'[SlotAfter(readCnt', k)] = consumed' + k + 1
    <3>1. n + k \in 0 .. Unread - 1 /\ SlotAfter(readCnt', k) = SlotAfter(readCnt, n + k)
      BY <1>5, <1>6, SizeAssumption, SMTT(20)
    <3>2. buffer[SlotAfter(readCnt, n + k)] = consumed + (n + k) + 1
      BY <1>1, <3>1 DEF NoLoss
    <3> QED
      BY <3>1, <3>2, <1>2, <1>4, <1>5, SizeAssumption
  <2> QED
    BY <2>1, <2>2, SMTT(20) DEF NoLoss
<1>10. PcInv'
  BY <1>2 DEF RxReturn, PcInv
<1> QED
  BY <1>3, <1>7, <1>8, <1>9, <1>10 DEF RxInv, RxTypeOK

\* What DropCharacters computes is the slot after the executed characters.
LEMMA DropComputes ==
    ASSUME RxInv
    PROVE  /\ DropCharacters_Straight => length \in 0 .. Unread /\ DropTo(SlotAfter(readCnt, length), length)
           /\ DropCharacters_Wrapped => length \in 0 .. Unread /\ DropTo(SlotAfter(readCnt, length), length)
<1>1. /\ readCnt \in Slots /\ writeCnt \in Slots
      /\ rxI \in 0 .. ProcessSize - 1 /\ length \in 0 .. rxI /\ rxI <= Unread
      /\ PcInv
  BY DEF RxInv, RxTypeOK, RingType, LocalsType, CopiesOldest
<1>2. Unread \in 0 .. Size - 1 /\ length \in 0 .. Unread
  BY <1>1, UsedType, ProcessSizeAssumption, SizeAssumption, SMTT(20) DEF Unread
<1>3. ASSUME DropCharacters_Straight PROVE DropTo(SlotAfter(readCnt, length), length)
  <2>1. rxPc = "dropStraight"
    BY <1>3 DEF DropCharacters_Straight
  <2>2. readCnt + length < Size
    BY <1>1, <2>1, Zenon DEF PcInv
  <2>3. DropStraight(readCnt, writeCnt, length) =
           [readCnt |-> SlotAfter(readCnt, length), length |-> length]
    BY <1>1, <1>2, <2>2, SizeAssumption, SMTT(20) DEF DropStraight, Lesser, U16Sub, SlotAfter, Slots, Unread, Used
  <2> QED
    BY <1>3, <2>3 DEF DropCharacters_Straight
<1>4. ASSUME DropCharacters_Wrapped PROVE DropTo(SlotAfter(readCnt, length), length)
  <2>1. rxPc = "dropWrapped"
    BY <1>4 DEF DropCharacters_Wrapped
  <2>2. writeCnt < readCnt
    BY <1>1, <2>1, Zenon DEF PcInv
  <2>3. DropWrapped(readCnt, writeCnt, length) =
           [readCnt |-> SlotAfter(readCnt, length), length |-> length]
    BY <1>1, <1>2, <2>2, SizeAssumption, SMTT(20) DEF DropWrapped, Lesser, SlotAfter, Slots, Unread, Used
  <2> QED
    BY <1>4, <2>3 DEF DropCharacters_Wrapped
<1> QED
  BY <1>2, <1>3, <1>4

\* DropCharacters, decision and removal.
LEMMA DropCharactersIInv == ASSUME RxInv, DropCharacters PROVE RxInv'
<1>1. CASE DropCharacters_Select
  <2>1. RxTypeOK' /\ NoLoss' /\ CopiesOldest'
    BY <1>1, PcStep DEF DropCharacters_Select, RxPCs, rxLocals
  <2>2. /\ readCnt \in Slots /\ writeCnt \in Slots
        /\ rxI \in 0 .. ProcessSize - 1 /\ length \in 0 .. rxI /\ rxI <= Unread
        /\ PcInv
    BY DEF RxInv, RxTypeOK, RingType, LocalsType, CopiesOldest
  <2>3. /\ UNCHANGED <<readCnt, writeCnt, length, answered, consumed>>
        /\ rxPc = "dropSelect"
        /\ rxPc' = IF readCnt < writeCnt THEN "dropStraight" ELSE "dropWrapped"
    BY <1>1 DEF DropCharacters_Select, ring, rxLocals
  <2>4. length > 0 /\ answered = consumed + length
    BY <2>2, <2>3 DEF PcInv
  <2>5. readCnt < writeCnt => readCnt + length < Size
    BY <2>2, SizeAssumption, ProcessSizeAssumption, SMTT(20) DEF Unread, Used, Slots
  <2>6. ~(readCnt < writeCnt) => writeCnt < readCnt
    BY <2>2, <2>4, SizeAssumption, ProcessSizeAssumption, SMTT(20) DEF Unread, Used, Slots
  <2>7. PcInv'
    BY <2>3, <2>4, <2>5, <2>6 DEF PcInv
  <2> QED
    BY <2>1, <2>7 DEF RxInv
<1>2. CASE DropCharacters_Straight \/ DropCharacters_Wrapped
  BY <1>2, DropComputes, DropToIInv
<1> QED
  BY <1>1, <1>2 DEF DropCharacters

LEMMA StutterIInv == ASSUME RxInv, UNCHANGED rxVars PROVE RxInv'
  BY DEF rxVars, ring, rxLocals, RxInv, RxTypeOK, RingType, LocalsType, CountsType, FlagsType,
         NoLoss, CopiesOldest, PcInv, Unread

LEMMA NextIInv == RxInv /\ [RxNext]_rxVars => RxInv'
  BY HandlerIInv, RunTaskIInv, GetStringIInv, ExecuteLineIInv, DropCharactersIInv, StutterIInv
  DEF RxNext, Task

\* The inductive invariant holds in every reachable state.
THEOREM Invariance == RxSpec => []RxInv
  BY InitIInv, NextIInv, PTL DEF RxSpec

\* Both counters always index the buffer, for every size and interleaving.
THEOREM TypeCorrect == RxSpec => []RxTypeOK
<1>1. RxInv => RxTypeOK
  BY DEF RxInv
<1> QED
  BY <1>1, Invariance, PTL

\* No accepted character is lost, doubled or reordered in the buffer.
THEOREM RxNoLoss == RxSpec => []NoLoss
<1>1. RxInv => NoLoss
  BY DEF RxInv
<1> QED
  BY <1>1, Invariance, PTL

\* GetString delivers the oldest unread characters whatever arrives meanwhile.
THEOREM RxCopiesOldest == RxSpec => []CopiesOldest
<1>1. RxInv => CopiesOldest
  BY DEF RxInv
<1> QED
  BY <1>1, Invariance, PTL

\* DropCharacters removes exactly the line that was executed.
THEOREM RxDropsExecutedOnly == RxSpec => DropsExecutedOnly
<1>1. ASSUME RxInv, RxNext, consumed' # consumed PROVE consumed' = answered
  <2>1. CASE DropCharacters_Straight \/ DropCharacters_Wrapped
    <3>1. consumed' = consumed + length
      BY <1>1, <2>1, DropComputes DEF DropTo
    <3>2. rxPc \in {"dropStraight", "dropWrapped"} /\ PcInv
      BY <1>1, <2>1 DEF DropCharacters_Straight, DropCharacters_Wrapped, RxInv
    <3>3. answered = consumed + length
      BY <3>2 DEF PcInv
    <3> QED
      BY <3>1, <3>3
  <2> QED
    BY <1>1, <2>1 DEF RxNext, Task, RunTask, GetString, GetString_Select, GetString_CopyStraight,
       GetString_CopyToEnd, GetString_CopyFromStart, ExecuteLine, DropCharacters,
       DropCharacters_Select, UART_Handler
<1>2. RxInv /\ [RxNext]_rxVars => [consumed' # consumed => consumed' = answered]_rxVars
  BY <1>1 DEF rxVars
<1> QED
  BY <1>2, Invariance, PTL DEF RxSpec, DropsExecutedOnly
-----------------------------------------------------------------------------
\* A sender that awaits its answers: what it sends, and what the task drops,
\* keep the buffer below the line begun and the line being dropped.

LEMMA InitSenderInv == ASSUME MaxLine > 0 PROVE RxInit => SenderInv
  BY SenderAssumption DEF RxInit, SenderInv, Dropping

\* A character the sender is allowed to send finds a free slot.
LEMMA HandlerSenderInv ==
    ASSUME MaxLine > 0, 2 * MaxLine < Size, RxInv, SenderInv, Handshake, RequestDriven,
           NEW char \in Chars, UART_Handler(char)
    PROVE  SenderInv'
<1>1. /\ answered \in Nat /\ accepted \in Nat /\ consumed \in Nat
      /\ length \in Nat /\ newlines \subseteq Nat /\ nuls \subseteq Nat
      /\ readCnt \in Slots /\ writeCnt \in Slots
      /\ accepted - consumed = Unread
  BY ProcessSizeAssumption, SMTT(20) DEF RxInv, RxTypeOK, RingType, LocalsType, CountsType, NoLoss
<1>2. /\ answered <= accepted /\ accepted - answered <= MaxLine
      /\ (\A n \in newlines : n <= answered) => accepted - answered <= MaxLine - 1
      /\ ~Dropping => answered = consumed
      /\ Dropping => length <= MaxLine
      /\ ~refused
  BY DEF SenderInv
<1>3. /\ \A n \in newlines : n <= answered
      /\ char = "newline" \/ accepted - answered < MaxLine - 1
  BY DEF UART_Handler, Allowed
<1>4. /\ UNCHANGED <<rxPc, length, consumed, answered>>
      /\ PutChar(char)
  BY DEF UART_Handler, rxLocals
<1>5. Dropping => answered = consumed + length
  BY DEF RxInv, PcInv, Dropping
<1>6. Unread < Size - 1
  BY <1>1, <1>2, <1>3, <1>5, SizeAssumption, SenderAssumption, SMTT(20)
<1>7. ~IsFull(readCnt, writeCnt)
  BY <1>1, <1>6, IsFullExact, SizeAssumption DEF Unread
<1>8. /\ accepted' = accepted + 1 /\ refused' = refused
      /\ newlines' = IF char = "newline" THEN newlines \cup {accepted + 1} ELSE newlines
  BY <1>4, <1>7 DEF PutChar, Accept
<1>9. answered' <= accepted' /\ accepted' - answered' <= MaxLine
  BY <1>1, <1>2, <1>3, <1>4, <1>8, SenderAssumption, SMTT(20)
<1>10. (\A n \in newlines' : n <= answered') => accepted' - answered' <= MaxLine - 1
  <2>1. CASE char = "newline"
    <3>1. accepted + 1 \in newlines' /\ ~(accepted + 1 <= answered')
      BY <1>1, <1>2, <1>4, <1>8, <2>1
    <3> QED
      BY <3>1
  <2>2. CASE char # "newline"
    BY <1>1, <1>3, <1>4, <1>8, <2>2, SenderAssumption
  <2> QED
    BY <2>1, <2>2
<1>11. Dropping' = Dropping
  BY <1>4 DEF Dropping
<1> QED
  BY <1>2, <1>4, <1>8, <1>9, <1>10, <1>11 DEF SenderInv

\* Answering l of the characters accepted since the last answer.
LEMMA AnsweredFits ==
    ASSUME NEW acc \in Nat, NEW ans \in Nat, NEW l \in Nat, NEW m \in Nat,
           l > 0, l <= acc - ans, acc - ans <= m
    PROVE  ans + l <= acc /\ acc - (ans + l) <= m - 1 /\ acc - (ans + l) <= m /\ l <= m
  OBVIOUS

\* The task answers whole lines, and drops what it has answered.
LEMMA TaskSenderInv ==
    ASSUME MaxLine > 0, RxInv, RxInv', SenderInv, Handshake, RequestDriven, Task
    PROVE  SenderInv'
<1>1. /\ answered \in Nat /\ accepted \in Nat /\ consumed \in Nat /\ newlines \subseteq Nat /\ nuls \subseteq Nat
      /\ accepted - consumed = Unread
  BY DEF RxInv, RxTypeOK, CountsType, NoLoss
<1>2. /\ answered' \in Nat /\ length' \in Nat /\ rxI' \in Nat /\ length' <= rxI' /\ rxI' <= Unread'
  BY ProcessSizeAssumption, SMTT(20) DEF RxInv, RxTypeOK, LocalsType, CountsType, CopiesOldest
<1>3. /\ answered <= accepted /\ accepted - answered <= MaxLine
      /\ (\A n \in newlines : n <= answered) => accepted - answered <= MaxLine - 1
      /\ ~Dropping => answered = consumed
      /\ Dropping => length <= MaxLine
      /\ ~refused
  BY DEF SenderInv
<1>4. UNCHANGED <<accepted, newlines, refused>>
  BY DEF Task, RunTask, GetString, GetString_Select, GetString_CopyStraight, GetString_CopyToEnd,
     GetString_CopyFromStart, ExecuteLine, DropCharacters, DropCharacters_Select,
     DropCharacters_Straight, DropCharacters_Wrapped, DropTo
<1>5. CASE RunTask \/ GetString
  <2>1. UNCHANGED <<answered, consumed>> /\ ~Dropping /\ ~Dropping'
    BY <1>5 DEF RunTask, GetString, GetString_Select, GetString_CopyStraight, GetString_CopyToEnd,
       GetString_CopyFromStart, CopyFrom, Dropping
  <2> QED
    BY <1>3, <1>4, <2>1 DEF SenderInv
<1>6. CASE ExecuteLine /\ ~\E k \in 0 .. rxI - 1 : IsFirstNewline(k)
  <2>1. UNCHANGED <<answered, consumed>> /\ ~Dropping /\ ~Dropping'
    BY <1>6 DEF ExecuteLine, RxReturn, Dropping
  <2> QED
    BY <1>3, <1>4, <2>1 DEF SenderInv
<1>7. CASE ExecuteLine /\ \E k \in 0 .. rxI - 1 : IsFirstNewline(k)
  <2>1. rxPc = "scan" /\ rxPc' = "dropSelect" /\ UNCHANGED <<readCnt, writeCnt, consumed>>
    BY <1>7 DEF ExecuteLine, ring
  <2>2. Unread' = Unread /\ answered = consumed /\ Dropping'
    BY <1>3, <2>1 DEF Unread, Dropping
  <2>3. length' > 0 /\ answered' = consumed + length'
    BY <2>1 DEF RxInv, PcInv
  <2>4. length' <= accepted - answered /\ accepted - answered <= MaxLine
    BY <1>1, <1>2, <1>3, <2>2
  <2>5. answered' = answered + length' /\ accepted' = accepted /\ ~refused'
    BY <1>3, <1>4, <2>2, <2>3
  <2>6. /\ answered' <= accepted' /\ accepted' - answered' <= MaxLine - 1
        /\ accepted' - answered' <= MaxLine /\ length' <= MaxLine
    <3>1. answered \in Nat /\ accepted \in Nat /\ length' \in Nat /\ MaxLine \in Nat
      BY <1>1, <1>2, SenderAssumption
    <3>2. length' > 0 /\ length' <= accepted - answered /\ accepted - answered <= MaxLine
      BY <2>3, <2>4
    <3> QED
      BY <3>1, <3>2, <2>5, AnsweredFits
  <2> QED
    BY <2>2, <2>5, <2>6 DEF SenderInv
<1>8. CASE DropCharacters_Select
  <2>1. UNCHANGED <<answered, consumed, length>> /\ Dropping /\ Dropping'
    BY <1>8 DEF DropCharacters_Select, Dropping, rxLocals
  <2> QED
    BY <1>3, <1>4, <2>1 DEF SenderInv
<1>9. CASE DropCharacters_Straight \/ DropCharacters_Wrapped
  <2>1. /\ consumed' = consumed + length /\ answered' = answered /\ rxPc' = "wait"
    BY <1>9, DropComputes DEF DropTo, RxReturn
  <2>2. answered = consumed + length
    BY <1>9 DEF DropCharacters_Straight, DropCharacters_Wrapped, RxInv, PcInv
  <2>3. ~Dropping'
    BY <2>1 DEF Dropping
  <2> QED
    BY <1>3, <1>4, <2>1, <2>2, <2>3 DEF SenderInv
<1> QED
  BY <1>5, <1>6, <1>7, <1>8, <1>9 DEF Task, DropCharacters

LEMMA NextSenderInv ==
    ASSUME MaxLine > 0, 2 * MaxLine < Size
    PROVE  RxInv /\ SenderInv /\ [RxNext]_rxVars => SenderInv'
<1> SUFFICES ASSUME RxInv, SenderInv, [RxNext]_rxVars PROVE SenderInv'
  OBVIOUS
<1>1. RxInv'
  BY NextIInv
<1>2. RequestDriven' = RequestDriven
  BY DEF RxNext, Task, UART_Handler, rxVars, RequestDriven
<1>3. CASE ~(Handshake /\ RequestDriven)
  BY <1>2, <1>3 DEF SenderInv
<1>4. CASE Handshake /\ RequestDriven /\ RxNext
  BY <1>1, <1>4, HandlerSenderInv, TaskSenderInv DEF RxNext
<1>5. CASE UNCHANGED rxVars
  BY <1>5 DEF rxVars, rxLocals, SenderInv, Dropping, RequestDriven
<1> QED
  BY <1>3, <1>4, <1>5

\* A sender that awaits every answer and keeps each line below half of the
\* buffer never has a character refused, for every size of the buffers: the
\* bound 2 * MaxLine < Size is exactly what one line in progress and one being
\* dropped need beside the slot that is kept empty.
THEOREM RxNoneRefused ==
    ASSUME MaxLine > 0, 2 * MaxLine < Size
    PROVE  RxSpec => []NoneRefused
<1>1. SenderInv => NoneRefused
  BY DEF SenderInv, NoneRefused
<1> QED
  BY <1>1, InitSenderInv, NextSenderInv, Invariance, PTL DEF RxSpec
=============================================================================
