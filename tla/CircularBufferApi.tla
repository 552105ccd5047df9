------------------------- MODULE CircularBufferApi --------------------------
(***************************************************************************)
(* A CircularBuffer driven by one caller: every call of CircularBuffer.c   *)
(* runs to its end before the next one.  This is how the unit test and all *)
(* code of the main loop use it while no interrupt shares the buffer.      *)
(***************************************************************************)
EXTENDS CircularBuffer, Sequences, SequencesExt

CONSTANTS Chars,      \* the characters callers put
          NUL,        \* what memset and the terminator write
          MaxString   \* bound: longest string a caller puts

ASSUME MaxStringAssumption == MaxString \in Nat /\ NUL \notin Chars

VARIABLES buffer, readCnt, writeCnt, reply
vars == <<buffer, readCnt, writeCnt, reply>>

\* Bound: the lengths callers pass to GetString and DropCharacters.
Lengths == 0 .. MaxString + Size - 1
Strings == SeqOf(Chars, MaxString) \ {<<>>}

Init ==
    /\ buffer = [i \in Slots |-> NUL]
    /\ readCnt = 0 /\ writeCnt = 0
    /\ reply = [op |-> "Init", value |-> 0]

\* One PutChar on the state of a PutString loop.
PutOne(st, c) ==
    IF IsFull(readCnt, st.writeCnt) THEN st
    ELSE [buffer   |-> [st.buffer EXCEPT ![st.writeCnt] = c],
          writeCnt |-> Wrap(st.writeCnt + 1),
          count    |-> st.count + 1]

Unwritten == [buffer |-> buffer, writeCnt |-> writeCnt, count |-> 0]

PutChar(c) ==
    LET st == PutOne(Unwritten, c)
    IN /\ buffer' = st.buffer /\ writeCnt' = st.writeCnt
       /\ reply' = [op |-> "PutChar", value |-> st.count = 1]
       /\ UNCHANGED readCnt

\* The loop ends at the first PutChar that fails; the ones after would fail too.
PutString(str) ==
    LET put[k \in 0 .. Len(str)] == IF k = 0 THEN Unwritten ELSE PutOne(put[k - 1], str[k])
        st == put[Len(str)]
    IN /\ buffer' = st.buffer /\ writeCnt' = st.writeCnt
       /\ reply' = [op |-> "PutString", value |-> st.count]
       /\ UNCHANGED readCnt

GetChar ==
    /\ IF IsNotEmpty(readCnt, writeCnt)
       THEN /\ readCnt' = Wrap(readCnt + 1)
            /\ reply' = [op |-> "GetChar", value |-> <<buffer[readCnt]>>]
       ELSE /\ reply' = [op |-> "GetChar", value |-> <<>>]
            /\ UNCHANGED readCnt
    /\ UNCHANGED <<buffer, writeCnt>>

GetString(maxLen) ==
    LET r == Checked(readCnt)
        w == Checked(writeCnt)
    IN /\ readCnt' = r /\ writeCnt' = w
       /\ reply' = [op |-> "GetString",
                    value |-> [k \in 1 .. GetStringLength(r, w, maxLen) |->
                                  buffer[SlotAfter(r, k - 1)]]]
       /\ UNCHANGED buffer

DropCharacters(length) ==
    LET w == Checked(writeCnt)
        dropped == Drop(Checked(readCnt), w, length)
    IN /\ readCnt' = Checked(dropped.readCnt) /\ writeCnt' = w
       /\ reply' = [op |-> "DropCharacters", value |-> dropped.length]
       /\ UNCHANGED buffer

Clear ==
    /\ readCnt' = writeCnt
    /\ reply' = [op |-> "Clear", value |-> 0]
    /\ UNCHANGED <<buffer, writeCnt>>

Next ==
    \/ \E c \in Chars : PutChar(c)
    \/ \E str \in Strings : PutString(str)
    \/ GetChar
    \/ \E n \in Lengths : GetString(n + 1) \/ DropCharacters(n)
    \/ Clear

Spec == Init /\ [][Next]_vars
-----------------------------------------------------------------------------
\* The type invariant: between calls both counters are slots, so no call
\* indexes outside the buffer.
TypeOK ==
    /\ buffer \in [Slots -> Chars \cup {NUL}]
    /\ readCnt \in Slots /\ writeCnt \in Slots

\* The unread characters, oldest first.
Content == [k \in 1 .. Used(readCnt, writeCnt) |-> buffer[SlotAfter(readCnt, k - 1)]]

\* Every call behaves, replies included, as the same call on a bounded FIFO.
Fifo == INSTANCE ByteFifo WITH Capacity <- Size - 1, content <- Content
ImplementsFifo == Fifo!Spec
=============================================================================
