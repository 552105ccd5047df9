--------------------------- MODULE CircularBuffer ---------------------------
(***************************************************************************)
(* The index arithmetic of Src/Common/Helper/CircularBuffer.c: what each   *)
(* function reads off the two counters and what it makes of them.  Slots   *)
(* are 0 .. Size-1; readCnt is the oldest character, writeCnt the next     *)
(* free slot, and one slot is kept empty to tell full from empty.          *)
(*                                                                         *)
(* A counter passes through the value Size for an instant (it is           *)
(* incremented first and wrapped by a second store), so the operators that *)
(* an interrupt may evaluate are defined on 0 .. Size.                     *)
(***************************************************************************)
EXTENDS Integers

CONSTANT Size       \* CircularBufferInfo_t.size, a uint16_t

ASSUME SizeAssumption == Size \in 2 .. 65535

Slots == 0 .. Size - 1

\* uint16_t subtraction
U16Sub(a, b) == IF a >= b THEN a - b ELSE a - b + 65536

Lesser(a, b) == IF a <= b THEN a ELSE b

IsNotEmpty(r, w) == r # w

\* Variant: the counters are compared by order, not by equality.
IsFull_AtLeast(r, w) == IF r > 0 THEN w >= r - 1 ELSE w = Size - 1

IsFull(r, w) == IF r > 0 THEN w = r - 1 ELSE w = Size - 1

\* Variant: the counter is wrapped one later.
Wrap_Late(cnt) == IF cnt > Size THEN 0 ELSE cnt

\* The second store of PutChar and GetChar.
Wrap(cnt) == IF cnt >= Size THEN 0 ELSE cnt

\* The number of unread characters the counters stand for.
Used(r, w) == IF w >= r THEN w - r ELSE Size - r + w

\* The slot k places after r.
SlotAfter(r, k) == IF r + k < Size THEN r + k ELSE r + k - Size

\* CIRCULARBUFFER_CHECK_READ_COUNTER and _WRITE_COUNTER
Checked(cnt) == IF cnt >= Size THEN Size - 1 ELSE cnt

\* How many characters GetString copies: the unread ones as far as the
\* caller's buffer reaches, in one or two runs.
GetStringLength(r, w, maxLen) ==
    IF maxLen <= 1 THEN 0
    ELSE IF r <= w THEN Lesser(w - r, maxLen - 1)
    ELSE LET toEnd == Lesser(Size - r, maxLen - 1)
         IN toEnd + Lesser(w, maxLen - 1 - toEnd)

\* DropCharacters when readCnt < writeCnt.
DropStraight(r, w, length) ==
    LET n == Lesser(length, U16Sub(w, r))
    IN [readCnt |-> r + n, length |-> n]

\* Variant: the whole of the end run must be dropped to wrap, so the counter
\* is left at Size when exactly the end run is dropped.
DropWrapped_Strict(r, w, length) ==
    LET overflowed == Size - r < length
    IN [readCnt |-> IF overflowed THEN Lesser(length - (Size - r), w) ELSE r + length,
        length |-> length]

\* DropCharacters when readCnt > writeCnt.  The returned length is not
\* clipped: secondClear is overwritten with writeCnt before the difference
\* of the two is subtracted.
DropWrapped(r, w, length) ==
    LET firstClear  == Size - r
        overflowed  == firstClear <= length
        secondClear == Lesser(length - firstClear, w)
    IN [readCnt |-> IF overflowed THEN secondClear ELSE r + length, length |-> length]

Drop(r, w, length) ==
    IF r < w THEN DropStraight(r, w, length)
    ELSE IF r > w THEN DropWrapped(r, w, length)
    ELSE [readCnt |-> r, length |-> 0]
=============================================================================
