------------------------ MODULE CircularBufferProof -------------------------
(***************************************************************************)
(* Facts about the index arithmetic of CircularBuffer, for every Size.     *)
(***************************************************************************)
EXTENDS CircularBuffer, TLAPS

\* The counters stand for at most Size - 1 characters.
LEMMA UsedType ==
    ASSUME NEW r \in Slots, NEW w \in Slots
    PROVE  Used(r, w) \in 0 .. Size - 1
  BY SizeAssumption DEF Slots, Used

\* A character k places after the oldest is in the buffer.
LEMMA SlotAfterType ==
    ASSUME NEW r \in Slots, NEW k \in 0 .. Size - 1
    PROVE  SlotAfter(r, k) \in Slots
  BY SizeAssumption DEF Slots, SlotAfter

\* IsFull says "full" exactly when all slots but one are in use.
LEMMA IsFullExact ==
    ASSUME NEW r \in Slots, NEW w \in Slots
    PROVE  IsFull(r, w) <=> Used(r, w) = Size - 1
  BY SizeAssumption DEF Slots, Used, IsFull

\* IsNotEmpty says "not empty" exactly when a character is unread.
LEMMA IsNotEmptyExact ==
    ASSUME NEW r \in Slots, NEW w \in Slots
    PROVE  IsNotEmpty(r, w) <=> Used(r, w) > 0
  BY SizeAssumption DEF Slots, Used, IsNotEmpty

\* PutChar on a buffer that is not full writes the slot after the newest
\* character and adds one character.
LEMMA PutAdds ==
    ASSUME NEW r \in Slots, NEW w \in Slots, ~IsFull(r, w)
    PROVE  /\ Wrap(w + 1) \in Slots
           /\ Used(r, Wrap(w + 1)) = Used(r, w) + 1
           /\ SlotAfter(r, Used(r, w)) = w
  BY SizeAssumption DEF Slots, Used, IsFull, Wrap, SlotAfter

\* The slot PutChar writes holds no unread character.
LEMMA PutSpares ==
    ASSUME NEW r \in Slots, NEW w \in Slots, NEW k \in 0 .. Used(r, w) - 1
    PROVE  SlotAfter(r, k) # w
  BY SizeAssumption, SMTT(20) DEF Slots, Used, SlotAfter

\* Moving readCnt n characters on removes the n oldest characters.
LEMMA DropRemoves ==
    ASSUME NEW r \in Slots, NEW w \in Slots, NEW n \in 0 .. Used(r, w)
    PROVE  /\ SlotAfter(r, n) \in Slots
           /\ Used(SlotAfter(r, n), w) = Used(r, w) - n
           /\ \A k \in 0 .. Used(r, w) - n - 1 :
                 SlotAfter(SlotAfter(r, n), k) = SlotAfter(r, n + k)
  BY SizeAssumption DEF Slots, Used, SlotAfter

\* DropCharacters, both branches: a request that does not exceed the content
\* removes exactly what was asked for and returns it.
THEOREM DropExact ==
    ASSUME NEW r \in Slots, NEW w \in Slots, NEW n \in 0 .. Used(r, w)
    PROVE  Drop(r, w, n) = [readCnt |-> SlotAfter(r, n), length |-> n]
<1>1. CASE r < w
  BY <1>1, SizeAssumption DEF Slots, Used, SlotAfter, Drop, DropStraight, Lesser, U16Sub
<1>2. CASE r > w
  BY <1>2, SizeAssumption DEF Slots, Used, SlotAfter, Drop, DropWrapped, Lesser
<1>3. CASE r = w
  BY <1>3, SizeAssumption DEF Slots, Used, SlotAfter, Drop
<1> QED
  BY <1>1, <1>2, <1>3 DEF Slots

\* A request beyond the content empties the buffer and no more.
THEOREM DropAll ==
    ASSUME NEW r \in Slots, NEW w \in Slots, NEW n \in Nat, n >= Used(r, w)
    PROVE  Drop(r, w, n).readCnt = w
<1>1. CASE r < w
  BY <1>1, SizeAssumption DEF Slots, Used, Drop, DropStraight, Lesser, U16Sub
<1>2. CASE r > w
  BY <1>2, SizeAssumption DEF Slots, Used, Drop, DropWrapped, Lesser
<1>3. CASE r = w
  BY <1>3 DEF Drop, Slots
<1> QED
  BY <1>1, <1>2, <1>3 DEF Slots
=============================================================================
