------------------------------ MODULE ValueList ------------------------------
(***************************************************************************)
(* What the linked list promises: values in the order in which they were   *)
(* added, any of which may be removed.  An empty list takes a value; any   *)
(* other either takes it or answers that it did not.  When it may refuse   *)
(* is not promised here: see RefusedOnlyWhenFull of LinkedList.            *)
(***************************************************************************)
EXTENDS Integers, Sequences

CONSTANTS Values, MaxItems

VARIABLES values,      \* the listed values, oldest first
          added        \* the answer to the last call

vars == <<values, added>>

Init == values = <<>> /\ added = FALSE

Taken(v) == Len(values) < MaxItems /\ values' = Append(values, v) /\ added' = TRUE

Refused == values # <<>> /\ added' = FALSE /\ UNCHANGED values

RemoveItem(k) ==
    /\ values' = SubSeq(values, 1, k - 1) \o SubSeq(values, k + 1, Len(values))
    /\ UNCHANGED added

Next ==
    \/ \E v \in Values : Taken(v)
    \/ Refused
    \/ \E k \in DOMAIN values : RemoveItem(k)

Spec == Init /\ [][Next]_vars
=============================================================================
