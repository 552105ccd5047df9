----------------------------- MODULE LinkedList ------------------------------
(***************************************************************************)
(* The doubly linked list of Src/Common/Helper/LinkedList.c.  The items    *)
(* come from a fixed store; a pointer is the index of the item it points   *)
(* to, or Null.  RemoveItem is called with items of the list.              *)
(***************************************************************************)
EXTENDS Integers, Sequences, SequencesExt, FiniteSets

CONSTANTS StoreLength,      \* LINKEDLIST_STORE_LENGTH
          Values            \* the values callers add

ASSUME LinkedListAssumption == StoreLength \in Nat \ {0} /\ 0 \in Values

VARIABLES
    val, next, prev, isBusy,    \* the fields of MyList_StoreBuffer
    first, last,                \* MyList_first, MyList_last
    added                       \* what LinkedList_AddItem returned last

linkedListVars == <<val, next, prev, isBusy, first, last, added>>

Items == 0 .. StoreLength - 1
Null == StoreLength
Pointers == Items \cup {Null}

LinkedListInit ==
    /\ val = [i \in Items |-> 0] /\ isBusy = [i \in Items |-> FALSE]
    /\ next = [i \in Items |-> Null] /\ prev = [i \in Items |-> Null]
    /\ first = Null /\ last = Null /\ added = FALSE
-----------------------------------------------------------------------------
\* LinkedList_SearchFreeSpace, -1 when every item is in use.
FreePos ==
    IF \A i \in Items : isBusy[i] THEN -1
    ELSE CHOOSE i \in Items : ~isBusy[i] /\ \A j \in 0 .. i - 1 : isBusy[j]

\* LinkedList_AddItem on an empty list: the first item of the store is taken.
AddFirstItem(value) ==
    /\ first = Null
    /\ val' = [val EXCEPT ![0] = value] /\ isBusy' = [isBusy EXCEPT ![0] = TRUE]
    /\ next' = [next EXCEPT ![0] = Null] /\ prev' = [prev EXCEPT ![0] = Null]
    /\ first' = 0 /\ last' = 0 /\ added' = TRUE

\* The code's test is freePos > 0: when the first item of the store was removed it
\* is the one that is found, and nothing is added until the list is empty.
AddItem(value) ==
    /\ first # Null
    /\ IF FreePos > 0
       THEN /\ val' = [val EXCEPT ![FreePos] = value]
            /\ isBusy' = [isBusy EXCEPT ![FreePos] = TRUE]
            /\ next' = [next EXCEPT ![FreePos] = Null, ![last] = FreePos]
            /\ prev' = [prev EXCEPT ![FreePos] = last]
            /\ last' = FreePos /\ added' = TRUE
       ELSE added' = FALSE /\ UNCHANGED <<val, next, prev, isBusy, last>>
    /\ UNCHANGED first

\* Variant: the last item's predecessor keeps its pointer.
RemoveItem_KeepsNext(item) ==
    /\ isBusy' = [isBusy EXCEPT ![item] = FALSE]
    /\ next' = [i \in Items |-> IF i = item THEN Null
                                ELSE IF i = prev[item] /\ next[item] # Null THEN next[item]
                                ELSE next[i]]
    /\ prev' = [i \in Items |-> IF i = item THEN Null
                                ELSE IF i = next[item] THEN prev[item] ELSE prev[i]]
    /\ first' = IF prev[item] = Null THEN next[item] ELSE first
    /\ last' = IF next[item] = Null THEN prev[item] ELSE last
    /\ UNCHANGED <<val, added>>

\* The neighbours are joined, and first or last where there is none.
RemoveItem(item) ==
    /\ isBusy' = [isBusy EXCEPT ![item] = FALSE]
    /\ next' = [i \in Items |-> IF i = item THEN Null
                                ELSE IF i = prev[item] THEN next[item] ELSE next[i]]
    /\ prev' = [i \in Items |-> IF i = item THEN Null
                                ELSE IF i = next[item] THEN prev[item] ELSE prev[i]]
    /\ first' = IF prev[item] = Null THEN next[item] ELSE first
    /\ last' = IF next[item] = Null THEN prev[item] ELSE last
    /\ UNCHANGED <<val, added>>

LinkedListNext ==
    \/ \E value \in Values : AddFirstItem(value) \/ AddItem(value)
    \/ \E item \in {i \in Items : isBusy[i]} : RemoveItem(item)

LinkedListSpec == LinkedListInit /\ [][LinkedListNext]_linkedListVars
-----------------------------------------------------------------------------
LinkedListTypeOK ==
    /\ val \in [Items -> Values] /\ isBusy \in [Items -> BOOLEAN]
    /\ next \in [Items -> Pointers] /\ prev \in [Items -> Pointers]
    /\ first \in Pointers /\ last \in Pointers /\ added \in BOOLEAN

Busy == Cardinality({i \in Items : isBusy[i]})

\* The busy items as they are met when the pointers are followed from either end.
Forward ==
    LET met[n \in 1 .. Busy] == IF n = 1 THEN first ELSE next[met[n - 1]]
    IN met
Backward ==
    LET met[n \in 1 .. Busy] == IF n = 1 THEN last ELSE prev[met[n - 1]]
    IN met

\* The pointers make the list of values that callers expect, whatever items
\* were removed and reused in between: both directions give the same items,
\* none is lost while it is busy, and the ends are not joined to anything.
List == INSTANCE ValueList WITH
    MaxItems <- StoreLength,
    values <- [k \in 1 .. Busy |-> val[Forward[k]]]
ImplementsList ==
    /\ List!Spec
    /\ [](/\ IsInjective(Forward) /\ Backward = Reverse(Forward)
          /\ IF Busy = 0 THEN first = Null /\ last = Null
             ELSE prev[first] = Null /\ next[last] = Null)

\* LinkedList_AddItem: what is not added finds the list "Full, no free space".
RefusedOnlyWhenFull == [][added /\ ~added' => \A i \in Items : isBusy[i]]_linkedListVars
=============================================================================
