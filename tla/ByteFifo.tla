------------------------------ MODULE ByteFifo ------------------------------
(***************************************************************************)
(* What a CircularBuffer promises its callers: a first-in first-out queue  *)
(* of at most Capacity characters, with a non-destructive read of the      *)
(* oldest characters (GetString) and a separate removal (DropCharacters).  *)
(***************************************************************************)
EXTENDS Integers, Sequences

CONSTANTS Capacity, Chars, MaxString

VARIABLES content,   \* the characters not yet removed, oldest first
          reply      \* the operation last called and what it returned

Strings == UNION {[1 .. n -> Chars] : n \in 1 .. MaxString}
AtMost(n, limit) == IF n < limit THEN n ELSE limit

Init == content = <<>> /\ reply = [op |-> "Init", value |-> 0]

PutChar(c) ==
    /\ content' = IF Len(content) < Capacity THEN Append(content, c) ELSE content
    /\ reply' = [op |-> "PutChar", value |-> Len(content) < Capacity]

\* A string is accepted up to the free space; the count accepted is returned.
PutString(str) ==
    LET n == AtMost(Len(str), Capacity - Len(content))
    IN /\ content' = content \o SubSeq(str, 1, n)
       /\ reply' = [op |-> "PutString", value |-> n]

GetChar ==
    IF content = <<>>
    THEN content' = content /\ reply' = [op |-> "GetChar", value |-> <<>>]
    ELSE content' = Tail(content) /\ reply' = [op |-> "GetChar", value |-> <<Head(content)>>]

\* maxLen counts the terminator, so at most maxLen - 1 characters are copied.
GetString(maxLen) ==
    /\ reply' = [op |-> "GetString",
                 value |-> SubSeq(content, 1, AtMost(maxLen - 1, Len(content)))]
    /\ UNCHANGED content

\* What is returned is only promised when no more than the content is dropped.
DropCharacters(length) ==
    LET n == AtMost(length, Len(content))
    IN /\ content' = SubSeq(content, n + 1, Len(content))
       /\ \E returned \in {n, length} : reply' = [op |-> "DropCharacters", value |-> returned]

Clear == content' = <<>> /\ reply' = [op |-> "Clear", value |-> 0]

Next ==
    \/ \E c \in Chars : PutChar(c)
    \/ \E str \in Strings : PutString(str)
    \/ GetChar
    \/ \E n \in 0 .. MaxString + Capacity : GetString(n + 1) \/ DropCharacters(n)
    \/ Clear

Spec == Init /\ [][Next]_<<content, reply>>
=============================================================================
