----------------------------- MODULE LineEditor ------------------------------
(***************************************************************************)
(* What the command line promises to whoever types: a line of text with a  *)
(* cursor, and the last commands, which can be recalled.  One step is what *)
(* the program makes of the characters it received at once: letters, and   *)
(* at most one key.  A key may have to wait behind another one; one that   *)
(* waits is not forgotten, except that a later cursor key may replace it.  *)
(***************************************************************************)
EXTENDS Integers, Sequences

CONSTANTS Letters,       \* the characters a line is made of
          MaxLength,     \* the longest line
          Commands       \* the names Tab completes to, in order

VARIABLES text, cursor,  \* the line and the number of letters before the cursor
          history,       \* the recallable commands, oldest first
          recall,        \* the one that key Up shows next
          waiting        \* keys typed and not yet carried out

vars == <<text, cursor, history, recall, waiting>>

CursorKeys == {"Up", "Down", "Left", "Right"}
EditKeys == {"Enter", "Backspace", "Delete", "Tab"} \cup CursorKeys

Line == [text |-> text, cursor |-> cursor, history |-> history, recall |-> recall]

Before(letters, k) == SubSeq(letters, 1, k - 1)
From(letters, k) == SubSeq(letters, k, Len(letters))
Without(letters, k) == Before(letters, k) \o From(letters, k + 1)
StartsWith(letters, start) ==
    Len(start) <= Len(letters) /\ SubSeq(letters, 1, Len(start)) = start

AtEnd(line, newText) == [line EXCEPT !.text = newText, !.cursor = Len(newText)]

\* A letter goes to the cursor; a full line takes no more.
Typed(line, letter) ==
    IF Len(line.text) = MaxLength THEN line
    ELSE [line EXCEPT !.text = Before(line.text, line.cursor + 1) \o <<letter>>
                                  \o From(line.text, line.cursor + 1),
                      !.cursor = line.cursor + 1]

TypedAll(line, letters) ==
    LET typedFirst[k \in 0 .. Len(letters)] ==
            IF k = 0 THEN line ELSE Typed(typedFirst[k - 1], letters[k])
    IN typedFirst[Len(letters)]

\* A new command replaces the oldest one.
Entered(line) ==
    LET empty == [line EXCEPT !.text = <<>>, !.cursor = 0]
        known == \E k \in DOMAIN line.history : line.history[k] = line.text
    IN IF line.text = <<>> \/ known THEN empty
       ELSE [empty EXCEPT !.history = Append(Tail(line.history), line.text),
                          !.recall = Len(line.history)]

Older(line) == IF line.recall = 1 THEN Len(line.history) ELSE line.recall - 1
Newer(line) == IF line.recall = Len(line.history) THEN 1 ELSE line.recall + 1

Completions(line) ==
    {k \in 1 .. Len(Commands) : line.text # <<>> /\ StartsWith(Commands[k], line.text)}

\* What a key does to the line.  Delete does nothing before the first letter.
Pressed(line, key) ==
    CASE key = "Enter" -> Entered(line)
      [] key = "Backspace" /\ line.cursor > 0 ->
            [line EXCEPT !.text = Without(line.text, line.cursor), !.cursor = line.cursor - 1]
      [] key = "Delete" /\ line.cursor \in 1 .. Len(line.text) - 1 ->
            [line EXCEPT !.text = Without(line.text, line.cursor + 1)]
      [] key = "Tab" /\ Completions(line) # {} ->
            AtEnd(line, Commands[CHOOSE k \in Completions(line) :
                                     \A j \in Completions(line) : k <= j])
      [] key = "Up" ->
            [AtEnd(line, line.history[line.recall]) EXCEPT !.recall = Older(line)]
      [] key = "Down" ->
            [AtEnd(line, line.history[Newer(line)]) EXCEPT !.recall = Newer(line)]
      [] key = "Left" /\ line.cursor > 0 -> [line EXCEPT !.cursor = line.cursor - 1]
      [] key = "Right" /\ line.cursor < Len(line.text) -> [line EXCEPT !.cursor = line.cursor + 1]
      [] OTHER -> line

Becomes(line) ==
    /\ text' = line.text /\ cursor' = line.cursor
    /\ history' = line.history /\ recall' = line.recall

Init ==
    /\ text = <<>> /\ cursor = 0 /\ waiting = {}
    /\ history \in Seq(Seq(Letters)) /\ recall = Len(history)

\* Letters are received, and a key may be; one of the waiting keys is carried out,
\* or none ("None").
Receive(letters, typed, forgotten, key) ==
    /\ waiting' = ((waiting \ forgotten) \cup typed) \ {key}
    /\ Becomes(Pressed(TypedAll(Line, letters), key))

Next ==
    \E letters \in UNION {[1 .. n -> Letters] : n \in 0 .. 2}, forgotten \in {{}, CursorKeys} :
        \E typed \in {{}} \cup {{key} : key \in EditKeys} :
            \E key \in waiting \cup typed \cup {"None"} :
                Receive(letters, typed, forgotten, key)

Spec == Init /\ [][Next]_vars
=============================================================================
