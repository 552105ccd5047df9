------------------------------ MODULE Terminal -------------------------------
(***************************************************************************)
(* The command line of Src/Communication/Terminal.c, with escape sequences *)
(* and command history.  Terminal_CheckCommand takes everything out of the *)
(* rx buffer, processes the characters up to the first key (what came      *)
(* behind it is lost), sets a flag for that key and then handles one flag, *)
(* in a fixed order of priority.                                           *)
(*                                                                         *)
(* Letters stand for themselves in lower case.  Echo and refreshing of the *)
(* line are left out, and so is what a command does when it is executed.   *)
(*                                                                         *)
(* Two statements write the byte behind the line's array: Enter on a full  *)
(* line, and a letter inserted into a line with room for one more.  What   *)
(* lies there is the linker's choice, so the model ends with that write    *)
(* and only records it.                                                    *)
(***************************************************************************)
EXTENDS Integers, Sequences, SequencesExt, FiniteSets

CONSTANTS
    Letters,            \* characters that are put into the line
    EndOfString,        \* '\0'
    MaxLength,          \* TERMINAL_MAX_COMMAND_LENGTH
    HistorySize,        \* TERMINAL_HISTORY_MAX_COUNT
    HistoryInitList,    \* Terminal_HistoryInitList
    CommandNames,       \* the names in CmdH_CommandList
    SavedCommands       \* bound: what the history may hold

\* The bytes with a meaning of their own, and those of an escape sequence.
ESC == "ESC"
Keys == {"Enter", "Backspace", "Delete", "Tab"}
Arrows == {"A", "B", "C", "D"}    \* up, down, right, left

ASSUME TerminalAssumption ==
    /\ MaxLength \in Nat \ {0, 1} /\ HistorySize \in Nat \ {0}
    /\ Letters \cap (Keys \cup {ESC, EndOfString}) = {}
    /\ HistoryInitList \in [0 .. HistorySize - 1 -> Seq(Letters)]
    /\ \A e \in 0 .. HistorySize - 1 : Len(HistoryInitList[e]) \in 1 .. MaxLength - 1
    /\ CommandNames \in Seq(Seq(Letters))
    /\ \A k \in DOMAIN CommandNames : Len(CommandNames[k]) \in 1 .. MaxLength - 1

VARIABLES
    line,               \* Terminal_CommandActual
    actualLength,       \* Terminal_CommandActualLength
    cursorPosition,     \* Terminal_CommandCursorPosition
    received,           \* the Terminal_CommandReceived... flags that are set
    escape,             \* Terminal_CommandEscape_cnt while in progress, else 0
    actualEscape,       \* Terminal_CommandActualEscape[2]
    historyList, saveCnt, loadCnt,    \* Terminal_History...
    mixed,              \* history: some batch brought a letter inside the line and a key
    overrun             \* history: the byte behind the line was written

editVars == <<line, actualLength, cursorPosition, received, escape, actualEscape>>
historyVars == <<historyList, saveCnt, loadCnt>>
terminalVars == <<editVars, historyVars, mixed, overrun>>

Cells == 0 .. MaxLength - 1
Entries == 0 .. HistorySize - 1

TerminalInit ==
    /\ line = [c \in Cells |-> EndOfString]
    /\ actualLength = 0 /\ cursorPosition = 0
    /\ received = {} /\ escape = 0 /\ actualEscape = EndOfString
    /\ historyList = HistoryInitList /\ saveCnt = 0 /\ loadCnt = 0
    /\ mixed = FALSE /\ overrun = FALSE
-----------------------------------------------------------------------------
(* Terminal_ProcessReceivedCharacter, on the state st of its loop.         *)

ReceiveKey(st, key) ==
    [st EXCEPT !.flags = @ \cup {key}, !.event = TRUE, !.returned = TRUE]

AppendLetter(st, c) ==
    [st EXCEPT !.line[st.length] = c, !.length = @ + 1, !.cursor = @ + 1]

InsertLetter(st, c) ==
    LET length == st.length + 1
        moved == [i \in Cells |-> IF i \in st.cursor + 1 .. length THEN st.line[i - 1] ELSE st.line[i]]
    IN [st EXCEPT !.line = [moved EXCEPT ![st.cursor] = c, ![length] = EndOfString],
                  !.length = length, !.cursor = @ + 1,
                  !.flags = @ \cup {"NotLastChar"}, !.event = TRUE]

ReceiveLetter(st, c) ==
    IF st.length >= MaxLength THEN st
    ELSE IF st.cursor = st.length THEN AppendLetter(st, c)
    ELSE InsertLetter(st, c)

\* After ESC [ 3 only '~' ends the sequence: any other byte leaves it in
\* progress, and every later byte is swallowed.
ReceiveEscape(st, c) ==
    CASE st.escape = 1 -> [st EXCEPT !.escape = IF c = "[" THEN 2 ELSE 0]
      [] st.escape = 2 /\ c = "3" -> [st EXCEPT !.escape = 3, !.actualEscape = c]
      [] st.escape = 2 /\ c # "3" ->
            ReceiveKey([st EXCEPT !.escape = 0, !.actualEscape = c], "EscapeSequence")
      [] st.escape = 3 /\ c = "~" -> ReceiveKey([st EXCEPT !.escape = 0], "Delete")
      [] st.escape = 3 /\ c # "~" -> [st EXCEPT !.escape = 4]
      [] OTHER -> st

\* Variant: the characters behind a key are processed, too.
ReceiveChar_GoesOn(st, c) ==
    IF st.escape # 0 THEN ReceiveEscape(st, c)
    ELSE IF c = ESC THEN [st EXCEPT !.escape = 1]
    ELSE IF c = "Enter" THEN ReceiveKey([st EXCEPT !.line[st.length] = EndOfString], "Enter")
    ELSE IF c \in Keys THEN ReceiveKey(st, c)
    ELSE ReceiveLetter(st, c)

\* The two writes behind the line: the end of string that Enter puts there, and
\* the one behind the letters that are moved up.
WritesBehind(st, c) ==
    /\ ~st.returned /\ st.escape = 0
    /\ \/ c = "Enter" /\ st.length = MaxLength
       \/ c \in Letters /\ st.cursor < st.length /\ st.length = MaxLength - 1

ReceiveChar(st, c) ==
    IF st.returned THEN st
    ELSE IF st.escape # 0 THEN ReceiveEscape(st, c)
    ELSE IF c = ESC THEN [st EXCEPT !.escape = 1]
    ELSE IF c = "Enter" THEN ReceiveKey([st EXCEPT !.line[st.length] = EndOfString], "Enter")
    ELSE IF c \in Keys THEN ReceiveKey(st, c)
    ELSE ReceiveLetter(st, c)

\* The loop: its state after k characters.  What the buffer holds is dropped before it.
ProcessReceivedCharacter(batch) ==
    LET st[k \in 0 .. Len(batch)] ==
          IF k = 0
          THEN [line |-> line, length |-> actualLength, cursor |-> cursorPosition,
                flags |-> received, escape |-> escape, actualEscape |-> actualEscape,
                event |-> FALSE, returned |-> FALSE]
          ELSE ReceiveChar(st[k - 1], batch[k])
    IN st
-----------------------------------------------------------------------------
(* The keys, on the state st after the loop.                               *)

\* Variant: the last letter is not moved.
RemoveLetter_OneLess(st, position) ==
    [st EXCEPT !.length = @ - 1,
               !.line = [i \in Cells |-> IF i = st.length - 1 THEN EndOfString
                                         ELSE IF i \in position .. st.length - 3 THEN st.line[i + 1]
                                         ELSE st.line[i]]]

RemoveLetter(st, position) ==
    [st EXCEPT !.length = @ - 1,
               !.line = [i \in Cells |-> IF i = st.length - 1 THEN EndOfString
                                         ELSE IF i \in position .. st.length - 2 THEN st.line[i + 1]
                                         ELSE st.line[i]]]

CommandBackspace(st) ==
    IF st.cursor = 0 THEN st
    ELSE RemoveLetter([st EXCEPT !.cursor = @ - 1], st.cursor - 1)

\* At the first position the code does nothing.
CommandDelete(st) ==
    IF st.cursor \in 1 .. st.length - 1 THEN RemoveLetter(st, st.cursor) ELSE st

\* StrCpy into the line.
CopyToLine(st, string) ==
    [st EXCEPT !.line = [i \in Cells |-> IF i < Len(string) THEN string[i + 1]
                                         ELSE IF i = Len(string) THEN EndOfString
                                         ELSE st.line[i]],
               !.length = Len(string), !.cursor = Len(string)]

\* The string in the line, up to its terminator.
LineString(st) ==
    LET end == CHOOSE e \in Cells : st.line[e] = EndOfString
                                    /\ \A i \in 0 .. e - 1 : st.line[i] # EndOfString
    IN [k \in 1 .. end |-> st.line[k - 1]]

\* StrCmpWithLength over the typed letters; with none it reports a difference.
Matches(st, name) ==
    /\ st.length # 0 /\ st.length <= Len(name)
    /\ \A i \in 0 .. st.length - 1 : name[i + 1] = st.line[i]

CommandTabulator(st) ==
    LET matching == {k \in DOMAIN CommandNames : Matches(st, CommandNames[k])}
    IN IF matching = {} THEN st
       ELSE CopyToLine(st, CommandNames[CHOOSE k \in matching : \A j \in matching : k <= j])

StepUp(cnt) == IF cnt >= HistorySize - 1 THEN 0 ELSE cnt + 1
StepDown(cnt) == IF cnt <= 0 THEN HistorySize - 1 ELSE cnt - 1

\* A line that Enter ended is shorter than MaxLength, so StrCpyMax copies all of it.
HistorySave(string) ==
    IF \E e \in Entries : historyList[e] = string THEN UNCHANGED historyVars
    ELSE /\ saveCnt' = StepUp(saveCnt) /\ loadCnt' = StepUp(saveCnt)
         /\ historyList' = [historyList EXCEPT ![StepUp(saveCnt)] = string]

\* Key down steps before it loads, key up afterwards.
HistoryLoad(st, up) ==
    LET loaded == IF up THEN loadCnt ELSE StepUp(loadCnt)
    IN /\ loadCnt' = IF up THEN StepDown(loadCnt) ELSE loaded
       /\ UNCHANGED <<historyList, saveCnt>>
       /\ LET new == CopyToLine(st, historyList[loaded])
          IN line' = new.line /\ actualLength' = new.length /\ cursorPosition' = new.cursor

SetEdit(st) ==
    /\ line' = st.line /\ actualLength' = st.length /\ cursorPosition' = st.cursor

\* The sequence's last byte is forgotten once it is handled: nothing reads it later.
SetReceived(st, handled) ==
    /\ received' = st.flags \ {handled}
    /\ escape' = st.escape
    /\ actualEscape' = IF "EscapeSequence" \in received' THEN st.actualEscape ELSE EndOfString

\* Terminal_CommandEscapeCharValidation.
EscapeCharValidation(st) ==
    CASE st.actualEscape = "A" -> HistoryLoad(st, TRUE)
      [] st.actualEscape = "B" -> HistoryLoad(st, FALSE)
      [] st.actualEscape = "C" /\ st.cursor < st.length ->
            SetEdit([st EXCEPT !.cursor = @ + 1]) /\ UNCHANGED historyVars
      [] st.actualEscape = "D" /\ st.cursor > 0 ->
            SetEdit([st EXCEPT !.cursor = @ - 1]) /\ UNCHANGED historyVars
      [] OTHER -> SetEdit(st) /\ UNCHANGED historyVars

\* Enter: the command is saved and executed, and a new line begins.
CommandReadable(st) ==
    /\ IF st.length > 0 THEN HistorySave(LineString(st)) ELSE UNCHANGED historyVars
    /\ line' = st.line /\ actualLength' = 0 /\ cursorPosition' = 0

\* The order in which the flags are looked at.
Priority == <<"Backspace", "Delete", "NotLastChar", "EscapeSequence", "Tab", "Enter">>

HandledFlag(flags) ==
    Priority[CHOOSE k \in DOMAIN Priority :
                 Priority[k] \in flags /\ \A j \in 1 .. k - 1 : Priority[j] \notin flags]

HandleFlag(st, flag) ==
    /\ SetReceived(st, flag)
    /\ \/ flag = "Backspace" /\ SetEdit(CommandBackspace(st)) /\ UNCHANGED historyVars
       \/ flag = "Delete" /\ SetEdit(CommandDelete(st)) /\ UNCHANGED historyVars
       \/ flag = "NotLastChar" /\ SetEdit(st) /\ UNCHANGED historyVars
       \/ flag = "EscapeSequence" /\ EscapeCharValidation(st)
       \/ flag = "Tab" /\ SetEdit(CommandTabulator(st)) /\ UNCHANGED historyVars
       \/ flag = "Enter" /\ CommandReadable(st)

\* What follows the loop, on its last state.
HandleEvent(st) ==
    /\ IF st.event THEN HandleFlag(st, HandledFlag(st.flags))
       ELSE SetEdit(st) /\ SetReceived(st, "None") /\ UNCHANGED historyVars
    /\ mixed' = (mixed \/ ("NotLastChar" \in st.flags /\ st.flags # {"NotLastChar"}))

\* One turn of Terminal_CheckCommand that finds a batch of characters.
CheckCommand(batch) ==
    LET st == ProcessReceivedCharacter(batch)
        behind == \E k \in DOMAIN batch : WritesBehind(st[k - 1], batch[k])
    IN /\ overrun' = behind
       /\ IF behind THEN UNCHANGED <<editVars, historyVars, mixed>> ELSE HandleEvent(st[Len(batch)])

\* Bound: what arrives at once is a key or a letter, a letter and another key or
\* letter, or a key and a letter or Backspace.  A sequence may be cut, and then ends well or not.
EscapeKeys == {<<ESC, "[", d>> : d \in Arrows} \cup {<<ESC, "[", "3", "~">>}
KeyBatches == {<<k>> : k \in Keys} \cup EscapeKeys
LetterBatches == {<<c>> : c \in Letters}
CutBatches == {<<ESC>>, <<ESC, "[", "3">>}
Single == KeyBatches \cup LetterBatches \cup CutBatches
Batches ==
    Single \cup {l \o s : l \in LetterBatches, s \in Single}
           \cup {k \o s : k \in KeyBatches, s \in LetterBatches \cup {<<"Backspace">>}}
RestBatches == {<<"[">>, <<"[", "D">>, <<"~">>, <<"Enter">>} \cup LetterBatches

ReceiveBatch ==
    /\ ~overrun
    /\ \E batch \in IF escape = 0 THEN Batches ELSE RestBatches : CheckCommand(batch)
    /\ \A e \in Entries : historyList'[e] \in SavedCommands
    /\ Cardinality(received') <= 1    \* bound: the flags that wait

\* The model has ended.
Overrun == overrun /\ UNCHANGED terminalVars

TerminalNext == ReceiveBatch \/ Overrun

TerminalSpec == TerminalInit /\ [][TerminalNext]_terminalVars
-----------------------------------------------------------------------------
\* The type invariant: until the byte behind the line is written, the line, which
\* may be full and then has no end of string, and its cursor stay within the
\* array, and the counters index the history.
TerminalTypeOK ==
    /\ line \in [Cells -> Letters \cup {EndOfString}]
    /\ actualLength \in 0 .. MaxLength /\ cursorPosition \in 0 .. actualLength
    /\ received \subseteq ToSet(Priority)
    /\ escape \in 0 .. 4
    /\ DOMAIN historyList = Entries /\ \A e \in Entries : historyList[e] # <<>>
    /\ saveCnt \in Entries /\ loadCnt \in Entries
    /\ mixed \in BOOLEAN /\ overrun \in BOOLEAN

\* A key takes effect in the run that receives it: a flag is left for a later
\* run, where it takes the place of the key of that run, only after a letter
\* typed inside the line came together with a key.
KeysAreHandled == ~mixed => received = {}

ArrowName == [A |-> "Up", B |-> "Down", C |-> "Right", D |-> "Left"]

WaitingKeys ==
    (received \ {"NotLastChar", "EscapeSequence"})
      \cup IF "EscapeSequence" \in received /\ actualEscape \in Arrows
           THEN {ArrowName[actualEscape]} ELSE {}

\* Line, cursor, completion and history are those of a LineEditor, in spite of
\* the arrays that are shifted in place and the counters that wrap: whatever
\* keys come in whatever batches, each does to the line what it should do, as
\* long as nothing is written behind the line's array.
Editor == INSTANCE LineEditor WITH
    Commands <- CommandNames,
    text <- [k \in 1 .. actualLength |-> line[k - 1]],
    cursor <- cursorPosition,
    history <- [k \in 1 .. HistorySize |-> historyList[(saveCnt + k) % HistorySize]],
    recall <- IF loadCnt = saveCnt THEN HistorySize ELSE (loadCnt - saveCnt) % HistorySize,
    waiting <- WaitingKeys
ImplementsEditor == Editor!Spec
=============================================================================
