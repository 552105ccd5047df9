--------------------------- MODULE CommandHandler ----------------------------
(***************************************************************************)
(* Src/Common/Handler/CommandHandler.c: a line is cut at its end, split at *)
(* its spaces (STRING_Splitter) and its first word looked up among the     *)
(* commands.  A line is a sequence of words and spaces, no two words side  *)
(* by side; a word is a text of its own or the text of a number.  The      *)
(* callers pass no line that is empty up to its end.                       *)
(***************************************************************************)
EXTENDS Integers, Sequences, SequencesExt

CONSTANTS
    CMDH_COMMAND_ARG_MAX_COUNT,
    CmdH_CommandList    \* [name, commandArgNum: the numbers of words it takes]

ASSUME CommandHandlerAssumption == CMDH_COMMAND_ARG_MAX_COUNT \in Nat \ {0, 1}

VARIABLES
    arguments,          \* CmdH_CommandArguments, NoText where NULL
    argCount            \* CmdH_CommandArgCount

cmdVars == <<arguments, argCount>>

Space == [form |-> "space"]
NewLine == [form |-> "newline"]
EmptyText == [form |-> "empty"]
NoText == [form |-> "none"]

CmdInit ==
    arguments = [k \in 0 .. CMDH_COMMAND_ARG_MAX_COUNT - 1 |-> NoText] /\ argCount = 0
-----------------------------------------------------------------------------
BeforeNewLine(text) ==
    LET ends == {i \in DOMAIN text : text[i] = NewLine}
    IN IF ends = {} THEN text ELSE SubSeq(text, 1, Min(ends) - 1)

\* StrTrim: the spaces at the end, but never the first character.
StrTrim(text) ==
    SubSeq(text, 1, Max({1} \cup {i \in DOMAIN text : text[i] # Space}))

\* STRING_Splitter.  st.n is the word that is filled, st.open once it has begun.
Begin(st, word) == [n |-> st.n, open |-> TRUE, args |-> [st.args EXCEPT ![st.n] = word]]
Finish(st) ==
    [n |-> st.n + 1, open |-> FALSE,
     args |-> IF st.n + 1 < CMDH_COMMAND_ARG_MAX_COUNT
              THEN [st.args EXCEPT ![st.n + 1] = NoText] ELSE st.args]
FinishWord(st) == Finish(IF st.open THEN st ELSE Begin(st, EmptyText))

SplitStep(text, st, i) ==
    LET ended == IF text[i] = Space THEN FinishWord(st) ELSE Begin(st, text[i])
    IN IF st.n >= CMDH_COMMAND_ARG_MAX_COUNT THEN st
       ELSE IF i = Len(text) THEN FinishWord(ended) ELSE ended

CommandParser(text) ==
    LET st[i \in 0 .. Len(text)] ==
            IF i = 0 THEN [n |-> 0, open |-> FALSE, args |-> [arguments EXCEPT ![0] = NoText]]
            ELSE SplitStep(text, st[i - 1], i)
    IN st[Len(text)]

\* CmdH_CheckArgumentNumIsGood.
CheckArgumentNum(commandArgNum, count) ==
    IF count \in commandArgNum THEN "Ok"
    ELSE IF count < Min(commandArgNum) THEN "TooFewArgument"
    ELSE IF count > Max(commandArgNum) THEN "TooManyArgument"
    ELSE "WrongArgumentNum"

\* CmdH_SearchCommand and CmdH_RunCommand, up to the call of the function.
SearchCommand(split) ==
    LET found == {command \in CmdH_CommandList : command.name = split.args[0]}
    IN IF found = {} THEN "CommandNotFound"
       ELSE CheckArgumentNum((CHOOSE command \in found : TRUE).commandArgNum, split.n)

\* CmdH_ExecuteCommand; Run is what the command's function does.
ExecuteCommand(text, Run(_), Fail(_)) ==
    LET split == CommandParser(StrTrim(BeforeNewLine(text)))
    IN /\ BeforeNewLine(text) # <<>>
       /\ arguments' = split.args /\ argCount' = split.n
       /\ IF SearchCommand(split) = "Ok" THEN Run(split.args)
          ELSE Fail(SearchCommand(split))

\* What a reader takes for the k-th word: what stands between two spaces.
WordIn(line0, k) ==
    LET inside == {i \in DOMAIN line0 :
                      /\ line0[i] # Space
                      /\ Cardinality({j \in 1 .. i : line0[j] = Space}) = k - 1}
    IN IF inside = {} THEN EmptyText ELSE line0[CHOOSE i \in inside : TRUE]

WordOfLine(text, k) == WordIn(BeforeNewLine(text), k)
=============================================================================
