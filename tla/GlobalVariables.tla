--------------------------- MODULE GlobalVariables ---------------------------
(***************************************************************************)
(* The variables that the command lines set and get by name:               *)
(* Src/Common/Handler/GlobalVarHandler.c with the conversions of           *)
(* Src/Common/Helper/StringHelper.c, called by CommandHandler.c.  No line  *)
(* touches two variables, so a behaviour is about one.  A word is the form *)
(* of its text and the number or name it writes, a hexadecimal one the     *)
(* number of the nine digits that are read; long is a number with more     *)
(* digits than its conversion takes.  A value is the word in memory, the   *)
(* sign of a signed one its upper half.  Left out: floats, the get         *)
(* function of tick, and set functions, which no list has.                 *)
(***************************************************************************)
EXTENDS CommandHandler

CONSTANTS
    Width,          \* bits of uint32_t
    VarList,        \* GlobVarH_VarList: the records of the variables
    MaxNumber,      \* the largest number that is typed
    Words,          \* the words that are typed, [name, length]
    VarName,        \* the variable's name, one of them
    Lines           \* the lines that are typed

\* power(2, k).
PowerOfTwo[k \in 0 .. Width] == IF k = 0 THEN 1 ELSE 2 * PowerOfTwo[k - 1]

\* What a variable of the record's type may hold; a string is a word with its length.
HasType(v, value) ==
    /\ v.type # "String" => value \in 0 .. PowerOfTwo[v.bits] - 1
    /\ v.type = "Unsigned" /\ v.minValue # v.maxValue => value \in v.minValue .. v.maxValue
    /\ v.type = "Enumerator" => value < v.maxValue
    /\ v.type = "String" /\ ~v.isReadOnly => value.length < v.maxValue

\* GlobVarH_CheckGlobalVarArray, and what C asks of a record's initial value.
CheckGlobalVar(v) ==
    /\ v.type \in {"Bool", "Unsigned", "Signed", "Bits", "String", "Enumerator"}
    /\ v.bits \in 1 .. Width /\ v.minValue \in Nat /\ v.maxValue \in Nat
    /\ v.isHex \/ v.type = "Bits" => v.bits = Width
    /\ v.type = "Bits" => v.minValue <= v.maxValue /\ v.maxValue < Width
    /\ v.type = "Enumerator" => v.maxValue <= PowerOfTwo[v.bits]
    /\ HasType(v, v.initValue)

Params ==
    [form : {"decimal", "negative", "hex"}, number : 0 .. MaxNumber, long : BOOLEAN]
    \cup (UNION {[form : {"binary"}, length : {k}, number : 0 .. PowerOfTwo[k] - 1] :
                    k \in 1 .. Width})
    \cup [form : {"word"}, word : Words]

SetName == [form |-> "word", word |-> [name |-> "set", length |-> 3]]
GetName == [form |-> "word", word |-> [name |-> "get", length |-> 3]]

ASSUME GlobalVariablesAssumption ==
    /\ Width \in Nat \ {0} /\ MaxNumber \in Nat
    /\ \A v \in VarList : CheckGlobalVar(v)
    /\ \A w \in Words : w.length \in Nat
    /\ Lines \subseteq Seq(Params \cup {Space, NewLine})
    /\ \A text \in Lines : \A i \in 2 .. Len(text) : {text[i - 1], text[i]} \cap {Space, NewLine} # {}
    /\ \A command \in CmdH_CommandList :
          command.name = SetName => command.commandArgNum = {3}

VARIABLES
    varRecord,      \* its type, bits, isHex, isReadOnly, minValue, maxValue, enumList, initValue
    varValue,       \* what its varPointer points to
    typed,          \* the last line
    answer          \* its result and what get would show

globalVars == <<varRecord, varValue, typed, answer, cmdVars>>

Word(n) == n % PowerOfTwo[Width]
AsSigned(word, bits) == IF word < PowerOfTwo[bits - 1] THEN word ELSE word - PowerOfTwo[bits]
Bit(word, i) == (word \div PowerOfTwo[i]) % 2 = 1
BitsOf(word) == {i \in 0 .. Width - 1 : Bit(word, i)}
WordOf(bits) ==
    LET sum[k \in 0 .. Width] ==
            IF k = 0 THEN 0
            ELSE sum[k - 1] + IF k - 1 \in bits THEN PowerOfTwo[k - 1] ELSE 0
    IN sum[Width]
-----------------------------------------------------------------------------
\* GlobVarH_GetVariable: what is printed of a value.  The mask of a bit group
\* is one bit shorter than what SetBits takes.
GetBits(v, word) == (word \div PowerOfTwo[v.minValue]) % PowerOfTwo[v.maxValue - v.minValue]

Shown(v, word) ==
    CASE v.type = "Signed" -> AsSigned(word, v.bits)
      [] v.type = "Bits" -> GetBits(v, word)
      [] OTHER -> word

TypeTooMuch(v, num) ==
    CASE v.type = "Unsigned" -> num > PowerOfTwo[v.bits] - 1
      [] v.type = "Signed" -> AsSigned(num, Width) > PowerOfTwo[v.bits - 1] - 1
      [] v.type = "Bits" -> num > Word(PowerOfTwo[v.maxValue + 1] - 1)
      [] v.type = "Enumerator" -> num >= v.maxValue
      [] OTHER -> FALSE

\* GlobVarH_CheckValue: the type first, then the limits, if they differ.
CheckValue(v, num) ==
    LET limited == v.maxValue # v.minValue /\ v.type # "Bits" IN
    IF TypeTooMuch(v, num) THEN "TooMuch"
    ELSE IF v.type = "Signed" /\ AsSigned(num, Width) < -PowerOfTwo[v.bits - 1] THEN "TooSmall"
    ELSE IF limited /\ num > v.maxValue THEN "TooMuch"
    ELSE IF limited /\ num < v.minValue THEN "TooSmall"
    ELSE "Ok"

Refused(result) == [result |-> result, value |-> varValue]
Accepted(word) == [result |-> "Ok", value |-> word]
StoreChecked(v, num, word) ==
    IF CheckValue(v, num) = "Ok" THEN Accepted(word) ELSE Refused(CheckValue(v, num))
-----------------------------------------------------------------------------
\* One operator per type.  A decimal beyond 32 bits wraps in the conversion, one
\* of more than eleven digits is no number, and a text without digits is the
\* number 0.  Of the words that mean a bool one each is typed.
IsDecimal(p) == p = EmptyText \/ (p.form = "decimal" /\ ~p.long)
Decimal(p) == IF p = EmptyText THEN 0 ELSE p.number

SetBool(p) ==
    IF IsDecimal(p) /\ Word(Decimal(p)) \in {0, 1} THEN Accepted(Word(Decimal(p)))
    ELSE IF p.form = "word" /\ p.word.name = "true" THEN Accepted(1)
    ELSE IF p.form = "word" /\ p.word.name = "false" THEN Accepted(0)
    ELSE Refused("NotBool")

\* The conversion stops after nine digits and succeeds, whatever follows them.  No
\* list has a signed variable in hexadecimal form.
SetHex(v, p) ==
    IF p.form # "hex" THEN Refused("NotHexStart")
    ELSE StoreChecked(v, Word(p.number), p.number % PowerOfTwo[v.bits])

SetUnsigned(v, p) ==
    IF ~IsDecimal(p) THEN Refused("NotNumber")
    ELSE StoreChecked(v, Word(Decimal(p)), Decimal(p) % PowerOfTwo[v.bits])

SetSigned(v, p) ==
    IF ~IsDecimal(p) /\ ~(p.form = "negative" /\ ~p.long) THEN Refused("NotNumber")
    ELSE LET num == IF IsDecimal(p) THEN Decimal(p) ELSE -p.number
         IN StoreChecked(v, Word(num), num % PowerOfTwo[v.bits])

\* Variant: the bits that were set before are not cleared.
SetBits_NoClear(v, p) ==
    LET num == p.number * PowerOfTwo[v.minValue]
    IN IF p.form # "binary" THEN Refused("NotBinary")
       ELSE IF p.length > v.maxValue - v.minValue + 1 THEN Refused("TooLongBinary")
       ELSE StoreChecked(v, num, WordOf(BitsOf(num) \cup BitsOf(varValue)))

\* The group ends with bit maxValue, but the loop that clears stops before it.
SetBits(v, p) ==
    LET num == p.number * PowerOfTwo[v.minValue]
        kept == BitsOf(varValue) \ (v.minValue .. v.maxValue - 1)
    IN IF p.form # "binary" THEN Refused("NotBinary")
       ELSE IF p.length > v.maxValue - v.minValue + 1 THEN Refused("TooLongBinary")
       ELSE StoreChecked(v, num, WordOf(BitsOf(num) \cup kept))

\* Every text is a word here.  StrCpyMax writes nothing for an empty one.
TextLength(p) == IF p = EmptyText THEN 0 ELSE p.word.length

SetString(v, p) ==
    IF TextLength(p) >= v.maxValue - 1 THEN Refused("TooLongString")
    ELSE Accepted(IF p = EmptyText THEN varValue ELSE p.word)

SetEnumerator(v, p) ==
    IF p.form = "decimal"
    THEN IF p.long THEN Refused("Unknown")
         ELSE IF CheckValue(v, Word(p.number)) = "Ok" THEN Accepted(Word(p.number))
         ELSE Refused("TooMuch")
    ELSE IF p.form = "word" /\ \E i \in 1 .. v.maxValue : v.enumList[i] = p.word.name
    THEN Accepted((CHOOSE i \in 1 .. v.maxValue : v.enumList[i] = p.word.name) - 1)
    ELSE Refused("NotEnumString")

SetVariable(v, p) ==
    CASE v.type = "Bool" -> SetBool(p)
      [] v.type = "Unsigned" /\ v.isHex -> SetHex(v, p)
      [] v.type = "Unsigned" /\ ~v.isHex -> SetUnsigned(v, p)
      [] v.type = "Signed" -> SetSigned(v, p)
      [] v.type = "Bits" -> SetBits(v, p)
      [] v.type = "String" -> SetString(v, p)
      [] v.type = "Enumerator" -> SetEnumerator(v, p)
-----------------------------------------------------------------------------
GlobalVariablesInit ==
    /\ CmdInit
    /\ varRecord \in VarList /\ varValue = varRecord.initValue
    /\ typed = <<>> /\ answer = [result |-> "None", shown |-> varValue]

Answer(result) ==
    answer' = [result |-> result, shown |-> Shown(varRecord, varValue)] /\ UNCHANGED varValue

\* GlobVarH_ProcessVariableCommand of the command set, which answers with the
\* value whatever the result was.
SetCommand(args) ==
    LET set == SetVariable(varRecord, args[2]) IN
    IF args[1] # VarName THEN Answer("NameNotFind")
    ELSE IF varRecord.isReadOnly THEN Answer("IsReadOnly")
    ELSE /\ varValue' = set.value
         /\ answer' = [result |-> set.result, shown |-> Shown(varRecord, set.value)]

GetCommand(args) ==
    IF args[1] # VarName THEN Answer("NameNotFind") ELSE Answer("Answered")

CommandFunction(args) ==
    \/ args[0] = GetName /\ GetCommand(args)
    \/ args[0] = SetName /\ SetCommand(args)

\* A line about a string has no numbers.
ReceiveLine(text) ==
    /\ varRecord.type = "String" =>
          \A i \in DOMAIN text : text[i].form \in {"word", "space", "newline"}
    /\ typed' = text /\ UNCHANGED varRecord
    /\ ExecuteCommand(text, CommandFunction, Answer)

GlobalVariablesNext == \E text \in Lines : ReceiveLine(text)
-----------------------------------------------------------------------------
\* What the text of a parameter says, for a number that its type can hold.
Denotes(v, p) ==
    CASE p = EmptyText -> 0
      [] p.form = "negative" -> -p.number
      [] p.form = "word" /\ v.type = "Bool" -> IF p.word.name = "true" THEN 1 ELSE 0
      [] p.form = "word" /\ v.type = "Enumerator" ->
            (CHOOSE i \in 1 .. v.maxValue : v.enumList[i] = p.word.name) - 1
      [] p.form = "word" /\ v.type = "String" -> p.word
      [] OTHER -> p.number

HoldsNumber(v, p) ==
    p.form \notin {"word", "empty"} =>
        /\ ~p.long
        /\ Denotes(v, p) \in
              IF v.type = "Signed" THEN -PowerOfTwo[Width - 1] .. PowerOfTwo[Width - 1] - 1
              ELSE 0 .. PowerOfTwo[Width] - 1

\* The type invariant: a value has the bits of its type, one with limits is
\* within them, and a string ends inside its array.
GlobalVariablesTypeOK ==
    /\ varRecord \in VarList /\ typed \in {<<>>} \cup Lines
    /\ argCount \in 0 .. CMDH_COMMAND_ARG_MAX_COUNT
    /\ HasType(varRecord, varValue)

\* A line that is answered with success says set and the variable's name, and
\* stored what its third word says, whatever was there before, and get shows it;
\* any other line leaves the value as it was.  The exceptions: a second space
\* before the value makes the third word an empty one, which says 0
\* (StringHelper.c:1079) and leaves a string as it was (:1642); a number beyond 32
\* bits is taken modulo 2^32, and of a hexadecimal one nine digits are read
\* (:1032, HoldsNumber); and of a bit group get leaves out the highest bit, which a
\* set can set and never clear again (GlobalVarHandler.c:988 and :568).  Neighbours
\* of the group keep their bits.
ShowsWhatIsSet ==
    LET p == WordOfLine(typed', 3) IN
    IF answer'.result # "Ok" \/ (varRecord.type = "String" /\ p = EmptyText)
    THEN UNCHANGED varValue
    ELSE /\ WordOfLine(typed', 1).word.name = "set" /\ WordOfLine(typed', 2) = VarName
         /\ IF varRecord.type = "Bits"
            THEN /\ p.form = "binary"
                 /\ answer'.shown = p.number % PowerOfTwo[varRecord.maxValue - varRecord.minValue]
                 /\ \A i \in (0 .. Width - 1) \ (varRecord.minValue .. varRecord.maxValue) :
                       Bit(varValue', i) = Bit(varValue, i)
            ELSE HoldsNumber(varRecord, p) => answer'.shown = Denotes(varRecord, p)

SetIsShown == [][ShowsWhatIsSet]_globalVars
=============================================================================
