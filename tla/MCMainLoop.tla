----------------------------- MODULE MCMainLoop ------------------------------
EXTENDS MainLoop

CONSTANTS a, b

MCHistoryInitList == 0 :> <<a>> @@ 1 :> <<b, b>>
MCCommandNames == << <<a, b>>, <<a>> >>
MCSavedCommands == {<<a>>, <<b, b>>}

MCDaysOfMonth == <<3, 2, 3>>

MCOpenedSets ==
    {{"Snake"}, {"Input", "Clock"}, {"CarAnimation", "TrafficLight"}, {"Elevator", "Clock"}}
VarRecord(type, bits, min, max) ==
    [type |-> type, bits |-> bits, minValue |-> min, maxValue |-> max, isHex |-> FALSE,
     isReadOnly |-> FALSE, enumList |-> <<>>, initValue |-> 0]

MCWords ==
    [name : {"true", "false", "first", "second", "var"}, length : {1}]
    \cup [name : {"get", "set"}, length : {3}]
    \cup [name : {"text"}, length : {2, 3}]

TextWord(name, length) == [form |-> "word", word |-> [name |-> name, length |-> length]]
GetWord == TextWord("get", 3)
SetWord == TextWord("set", 3)
MCVarName == TextWord("var", 1)

MCCommandList == {[name |-> GetWord, commandArgNum |-> {2}], [name |-> SetWord, commandArgNum |-> {3}]}

\* Lines as they should be, and lines with spaces, words or ends too many or too few.
MCLines ==
    LET Set == <<SetWord, Space, MCVarName, Space>>
        OddLines(p) ==
            {Set, SubSeq(Set, 1, 3), Set \o <<Space, p>>, Set \o <<p, Space>>,
             Set \o <<p, Space, Space, SetWord>>, Set \o <<p, NewLine, Space, p>>,
             <<Space>> \o Set \o <<p>>, <<SetWord, Space>> \o <<Space, MCVarName, Space, p>>,
             <<SetWord, Space, SetWord, Space, p>>, <<MCVarName, Space, MCVarName, Space, p>>,
             <<GetWord>>, <<GetWord, Space, MCVarName, Space, p>>}
        Typed == {p \in Params : /\ p.form = "binary" => p.length <= 3
                                 /\ p.form = "negative" => p.number <= 9
                                 /\ p.form = "hex" => p.number \notin 3 .. 14
                                 /\ p.form \in {"decimal", "negative", "hex"} /\ p.long =>
                                       p.number \in {0, 1, 17}}
    IN {Set \o <<p>> : p \in Typed}
       \cup {<<GetWord, Space, MCVarName>>, <<GetWord, Space, SetWord>>, <<Space>>, <<Space, Space>>}
       \cup UNION {OddLines(p) : p \in {TextWord("true", 1), [form |-> "decimal", number |-> 3, long |-> FALSE],
                                        [form |-> "binary", length |-> 2, number |-> 3]}}

MCVarList ==
    {VarRecord("Bool", 1, 0, 0), VarRecord("Unsigned", 2, 0, 0), VarRecord("Signed", 3, 0, 0),
     VarRecord("Signed", 4, 0, 0), VarRecord("Bits", 4, 1, 2),
     [VarRecord("Unsigned", 4, 0, 0) EXCEPT !.isHex = TRUE],
     [VarRecord("Unsigned", 4, 2, 5) EXCEPT !.initValue = 2],
     [VarRecord("Unsigned", 4, 0, 0) EXCEPT !.isReadOnly = TRUE],
     [VarRecord("Enumerator", 3, 0, 2) EXCEPT !.enumList = <<"first", "second">>],
     [VarRecord("String", 1, 0, 4) EXCEPT !.initValue = [name |-> "text", length |-> 2]]}
=============================================================================
