------------------------------ MODULE MainLoop -------------------------------
(***************************************************************************)
(* The components only the main loop runs, one function at a time, and     *)
(* that share no state: the circular buffer as its callers use it, the     *)
(* terminal, the linked list, the calendar, the menu with its              *)
(* applications, and the command lines that set and get.  In a behaviour   *)
(* one of them runs and the others rest, so that every state of each is    *)
(* reached and not every combination.                                      *)
(***************************************************************************)
EXTENDS CircularBufferApi, Terminal, LinkedList, Calendar, UserInterface,
        GlobalVariables

Components ==
    {"CircularBuffer", "Terminal", "LinkedList", "Calendar", "UserInterface", "GlobalVariables"}

VARIABLE running    \* the component that runs in this behaviour

mainLoopVars ==
    <<running, vars, terminalVars, linkedListVars, calendarVars, uiVars, globalVars>>

MainLoopInit ==
    /\ running \in Components
    /\ Init /\ TerminalInit /\ LinkedListInit /\ CalendarInit /\ UiInit /\ GlobalVariablesInit
    /\ running = "UserInterface" \/ opened = CHOOSE apps0 \in OpenedSets : TRUE
    /\ running = "GlobalVariables" \/ varRecord = CHOOSE v0 \in VarList : TRUE

RunCircularBuffer ==
    /\ running = "CircularBuffer" /\ Next
    /\ UNCHANGED <<running, terminalVars, linkedListVars, calendarVars, uiVars, globalVars>>

RunTerminal ==
    /\ running = "Terminal" /\ TerminalNext
    /\ UNCHANGED <<running, vars, linkedListVars, calendarVars, uiVars, globalVars>>

RunLinkedList ==
    /\ running = "LinkedList" /\ LinkedListNext
    /\ UNCHANGED <<running, vars, terminalVars, calendarVars, uiVars, globalVars>>

RunCalendar ==
    /\ running = "Calendar" /\ CalendarNext
    /\ UNCHANGED <<running, vars, terminalVars, linkedListVars, uiVars, globalVars>>

RunUserInterface ==
    /\ running = "UserInterface" /\ UiNext
    /\ UNCHANGED <<running, vars, terminalVars, linkedListVars, calendarVars, globalVars>>

RunGlobalVariables ==
    /\ running = "GlobalVariables" /\ GlobalVariablesNext
    /\ UNCHANGED <<running, vars, terminalVars, linkedListVars, calendarVars, uiVars>>

MainLoopNext ==
    \/ RunCircularBuffer
    \/ RunTerminal
    \/ RunLinkedList
    \/ RunCalendar
    \/ RunUserInterface
    \/ RunGlobalVariables

MainLoopSpec == MainLoopInit /\ [][MainLoopNext]_mainLoopVars
-----------------------------------------------------------------------------
\* The counters, indices and flags of all of them stay in their ranges, in
\* particular the buffer's counters below Size, the cursor within the line and
\* the list's pointers within the store.
MainLoopTypeOK ==
    /\ TypeOK /\ TerminalTypeOK /\ LinkedListTypeOK /\ CalendarTypeOK /\ UiTypeOK
    /\ GlobalVariablesTypeOK
=============================================================================
