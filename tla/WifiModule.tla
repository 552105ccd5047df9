----------------------------- MODULE WifiModule ------------------------------
(***************************************************************************)
(* The ESP8266 module at the other end of the UART, as far as the client   *)
(* in Src/Modules/ESP8266.c relies on it, and the TCP server behind it.    *)
(*                                                                         *)
(* line is the client's transmit buffer, in units of what leaves it in the *)
(* shortest period of the task (96 characters at 9600 baud, board.h:938):  *)
(* a command or the login is one unit, a message one or more.  rx is the   *)
(* client's receive buffer, a text for each answer; it loses a text that   *)
(* finds it full.  The module works on one command at a time, and in data  *)
(* mode passes on whatever it gets to the server.                          *)
(***************************************************************************)
EXTENDS Integers, Sequences

CONSTANTS RxTexts,     \* room for texts in the receive buffer
          TxRoom,      \* units in the transmit buffer
          MaxFaults,   \* bound: late answers, refusals and broken links
          MaxTexts     \* bound: texts the server sends

ASSUME WifiModuleAssumption ==
    {RxTexts, TxRoom} \subseteq Nat \ {0} /\ MaxFaults \in Nat /\ MaxTexts \in Nat

VARIABLES line, rx,
          pending,     \* the command the module works on
          typed,       \* it has the beginning of a line
          data,        \* it is in data mode
          joined, linked,   \* it has joined the network, opened the connection
          toServer,    \* what reached the server, Opened for each connection
          faults, texts

wifiModule == <<pending, typed, data, joined, linked, toServer, texts>>

Command(text) == [text |-> text, n |-> 0, units |-> 1]
Message(n, units) == [text |-> "message", n |-> n, units |-> units]
UnitsOf(text) ==
    [i \in 1 .. text.units |-> [text |-> text.text, n |-> text.n, last |-> i = text.units]]
Opened == [text |-> "opened", n |-> 0, last |-> TRUE]
IsMessage(unit) == unit.text = "message"

WifiModuleInit ==
    /\ line = <<>> /\ rx = <<>> /\ pending = "none"
    /\ typed = FALSE /\ data = FALSE /\ joined = FALSE /\ linked = FALSE
    /\ toServer = <<>> /\ faults = 0 /\ texts = 0

\* The RST pin.
Reset ==
    /\ pending' = "boot" /\ typed' = FALSE /\ data' = FALSE /\ joined' = FALSE /\ linked' = FALSE
    /\ UNCHANGED <<toServer, texts>>

Say(text) == rx' = IF Len(rx) < RxTexts THEN Append(rx, text) ELSE rx

Fault == faults < MaxFaults /\ faults' = faults + 1

\* Commands are data like the rest in data mode; kept are the login and the
\* messages, at their last unit.
ServerGets(unit) ==
    toServer' = IF unit.text = "login" \/ (IsMessage(unit) /\ unit.last)
                THEN Append(toServer, unit) ELSE toServer

\* In command mode a text without CR LF, as the login is and a message may be,
\* begins the line that the next text goes on with; a line that is no command
\* is answered at once.
BeginLine(unit) ==
    /\ IsMessage(unit) \/ unit.text = "login"
    /\ typed' = TRUE /\ UNCHANGED <<rx, pending>>

EndLine(unit) ==
    /\ unit.text # "login" /\ typed' = FALSE
    /\ IF pending # "none" THEN Say("busy p...") /\ UNCHANGED pending
       ELSE IF typed \/ IsMessage(unit) THEN Say("wrong syntax") /\ UNCHANGED pending
       ELSE pending' = unit.text /\ UNCHANGED rx

\* The first unit on the line arrives.
Receive ==
    /\ line # <<>> /\ line' = Tail(line)
    /\ IF data THEN ServerGets(Head(line)) /\ UNCHANGED <<rx, pending, typed>>
       ELSE (BeginLine(Head(line)) \/ EndLine(Head(line))) /\ UNCHANGED toServer
    /\ UNCHANGED <<data, joined, linked, faults, texts>>

\* The text that answers the pending command.
Answer ==
    CASE pending = "boot" -> "ready"
      [] pending \in {"ATE0", "AT", "CWMODE", "CIPMUX", "CWJAP", "CIPMODE", "CIPCLOSE"} -> "OK"
      [] pending = "CIFSR" -> IF joined THEN "192.168.0.106" ELSE "0.0.0.0"
      [] pending = "CIPSTART" -> IF ~joined THEN "no ip" ELSE IF linked THEN "ALREADY CONNECT" ELSE "OK"
      [] pending = "linking" -> "Linked"
      [] pending = "CIPSEND" -> IF linked THEN ">" ELSE "ERROR"

AnswerPending ==
    /\ pending # "none" /\ Say(Answer)
    /\ pending' = IF pending = "CIPSTART" /\ Answer = "OK" THEN "linking" ELSE "none"
    /\ joined' = (joined \/ pending = "CWJAP")
    /\ linked' = ((linked /\ pending \notin {"CIPCLOSE", "CWJAP"}) \/ pending = "linking")
    /\ toServer' = IF pending = "linking" THEN Append(toServer, Opened) ELSE toServer
    /\ data' = (Answer = ">")
    /\ UNCHANGED <<line, typed, faults, texts>>

\* The module cannot do what it was asked to.
RefusePending ==
    /\ pending \notin {"none", "boot"} /\ Fault
    /\ Say(IF pending = "linking" THEN "Unlink" ELSE "FAIL")
    /\ pending' = "none"
    /\ UNCHANGED <<line, typed, data, joined, linked, toServer, texts>>

\* The server sends a line, or a part of one.
ServerSends ==
    /\ data /\ texts < MaxTexts /\ texts' = texts + 1
    /\ Say("line") \/ Say("part")
    /\ UNCHANGED <<line, pending, typed, data, joined, linked, toServer, faults>>

\* The TCP link breaks.
ServerCloses ==
    /\ linked /\ Fault
    /\ linked' = FALSE /\ data' = FALSE /\ Say("Unlink")
    /\ UNCHANGED <<line, pending, typed, joined, toServer, texts>>
=============================================================================
