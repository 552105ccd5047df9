------------------------------- MODULE Esp8266 -------------------------------
(***************************************************************************)
(* The Wi-Fi client, Src/Modules/ESP8266.c, as the options configure it: a *)
(* TCP client in transparent mode with a login message.                    *)
(*                                                                         *)
(* ESP8266_StatusMachine runs as a periodic task.  It copies the receive   *)
(* buffer first (Run) and handles the copy afterwards (Process); texts     *)
(* that arrive in between are in the buffer but not in the copy, which is  *)
(* the first received texts of rx.                                         *)
(***************************************************************************)
EXTENDS WifiModule

CONSTANTS
    WifiLimit, WifiSilence,   \* 20 and 15: polls until joining is restarted
    IpRetry, IpLimit,         \* 3 and 10: polls for the address
    TcpLimit, LinkLimit,      \* 5 and 20: polls until connecting is restarted
    RecvLimit,                \* 10: polls a part of a line may stay
    MaxUnits,       \* units of the longest message
    MaxRequests,    \* bound: messages accepted for sending
    MaxReconnects   \* bound: reconnect commands

ASSUME LimitsAssumption ==
    /\ {WifiLimit, WifiSilence, IpRetry, IpLimit, TcpLimit, LinkLimit, RecvLimit} \subseteq 1 .. 254
    /\ MaxUnits \in 1 .. TxRoom /\ MaxRequests \in Nat /\ MaxReconnects \in Nat

VARIABLES
    state,             \* ESP8266StatusMachine
    pc, received,      \* "process" after the copy of received texts was made
    ErrorCnt, recvCounter,
    period,            \* the period of Task_Esp8266, ms
    ConnectionStatus,
    EnableFlag,        \* the transmit buffer is free
    TransmitBuffer,
    SendIsStarted, WaitSendOk, LoginIsSent,
    requested, reconnects   \* messages accepted, reconnect commands

sending == <<EnableFlag, TransmitBuffer, requested>>
flags == <<SendIsStarted, WaitSendOk, LoginIsSent>>
counters == <<ErrorCnt, recvCounter>>
client == <<state, pc, received, counters, period, ConnectionStatus, sending, flags, reconnects>>
vars == <<line, rx, wifiModule, faults, client>>

\* ESP8266_StatusMachine_t: the order matters, states are stepped with ++.
Status == <<"Init", "AfterInit", "ConfigAte0", "ConfigAte0CheckResponse", "ConfigAt",
    "ConfigAtCheckResponse", "ConfigCwMode", "ConfigCwModeCheckResponse", "ConfigCipMux",
    "ConfigCipMuxCheckResponse", "WaitAfterSuccessfulConfig", "ConnectWifiNetwork",
    "ConnectWifiNetworkCheckResponse", "ConnectWifiNetworkCheckFinish", "PrintMyIpAddress",
    "IpAddressResponse", "ConnectTcpServer", "ConnectTcpServerCheckResponse",
    "ConnectTcpServerCheckFinish", "ConfigTransparentMode", "Config_TransparentModeCheckResponse",
    "BeforeIdle", "Idle", "Reconfig">>

ToState(s) == state' = s
Step(n) == \E i \in DOMAIN Status : Status[i] = state /\ ToState(Status[i + n])

Init ==
    /\ WifiModuleInit
    /\ state = "Init" /\ pc = "wait" /\ received = 0
    /\ ErrorCnt = 0 /\ recvCounter = 0
    /\ period = 1000 /\ ConnectionStatus = "Unknown"
    /\ EnableFlag = TRUE /\ TransmitBuffer = Command("none")
    /\ SendIsStarted = FALSE /\ WaitSendOk = FALSE /\ LoginIsSent = FALSE
    /\ requested = 0 /\ reconnects = 0
-----------------------------------------------------------------------------
\* The receive buffer, the copy's view of it, and sending.
ClearReceive == rx' = <<>>
DropCharacters(n) == rx' = SubSeq(rx, n + 1, Len(rx))
First(answers) == received > 0 /\ Head(rx) \in answers

\* CircularBuffer_PutString: what does not fit is not put.
Fits(text) == Len(line) + text.units <= TxRoom
Put(text) ==
    line' = IF Fits(text) THEN line \o UnitsOf(text)
            ELSE line \o SubSeq(UnitsOf(text), 1, TxRoom - Len(line))
SendString(text) == Put(Command(text))

\* ESP8266_RequestSendTcpMessage: the message is taken if the buffer is free.
Request(message) ==
    /\ EnableFlag' = FALSE
    /\ TransmitBuffer' = IF EnableFlag THEN message ELSE TransmitBuffer

\* A numbered message is counted if it is accepted.
RequestMessage ==
    /\ requested < MaxRequests
    /\ \E units \in 1 .. MaxUnits : Request(Message(requested + 1, units))
    /\ requested' = IF EnableFlag THEN requested + 1 ELSE requested

\* What most states of the setup leave alone.
Plain == UNCHANGED <<wifiModule, sending, flags, recvCounter, ConnectionStatus>>
-----------------------------------------------------------------------------
\* The states of the setup.
ResetHardware ==
    /\ state = "Init" /\ Reset
    /\ Step(1) /\ period' = 5000 /\ ConnectionStatus' = "Unknown"
    /\ UNCHANGED <<line, rx, sending, flags, counters>>

AfterInit ==
    /\ state = "AfterInit" /\ ClearReceive /\ Step(1) /\ period' = 1000
    /\ Plain /\ UNCHANGED <<line, ErrorCnt>>

CommandOf ==
    [ConfigAte0 |-> "ATE0", ConfigAt |-> "AT", ConfigCwMode |-> "CWMODE", ConfigCipMux |-> "CIPMUX",
     ConnectWifiNetwork |-> "CWJAP", PrintMyIpAddress |-> "CIFSR", ConnectTcpServer |-> "CIPSTART",
     ConfigTransparentMode |-> "CIPMODE"]

\* Variant: connecting to the server leaves the period as it is.
SendCommand_PeriodKept ==
    /\ state \in DOMAIN CommandOf
    /\ ClearReceive /\ SendString(CommandOf[state]) /\ Step(1)
    /\ ErrorCnt' = IF state = "ConnectWifiNetwork" THEN 0 ELSE ErrorCnt
    /\ period' = IF state \in {"ConfigAte0", "ConnectWifiNetwork"} THEN 1000 ELSE period
    /\ Plain

SendCommand ==
    /\ state \in DOMAIN CommandOf
    /\ ClearReceive /\ SendString(CommandOf[state]) /\ Step(1)
    /\ ErrorCnt' = IF state = "ConnectWifiNetwork" THEN 0 ELSE ErrorCnt
    /\ period' = IF state \in {"ConfigAte0", "ConnectWifiNetwork", "ConnectTcpServer"}
                 THEN 1000 ELSE period
    /\ Plain

\* The checks of the configuration commands; everything else restarts the module.
CheckConfig ==
    /\ state \in {"ConfigAte0CheckResponse", "ConfigAtCheckResponse", "ConfigCwModeCheckResponse",
                  "ConfigCipMuxCheckResponse", "Config_TransparentModeCheckResponse"}
    /\ IF First({"OK"}) THEN Step(1) ELSE ToState("Init")
    /\ ClearReceive /\ Plain /\ UNCHANGED <<line, ErrorCnt, period>>

WaitAfterSuccessfulConfig ==
    /\ state = "WaitAfterSuccessfulConfig" /\ Step(1)
    /\ Plain /\ UNCHANGED <<line, rx, ErrorCnt, period>>

\* ESP8266_ErrorCnt is a uint8_t.
ErrorCntNext == (ErrorCnt + 1) % 256

\* Variant: the poll is not counted.
PollAgain_NotCounted(limit, restart) == UNCHANGED <<ErrorCnt, state, rx>>

\* One more poll without the answer; after limit of them, back to restart.
PollAgain(limit, restart) ==
    IF ErrorCntNext > limit THEN ErrorCnt' = 0 /\ ToState(restart) /\ ClearReceive
    ELSE ErrorCnt' = ErrorCntNext /\ UNCHANGED <<state, rx>>

Restart(s) == ToState(s) /\ ClearReceive /\ UNCHANGED ErrorCnt

Failures == {"FAIL", "ERROR", "Unlink"}

WifiCheckResponse ==
    /\ state = "ConnectWifiNetworkCheckResponse"
    /\ CASE First({"OK"}) -> Step(2) /\ DropCharacters(1) /\ UNCHANGED ErrorCnt
         [] First({"busy p..."}) -> Step(1) /\ DropCharacters(1) /\ UNCHANGED ErrorCnt
         [] First(Failures) -> Restart("ConnectWifiNetwork")
         [] OTHER -> PollAgain(WifiLimit, "ConnectWifiNetwork")
    /\ Plain /\ UNCHANGED <<line, period>>

WifiCheckFinish ==
    /\ state = "ConnectWifiNetworkCheckFinish"
    /\ CASE First({"OK"}) -> Step(1) /\ DropCharacters(1) /\ UNCHANGED ErrorCnt
         [] First(Failures) -> Restart("ConnectWifiNetwork")
         [] received = 0 -> PollAgain(WifiSilence, "ConnectWifiNetwork")
         [] OTHER -> PollAgain(WifiLimit, "ConnectWifiNetwork")
    /\ Plain /\ UNCHANGED <<line, period>>

IpAddressResponse ==
    /\ state = "IpAddressResponse"
    /\ CASE First({"192.168.0.106"}) -> Step(1) /\ ClearReceive /\ UNCHANGED ErrorCnt
         [] First({"0.0.0.0"}) -> Restart("ConnectWifiNetwork")
         [] OTHER ->
              IF IpRetry < ErrorCntNext /\ ErrorCntNext < IpLimit
              THEN ErrorCnt' = ErrorCntNext /\ ToState("PrintMyIpAddress") /\ ClearReceive
              ELSE PollAgain(IpLimit - 1, "ConnectWifiNetwork")
    /\ Plain /\ UNCHANGED <<line, period>>

TcpCheckResponse ==
    /\ state = "ConnectTcpServerCheckResponse"
    /\ CASE First({"OK"}) -> Step(1) /\ DropCharacters(1) /\ UNCHANGED <<ErrorCnt, line>>
         [] First({"ALREADY CONNECT"}) -> Step(2) /\ ClearReceive /\ UNCHANGED <<ErrorCnt, line>>
         [] First({"busy p..."}) ->
              Step(-1) /\ SendString("CIPCLOSE") /\ ClearReceive /\ UNCHANGED ErrorCnt
         [] First({"no ip"}) ->
              ErrorCnt' = 0 /\ ToState("ConnectWifiNetwork") /\ ClearReceive /\ UNCHANGED line
         [] OTHER -> PollAgain(TcpLimit, "ConnectTcpServer") /\ UNCHANGED line
    /\ Plain /\ UNCHANGED period

TcpCheckFinish ==
    /\ state = "ConnectTcpServerCheckFinish"
    /\ CASE First({"Linked"}) \/ (received > 1 /\ SubSeq(rx, 1, 2) = <<"OK", "Linked">>) ->
              Step(1) /\ ClearReceive /\ UNCHANGED ErrorCnt
         [] First({"Unlink", "FAIL"}) ->
              ErrorCnt' = ErrorCntNext /\ ToState("ConnectTcpServer") /\ ClearReceive
         [] OTHER -> PollAgain(LinkLimit, "ConnectTcpServer")
    /\ Plain /\ UNCHANGED <<line, period>>

BeforeIdle ==
    /\ state = "BeforeIdle" /\ ClearReceive /\ Step(1) /\ period' = 100
    /\ ConnectionStatus' = "SuccessfulServerStarted"
    /\ SendIsStarted' = FALSE /\ WaitSendOk' = FALSE
    /\ UNCHANGED <<line, wifiModule, LoginIsSent, sending, counters>>

Reconfig ==
    /\ state = "Reconfig" /\ ToState("Init")
    /\ Plain /\ UNCHANGED <<line, rx, ErrorCnt, period>>
-----------------------------------------------------------------------------
\* State Idle: ESP8266_CheckIdleStateMessages.
StartSending ==
    /\ ~SendIsStarted /\ ~WaitSendOk
    /\ EnableFlag' = TRUE /\ SendString("CIPSEND") /\ SendIsStarted' = TRUE /\ period' = 100
    /\ UNCHANGED <<rx, state, recvCounter, TransmitBuffer, requested, WaitSendOk, LoginIsSent>>

\* Without the prompt CIPSEND is sent again; the receive buffer stays as it is.
WaitForPrompt ==
    /\ SendIsStarted /\ ~WaitSendOk /\ LoginIsSent' = FALSE
    /\ IF First({">"})
       THEN WaitSendOk' = TRUE /\ period' = 100 /\ ClearReceive /\ UNCHANGED SendIsStarted
       ELSE SendIsStarted' = FALSE /\ UNCHANGED <<WaitSendOk, period, rx>>
    /\ UNCHANGED <<line, state, recvCounter, sending>>

\* The flag is set whether the login message was accepted or not.
SendLogin ==
    /\ WaitSendOk /\ ~LoginIsSent
    /\ Request(Command("login")) /\ LoginIsSent' = TRUE
    /\ UNCHANGED <<line, rx, state, recvCounter, period, requested, SendIsStarted, WaitSendOk>>

\* A command ends with CR or LF, wherever in the copy.
Ended == \E i \in 1 .. received : rx[i] \notin {"part", ">"}

Unlinked ==
    /\ DropCharacters(1) /\ ToState("ConnectTcpServer") /\ SendIsStarted' = FALSE
    /\ UNCHANGED <<sending, recvCounter>>

WrongSyntax ==
    ClearReceive /\ ToState("Reconfig") /\ UNCHANGED <<SendIsStarted, sending, recvCounter>>

\* Whatever the command does, all of the copy is dropped; it may have an answer.
ExecuteCommand ==
    /\ RequestMessage \/ UNCHANGED sending
    /\ DropCharacters(received)
    /\ UNCHANGED <<state, SendIsStarted, recvCounter>>

\* Variants: the counter of polls is not reset; is not advanced.
KeepPart_NoReset ==
    /\ recvCounter' = recvCounter + 1
    /\ IF recvCounter + 1 > RecvLimit THEN DropCharacters(received) ELSE UNCHANGED rx
    /\ UNCHANGED <<state, SendIsStarted, sending>>
KeepPart_Forever == UNCHANGED <<rx, recvCounter, state, SendIsStarted, sending>>

\* The rest of the line may follow.
KeepPart ==
    /\ IF recvCounter + 1 > RecvLimit THEN DropCharacters(received) /\ recvCounter' = 0
       ELSE recvCounter' = recvCounter + 1 /\ UNCHANGED rx
    /\ UNCHANGED <<state, SendIsStarted, sending>>

ReceiveInIdle ==
    /\ WaitSendOk /\ LoginIsSent /\ received > 0
    /\ \/ First({"Unlink"}) /\ Unlinked
       \/ First({"wrong syntax"}) /\ WrongSyntax
       \/ ~First({"Unlink", "wrong syntax"}) /\ Ended /\ ExecuteCommand
       \/ ~First({"Unlink", "wrong syntax"}) /\ ~Ended /\ KeepPart
    /\ UNCHANGED <<line, period, WaitSendOk, LoginIsSent>>

\* Variant: the buffer is not freed.
SendMessage_KeepsLock ==
    /\ WaitSendOk /\ LoginIsSent /\ received = 0
    /\ IF EnableFlag THEN UNCHANGED line ELSE Put(TransmitBuffer)
    /\ UNCHANGED <<rx, state, recvCounter, period, sending, flags>>

\* A message that does not fit is put in part, and whole again at the next poll.
SendMessage ==
    /\ WaitSendOk /\ LoginIsSent /\ received = 0
    /\ IF EnableFlag THEN UNCHANGED <<line, EnableFlag>>
       ELSE Put(TransmitBuffer) /\ EnableFlag' = Fits(TransmitBuffer)
    /\ UNCHANGED <<rx, state, recvCounter, period, TransmitBuffer, requested, flags>>

CheckIdleStateMessages ==
    /\ state = "Idle"
    /\ StartSending \/ WaitForPrompt \/ SendLogin \/ ReceiveInIdle \/ SendMessage
    /\ UNCHANGED <<wifiModule, ErrorCnt, ConnectionStatus>>
-----------------------------------------------------------------------------
\* A second is enough for the transmit buffer to empty (512 characters take
\* 533 ms at 9600 baud) and 100 ms for a command; of messages a unit has left.
HasLeft ==
    \/ line = <<>>
    \/ period = 100 /\ Len(line) < TxRoom /\ \E i \in DOMAIN line : IsMessage(line[i])

\* A module that has not answered by then is late.
Run ==
    /\ pc = "wait" /\ HasLeft
    /\ IF pending = "none" THEN UNCHANGED faults ELSE Fault
    /\ pc' = "process" /\ received' = Len(rx)
    /\ UNCHANGED <<line, rx, wifiModule, state, counters, period, ConnectionStatus, sending, flags,
                   reconnects>>

Handle ==
    \/ ResetHardware \/ AfterInit \/ SendCommand \/ CheckConfig \/ WaitAfterSuccessfulConfig
    \/ WifiCheckResponse \/ WifiCheckFinish \/ IpAddressResponse
    \/ TcpCheckResponse \/ TcpCheckFinish \/ BeforeIdle \/ CheckIdleStateMessages \/ Reconfig

Process ==
    /\ pc = "process" /\ Handle
    /\ pc' = "wait" /\ received' = 0
    /\ UNCHANGED <<faults, reconnects>>

\* Another task has a message for the server.
RequestSendTcpMessage ==
    /\ pc = "wait" /\ RequestMessage
    /\ UNCHANGED <<line, rx, wifiModule, faults, state, pc, received, counters, period,
                   ConnectionStatus, flags, reconnects>>

\* The command "esp8266 reconnect wifi|tcp", typed or received from the server
\* (then right after ExecuteCommand): in any state, in data mode too.
RequiredNewState(s) ==
    /\ pc = "wait"
    /\ reconnects < MaxReconnects /\ reconnects' = reconnects + 1
    /\ ToState(s)
    /\ UNCHANGED <<line, rx, wifiModule, faults, pc, received, counters, period,
                   ConnectionStatus, sending, flags>>

WifiAnswers == (Receive \/ AnswerPending) /\ UNCHANGED client
WifiActs == (RefusePending \/ ServerSends \/ ServerCloses) /\ UNCHANGED client

Next ==
    \/ Run \/ Process \/ RequestSendTcpMessage
    \/ \E s \in {"ConnectWifiNetwork", "ConnectTcpServer"} : RequiredNewState(s)
    \/ WifiAnswers \/ WifiActs

\* The scheduler keeps running the task, and the module answers.
Fairness == WF_vars(Run) /\ WF_vars(Process) /\ WF_vars(WifiAnswers)

Spec == Init /\ [][Next]_vars /\ Fairness
-----------------------------------------------------------------------------
\* The client has the data connection and has asked to be logged in.
Steady == state = "Idle" /\ SendIsStarted /\ WaitSendOk /\ LoginIsSent

\* Type invariant.
TypeOK ==
    /\ \E i \in DOMAIN Status : state = Status[i]
    /\ pc \in {"wait", "process"} /\ received \in 0 .. Len(rx)
    /\ ErrorCnt \in 0 .. 255 /\ recvCounter \in 0 .. RecvLimit
    /\ period \in {100, 1000, 5000}
    /\ ConnectionStatus \in {"Unknown", "SuccessfulServerStarted"}
    /\ \A b \in {EnableFlag, SendIsStarted, WaitSendOk, LoginIsSent} : b \in BOOLEAN
    /\ requested \in 0 .. MaxRequests /\ reconnects \in 0 .. MaxReconnects
    /\ Len(line) <= TxRoom /\ Len(rx) <= RxTexts /\ faults \in 0 .. MaxFaults
    /\ TransmitBuffer \in {Command("none"), Command("login")}
                          \cup {Message(n, u) : n \in 1 .. requested, u \in 1 .. MaxUnits}

\* ESP8266_RequestSendTcpMessage and state Idle: of a message that was accepted
\* parts may be sent again and again, but its end reaches the server at most
\* once, and ends never overtake each other, across reconnections, resets of the
\* module and repeated CIPSEND.
SentOnce ==
    \A i, j \in DOMAIN toServer :
        i < j /\ IsMessage(toServer[i]) /\ IsMessage(toServer[j]) => toServer[i].n < toServer[j].n

\* The comments of the state machine count polls as seconds ("~20 seconds",
\* ESP8266.c:1135): wherever it waits for an answer the task's period is one
\* second, however the state was entered.
EveryPollIsASecond ==
    state \in {"ConnectWifiNetworkCheckResponse", "ConnectWifiNetworkCheckFinish",
               "IpAddressResponse", "ConnectTcpServerCheckResponse", "ConnectTcpServerCheckFinish"}
        => period = 1000

\* ESP8266_StatusMachine: whatever is refused, late or answered out of turn
\* while the client sets up, it gets to state Idle; in data mode the commands
\* of the setup are data for the server and it polls on without an end.
SetsUp == state # "Idle" /\ ~data ~> state = "Idle" \/ data

\* A message that waits in the transmit buffer of a connected client is sent,
\* or the client gives the connection up, if it is no longer than what leaves
\* in a period; a longer one may be put in part at every poll.
RequestSent ==
    Steady /\ ~EnableFlag /\ TransmitBuffer.units = 1 ~> EnableFlag \/ ~Steady

\* "Send "login" message after TCP connection" (Inc/options.h:920): the first
\* message of each connection is the login message.
LoginFirst ==
    \A i \in DOMAIN toServer : i > 1 /\ toServer[i - 1] = Opened /\ toServer[i] # Opened
        => toServer[i].text = "login"
=============================================================================
