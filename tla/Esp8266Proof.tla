---------------------------- MODULE Esp8266Proof -----------------------------
(***************************************************************************)
(* For all limits, any number of messages, faults and reconnect commands:  *)
(* the Wi-Fi client completes a message at most once, in order, polls for  *)
(* an answer once a second, and its buffers and counters keep their range. *)
(***************************************************************************)
EXTENDS Esp8266, SequenceTheorems, TLAPS

Commands == {"ATE0", "AT", "CWMODE", "CIPMUX", "CWJAP", "CIFSR", "CIPSTART", "CIPMODE", "CIPCLOSE",
             "CIPSEND"}
Words == Commands \cup {"login", "message", "none"}
Texts == [text : Words, n : Nat, units : Nat]
Units == [text : Words, n : Nat, last : BOOLEAN]

\* A message waits in the transmit buffer; the end of a message.
Waiting == ~EnableFlag /\ IsMessage(TransmitBuffer)
IsEnd(unit) == IsMessage(unit) /\ unit.last

SendType ==
    /\ toServer \in Seq(Units \cup {Opened}) /\ line \in Seq(Units) /\ Len(line) <= TxRoom
    /\ TransmitBuffer \in Texts /\ requested \in Nat /\ EnableFlag \in BOOLEAN

\* Messages at the server come before the ends on the line, and those before the
\* waiting one; none has a number that was not given yet.
ServerOrder ==
    \A k \in DOMAIN toServer : IsMessage(toServer[k]) =>
        /\ toServer[k].n <= requested
        /\ \A j \in DOMAIN line : IsEnd(line[j]) => toServer[k].n < line[j].n
        /\ Waiting => toServer[k].n < TransmitBuffer.n

LineOrder ==
    \A j \in DOMAIN line : IsEnd(line[j]) =>
        /\ line[j].n <= requested
        /\ \A i \in DOMAIN line : i < j /\ IsEnd(line[i]) => line[i].n < line[j].n
        /\ Waiting => line[j].n < TransmitBuffer.n

OnceInv ==
    /\ SendType /\ SentOnce /\ ServerOrder /\ LineOrder
    /\ Waiting => TransmitBuffer.n <= requested

\* Commands are no messages, and messages have their numbers.
LEMMA CommandType ==
  ASSUME NEW c \in Commands \cup {"login", "none"}
  PROVE  Command(c) \in Texts /\ ~IsMessage(Command(c)) /\ Command(c).text = c
<1>1. Command(c) = [text |-> c, n |-> 0, units |-> 1] /\ c # "message" /\ c \in Words
  BY DEF Command, Commands, Words
<1> QED  BY <1>1 DEF Texts, IsMessage

LEMMA MessageType ==
  ASSUME NEW k \in Nat, NEW u \in Nat
  PROVE  Message(k, u) \in Texts /\ Message(k, u).n = k /\ IsMessage(Message(k, u))
<1>1. Message(k, u) = [text |-> "message", n |-> k, units |-> u] /\ "message" \in Words
  BY DEF Message, Words
<1> QED  BY <1>1 DEF Texts, IsMessage

LEMMA OpenedType == Opened.n \in Nat /\ ~IsMessage(Opened)
  BY DEF Opened, IsMessage

LEMMA RoomType == TxRoom \in Nat
  BY WifiModuleAssumption

\* Putting a text leaves what is on the line and adds units of the text, with
\* its end only if the whole text fits.
LEMMA PutAdds ==
  ASSUME line \in Seq(Units), Len(line) <= TxRoom, NEW t \in Texts, Put(t)
  PROVE  /\ line' \in Seq(Units) /\ Len(line') <= TxRoom /\ Len(line) <= Len(line')
         /\ \A j \in 1 .. Len(line) : line'[j] = line[j]
         /\ \A j \in 1 .. Len(line') : j > Len(line) =>
                /\ line'[j].text = t.text /\ line'[j].n = t.n
                /\ line'[j].last => Fits(t) /\ j = Len(line')
<1> DEFINE u == UnitsOf(t)
<1>1. t.units \in Nat /\ t.text \in Words /\ t.n \in Nat
  BY DEF Texts
<1>2. \A i \in 1 .. t.units : u[i] = [text |-> t.text, n |-> t.n, last |-> i = t.units]
  BY DEF UnitsOf
<1>3. \A i \in 1 .. t.units :
        u[i] \in Units /\ u[i].text = t.text /\ u[i].n = t.n /\ (u[i].last <=> i = t.units)
  <2> HIDE DEF u
  <2> TAKE i \in 1 .. t.units
  <2>1. PICK b \in BOOLEAN : b <=> i = t.units
    OBVIOUS
  <2>2. (i = t.units) = b
    BY <2>1
  <2>3. u[i] = [text |-> t.text, n |-> t.n, last |-> b]
    BY <1>2, <2>2, Zenon
  <2>4. u[i].text = t.text /\ u[i].n = t.n /\ u[i].last = b
    BY <2>3
  <2>5. u[i] \in Units
    BY <1>1, <2>3 DEF Units
  <2> QED  BY <2>1, <2>4, <2>5
<1>4. u \in Seq(Units) /\ Len(u) = t.units
  <2>1. DOMAIN u = 1 .. t.units /\ u = [i \in 1 .. t.units |-> u[i]]
    BY DEF UnitsOf
  <2> HIDE DEF u
  <2>2. u \in [1 .. t.units -> Units]
    BY <1>3, <2>1
  <2> QED  BY <1>1, <2>2
<1> HIDE DEF u
<1>5. Len(line) \in Nat /\ TxRoom \in Nat
  BY RoomType
<1>6. CASE Fits(t)
  <2>1. line' = line \o u /\ Len(line) + t.units <= TxRoom
    BY <1>6 DEF Put, Fits, u
  <2>2. /\ line' \in Seq(Units) /\ Len(line') = Len(line) + t.units
        /\ \A j \in 1 .. Len(line) : line'[j] = line[j]
        /\ \A j \in 1 .. Len(line') : j > Len(line) => line'[j] = u[j - Len(line)]
    BY <1>1, <1>4, <1>5, <2>1
  <2>3. \A j \in 1 .. Len(line') : j > Len(line) => j - Len(line) \in 1 .. t.units
    BY <1>1, <1>5, <2>2
  <2>4. \A j \in 1 .. Len(line') : j > Len(line) =>
          /\ line'[j].text = t.text /\ line'[j].n = t.n
          /\ line'[j].last => j - Len(line) = t.units
    BY <1>3, <2>2, <2>3
  <2> QED  BY <1>1, <1>5, <1>6, <2>1, <2>2, <2>4
<1>7. CASE ~Fits(t)
  <2> DEFINE m == TxRoom - Len(line)  v == SubSeq(u, 1, m)
  <2>1. line' = line \o v /\ Len(line) + t.units > TxRoom
    BY <1>1, <1>5, <1>7 DEF Put, Fits, u
  <2>2. m \in 0 .. t.units /\ m < t.units /\ m \in Nat
    BY <1>1, <1>5, <2>1
  <2>3. v \in Seq(Units) /\ Len(v) = m /\ \A i \in 1 .. m : v[i] = u[i]
    <3>1. 1 \in 1 .. Len(u) + 1 /\ m \in 1 - 1 .. Len(u)
      BY <1>1, <1>4, <2>2
    <3> HIDE DEF m
    <3>2. v \in Seq(Units) /\ Len(v) = m - 1 + 1
      BY <1>4, <3>1, SubSeqProperties
    <3>3. \A i \in 1 .. m : v[i] = u[1 + i - 1]
      BY <1>4, <2>2, <3>1, SubSeqProperties
    <3> QED  BY <2>2, <3>2, <3>3
  <2> HIDE DEF v
  <2>4. /\ line' \in Seq(Units) /\ Len(line') = TxRoom
        /\ \A j \in 1 .. Len(line) : line'[j] = line[j]
        /\ \A j \in 1 .. Len(line') : j > Len(line) => line'[j] = v[j - Len(line)]
    BY <1>5, <2>1, <2>2, <2>3
  <2>5. \A j \in 1 .. Len(line') : j > Len(line) =>
          j - Len(line) \in 1 .. m /\ j - Len(line) \in 1 .. t.units /\ j - Len(line) # t.units
    BY <1>1, <1>5, <2>2, <2>4
  <2>6. \A j \in 1 .. Len(line') : j > Len(line) =>
          line'[j].text = t.text /\ line'[j].n = t.n /\ ~line'[j].last
    <3> HIDE DEF m
    <3> SUFFICES ASSUME NEW j \in 1 .. Len(line'), j > Len(line)
                 PROVE  line'[j].text = t.text /\ line'[j].n = t.n /\ ~line'[j].last
      OBVIOUS
    <3>1. PICK i \in 1 .. m : i \in 1 .. t.units /\ i # t.units /\ line'[j] = v[i]
      BY <2>4, <2>5
    <3>2. line'[j] = u[i]
      BY <2>3, <3>1
    <3> QED  BY <1>3, <3>1, <3>2
  <2> QED  BY <1>5, <2>4, <2>6
<1> QED  BY <1>6, <1>7

\* Every state of the setup sends at most a command, and touches neither the
\* transmit buffer nor what the server has.
SendsCommand == line' = line \/ \E c \in Commands : SendString(c)

LEMMA CommandOfType == ASSUME state \in DOMAIN CommandOf PROVE CommandOf[state] \in Commands
  BY DEF CommandOf, Commands

LEMMA SetupEffect ==
  ASSUME \/ ResetHardware \/ AfterInit \/ SendCommand \/ CheckConfig \/ WaitAfterSuccessfulConfig
         \/ WifiCheckResponse \/ WifiCheckFinish \/ IpAddressResponse
         \/ TcpCheckResponse \/ TcpCheckFinish \/ BeforeIdle \/ Reconfig
  PROVE  SendsCommand /\ UNCHANGED <<toServer, sending>>
<1>1. CASE ResetHardware
  BY <1>1 DEF ResetHardware, Reset, SendsCommand
<1>2. CASE AfterInit
  BY <1>2 DEF AfterInit, Plain, wifiModule, SendsCommand
<1>3. CASE SendCommand
  BY <1>3, CommandOfType DEF SendCommand, Plain, wifiModule, SendsCommand
<1>4. CASE CheckConfig
  BY <1>4 DEF CheckConfig, Plain, wifiModule, SendsCommand
<1>5. CASE WaitAfterSuccessfulConfig
  BY <1>5 DEF WaitAfterSuccessfulConfig, Plain, wifiModule, SendsCommand
<1>6. CASE WifiCheckResponse
  BY <1>6 DEF WifiCheckResponse, Plain, wifiModule, SendsCommand
<1>7. CASE WifiCheckFinish
  BY <1>7 DEF WifiCheckFinish, Plain, wifiModule, SendsCommand
<1>8. CASE IpAddressResponse
  BY <1>8 DEF IpAddressResponse, Plain, wifiModule, SendsCommand
<1>9. CASE TcpCheckResponse
  <2>1. line' = line \/ SendString("CIPCLOSE")
    BY <1>9 DEF TcpCheckResponse
  <2> QED  BY <1>9, <2>1 DEF TcpCheckResponse, Plain, wifiModule, SendsCommand, Commands
<1>10. CASE TcpCheckFinish
  BY <1>10 DEF TcpCheckFinish, Plain, wifiModule, SendsCommand
<1>11. CASE BeforeIdle
  BY <1>11 DEF BeforeIdle, wifiModule, SendsCommand
<1>12. CASE Reconfig
  BY <1>12 DEF Reconfig, Plain, wifiModule, SendsCommand
<1> QED  BY <1>1, <1>2, <1>3, <1>4, <1>5, <1>6, <1>7, <1>8, <1>9, <1>10, <1>11, <1>12

\* What is added to the line has no end of a message.
LEMMA NoNewEnd ==
  ASSUME OnceInv, line' \in Seq(Units), Len(line') <= TxRoom, Len(line) <= Len(line'),
         \A j \in 1 .. Len(line) : line'[j] = line[j],
         \A j \in 1 .. Len(line') : j > Len(line) => ~IsEnd(line'[j]),
         toServer' = toServer, TransmitBuffer' = TransmitBuffer, requested' = requested,
         EnableFlag' = EnableFlag \/ EnableFlag' = TRUE
  PROVE  OnceInv'
<1>1. Waiting' => Waiting
  BY DEF OnceInv, SendType, Waiting
<1>2. /\ Len(line) \in Nat /\ Len(line') \in Nat
      /\ DOMAIN line = 1 .. Len(line) /\ DOMAIN line' = 1 .. Len(line')
  BY DEF OnceInv, SendType
<1>3. \A j \in DOMAIN line' : IsEnd(line'[j]) => j \in DOMAIN line /\ line'[j] = line[j]
  BY <1>2
<1>4. SendType' /\ SentOnce'
  BY DEF OnceInv, SendType, SentOnce, IsMessage
<1>5. ServerOrder'
  BY <1>1, <1>3 DEF OnceInv, ServerOrder, IsMessage, IsEnd
<1>6. LineOrder'
  BY <1>1, <1>3 DEF OnceInv, LineOrder, IsMessage, IsEnd
<1> QED  BY <1>1, <1>4, <1>5, <1>6 DEF OnceInv

\* Nothing but a command is sent.
LEMMA CommandKeepsOrder ==
  ASSUME OnceInv, SendsCommand,
         toServer' = toServer, TransmitBuffer' = TransmitBuffer, requested' = requested,
         EnableFlag' = EnableFlag \/ EnableFlag' = TRUE
  PROVE  OnceInv'
<1>1. line \in Seq(Units) /\ Len(line) <= TxRoom /\ Len(line) \in Nat
  BY DEF OnceInv, SendType
<1>2. CASE line' = line
  <2>1. \A j \in 1 .. Len(line') : ~(j > Len(line))
    BY <1>1, <1>2
  <2>2. Len(line) <= Len(line')
    BY <1>1, <1>2
  <2> QED  BY <1>1, <1>2, <2>1, <2>2, NoNewEnd
<1>3. CASE \E c \in Commands : SendString(c)
  <2>1. PICK c \in Commands : Put(Command(c))
    BY <1>3 DEF SendString
  <2>2. Command(c) \in Texts /\ Command(c).text = c /\ c # "message"
    BY CommandType DEF Commands
  <2>3. /\ line' \in Seq(Units) /\ Len(line') <= TxRoom /\ Len(line) <= Len(line')
        /\ \A j \in 1 .. Len(line) : line'[j] = line[j]
        /\ \A j \in 1 .. Len(line') : j > Len(line) => line'[j].text = Command(c).text
    BY <1>1, <2>1, <2>2, PutAdds
  <2>4. \A j \in 1 .. Len(line') : j > Len(line) => ~IsEnd(line'[j])
    BY <2>2, <2>3 DEF IsEnd, IsMessage
  <2> QED  BY <2>3, <2>4, NoNewEnd
<1> QED  BY <1>2, <1>3 DEF SendsCommand

\* A request takes the free buffer with the next number, or changes nothing.
LEMMA RequestKeepsOrder ==
  ASSUME OnceInv, RequestMessage, UNCHANGED <<line, toServer>>
  PROVE  OnceInv'
<1>1. CASE ~EnableFlag
  <2>1. UNCHANGED <<EnableFlag, TransmitBuffer, requested>>
    BY <1>1 DEF RequestMessage, Request, OnceInv, SendType
  <2> QED  BY <2>1 DEF OnceInv, SendType, SentOnce, ServerOrder, LineOrder, IsMessage, IsEnd, Waiting
<1>2. CASE EnableFlag
  <2>1. PICK units \in 1 .. MaxUnits :
          /\ EnableFlag' = FALSE /\ requested' = requested + 1
          /\ TransmitBuffer' = Message(requested + 1, units)
    BY <1>2 DEF RequestMessage, Request
  <2>2. /\ TransmitBuffer' \in Texts /\ TransmitBuffer'.n = requested + 1
        /\ requested \in Nat /\ requested' \in Nat /\ requested < requested'
    BY <2>1, MessageType DEF OnceInv, SendType
  <2>3. SendType'
    BY <2>1, <2>2 DEF OnceInv, SendType
  <2>4. SentOnce'
    BY DEF OnceInv, SentOnce, IsMessage
  <2>5. ASSUME NEW k \in DOMAIN toServer, IsMessage(toServer[k])
        PROVE  toServer[k].n <= requested' /\ toServer[k].n < TransmitBuffer'.n
    <3>1. toServer[k].n \in Nat
      BY <2>5, OpenedType DEF OnceInv, SendType, Units
    <3>2. toServer[k].n <= requested
      BY <2>5 DEF OnceInv, ServerOrder
    <3> QED  BY <2>1, <2>2, <3>1, <3>2
  <2>6. ASSUME NEW j \in DOMAIN line, IsEnd(line[j])
        PROVE  line[j].n <= requested' /\ line[j].n < TransmitBuffer'.n
    <3>1. line[j] \in Units
      BY <2>6 DEF OnceInv, SendType
    <3>3. line[j].n \in Nat
      BY <3>1 DEF Units
    <3>2. line[j].n <= requested
      BY <2>6 DEF OnceInv, LineOrder
    <3> QED  BY <2>1, <2>2, <3>2, <3>3
  <2>7. ServerOrder'
    BY <2>5 DEF OnceInv, ServerOrder, IsMessage, IsEnd
  <2>8. LineOrder'
    BY <2>6 DEF OnceInv, LineOrder, IsMessage, IsEnd
  <2> QED  BY <2>1, <2>2, <2>3, <2>4, <2>7, <2>8 DEF OnceInv
<1> QED  BY <1>1, <1>2 DEF OnceInv, SendType

\* A message that fits leaves its end behind all others on the line; one that
\* does not fit leaves none and waits on.
LEMMA SendKeepsOrder ==
  ASSUME OnceInv, SendMessage, toServer' = toServer PROVE OnceInv'
<1>1. UNCHANGED <<TransmitBuffer, requested>>
  BY DEF SendMessage
<1>2. CASE EnableFlag
  BY <1>1, <1>2, CommandKeepsOrder DEF SendMessage, SendsCommand
<1>3. CASE ~EnableFlag
  <2>1. Put(TransmitBuffer) /\ EnableFlag' = Fits(TransmitBuffer)
    BY <1>3 DEF SendMessage
  <2>2. /\ line \in Seq(Units) /\ Len(line) <= TxRoom /\ Len(line) \in Nat
        /\ TransmitBuffer \in Texts
    BY DEF OnceInv, SendType
  <2>3. /\ line' \in Seq(Units) /\ Len(line') <= TxRoom /\ Len(line) <= Len(line')
        /\ \A j \in 1 .. Len(line) : line'[j] = line[j]
        /\ \A j \in 1 .. Len(line') : j > Len(line) =>
              /\ line'[j].text = TransmitBuffer.text /\ line'[j].n = TransmitBuffer.n
              /\ line'[j].last => Fits(TransmitBuffer) /\ j = Len(line')
    BY <2>1, <2>2, PutAdds
  <2>4. CASE ~Fits(TransmitBuffer)
    <3>1. EnableFlag' = EnableFlag
      <4>1. EnableFlag = FALSE
        BY <1>3 DEF OnceInv, SendType
      <4>2. EnableFlag' = FALSE
        BY <2>1, <2>4
      <4> QED  BY <4>1, <4>2
    <3>2. \A j \in 1 .. Len(line') : j > Len(line) => ~IsEnd(line'[j])
      BY <2>3, <2>4 DEF IsEnd
    <3> QED  BY <1>1, <2>3, <3>1, <3>2, NoNewEnd
  <2>5. CASE Fits(TransmitBuffer)
    <3>1. EnableFlag' = TRUE /\ ~Waiting'
      BY <2>1, <2>5 DEF Fits, Waiting
    <3>2. /\ DOMAIN line = 1 .. Len(line) /\ DOMAIN line' = 1 .. Len(line')
          /\ Len(line) \in Nat /\ Len(line') \in Nat
      BY <2>2, <2>3
    <3>3. \A j \in DOMAIN line' : IsEnd(line'[j]) =>
            \/ j \in DOMAIN line /\ line'[j] = line[j]
            \/ Waiting /\ j = Len(line') /\ line'[j].n = TransmitBuffer.n
      <4> SUFFICES ASSUME NEW j \in DOMAIN line', IsEnd(line'[j])
                   PROVE  \/ j \in DOMAIN line /\ line'[j] = line[j]
                          \/ Waiting /\ j = Len(line') /\ line'[j].n = TransmitBuffer.n
        OBVIOUS
      <4>1. CASE j > Len(line)
        BY <1>3, <2>3, <3>2, <4>1 DEF IsEnd, IsMessage, Waiting
      <4>2. CASE ~(j > Len(line))
        <5>1. j \in DOMAIN line
          BY <3>2, <4>2
        <5> QED  BY <2>3, <3>2, <5>1
      <4> QED  BY <4>1, <4>2
    <3>4. SendType' /\ SentOnce'
      BY <1>1, <2>3, <3>1 DEF OnceInv, SendType, SentOnce, IsMessage
    <3>5. ServerOrder'
      BY <1>1, <3>1, <3>3 DEF OnceInv, ServerOrder, IsMessage, IsEnd
    <3>6. \A j \in DOMAIN line' : IsEnd(line'[j]) => line'[j].n <= requested
      BY <3>3 DEF OnceInv, LineOrder, IsMessage, IsEnd
    <3>7. \A j \in DOMAIN line' : IsEnd(line'[j]) =>
            \A i \in DOMAIN line' : i < j /\ IsEnd(line'[i]) => line'[i].n < line'[j].n
      <4> SUFFICES ASSUME NEW j \in DOMAIN line', IsEnd(line'[j]),
                          NEW i \in DOMAIN line', i < j, IsEnd(line'[i])
                   PROVE  line'[i].n < line'[j].n
        OBVIOUS
      <4>1. i # Len(line')
        BY <3>2
      <4>2. i \in DOMAIN line /\ line'[i] = line[i] /\ IsEnd(line[i])
        BY <3>3, <4>1
      <4> QED  BY <3>3, <4>2 DEF OnceInv, LineOrder
    <3>8. LineOrder'
      BY <1>1, <3>1, <3>6, <3>7 DEF LineOrder, IsMessage, IsEnd
    <3> QED  BY <3>1, <3>4, <3>5, <3>8 DEF OnceInv
  <2> QED  BY <2>4, <2>5
<1> QED  BY <1>2, <1>3 DEF OnceInv, SendType

\* The states of Idle that send, or request the login.
LEMMA IdleKeepsOrder ==
  ASSUME OnceInv, CheckIdleStateMessages PROVE OnceInv'
<1>1. toServer' = toServer
  BY DEF CheckIdleStateMessages, wifiModule
<1>2. CASE StartSending
  BY <1>1, <1>2, CommandKeepsOrder DEF StartSending, SendsCommand, Commands
<1>3. CASE WaitForPrompt
  BY <1>1, <1>3, CommandKeepsOrder DEF WaitForPrompt, SendsCommand, sending
<1>4. CASE SendLogin
  <2>1. UNCHANGED <<line, requested>> /\ EnableFlag' = FALSE
    BY <1>4 DEF SendLogin, Request
  <2>2. CASE EnableFlag
    <3>1. TransmitBuffer' = Command("login")
      BY <1>4, <2>2 DEF SendLogin, Request
    <3>2. TransmitBuffer' \in Texts /\ ~IsMessage(TransmitBuffer')
      BY <3>1, CommandType
    <3> QED  BY <1>1, <2>1, <3>2
             DEF OnceInv, SendType, SentOnce, ServerOrder, LineOrder, IsMessage, IsEnd, Waiting
  <2>3. CASE ~EnableFlag
    <3>1. UNCHANGED <<EnableFlag, TransmitBuffer>>
      BY <1>4, <2>3 DEF SendLogin, Request, OnceInv, SendType
    <3> QED  BY <1>1, <2>1, <3>1
             DEF OnceInv, SendType, SentOnce, ServerOrder, LineOrder, IsMessage, IsEnd, Waiting
  <2> QED  BY <2>2, <2>3
<1>5. CASE ReceiveInIdle
  <2>1. line' = line /\ (UNCHANGED sending \/ RequestMessage)
    BY <1>5 DEF ReceiveInIdle, Unlinked, WrongSyntax, ExecuteCommand, KeepPart
  <2>2. CASE UNCHANGED sending
    BY <1>1, <2>1, <2>2, CommandKeepsOrder DEF SendsCommand, sending
  <2> QED  BY <1>1, <2>1, <2>2, RequestKeepsOrder
<1>6. CASE SendMessage
  BY <1>1, <1>6, SendKeepsOrder
<1> QED  BY <1>2, <1>3, <1>4, <1>5, <1>6 DEF CheckIdleStateMessages

\* The line without its first unit keeps the order of the rest.
LEMMA TailKeepsOrder ==
  ASSUME OnceInv, line # <<>>, line' = Tail(line)
  PROVE  /\ line' \in Seq(Units) /\ Len(line') <= TxRoom
         /\ \A j \in DOMAIN line' : j + 1 \in DOMAIN line /\ line'[j] = line[j + 1]
         /\ \A i, j \in DOMAIN line' : i < j => i + 1 < j + 1
         /\ 1 \in DOMAIN line /\ Head(line) = line[1] /\ line[1] \in Units
         /\ \A j \in DOMAIN line' : 1 < j + 1
<1>1. line \in Seq(Units) /\ Len(line) <= TxRoom /\ TxRoom \in Nat
  BY RoomType DEF OnceInv, SendType
<1>2. /\ Len(line) \in Nat \ {0} /\ Tail(line) \in Seq(Units) /\ Len(Tail(line)) = Len(line) - 1
      /\ \A j \in 1 .. Len(line) - 1 : Tail(line)[j] = line[j + 1]
      /\ Head(line) = line[1]
  BY <1>1
<1>3. DOMAIN line = 1 .. Len(line) /\ DOMAIN line' = 1 .. Len(line) - 1
  BY <1>1, <1>2
<1>4. \A j \in 1 .. Len(line) - 1 : j + 1 \in 1 .. Len(line) /\ 1 < j + 1
  BY <1>2
<1>5. \A i, j \in 1 .. Len(line) - 1 : i < j => i + 1 < j + 1
  BY <1>2
<1>6. 1 \in 1 .. Len(line) /\ Len(line) - 1 <= TxRoom
  BY <1>1, <1>2
<1> QED  BY <1>1, <1>2, <1>3, <1>4, <1>5, <1>6

\* What the module does: a unit leaves the line, for the server or not.
LEMMA ReceiveKeepsOrder ==
  ASSUME OnceInv, line # <<>>, line' = Tail(line),
         \/ toServer' = toServer
         \/ toServer' = Append(toServer, Head(line)) /\ (IsMessage(Head(line)) => Head(line).last),
         UNCHANGED <<TransmitBuffer, requested, EnableFlag>>
  PROVE  OnceInv'
<1>1. /\ line' \in Seq(Units) /\ Len(line') <= TxRoom
      /\ \A j \in DOMAIN line' : j + 1 \in DOMAIN line /\ line'[j] = line[j + 1]
      /\ \A i, j \in DOMAIN line' : i < j => i + 1 < j + 1
      /\ 1 \in DOMAIN line /\ Head(line) = line[1] /\ line[1] \in Units
      /\ \A j \in DOMAIN line' : 1 < j + 1
  BY TailKeepsOrder
<1>2. Waiting' <=> Waiting
  BY DEF Waiting, IsMessage
<1>3. LineOrder'
  <2> SUFFICES ASSUME NEW j \in DOMAIN line', IsEnd(line'[j])
               PROVE  /\ line'[j].n <= requested
                      /\ \A i \in DOMAIN line' : i < j /\ IsEnd(line'[i]) => line'[i].n < line'[j].n
                      /\ Waiting => line'[j].n < TransmitBuffer.n
    BY <1>2 DEF LineOrder, IsEnd, IsMessage
  <2>1. j + 1 \in DOMAIN line /\ line'[j] = line[j + 1] /\ IsEnd(line[j + 1])
    BY <1>1
  <2>2. line'[j].n <= requested /\ (Waiting => line'[j].n < TransmitBuffer.n)
    BY <2>1 DEF OnceInv, LineOrder
  <2>3. ASSUME NEW i \in DOMAIN line', i < j, IsEnd(line'[i]) PROVE line'[i].n < line'[j].n
    <3>1. i + 1 \in DOMAIN line /\ line'[i] = line[i + 1] /\ IsEnd(line[i + 1]) /\ i + 1 < j + 1
      BY <1>1, <2>3
    <3> QED  BY <2>1, <3>1 DEF OnceInv, LineOrder
  <2> QED  BY <2>2, <2>3
<1>4. ASSUME NEW t, t.n <= requested,
             \A j \in DOMAIN line' : IsEnd(line'[j]) => t.n < line'[j].n,
             Waiting => t.n < TransmitBuffer.n
      PROVE  /\ t.n <= requested'
             /\ \A j \in DOMAIN line' : IsEnd(line'[j]) => t.n < line'[j].n
             /\ Waiting' => t.n < TransmitBuffer'.n
  BY <1>2, <1>4
<1>5. \A k \in DOMAIN toServer : IsMessage(toServer[k]) =>
        /\ toServer[k].n <= requested
        /\ \A j \in DOMAIN line' : IsEnd(line'[j]) => toServer[k].n < line'[j].n
        /\ Waiting => toServer[k].n < TransmitBuffer.n
  BY <1>1 DEF OnceInv, ServerOrder, IsEnd
<1>6. toServer \in Seq(Units \cup {Opened})
  BY DEF OnceInv, SendType
<1>7. CASE toServer' = toServer
  <2>1. ServerOrder'
    BY <1>2, <1>5, <1>7 DEF ServerOrder, IsMessage, IsEnd
  <2> QED  BY <1>1, <1>2, <1>3, <1>7, <2>1 DEF OnceInv, SendType, SentOnce, IsMessage
<1>8. CASE toServer' = Append(toServer, Head(line)) /\ (IsMessage(Head(line)) => Head(line).last)
  <2>1. /\ toServer' \in Seq(Units \cup {Opened}) /\ toServer'[Len(toServer) + 1] = line[1]
        /\ Len(toServer) \in Nat /\ Len(toServer') = Len(toServer) + 1
        /\ \A k \in 1 .. Len(toServer) : toServer'[k] = toServer[k]
    BY <1>1, <1>6, <1>8
  <2>2. DOMAIN toServer = 1 .. Len(toServer) /\ DOMAIN toServer' = 1 .. Len(toServer')
    BY <1>6, <2>1
  <2>3. \A k \in DOMAIN toServer' :
          \/ k \in DOMAIN toServer /\ toServer'[k] = toServer[k]
          \/ k = Len(toServer) + 1 /\ toServer'[k] = line[1]
    BY <2>1, <2>2
  <2>4. IsMessage(line[1]) => IsEnd(line[1])
    BY <1>1, <1>8 DEF IsEnd
  <2>5. IsMessage(line[1]) =>
          /\ line[1].n <= requested
          /\ \A j \in DOMAIN line' : IsEnd(line'[j]) => line[1].n < line'[j].n
          /\ Waiting => line[1].n < TransmitBuffer.n
    BY <1>1, <2>4 DEF OnceInv, LineOrder
  <2>6. ServerOrder'
    BY <1>2, <1>5, <2>3, <2>5 DEF ServerOrder, IsMessage, IsEnd
  <2>7. SentOnce'
    <3> SUFFICES ASSUME NEW i \in DOMAIN toServer', NEW j \in DOMAIN toServer', i < j,
                        IsMessage(toServer'[i]), IsMessage(toServer'[j])
                 PROVE  toServer'[i].n < toServer'[j].n
      BY DEF SentOnce, IsMessage
    <3>1. i \in DOMAIN toServer /\ toServer'[i] = toServer[i]
      BY <2>1, <2>2
    <3>2. CASE j \in DOMAIN toServer /\ toServer'[j] = toServer[j]
      BY <3>1, <3>2 DEF OnceInv, SentOnce
    <3>3. CASE toServer'[j] = line[1]
      BY <1>1, <2>4, <3>1, <3>3 DEF OnceInv, ServerOrder
    <3> QED  BY <2>3, <3>2, <3>3
  <2> QED  BY <1>1, <1>2, <1>3, <2>1, <2>6, <2>7 DEF OnceInv, SendType
<1> QED  BY <1>7, <1>8

LEMMA WifiKeepsOrder ==
  ASSUME OnceInv, \/ Receive \/ AnswerPending \/ RefusePending \/ ServerSends \/ ServerCloses,
         UNCHANGED client
  PROVE  OnceInv'
<1>1. UNCHANGED <<TransmitBuffer, requested, EnableFlag>>
  BY DEF client, sending
<1>2. CASE UNCHANGED <<line, toServer>>
  BY <1>1, <1>2 DEF OnceInv, SendType, SentOnce, ServerOrder, LineOrder, IsMessage, IsEnd, Waiting
<1>3. CASE AnswerPending /\ toServer' # toServer
  <2>1. line' = line /\ toServer' = Append(toServer, Opened)
    BY <1>3 DEF AnswerPending
  <2>2. toServer \in Seq(Units \cup {Opened})
    BY DEF OnceInv, SendType
  <2>3. /\ toServer' \in Seq(Units \cup {Opened}) /\ Len(toServer') = Len(toServer) + 1
        /\ \A k \in DOMAIN toServer' : IsMessage(toServer'[k]) =>
              k \in DOMAIN toServer /\ toServer'[k] = toServer[k]
    BY <2>1, <2>2, OpenedType
  <2> QED  BY <1>1, <2>1, <2>3
           DEF OnceInv, SendType, SentOnce, ServerOrder, LineOrder, IsMessage, IsEnd, Waiting
<1>4. CASE Receive
  <2>1. /\ line # <<>> /\ line' = Tail(line)
        /\ ServerGets(Head(line)) \/ toServer' = toServer
    BY <1>4 DEF Receive
  <2>2. \/ toServer' = toServer
        \/ toServer' = Append(toServer, Head(line)) /\ (IsMessage(Head(line)) => Head(line).last)
    BY <2>1 DEF ServerGets, IsMessage
  <2> QED  BY <1>1, <2>1, <2>2, ReceiveKeepsOrder
<1> QED  BY <1>2, <1>3, <1>4 DEF AnswerPending, RefusePending, ServerSends, ServerCloses

LEMMA InitOrder == Init => OnceInv
<1>1. SUFFICES ASSUME Init PROVE OnceInv
  OBVIOUS
<1>2. Command("none") \in Texts /\ ~IsMessage(Command("none"))
  BY CommandType
<1>3. <<>> \in Seq(Units) /\ <<>> \in Seq(Units \cup {Opened}) /\ Len(<<>>) <= TxRoom
  BY RoomType
<1> QED  BY <1>1, <1>2, <1>3 DEF Init, WifiModuleInit, OnceInv, SendType, SentOnce, ServerOrder,
           LineOrder, Waiting

LEMMA StepKeepsOrder == OnceInv /\ [Next]_vars => OnceInv'
<1>1. SUFFICES ASSUME OnceInv, [Next]_vars PROVE OnceInv'
  OBVIOUS
<1>2. CASE Run
  <2>1. UNCHANGED <<line, toServer, TransmitBuffer, requested, EnableFlag>>
    BY <1>2 DEF Run, wifiModule, sending
  <2> QED  BY <1>1, <2>1 DEF OnceInv, SendType, SentOnce, ServerOrder, LineOrder, IsMessage, IsEnd, Waiting
<1>3. CASE Process
  <2>2. CASE CheckIdleStateMessages
    BY <1>1, <2>2, IdleKeepsOrder
  <2>3. CASE ~CheckIdleStateMessages
    <3>1. SendsCommand /\ UNCHANGED <<toServer, sending>>
      BY <1>3, <2>3, SetupEffect DEF Process, Handle
    <3> QED  BY <1>1, <3>1, CommandKeepsOrder DEF sending
  <2> QED  BY <2>2, <2>3
<1>4. CASE RequestSendTcpMessage
  BY <1>1, <1>4, RequestKeepsOrder DEF RequestSendTcpMessage, wifiModule
<1>5. ASSUME NEW s \in {"ConnectWifiNetwork", "ConnectTcpServer"}, RequiredNewState(s)
      PROVE  OnceInv'
  <2>1. UNCHANGED <<line, toServer, TransmitBuffer, requested, EnableFlag>>
    BY <1>5 DEF RequiredNewState, wifiModule, sending
  <2> QED  BY <1>1, <2>1 DEF OnceInv, SendType, SentOnce, ServerOrder, LineOrder, IsMessage, IsEnd, Waiting
<1>6. CASE WifiAnswers \/ WifiActs
  BY <1>1, <1>6, WifiKeepsOrder DEF WifiAnswers, WifiActs
<1>7. CASE UNCHANGED vars
  <2>1. UNCHANGED <<line, toServer, TransmitBuffer, requested, EnableFlag>>
    BY <1>7 DEF vars, client, wifiModule, sending
  <2> QED  BY <1>1, <2>1 DEF OnceInv, SendType, SentOnce, ServerOrder, LineOrder, IsMessage, IsEnd, Waiting
<1> QED  BY <1>1, <1>2, <1>3, <1>4, <1>5, <1>6, <1>7 DEF Next

\* Whatever parts are sent again, the client sends the end of a message at most
\* once and ends in the order of the requests, for all limits, lengths, faults
\* and reconnect commands.
THEOREM SendsOnce == Spec => []SentOnce
<1>1. OnceInv => SentOnce
  BY DEF OnceInv
<1> QED  BY InitOrder, StepKeepsOrder, <1>1, PTL DEF Spec
-----------------------------------------------------------------------------
\* The states that wait for an answer; PrintMyIpAddress lies between two.
Waits == {"ConnectWifiNetworkCheckResponse", "ConnectWifiNetworkCheckFinish", "PrintMyIpAddress",
          "IpAddressResponse", "ConnectTcpServerCheckResponse", "ConnectTcpServerCheckFinish"}

PollInv == state \in Waits => period = 1000

\* The states that step to one that does not wait.
Plains == {"Init", "AfterInit", "ConfigAte0", "ConfigAte0CheckResponse", "ConfigAt",
           "ConfigAtCheckResponse", "ConfigCwMode", "ConfigCwModeCheckResponse", "ConfigCipMux",
           "ConfigCipMuxCheckResponse", "WaitAfterSuccessfulConfig", "ConfigTransparentMode",
           "Config_TransparentModeCheckResponse", "BeforeIdle"}

LEMMA PlainStep == ASSUME state \in Plains, Step(1) PROVE state' \notin Waits
<1>1. PICK k \in 1 .. 24 : Status[k] = state /\ state' = Status[k + 1]
  BY DEF Step, ToState, Status
<1>2. k \in 1 .. 11 \cup {20, 21, 22}
  BY <1>1 DEF Status, Plains
<1> QED  BY <1>1, <1>2 DEF Status, Waits

LEMMA HandleKeepsPeriod == ASSUME PollInv, Handle PROVE PollInv'
<1>1. CASE UNCHANGED <<state, period>>
  BY <1>1 DEF PollInv
<1>2. CASE period' = 1000
  BY <1>2 DEF PollInv
<1>3. CASE state \in Waits /\ period' = period
  BY <1>3 DEF PollInv
<1>4. CASE state \in Plains /\ Step(1)
  BY <1>4, PlainStep DEF PollInv
<1>5. CASE state' \in {"Init", "Idle", "Reconfig", "ConnectTcpServer"}
  BY <1>5 DEF PollInv, Waits
<1>6. CASE ResetHardware \/ AfterInit \/ CheckConfig \/ WaitAfterSuccessfulConfig \/ BeforeIdle
  BY <1>4, <1>5, <1>6 DEF ResetHardware, AfterInit, CheckConfig, WaitAfterSuccessfulConfig, BeforeIdle,
     Plains, ToState
<1>7. CASE SendCommand
  <2>1. \/ state \in Plains /\ Step(1)
        \/ state = "PrintMyIpAddress" /\ period' = period
        \/ period' = 1000
    BY <1>7 DEF SendCommand, CommandOf, Plains
  <2> QED  BY <1>2, <1>3, <1>4, <2>1 DEF Waits
<1>8. CASE \/ WifiCheckResponse \/ WifiCheckFinish \/ IpAddressResponse
           \/ TcpCheckResponse \/ TcpCheckFinish
  BY <1>3, <1>8 DEF WifiCheckResponse, WifiCheckFinish, IpAddressResponse, TcpCheckResponse,
     TcpCheckFinish, Waits
<1>9. CASE CheckIdleStateMessages
  <2>1. state = "Idle"
    BY <1>9 DEF CheckIdleStateMessages
  <2>2. CASE ReceiveInIdle
    <3>1. state' = state \/ state' \in {"ConnectTcpServer", "Reconfig"}
      BY <2>2 DEF ReceiveInIdle, Unlinked, WrongSyntax, ExecuteCommand, KeepPart, ToState
    <3> QED  BY <1>5, <2>1, <3>1
  <2>3. CASE ~ReceiveInIdle
    <3>1. state' = state
      BY <1>9, <2>3 DEF CheckIdleStateMessages, StartSending, WaitForPrompt, SendLogin, SendMessage
    <3> QED  BY <1>5, <2>1, <3>1
  <2> QED  BY <2>2, <2>3
<1>10. CASE Reconfig
  BY <1>5, <1>10 DEF Reconfig, ToState
<1> QED  BY <1>6, <1>7, <1>8, <1>9, <1>10 DEF Handle

LEMMA StepKeepsPeriod == PollInv /\ [Next]_vars => PollInv'
<1>1. SUFFICES ASSUME PollInv, [Next]_vars PROVE PollInv'
  OBVIOUS
<1>2. CASE Process
  BY <1>1, <1>2, HandleKeepsPeriod DEF Process
<1>3. ASSUME NEW s \in {"ConnectWifiNetwork", "ConnectTcpServer"}, RequiredNewState(s)
      PROVE  PollInv'
  BY <1>3 DEF RequiredNewState, ToState, PollInv, Waits
<1>4. CASE Run \/ RequestSendTcpMessage
  BY <1>1, <1>4 DEF Run, RequestSendTcpMessage, PollInv
<1>5. CASE WifiAnswers \/ WifiActs \/ UNCHANGED vars
  BY <1>1, <1>5 DEF WifiAnswers, WifiActs, vars, client, PollInv
<1> QED  BY <1>1, <1>2, <1>3, <1>4, <1>5 DEF Next

\* Wherever the client waits for an answer its task runs once a second, so the
\* limits of its counters are seconds; whatever way it came there.
THEOREM PollsEverySecond == Spec => []EveryPollIsASecond
<1>1. Init => PollInv
  BY DEF Init, PollInv, Waits
<1>2. PollInv => EveryPollIsASecond
  BY DEF PollInv, Waits, EveryPollIsASecond
<1> QED  BY <1>1, <1>2, StepKeepsPeriod, PTL DEF Spec
-----------------------------------------------------------------------------
(* Types.  What the client's own variables need is that the texts of the   *)
(* module are known, that received counts texts that are still in the      *)
(* receive buffer, and that a part of a message ends where the room does.  *)

Answers == {"ready", "OK", "192.168.0.106", "0.0.0.0", "no ip", "ALREADY CONNECT", "Linked", ">",
            "ERROR", "wrong syntax", "busy p...", "Unlink", "FAIL", "line", "part"}
Pendings == {"none", "boot", "linking"} \cup Commands

StateOK == \E k \in DOMAIN Status : state = Status[k]

TextsOK ==
    /\ rx \in Seq(Answers) /\ Len(rx) <= RxTexts
    /\ line \in Seq(Units) /\ Len(line) <= TxRoom

CountersOK ==
    /\ ErrorCnt \in 0 .. 255 /\ recvCounter \in 0 .. RecvLimit /\ period \in {100, 1000, 5000}
    /\ ConnectionStatus \in {"Unknown", "SuccessfulServerStarted"}
    /\ SendIsStarted \in BOOLEAN /\ WaitSendOk \in BOOLEAN /\ LoginIsSent \in BOOLEAN

Buffered(last) ==
    {Command("none"), Command("login")} \cup {Message(n, u) : n \in 1 .. last, u \in 1 .. MaxUnits}

SendingOK ==
    /\ EnableFlag \in BOOLEAN /\ requested \in 0 .. MaxRequests
    /\ TransmitBuffer \in Buffered(requested)

PlaceOK ==
    /\ pc \in {"wait", "process"} /\ received \in 0 .. Len(rx)

ClientInv ==
    /\ StateOK /\ TextsOK /\ CountersOK /\ SendingOK /\ PlaceOK
    /\ pending \in Pendings /\ reconnects \in 0 .. MaxReconnects /\ faults \in 0 .. MaxFaults

LEMMA RecvLimitIsNat == RecvLimit \in Nat
<1>1. RecvLimit \in {WifiLimit, WifiSilence, IpRetry, IpLimit, TcpLimit, LinkLimit, RecvLimit}
  OBVIOUS
<1>2. \A k \in 1 .. 254 : k \in Nat
  OBVIOUS
<1> QED
  BY <1>1, <1>2, LimitsAssumption, Zenon

LEMMA InitClient == Init => ClientInv
<1> SUFFICES ASSUME Init PROVE ClientInv
  OBVIOUS
<1>1. StateOK
  BY DEF Init, StateOK, Status
<1>2. TextsOK /\ PlaceOK
  BY RoomType, WifiModuleAssumption DEF Init, WifiModuleInit, TextsOK, PlaceOK
<1>3. CountersOK
  <2>1. ErrorCnt \in 0 .. 255 /\ recvCounter \in 0 .. RecvLimit /\ period \in {100, 1000, 5000}
    BY RecvLimitIsNat DEF Init
  <2>2. /\ ConnectionStatus \in {"Unknown", "SuccessfulServerStarted"}
        /\ SendIsStarted \in BOOLEAN /\ WaitSendOk \in BOOLEAN /\ LoginIsSent \in BOOLEAN
    BY Zenon DEF Init
  <2> QED
    BY <2>1, <2>2 DEF CountersOK
<1>4. SendingOK
  BY LimitsAssumption DEF Init, SendingOK, Buffered
<1> QED
  BY <1>1, <1>2, <1>3, <1>4, LimitsAssumption, WifiModuleAssumption
     DEF Init, WifiModuleInit, ClientInv, Pendings

\* The receive buffer: an answer comes in or is lost, the first ones are dropped.
LEMMA SayTypes ==
  ASSUME rx \in Seq(Answers), Len(rx) <= RxTexts, NEW t \in Answers, Say(t)
  PROVE  rx' \in Seq(Answers) /\ Len(rx') <= RxTexts /\ Len(rx') >= Len(rx)
<1>1. Append(rx, t) \in Seq(Answers) /\ Len(Append(rx, t)) = Len(rx) + 1 /\ Len(rx) \in Nat
  OBVIOUS
<1>2. RxTexts \in Nat
  BY WifiModuleAssumption
<1>3. CASE Len(rx) < RxTexts
  <2>1. rx' = Append(rx, t)
    BY <1>3 DEF Say
  <2> QED
    BY <1>1, <1>2, <1>3, <2>1
<1>4. CASE ~(Len(rx) < RxTexts)
  <2>1. rx' = rx
    BY <1>4 DEF Say
  <2> QED
    BY <1>1, <1>2, <2>1
<1> QED
  BY <1>3, <1>4

LEMMA DropTypes ==
  ASSUME rx \in Seq(Answers), Len(rx) <= RxTexts, NEW n \in 0 .. Len(rx), DropCharacters(n)
  PROVE  rx' \in Seq(Answers) /\ Len(rx') <= RxTexts
<1>1. Len(rx) \in Nat /\ RxTexts \in Nat /\ n \in Nat /\ n <= Len(rx)
  BY WifiModuleAssumption
<1>2. n + 1 \in 1 .. Len(rx) + 1 /\ Len(rx) \in n + 1 - 1 .. Len(rx)
  BY <1>1
<1>3. rx' = SubSeq(rx, n + 1, Len(rx))
  BY DEF DropCharacters
<1>4. SubSeq(rx, n + 1, Len(rx)) \in Seq(Answers) /\ Len(SubSeq(rx, n + 1, Len(rx))) = Len(rx) - (n + 1) + 1
  BY <1>2, SubSeqProperties
<1> QED
  BY <1>1, <1>3, <1>4

LEMMA ClearTypes ==
  ASSUME ClearReceive PROVE rx' \in Seq(Answers) /\ Len(rx') <= RxTexts
<1>1. <<>> \in Seq(Answers) /\ Len(<<>>) = 0 /\ RxTexts \in Nat
  BY WifiModuleAssumption
<1> QED
  BY <1>1 DEF ClearReceive

LEMMA BufferType == ASSUME SendingOK PROVE TransmitBuffer \in Texts
<1>1. requested \in 0 .. MaxRequests /\ MaxRequests \in Nat /\ MaxUnits \in 1 .. TxRoom /\ TxRoom \in Nat
  BY LimitsAssumption, RoomType DEF SendingOK
<1>2. CASE TransmitBuffer \in {Command("none"), Command("login")}
  BY <1>2, CommandType
<1>3. CASE \E n \in 1 .. requested, u \in 1 .. MaxUnits : TransmitBuffer = Message(n, u)
  <2>1. PICK n \in 1 .. requested, u \in 1 .. MaxUnits : TransmitBuffer = Message(n, u)
    BY <1>3
  <2>2. n \in Nat /\ u \in Nat
    BY <1>1
  <2> QED  BY <2>1, <2>2, MessageType
<1> QED  BY <1>2, <1>3 DEF SendingOK, Buffered

LEMMA SendTypes ==
  ASSUME line \in Seq(Units), Len(line) <= TxRoom, SendingOK,
         SendsCommand \/ Put(TransmitBuffer)
  PROVE  line' \in Seq(Units) /\ Len(line') <= TxRoom
<1>1. CASE line' = line
  BY <1>1
<1>2. CASE \E c \in Commands : SendString(c)
  <2>1. PICK c \in Commands : Put(Command(c))
    BY <1>2 DEF SendString
  <2> QED
    BY <2>1, CommandType, PutAdds
<1>3. CASE Put(TransmitBuffer)
  BY <1>3, BufferType, PutAdds
<1> QED
  BY <1>1, <1>2, <1>3 DEF SendsCommand

\* The states are stepped within their list: forward not from the last two, back
\* not from the first.
LEMMA StepTypes ==
  ASSUME \/ Step(1) /\ state # "Reconfig"
         \/ Step(2) /\ state \notin {"Idle", "Reconfig"}
         \/ Step(-1) /\ state # "Init"
  PROVE  StateOK'
<1>1. DOMAIN Status = 1 .. 24 /\ Status[1] = "Init" /\ Status[23] = "Idle" /\ Status[24] = "Reconfig"
  BY DEF Status
<1>2. CASE Step(1) /\ state # "Reconfig"
  <2>1. PICK k \in 1 .. 24 : Status[k] = state /\ state' = Status[k + 1]
    BY <1>1, <1>2 DEF Step, ToState
  <2>2. k + 1 \in 1 .. 24
    BY <1>1, <1>2, <2>1
  <2> QED
    BY <1>1, <2>1, <2>2 DEF StateOK, Status
<1>3. CASE Step(2) /\ state \notin {"Idle", "Reconfig"}
  <2>1. PICK k \in 1 .. 24 : Status[k] = state /\ state' = Status[k + 2]
    BY <1>1, <1>3 DEF Step, ToState
  <2>2. k + 2 \in 1 .. 24
    BY <1>1, <1>3, <2>1
  <2> QED
    BY <1>1, <2>1, <2>2 DEF StateOK, Status
<1>4. CASE Step(-1) /\ state # "Init"
  <2>1. PICK k \in 1 .. 24 : Status[k] = state /\ state' = Status[k + (-1)]
    BY <1>1, <1>4 DEF Step, ToState
  <2>2. k + (-1) \in 1 .. 24
    BY <1>1, <1>4, <2>1
  <2> QED
    BY <1>1, <2>1, <2>2 DEF StateOK, Status
<1> QED
  BY <1>2, <1>3, <1>4

LEMMA ToStateTypes ==
  ASSUME \/ state' \in {"Init", "ConnectWifiNetwork", "PrintMyIpAddress", "ConnectTcpServer", "Reconfig"}
         \/ StateOK /\ state' = state
  PROVE  StateOK'
<1>1. CASE state' \in {"Init", "ConnectWifiNetwork", "PrintMyIpAddress", "ConnectTcpServer", "Reconfig"}
  <2>1. DOMAIN Status = 1 .. 24
    BY DEF Status
  <2>2. /\ Status[1] = "Init" /\ Status[12] = "ConnectWifiNetwork" /\ Status[15] = "PrintMyIpAddress"
        /\ Status[17] = "ConnectTcpServer" /\ Status[24] = "Reconfig"
    BY DEF Status
  <2>3. \E k \in 1 .. 24 : state' = Status[k]
    BY <1>1, <2>2
  <2> QED
    BY <2>1, <2>3 DEF StateOK, Status
<1>2. CASE StateOK /\ state' = state
  BY <1>2 DEF StateOK, Status
<1> QED
  BY <1>1, <1>2

LEMMA HandleStates == ASSUME StateOK, Handle PROVE StateOK'
<1>1. CASE \/ ResetHardware \/ AfterInit \/ SendCommand \/ CheckConfig \/ WaitAfterSuccessfulConfig
           \/ BeforeIdle \/ Reconfig
  <2>1. \/ Step(1) /\ state # "Reconfig"
        \/ state' = "Init"
    BY <1>1 DEF ResetHardware, AfterInit, SendCommand, CommandOf, CheckConfig, WaitAfterSuccessfulConfig,
       BeforeIdle, Reconfig, ToState
  <2> QED
    BY <2>1, StepTypes, ToStateTypes
<1>2. CASE WifiCheckResponse \/ WifiCheckFinish \/ IpAddressResponse
  <2>1. \/ Step(1) /\ state # "Reconfig"
        \/ Step(2) /\ state \notin {"Idle", "Reconfig"}
        \/ state' \in {"ConnectWifiNetwork", "PrintMyIpAddress"} \/ state' = state
    BY <1>2 DEF WifiCheckResponse, WifiCheckFinish, IpAddressResponse, PollAgain, Restart, ToState
  <2> QED
    BY <2>1, StepTypes, ToStateTypes
<1>3. CASE TcpCheckResponse \/ TcpCheckFinish
  <2>1. \/ Step(1) /\ state # "Reconfig"
        \/ Step(2) /\ state \notin {"Idle", "Reconfig"}
        \/ Step(-1) /\ state # "Init"
        \/ state' \in {"ConnectWifiNetwork", "ConnectTcpServer"} \/ state' = state
    BY <1>3 DEF TcpCheckResponse, TcpCheckFinish, PollAgain, Restart, ToState
  <2> QED
    BY <2>1, StepTypes, ToStateTypes
<1>4. CASE CheckIdleStateMessages
  <2>1. state' = state \/ state' \in {"ConnectTcpServer", "Reconfig"}
    BY <1>4 DEF CheckIdleStateMessages, StartSending, WaitForPrompt, SendLogin, ReceiveInIdle, Unlinked,
       WrongSyntax, ExecuteCommand, KeepPart, SendMessage, ToState
  <2> QED
    BY <2>1, ToStateTypes
<1> QED
  BY <1>1, <1>2, <1>3, <1>4 DEF Handle

\* A state of the setup clears the receive buffer, drops one answer that is there,
\* or leaves the buffer alone.
LEMMA FirstIsThere ==
  ASSUME ClientInv, NEW S, First(S) PROVE 1 \in 0 .. Len(rx)
  BY DEF ClientInv, TextsOK, PlaceOK, First

LEMMA HandleReceived ==
  ASSUME ClientInv, Handle
  PROVE  ClearReceive \/ rx' = rx \/ \E n \in 0 .. Len(rx) : DropCharacters(n)
<1>1. CASE \/ ResetHardware \/ AfterInit \/ SendCommand \/ CheckConfig \/ WaitAfterSuccessfulConfig
           \/ BeforeIdle \/ Reconfig
  BY <1>1 DEF ResetHardware, AfterInit, SendCommand, CheckConfig, WaitAfterSuccessfulConfig,
     BeforeIdle, Reconfig
<1>2. CASE WifiCheckResponse \/ WifiCheckFinish \/ IpAddressResponse
  <2>1. \/ ClearReceive \/ rx' = rx
        \/ DropCharacters(1) /\ (First({"OK"}) \/ First({"busy p..."}))
    BY <1>2 DEF WifiCheckResponse, WifiCheckFinish, IpAddressResponse, PollAgain, Restart
  <2> QED
    BY <2>1, FirstIsThere
<1>3. CASE TcpCheckResponse \/ TcpCheckFinish
  <2>1. ClearReceive \/ rx' = rx \/ (DropCharacters(1) /\ First({"OK"}))
    BY <1>3 DEF TcpCheckResponse, TcpCheckFinish, PollAgain
  <2> QED
    BY <2>1, FirstIsThere
<1>4. CASE CheckIdleStateMessages
  <2>1. \/ ClearReceive \/ rx' = rx \/ DropCharacters(received)
        \/ DropCharacters(1) /\ First({"Unlink"})
    BY <1>4 DEF CheckIdleStateMessages, StartSending, WaitForPrompt, SendLogin, ReceiveInIdle, Unlinked,
       WrongSyntax, ExecuteCommand, KeepPart, SendMessage
  <2>2. received \in 0 .. Len(rx)
    BY DEF ClientInv, PlaceOK
  <2> QED
    BY <2>1, <2>2, FirstIsThere
<1> QED
  BY <1>1, <1>2, <1>3, <1>4 DEF Handle

LEMMA HandleTexts == ASSUME ClientInv, Handle PROVE TextsOK'
<1>1. rx \in Seq(Answers) /\ Len(rx) <= RxTexts /\ line \in Seq(Units) /\ Len(line) <= TxRoom
  BY DEF ClientInv, TextsOK
<1>2. rx' \in Seq(Answers) /\ Len(rx') <= RxTexts
  BY <1>1, HandleReceived, ClearTypes, DropTypes
<1>3. SendsCommand \/ Put(TransmitBuffer)
  <2>1. CASE StartSending
    BY <2>1 DEF StartSending, SendsCommand, Commands
  <2>2. CASE WaitForPrompt \/ SendLogin \/ ReceiveInIdle
    BY <2>2 DEF WaitForPrompt, SendLogin, ReceiveInIdle, SendsCommand
  <2>3. CASE SendMessage
    BY <2>3 DEF SendMessage, SendsCommand
  <2>4. CASE ~CheckIdleStateMessages
    BY <2>4, SetupEffect DEF Handle
  <2> QED
    BY <2>1, <2>2, <2>3, <2>4 DEF CheckIdleStateMessages
<1>4. line' \in Seq(Units) /\ Len(line') <= TxRoom
  BY <1>1, <1>3, SendTypes DEF ClientInv
<1> QED
  BY <1>2, <1>4 DEF TextsOK

LEMMA PlainKeeps == Plain => UNCHANGED <<recvCounter, ConnectionStatus, flags>>
  BY DEF Plain

LEMMA SetupCounts ==
  ASSUME \/ ResetHardware \/ AfterInit \/ SendCommand \/ CheckConfig \/ WaitAfterSuccessfulConfig
         \/ WifiCheckResponse \/ WifiCheckFinish \/ IpAddressResponse
         \/ TcpCheckResponse \/ TcpCheckFinish \/ BeforeIdle \/ Reconfig
  PROVE  /\ recvCounter' = recvCounter
         /\ period' = period \/ period' \in {100, 1000, 5000}
         /\ BeforeIdle \/ UNCHANGED flags
         /\ ConnectionStatus' = ConnectionStatus \/ ConnectionStatus' \in {"Unknown", "SuccessfulServerStarted"}
<1>1. CASE ResetHardware
  BY <1>1 DEF ResetHardware, counters
<1>2. CASE BeforeIdle
  BY <1>2 DEF BeforeIdle, counters
<1>3. CASE AfterInit \/ CheckConfig \/ WaitAfterSuccessfulConfig \/ Reconfig
  BY <1>3, PlainKeeps DEF AfterInit, CheckConfig, WaitAfterSuccessfulConfig, Reconfig
<1>4. CASE SendCommand
  BY <1>4, PlainKeeps DEF SendCommand
<1>5. CASE WifiCheckResponse
  BY <1>5, PlainKeeps DEF WifiCheckResponse
<1>6. CASE WifiCheckFinish
  BY <1>6, PlainKeeps DEF WifiCheckFinish
<1>7. CASE IpAddressResponse
  BY <1>7, PlainKeeps DEF IpAddressResponse
<1>8. CASE TcpCheckResponse
  BY <1>8, PlainKeeps DEF TcpCheckResponse
<1>9. CASE TcpCheckFinish
  BY <1>9, PlainKeeps DEF TcpCheckFinish
<1> QED
  BY <1>1, <1>2, <1>3, <1>4, <1>5, <1>6, <1>7, <1>8, <1>9

LEMMA HandleCounters == ASSUME CountersOK, Handle PROVE CountersOK'
<1>1. ErrorCnt' \in 0 .. 255
  <2>1. ErrorCnt \in 0 .. 255 /\ ErrorCntNext \in 0 .. 255 /\ 0 \in 0 .. 255
    BY DEF CountersOK, ErrorCntNext
  <2>2. ErrorCnt' = ErrorCnt \/ ErrorCnt' = ErrorCntNext \/ ErrorCnt' = 0
    <3>1. CASE \/ ResetHardware \/ AfterInit \/ SendCommand \/ CheckConfig \/ WaitAfterSuccessfulConfig
               \/ BeforeIdle \/ Reconfig \/ CheckIdleStateMessages
      BY <3>1 DEF ResetHardware, AfterInit, SendCommand, CheckConfig, WaitAfterSuccessfulConfig,
         BeforeIdle, Reconfig, CheckIdleStateMessages, counters
    <3>2. CASE WifiCheckResponse \/ WifiCheckFinish
      BY <3>2 DEF WifiCheckResponse, WifiCheckFinish, PollAgain, Restart
    <3>3. CASE IpAddressResponse
      BY <3>3 DEF IpAddressResponse, PollAgain, Restart
    <3>4. CASE TcpCheckResponse
      BY <3>4 DEF TcpCheckResponse, PollAgain
    <3>5. CASE TcpCheckFinish
      BY <3>5 DEF TcpCheckFinish, PollAgain
    <3> QED
      BY <3>1, <3>2, <3>3, <3>4, <3>5 DEF Handle
  <2> QED
    BY <2>1, <2>2
<1>2. recvCounter' \in 0 .. RecvLimit
  <2>1. recvCounter \in 0 .. RecvLimit /\ RecvLimit \in Nat
    BY RecvLimitIsNat DEF CountersOK
  <2>2. CASE recvCounter' = recvCounter \/ recvCounter' = 0
    BY <2>1, <2>2
  <2>3. CASE KeepPart
    <3>1. CASE recvCounter + 1 > RecvLimit
      BY <2>1, <2>3, <3>1 DEF KeepPart
    <3>2. CASE ~(recvCounter + 1 > RecvLimit)
      <4>1. recvCounter' = recvCounter + 1
        BY <2>3, <3>2 DEF KeepPart
      <4> QED
        BY <2>1, <3>2, <4>1
    <3> QED
      BY <3>1, <3>2
  <2>4. CASE CheckIdleStateMessages /\ ~KeepPart
    BY <2>2, <2>4 DEF CheckIdleStateMessages, StartSending, WaitForPrompt, SendLogin,
       ReceiveInIdle, Unlinked, WrongSyntax, ExecuteCommand, SendMessage
  <2>5. CASE ~CheckIdleStateMessages
    BY <2>2, <2>5, SetupCounts DEF Handle
  <2> QED
    BY <2>3, <2>4, <2>5
<1>3. period' \in {100, 1000, 5000} /\ ConnectionStatus' \in {"Unknown", "SuccessfulServerStarted"}
  <2>1. period \in {100, 1000, 5000} /\ ConnectionStatus \in {"Unknown", "SuccessfulServerStarted"}
    BY DEF CountersOK
  <2>2. CASE CheckIdleStateMessages
    <3>1. ConnectionStatus' = ConnectionStatus
      BY <2>2 DEF CheckIdleStateMessages
    <3>2. period' = period \/ period' = 100
      BY <2>2 DEF CheckIdleStateMessages, StartSending, WaitForPrompt, SendLogin, ReceiveInIdle, SendMessage
    <3> QED
      BY <2>1, <3>1, <3>2
  <2>3. CASE ~CheckIdleStateMessages
    BY <2>1, <2>3, SetupCounts DEF Handle
  <2> QED
    BY <2>2, <2>3
<1>4. SendIsStarted' \in BOOLEAN /\ WaitSendOk' \in BOOLEAN /\ LoginIsSent' \in BOOLEAN
  <2>1. SendIsStarted \in BOOLEAN /\ WaitSendOk \in BOOLEAN /\ LoginIsSent \in BOOLEAN
    BY DEF CountersOK
  <2>2. CASE UNCHANGED flags
    BY <2>1, <2>2 DEF flags
  <2>3. CASE BeforeIdle
    BY <2>1, <2>3, Zenon DEF BeforeIdle
  <2>4. CASE StartSending
    BY <2>1, <2>4, Zenon DEF StartSending
  <2>5. CASE WaitForPrompt
    BY <2>1, <2>5, Zenon DEF WaitForPrompt
  <2>6. CASE SendLogin
    BY <2>1, <2>6, Zenon DEF SendLogin
  <2>7. CASE ReceiveInIdle
    BY <2>1, <2>7, Zenon DEF ReceiveInIdle, Unlinked, WrongSyntax, ExecuteCommand, KeepPart
  <2>8. CASE SendMessage
    BY <2>2, <2>8 DEF SendMessage
  <2>9. CASE \/ ResetHardware \/ AfterInit \/ SendCommand \/ CheckConfig \/ WaitAfterSuccessfulConfig
             \/ WifiCheckResponse \/ WifiCheckFinish \/ IpAddressResponse \/ TcpCheckResponse \/ TcpCheckFinish
             \/ Reconfig
    BY <2>2, <2>3, <2>9, SetupCounts
  <2> QED
    BY <2>3, <2>4, <2>5, <2>6, <2>7, <2>8, <2>9 DEF Handle, CheckIdleStateMessages
<1> QED
  BY <1>1, <1>2, <1>3, <1>4 DEF CountersOK

\* A message or the login is taken when the buffer is free.
LEMMA RequestTypes ==
  ASSUME SendingOK, \/ RequestMessage
                    \/ Request(Command("login")) /\ requested' = requested
  PROVE  SendingOK'
<1>1. /\ EnableFlag \in BOOLEAN /\ requested \in 0 .. MaxRequests /\ MaxRequests \in Nat
      /\ TransmitBuffer \in Buffered(requested)
  BY LimitsAssumption DEF SendingOK
<1>2. EnableFlag' = FALSE
  BY DEF RequestMessage, Request
<1>3. CASE ~EnableFlag
  <2>1. TransmitBuffer' = TransmitBuffer /\ requested' = requested
    BY <1>3 DEF RequestMessage, Request
  <2> QED
    BY <1>1, <1>2, <1>3, <2>1 DEF SendingOK
<1>4. CASE EnableFlag /\ RequestMessage
  <2>1. PICK u \in 1 .. MaxUnits :
          /\ TransmitBuffer' = Message(requested + 1, u)
          /\ requested' = requested + 1 /\ requested < MaxRequests
    BY <1>4 DEF RequestMessage, Request
  <2>2. requested + 1 \in 0 .. MaxRequests /\ requested + 1 \in 1 .. requested + 1
    BY <1>1, <2>1
  <2>3. TransmitBuffer' \in Buffered(requested')
    BY <2>1, <2>2 DEF Buffered
  <2> QED
    BY <1>2, <2>1, <2>2, <2>3 DEF SendingOK
<1>5. CASE EnableFlag /\ Request(Command("login")) /\ requested' = requested
  <2>1. TransmitBuffer' = Command("login")
    BY <1>5 DEF Request
  <2>2. TransmitBuffer' \in Buffered(requested')
    BY <2>1 DEF Buffered
  <2> QED
    BY <1>1, <1>2, <1>5, <2>2 DEF SendingOK
<1> QED
  BY <1>3, <1>4, <1>5

LEMMA HandleSending == ASSUME SendingOK, Handle PROVE SendingOK'
<1>1. CASE UNCHANGED sending
  BY <1>1 DEF sending, SendingOK
<1>2. CASE EnableFlag' = TRUE /\ UNCHANGED <<TransmitBuffer, requested>>
  BY <1>2 DEF SendingOK
<1>3. CASE RequestMessage \/ (Request(Command("login")) /\ requested' = requested)
  BY <1>3, RequestTypes
<1>4. CASE CheckIdleStateMessages
  <2>1. CASE StartSending
    BY <1>2, <2>1 DEF StartSending
  <2>2. CASE WaitForPrompt
    BY <1>1, <2>2 DEF WaitForPrompt
  <2>3. CASE SendLogin
    BY <1>3, <2>3 DEF SendLogin
  <2>4. CASE ReceiveInIdle
    BY <1>1, <1>3, <2>4 DEF ReceiveInIdle, Unlinked, WrongSyntax, ExecuteCommand, KeepPart
  <2>5. CASE SendMessage
    <3>1. /\ EnableFlag' = EnableFlag \/ EnableFlag' = Fits(TransmitBuffer)
          /\ UNCHANGED <<TransmitBuffer, requested>>
      BY <2>5 DEF SendMessage
    <3>2. Fits(TransmitBuffer) \in BOOLEAN
      BY DEF Fits
    <3> QED
      BY <3>1, <3>2 DEF SendingOK
  <2> QED
    BY <1>4, <2>1, <2>2, <2>3, <2>4, <2>5 DEF CheckIdleStateMessages
<1>5. CASE ~CheckIdleStateMessages
  BY <1>1, <1>5, SetupEffect DEF Handle
<1> QED
  BY <1>4, <1>5

LEMMA HandleModule == ASSUME Handle PROVE pending' = pending \/ pending' = "boot"
<1>1. Plain => pending' = pending
  BY DEF Plain, wifiModule
<1>2. CASE ResetHardware
  BY <1>2 DEF ResetHardware, Reset
<1>3. CASE AfterInit \/ SendCommand \/ CheckConfig \/ WaitAfterSuccessfulConfig \/ Reconfig
  BY <1>1, <1>3 DEF AfterInit, SendCommand, CheckConfig, WaitAfterSuccessfulConfig, Reconfig
<1>4. CASE WifiCheckResponse \/ WifiCheckFinish
  BY <1>1, <1>4 DEF WifiCheckResponse, WifiCheckFinish
<1>5. CASE IpAddressResponse
  BY <1>1, <1>5 DEF IpAddressResponse
<1>6. CASE TcpCheckResponse
  BY <1>1, <1>6 DEF TcpCheckResponse
<1>7. CASE TcpCheckFinish
  BY <1>1, <1>7 DEF TcpCheckFinish
<1>8. CASE BeforeIdle \/ CheckIdleStateMessages
  BY <1>8 DEF BeforeIdle, CheckIdleStateMessages, wifiModule
<1> QED
  BY <1>2, <1>3, <1>4, <1>5, <1>6, <1>7, <1>8 DEF Handle

LEMMA ProcessTypes == ASSUME ClientInv, Process PROVE ClientInv'
<1>1. /\ StateOK /\ TextsOK /\ CountersOK /\ SendingOK /\ pending \in Pendings
      /\ reconnects \in 0 .. MaxReconnects /\ faults \in 0 .. MaxFaults
  BY DEF ClientInv
<1>2. /\ pc = "process" /\ Handle /\ pc' = "wait" /\ received' = 0
      /\ UNCHANGED <<faults, reconnects>>
  BY DEF Process
<1>3. StateOK' /\ TextsOK' /\ CountersOK' /\ SendingOK'
  BY <1>1, <1>2, HandleStates, HandleTexts, HandleCounters, HandleSending
<1>4. PlaceOK'
  <2>1. Len(rx') \in Nat
    BY <1>3 DEF TextsOK
  <2>2. received' \in 0 .. Len(rx')
    BY <1>2, <2>1
  <2> QED
    BY <1>2, <2>2 DEF PlaceOK
<1>5. pending' \in Pendings
  <2>1. "boot" \in Pendings
    BY DEF Pendings
  <2> QED
    BY <1>1, <1>2, <2>1, HandleModule
<1> QED
  BY <1>1, <1>2, <1>3, <1>4, <1>5 DEF ClientInv

LEMMA FaultTypes == ASSUME faults \in 0 .. MaxFaults, Fault PROVE faults' \in 0 .. MaxFaults
<1>1. MaxFaults \in Nat
  BY WifiModuleAssumption
<1> QED
  BY <1>1 DEF Fault

\* The module answers only what the client knows.
LEMMA AnswerTypes == ASSUME pending \in Pendings, pending # "none" PROVE Answer \in Answers
  BY DEF Pendings, Commands, Answer, Answers

LEMMA ModuleTypes ==
  ASSUME ClientInv, WifiAnswers \/ WifiActs
  PROVE  ClientInv'
<1>1. /\ rx \in Seq(Answers) /\ Len(rx) <= RxTexts /\ line \in Seq(Units) /\ Len(line) <= TxRoom
      /\ pending \in Pendings /\ faults \in 0 .. MaxFaults
  BY DEF ClientInv, TextsOK
<1>2. UNCHANGED client
  BY DEF WifiAnswers, WifiActs
<1>3. /\ UNCHANGED <<state, pc, received, ErrorCnt, recvCounter, period, ConnectionStatus, EnableFlag>>
      /\ UNCHANGED <<TransmitBuffer, requested, SendIsStarted, WaitSendOk, LoginIsSent, reconnects>>
  BY <1>2 DEF client, counters, sending, flags
<1>4. /\ rx' \in Seq(Answers) /\ Len(rx') <= RxTexts /\ Len(rx') >= Len(rx)
      /\ pending' \in Pendings /\ faults' \in 0 .. MaxFaults
      /\ line' = line \/ (line # <<>> /\ line' = Tail(line))
  <2>1. Len(rx) \in Nat /\ "none" \in Pendings /\ "linking" \in Pendings /\ Len(rx) >= Len(rx)
    BY <1>1 DEF Pendings
  <2>2. CASE Receive
    <3>1. line # <<>> /\ line' = Tail(line) /\ faults' = faults
      BY <2>2 DEF Receive
    <3>2. Head(line) \in Units
      BY <1>1, <3>1
    <3>3. CASE UNCHANGED <<rx, pending>>
      BY <1>1, <2>1, <3>1, <3>3
    <3>4. CASE EndLine(Head(line))
      <4>1. CASE \E t \in {"busy p...", "wrong syntax"} : Say(t) /\ pending' = pending
        <5>1. \A t \in {"busy p...", "wrong syntax"} : t \in Answers
          BY DEF Answers
        <5> QED
          BY <1>1, <3>1, <4>1, <5>1, SayTypes
      <4>2. CASE ~IsMessage(Head(line)) /\ pending' = Head(line).text /\ rx' = rx
        <5>1. Head(line).text \in Words /\ Head(line).text # "message" /\ Head(line).text # "login"
          BY <3>2, <3>4, <4>2 DEF Units, IsMessage, EndLine
        <5>2. pending' \in Pendings
          BY <4>2, <5>1 DEF Words, Pendings
        <5> QED
          BY <1>1, <2>1, <3>1, <4>2, <5>2
      <4> QED
        BY <3>4, <4>1, <4>2 DEF EndLine
    <3> QED
      BY <2>2, <3>3, <3>4 DEF Receive, BeginLine
  <2>3. CASE AnswerPending
    <3>1. /\ pending # "none" /\ Say(Answer) /\ line' = line /\ faults' = faults
          /\ pending' = "linking" \/ pending' = "none"
      BY <2>3 DEF AnswerPending
    <3>2. rx' \in Seq(Answers) /\ Len(rx') <= RxTexts /\ Len(rx') >= Len(rx)
      BY <1>1, <3>1, AnswerTypes, SayTypes
    <3> QED
      BY <1>1, <2>1, <3>1, <3>2
  <2>4. CASE RefusePending
    <3>1. /\ Fault /\ line' = line /\ pending' = "none"
          /\ \E t \in {"Unlink", "FAIL"} : Say(t)
      BY <2>4 DEF RefusePending
    <3>2. \A t \in {"Unlink", "FAIL"} : t \in Answers
      BY DEF Answers
    <3>3. rx' \in Seq(Answers) /\ Len(rx') <= RxTexts /\ Len(rx') >= Len(rx)
      BY <1>1, <3>1, <3>2, SayTypes
    <3> QED
      BY <1>1, <2>1, <3>1, <3>3, FaultTypes
  <2>5. CASE ServerSends
    <3>1. /\ line' = line /\ pending' = pending /\ faults' = faults /\ (Say("line") \/ Say("part"))
      BY <2>5 DEF ServerSends
    <3>2. "line" \in Answers /\ "part" \in Answers
      BY DEF Answers
    <3>3. rx' \in Seq(Answers) /\ Len(rx') <= RxTexts /\ Len(rx') >= Len(rx)
      BY <1>1, <3>1, <3>2, SayTypes
    <3> QED
      BY <1>1, <3>1, <3>3
  <2>6. CASE ServerCloses
    <3>1. Fault /\ line' = line /\ pending' = pending /\ Say("Unlink")
      BY <2>6 DEF ServerCloses
    <3>2. "Unlink" \in Answers
      BY DEF Answers
    <3>3. rx' \in Seq(Answers) /\ Len(rx') <= RxTexts /\ Len(rx') >= Len(rx)
      BY <1>1, <3>1, <3>2, SayTypes
    <3> QED
      BY <1>1, <3>1, <3>3, FaultTypes
  <2> QED
    BY <2>2, <2>3, <2>4, <2>5, <2>6 DEF WifiAnswers, WifiActs
<1>5. line' \in Seq(Units) /\ Len(line') <= TxRoom
  <2>1. CASE line' = line
    BY <1>1, <2>1
  <2>2. CASE line # <<>> /\ line' = Tail(line)
    <3>1. Len(Tail(line)) = Len(line) - 1 /\ Tail(line) \in Seq(Units) /\ Len(line) \in Nat
      BY <1>1, <2>2
    <3>2. Len(line) - 1 <= TxRoom
      BY <1>1, <3>1, RoomType
    <3> QED
      BY <2>2, <3>1, <3>2
  <2> QED
    BY <1>4, <2>1, <2>2
<1>6. PlaceOK'
  <2>1. received \in 0 .. Len(rx) /\ Len(rx) \in Nat /\ Len(rx') \in Nat
    BY <1>1, <1>4 DEF ClientInv, PlaceOK
  <2>2. received \in 0 .. Len(rx')
    BY <1>4, <2>1
  <2> QED
    BY <1>3, <2>2 DEF ClientInv, PlaceOK
<1>7. StateOK' /\ CountersOK' /\ SendingOK'
  BY <1>3 DEF ClientInv, StateOK, Status, CountersOK, SendingOK
<1>8. reconnects' \in 0 .. MaxReconnects
  BY <1>3 DEF ClientInv
<1> QED
  BY <1>4, <1>5, <1>6, <1>7, <1>8 DEF ClientInv, TextsOK

\* Steps that leave a part of the variables alone.
LEMMA SameTexts == ASSUME TextsOK, UNCHANGED <<line, rx>> PROVE TextsOK'
  BY DEF TextsOK

LEMMA SameCounters ==
  ASSUME CountersOK, UNCHANGED <<ErrorCnt, recvCounter, period, ConnectionStatus>>, UNCHANGED flags
  PROVE  CountersOK'
<1>1. UNCHANGED <<SendIsStarted, WaitSendOk, LoginIsSent>>
  BY DEF flags
<1> QED
  BY <1>1 DEF CountersOK

LEMMA SameSending == ASSUME SendingOK, UNCHANGED sending PROVE SendingOK'
<1>1. UNCHANGED <<EnableFlag, TransmitBuffer, requested>>
  BY DEF sending
<1> QED
  BY <1>1, Zenon DEF SendingOK

LEMMA SamePlaceOK == ASSUME PlaceOK, UNCHANGED <<pc, received, rx>> PROVE PlaceOK'
  BY DEF PlaceOK

LEMMA NextClient == ClientInv /\ [Next]_vars => ClientInv'
<1> SUFFICES ASSUME ClientInv, [Next]_vars PROVE ClientInv'
  OBVIOUS
<1>1. /\ StateOK /\ TextsOK /\ CountersOK /\ SendingOK /\ PlaceOK /\ pending \in Pendings
      /\ reconnects \in 0 .. MaxReconnects /\ faults \in 0 .. MaxFaults
  BY DEF ClientInv
<1>2. CASE Run
  <2>1. /\ pc' = "process" /\ received' = Len(rx)
        /\ UNCHANGED <<line, rx, state, ErrorCnt, recvCounter, period, ConnectionStatus>>
        /\ UNCHANGED sending /\ UNCHANGED flags /\ pending' = pending /\ reconnects' = reconnects
    BY <1>2 DEF Run, wifiModule, counters
  <2>2. StateOK' /\ TextsOK' /\ CountersOK' /\ SendingOK'
    BY <1>1, <2>1, ToStateTypes, SameTexts, SameCounters, SameSending
  <2>3. Len(rx) \in Nat
    BY <1>1 DEF TextsOK
  <2>4. Len(rx) \in 0 .. Len(rx)
    BY <2>3
  <2>5. PlaceOK'
    BY <2>1, <2>4 DEF PlaceOK
  <2>6. faults' \in 0 .. MaxFaults
    BY <1>1, <1>2, FaultTypes DEF Run
  <2> QED
    BY <1>1, <2>1, <2>2, <2>5, <2>6 DEF ClientInv
<1>3. CASE RequestSendTcpMessage
  <2>1. SendingOK'
    BY <1>1, <1>3, RequestTypes DEF RequestSendTcpMessage
  <2>2. /\ UNCHANGED <<line, rx, state, ErrorCnt, recvCounter, period, ConnectionStatus>>
        /\ UNCHANGED flags /\ UNCHANGED <<pc, received, pending, reconnects, faults>>
    BY <1>3 DEF RequestSendTcpMessage, wifiModule, counters
  <2>3. StateOK' /\ TextsOK' /\ CountersOK' /\ PlaceOK'
    BY <1>1, <2>2, ToStateTypes, SameTexts, SameCounters, SamePlaceOK
  <2> QED
    BY <1>1, <2>1, <2>2, <2>3 DEF ClientInv
<1>4. ASSUME NEW s \in {"ConnectWifiNetwork", "ConnectTcpServer"}, RequiredNewState(s)
      PROVE  ClientInv'
  <2>1. StateOK'
    BY <1>4, ToStateTypes DEF RequiredNewState, ToState
  <2>2. /\ UNCHANGED <<line, rx, ErrorCnt, recvCounter, period, ConnectionStatus>>
        /\ UNCHANGED sending /\ UNCHANGED flags /\ UNCHANGED <<pc, received, pending, faults>>
    BY <1>4 DEF RequiredNewState, wifiModule, counters
  <2>3. TextsOK' /\ CountersOK' /\ SendingOK' /\ PlaceOK'
    BY <1>1, <2>2, SameTexts, SameCounters, SameSending, SamePlaceOK
  <2>4. reconnects' \in 0 .. MaxReconnects
    BY <1>1, <1>4, LimitsAssumption DEF RequiredNewState
  <2> QED
    BY <1>1, <2>1, <2>2, <2>3, <2>4 DEF ClientInv
<1>5. CASE UNCHANGED vars
  <2>1. /\ UNCHANGED <<line, rx, state, ErrorCnt, recvCounter, period, ConnectionStatus>>
        /\ UNCHANGED sending /\ UNCHANGED flags /\ UNCHANGED <<pc, received, pending, reconnects, faults>>
    BY <1>5 DEF vars, client, wifiModule, counters
  <2>2. StateOK' /\ TextsOK' /\ CountersOK' /\ SendingOK' /\ PlaceOK'
    BY <1>1, <2>1, ToStateTypes, SameTexts, SameCounters, SameSending, SamePlaceOK
  <2> QED
    BY <1>1, <2>1, <2>2 DEF ClientInv
<1> QED
  BY <1>2, <1>3, <1>4, <1>5, ProcessTypes, ModuleTypes DEF Next

\* The client steps through its states within their list, the count of copied
\* texts stays within the receive buffer, the counter of polls of a part within
\* its limit, what is on the line within its room however often a message is put
\* in part, and the transmit buffer holds a message that was accepted.
THEOREM ClientTypeCorrect == Spec => []TypeOK
<1>1. ClientInv => TypeOK
  <2> SUFFICES ASSUME ClientInv PROVE TypeOK
    OBVIOUS
  <2>1. \A b \in {EnableFlag, SendIsStarted, WaitSendOk, LoginIsSent} : b \in BOOLEAN
    BY DEF ClientInv, CountersOK, SendingOK
  <2>2. Len(line) <= TxRoom /\ Len(rx) <= RxTexts
    BY DEF ClientInv, TextsOK
  <2> QED
    BY <2>1, <2>2 DEF ClientInv, StateOK, CountersOK, SendingOK, Buffered, PlaceOK, TypeOK
<1> QED
  BY <1>1, InitClient, NextClient, PTL DEF Spec
=============================================================================
