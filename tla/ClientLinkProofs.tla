--------------------------- MODULE ClientLinkProofs ---------------------------
(***************************************************************************)
(* A piece of text that the board sends answers at most one request, for   *)
(* every set of requests, number of adapters and of pieces.                *)
(*                                                                         *)
(* What makes it inductive is where else a piece may be: on its way in the *)
(* port, once; in the buffers of the adapters that heard it; or in an      *)
(* answer, and then no longer in the buffer of that answer's adapter nor   *)
(* on its way.                                                             *)
(***************************************************************************)
EXTENDS ClientLink, SequenceTheorems, TLAPS

Text == SUBSET (1..Pieces)
BleAdapter == [pending : Requests \cup {None}, timers : Seq(Requests), buffer : Text,
               flushTimer : BOOLEAN]
Port == [open : BOOLEAN, writer : Requests \cup {None}, reader : Requests \cup {None},
         rx : Seq(Piece)]

Shape ==
  /\ plan \in Plans /\ transport \in Transports /\ made \in 0..MaxAdapters
  /\ call \in [Requests -> Call] /\ op \in [Requests -> Op]
  /\ gatt \in [connected : BOOLEAN, live : SUBSET Adapters]
  /\ ble \in [Adapters -> BleAdapter]
  /\ port \in Port
  /\ serial \in [Adapters -> [opened : BOOLEAN, readBuffer : Text]]
  /\ sent \in 0..Pieces

\* Who may be answered: a request that was made, on the transport it was made on.
Asked(s) == s \in Requests /\ call[s].st # "idle"
Answerable ==
  /\ \A s \in Requests : call[s].st = "idle" => op[s].at = "none" /\ op[s].got = {}
  /\ \A a \in Adapters :
       LET s == ble[a].pending IN s # None => Asked(s) /\ op[s].on = LineTransport("ble", a)
  /\ port.reader # None => Asked(port.reader) /\ isSerialFamily(op[port.reader].on.type)

\* Where the pieces sent so far are, and where they no longer are.
Sent(text) == \A n \in text : n <= sent
OnItsWay(n) == \E i \in 1..Len(port.rx) : port.rx[i].n = n
Placed ==
  /\ \A s \in Requests : Sent(op[s].got)
  /\ \A a \in Adapters : Sent(ble[a].buffer) /\ Sent(serial[a].readBuffer)
  /\ \A i \in 1..Len(port.rx) : port.rx[i].n <= sent
  /\ \A i, j \in 1..Len(port.rx) : i # j => port.rx[i].n # port.rx[j].n
  /\ \A a \in Adapters : \A n \in serial[a].readBuffer : ~OnItsWay(n)
  /\ \A s \in Requests, a \in Adapters :
       op[s].on = LineTransport("ble", a) => op[s].got \cap ble[a].buffer = {}
  /\ \A s \in Requests : isSerialFamily(op[s].on.type) =>
       /\ op[s].got \cap serial[op[s].on.adapter].readBuffer = {}
       /\ \A n \in op[s].got : ~OnItsWay(n)

TextInv == Answerable /\ Placed /\ PieceAnswersOnce

-----------------------------------------------------------------------------
(* Steps that move no text.                                                 *)

\* No request is un-made, and every answer, buffer and lock is kept or given up.
Quiet ==
  /\ sent' = sent
  /\ \A s \in Requests :
       /\ op'[s].got = op[s].got /\ op'[s].on = op[s].on
       /\ op'[s].at = op[s].at \/ call[s].st # "idle"
       /\ call'[s].st = "idle" => call[s].st = "idle"
  /\ \A a \in Adapters :
       /\ ble'[a].buffer \in {ble[a].buffer, {}} /\ ble'[a].pending \in {ble[a].pending, None}
       /\ serial'[a].readBuffer \in {serial[a].readBuffer, {}}
  /\ port'.rx \in {port.rx, <<>>}
  /\ \/ port'.reader \in {port.reader, None}
     \/ Asked(port'.reader) /\ isSerialFamily(op[port'.reader].on.type)

LEMMA QuietInv ==
  ASSUME Shape, Shape', TextInv, Quiet
  PROVE  TextInv'
<1>1. \A s \in Requests : Asked(s) => Asked(s)' BY DEF Quiet, Asked
<1>2. Answerable'
  <2>1. ASSUME NEW s \in Requests, call'[s].st = "idle"
        PROVE  op'[s].at = "none" /\ op'[s].got = {}
    BY <2>1 DEF Quiet, TextInv, Answerable
  <2>2. ASSUME NEW a \in Adapters, ble'[a].pending # None
        PROVE  Asked(ble[a].pending)' /\ op'[ble'[a].pending].on = LineTransport("ble", a)
    <3>1. ble'[a].pending = ble[a].pending BY <2>2 DEF Quiet
    <3>2. Asked(ble[a].pending) /\ op[ble[a].pending].on = LineTransport("ble", a)
      BY <2>2, <3>1 DEF TextInv, Answerable
    <3> QED BY <1>1, <3>1, <3>2 DEF Quiet, Asked
  <2>3. ASSUME port'.reader # None
        PROVE  Asked(port.reader)' /\ isSerialFamily(op'[port'.reader].on.type)
    <3>1. Asked(port'.reader) /\ isSerialFamily(op[port'.reader].on.type)
      BY <2>3 DEF Quiet, TextInv, Answerable
    <3>2. port'.reader \in Requests BY <3>1 DEF Asked
    <3> QED BY <1>1, <3>1, <3>2 DEF Quiet, Asked
  <2> QED BY <2>1, <2>2, <2>3 DEF Answerable
<1>3. \A n : OnItsWay(n)' => OnItsWay(n)
  <2>1. Len(<<>>) = 0 OBVIOUS
  <2> QED BY <2>1 DEF Quiet, OnItsWay
<1>4. Placed'
  <2>1. \A s \in Requests : Sent(op'[s].got) BY DEF Quiet, TextInv, Placed
  <2>2. \A a \in Adapters : Sent(ble'[a].buffer) /\ Sent(serial'[a].readBuffer)
    BY DEF Quiet, TextInv, Placed, Sent
  <2>3. \/ port'.rx = <<>>
        \/ port'.rx = port.rx
    BY DEF Quiet
  <2>4. /\ \A i \in 1..Len(port'.rx) : port'.rx[i].n <= sent
        /\ \A i, j \in 1..Len(port'.rx) : i # j => port'.rx[i].n # port'.rx[j].n
    BY <2>3 DEF TextInv, Placed
  <2>5. \A a \in Adapters : \A n \in serial'[a].readBuffer : ~OnItsWay(n)'
    BY <1>3 DEF Quiet, TextInv, Placed
  <2>6. \A s \in Requests, a \in Adapters :
          op'[s].on = LineTransport("ble", a) => op'[s].got \cap ble'[a].buffer = {}
    BY DEF Quiet, TextInv, Placed
  <2>7. ASSUME NEW s \in Requests, isSerialFamily(op'[s].on.type)
        PROVE  /\ op'[s].got \cap serial'[op'[s].on.adapter].readBuffer = {}
               /\ \A n \in op'[s].got : ~OnItsWay(n)'
    <3>1. op[s].on \in Transports BY DEF Shape, Op
    <3>2. op[s].on.adapter \in Adapters
      BY <2>7, <3>1 DEF Quiet, Transports, isSerialFamily, UnsupportedTransport,
         HttpCommandTransport, LineTransport
    <3> QED BY <1>3, <2>7, <3>2 DEF Quiet, TextInv, Placed
  <2>8. sent' = sent BY DEF Quiet
  <2> QED BY <2>1, <2>2, <2>4, <2>5, <2>6, <2>7, <2>8 DEF Placed, Sent
<1>5. PieceAnswersOnce' BY DEF Quiet, TextInv, PieceAnswersOnce
<1> QED BY <1>2, <1>4, <1>5 DEF TextInv

LEMMA InitHolds == Init => Shape /\ TextInv
<1> SUFFICES ASSUME Init PROVE Shape /\ TextInv OBVIOUS
<1>1. MaxAdapters \in Nat /\ Pieces \in Nat BY AdaptersAssumption, PiecesAssumption
<1>2. port.rx = <<>> /\ port.reader = None /\ port \in Port
  <2> DEFINE family == \E k \in plan.use : isSerialFamily(k)
  <2>1. {FALSE} \cup {family} \subseteq BOOLEAN BY Zenon
  <2>2. PICK open \in BOOLEAN :
          port = [open |-> open, writer |-> None, reader |-> None, rx |-> <<>>]
    <3> HIDE DEF family
    <3>1. port \in [open : {FALSE} \cup {family}, writer : {None}, reader : {None}, rx : {<<>>}]
      BY DEF Init, family
    <3> QED BY <2>1, <3>1
  <2> QED BY <2>2 DEF Port
<1>3. ble \in [Adapters -> BleAdapter] BY DEF Init, BleAdapter, Text
<1>4. Shape
  <2>1. {UnsupportedTransport, HttpCommandTransport} \subseteq Transports BY DEF Transports
  <2>2. call \in [Requests -> Call] BY DEF Init, Call
  <2>3. op \in [Requests -> Op] BY <2>1 DEF Init, Op
  <2>4. serial \in [Adapters -> [opened : BOOLEAN, readBuffer : Text]] BY DEF Init, Text
  <2>5. gatt \in [connected : BOOLEAN, live : SUBSET Adapters] BY DEF Init
  <2>6. /\ plan \in Plans /\ transport \in Transports /\ made \in 0..MaxAdapters
        /\ sent \in 0..Pieces
    BY <1>1, <2>1 DEF Init
  <2> QED BY <1>2, <1>3, <2>2, <2>3, <2>4, <2>5, <2>6 DEF Shape
<1>5. Answerable BY <1>2 DEF Init, Answerable
<1>6. Placed BY <1>2 DEF Init, Placed, Sent, OnItsWay
<1>7. PieceAnswersOnce BY DEF Init, PieceAnswersOnce
<1> QED BY <1>4, <1>5, <1>6, <1>7 DEF TextInv

LEMMA SettleFacts ==
  ASSUME Shape, NEW s \in Requests, NEW ok \in BOOLEAN, Settle(s, ok)
  PROVE  /\ call' \in [Requests -> Call]
         /\ \A r \in Requests : call'[r].st = "idle" => call[r].st = "idle"
BY ZenonT(40) DEF Shape, Settle, Call

LEMMA OverFacts ==
  ASSUME Shape, NEW s \in Requests, Over(s)
  PROVE  /\ op' \in [Requests -> Op]
         /\ \A r \in Requests :
              /\ op'[r].got = op[r].got /\ op'[r].on = op[r].on
              /\ r # s => op'[r].at = op[r].at
BY ZenonT(40) DEF Shape, Over, Op

\* An operation under way belongs to a request that was made.
LEMMA UnderWay ==
  ASSUME TextInv, NEW s \in Requests, op[s].at # "none"
  PROVE  call[s].st # "idle"
BY DEF TextInv, Answerable

LEMMA CallsAreQuiet ==
  ASSUME Shape, TextInv, NEW s \in Requests,
         RefuseArguments(s) \/ Continue(s)
  PROVE  Shape' /\ Quiet
<1>1. /\ UNCHANGED <<plan, transport, op, made, sent, gatt, ble, port, serial>>
      /\ \E c \in Call : c.st = "done" /\ call' = [call EXCEPT ![s] = c]
  <2>1. CASE RefuseArguments(s) BY <2>1 DEF RefuseArguments, line, Call
  <2>2. CASE Continue(s)
    <3>1. [call[s] EXCEPT !.st = "done"] \in Call BY DEF Shape, Call
    <3>2. call' = [call EXCEPT ![s] = [call[s] EXCEPT !.st = "done"]] BY <2>2 DEF Continue, Shape
    <3>3. [call[s] EXCEPT !.st = "done"].st = "done" BY DEF Shape, Call
    <3> QED BY <2>2, <3>1, <3>2, <3>3 DEF Continue, line
  <2> QED BY <2>1, <2>2
<1>2. Shape' BY <1>1 DEF Shape
<1>3. \A r \in Requests : call'[r].st = "idle" => call[r].st = "idle" BY <1>1 DEF Shape
<1> QED BY <1>1, <1>2, <1>3 DEF Quiet

LEMMA SwapsAreQuiet ==
  ASSUME Shape, TextInv,
         \/ ConnectHttp \/ ConnectBle \/ ConnectSerial \/ SetTransport \/ EndClose
         \/ \E kind \in {"set", "disconnect"} : RequestSwap(kind)
  PROVE  Shape' /\ Quiet
<1>1. plan.adapters <= MaxAdapters /\ plan.adapters \in Nat /\ MaxAdapters \in Nat
  BY PlansAssumption, AdaptersAssumption DEF Shape
<1>2. {UnsupportedTransport, HttpCommandTransport} \subseteq Transports BY DEF Transports
<1>3. \A k \in {"ble", "serial", "bluetooth-serial"}, a \in Adapters :
        LineTransport(k, a) \in Transports
  BY DEF Transports
<1>4. made < plan.adapters => made + 1 \in Adapters /\ made + 1 \in 0..MaxAdapters
  BY <1>1 DEF Shape, Adapters
<1>5. CASE ConnectBle
  BY <1>3, <1>4, <1>5 DEF ConnectBle, Shape, Quiet
<1>6. CASE ConnectSerial
  <2>1. PICK k \in plan.use :
          /\ isSerialFamily(k) /\ made < plan.adapters /\ made' = made + 1
          /\ serial' = [serial EXCEPT ![made + 1].opened = port.open]
          /\ transport' = LineTransport(k, made + 1)
    BY <1>6 DEF ConnectSerial
  <2>2. transport' \in Transports BY <1>3, <1>4, <2>1 DEF isSerialFamily
  <2>3. /\ serial' \in [Adapters -> [opened : BOOLEAN, readBuffer : Text]]
        /\ \A a \in Adapters : serial'[a].readBuffer = serial[a].readBuffer
    BY <1>4, <2>1 DEF Shape, Port
  <2>4. UNCHANGED <<plan, call, op, gatt, ble, port, sent>> BY <1>6 DEF ConnectSerial
  <2> QED BY <1>4, <2>1, <2>2, <2>3, <2>4 DEF Shape, Quiet
<1>7. CASE ConnectHttp \/ SetTransport \/ EndClose
           \/ \E kind \in {"set", "disconnect"} : RequestSwap(kind)
  <2>1. UNCHANGED <<plan, call, op, made, sent, gatt, ble, port, serial>>
    BY <1>7 DEF ConnectHttp, SetTransport, EndClose, RequestSwap, line
  <2>2. transport' \in Transports
    BY <1>2, <1>7 DEF ConnectHttp, SetTransport, EndClose, RequestSwap, Shape
  <2> QED BY <2>1, <2>2 DEF Shape, Quiet
<1> QED BY <1>5, <1>6, <1>7

LEMMA CloseIsQuiet ==
  ASSUME Shape, TextInv, BeginClose
  PROVE  Shape' /\ Quiet
<1>1. UNCHANGED <<plan, transport, call, op, made, ble, sent>> /\ Close(transport)
  BY DEF BeginClose
<1>2. /\ gatt' \in [connected : BOOLEAN, live : SUBSET Adapters]
      /\ port' \in Port /\ port'.rx \in {port.rx, <<>>} /\ port'.reader = port.reader
      /\ serial' \in [Adapters -> [opened : BOOLEAN, readBuffer : Text]]
      /\ \A a \in Adapters : serial'[a].readBuffer \in {serial[a].readBuffer, {}}
  <2>1. <<>> \in Seq(Piece) OBVIOUS
  <2>2. \/ UNCHANGED <<port, serial>>
        \/ /\ port' = [port EXCEPT !.open = FALSE, !.rx = <<>>]
           /\ serial' = [serial EXCEPT ![transport.adapter] = [opened |-> FALSE, readBuffer |-> {}]]
    BY <1>1 DEF Close
  <2>3. gatt' = gatt \/ gatt' = [connected |-> FALSE, live |-> {}] BY <1>1 DEF Close
  <2>4. /\ port' \in Port /\ port'.rx \in {port.rx, <<>>} /\ port'.reader = port.reader
    <3>1. port \in Port BY DEF Shape
    <3> QED BY <2>1, <2>2, <3>1 DEF Port
  <2>5. /\ serial' \in [Adapters -> [opened : BOOLEAN, readBuffer : Text]]
        /\ \A a \in Adapters : serial'[a].readBuffer \in {serial[a].readBuffer, {}}
    <3>1. serial \in [Adapters -> [opened : BOOLEAN, readBuffer : Text]] BY DEF Shape
    <3>2. [opened |-> FALSE, readBuffer |-> {}] \in [opened : BOOLEAN, readBuffer : Text]
      BY DEF Text
    <3>3. CASE serial' = serial BY <3>1, <3>3
    <3>4. CASE serial' = [serial EXCEPT ![transport.adapter] = [opened |-> FALSE, readBuffer |-> {}]]
      BY <3>1, <3>2, <3>4
    <3> QED BY <2>2, <3>3, <3>4
  <2>6. gatt' \in [connected : BOOLEAN, live : SUBSET Adapters]
    <3>1. gatt \in [connected : BOOLEAN, live : SUBSET Adapters] BY DEF Shape
    <3>2. [connected |-> FALSE, live |-> {}] \in [connected : BOOLEAN, live : SUBSET Adapters]
      OBVIOUS
    <3>3. CASE gatt' = gatt BY <3>1, <3>3
    <3>4. CASE gatt' = [connected |-> FALSE, live |-> {}] BY <3>2, <3>4
    <3> QED BY <2>3, <3>3, <3>4
  <2> QED BY <2>4, <2>5, <2>6
<1> QED BY <1>1, <1>2 DEF Shape, Quiet

LEMMA HttpIsQuiet ==
  ASSUME Shape, TextInv, Http
  PROVE  Shape' /\ Quiet
<1>1. PICK s \in Requests : HttpHeaders(s) \/ HttpBody(s) \/ HttpAborts(s) BY DEF Http
<1>2. UNCHANGED <<plan, transport, made, sent, gatt, ble, port, serial>> /\ op[s].at # "none"
  BY <1>1 DEF HttpHeaders, HttpBody, HttpAborts, line
<1>3. call[s].st # "idle" BY <1>2, UnderWay
<1>4. CASE HttpHeaders(s)
  BY <1>2, <1>3, <1>4, ZenonT(40) DEF HttpHeaders, Shape, Quiet, Op
<1>5. CASE HttpBody(s) \/ HttpAborts(s)
  <2>1. Over(s) /\ \E ok \in BOOLEAN : Settle(s, ok) BY <1>5 DEF HttpBody, HttpAborts
  <2> QED BY <1>2, <1>3, <2>1, SettleFacts, OverFacts DEF Shape, Quiet
<1> QED BY <1>1, <1>4, <1>5

\* The steps of BLE and serial that lose, keep or wait.
LEMMA TimersAreQuiet ==
  ASSUME Shape, TextInv, NEW s \in Requests,
         BleWriteFails(s) \/ BleReturns(s) \/ BleTimeout(s) \/ SerialTimeout(s)
  PROVE  Shape' /\ Quiet
<1>1. UNCHANGED <<plan, transport, made, sent, gatt, ble, port, serial>> /\ op[s].at # "none"
  BY DEF BleWriteFails, BleReturns, BleTimeout, SerialTimeout, line
<1>2. call[s].st # "idle" BY <1>1, UnderWay
<1>3. \E ok \in BOOLEAN : Settle(s, ok)
  BY DEF BleWriteFails, BleReturns, BleTimeout, SerialTimeout, TimedOut
<1>4. Over(s) \/ op' = op BY DEF BleWriteFails, BleReturns, BleTimeout, SerialTimeout
<1>5. /\ op' \in [Requests -> Op]
      /\ \A r \in Requests :
           /\ op'[r].got = op[r].got /\ op'[r].on = op[r].on
           /\ r # s => op'[r].at = op[r].at
  BY <1>4, OverFacts DEF Shape
<1> QED BY <1>1, <1>2, <1>3, <1>5, SettleFacts DEF Shape, Quiet

LEMMA BleIsQuiet ==
  ASSUME Shape, TextInv,
         \/ BleLost \/ \E s \in Requests : BleWritten(s)
         \/ \E a \in Adapters : WaitTimer(a)
  PROVE  Shape' /\ Quiet
<1>1. CASE BleLost BY <1>1 DEF BleLost, Shape, Quiet
<1>2. ASSUME NEW s \in Requests, BleWritten(s) PROVE Shape' /\ Quiet
  <2>1. call[s].st # "idle" BY <1>2, UnderWay DEF BleWritten
  <2>2. op' = [op EXCEPT ![s].at = "wait"] BY <1>2 DEF BleWritten
  <2>3. op' \in [Requests -> Op]
        /\ \A r \in Requests : /\ op'[r].got = op[r].got /\ op'[r].on = op[r].on
                               /\ r # s => op'[r].at = op[r].at
    BY <2>2 DEF Shape, Op
  <2> QED BY <1>2, <2>1, <2>3 DEF BleWritten, line, Shape, Quiet
<1>3. ASSUME NEW a \in Adapters, WaitTimer(a) PROVE Shape' /\ Quiet
  <2> DEFINE late == ble[a].pending
  <2>1. ble[a] \in BleAdapter /\ ble[a].timers # <<>> BY <1>3 DEF WaitTimer, Shape
  <2>2. Tail(ble[a].timers) \in Seq(Requests) BY <2>1, HeadTailProperties DEF BleAdapter
  <2>3. PICK b \in BleAdapter :
          /\ ble' = [ble EXCEPT ![a] = b]
          /\ b.buffer \in {ble[a].buffer, {}} /\ b.pending \in {ble[a].pending, None}
    <3> DEFINE rest == [ble[a] EXCEPT !.timers = Tail(@)]
               gone == [rest EXCEPT !.pending = None, !.buffer = {}]
    <3>1. rest \in BleAdapter /\ rest.buffer = ble[a].buffer /\ rest.pending = late
      BY <2>1, <2>2 DEF BleAdapter
    <3>2. gone \in BleAdapter /\ gone.buffer = {} /\ gone.pending = None
      BY <3>1 DEF BleAdapter, Text
    <3>3. ble' = [ble EXCEPT ![a] = rest] \/ ble' = [ble EXCEPT ![a] = gone]
      BY <1>3 DEF WaitTimer
    <3> QED BY <3>1, <3>2, <3>3
  <2>4. op' = op \/ (late # None /\ op' = [op EXCEPT ![late].resp = "timeout"])
    BY <1>3 DEF WaitTimer
  <2>5. late \in Requests \cup {None} BY <2>1 DEF BleAdapter
  <2>6. op' \in [Requests -> Op]
        /\ \A r \in Requests : /\ op'[r].got = op[r].got /\ op'[r].on = op[r].on
                               /\ op'[r].at = op[r].at
    <3>1. op \in [Requests -> Op] BY DEF Shape
    <3>2. CASE op' = op BY <3>1, <3>2
    <3>3. ASSUME late \in Requests, op' = [op EXCEPT ![late].resp = "timeout"]
          PROVE  /\ op' \in [Requests -> Op]
                 /\ \A r \in Requests : /\ op'[r].got = op[r].got /\ op'[r].on = op[r].on
                                        /\ op'[r].at = op[r].at
      <4> HIDE DEF late
      <4> QED BY <3>1, <3>3 DEF Op
    <3> QED BY <2>4, <2>5, <3>2, <3>3
  <2>7. UNCHANGED <<plan, transport, call, made, gatt, port, serial, sent>> BY <1>3 DEF WaitTimer
  <2>8. ble' \in [Adapters -> BleAdapter] BY <2>3 DEF Shape
  <2>9. \A c \in Adapters : ble'[c].buffer \in {ble[c].buffer, {}}
                            /\ ble'[c].pending \in {ble[c].pending, None}
    BY <2>3 DEF Shape
  <2> QED BY <2>6, <2>7, <2>8, <2>9 DEF Shape, Quiet
<1> QED BY <1>1, <1>2, <1>3

LEMMA SerialIsQuiet ==
  ASSUME Shape, TextInv, NEW s \in Requests,
         SerialWritten(s) \/ SerialWriteFails(s) \/ SerialGivesUp(s)
  PROVE  Shape' /\ Quiet
<1>1. UNCHANGED <<plan, transport, made, gatt, ble, serial, sent>>
  BY DEF SerialWritten, SerialWriteFails, SerialGivesUp
<1>2. call[s].st # "idle"
  <2>1. CASE port.reader = s
    <3>1. s # None BY RequestsAssumption
    <3> QED BY <2>1, <3>1 DEF TextInv, Answerable, Asked
  <2>2. CASE op[s].at # "none" BY <2>2, UnderWay
  <2> QED BY <2>1, <2>2 DEF SerialWritten, SerialWriteFails, SerialGivesUp
<1>3. \/ call' = call /\ op' = [op EXCEPT ![s].at = "read"]
      \/ Over(s) /\ Settle(s, FALSE)
  BY DEF SerialWritten, SerialWriteFails, SerialGivesUp
<1>4. /\ op' \in [Requests -> Op]
      /\ \A r \in Requests : /\ op'[r].got = op[r].got /\ op'[r].on = op[r].on
                             /\ r # s => op'[r].at = op[r].at
  <2>1. CASE op' = [op EXCEPT ![s].at = "read"] BY <2>1, ZenonT(40) DEF Shape, Op
  <2>2. CASE Over(s) BY <2>2, OverFacts
  <2> QED BY <1>3, <2>1, <2>2
<1>5. /\ call' \in [Requests -> Call]
      /\ \A r \in Requests : call'[r].st = "idle" => call[r].st = "idle"
  BY <1>3, SettleFacts DEF Shape
<1>6. port' \in Port /\ port'.rx = port.rx
  BY DEF SerialWritten, SerialWriteFails, SerialGivesUp, Shape, Port
<1>7. \/ port'.reader \in {port.reader, None}
      \/ Asked(port'.reader) /\ isSerialFamily(op[port'.reader].on.type)
  <2>1. CASE SerialWritten(s) BY <1>2, <2>1 DEF SerialWritten, Shape, Port, Asked
  <2>2. CASE SerialWriteFails(s) \/ SerialGivesUp(s)
    BY <2>2 DEF SerialWriteFails, SerialGivesUp, Shape, Port
  <2> QED BY <2>1, <2>2
<1> QED BY <1>1, <1>2, <1>4, <1>5, <1>6, <1>7 DEF Shape, Quiet

-----------------------------------------------------------------------------
(* Requests that are made.                                                  *)

LEMMA LineTransportFacts ==
  /\ \A k, a, b : LineTransport(k, a) = LineTransport(k, b) => a = b
  /\ \A k, a : LineTransport(k, a).type = k /\ LineTransport(k, a).adapter = a
  /\ \A t \in Transports :
       /\ t.type = "ble" => t.adapter \in Adapters /\ t = LineTransport("ble", t.adapter)
       /\ isSerialFamily(t.type) => t.adapter \in Adapters /\ t.type # "ble"
BY DEF LineTransport, Transports, UnsupportedTransport, HttpCommandTransport, isSerialFamily

LEMMA MadeInv ==
  ASSUME Shape, Shape', TextInv,
         NEW s \in Requests, call[s].st = "idle", call'[s].st # "idle",
         \A r \in Requests : r # s => call'[r] = call[r],
         NEW o \in Op, o.got = {}, op' = [op EXCEPT ![s] = o],
         UNCHANGED <<sent, serial>>, port'.rx = port.rx, port'.reader = port.reader,
         \A a \in Adapters :
           /\ ble'[a].buffer = ble[a].buffer
           /\ \/ ble'[a].pending = ble[a].pending
              \/ ble'[a].pending = s /\ o.on = LineTransport("ble", a)
  PROVE  TextInv'
<1>1. /\ op'[s] = o
      /\ \A r \in Requests : r # s => op'[r] = op[r]
  BY DEF Shape
<1>2. \A r \in Requests : Asked(r) => Asked(r)' BY DEF Asked
<1>3. Answerable'
  <2>1. ASSUME NEW r \in Requests, call'[r].st = "idle"
        PROVE  op'[r].at = "none" /\ op'[r].got = {}
    <3>1. r # s BY <2>1
    <3> QED BY <1>1, <2>1, <3>1 DEF TextInv, Answerable
  <2>2. ASSUME NEW a \in Adapters, ble'[a].pending # None
        PROVE  Asked(ble[a].pending)' /\ op'[ble'[a].pending].on = LineTransport("ble", a)
    <3>1. CASE ble'[a].pending = s /\ o.on = LineTransport("ble", a) BY <1>1, <3>1 DEF Asked
    <3>2. CASE ble'[a].pending = ble[a].pending
      <4>1. Asked(ble[a].pending) /\ op[ble[a].pending].on = LineTransport("ble", a)
        BY <2>2, <3>2 DEF TextInv, Answerable
      <4>2. ble[a].pending # s /\ ble[a].pending \in Requests BY <4>1 DEF Asked
      <4> QED BY <1>1, <1>2, <3>2, <4>1, <4>2 DEF Asked
    <3> QED BY <3>1, <3>2
  <2>3. ASSUME port'.reader # None
        PROVE  Asked(port.reader)' /\ isSerialFamily(op'[port'.reader].on.type)
    <3>1. Asked(port.reader) /\ isSerialFamily(op[port.reader].on.type)
      BY <2>3 DEF TextInv, Answerable
    <3>2. port.reader # s /\ port.reader \in Requests BY <3>1 DEF Asked
    <3> QED BY <1>1, <1>2, <3>1, <3>2 DEF Asked
  <2> QED BY <2>1, <2>2, <2>3 DEF Answerable
<1>4. \A n : OnItsWay(n)' <=> OnItsWay(n) BY DEF OnItsWay
<1>5. Placed'
  <2>1. \A r \in Requests : op'[r].got = {} \/ (op'[r].got = op[r].got /\ op'[r].on = op[r].on)
    BY <1>1
  <2>2. \A r \in Requests : Sent(op'[r].got) BY <2>1 DEF TextInv, Placed, Sent
  <2>3. \A r \in Requests, a \in Adapters :
          op'[r].on = LineTransport("ble", a) => op'[r].got \cap ble'[a].buffer = {}
    BY <2>1 DEF TextInv, Placed
  <2>4. \A r \in Requests : isSerialFamily(op'[r].on.type) =>
          /\ op'[r].got \cap serial'[op'[r].on.adapter].readBuffer = {}
          /\ \A n \in op'[r].got : ~OnItsWay(n)'
    BY <1>4, <2>1 DEF TextInv, Placed
  <2> QED BY <1>4, <2>2, <2>3, <2>4 DEF TextInv, Placed, Sent
<1>6. PieceAnswersOnce' BY <1>1 DEF TextInv, PieceAnswersOnce
<1> QED BY <1>3, <1>5, <1>6 DEF TextInv

LEMMA StartKeeps ==
  ASSUME Shape, TextInv, NEW s \in Requests, NEW tracked \in BOOLEAN, Start(s, tracked)
  PROVE  Shape' /\ TextInv'
<1>1. call[s].st = "idle" /\ UNCHANGED <<plan, transport, made, gatt, serial, sent>>
  BY DEF Start
<1>2. transport \in Transports /\ op \in [Requests -> Op] /\ op[s].got = {}
  BY <1>1 DEF Shape, TextInv, Answerable
<1>3. PICK c \in Call : c.st # "idle" /\ call' = [call EXCEPT ![s] = c]
  BY DEF Start, Call
<1>4. /\ call' \in [Requests -> Call] /\ call'[s].st # "idle"
      /\ \A r \in Requests : r # s => call'[r] = call[r]
  BY <1>3 DEF Shape
<1>5. CASE UNCHANGED <<op, ble, port>>
  <2>1. Shape' BY <1>1, <1>4, <1>5 DEF Shape
  <2>2. Quiet BY <1>1, <1>4, <1>5 DEF Quiet
  <2> QED BY <2>1, <2>2, QuietInv
<1>6. ASSUME UNCHANGED <<ble, port>>, op' = [op EXCEPT ![s].at = "fetch", ![s].on = transport]
      PROVE  Shape' /\ TextInv'
  <2>1. PICK o \in Op : op' = [op EXCEPT ![s] = o] /\ o.got = {}
    <3>1. op[s] \in Op BY <1>2
    <3>2. [op[s] EXCEPT !.at = "fetch", !.on = transport] \in Op BY <1>2, <3>1 DEF Op
    <3>3. [op[s] EXCEPT !.at = "fetch", !.on = transport].got = {} BY <1>2, <3>1 DEF Op
    <3> QED BY <1>2, <1>6, <3>2, <3>3
  <2>2. Shape' BY <1>1, <1>2, <1>4, <1>6, <2>1, ZenonT(40) DEF Shape
  <2> QED BY <1>1, <1>4, <1>6, <2>1, <2>2, MadeInv
<1>7. ASSUME transport.type = "ble", BleBegin(s, transport.adapter), UNCHANGED port
      PROVE  Shape' /\ TextInv'
  <2> DEFINE a == transport.adapter
  <2>1. a \in Adapters /\ transport = LineTransport("ble", a)
    BY <1>2, <1>7, LineTransportFacts
  <2>2. PICK o \in Op : op' = [op EXCEPT ![s] = o] /\ o.got = {} /\ o.on = transport
    <3>1. \A r \in {"none", "refused"} :
            [at |-> "write", on |-> transport, resp |-> r, got |-> {}] \in Op
      BY <1>2 DEF Op
    <3>2. \E r \in {"none", "refused"} :
            op' = [op EXCEPT ![s] = [at |-> "write", on |-> transport, resp |-> r, got |-> {}]]
      BY <1>7 DEF BleBegin
    <3> QED BY <3>1, <3>2
  <2>3. \/ ble' = ble
        \/ \E b \in BleAdapter : /\ ble' = [ble EXCEPT ![a] = b]
                                 /\ b.pending = s /\ b.buffer = ble[a].buffer
    <3>1. ble[a] \in BleAdapter /\ ble \in [Adapters -> BleAdapter] BY <2>1 DEF Shape
    <3>2. Append(ble[a].timers, s) \in Seq(Requests) BY <3>1 DEF BleAdapter
    <3> DEFINE b == [ble[a] EXCEPT !.pending = s, !.timers = Append(ble[a].timers, s)]
    <3>3. b \in BleAdapter /\ b.pending = s /\ b.buffer = ble[a].buffer
      BY <3>1, <3>2 DEF BleAdapter
    <3>4. ble' = ble \/ ble' = [ble EXCEPT ![a].pending = s, ![a].timers = Append(@, s)]
      BY <1>7 DEF BleBegin
    <3>5. ble' = ble \/ ble' = [ble EXCEPT ![a] = b] BY <2>1, <3>1, <3>4
    <3> QED BY <3>3, <3>5
  <2>4. /\ ble' \in [Adapters -> BleAdapter]
        /\ \A d \in Adapters :
             /\ ble'[d].buffer = ble[d].buffer
             /\ \/ ble'[d].pending = ble[d].pending
                \/ ble'[d].pending = s /\ transport = LineTransport("ble", d)
    BY <2>1, <2>3 DEF Shape
  <2>5. Shape' BY <1>1, <1>2, <1>4, <1>7, <2>2, <2>4 DEF Shape
  <2> QED BY <1>1, <1>4, <1>7, <2>2, <2>4, <2>5, MadeInv
<1>8. ASSUME SerialBegin(s), UNCHANGED ble
      PROVE  Shape' /\ TextInv'
  <2> DEFINE o == [at |-> "write", on |-> transport, resp |-> "none", got |-> {}]
  <2>1. o \in Op /\ o.got = {} /\ op' = [op EXCEPT ![s] = o] BY <1>2, <1>8 DEF Op, SerialBegin
  <2>2. port' \in Port /\ port'.rx = port.rx /\ port'.reader = port.reader
    BY <1>8 DEF SerialBegin, Shape, Port
  <2> HIDE DEF o
  <2>3. Shape' BY <1>1, <1>2, <1>4, <1>8, <2>1, <2>2 DEF Shape
  <2> QED BY <1>1, <1>4, <1>8, <2>1, <2>2, <2>3, MadeInv
<1> QED BY <1>5, <1>6, <1>7, <1>8 DEF Start

-----------------------------------------------------------------------------
(* Text that arrives and answers.                                           *)

\* What the BLE device notifies may join the buffers of adapters, and what an
\* adapter has heard may answer its pending request, which empties its buffer.
LEMMA HeardInv ==
  ASSUME Shape, Shape', TextInv, NEW new \in Text,
         \A n \in new : n > sent /\ n <= sent', sent <= sent',
         UNCHANGED <<call, port, serial>>,
         \A a \in Adapters :
           /\ ble'[a].pending \in {ble[a].pending, None}
           /\ \A n \in ble'[a].buffer : n \in ble[a].buffer \/ n \in new,
         \A s \in Requests :
           /\ op'[s].on = op[s].on /\ op'[s].at = op[s].at
           /\ \/ op'[s].got = op[s].got
              \/ \E a \in Adapters :
                   /\ ble[a].pending = s /\ ble'[a].buffer = {}
                   /\ \A n \in op'[s].got : n \in ble[a].buffer \/ n \in new
  PROVE  TextInv'
<1> DEFINE Kept(s) == op'[s].got = op[s].got
           By(s, a) == /\ ble[a].pending = s /\ ble'[a].buffer = {}
                       /\ op[s].on = LineTransport("ble", a)
                       /\ \A n \in op'[s].got : n \in ble[a].buffer \/ n \in new
<1>1. ASSUME NEW s \in Requests PROVE Kept(s) \/ \E a \in Adapters : By(s, a) /\ Asked(s)
  <2>1. s # None BY RequestsAssumption
  <2>2. ASSUME NEW a \in Adapters, ble[a].pending = s
        PROVE  Asked(s) /\ op[s].on = LineTransport("ble", a)
    <3>1. ble[a].pending # None BY <2>1, <2>2
    <3> QED BY <2>2, <3>1 DEF TextInv, Answerable
  <2>3. CASE op'[s].got = op[s].got BY <2>3
  <2>4. CASE op'[s].got # op[s].got
    <3>1. PICK a \in Adapters : /\ ble[a].pending = s /\ ble'[a].buffer = {}
                                /\ \A n \in op'[s].got : n \in ble[a].buffer \/ n \in new
      BY <2>4
    <3> QED BY <2>2, <3>1
  <2> QED BY <2>3, <2>4
<1>2. \A s : Asked(s)' <=> Asked(s) BY DEF Asked
<1>3. \A n : OnItsWay(n)' <=> OnItsWay(n) BY DEF OnItsWay
<1>4. sent \in Nat /\ sent' \in Nat /\ Text \subseteq SUBSET Nat
  BY PiecesAssumption DEF Shape, Text
<1>5. \A s \in Requests : \A n \in op[s].got : n \in Nat /\ n <= sent /\ n \notin new
  BY <1>4 DEF Shape, Op, TextInv, Placed, Sent
<1>6. \A a \in Adapters : \A n \in ble[a].buffer : n \in Nat /\ n <= sent /\ n \notin new
  BY <1>4 DEF Shape, BleAdapter, Text, TextInv, Placed, Sent
<1>7. \A n \in new : n \in Nat BY <1>4
<1>8. \A n \in Nat : n <= sent => n <= sent'
  <2>1. sent \in Int /\ sent' \in Int BY <1>4
  <2> QED BY <2>1
<1>9. Answerable'
  <2>1. ASSUME NEW s \in Requests, call[s].st = "idle"
        PROVE  op'[s].at = "none" /\ op'[s].got = {}
    <3>1. Kept(s) BY <1>1, <2>1 DEF Asked
    <3> QED BY <2>1, <3>1 DEF TextInv, Answerable
  <2>2. ASSUME NEW a \in Adapters, ble'[a].pending # None
        PROVE  Asked(ble[a].pending)' /\ op'[ble'[a].pending].on = LineTransport("ble", a)
    <3>1. ble'[a].pending = ble[a].pending BY <2>2
    <3>2. Asked(ble[a].pending) /\ op[ble[a].pending].on = LineTransport("ble", a)
      BY <2>2, <3>1 DEF TextInv, Answerable
    <3> QED BY <1>2, <3>1, <3>2 DEF Asked
  <2>3. ASSUME port.reader # None
        PROVE  Asked(port.reader) /\ isSerialFamily(op'[port.reader].on.type)
    BY <2>3 DEF TextInv, Answerable, Asked
  <2> QED BY <1>2, <2>1, <2>2, <2>3 DEF Answerable, Asked
<1>10. Placed'
  <2>1. ASSUME NEW s \in Requests, NEW n \in op'[s].got PROVE n <= sent'
    <3>1. CASE Kept(s)
      <4>1. n \in Nat /\ n <= sent BY <1>5, <3>1
      <4> QED BY <1>8, <4>1
    <3>2. ASSUME NEW a \in Adapters, By(s, a) PROVE n <= sent'
      <4>1. n \in ble[a].buffer \/ n \in new BY <3>2
      <4>2. n \in ble[a].buffer => n \in Nat /\ n <= sent BY <1>6
      <4> QED BY <1>8, <4>1, <4>2
    <3> HIDE DEF Kept, By
    <3> QED BY <1>1, <3>1, <3>2
  <2>2. ASSUME NEW a \in Adapters, NEW n \in ble'[a].buffer PROVE n <= sent'
    <3>1. n \in ble[a].buffer \/ n \in new OBVIOUS
    <3>2. n \in ble[a].buffer => n \in Nat /\ n <= sent BY <1>6
    <3> QED BY <1>8, <3>1, <3>2
  <2>3. \A a \in Adapters : \A n \in serial[a].readBuffer : n <= sent'
    BY <1>4 DEF Shape, Text, TextInv, Placed, Sent
  <2>4. \A i \in 1..Len(port.rx) : port.rx[i].n <= sent'
    <3>1. ASSUME NEW i \in 1..Len(port.rx) PROVE port.rx[i].n \in Nat /\ port.rx[i].n <= sent
      <4>1. port.rx[i] \in Piece BY ElementOfSeq DEF Shape, Port
      <4> QED BY <4>1, PiecesAssumption DEF Piece, TextInv, Placed
    <3> QED BY <1>4, <3>1
  <2>5. ASSUME NEW s \in Requests, NEW a \in Adapters, op'[s].on = LineTransport("ble", a)
        PROVE  op'[s].got \cap ble'[a].buffer = {}
    <3>1. CASE Kept(s)
      <4>1. op[s].got \cap ble[a].buffer = {} BY <2>5 DEF TextInv, Placed
      <4> QED BY <1>5, <3>1, <4>1
    <3>2. ASSUME NEW b \in Adapters, By(s, b) PROVE ble'[a].buffer = {}
      <4>1. a = b BY <2>5, <3>2, LineTransportFacts
      <4> QED BY <3>2, <4>1
    <3> QED BY <1>1, <3>1, <3>2
  <2>6. ASSUME NEW s \in Requests, isSerialFamily(op'[s].on.type) PROVE Kept(s)
    <3>1. op[s].on.type # "ble" BY <2>6 DEF isSerialFamily
    <3> QED BY <1>1, <3>1, LineTransportFacts
  <2>7. \A s \in Requests : isSerialFamily(op'[s].on.type) =>
          /\ op'[s].got \cap serial[op'[s].on.adapter].readBuffer = {}
          /\ \A n \in op'[s].got : ~OnItsWay(n)'
    BY <1>3, <2>6 DEF TextInv, Placed
  <2>8. /\ \A i, j \in 1..Len(port.rx) : i # j => port.rx[i].n # port.rx[j].n
        /\ \A a \in Adapters : \A n \in serial[a].readBuffer : ~OnItsWay(n)'
    BY <1>3 DEF TextInv, Placed
  <2> QED BY <2>1, <2>2, <2>3, <2>4, <2>5, <2>7, <2>8 DEF Placed, Sent
<1>11. ASSUME NEW s \in Requests, NEW t \in Requests, s # t, op'[s].on = op'[t].on
       PROVE  op'[s].got \cap op'[t].got = {}
  <2>1. CASE Kept(s) /\ Kept(t) BY <1>11, <2>1 DEF TextInv, PieceAnswersOnce
  <2>2. ASSUME NEW r \in Requests, NEW u \in Requests, NEW a \in Adapters,
               By(r, a), Kept(u), op[r].on = op[u].on
        PROVE  op'[r].got \cap op'[u].got = {}
    <3>1. op[u].got \cap ble[a].buffer = {} BY <2>2 DEF TextInv, Placed
    <3> QED BY <1>5, <2>2, <3>1
  <2>3. ASSUME NEW a \in Adapters, NEW b \in Adapters, By(s, a), By(t, b)
        PROVE  FALSE
    <3>1. a = b BY <1>11, <2>3, LineTransportFacts
    <3> QED BY <1>11, <2>3, <3>1
  <2> HIDE DEF Kept, By
  <2> QED BY <1>1, <1>11, <2>1, <2>2, <2>3
<1> QED BY <1>9, <1>10, <1>11 DEF TextInv, PieceAnswersOnce

LEMMA AnsweredFacts ==
  ASSUME Shape, NEW b \in BleAdapter, NEW o, o = Answered(b, op)
  PROVE  /\ o \in [Requests -> Op]
         /\ \A s \in Requests :
              /\ o[s].on = op[s].on /\ o[s].at = op[s].at
              /\ IF b.pending = s THEN o[s].got = b.buffer ELSE o[s] = op[s]
<1>1. op \in [Requests -> Op] /\ b.buffer \in SUBSET (1..Pieces)
  BY DEF Shape, BleAdapter, Text
<1>2. None \notin Requests BY RequestsAssumption
<1>3. CASE b.pending = None BY <1>1, <1>2, <1>3 DEF Answered
<1>4. CASE b.pending # None
  <2> DEFINE p == b.pending
             a == [op[p] EXCEPT !.resp = "answer", !.got = b.buffer]
  <2>1. p \in Requests BY <1>4 DEF BleAdapter
  <2>2. a \in Op /\ a.on = op[p].on /\ a.at = op[p].at /\ a.got = b.buffer
    BY <1>1, <2>1 DEF Op
  <2>3. o = [op EXCEPT ![p] = a] BY <1>1, <1>4, <2>1 DEF Answered
  <2> HIDE DEF p, a
  <2>4. p = b.pending BY DEF p
  <2> QED BY <1>1, <2>1, <2>2, <2>3, <2>4
<1> QED BY <1>3, <1>4

LEMMA FlushTimerKeeps ==
  ASSUME Shape, TextInv, NEW a \in Adapters, FlushTimer(a)
  PROVE  Shape' /\ TextInv'
<1>1. UNCHANGED <<plan, transport, call, made, gatt, port, serial, sent>>
  BY DEF FlushTimer
<1>2. ble \in [Adapters -> BleAdapter] /\ ble[a] \in BleAdapter BY DEF Shape
<1>3. Flushed(ble[a]) \in BleAdapter /\ Flushed(ble[a]).buffer = {} /\ Flushed(ble[a]).pending = None
  BY <1>2 DEF Flushed, BleAdapter, Text
<1>4. /\ ble' \in [Adapters -> BleAdapter]
      /\ ble'[a].buffer = {} /\ ble'[a].pending = None
      /\ \A c \in Adapters : c # a => ble'[c] = ble[c]
  BY <1>2, <1>3 DEF FlushTimer
<1>5. /\ op' \in [Requests -> Op]
      /\ \A s \in Requests :
           /\ op'[s].on = op[s].on /\ op'[s].at = op[s].at
           /\ IF ble[a].pending = s THEN op'[s].got = ble[a].buffer ELSE op'[s] = op[s]
  BY <1>2, AnsweredFacts DEF FlushTimer
<1>6. Shape' BY <1>1, <1>4, <1>5 DEF Shape
<1>7. sent <= sent' BY <1>1, PiecesAssumption DEF Shape
<1> DEFINE new == {}
<1>8. new \in Text BY DEF Text
<1>9. \A c \in Adapters : /\ ble'[c].pending \in {ble[c].pending, None}
                          /\ \A n \in ble'[c].buffer : n \in ble[c].buffer \/ n \in new
  BY <1>4
<1>10. \A s \in Requests :
         /\ op'[s].on = op[s].on /\ op'[s].at = op[s].at
         /\ \/ op'[s].got = op[s].got
            \/ \E c \in Adapters : /\ ble[c].pending = s /\ ble'[c].buffer = {}
                                   /\ \A n \in op'[s].got : n \in ble[c].buffer \/ n \in new
  BY <1>4, <1>5
<1>11. \A n \in new : n > sent /\ n <= sent' OBVIOUS
<1> HIDE DEF new
<1> QED BY <1>1, <1>6, <1>7, <1>8, <1>9, <1>10, <1>11, HeardInv

LEMMA NotifyKeeps ==
  ASSUME Shape, TextInv, NEW end \in BOOLEAN, Notify(end)
  PROVE  Shape' /\ TextInv'
<1> DEFINE new == {sent + 1}
           heard == [a \in Adapters |->
                       [ble[a] EXCEPT !.buffer = @ \cup {sent + 1}, !.flushTimer = TRUE]]
<1>1. UNCHANGED <<plan, transport, call, made, gatt, port, serial>> /\ sent' = sent + 1
  BY DEF Notify
<1>2. sent' \in 0..Pieces /\ new \in Text /\ sent <= sent' /\ (\A n \in new : n > sent /\ n <= sent')
  <2>1. plan.pieces \in 0..Pieces BY PlansAssumption DEF Shape
  <2>2. sent \in 0..Pieces /\ sent < plan.pieces BY DEF Shape, Notify
  <2> QED BY <1>1, <2>1, <2>2, PiecesAssumption DEF Text
<1>3. ble \in [Adapters -> BleAdapter] BY DEF Shape
<1>4. \A a \in Adapters :
        /\ heard[a] \in BleAdapter /\ heard[a].pending = ble[a].pending
        /\ heard[a].buffer = ble[a].buffer \cup new
  BY <1>2, <1>3 DEF BleAdapter, Text
<1>5. \A a \in Adapters : /\ Flushed(heard[a]) \in BleAdapter
                          /\ Flushed(heard[a]).buffer = {} /\ Flushed(heard[a]).pending = None
  <2> HIDE DEF heard
  <2> QED BY <1>4 DEF Flushed, BleAdapter, Text
<1>6. CASE end = TRUE
  <2>1. /\ ble' = [a \in Adapters |-> IF a \in gatt.live THEN Flushed(heard[a]) ELSE ble[a]]
        /\ op' = [s \in Requests |-> IF \E a \in gatt.live : ble[a].pending = s
                                     THEN Answered(heard[AdapterOf(s)], op)[s] ELSE op[s]]
    BY <1>6 DEF Notify
  <2> HIDE DEF heard
  <2>2. /\ ble' \in [Adapters -> BleAdapter]
        /\ \A a \in Adapters :
             IF a \in gatt.live THEN ble'[a].buffer = {} /\ ble'[a].pending = None
             ELSE ble'[a] = ble[a]
    BY <1>3, <1>5, <2>1
  <2>3. ASSUME NEW s \in Requests
        PROVE  /\ op'[s] \in Op /\ op'[s].on = op[s].on /\ op'[s].at = op[s].at
               /\ \/ op'[s].got = op[s].got
                  \/ \E a \in Adapters : /\ ble[a].pending = s /\ ble'[a].buffer = {}
                                         /\ \A n \in op'[s].got : n \in ble[a].buffer \/ n \in new
    <3>1. op[s] \in Op /\ gatt.live \subseteq Adapters BY DEF Shape
    <3>2. CASE ~\E a \in gatt.live : ble[a].pending = s BY <2>1, <3>1, <3>2
    <3>3. ASSUME NEW a \in gatt.live, ble[a].pending = s
          PROVE  /\ op'[s] \in Op /\ op'[s].on = op[s].on /\ op'[s].at = op[s].at
                 /\ op'[s].got = ble[a].buffer \cup new
      <4>1. s # None /\ a \in Adapters BY <3>1, RequestsAssumption
      <4>2. AdapterOf(s) = a
        BY <3>3, <4>1, LineTransportFacts DEF TextInv, Answerable, AdapterOf
      <4>3. op'[s] = Answered(heard[a], op)[s] BY <2>1, <3>3, <4>2
      <4>4. heard[a].pending = s BY <1>4, <3>3, <4>1
      <4> QED BY <1>4, <4>1, <4>3, <4>4, AnsweredFacts
    <3> QED BY <2>2, <3>1, <3>2, <3>3
  <2>4. op' \in [Requests -> Op] BY <2>1, <2>3
  <2>5. Shape' BY <1>1, <1>2, <2>2, <2>4 DEF Shape
  <2>6. \A a \in Adapters : /\ ble'[a].pending \in {ble[a].pending, None}
                            /\ \A n \in ble'[a].buffer : n \in ble[a].buffer \/ n \in new
    BY <2>2
  <2> HIDE DEF new
  <2> QED BY <1>1, <1>2, <2>3, <2>5, <2>6, HeardInv
<1>7. CASE end = FALSE
  <2>1. /\ ble' = [a \in Adapters |-> IF a \in gatt.live THEN heard[a] ELSE ble[a]]
        /\ op' = op
    BY <1>7 DEF Notify
  <2> HIDE DEF heard
  <2>2. /\ ble' \in [Adapters -> BleAdapter]
        /\ \A a \in Adapters : /\ ble'[a].pending \in {ble[a].pending, None}
                               /\ \A n \in ble'[a].buffer : n \in ble[a].buffer \/ n \in new
    BY <1>3, <1>4, <2>1
  <2>3. Shape' BY <1>1, <1>2, <2>1, <2>2 DEF Shape
  <2> HIDE DEF new
  <2> QED BY <1>1, <1>2, <2>1, <2>2, <2>3, HeardInv
<1> QED BY <1>6, <1>7

LEMMA SaysKeeps ==
  ASSUME Shape, TextInv, NEW end \in BOOLEAN, Says(end)
  PROVE  Shape' /\ TextInv'
<1> DEFINE p == [n |-> sent + 1, end |-> end]
           rx == port.rx
<1>1. /\ UNCHANGED <<plan, transport, call, op, made, gatt, ble, serial>> /\ sent' = sent + 1
      /\ port' = [port EXCEPT !.rx = Append(rx, p)]
  BY DEF Says
<1>2. sent \in Nat /\ sent' \in 0..Pieces /\ sent + 1 \in 1..Pieces
  <2>1. plan.pieces \in 0..Pieces BY PlansAssumption DEF Shape
  <2>2. sent \in 0..Pieces /\ sent < plan.pieces BY DEF Shape, Says
  <2> QED BY <1>1, <2>1, <2>2, PiecesAssumption
<1>3. rx \in Seq(Piece) /\ p \in Piece BY <1>2 DEF Shape, Port, Piece
<1>4. /\ Append(rx, p) \in Seq(Piece) /\ Len(Append(rx, p)) = Len(rx) + 1 /\ Len(rx) \in Nat
      /\ \A i \in 1..Len(rx) : Append(rx, p)[i] = rx[i]
      /\ Append(rx, p)[Len(rx) + 1] = p
  <2> HIDE DEF rx, p
  <2> QED BY <1>3, AppendProperties, LenProperties
<1>5. port' \in Port /\ port'.rx = Append(rx, p) /\ port'.reader = port.reader
  BY <1>1, <1>4 DEF Shape, Port
<1>6. Shape' BY <1>1, <1>2, <1>5 DEF Shape
<1>7. \A i \in 1..Len(port'.rx) : IF i = Len(rx) + 1 THEN port'.rx[i].n = sent + 1
                                  ELSE i \in 1..Len(rx) /\ port'.rx[i] = rx[i]
  <2>1. p.n = sent + 1 OBVIOUS
  <2> HIDE DEF rx, p
  <2> QED BY <1>4, <1>5, <2>1
<1>8. \A i \in 1..Len(rx) : rx[i].n \in Nat /\ rx[i].n <= sent
  <2>1. \A i \in 1..Len(rx) : rx[i] \in Piece BY <1>3, ElementOfSeq
  <2> QED BY <2>1, PiecesAssumption DEF Piece, TextInv, Placed
<1>9. \A n \in Nat : n <= sent => n <= sent'
  <2>1. sent \in Nat /\ sent' = sent + 1 BY <1>1, <1>2
  <2> QED BY <2>1
<1>10. \A n \in Nat : n <= sent => n # sent + 1
  <2>1. sent \in Nat BY <1>2
  <2> QED BY <2>1
<1>11. Text \subseteq SUBSET Nat BY PiecesAssumption DEF Text
<1>12. \A n : OnItsWay(n)' => OnItsWay(n) \/ n = sent + 1 BY <1>7 DEF OnItsWay
<1>13. /\ \A s \in Requests : \A n \in op[s].got : n \in Nat /\ n <= sent
       /\ \A a \in Adapters : /\ \A n \in ble[a].buffer : n \in Nat /\ n <= sent
                              /\ \A n \in serial[a].readBuffer : n \in Nat /\ n <= sent
  BY <1>11 DEF Shape, Op, BleAdapter, Text, TextInv, Placed, Sent
<1>14. Answerable' BY <1>1, <1>5 DEF TextInv, Answerable, Asked
<1>15. Placed'
  <2>1. /\ \A s \in Requests : \A n \in op[s].got : n <= sent'
        /\ \A a \in Adapters : /\ \A n \in ble[a].buffer : n <= sent'
                               /\ \A n \in serial[a].readBuffer : n <= sent'
    BY <1>9, <1>13
  <2>2. \A i \in 1..Len(port'.rx) : port'.rx[i].n <= sent'
    <3>1. sent + 1 <= sent' BY <1>1, <1>2
    <3> HIDE DEF rx
    <3> QED BY <1>7, <1>8, <1>9, <3>1
  <2>3. ASSUME NEW i \in 1..Len(port'.rx), NEW j \in 1..Len(port'.rx), i # j
        PROVE  port'.rx[i].n # port'.rx[j].n
    <3>1. CASE i = Len(rx) + 1
      <4>1. j \in 1..Len(rx) /\ port'.rx[j] = rx[j] BY <1>7, <2>3, <3>1
      <4> QED BY <1>7, <1>8, <1>10, <3>1, <4>1
    <3>2. CASE j = Len(rx) + 1
      <4>1. i \in 1..Len(rx) /\ port'.rx[i] = rx[i] BY <1>7, <2>3, <3>2
      <4> QED BY <1>7, <1>8, <1>10, <3>2, <4>1
    <3>3. CASE i # Len(rx) + 1 /\ j # Len(rx) + 1
      BY <1>7, <2>3, <3>3 DEF TextInv, Placed
    <3> QED BY <3>1, <3>2, <3>3
  <2>4. \A a \in Adapters : \A n \in serial[a].readBuffer : ~OnItsWay(n)'
    BY <1>10, <1>12, <1>13 DEF TextInv, Placed
  <2>5. \A s \in Requests : isSerialFamily(op[s].on.type) => \A n \in op[s].got : ~OnItsWay(n)'
    BY <1>10, <1>12, <1>13 DEF TextInv, Placed
  <2>6. /\ \A s \in Requests, a \in Adapters :
             op[s].on = LineTransport("ble", a) => op[s].got \cap ble[a].buffer = {}
        /\ \A s \in Requests : isSerialFamily(op[s].on.type) =>
             op[s].got \cap serial[op[s].on.adapter].readBuffer = {}
    BY DEF TextInv, Placed
  <2> QED BY <1>1, <2>1, <2>2, <2>3, <2>4, <2>5, <2>6 DEF Placed, Sent
<1>16. PieceAnswersOnce' BY <1>1 DEF TextInv, PieceAnswersOnce
<1> QED BY <1>6, <1>14, <1>15, <1>16 DEF TextInv

\* The first piece in the port, once read, is no longer on its way.
LEMMA ReadFacts ==
  ASSUME Shape, TextInv, port.rx # <<>>, port'.rx = Tail(port.rx),
         NEW first, first = Head(port.rx).n
  PROVE  /\ port'.rx \in Seq(Piece) /\ first \in 1..Pieces /\ first <= sent
         /\ OnItsWay(first) /\ ~OnItsWay(first)'
         /\ \A n : OnItsWay(n)' => OnItsWay(n)
         /\ \A i \in 1..Len(port'.rx) : port'.rx[i].n <= sent
         /\ \A i, j \in 1..Len(port'.rx) : i # j => port'.rx[i].n # port'.rx[j].n
<1> DEFINE rx == port.rx
<1>1. rx \in Seq(Piece) /\ rx # <<>> BY DEF Shape, Port
<1>2. /\ Head(rx) = rx[1] /\ Head(rx) \in Piece /\ Tail(rx) \in Seq(Piece)
      /\ Len(rx) \in Nat /\ Len(rx) >= 1 /\ Len(Tail(rx)) = Len(rx) - 1
      /\ \A i \in 1..Len(Tail(rx)) : Tail(rx)[i] = rx[i + 1] /\ i + 1 \in 1..Len(rx) /\ i + 1 # 1
  <2> HIDE DEF rx
  <2>1. Len(rx) \in Nat /\ Len(rx) # 0 BY <1>1, EmptySeq, LenProperties
  <2> QED BY <1>1, <2>1, HeadTailProperties
<1>3. 1 \in 1..Len(rx) BY <1>2
<1>4. \A i \in 1..Len(port'.rx) : port'.rx[i] = rx[i + 1] /\ i + 1 \in 1..Len(rx) /\ i + 1 # 1
  BY <1>2
<1>5. /\ \A i \in 1..Len(rx) : rx[i].n <= sent
      /\ \A i, j \in 1..Len(rx) : i # j => rx[i].n # rx[j].n
  BY DEF TextInv, Placed
<1>6. \A i, j \in 1..Len(port'.rx) : i # j => i + 1 # j + 1 OBVIOUS
<1>7. \A n : OnItsWay(n)' => OnItsWay(n) BY <1>4 DEF OnItsWay
<1>8. OnItsWay(first) BY <1>2, <1>3 DEF OnItsWay
<1>9. ~OnItsWay(first)'
  <2>1. \A i \in 1..Len(port'.rx) : port'.rx[i].n # rx[1].n BY <1>3, <1>4, <1>5
  <2> QED BY <1>2, <2>1 DEF OnItsWay
<1>10. first \in 1..Pieces BY <1>2 DEF Piece
<1> HIDE DEF rx
<1> QED BY <1>2, <1>3, <1>4, <1>5, <1>6, <1>7, <1>8, <1>9, <1>10 DEF rx

LEMMA SerialReadKeeps ==
  ASSUME Shape, TextInv, NEW s \in Requests, SerialRead(s)
  PROVE  Shape' /\ TextInv'
<1>0. PICK first : first = Head(port.rx).n OBVIOUS
<1> DEFINE a == AdapterOf(s)
           text == serial[a].readBuffer \cup {first}
           ended == Head(port.rx).end
<1>1. /\ UNCHANGED <<plan, transport, made, gatt, ble, sent>>
      /\ port.reader = s /\ port.rx # <<>>
      /\ port' = [port EXCEPT !.rx = Tail(@), !.reader = IF ended THEN None ELSE @]
      /\ serial' = [serial EXCEPT ![a].readBuffer = IF ended THEN {} ELSE text]
      /\ IF ended THEN op' = [op EXCEPT ![s].at = "over", ![s].got = text] /\ Settle(s, TRUE)
         ELSE op' = op /\ call' = call
  <2> USE <1>0 DEF SerialRead
  <2>1. CASE ended BY <2>1
  <2>2. CASE ~ended
    <3>1. [port EXCEPT !.rx = Tail(@)] = [port EXCEPT !.rx = Tail(@), !.reader = @]
      BY DEF Shape, Port
    <3> QED BY <2>2, <3>1
  <2> QED BY <2>1, <2>2
<1>2. call[s].st # "idle" /\ isSerialFamily(op[s].on.type)
  BY <1>1, RequestsAssumption DEF TextInv, Answerable, Asked
<1>3. a \in Adapters /\ op[s].on.type # "ble"
  <2>1. op[s].on \in Transports BY DEF Shape, Op
  <2> QED BY <1>2, <2>1, LineTransportFacts DEF AdapterOf
<1>4. /\ port' \in Port /\ port'.rx = Tail(port.rx) /\ port'.reader \in {port.reader, None}
  <2>1. port.rx \in Seq(Piece) /\ Tail(port.rx) \in Seq(Piece) BY <1>1, HeadTailProperties DEF Shape, Port
  <2> QED BY <1>1, <2>1 DEF Shape, Port
<1>5. /\ first \in 1..Pieces /\ first <= sent /\ OnItsWay(first) /\ ~OnItsWay(first)'
      /\ \A n : OnItsWay(n)' => OnItsWay(n)
      /\ \A i \in 1..Len(port'.rx) : port'.rx[i].n <= sent
      /\ \A i, j \in 1..Len(port'.rx) : i # j => port'.rx[i].n # port'.rx[j].n
  BY <1>0, <1>1, <1>4, ReadFacts
<1>6. text \in Text /\ \A n \in text : n <= sent /\ ~OnItsWay(n)'
  <2>1. serial[a].readBuffer \in Text BY <1>3 DEF Shape
  <2>2. \A n \in serial[a].readBuffer : n <= sent /\ ~OnItsWay(n)
    BY <1>3 DEF TextInv, Placed, Sent
  <2> QED BY <1>5, <2>1, <2>2 DEF Text
<1>7. /\ serial' \in [Adapters -> [opened : BOOLEAN, readBuffer : Text]]
      /\ serial'[a].readBuffer = IF ended THEN {} ELSE text
      /\ \A c \in Adapters : c # a => serial'[c] = serial[c]
  <2> HIDE DEF ended, text, a
  <2>1. (IF ended THEN {} ELSE text) \in Text BY <1>6 DEF Text
  <2> QED BY <1>1, <1>3, <2>1 DEF Shape
<1>8. /\ op' \in [Requests -> Op]
      /\ \A r \in Requests :
           /\ op'[r].on = op[r].on
           /\ r # s => op'[r].at = op[r].at
           /\ op'[r].got = IF ended /\ r = s THEN text ELSE op[r].got
  <2>1. CASE ended
    <3> DEFINE o == [op[s] EXCEPT !.at = "over", !.got = text]
    <3>1. op[s] \in Op BY DEF Shape
    <3>2. text \in SUBSET (1..Pieces) BY <1>6 DEF Text
    <3> HIDE DEF text
    <3>3. o \in Op /\ o.on = op[s].on /\ o.got = text BY <3>1, <3>2 DEF Op
    <3>4. op' = [op EXCEPT ![s] = o] BY <1>1, <2>1 DEF Shape
    <3> HIDE DEF o
    <3> QED BY <2>1, <3>3, <3>4 DEF Shape
  <2>2. CASE ~ended BY <1>1, <2>2 DEF Shape
  <2> QED BY <2>1, <2>2
<1>9. /\ call' \in [Requests -> Call]
      /\ \A r \in Requests : call'[r].st = "idle" => call[r].st = "idle"
  BY <1>1, SettleFacts DEF Shape
<1> HIDE DEF ended, text
<1>10. Shape' BY <1>1, <1>4, <1>7, <1>8, <1>9 DEF Shape
<1>11. Answerable'
  <2>1. ASSUME NEW r \in Requests, call'[r].st = "idle"
        PROVE  op'[r].at = "none" /\ op'[r].got = {}
    <3>1. r # s /\ call[r].st = "idle" BY <1>2, <1>9, <2>1
    <3> QED BY <1>8, <3>1 DEF TextInv, Answerable
  <2>2. \A r : Asked(r) => Asked(r)' BY <1>9 DEF Asked
  <2>3. ASSUME NEW r \in Requests, Asked(r) PROVE op'[r].on = op[r].on BY <1>8
  <2> HIDE DEF a
  <2>4. ASSUME NEW c \in Adapters, ble[c].pending # None
        PROVE  Asked(ble[c].pending)' /\ op'[ble[c].pending].on = LineTransport("ble", c)
    <3>1. Asked(ble[c].pending) /\ op[ble[c].pending].on = LineTransport("ble", c)
      BY <2>4 DEF TextInv, Answerable
    <3> QED BY <2>2, <2>3, <3>1, <1>1 DEF Asked
  <2>5. ASSUME port'.reader # None
        PROVE  Asked(port.reader)' /\ isSerialFamily(op'[port'.reader].on.type)
    <3>1. port'.reader = s BY <1>1, <1>4, <2>5
    <3>2. Asked(s) BY <1>2 DEF Asked
    <3>3. Asked(s)' BY <1>2, <1>9 DEF Asked
    <3>4. isSerialFamily(op'[s].on.type) BY <1>2, <2>3, <3>2
    <3> QED BY <3>1, <3>3, <3>4 DEF Asked
  <2> QED BY <1>1, <2>1, <2>4, <2>5 DEF Answerable
<1>12. Placed'
  <2>1. \A r \in Requests : Sent(op'[r].got) BY <1>6, <1>8 DEF TextInv, Placed, Sent
  <2>2. \A c \in Adapters : Sent(ble[c].buffer) /\ Sent(serial'[c].readBuffer)
    BY <1>6, <1>7 DEF TextInv, Placed, Sent
  <2>3. \A c \in Adapters : \A n \in serial'[c].readBuffer : ~OnItsWay(n)'
    BY <1>5, <1>6, <1>7 DEF TextInv, Placed
  <2>4. ASSUME NEW r \in Requests, NEW c \in Adapters, op'[r].on = LineTransport("ble", c)
        PROVE  op'[r].got \cap ble[c].buffer = {}
    <3>1. op[r].on = LineTransport("ble", c) BY <1>8, <2>4
    <3>2. r # s BY <1>3, <3>1, LineTransportFacts
    <3> QED BY <1>8, <3>1, <3>2 DEF TextInv, Placed
  <2>5. ASSUME NEW r \in Requests, isSerialFamily(op'[r].on.type)
        PROVE  /\ op'[r].got \cap serial'[op'[r].on.adapter].readBuffer = {}
               /\ \A n \in op'[r].got : ~OnItsWay(n)'
    <3> DEFINE c == op[r].on.adapter
    <3>1. op'[r].on = op[r].on BY <1>8
    <3>2. c \in Adapters
      <4>1. op[r].on \in Transports BY DEF Shape, Op
      <4> QED BY <2>5, <3>1, <4>1, LineTransportFacts
    <3>3. /\ op[r].got \cap serial[c].readBuffer = {}
          /\ \A n \in op[r].got : ~OnItsWay(n)
      BY <2>5, <3>1 DEF TextInv, Placed
    <3>4. c # a => serial'[c] = serial[c] BY <1>7, <3>2
    <3>5. CASE ended /\ r = s
      <4>1. c = a BY <3>5 DEF AdapterOf
      <4> QED BY <1>6, <1>7, <1>8, <3>1, <3>5, <4>1
    <3>6. CASE ~(ended /\ r = s)
      <4>1. op'[r].got = op[r].got BY <1>8, <3>6
      <4>2. CASE c = a
        <5>1. op[r].got \cap text = {} BY <1>5, <3>3, <4>2 DEF text
        <5> QED BY <1>5, <1>7, <3>1, <3>3, <4>1, <4>2, <5>1
      <4>3. CASE c # a BY <1>5, <3>1, <3>3, <3>4, <4>1, <4>3
      <4> QED BY <4>2, <4>3
    <3> QED BY <3>5, <3>6
  <2> HIDE DEF a
  <2> QED BY <1>1, <1>5, <2>1, <2>2, <2>3, <2>4, <2>5 DEF Placed, Sent
<1>13. ASSUME NEW r \in Requests, r # s, op[r].on = op[s].on
       PROVE  op[r].got \cap text = {}
  <2>1. op[r].on.adapter = a BY <1>13 DEF AdapterOf
  <2>2. /\ op[r].got \cap serial[a].readBuffer = {}
        /\ \A n \in op[r].got : ~OnItsWay(n)
    BY <1>2, <1>13, <2>1 DEF TextInv, Placed
  <2> QED BY <1>5, <2>2 DEF text
<1>14. PieceAnswersOnce'
  <2>1. ASSUME NEW r \in Requests, NEW t \in Requests, r # t, op'[r].on = op'[t].on
        PROVE  op'[r].got \cap op'[t].got = {}
    <3>1. op[r].on = op[t].on BY <1>8, <2>1
    <3>2. CASE ended /\ r = s BY <1>8, <1>13, <2>1, <3>1, <3>2
    <3>3. CASE ended /\ t = s BY <1>8, <1>13, <2>1, <3>1, <3>3
    <3>4. CASE ~(ended /\ (r = s \/ t = s))
      BY <1>8, <2>1, <3>1, <3>4 DEF TextInv, PieceAnswersOnce
    <3> QED BY <3>2, <3>3, <3>4
  <2> QED BY <2>1 DEF PieceAnswersOnce
<1> QED BY <1>10, <1>11, <1>12, <1>14 DEF TextInv

-----------------------------------------------------------------------------
LEMMA StepKeeps ==
  ASSUME Shape, TextInv, [Next]_vars
  PROVE  Shape' /\ TextInv'
<1>1. CASE UNCHANGED vars
  <2>1. Shape' BY <1>1 DEF vars, Shape
  <2>2. Quiet BY <1>1 DEF vars, Quiet
  <2> QED BY <2>1, <2>2, QuietInv
<1>2. CASE Controller
  <2>1. ASSUME NEW s \in Requests, NEW tracked \in BOOLEAN, Start(s, tracked)
        PROVE  Shape' /\ TextInv'
    BY <2>1, StartKeeps
  <2>2. ASSUME NEW s \in Requests, RefuseArguments(s) \/ Continue(s) PROVE Shape' /\ TextInv'
    BY <2>2, CallsAreQuiet, QuietInv
  <2>3. ASSUME \/ ConnectHttp \/ ConnectBle \/ ConnectSerial \/ SetTransport \/ EndClose
               \/ \E kind \in {"set", "disconnect"} : RequestSwap(kind)
        PROVE  Shape' /\ TextInv'
    BY <2>3, SwapsAreQuiet, QuietInv
  <2>4. CASE BeginClose BY <2>4, CloseIsQuiet, QuietInv
  <2> QED BY <1>2, <2>1, <2>2, <2>3, <2>4 DEF Controller
<1>3. CASE Http BY <1>3, HttpIsQuiet, QuietInv
<1>4. CASE Ble
  <2>1. ASSUME NEW end \in BOOLEAN, Notify(end) PROVE Shape' /\ TextInv' BY <2>1, NotifyKeeps
  <2>2. ASSUME NEW a \in Adapters, FlushTimer(a) PROVE Shape' /\ TextInv'
    BY <2>2, FlushTimerKeeps
  <2>3. ASSUME NEW s \in Requests, BleWriteFails(s) \/ BleReturns(s) \/ BleTimeout(s)
        PROVE  Shape' /\ TextInv'
    BY <2>3, TimersAreQuiet, QuietInv
  <2>4. ASSUME \/ BleLost \/ \E s \in Requests : BleWritten(s)
               \/ \E a \in Adapters : WaitTimer(a)
        PROVE  Shape' /\ TextInv'
    BY <2>4, BleIsQuiet, QuietInv
  <2> QED BY <1>4, <2>1, <2>2, <2>3, <2>4 DEF Ble
<1>5. CASE Serial
  <2>1. ASSUME NEW end \in BOOLEAN, Says(end) PROVE Shape' /\ TextInv' BY <2>1, SaysKeeps
  <2>2. ASSUME NEW s \in Requests, SerialRead(s) PROVE Shape' /\ TextInv'
    BY <2>2, SerialReadKeeps
  <2>3. ASSUME NEW s \in Requests, SerialWritten(s) \/ SerialWriteFails(s) \/ SerialGivesUp(s)
        PROVE  Shape' /\ TextInv'
    BY <2>3, SerialIsQuiet, QuietInv
  <2>4. ASSUME NEW s \in Requests, SerialTimeout(s) PROVE Shape' /\ TextInv'
    BY <2>4, TimersAreQuiet, QuietInv
  <2> QED BY <1>5, <2>1, <2>2, <2>3, <2>4 DEF Serial
<1> QED BY <1>1, <1>2, <1>3, <1>4, <1>5 DEF Next

\* Whatever the transports, their timers and the user do, and in whatever order
\* the text comes: no piece of it answers two requests of one transport.
THEOREM OneAnswerPerPiece == Spec => []PieceAnswersOnce
<1>1. Init => Shape /\ TextInv BY InitHolds
<1>2. (Shape /\ TextInv) /\ [Next]_vars => (Shape /\ TextInv)' BY StepKeeps
<1>3. Shape /\ TextInv => PieceAnswersOnce BY DEF TextInv
<1> QED BY <1>1, <1>2, <1>3, PTL DEF Spec
===============================================================================
