----------------------------- MODULE ClientLink -----------------------------
(***************************************************************************)
(* The client's way to the board (src/client/src/hardware): the            *)
(* HardwareController and its active transport, the HTTP, BLE and serial   *)
(* transports with their timeouts, and the Web Bluetooth and Web Serial    *)
(* adapters below them.  JavaScript runs one task at a time, so a step is  *)
(* the code between two awaits.                                            *)
(*                                                                         *)
(* A request is one call of runCommand, runRawCommand or readStatus.       *)
(* call[s] is the caller's promise; op[s] is the operation the transport   *)
(* started for it, which goes on after the caller's timeout.               *)
(***************************************************************************)
EXTENDS Integers, Sequences, FiniteSets, Functions

CONSTANTS
  Requests,  \* calls of the controller, each made at most once
  MaxAdapters, \* bound on the adapter objects the client creates
  Pieces,    \* bound on the pieces of text the board sends
  Plans      \* what a user does: the transports in use, the adapters created, the
             \* other calls made, and how much the board says meanwhile

ASSUME AdaptersAssumption == MaxAdapters \in Nat
ASSUME PiecesAssumption == Pieces \in Nat

None == "none"
ASSUME RequestsAssumption == None \notin Requests
Adapters == 1..MaxAdapters
TransportType == {"http", "ble", "serial", "bluetooth-serial", "unsupported"}
isSerialFamily(type) == type \in {"serial", "bluetooth-serial"}
ASSUME PlansAssumption ==
  Plans \subseteq [use : SUBSET (TransportType \ {"unsupported"}), adapters : 0..MaxAdapters,
                   calls : SUBSET {"readStatus", "badArguments", "set", "disconnect"},
                   pieces : 0..Pieces]

UnsupportedTransport == [type |-> "unsupported", adapter |-> 0]
HttpCommandTransport == [type |-> "http", adapter |-> 0]
LineTransport(type, a) == [type |-> type, adapter |-> a]

Transports == {UnsupportedTransport, HttpCommandTransport}
                \cup {LineTransport(k, a) : k \in {"ble", "serial", "bluetooth-serial"}, a \in Adapters}

VARIABLES
  plan,
  transport,  \* HardwareController.transport
  inflight,   \* HardwareController.inflight: the request whose promise it holds
  call,       \* request -> the caller's promise
  op,         \* request -> what the transport is doing for it
  swap,       \* setTransport or disconnectTransport under way
  made,       \* number of adapters created
  gatt,       \* the BLE device: its connection and the adapters it notifies
  ble,        \* adapter -> WebBluetoothBlePeripheral
  port,       \* the serial port of the page: open, its locks, its unread data
  serial,     \* adapter -> WebSerialPortAdapter
  sent        \* number of pieces the board has sent

vars == <<plan, transport, inflight, call, op, swap, made, gatt, ble, port, serial, sent>>
line == <<gatt, ble, port, serial>>

\* A call: not made, its promise open, settled, or settled and continued.
Call == [st : {"idle", "open", "settled", "done"}, ok : BOOLEAN, tracked : BOOLEAN]
\* An operation: where it is, on which transport, what its answer promise has
\* become, and the pieces of the answer.
Op == [at : {"none", "fetch", "body", "write", "read", "wait", "over"}, on : Transports,
       resp : {"none", "answer", "timeout", "refused"}, got : SUBSET (1..Pieces)]
Piece == [n : 1..Pieces, end : BOOLEAN]

TypeOK ==
  /\ plan \in Plans /\ transport \in Transports
  /\ inflight \in Requests \cup {None}
  /\ call \in [Requests -> Call] /\ op \in [Requests -> Op]
  /\ swap \in [st : {"idle", "waiting", "closing"}, on : Requests \cup {None},
               kind : {"set", "disconnect"}]
  /\ made \in 0..MaxAdapters
  /\ gatt \in [connected : BOOLEAN, live : SUBSET Adapters]
  /\ \A a \in Adapters :
       /\ ble[a].pending \in Requests \cup {None} /\ ble[a].flushTimer \in BOOLEAN
       /\ ble[a].buffer \subseteq 1..Pieces
       /\ Range(ble[a].timers) \subseteq Requests
       /\ serial[a] \in [opened : BOOLEAN, readBuffer : SUBSET (1..Pieces)]
  /\ port \in [open : {FALSE} \cup {\E k \in plan.use : isSerialFamily(k)}, writer : Requests \cup {None}, reader : Requests \cup {None},
               rx : Seq(Piece)]
  /\ sent \in 0..Pieces
Init ==
  /\ plan \in Plans
  /\ transport = HttpCommandTransport /\ inflight = None
  /\ call = [s \in Requests |-> [st |-> "idle", ok |-> FALSE, tracked |-> FALSE]]
  /\ op = [s \in Requests |-> [at |-> "none", on |-> UnsupportedTransport, resp |-> "none", got |-> {}]]
  /\ swap = [st |-> "idle", on |-> None, kind |-> "disconnect"]
  /\ made = 0
  /\ gatt = [connected |-> FALSE, live |-> {}]
  /\ ble = [a \in Adapters |-> [pending |-> None, timers |-> <<>>, buffer |-> {}, flushTimer |-> FALSE]]
  /\ port \in [open : {FALSE} \cup {\E k \in plan.use : isSerialFamily(k)}, writer : {None}, reader : {None}, rx : {<<>>}]
  /\ serial = [a \in Adapters |-> [opened |-> FALSE, readBuffer |-> {}]]
  /\ sent = 0

-----------------------------------------------------------------------------
(* Settling a caller's promise: only the first outcome counts.              *)

Settle(s, ok) ==
  call' = IF call[s].st = "open" THEN [call EXCEPT ![s].st = "settled", ![s].ok = ok] ELSE call

\* The transport's own timer, which a settled operation has cleared.
TimedOut(s) == /\ call[s].st = "open" /\ Settle(s, FALSE)

-----------------------------------------------------------------------------
(* The controller *)

isOpen(tr) ==
  CASE tr.type = "http" -> TRUE
    [] tr.type = "ble" -> gatt.connected
    [] isSerialFamily(tr.type) -> serial[tr.adapter].opened
    [] OTHER -> FALSE

\* WebBluetoothBlePeripheral.writeCommand up to its first await: the request
\* waits for a notification unless another one does, and is written anyway.
BleBegin(s, a) ==
  IF ble[a].pending # None
  THEN /\ op' = [op EXCEPT ![s] = [at |-> "write", on |-> transport, resp |-> "refused", got |-> {}]]
       /\ UNCHANGED ble
  ELSE /\ op' = [op EXCEPT ![s] = [at |-> "write", on |-> transport, resp |-> "none", got |-> {}]]
       /\ ble' = [ble EXCEPT ![a].pending = s, ![a].timers = Append(@, s)]

\* WebSerialPortAdapter.writeLine up to its first await.
SerialBegin(s) ==
  /\ op' = [op EXCEPT ![s] = [at |-> "write", on |-> transport, resp |-> "none", got |-> {}]]
  /\ port' = [port EXCEPT !.writer = s]

\* transport.send or transport.status, called by runCommand, runRawCommand
\* (tracked in inflight) or readStatus (not tracked).
Start(s, tracked) ==
  /\ call[s].st = "idle" /\ transport.type \in plan.use \cup {"unsupported"}
  /\ tracked \/ "readStatus" \in plan.calls
  /\ inflight' = IF tracked THEN s ELSE inflight
  /\ LET busyPort == isSerialFamily(transport.type) /\ (~port.open \/ port.writer # None)
         refused  == ~isOpen(transport) \/ busyPort
     IN IF refused
        THEN /\ call' = [call EXCEPT ![s] = [st |-> "settled", ok |-> FALSE, tracked |-> tracked]]
             /\ UNCHANGED <<op, ble, port>>
        ELSE /\ call' = [call EXCEPT ![s] = [st |-> "open", ok |-> FALSE, tracked |-> tracked]]
             /\ CASE transport.type = "http" ->
                       /\ op' = [op EXCEPT ![s].at = "fetch", ![s].on = transport]
                       /\ UNCHANGED <<ble, port>>
                  [] transport.type = "ble" -> BleBegin(s, transport.adapter) /\ UNCHANGED port
                  [] OTHER -> SerialBegin(s) /\ UNCHANGED ble
  /\ UNCHANGED <<plan, transport, swap, made, gatt, serial, sent>>

\* runCommand with arguments its builder refuses: nothing is sent, and the
\* catch clears inflight, whoever's request it holds.
RefuseArguments(s) ==
  /\ call[s].st = "idle" /\ "badArguments" \in plan.calls
  /\ call' = [call EXCEPT ![s] = [st |-> "done", ok |-> FALSE, tracked |-> TRUE]]
  /\ inflight' = None
  /\ UNCHANGED <<plan, transport, op, swap, made, sent>> /\ UNCHANGED line

\* The caller's code after its await.
Continue(s) ==
  /\ call[s].st = "settled"
  /\ call' = [call EXCEPT ![s].st = "done"]
  /\ inflight' = IF call[s].tracked THEN None ELSE inflight
  /\ UNCHANGED <<plan, transport, op, swap, made, sent>> /\ UNCHANGED line

\* connectViaRestApi, connectViaBle, connectViaComPort and
\* connectViaBluetoothComPort replace the transport at once.
ConnectHttp ==
  /\ "http" \in plan.use /\ transport' = HttpCommandTransport
  /\ UNCHANGED <<plan, inflight, call, op, swap, made, sent>> /\ UNCHANGED line

\* connectRuntimeBlePeripheral: a new adapter, notified by the same device.
ConnectBle ==
  /\ "ble" \in plan.use /\ made < plan.adapters
  /\ made' = made + 1
  /\ gatt' = [connected |-> TRUE, live |-> gatt.live \cup {made + 1}]
  /\ transport' = LineTransport("ble", made + 1)
  /\ UNCHANGED <<plan, inflight, call, op, swap, ble, port, serial, sent>>

\* requestRuntimeSerialPort: a new adapter of the page's port, "opened" when
\* the port already is.
ConnectSerial ==
  \E k \in plan.use :
    /\ isSerialFamily(k) /\ made < plan.adapters
    /\ made' = made + 1
    /\ serial' = [serial EXCEPT ![made + 1].opened = port.open]
    /\ transport' = LineTransport(k, made + 1)
    /\ UNCHANGED <<plan, inflight, call, op, swap, gatt, ble, port, sent>>

\* setTransport and disconnectTransport wait for the request that inflight
\* holds when they are called, and go on at once when it holds none.
RequestSwap(kind) ==
  /\ swap.st = "idle" /\ kind \in plan.calls /\ inflight # None
  /\ swap' = [st |-> "waiting", on |-> inflight, kind |-> kind]
  /\ UNCHANGED <<plan, transport, inflight, call, op, made, sent>> /\ UNCHANGED line

MayGoOn(kind) ==
  IF swap.st = "idle" THEN kind \in plan.calls /\ inflight = None
  ELSE swap.st = "waiting" /\ swap.kind = kind /\ call[swap.on].st = "done"

\* setTransport's last statement.
SetTransport ==
  /\ MayGoOn("set")
  /\ transport' = HttpCommandTransport /\ swap' = [swap EXCEPT !.st = "idle", !.on = None]
  /\ UNCHANGED <<plan, inflight, call, op, made, sent>> /\ UNCHANGED line

\* transport.close(): a port with a locked stream refuses to close and stays
\* open, as does its adapter.
Close(tr) ==
  CASE tr.type = "ble" ->
         gatt' = [connected |-> FALSE, live |-> {}] /\ UNCHANGED <<port, serial>>
    [] isSerialFamily(tr.type) ->
         /\ IF serial[tr.adapter].opened /\ port.writer = None /\ port.reader = None
            THEN /\ port' = [port EXCEPT !.open = FALSE, !.rx = <<>>]
                 /\ serial' = [serial EXCEPT ![tr.adapter] = [opened |-> FALSE, readBuffer |-> {}]]
            ELSE UNCHANGED <<port, serial>>
         /\ UNCHANGED gatt
    [] OTHER -> UNCHANGED <<gatt, port, serial>>

BeginClose ==
  /\ MayGoOn("disconnect")
  /\ inflight' = None
  /\ Close(transport)
  /\ swap' = [swap EXCEPT !.st = "closing", !.on = None, !.kind = "disconnect"]
  /\ UNCHANGED <<plan, transport, call, op, made, ble, sent>>

\* The finally of disconnectTransport: whatever transport is active by then.
EndClose ==
  /\ swap.st = "closing"
  /\ transport' = UnsupportedTransport /\ swap' = [swap EXCEPT !.st = "idle"]
  /\ UNCHANGED <<plan, inflight, call, op, made, sent>> /\ UNCHANGED line

-----------------------------------------------------------------------------
(* HTTP: the abort timer covers the fetch and not the reading of the body.  *)

Over(s) == op' = [op EXCEPT ![s].at = "over", ![s].resp = "none"]

HttpHeaders(s) ==
  /\ op[s].at = "fetch" /\ op' = [op EXCEPT ![s].at = "body"]
  /\ UNCHANGED <<plan, transport, inflight, call, swap, made, sent>> /\ UNCHANGED line

\* The body is read; an answer that is not ok becomes an error.
HttpBody(s) ==
  /\ op[s].at = "body" /\ Over(s)
  /\ \E ok \in BOOLEAN : Settle(s, ok)
  /\ UNCHANGED <<plan, transport, inflight, swap, made, sent>> /\ UNCHANGED line

\* The abort timer, or an error of the network.
HttpAborts(s) ==
  /\ op[s].at = "fetch" /\ Over(s) /\ Settle(s, FALSE)
  /\ UNCHANGED <<plan, transport, inflight, swap, made, sent>> /\ UNCHANGED line

-----------------------------------------------------------------------------
(* BLE *)

On(s, type) == op[s].on.type = type
AdapterOf(s) == op[s].on.adapter

\* flushPending: the buffer answers whichever request is pending, or is lost.
FlushedKeeps(b) == [b EXCEPT !.flushTimer = FALSE, !.pending = None]   \* mutant: text kept
Flushed(b) == [b EXCEPT !.flushTimer = FALSE, !.buffer = {}, !.pending = None]
Answered(b, o) ==
  IF b.pending = None THEN o
  ELSE [o EXCEPT ![b.pending].resp = "answer", ![b.pending].got = b.buffer]

\* The characteristicvaluechanged handlers of every adapter of the device: a
\* piece with a newline flushes at once, another one arms the 120 ms timer.
Notify(end) ==
  /\ gatt.connected /\ sent < plan.pieces /\ sent' = sent + 1
  /\ LET heard == [a \in Adapters |-> [ble[a] EXCEPT !.buffer = @ \cup {sent + 1}, !.flushTimer = TRUE]]
     IN IF end
        THEN /\ ble' = [a \in Adapters |-> IF a \in gatt.live THEN Flushed(heard[a]) ELSE ble[a]]
             /\ op' = [s \in Requests |->
                         IF \E a \in gatt.live : ble[a].pending = s
                         THEN Answered(heard[AdapterOf(s)], op)[s] ELSE op[s]]
        ELSE /\ ble' = [a \in Adapters |-> IF a \in gatt.live THEN heard[a] ELSE ble[a]]
             /\ UNCHANGED op
  /\ UNCHANGED <<plan, transport, inflight, call, swap, made, gatt, port, serial>>

FlushTimer(a) ==
  /\ ble[a].flushTimer
  /\ ble' = [ble EXCEPT ![a] = Flushed(@)] /\ op' = Answered(ble[a], op)
  /\ UNCHANGED <<plan, transport, inflight, call, swap, made, gatt, port, serial, sent>>

\* The 5 s timer of the oldest request: nobody cancels it when that request is
\* answered, and it rejects the request that is pending when it fires.
WaitTimerOnlyRejects(a) ==                 \* mutant: the adapter's place is not given back
  /\ ble[a].timers # <<>> /\ ble' = [ble EXCEPT ![a].timers = Tail(@)]
  /\ IF ble[a].pending = None THEN UNCHANGED op ELSE op' = [op EXCEPT ![ble[a].pending].resp = "timeout"]
  /\ UNCHANGED <<plan, transport, inflight, call, swap, made, gatt, port, serial, sent>>
WaitTimer(a) ==
  /\ ble[a].timers # <<>>
  /\ LET late == ble[a].pending
         rest == [ble[a] EXCEPT !.timers = Tail(@)]
     IN IF late = None THEN ble' = [ble EXCEPT ![a] = rest] /\ UNCHANGED op
        ELSE /\ ble' = [ble EXCEPT ![a] = [rest EXCEPT !.pending = None, !.buffer = {}]]
             /\ op' = [op EXCEPT ![late].resp = "timeout"]
  /\ UNCHANGED <<plan, transport, inflight, call, swap, made, gatt, port, serial, sent>>

\* writeValue resolves; the answer promise decides.
BleWritten(s) ==
  /\ op[s].at = "write" /\ On(s, "ble") /\ op' = [op EXCEPT ![s].at = "wait"]
  /\ UNCHANGED <<plan, transport, inflight, call, swap, made, sent>> /\ UNCHANGED line

\* writeValue rejects: the request fails, and its place stays taken.
BleWriteFails(s) ==
  /\ op[s].at = "write" /\ On(s, "ble") /\ Over(s) /\ Settle(s, FALSE)
  /\ UNCHANGED <<plan, transport, inflight, swap, made, sent>> /\ UNCHANGED line

BleReturns(s) ==
  /\ op[s].at = "wait" /\ On(s, "ble") /\ op[s].resp # "none"
  /\ Over(s) /\ Settle(s, op[s].resp = "answer")
  /\ UNCHANGED <<plan, transport, inflight, swap, made, sent>> /\ UNCHANGED line

\* BleCommandTransport.withTimeout, as long as the wait timer set just before.
BleTimeoutOnceWritten(s) ==                \* mutant: the timer starts after the write
  /\ op[s].at = "wait" /\ On(s, "ble") /\ s \notin Range(ble[AdapterOf(s)].timers)
  /\ TimedOut(s)
  /\ UNCHANGED <<plan, transport, inflight, op, swap, made, sent>> /\ UNCHANGED line
BleTimeout(s) ==
  /\ op[s].at \in {"write", "wait"} /\ On(s, "ble") /\ s \notin Range(ble[AdapterOf(s)].timers)
  /\ TimedOut(s)
  /\ UNCHANGED <<plan, transport, inflight, op, swap, made, sent>> /\ UNCHANGED line

\* The device goes out of reach.
BleLost ==
  /\ gatt.connected /\ gatt' = [connected |-> FALSE, live |-> {}]
  /\ UNCHANGED <<plan, transport, inflight, call, op, swap, made, ble, port, serial, sent>>

-----------------------------------------------------------------------------
(* Serial *)

\* The board writes to the port, asked or not.
Says(end) ==
  /\ port.open /\ sent < plan.pieces /\ sent' = sent + 1
  /\ port' = [port EXCEPT !.rx = Append(@, [n |-> sent + 1, end |-> end])]
  /\ UNCHANGED <<plan, transport, inflight, call, op, swap, made, gatt, ble, serial>>

\* The line is written; getReader throws while another request reads.
SerialWritten(s) ==
  /\ op[s].at = "write" /\ isSerialFamily(op[s].on.type)
  /\ IF port.reader = None
     THEN /\ port' = [port EXCEPT !.writer = None, !.reader = s]
          /\ op' = [op EXCEPT ![s].at = "read"] /\ UNCHANGED call
     ELSE /\ port' = [port EXCEPT !.writer = None] /\ Over(s) /\ Settle(s, FALSE)
  /\ UNCHANGED <<plan, transport, inflight, swap, made, gatt, ble, serial, sent>>

SerialWriteFails(s) ==
  /\ op[s].at = "write" /\ isSerialFamily(op[s].on.type)
  /\ port' = [port EXCEPT !.writer = None] /\ Over(s) /\ Settle(s, FALSE)
  /\ UNCHANGED <<plan, transport, inflight, swap, made, gatt, ble, serial, sent>>

\* One read: a piece that ends a line is the answer, together with what was
\* left in readBuffer; another one joins readBuffer.
SerialRead(s) ==
  /\ port.reader = s /\ port.rx # <<>>
  /\ LET a == AdapterOf(s)  piece == Head(port.rx)  text == serial[a].readBuffer \cup {piece.n}
     IN IF piece.end
        THEN /\ op' = [op EXCEPT ![s].at = "over", ![s].got = text]
             /\ serial' = [serial EXCEPT ![a].readBuffer = {}]
             /\ port' = [port EXCEPT !.rx = Tail(@), !.reader = None]
             /\ Settle(s, TRUE)
        ELSE /\ serial' = [serial EXCEPT ![a].readBuffer = text]
             /\ port' = [port EXCEPT !.rx = Tail(@)]
             /\ UNCHANGED <<op, call>>
  /\ UNCHANGED <<plan, transport, inflight, swap, made, gatt, ble, sent>>

\* The end of the 5 s loop or of a 5 s read, or a stream that fails: the lock
\* goes.  The transport's 3 s are over by then unless the stream failed.
SerialGivesUp(s) ==
  /\ port.reader = s
  /\ port' = [port EXCEPT !.reader = None] /\ Over(s) /\ Settle(s, FALSE)
  /\ UNCHANGED <<plan, transport, inflight, swap, made, gatt, ble, serial, sent>>

\* SerialCommandTransport.withTimeout; BluetoothSerialCommandTransport has the same.
SerialTimeout(s) ==
  /\ op[s].at \in {"write", "read"} /\ isSerialFamily(op[s].on.type) /\ TimedOut(s)
  /\ UNCHANGED <<plan, transport, inflight, op, swap, made, sent>> /\ UNCHANGED line

-----------------------------------------------------------------------------
Controller ==
  \/ \E s \in Requests, tracked \in BOOLEAN : Start(s, tracked)
  \/ \E s \in Requests : RefuseArguments(s) \/ Continue(s)
  \/ ConnectHttp \/ ConnectBle \/ ConnectSerial
  \/ \E kind \in {"set", "disconnect"} : RequestSwap(kind)
  \/ SetTransport \/ BeginClose \/ EndClose

Http == \E s \in Requests : HttpHeaders(s) \/ HttpBody(s) \/ HttpAborts(s)

Ble ==
  \/ \E end \in BOOLEAN : Notify(end)
  \/ \E a \in Adapters : FlushTimer(a) \/ WaitTimer(a)
  \/ \E s \in Requests : BleWritten(s) \/ BleWriteFails(s) \/ BleReturns(s) \/ BleTimeout(s)
  \/ BleLost

Serial ==
  \/ \E end \in BOOLEAN : Says(end)
  \/ \E s \in Requests : \/ SerialWritten(s) \/ SerialWriteFails(s) \/ SerialRead(s)
                          \/ SerialGivesUp(s) \/ SerialTimeout(s)

Next == Controller \/ Http \/ Ble \/ Serial

Spec == Init /\ [][Next]_vars

\* The browser runs every timer that is due and every continuation of a
\* settled promise.  Nothing is asked of the board, the network, a write or
\* the user.
CallTimer(s) == HttpAborts(s) \/ BleReturns(s) \/ BleTimeout(s) \/ SerialTimeout(s)
GoesOn == swap.st = "waiting" /\ (SetTransport \/ BeginClose)
Fairness ==
  /\ \A s \in Requests : WF_vars(Continue(s)) /\ WF_vars(CallTimer(s)) /\ WF_vars(SerialGivesUp(s))
  /\ \A a \in Adapters : WF_vars(WaitTimer(a))
  /\ WF_vars(GoesOn) /\ WF_vars(EndClose)

FairSpec == Spec /\ Fairness

-----------------------------------------------------------------------------
(* Properties *)

\* A piece of text that an adapter received answers at most one of its requests.
PieceAnswersOnce ==
  \A s, t \in Requests :
    s # t /\ op[s].on = op[t].on => op[s].got \cap op[t].got = {}

\* Every request settles, and a disconnection ends although it waits for the one
\* in flight, whatever the board does, unless the body of an HTTP answer never
\* ends, which no timer watches.
Watched(s) == op[s].at # "body"
EveryRequestSettles ==
  /\ \A s \in Requests : call[s].st = "open" ~> (call[s].st = "done" \/ ~Watched(s))
  /\ swap.st # "idle" ~> (swap.st = "idle" \/ \E s \in Requests : ~Watched(s))

\* A request that failed does not keep its BLE adapter refusing every later
\* one, nor its serial port's stream locked.
HoldsLink(s) == port.reader = s \/ \E a \in Adapters : ble[a].pending = s
LinkIsReleased == \A s \in Requests : HoldsLink(s) ~> ~HoldsLink(s)

\* What ISerialPort asks of its callers: the port is opened before it is passed
\* to the transport, which refuses to send otherwise.
PassedOpened == [][ ConnectSerial => serial'[made'].opened ]_vars
===============================================================================
