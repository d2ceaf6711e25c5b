----------------------------- MODULE CommandLink -----------------------------
(***************************************************************************)
(* How the bytes of a client become commands: the BLE receive buffer       *)
(* filled by the NimBLE host task (io/ble/esp32) and emptied by the main   *)
(* loop, and handleChar (io/serial/usb/esp32), which assembles lines from  *)
(* BLE and from USB.  The two tasks run on two cores, so the host's check  *)
(* of the tail, its store and its publication, and the loop's two loads    *)
(* and its store, are steps of their own.                                  *)
(*                                                                         *)
(* A byte is <<line, unit>>: the unit stands for the characters of one     *)
(* piece of a line and "line" says, for the properties only, which line of *)
(* which client it comes from.  {"cmd":" is the unit "open" and "} the     *)
(* unit "close"; "bad" is a character handleChar does not accept, and any  *)
(* unit not named here is a piece of a command's name.                     *)
(***************************************************************************)
EXTENDS Integers, Sequences, FiniteSets

CONSTANTS
  Size,      \* sizeof(bleRxBuf)
  LineMax,   \* SERIAL_CMD_BUFFER_SIZE, in units
  Chunk,     \* most units a central puts in one write
  BleLines,  \* what the BLE central sends: a sequence of lines
  UsbLines   \* what is typed on USB

ASSUME SizeAssumption == Size \in Nat /\ Size > 1
ASSUME LinesAssumption == BleLines \in Seq(Seq(STRING)) /\ UsbLines \in Seq(Seq(STRING))
\* A line is what a newline ends.
ASSUME NewlineAssumption ==
  \A k \in DOMAIN BleLines :
    LET n == Len(BleLines[k]) IN
      n > 0 /\ BleLines[k][n] = "nl" /\ \A i \in 1..n - 1 : BleLines[k][i] # "nl"
ASSUME LimitAssumption == LineMax \in Nat \ {0} /\ Chunk \in Nat \ {0}

Special == {"open", "close", "nl", "cr", "bad"}

\* The bytes of line k of a client.
BytesOf(from, lines, k) == [i \in 1..Len(lines[k]) |-> <<<<from, k>>, lines[k][i]>>]
BleByte == UNION {{<<<<"ble", k>>, BleLines[k][i]>> : i \in DOMAIN BleLines[k]} :
                    k \in DOMAIN BleLines}
LineOf(b) == b[1]
UnitOf(b) == b[2]

VARIABLES
  bleRxBuf, bleRxHead, bleRxTail,
  host,      \* the host task: its step, its local head and the bytes of the write left
  main,      \* the main loop: its step and the byte it has fetched
  bleBuf,    \* line being assembled from BLE: its bytes, and whether it overflowed
  usbBuf,    \* the same from USB
  radio,     \* bleReady and bleDeviceConnected
  central,   \* next line and next unit the BLE central sends
  typist,    \* next line and next unit typed on USB
  executed,  \* commands passed to executeCommand, with the lines their bytes are from
  handed,    \* the BLE byte handed to handleChar last (history)
  refused,   \* BLE bytes dropped so far (history)
  spoiled,   \* BLE lines that lost a byte or were cut by a disconnection (history)
  ended      \* BLE lines whose newline was handled, in that order (history)

vars == <<bleRxBuf, bleRxHead, bleRxTail, host, main, bleBuf, usbBuf, radio, central,
          typist, executed, handed, refused, spoiled, ended>>
ring == <<bleRxBuf, bleRxHead, bleRxTail>>
history == <<handed, refused, spoiled, ended>>

NoLine == [bytes |-> <<>>, over |-> FALSE]

Init ==
  /\ bleRxBuf = [i \in 0..(Size - 1) |-> <<>>] /\ bleRxHead = 0 /\ bleRxTail = 0
  /\ host = [pc |-> "idle", head |-> 0, todo |-> <<>>]
  /\ main = [pc |-> "usb", char |-> <<>>]
  /\ bleBuf = NoLine /\ usbBuf = NoLine
  /\ radio = [ready |-> TRUE, connected |-> FALSE]
  /\ central = [line |-> 1, at |-> 1] /\ typist = [line |-> 1, at |-> 1]
  /\ executed = <<>>
  /\ handed = <<>> /\ refused = 0 /\ spoiled = {} /\ ended = <<>>

(***************************************************************************)
(* The NimBLE host task: BLEServerCB and BLERxCallback.                    *)
(***************************************************************************)
Connect ==
  /\ host.pc = "idle" /\ radio.ready /\ ~radio.connected
  /\ radio' = [radio EXCEPT !.connected = TRUE]
  /\ UNCHANGED <<ring, host, main, bleBuf, usbBuf, central, typist, executed, history>>

\* A central that goes in the middle of a line starts its next line afresh.
CutLine ==
  IF central.at > 1
    THEN /\ spoiled' = spoiled \cup {<<"ble", central.line>>}
         /\ central' = [line |-> central.line + 1, at |-> 1]
    ELSE UNCHANGED <<spoiled, central>>

Disconnect ==
  /\ host.pc = "idle" /\ radio.connected
  /\ radio' = [radio EXCEPT !.connected = FALSE]
  /\ CutLine
  /\ UNCHANGED <<ring, host, main, bleBuf, usbBuf, typist, executed,
                 handed, refused, ended>>

\* onWrite receives the next units of the line the central is sending.
OnWrite ==
  /\ host.pc = "idle" /\ radio.connected /\ central.line <= Len(BleLines)
  /\ \E n \in 1..Chunk :
       LET bytes == BytesOf("ble", BleLines, central.line)
           last == central.at + n - 1 IN
         /\ last <= Len(bytes)
         /\ host' = [pc |-> "check", head |-> bleRxHead,
                     todo |-> SubSeq(bytes, central.at, last)]
         /\ central' = IF last = Len(bytes) THEN [line |-> central.line + 1, at |-> 1]
                       ELSE [central EXCEPT !.at = last + 1]
  /\ UNCHANGED <<ring, main, bleBuf, usbBuf, radio, typist, executed, history>>

NextIndex(i) == (i + 1) % Size

HostCheckEarly ==                                      \* mutant: full one slot too soon
  /\ host.pc = "check" /\ host.todo # <<>>
  /\ \/ /\ NextIndex(NextIndex(host.head)) # bleRxTail
        /\ host' = [host EXCEPT !.pc = "store"]
        /\ UNCHANGED <<refused, spoiled>>
     \/ /\ NextIndex(NextIndex(host.head)) = bleRxTail
        /\ host' = [host EXCEPT !.todo = Tail(@)]
        /\ refused' = refused + 1
        /\ spoiled' = spoiled \cup {LineOf(Head(host.todo))}
HostCheck ==
  /\ host.pc = "check" /\ host.todo # <<>>
  /\ \/ /\ NextIndex(host.head) # bleRxTail
        /\ host' = [host EXCEPT !.pc = "store"]
        /\ UNCHANGED <<refused, spoiled>>
     \/ /\ NextIndex(host.head) = bleRxTail
        /\ host' = [host EXCEPT !.todo = Tail(@)]
        /\ refused' = refused + 1
        /\ spoiled' = spoiled \cup {LineOf(Head(host.todo))}

HostStore ==
  /\ host.pc = "store"
  /\ bleRxBuf' = [bleRxBuf EXCEPT ![host.head] = Head(host.todo)]
  /\ host' = [pc |-> "check", head |-> NextIndex(host.head), todo |-> Tail(host.todo)]

HostPublish ==
  /\ host.pc = "check" /\ host.todo = <<>>
  /\ bleRxHead' = host.head
  /\ host' = [host EXCEPT !.pc = "idle"]

HostWrite ==
  /\ \/ HostCheck /\ UNCHANGED ring
     \/ HostStore /\ UNCHANGED <<bleRxHead, bleRxTail, refused, spoiled>>
     \/ HostPublish /\ UNCHANGED <<bleRxBuf, bleRxTail, refused, spoiled>>
  /\ UNCHANGED <<main, bleBuf, usbBuf, radio, central, typist, executed, handed, ended>>

(***************************************************************************)
(* handleChar                                                              *)
(***************************************************************************)
\* parseRpcCmd: the pieces after the first "open", up to the quote that ends
\* them, which is the one of "close" or of another "open".
OpensAt(u) == {i \in DOMAIN u : u[i] = "open"}
ParseRpcCmd(u) ==
  IF OpensAt(u) = {} THEN <<>>
  ELSE LET first == CHOOSE i \in OpensAt(u) : \A j \in OpensAt(u) : i <= j
           ends == {i \in DOMAIN u : i > first /\ u[i] \in {"open", "close"}} IN
         IF ends = {} THEN <<>>
         ELSE LET last == CHOOSE i \in ends : \A j \in ends : i <= j IN
                SubSeq(u, first + 1, last - 1)
                  \o (IF u[last] = "open" THEN <<"open">> ELSE <<>>)

Units(bytes) == [i \in DOMAIN bytes |-> UnitOf(bytes[i])]

\* The command a completed line executes, <<>> for none: the line must be an
\* object and must have fitted the buffer.
CommandIn(buf) ==
  IF buf.over \/ buf.bytes = <<>> \/ UnitOf(buf.bytes[1]) # "open" THEN <<>>
  ELSE ParseRpcCmd(Units(buf.bytes))

AfterCharKept(buf, c) ==                               \* mutant: no reset after overflow
  CASE UnitOf(c) = "cr" -> buf
    [] UnitOf(c) = "nl" -> IF buf.over THEN buf ELSE NoLine
    [] UnitOf(c) = "bad" -> NoLine
    [] OTHER -> IF Len(buf.bytes) < LineMax - 1 /\ ~buf.over
                  THEN [buf EXCEPT !.bytes = Append(@, c)]
                  ELSE [buf EXCEPT !.over = TRUE]
AfterChar(buf, c) ==
  CASE UnitOf(c) = "cr" -> buf
    [] UnitOf(c) \in {"nl", "bad"} -> NoLine
    [] OTHER -> IF Len(buf.bytes) < LineMax - 1 /\ ~buf.over
                  THEN [buf EXCEPT !.bytes = Append(@, c)]
                  ELSE [buf EXCEPT !.over = TRUE]

Sources(buf) == {LineOf(buf.bytes[i]) : i \in DOMAIN buf.bytes}

ExecutedNow(buf, c) ==
  IF UnitOf(c) = "nl" THEN CommandIn(buf) ELSE <<>>

\* executeCommand runs inside handleChar; of all commands, the ones that stop
\* or start the radio matter here, and take a step of their own before the
\* loop goes back to where it was.
Execute(cmd, buf, back) ==
  /\ executed' = IF cmd = <<>> THEN executed
                 ELSE Append(executed, [cmd |-> cmd, from |-> Sources(buf)])
  /\ main' = [pc |-> IF cmd = <<"ble:off">> /\ radio.ready THEN "off"
                     ELSE IF cmd = <<"ble:on">> /\ ~radio.ready THEN "on" ELSE back,
              char |-> <<>>]

(***************************************************************************)
(* The main loop: serialTick, once per pass of loop().                     *)
(***************************************************************************)

\* while (Serial.available()): what is typed arrives at any time.
UsbChar ==
  /\ main.pc = "usb" /\ typist.line <= Len(UsbLines)
  /\ LET bytes == BytesOf("usb", UsbLines, typist.line)
         c == bytes[typist.at] IN
       /\ typist' = IF typist.at = Len(bytes) THEN [line |-> typist.line + 1, at |-> 1]
                    ELSE [typist EXCEPT !.at = @ + 1]
       /\ usbBuf' = AfterChar(usbBuf, c)
       /\ Execute(ExecutedNow(usbBuf, c), usbBuf, "usb")
  /\ UNCHANGED <<ring, host, bleBuf, radio, central, history>>

BleAvailableUnwrapped == radio.ready /\ bleRxHead > bleRxTail  \* mutant: no wrap-around
BleAvailable == radio.ready /\ bleRxHead # bleRxTail

\* while (bleAvailable()), when Serial has no more or after a BLE byte; the
\* pass ends, and the next one begins with USB, when there is none.
BleTest ==
  /\ main.pc \in {"usb", "ble"}
  /\ main' = [main EXCEPT !.pc = IF BleAvailable THEN "load" ELSE "usb"]
  /\ UNCHANGED <<ring, host, bleBuf, usbBuf, radio, central, typist, executed, history>>

\* bleRead takes the byte, then gives the slot back; handleChar follows.
BleHandle(c) ==
  /\ handed' = <<c>>
  /\ ended' = IF UnitOf(c) = "nl" THEN Append(ended, LineOf(c)[2]) ELSE ended
  /\ bleBuf' = AfterChar(bleBuf, c)
  /\ Execute(ExecutedNow(bleBuf, c), bleBuf, "ble")

BleRead ==
  /\ \/ /\ main.pc = "load"
        /\ main' = [pc |-> "store", char |-> bleRxBuf[bleRxTail]]
        /\ UNCHANGED <<bleRxTail, handed, ended, bleBuf, executed>>
     \/ /\ main.pc = "store"
        /\ bleRxTail' = NextIndex(bleRxTail)
        /\ BleHandle(main.char)
  /\ UNCHANGED <<bleRxBuf, bleRxHead, host, usbBuf, radio, central, typist, refused,
                 spoiled>>

\* bleStop: the deinitialisation waits for the host task.  Neither the receive
\* buffer nor the line being assembled is cleared.
BleStop ==
  /\ main.pc = "off" /\ host.pc = "idle"
  /\ radio' = [ready |-> FALSE, connected |-> FALSE]
  /\ CutLine
  /\ main' = [main EXCEPT !.pc = "usb"]
  /\ UNCHANGED <<ring, host, bleBuf, usbBuf, typist, executed, handed, refused, ended>>

BleRestart ==
  /\ main.pc = "on"
  /\ radio' = [radio EXCEPT !.ready = TRUE]
  /\ main' = [main EXCEPT !.pc = "usb"]
  /\ UNCHANGED <<ring, host, bleBuf, usbBuf, central, typist, executed, history>>

Central == Connect \/ Disconnect \/ OnWrite
Loop == UsbChar \/ BleTest \/ BleRead \/ BleStop \/ BleRestart
Next == Central \/ HostWrite \/ Loop

\* The callback runs to its end, and the loop keeps running; no central is
\* obliged to do anything.
Spec == Init /\ [][Next]_vars /\ WF_vars(HostWrite) /\ WF_vars(Loop)

(***************************************************************************)
(* Properties                                                              *)
(***************************************************************************)
Index == 0..(Size - 1)

TypeOK ==
  /\ DOMAIN bleRxBuf = Index /\ bleRxHead \in Index /\ bleRxTail \in Index
  /\ host.pc \in {"idle", "check", "store"} /\ host.head \in Index
  /\ host.pc = "idle" => host.todo = <<>>
  /\ host.pc = "store" => host.todo # <<>>
  /\ main.pc \in {"usb", "ble", "load", "store", "off", "on"}
  /\ (main.pc = "store") = (main.char # <<>>)
  /\ radio \in [ready : BOOLEAN, connected : BOOLEAN]
  /\ Len(bleBuf.bytes) < LineMax /\ Len(usbBuf.bytes) < LineMax

Dist(a, b) == IF b >= a THEN b - a ELSE b - a + Size
Slot(a, i) == IF a + i >= Size THEN a + i - Size ELSE a + i
Between(buf, a, b) == [i \in 1..Dist(a, b) |-> buf[Slot(a, i - 1)]]

\* For every interleaving of the two tasks' loads and stores, the ring of Size
\* slots is a queue of Size - 1 bytes: no byte overtakes, repeats, appears
\* before its write is complete, or is dropped while there is room.
Queue == INSTANCE ByteQueue WITH
  Byte <- BleByte,
  Capacity <- Size - 1,
  queue <- Between(bleRxBuf, bleRxTail, bleRxHead),
  staged <- Between(bleRxBuf, bleRxHead, host.head),
  refused <- refused, taken <- handed
ImplementsQueue == Queue!Spec

\* What a line means, read whole and not character by character: the command of
\* what follows its last unacceptable character, if that fits the buffer.
KeptAt(line) == {i \in DOMAIN line : /\ line[i] \notin {"nl", "cr", "bad"}
                                   /\ \A j \in DOMAIN line : line[j] = "bad" => j < i}
InOrder(line, at) ==
  [n \in 1..Cardinality(at) |-> line[CHOOSE i \in at : Cardinality({j \in at : j <= i}) = n]]
Meant(line) ==
  LET after == InOrder(line, KeptAt(line)) IN
    IF after = <<>> \/ Len(after) >= LineMax \/ Head(after) # "open" THEN <<>>
    ELSE ParseRpcCmd(after)
Meaningful(k) == Meant(BleLines[k]) # <<>>
BleOnly(e) == \A l \in e.from : l[1] = "ble"

\* A lost byte, an overlong line or a central that vanishes in the middle of a
\* line costs that line and at most the one after it: a whole line that follows
\* a whole line is executed.
LossIsContained ==
  \A i \in DOMAIN ended :
    LET k == ended[i] IN
      ({<<"ble", k>>, <<"ble", k - 1>>} \cap spoiled = {} /\ Meaningful(k)) =>
        \E e \in DOMAIN executed :
          executed[e] = [cmd |-> Meant(BleLines[k]), from |-> {<<"ble", k>>}]

\* Bytes that wait while the radio stays on are taken, also when the buffer has
\* wrapped around and whatever the central and USB keep sending.
WaitingBytesAreTaken ==
  <>[](radio.ready /\ bleRxHead # bleRxTail)
    => []<><<bleRxTail' # bleRxTail>>_bleRxTail
===============================================================================
