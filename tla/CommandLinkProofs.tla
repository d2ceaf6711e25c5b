--------------------------- MODULE CommandLinkProofs ---------------------------
(***************************************************************************)
(* Two proofs about the BLE link, for every size, chunk size and set of    *)
(* lines.  That the receive ring implements ByteQueue: what the slots      *)
(* between two indices of a ring are, as a sequence; the invariant of the  *)
(* two tasks; the refinement, step by step.  And that a loss is contained: *)
(* what is read of a line; what every step does to the bytes in the air;   *)
(* which places of the lines sent those bytes are; the invariant.          *)
(***************************************************************************)
EXTENDS CommandLink, SequenceTheorems, FiniteSetTheorems, TLAPS

Cell == BleByte \cup {<<>>}

(***************************************************************************)
(* Indices and the sequence between two of them                            *)
(***************************************************************************)

\* The successor of onWrite and bleRead, without the remainder.
LEMMA NextIndexIs ==
  ASSUME NEW i \in Index
  PROVE  /\ NextIndex(i) = IF i = Size - 1 THEN 0 ELSE i + 1
         /\ NextIndex(i) \in Index
<1>1. i \in Nat /\ i + 1 \in 1..Size /\ Size \in Nat /\ Size > 1
  BY SizeAssumption DEF Index
<1>2. CASE i = Size - 1
  <2>1. (i + 1) % Size = 0
    BY <1>1, <1>2
  <2> QED BY <1>1, <1>2, <2>1 DEF NextIndex, Index
<1>3. CASE i # Size - 1
  <2>1. i + 1 \in 0..(Size - 1)
    BY <1>1, <1>3
  <2>2. (i + 1) % Size = i + 1
    BY <1>1, <2>1
  <2> QED BY <1>1, <1>3, <2>1, <2>2 DEF NextIndex, Index
<1> QED BY <1>2, <1>3

\* What moving an index on does to distances and slots.
LEMMA DistNext ==
  ASSUME NEW a \in Index, NEW b \in Index
  PROVE  /\ Dist(a, b) < Size - 1 => Dist(a, NextIndex(b)) = Dist(a, b) + 1
         /\ a # b => Dist(NextIndex(a), b) = Dist(a, b) - 1
         /\ \A i \in 1..(Size - 1) : Slot(NextIndex(a), i - 1) = Slot(a, i)
<1>1. CASE a = Size - 1
  <2>1. NextIndex(a) = 0
    BY <1>1, NextIndexIs
  <2>2. CASE b = Size - 1
    BY <2>1, <2>2, <1>1, SizeAssumption DEF Dist, Slot, Index
  <2>3. CASE b # Size - 1
    <3>1. NextIndex(b) = b + 1
      BY <2>3, NextIndexIs
    <3> QED BY <3>1, <2>1, <2>3, <1>1, SizeAssumption DEF Dist, Slot, Index
  <2> QED BY <2>2, <2>3
<1>2. CASE a # Size - 1
  <2>1. NextIndex(a) = a + 1
    BY <1>2, NextIndexIs
  <2>2. CASE b = Size - 1
    <3>1. NextIndex(b) = 0
      BY <2>2, NextIndexIs
    <3> QED BY <3>1, <2>1, <2>2, <1>2, SizeAssumption DEF Dist, Slot, Index
  <2>3. CASE b # Size - 1
    <3>1. NextIndex(b) = b + 1
      BY <2>3, NextIndexIs
    <3> QED BY <3>1, <2>1, <2>3, <1>2, SizeAssumption DEF Dist, Slot, Index
  <2> QED BY <2>2, <2>3
<1> QED BY <1>1, <1>2

\* Distances are below Size and slots are indices.
LEMMA DistSlot ==
  ASSUME NEW a \in Index, NEW b \in Index
  PROVE  /\ Dist(a, b) \in 0..(Size - 1) /\ Dist(a, b) \in Nat /\ Dist(a, a) = 0
         /\ \A i \in 0..(Size - 1) : Slot(a, i) \in Index
         /\ Dist(a, b) = 0 <=> a = b
BY SizeAssumption DEF Index, Dist, Slot

\* The slots between two indices hold a sequence of that length.
LEMMA BetweenIs ==
  ASSUME NEW buf \in [Index -> Cell], NEW a \in Index, NEW b \in Index
  PROVE  /\ Between(buf, a, b) \in Seq(Cell)
         /\ Len(Between(buf, a, b)) = Dist(a, b)
         /\ \A i \in 1..Dist(a, b) : Between(buf, a, b)[i] = buf[Slot(a, i - 1)]
<1>1. Dist(a, b) \in Nat /\ Dist(a, b) <= Size - 1
  BY DistSlot, SizeAssumption
<1>2. \A i \in 1..Dist(a, b) : buf[Slot(a, i - 1)] \in Cell
  <2> TAKE i \in 1..Dist(a, b)
  <2>1. i - 1 \in 0..(Size - 1)
    BY <1>1, SizeAssumption
  <2>2. Slot(a, i - 1) \in Index
    BY <2>1, DistSlot
  <2> QED BY <2>2
<1>3. Between(buf, a, b) \in [1..Dist(a, b) -> Cell]
  BY <1>2 DEF Between
<1> QED BY <1>1, <1>3, SeqDef DEF Between

\* Storing at b a byte the ring has room for appends it to what is between a and b.
LEMMA StoreAppends ==
  ASSUME NEW buf \in [Index -> Cell], NEW a \in Index, NEW b \in Index, NEW x \in Cell,
         Dist(a, b) < Size - 1
  PROVE  Between([buf EXCEPT ![b] = x], a, NextIndex(b)) = Append(Between(buf, a, b), x)
<1> DEFINE new == [buf EXCEPT ![b] = x]
           s == Between(new, a, NextIndex(b))
           t == Between(buf, a, b)
<1>1. new \in [Index -> Cell] /\ NextIndex(b) \in Index
  BY NextIndexIs
<1>2. Dist(a, NextIndex(b)) = Dist(a, b) + 1 /\ Dist(a, b) \in Nat
  BY DistNext, DistSlot
<1>3. /\ s \in Seq(Cell) /\ Len(s) = Dist(a, b) + 1
      /\ \A i \in 1..(Dist(a, b) + 1) : s[i] = new[Slot(a, i - 1)]
  <2> HIDE DEF new
  <2>1. /\ s \in Seq(Cell) /\ Len(s) = Dist(a, NextIndex(b))
        /\ \A i \in 1..Dist(a, NextIndex(b)) : s[i] = new[Slot(a, i - 1)]
    BY <1>1, BetweenIs
  <2> QED BY <2>1, <1>2
<1>4. /\ t \in Seq(Cell) /\ Len(t) = Dist(a, b)
      /\ \A i \in 1..Dist(a, b) : t[i] = buf[Slot(a, i - 1)]
  BY BetweenIs
<1>5. /\ Append(t, x) \in Seq(Cell) /\ Len(Append(t, x)) = Dist(a, b) + 1
      /\ \A i \in 1..Dist(a, b) : Append(t, x)[i] = t[i]
      /\ Append(t, x)[Dist(a, b) + 1] = x
  BY <1>4, AppendProperties
<1>6. ASSUME NEW i \in 1..(Dist(a, b) + 1) PROVE s[i] = Append(t, x)[i]
  <2>1. CASE i = Dist(a, b) + 1
    <3>1. Slot(a, i - 1) = b
      BY <2>1, SizeAssumption DEF Slot, Dist, Index
    <3> QED BY <2>1, <3>1, <1>3, <1>5
  <2>2. CASE i # Dist(a, b) + 1
    <3>1. i \in 1..Dist(a, b)
      BY <2>2, <1>2
    <3>2. Slot(a, i - 1) # b /\ Slot(a, i - 1) \in Index
      BY <3>1, SizeAssumption DEF Slot, Dist, Index
    <3>3. new[Slot(a, i - 1)] = buf[Slot(a, i - 1)]
      BY <3>2
    <3> QED BY <3>1, <3>3, <1>3, <1>4, <1>5, <1>2
  <2> QED BY <2>1, <2>2
<1> HIDE DEF s, t, new
<1>7. s = Append(t, x)
  BY <1>3, <1>5, <1>6, SeqEqual
<1> QED BY <1>7 DEF s, t, new

\* ... and leaves alone what lies before b.
LEMMA StoreFrame ==
  ASSUME NEW buf \in [Index -> Cell], NEW a \in Index, NEW h \in Index, NEW b \in Index,
         NEW x \in Cell, Dist(a, h) + Dist(h, b) < Size
  PROVE  Between([buf EXCEPT ![b] = x], a, h) = Between(buf, a, h)
<1>1. ASSUME NEW i \in 1..Dist(a, h)
      PROVE  [buf EXCEPT ![b] = x][Slot(a, i - 1)] = buf[Slot(a, i - 1)]
  <2>1. Slot(a, i - 1) \in Index /\ Slot(a, i - 1) # b
    BY SizeAssumption DEF Slot, Dist, Index
  <2> QED BY <2>1
<1> QED BY <1>1 DEF Between

\* Adjacent stretches of the ring make one.
LEMMA BetweenConcat ==
  ASSUME NEW buf \in [Index -> Cell], NEW a \in Index, NEW h \in Index, NEW b \in Index,
         Dist(a, h) + Dist(h, b) < Size
  PROVE  Between(buf, a, b) = Between(buf, a, h) \o Between(buf, h, b)
<1> DEFINE s == Between(buf, a, b)
           t == Between(buf, a, h)
           u == Between(buf, h, b)
<1>1. /\ Dist(a, b) = Dist(a, h) + Dist(h, b)
      /\ Dist(a, h) \in Nat /\ Dist(h, b) \in Nat
  BY SizeAssumption DEF Dist, Index
<1>2. /\ s \in Seq(Cell) /\ Len(s) = Dist(a, h) + Dist(h, b)
      /\ \A i \in 1..(Dist(a, h) + Dist(h, b)) : s[i] = buf[Slot(a, i - 1)]
  <2>1. /\ s \in Seq(Cell) /\ Len(s) = Dist(a, b)
        /\ \A i \in 1..Dist(a, b) : s[i] = buf[Slot(a, i - 1)]
    BY BetweenIs
  <2> HIDE DEF s
  <2> QED BY <2>1, <1>1, Zenon
<1>3. /\ t \in Seq(Cell) /\ Len(t) = Dist(a, h)
      /\ \A i \in 1..Dist(a, h) : t[i] = buf[Slot(a, i - 1)]
  BY BetweenIs
<1>4. /\ u \in Seq(Cell) /\ Len(u) = Dist(h, b)
      /\ \A i \in 1..Dist(h, b) : u[i] = buf[Slot(h, i - 1)]
  BY BetweenIs
<1>5. /\ t \o u \in Seq(Cell) /\ Len(t \o u) = Dist(a, h) + Dist(h, b)
      /\ \A i \in 1..(Dist(a, h) + Dist(h, b)) :
           (t \o u)[i] = IF i <= Dist(a, h) THEN t[i] ELSE u[i - Dist(a, h)]
  <2> HIDE DEF t, u
  <2>1. /\ t \o u \in Seq(Cell) /\ Len(t \o u) = Len(t) + Len(u)
        /\ \A i \in 1..(Len(t) + Len(u)) :
             (t \o u)[i] = IF i <= Len(t) THEN t[i] ELSE u[i - Len(t)]
    BY <1>3, <1>4, ConcatProperties
  <2> QED BY <2>1, <1>3, <1>4
<1>6. ASSUME NEW i \in 1..(Dist(a, h) + Dist(h, b)) PROVE s[i] = (t \o u)[i]
  <2>1. CASE i <= Dist(a, h)
    <3>1. i \in 1..Dist(a, h)
      BY <2>1, <1>1
    <3> QED BY <2>1, <3>1, <1>2, <1>3, <1>5
  <2>2. CASE ~(i <= Dist(a, h))
    <3>1. i - Dist(a, h) \in 1..Dist(h, b)
      BY <2>2, <1>1
    <3>2. Slot(a, i - 1) = Slot(h, (i - Dist(a, h)) - 1)
      BY <2>2, SizeAssumption DEF Slot, Dist, Index
    <3>3. u[i - Dist(a, h)] = buf[Slot(h, (i - Dist(a, h)) - 1)]
      BY <3>1, <1>4
    <3> QED BY <2>2, <3>2, <3>3, <1>2, <1>5
  <2> QED BY <2>1, <2>2
<1> HIDE DEF s, t, u
<1>7. s = t \o u
  BY <1>2, <1>5, <1>6, SeqEqual
<1> QED BY <1>7 DEF s, t, u

\* Giving back the slot at a takes the head of what is between a and h.
LEMMA BetweenTail ==
  ASSUME NEW buf \in [Index -> Cell], NEW a \in Index, NEW h \in Index, a # h
  PROVE  /\ Between(buf, a, h) # <<>>
         /\ Head(Between(buf, a, h)) = buf[a]
         /\ Between(buf, NextIndex(a), h) = Tail(Between(buf, a, h))
<1> DEFINE s == Between(buf, NextIndex(a), h)
           t == Between(buf, a, h)
<1>1. NextIndex(a) \in Index
  BY NextIndexIs
<1>2. /\ Dist(NextIndex(a), h) = Dist(a, h) - 1
      /\ Dist(a, h) \in Nat \ {0}
      /\ Slot(a, 0) = a
  <2>1. Slot(a, 0) = a
    BY SizeAssumption DEF Slot, Index
  <2> QED BY <2>1, DistNext, DistSlot
<1>3. /\ s \in Seq(Cell) /\ Len(s) = Dist(a, h) - 1
      /\ \A i \in 1..(Dist(a, h) - 1) : s[i] = buf[Slot(NextIndex(a), i - 1)]
  <2>1. /\ s \in Seq(Cell) /\ Len(s) = Dist(NextIndex(a), h)
        /\ \A i \in 1..Dist(NextIndex(a), h) : s[i] = buf[Slot(NextIndex(a), i - 1)]
    BY <1>1, BetweenIs
  <2> HIDE DEF s
  <2> QED BY <2>1, <1>2, Zenon
<1>4. /\ t \in Seq(Cell) /\ Len(t) = Dist(a, h)
      /\ \A i \in 1..Dist(a, h) : t[i] = buf[Slot(a, i - 1)]
  BY BetweenIs
<1>5. t # <<>>
  BY <1>2, <1>4, EmptySeq
<1>6. /\ Tail(t) \in Seq(Cell) /\ Len(Tail(t)) = Dist(a, h) - 1
      /\ \A i \in 1..(Dist(a, h) - 1) : Tail(t)[i] = t[i + 1]
  BY <1>4, <1>5, HeadTailProperties
<1>7. ASSUME NEW i \in 1..(Dist(a, h) - 1) PROVE s[i] = Tail(t)[i]
  <2>1. i + 1 \in 1..Dist(a, h) /\ (i + 1) - 1 = i
    BY <1>2
  <2>2. t[i + 1] = buf[Slot(a, i)]
    BY <2>1, <1>4
  <2>3. Slot(NextIndex(a), i - 1) = Slot(a, i)
    <3>1. i \in 1..(Size - 1)
      BY DistSlot, SizeAssumption
    <3> QED BY <3>1, DistNext
  <2> QED BY <2>2, <2>3, <1>3, <1>6
<1>8. Head(t) = buf[a]
  <2>1. Head(t) = t[1]
    BY <1>4, <1>5
  <2>2. 1 \in 1..Dist(a, h) /\ 1 - 1 = 0
    BY <1>2
  <2> QED BY <2>1, <2>2, <1>2, <1>4
<1> HIDE DEF s, t
<1>9. s = Tail(t)
  BY <1>3, <1>6, <1>7, SeqEqual
<1> QED BY <1>5, <1>8, <1>9 DEF s, t

(***************************************************************************)
(* The invariant                                                           *)
(***************************************************************************)
HostRecords == [pc : {"idle", "check", "store"}, head : Index, todo : Seq(BleByte)]
LoopSteps == {"usb", "ble", "load", "store", "off", "on"}

RingTypes ==
  /\ bleRxBuf \in [Index -> Cell] /\ bleRxHead \in Index /\ bleRxTail \in Index
  /\ host \in HostRecords
  /\ main \in [pc : LoopSteps, char : Cell]
  /\ central \in [line : Nat \ {0}, at : Nat \ {0}]

\* What the host task wrote lies ahead of what it published, and both, with the
\* slot it is about to write, stay short of the tail.
HostAhead ==
  /\ host.pc = "idle" => host.head = bleRxHead
  /\ host.pc = "store" => host.todo # <<>>
  /\ Dist(bleRxTail, bleRxHead) + Dist(bleRxHead, host.head) < Size
  /\ host.pc = "store" =>
       Dist(bleRxTail, bleRxHead) + Dist(bleRxHead, host.head) < Size - 1

\* The byte the loop is reading is the one at the tail.
LoopReads ==
  /\ main.pc \in {"load", "store"} => bleRxHead # bleRxTail
  /\ main.pc = "store" => main.char = bleRxBuf[bleRxTail]

LinkInv == RingTypes /\ HostAhead /\ LoopReads

LEMMA InitInv == Init => LinkInv
<1> SUFFICES ASSUME Init PROVE LinkInv
  OBVIOUS
<1>1. 0 \in Index /\ Dist(0, 0) = 0 /\ Size \in Nat /\ Size > 1
  BY SizeAssumption DEF Index, Dist
<1>2. RingTypes
  <2>1. bleRxBuf \in [Index -> Cell]
    BY DEF Init, Index, Cell
  <2>2. host \in HostRecords
    BY <1>1, EmptySeq DEF Init, HostRecords
  <2>3. main \in [pc : LoopSteps, char : Cell]
    BY DEF Init, LoopSteps, Cell
  <2>4. central \in [line : Nat \ {0}, at : Nat \ {0}]
    BY DEF Init
  <2> QED BY <1>1, <2>1, <2>2, <2>3, <2>4 DEF Init, RingTypes
<1>3. HostAhead
  BY <1>1 DEF Init, HostAhead
<1>4. LoopReads
  BY DEF Init, LoopReads
<1> QED BY <1>2, <1>3, <1>4 DEF LinkInv

\* The units of a line are bytes a central sends.
LEMMA LineBytes ==
  ASSUME NEW k \in 1..Len(BleLines)
  PROVE  /\ BytesOf("ble", BleLines, k) \in Seq(BleByte)
         /\ Len(BytesOf("ble", BleLines, k)) \in Nat
<1>1. BleLines[k] \in Seq(STRING) /\ k \in DOMAIN BleLines
  BY LinesAssumption, LenProperties, ElementOfSeq
<1>2. Len(BleLines[k]) \in Nat /\ DOMAIN BleLines[k] = 1..Len(BleLines[k])
  BY <1>1, LenProperties
<1>3. ASSUME NEW i \in 1..Len(BleLines[k])
      PROVE  <<<<"ble", k>>, BleLines[k][i]>> \in BleByte
  BY <1>1, <1>2 DEF BleByte
<1>4. BytesOf("ble", BleLines, k) \in [1..Len(BleLines[k]) -> BleByte]
  BY <1>3 DEF BytesOf
<1>5. BytesOf("ble", BleLines, k) \in Seq(BleByte)
  BY <1>2, <1>4, SeqDef
<1> QED BY <1>5, LenProperties

LEMMA OnWriteInv == LinkInv /\ OnWrite => LinkInv'
<1> SUFFICES ASSUME LinkInv, OnWrite PROVE LinkInv'
  OBVIOUS
<1> DEFINE bytes == BytesOf("ble", BleLines, central.line)
<1>1. PICK n \in 1..Chunk :
        /\ central.at + n - 1 <= Len(bytes)
        /\ host' = [pc |-> "check", head |-> bleRxHead,
                    todo |-> SubSeq(bytes, central.at, central.at + n - 1)]
        /\ central' = IF central.at + n - 1 = Len(bytes)
                        THEN [line |-> central.line + 1, at |-> 1]
                        ELSE [central EXCEPT !.at = central.at + n - 1 + 1]
  BY DEF OnWrite
<1>2. central.line \in 1..Len(BleLines) /\ central.at \in Nat \ {0} /\ n \in Nat \ {0}
  <2>1. Len(BleLines) \in Nat
    BY LinesAssumption, LenProperties
  <2>2. central.line \in Nat \ {0} /\ central.at \in Nat \ {0}
    BY DEF LinkInv, RingTypes
  <2>3. central.line <= Len(BleLines)
    BY DEF OnWrite
  <2>4. n \in Nat \ {0}
    BY LimitAssumption
  <2> QED BY <2>1, <2>2, <2>3, <2>4
<1>3. bytes \in Seq(BleByte) /\ Len(bytes) \in Nat
  BY <1>2, LineBytes
<1> HIDE DEF bytes
<1>4. SubSeq(bytes, central.at, central.at + n - 1) \in Seq(BleByte)
  <2>1. ASSUME NEW i \in central.at..(central.at + n - 1) PROVE bytes[i] \in BleByte
    <3>1. central.at \in Nat \ {0} /\ n \in Nat /\ central.at + n - 1 <= Len(bytes) BY <1>1, <1>2
    <3>2. i \in 1..Len(bytes) BY <1>3, <3>1
    <3> QED BY <1>3, <3>2, ElementOfSeq
  <2>2. central.at \in Int /\ central.at + n - 1 \in Int
    BY <1>2
  <2> QED BY <2>1, <2>2, SubSeqProperties
<1>5. host' \in HostRecords
  BY <1>1, <1>4 DEF HostRecords, LinkInv, RingTypes
<1>6. central' \in [line : Nat \ {0}, at : Nat \ {0}]
  BY <1>1, <1>2, SMTT(30) DEF LinkInv, RingTypes
<1>7. UNCHANGED <<ring, main>> /\ host.pc = "idle"
  BY DEF OnWrite
<1>8. RingTypes'
  BY <1>5, <1>6, <1>7 DEF LinkInv, RingTypes, ring
<1>9. HostAhead'
  BY <1>1, <1>7 DEF LinkInv, HostAhead, ring, Dist
<1>10. LoopReads'
  BY <1>7 DEF LinkInv, LoopReads, ring
<1> QED BY <1>8, <1>9, <1>10 DEF LinkInv

\* A step that leaves the ring and the host task alone keeps the invariant if
\* what it does to the loop's step does not begin or end a read.
LEMMA QuietInv ==
  ASSUME LinkInv, UNCHANGED <<ring, host>>,
         main' \in [pc : {"usb", "ble", "off", "on"}, char : Cell] \/ UNCHANGED main,
         central' \in [line : Nat \ {0}, at : Nat \ {0}]
  PROVE  LinkInv'
<1>1. RingTypes'
  BY DEF LinkInv, RingTypes, ring, LoopSteps
<1>2. HostAhead'
  BY DEF LinkInv, HostAhead, ring
<1>3. LoopReads'
  BY DEF LinkInv, LoopReads, ring
<1> QED BY <1>1, <1>2, <1>3 DEF LinkInv

LEMMA HostCheckInv == LinkInv /\ HostWrite /\ HostCheck => LinkInv'
<1> SUFFICES ASSUME LinkInv, HostWrite, HostCheck PROVE LinkInv'
  OBVIOUS
<1>1. UNCHANGED <<ring, main, central>>
  BY DEF HostWrite, HostCheck, HostStore, HostPublish
<1>2. host \in HostRecords /\ host.pc = "check" /\ host.todo # <<>>
  BY DEF HostCheck, LinkInv, RingTypes
<1>3. LoopReads'
  BY <1>1 DEF LinkInv, LoopReads, ring
<1>4. CASE NextIndex(host.head) # bleRxTail /\ host' = [host EXCEPT !.pc = "store"]
  <2>1. RingTypes'
    BY <1>1, <1>2, <1>4 DEF LinkInv, RingTypes, HostRecords, ring
  <2>2. Dist(bleRxTail, bleRxHead) + Dist(bleRxHead, host.head) < Size - 1
    <3>1. /\ Dist(bleRxTail, bleRxHead) + Dist(bleRxHead, host.head) < Size
          /\ bleRxTail \in Index /\ bleRxHead \in Index /\ host.head \in Index
      BY <1>2 DEF LinkInv, RingTypes, HostAhead, HostRecords
    <3>2. host.head + 1 # bleRxTail /\ ~(host.head = Size - 1 /\ bleRxTail = 0)
      BY <1>4, <3>1, NextIndexIs, SizeAssumption DEF Index
    <3> QED BY <3>1, <3>2, SizeAssumption DEF Dist, Index
  <2>3. HostAhead'
    <3>1. host'.head = host.head /\ host'.todo = host.todo /\ host'.pc = "store"
      BY <1>2, <1>4 DEF HostRecords
    <3> QED BY <1>1, <1>2, <2>2, <3>1 DEF LinkInv, HostAhead, ring
  <2> QED BY <1>3, <2>1, <2>3 DEF LinkInv
<1>5. CASE host' = [host EXCEPT !.todo = Tail(@)]
  <2>1. Tail(host.todo) \in Seq(BleByte)
    BY <1>2, HeadTailProperties DEF HostRecords
  <2>2. host'.head = host.head /\ host'.pc = "check" /\ host' \in HostRecords
    BY <1>2, <1>5, <2>1 DEF HostRecords
  <2>3. RingTypes'
    BY <1>1, <2>2 DEF LinkInv, RingTypes, ring
  <2>4. HostAhead'
    BY <1>1, <1>2, <2>2 DEF LinkInv, HostAhead, ring
  <2> QED BY <1>3, <2>3, <2>4 DEF LinkInv
<1> QED BY <1>4, <1>5 DEF HostCheck

\* What storing a byte does to the ring, as the invariant and the refinement
\* both need it.
LEMMA StoreFacts ==
  ASSUME LinkInv, HostWrite, HostStore
  PROVE  /\ UNCHANGED <<bleRxHead, bleRxTail, main, central, refused, handed>>
         /\ host.pc = "store" /\ Head(host.todo) \in BleByte
         /\ bleRxBuf' = [bleRxBuf EXCEPT ![host.head] = Head(host.todo)]
         /\ host'.head = NextIndex(host.head) /\ host'.pc = "check"
         /\ host' \in HostRecords
         /\ Dist(bleRxTail, bleRxHead) + Dist(bleRxHead, host.head) < Size - 1
         /\ Dist(bleRxHead, host.head) < Size - 1
<1>1. host \in HostRecords /\ host.pc = "store" /\ host.todo # <<>>
  BY DEF HostStore, LinkInv, RingTypes, HostAhead
<1>2. UNCHANGED <<bleRxHead, bleRxTail, main, central, refused, handed>>
  BY <1>1 DEF HostWrite, HostCheck, HostStore, HostPublish
<1>3. Head(host.todo) \in BleByte /\ Tail(host.todo) \in Seq(BleByte)
  BY <1>1, HeadTailProperties DEF HostRecords
<1>4. NextIndex(host.head) \in Index
  BY <1>1, NextIndexIs DEF HostRecords
<1>5. host' \in HostRecords
  BY <1>3, <1>4 DEF HostStore, HostRecords
<1>6. Dist(bleRxTail, bleRxHead) + Dist(bleRxHead, host.head) < Size - 1
  BY <1>1 DEF LinkInv, HostAhead
<1>7. Dist(bleRxTail, bleRxHead) \in Nat /\ Dist(bleRxHead, host.head) \in Nat
  <2>1. bleRxHead \in Index /\ bleRxTail \in Index /\ host.head \in Index
    BY <1>1 DEF LinkInv, RingTypes, HostRecords
  <2> QED BY <2>1, DistSlot
<1> QED BY <1>1, <1>2, <1>3, <1>5, <1>6, <1>7, SizeAssumption DEF HostStore

LEMMA HostStoreInv == LinkInv /\ HostWrite /\ HostStore => LinkInv'
<1> SUFFICES ASSUME LinkInv, HostWrite, HostStore PROVE LinkInv'
  OBVIOUS
<1>1. bleRxHead \in Index /\ bleRxTail \in Index /\ host.head \in Index
  BY DEF LinkInv, RingTypes, HostRecords
<1>2. RingTypes'
  <2>1. bleRxBuf' \in [Index -> Cell]
    BY <1>1, StoreFacts DEF LinkInv, RingTypes, Cell
  <2> QED BY <2>1, StoreFacts DEF LinkInv, RingTypes
<1>3. HostAhead'
  <2>1. Dist(bleRxHead, NextIndex(host.head)) = Dist(bleRxHead, host.head) + 1
    BY <1>1, StoreFacts, DistNext
  <2>2. Dist(bleRxTail, bleRxHead) + Dist(bleRxHead, NextIndex(host.head)) < Size
    <3>1. Dist(bleRxTail, bleRxHead) \in Nat /\ Dist(bleRxHead, host.head) \in Nat
      BY <1>1, DistSlot
    <3> QED BY <2>1, <3>1, StoreFacts, SizeAssumption
  <2> QED BY <2>2, StoreFacts DEF HostAhead
<1>4. LoopReads'
  <2>1. bleRxHead # bleRxTail => host.head # bleRxTail
    <3>1. Dist(bleRxTail, bleRxHead) + Dist(bleRxHead, host.head) < Size - 1
      BY StoreFacts
    <3> QED BY <1>1, <3>1, SizeAssumption DEF Dist, Index
  <2>2. bleRxHead # bleRxTail => bleRxBuf'[bleRxTail] = bleRxBuf[bleRxTail]
    BY <1>1, <2>1, StoreFacts DEF LinkInv, RingTypes
  <2> QED BY <2>2, StoreFacts DEF LinkInv, LoopReads
<1> QED BY <1>2, <1>3, <1>4 DEF LinkInv

LEMMA HostPublishInv == LinkInv /\ HostWrite /\ HostPublish => LinkInv'
<1> SUFFICES ASSUME LinkInv, HostWrite, HostPublish PROVE LinkInv'
  OBVIOUS
<1>1. /\ host \in HostRecords /\ host.pc = "check" /\ host.todo = <<>>
      /\ bleRxHead' = host.head /\ host' = [host EXCEPT !.pc = "idle"]
  BY DEF HostPublish, LinkInv, RingTypes
<1>2. UNCHANGED <<bleRxBuf, bleRxTail, main, central>>
  BY <1>1 DEF HostWrite, HostCheck, HostStore, HostPublish
<1>3. host' \in HostRecords /\ host'.pc = "idle" /\ host'.head = host.head
  BY <1>1 DEF HostRecords
<1>4. bleRxHead \in Index /\ bleRxTail \in Index /\ host.head \in Index
  BY <1>1 DEF LinkInv, RingTypes, HostRecords
<1>5. Dist(bleRxTail, bleRxHead) + Dist(bleRxHead, host.head) < Size
  BY DEF LinkInv, HostAhead
<1>6. RingTypes'
  BY <1>1, <1>2, <1>3, <1>4 DEF LinkInv, RingTypes
<1>7. HostAhead'
  <2>1. Dist(bleRxTail, host.head) + Dist(host.head, host.head) < Size
    BY <1>4, <1>5, SizeAssumption DEF Dist, Index
  <2> QED BY <1>1, <1>2, <1>3, <2>1 DEF HostAhead
<1>8. LoopReads'
  <2>1. bleRxHead # bleRxTail => host.head # bleRxTail
    BY <1>4, <1>5, SizeAssumption DEF Dist, Index
  <2> QED BY <1>1, <1>2, <2>1 DEF LinkInv, LoopReads
<1> QED BY <1>6, <1>7, <1>8 DEF LinkInv

\* What the loop's two steps on a byte do.
LEMMA LoadFacts ==
  ASSUME LinkInv, BleRead, main.pc = "load"
  PROVE  /\ UNCHANGED <<ring, host, central, refused, handed>>
         /\ main' = [pc |-> "store", char |-> bleRxBuf[bleRxTail]]
BY DEF BleRead, ring

LEMMA TakeFacts ==
  ASSUME LinkInv, BleRead, main.pc = "store"
  PROVE  /\ UNCHANGED <<bleRxBuf, bleRxHead, host, central, refused>>
         /\ bleRxTail' = NextIndex(bleRxTail)
         /\ handed' = <<bleRxBuf[bleRxTail]>>
         /\ main'.pc \in {"ble", "off", "on"} /\ main'.char = <<>>
         /\ main' \in [pc : LoopSteps, char : Cell]
         /\ bleRxHead # bleRxTail
<1>1. main.char = bleRxBuf[bleRxTail] /\ bleRxHead # bleRxTail
  BY DEF LinkInv, LoopReads
<1>2. main' \in [pc : {"ble", "off", "on"}, char : {<<>>}]
  BY DEF BleRead, BleHandle, Execute
<1>3. main'.pc \in {"ble", "off", "on"} /\ main'.char = <<>>
      /\ main' \in [pc : LoopSteps, char : Cell]
  BY <1>2 DEF LoopSteps, Cell
<1> QED BY <1>1, <1>3 DEF BleRead, BleHandle

LEMMA BleReadInv == LinkInv /\ BleRead => LinkInv'
<1> SUFFICES ASSUME LinkInv, BleRead PROVE LinkInv'
  OBVIOUS
<1>1. CASE main.pc = "load"
  <2>1. /\ UNCHANGED <<ring, host, central>>
        /\ main' = [pc |-> "store", char |-> bleRxBuf[bleRxTail]]
        /\ bleRxHead # bleRxTail /\ bleRxBuf[bleRxTail] \in Cell
    BY <1>1, LoadFacts DEF LinkInv, LoopReads, RingTypes
  <2>2. RingTypes'
    BY <2>1 DEF LinkInv, RingTypes, ring, LoopSteps
  <2>3. HostAhead'
    BY <2>1 DEF LinkInv, HostAhead, ring
  <2>4. LoopReads'
    BY <2>1 DEF LoopReads, ring
  <2> QED BY <2>2, <2>3, <2>4 DEF LinkInv
<1>2. CASE main.pc = "store"
  <2>1. bleRxHead \in Index /\ bleRxTail \in Index /\ NextIndex(bleRxTail) \in Index
    BY NextIndexIs DEF LinkInv, RingTypes
  <2>2. RingTypes'
    BY <1>2, <2>1, TakeFacts DEF LinkInv, RingTypes
  <2>3. HostAhead'
    <3>1. Dist(NextIndex(bleRxTail), bleRxHead) = Dist(bleRxTail, bleRxHead) - 1
      BY <1>2, <2>1, TakeFacts, DistNext
    <3>2. host.head \in Index
      BY DEF LinkInv, RingTypes, HostRecords
    <3>3. Dist(bleRxTail, bleRxHead) \in Nat /\ Dist(bleRxHead, host.head) \in Nat
      BY <2>1, <3>2, DistSlot
    <3> QED BY <1>2, <3>1, <3>3, TakeFacts, SizeAssumption DEF LinkInv, HostAhead
  <2>4. LoopReads'
    BY <1>2, TakeFacts DEF LoopReads
  <2> QED BY <2>2, <2>3, <2>4 DEF LinkInv
<1> QED BY <1>1, <1>2 DEF BleRead

\* Where the loop goes after a command is known.
LEMMA QuietSteps ==
  ASSUME LinkInv, Connect \/ Disconnect \/ UsbChar \/ BleStop \/ BleRestart
  PROVE  LinkInv' /\ UNCHANGED <<ring, host, refused, handed>>
<1>1. central \in [line : Nat \ {0}, at : Nat \ {0}]
      /\ main \in [pc : LoopSteps, char : Cell]
  BY DEF LinkInv, RingTypes
<1>2. UNCHANGED <<ring, host, refused, handed>>
  BY DEF Connect, Disconnect, UsbChar, BleStop, BleRestart, CutLine, history
<1>3. CutLine => central' \in [line : Nat \ {0}, at : Nat \ {0}]
  BY <1>1 DEF CutLine
<1>4. central' \in [line : Nat \ {0}, at : Nat \ {0}]
  BY <1>1, <1>3 DEF Connect, Disconnect, UsbChar, BleStop, BleRestart
<1>5. main' \in [pc : {"usb", "ble", "off", "on"}, char : Cell] \/ UNCHANGED main
  <2>1. CASE Connect \/ Disconnect
    BY <2>1 DEF Connect, Disconnect
  <2>2. CASE UsbChar
    <3>1. main' \in [pc : {"usb", "off", "on"}, char : {<<>>}]
      BY <2>2 DEF UsbChar, Execute
    <3> QED BY <3>1 DEF Cell
  <2>3. CASE BleStop \/ BleRestart
    BY <1>1, <2>3 DEF BleStop, BleRestart
  <2> QED BY <2>1, <2>2, <2>3
<1> QED BY <1>2, <1>4, <1>5, QuietInv DEF LinkInv

LEMMA BleTestSteps ==
  ASSUME LinkInv, BleTest
  PROVE  LinkInv' /\ UNCHANGED <<ring, host, refused, handed>>
<1>1. UNCHANGED <<ring, host, central, refused, handed>>
  BY DEF BleTest, history
<1>2. main \in [pc : LoopSteps, char : Cell]
  BY DEF LinkInv, RingTypes
<1>3. central' \in [line : Nat \ {0}, at : Nat \ {0}]
  BY <1>1 DEF LinkInv, RingTypes
<1>4. CASE BleAvailable
  <2>1. main' = [main EXCEPT !.pc = "load"] /\ bleRxHead # bleRxTail
    BY <1>4 DEF BleTest, BleAvailable
  <2>2. RingTypes'
    BY <1>1, <1>2, <1>3, <2>1 DEF LinkInv, RingTypes, ring, LoopSteps
  <2>3. HostAhead'
    BY <1>1 DEF LinkInv, HostAhead, ring
  <2>4. LoopReads'
    BY <1>1, <1>2, <2>1 DEF LoopReads, ring
  <2> QED BY <1>1, <2>2, <2>3, <2>4 DEF LinkInv
<1>5. CASE ~BleAvailable
  <2>1. main' \in [pc : {"usb", "ble", "off", "on"}, char : Cell]
    BY <1>2, <1>5 DEF BleTest
  <2> QED BY <1>1, <1>3, <2>1, QuietInv
<1> QED BY <1>4, <1>5

\* The ring invariant holds in every behaviour.
THEOREM RingInvariant == Spec => []LinkInv
<1>1. LinkInv /\ [Next]_vars => LinkInv'
  <2> SUFFICES ASSUME LinkInv, [Next]_vars PROVE LinkInv'
    OBVIOUS
  <2>1. CASE Connect \/ Disconnect \/ UsbChar \/ BleStop \/ BleRestart
    BY <2>1, QuietSteps
  <2>2. CASE OnWrite
    BY <2>2, OnWriteInv
  <2>3. CASE HostWrite
    BY <2>3, HostCheckInv, HostStoreInv, HostPublishInv DEF HostWrite
  <2>4. CASE BleTest
    BY <2>4, BleTestSteps
  <2>5. CASE BleRead
    BY <2>5, BleReadInv
  <2>6. CASE UNCHANGED vars
    BY <2>6 DEF vars, LinkInv, RingTypes, HostAhead, LoopReads
  <2> QED BY <2>1, <2>2, <2>3, <2>4, <2>5, <2>6 DEF Next, Central, Loop
<1> QED BY <1>1, InitInv, PTL DEF Spec

(***************************************************************************)
(* The refinement                                                          *)
(***************************************************************************)
\* A step that moves no index and changes no waiting byte is invisible.
LEMMA Invisible ==
  ASSUME UNCHANGED <<ring, refused, handed>>, host'.head = host.head
  PROVE  UNCHANGED Queue!vars
BY DEF ring, Queue!vars, Between, Dist, Slot

\* Every step is one of the queue, or is not visible in it.
LEMMA QueueStep == LinkInv /\ LinkInv' /\ [Next]_vars => [Queue!Next]_(Queue!vars)
<1> SUFFICES ASSUME LinkInv, LinkInv', [Next]_vars PROVE [Queue!Next]_(Queue!vars)
  OBVIOUS
<1>0. /\ bleRxBuf \in [Index -> Cell] /\ bleRxHead \in Index /\ bleRxTail \in Index
      /\ host.head \in Index /\ host \in HostRecords
      /\ Dist(bleRxTail, bleRxHead) + Dist(bleRxHead, host.head) < Size
      /\ Dist(bleRxTail, bleRxHead) \in Nat /\ Dist(bleRxHead, host.head) \in Nat
  BY DistSlot DEF LinkInv, RingTypes, HostRecords, HostAhead
<1>1. CASE Connect \/ Disconnect \/ UsbChar \/ BleStop \/ BleRestart
  BY <1>1, QuietSteps, Invisible
<1>2. CASE BleTest
  BY <1>2, BleTestSteps, Invisible
<1>3. CASE OnWrite
  <2>1. UNCHANGED <<ring, refused, handed>> /\ host'.head = bleRxHead /\ host.pc = "idle"
    BY <1>3 DEF OnWrite, history
  <2>2. host'.head = host.head
    BY <2>1 DEF LinkInv, HostAhead
  <2> QED BY <2>1, <2>2, Invisible
<1>4. CASE UNCHANGED vars
  BY <1>4, Invisible DEF vars, ring
<1>5. CASE HostWrite /\ HostCheck
  <2>1. UNCHANGED <<ring, handed>> /\ host.pc = "check"
    BY <1>5 DEF HostWrite, HostCheck, HostStore, HostPublish, ring
  <2>2. host'.head = host.head
    BY <1>0, <1>5 DEF HostCheck, HostRecords
  <2>3. CASE UNCHANGED refused
    BY <2>1, <2>2, <2>3, Invisible
  <2>4. CASE NextIndex(host.head) = bleRxTail /\ refused' = refused + 1
    <3>1. Dist(bleRxTail, bleRxHead) + Dist(bleRxHead, host.head) >= Size - 1
      <4>1. IF host.head = Size - 1 THEN bleRxTail = 0 ELSE bleRxTail = host.head + 1
        BY <1>0, <2>4, NextIndexIs
      <4> QED BY <1>0, <4>1, SizeAssumption DEF Dist, Index
    <3>2. Queue!Full
      BY <1>0, <3>1, BetweenIs DEF Queue!Full
    <3>3. /\ UNCHANGED Between(bleRxBuf, bleRxTail, bleRxHead)
          /\ UNCHANGED Between(bleRxBuf, bleRxHead, host.head)
      BY <2>1, <2>2 DEF ring, Between, Dist, Slot
    <3> QED BY <2>1, <2>4, <3>2, <3>3 DEF Queue!Next, Queue!Refuse
  <2> QED BY <1>5, <2>3, <2>4 DEF HostCheck
<1>6. CASE HostWrite /\ HostStore
  <2> DEFINE b == Head(host.todo)
  <2>1. b \in BleByte /\ b \in Cell
    BY <1>6, StoreFacts DEF Cell
  <2>2. Between(bleRxBuf, bleRxHead, host.head)'
          = Append(Between(bleRxBuf, bleRxHead, host.head), b)
    <3>1. Between([bleRxBuf EXCEPT ![host.head] = b], bleRxHead, NextIndex(host.head))
            = Append(Between(bleRxBuf, bleRxHead, host.head), b)
      BY <1>0, <1>6, <2>1, StoreFacts, StoreAppends, ZenonT(40)
    <3>2. Between(bleRxBuf, bleRxHead, host.head)'
            = Between(bleRxBuf', bleRxHead', host'.head)
      BY DEF Between, Dist, Slot
    <3> QED BY <1>6, <3>1, <3>2, StoreFacts
  <2>3. UNCHANGED Between(bleRxBuf, bleRxTail, bleRxHead)
    <3>1. Between([bleRxBuf EXCEPT ![host.head] = b], bleRxTail, bleRxHead)
            = Between(bleRxBuf, bleRxTail, bleRxHead)
      BY <1>0, <2>1, StoreFrame, ZenonT(40)
    <3>2. Between(bleRxBuf, bleRxTail, bleRxHead)'
            = Between(bleRxBuf', bleRxTail', bleRxHead')
      BY DEF Between, Dist, Slot
    <3> QED BY <1>6, <3>1, <3>2, StoreFacts
  <2>4. ~Queue!Full
    <3>1. Dist(bleRxTail, bleRxHead) + Dist(bleRxHead, host.head) < Size - 1
      BY <1>6, StoreFacts
    <3>2. /\ Len(Between(bleRxBuf, bleRxTail, bleRxHead)) = Dist(bleRxTail, bleRxHead)
          /\ Len(Between(bleRxBuf, bleRxHead, host.head)) = Dist(bleRxHead, host.head)
      BY <1>0, BetweenIs
    <3> QED BY <1>0, <3>1, <3>2, SizeAssumption DEF Queue!Full
  <2>5. UNCHANGED <<refused, handed>>
    BY <1>6, StoreFacts
  <2> QED BY <2>1, <2>2, <2>3, <2>4, <2>5 DEF Queue!Next, Queue!Accept
<1>7. CASE HostWrite /\ HostPublish
  <2>1. /\ bleRxHead' = host.head /\ host'.head = host.head /\ host.pc = "check"
        /\ UNCHANGED <<bleRxBuf, bleRxTail, refused, handed>>
    BY <1>0, <1>7 DEF HostPublish, HostWrite, HostCheck, HostStore, HostRecords
  <2>2. Between(bleRxBuf, bleRxTail, bleRxHead)'
          = Between(bleRxBuf, bleRxTail, bleRxHead) \o Between(bleRxBuf, bleRxHead, host.head)
    <3>1. Between(bleRxBuf, bleRxTail, bleRxHead)' = Between(bleRxBuf, bleRxTail, host.head)
      BY <2>1 DEF Between, Dist, Slot
    <3> QED BY <1>0, <3>1, BetweenConcat
  <2>3. Between(bleRxBuf, bleRxHead, host.head)' = <<>>
    <3>1. Between(bleRxBuf, bleRxHead, host.head)' = Between(bleRxBuf, host.head, host.head)
      BY <2>1 DEF Between, Dist, Slot
    <3>2. /\ Between(bleRxBuf, host.head, host.head) \in Seq(Cell)
          /\ Len(Between(bleRxBuf, host.head, host.head)) = 0
      <4>1. Dist(host.head, host.head) = 0
        BY <1>0, DistSlot
      <4> QED BY <1>0, <4>1, BetweenIs
    <3> QED BY <3>1, <3>2, EmptySeq
  <2> QED BY <2>1, <2>2, <2>3 DEF Queue!Next, Queue!Publish
<1>8. CASE BleRead
  <2>1. CASE main.pc = "load"
    BY <1>8, <2>1, LoadFacts, Invisible
  <2>2. CASE main.pc = "store"
    <3>1. /\ Between(bleRxBuf, bleRxTail, bleRxHead) # <<>>
          /\ Head(Between(bleRxBuf, bleRxTail, bleRxHead)) = bleRxBuf[bleRxTail]
          /\ Between(bleRxBuf, NextIndex(bleRxTail), bleRxHead)
               = Tail(Between(bleRxBuf, bleRxTail, bleRxHead))
      BY <1>0, <1>8, <2>2, TakeFacts, BetweenTail
    <3>2. Between(bleRxBuf, bleRxTail, bleRxHead)'
            = Between(bleRxBuf, NextIndex(bleRxTail), bleRxHead)
      BY <1>8, <2>2, TakeFacts DEF Between, Dist, Slot
    <3>3. UNCHANGED Between(bleRxBuf, bleRxHead, host.head)
      BY <1>8, <2>2, TakeFacts DEF Between, Dist, Slot
    <3> QED BY <1>8, <2>2, <3>1, <3>2, <3>3, TakeFacts DEF Queue!Next, Queue!Take
  <2> QED BY <1>8, <2>1, <2>2 DEF BleRead
<1> QED BY <1>1, <1>2, <1>3, <1>4, <1>5, <1>6, <1>7, <1>8
        DEF Next, Central, Loop, HostWrite

\* BLERxCallback and bleRead implement a queue of Size - 1 bytes, whatever the
\* size, the lines sent and the interleaving of the two tasks.
THEOREM RingIsAQueue == Spec => ImplementsQueue
<1>1. Init => Queue!Init
  <2> SUFFICES ASSUME Init PROVE Queue!Init
    OBVIOUS
  <2>1. LinkInv /\ bleRxTail = bleRxHead /\ bleRxHead = host.head /\ refused = 0
        /\ handed = <<>>
    BY InitInv DEF Init
  <2>2. /\ Between(bleRxBuf, bleRxHead, bleRxHead) \in Seq(Cell)
        /\ Len(Between(bleRxBuf, bleRxHead, bleRxHead)) = 0
    <3>1. bleRxBuf \in [Index -> Cell] /\ bleRxHead \in Index
      BY <2>1 DEF LinkInv, RingTypes
    <3>2. Dist(bleRxHead, bleRxHead) = 0
      BY <3>1, DistSlot
    <3> QED BY <3>1, <3>2, BetweenIs
  <2> QED BY <2>1, <2>2, EmptySeq DEF Queue!Init
<1> QED BY <1>1, QueueStep, RingInvariant, PTL DEF Spec, ImplementsQueue, Queue!Spec

(***************************************************************************)
(* What is read of a line: the places of the units kept, among the first   *)
(* p, are put in order by the number of kept ones up to each of them.      *)
(***************************************************************************)
KeptBy(line, p) == {i \in 1..p : /\ line[i] \notin {"nl", "cr", "bad"}
                                 /\ \A j \in 1..p : line[j] = "bad" => j < i}
Rank(at, i) == Cardinality({j \in at : j <= i})
Byte(k, i) == <<<<"ble", k>>, BleLines[k][i]>>
Assembled == {b \in [bytes : Seq(BleByte), over : BOOLEAN] : Len(b.bytes) < LineMax}

\* The buffer after the first p units of line k, read from its beginning.
IsRead(buf, k, p) ==
  LET at == KeptBy(BleLines[k], p) IN
    IF buf.over THEN Cardinality(at) >= LineMax
    ELSE /\ Len(buf.bytes) = Cardinality(at)
         /\ \A n \in 1..Len(buf.bytes) :
              \E i \in at : Rank(at, i) = n /\ buf.bytes[n] = Byte(k, i)

LEMMA Places ==
  ASSUME NEW q \in Nat, NEW at \in SUBSET (1..q)
  PROVE  /\ IsFiniteSet(at) /\ Cardinality(at) \in Nat
         /\ \A i : {j \in at : j <= i} \in SUBSET at /\ Rank(at, i) \in Nat
<1>1. IsFiniteSet(1..q) BY FS_Interval
<1>2. IsFiniteSet(at) BY <1>1, FS_Subset
<1>3. ASSUME NEW T \in SUBSET at PROVE Cardinality(T) \in Nat
  BY <1>2, FS_Subset, FS_CardinalityType
<1> QED BY <1>2, <1>3 DEF Rank

LEMMA LinePlaces ==
  ASSUME NEW k \in DOMAIN BleLines
  PROVE  /\ BleLines[k] \in Seq(STRING) /\ k \in Nat \ {0} /\ k \in 1..Len(BleLines)
         /\ Len(BleLines[k]) \in Nat \ {0} /\ DOMAIN BleLines[k] = 1..Len(BleLines[k])
         /\ BleLines[k][Len(BleLines[k])] = "nl"
         /\ \A i \in 1..Len(BleLines[k]) - 1 : BleLines[k][i] # "nl"
         /\ \A i \in 1..Len(BleLines[k]) : Byte(k, i) \in BleByte
<1>1. BleLines \in Seq(Seq(STRING)) BY LinesAssumption
<1>2. k \in 1..Len(BleLines) /\ Len(BleLines) \in Nat BY <1>1, LenProperties
<1>3. BleLines[k] \in Seq(STRING) BY <1>1, <1>2, ElementOfSeq
<1>4. Len(BleLines[k]) \in Nat /\ DOMAIN BleLines[k] = 1..Len(BleLines[k])
  BY <1>3, LenProperties
<1>5. \A i \in 1..Len(BleLines[k]) : Byte(k, i) \in BleByte BY <1>4 DEF Byte, BleByte
<1> QED BY <1>2, <1>3, <1>4, <1>5, NewlineAssumption

LEMMA KeptNext ==
  ASSUME NEW line, NEW p \in Nat \ {0}
  PROVE  /\ KeptBy(line, 0) = {}
         /\ KeptBy(line, p) \in SUBSET (1..p) /\ KeptBy(line, p - 1) \in SUBSET (1..p - 1)
         /\ line[p] \in {"nl", "cr"} => KeptBy(line, p) = KeptBy(line, p - 1)
         /\ line[p] = "bad" => KeptBy(line, p) = {}
         /\ line[p] \notin {"nl", "cr", "bad"} => KeptBy(line, p) = KeptBy(line, p - 1) \cup {p}
<1>1. 1..p = (1..p - 1) \cup {p} /\ \A i \in 1..p - 1 : i < p /\ i # p OBVIOUS
<1>2. KeptBy(line, 0) = {} BY DEF KeptBy
<1>3. line[p] \in {"nl", "cr"} => KeptBy(line, p) = KeptBy(line, p - 1) BY <1>1 DEF KeptBy
<1>4. line[p] = "bad" => KeptBy(line, p) = {}
  <2> SUFFICES ASSUME line[p] = "bad", NEW i \in KeptBy(line, p) PROVE FALSE OBVIOUS
  <2>1. i \in 1..p /\ p < i BY <1>1 DEF KeptBy
  <2> QED BY <2>1
<1>5. line[p] \notin {"nl", "cr", "bad"} => KeptBy(line, p) = KeptBy(line, p - 1) \cup {p}
  BY <1>1 DEF KeptBy
<1> QED BY <1>2, <1>3, <1>4, <1>5 DEF KeptBy

\* A place further on comes last and leaves the ranks of the others alone.
LEMMA RankNext ==
  ASSUME NEW q \in Nat, NEW at \in SUBSET (1..q)
  PROVE  /\ Cardinality(at \cup {q + 1}) = Cardinality(at) + 1
         /\ Rank(at \cup {q + 1}, q + 1) = Cardinality(at) + 1
         /\ \A i \in at : Rank(at \cup {q + 1}, i) = Rank(at, i)
<1>1. Cardinality(at \cup {q + 1}) = Cardinality(at) + 1
  <2>1. q + 1 \notin at OBVIOUS
  <2> QED BY <2>1, Places, FS_AddElement
<1>2. {j \in at \cup {q + 1} : j <= q + 1} = at \cup {q + 1}
  <2>1. \A j \in at \cup {q + 1} : j <= q + 1 OBVIOUS
  <2> QED BY <2>1, Zenon
<1>3. ASSUME NEW i \in at PROVE {j \in at \cup {q + 1} : j <= i} = {j \in at : j <= i}
  <2>1. ~(q + 1 <= i) OBVIOUS
  <2> QED BY <2>1
<1> QED BY <1>1, <1>2, <1>3 DEF Rank

LEMMA RankTells ==
  ASSUME NEW q \in Nat, NEW at \in SUBSET (1..q), NEW i \in at, NEW j \in at,
         Rank(at, i) = Rank(at, j)
  PROVE  i = j
<1>1. ASSUME NEW a \in at, NEW b \in at, a < b PROVE Rank(at, a) # Rank(at, b)
  <2> DEFINE A == {x \in at : x <= a}
             B == {x \in at : x <= b}
  <2>1. IsFiniteSet(B) BY Places, FS_Subset
  <2>2. A \in SUBSET B /\ b \in B /\ b \notin A
    <3>1. /\ \A x \in at : x <= a => x <= b
          /\ b <= b /\ ~(b <= a)
      BY <1>1
    <3> QED BY <3>1
  <2>3. Cardinality(A) # Cardinality(B)
    <3> HIDE DEF A, B
    <3> QED BY <2>1, <2>2, FS_Subset
  <2> QED BY <2>3 DEF Rank
<1> QED BY <1>1

\* Bytes with the ranks of their places are in the order of the line.
LEMMA ReadInOrder ==
  ASSUME NEW k \in DOMAIN BleLines, NEW q \in Nat, NEW at \in SUBSET (1..q),
         NEW bytes \in Seq(BleByte), Len(bytes) = Cardinality(at),
         \A n \in 1..Len(bytes) : \E i \in at : Rank(at, i) = n /\ bytes[n] = Byte(k, i)
  PROVE  Units(bytes) = InOrder(BleLines[k], at)
<1>1. DOMAIN bytes = 1..Cardinality(at) BY LenProperties
<1>2. ASSUME NEW n \in 1..Cardinality(at)
      PROVE  UnitOf(bytes[n]) = BleLines[k][CHOOSE i \in at : Cardinality({j \in at : j <= i}) = n]
  <2>1. PICK i \in at : Rank(at, i) = n /\ bytes[n] = Byte(k, i) OBVIOUS
  <2> DEFINE at_n == CHOOSE x \in at : Rank(at, x) = n
  <2>2. at_n \in at /\ Rank(at, at_n) = n BY <2>1
  <2>3. at_n = i BY <2>1, <2>2, RankTells
  <2>4. at_n = CHOOSE x \in at : Cardinality({j \in at : j <= x}) = n BY DEF Rank
  <2>5. UnitOf(bytes[n]) = BleLines[k][i] BY <2>1 DEF UnitOf, Byte
  <2> HIDE DEF at_n
  <2> QED BY <2>3, <2>4, <2>5, Zenon
<1> QED BY <1>1, <1>2 DEF Units, InOrder

\* handleChar reads on.
LEMMA ReadStep ==
  ASSUME NEW k \in DOMAIN BleLines, NEW p \in 1..Len(BleLines[k]), BleLines[k][p] # "nl",
         NEW buf \in Assembled, IsRead(buf, k, p - 1)
  PROVE  IsRead(AfterChar(buf, Byte(k, p)), k, p)
<1> DEFINE line == BleLines[k]
           at == KeptBy(line, p - 1)
           new == KeptBy(line, p)
           after == AfterChar(buf, Byte(k, p))
<1>1. UnitOf(Byte(k, p)) = line[p] BY DEF UnitOf, Byte
<1>2. p \in Nat \ {0} /\ p - 1 \in Nat /\ Byte(k, p) \in BleByte BY LinePlaces
<1>3. CASE line[p] = "cr"
  <2>1. after = buf BY <1>1, <1>3 DEF AfterChar
  <2>2. new = at BY <1>2, <1>3, KeptNext
  <2> QED BY <2>1, <2>2 DEF IsRead
<1>4. CASE line[p] = "bad"
  <2>1. after = NoLine BY <1>1, <1>4 DEF AfterChar
  <2>2. new = {} BY <1>2, <1>4, KeptNext
  <2>3. Cardinality({}) = 0 BY FS_EmptySet
  <2> QED BY <2>1, <2>2, <2>3 DEF IsRead, NoLine
<1>5. CASE line[p] \notin {"nl", "cr", "bad"}
  <2>1. after = IF Len(buf.bytes) < LineMax - 1 /\ ~buf.over
                THEN [buf EXCEPT !.bytes = Append(buf.bytes, Byte(k, p))]
                ELSE [buf EXCEPT !.over = TRUE]
    BY <1>1, <1>5 DEF AfterChar
  <2>2. new = at \cup {p} /\ at \in SUBSET (1..p - 1) BY <1>2, <1>5, KeptNext
  <2>3. Cardinality(at) \in Nat BY <1>2, <2>2, Places
  <2>4. /\ Cardinality(new) = Cardinality(at) + 1 /\ Rank(new, p) = Cardinality(at) + 1
        /\ \A i \in at : Rank(new, i) = Rank(at, i)
    <3>1. p - 1 + 1 = p BY <1>2
    <3> HIDE DEF at, new
    <3> QED BY <1>2, <2>2, <3>1, RankNext, ZenonT(40)
  <2>5. buf \in [bytes : Seq(BleByte), over : BOOLEAN] /\ Len(buf.bytes) < LineMax /\ LineMax \in Nat
    BY LimitAssumption DEF Assembled
  <2>6. Len(buf.bytes) \in Nat BY <2>5, LenProperties
  <2> HIDE DEF at, new, after
  <2>7. buf.over => Cardinality(at) >= LineMax BY DEF IsRead, at
  <2>8. ~buf.over => /\ Len(buf.bytes) = Cardinality(at)
                     /\ \A n \in 1..Len(buf.bytes) :
                          \E i \in at : Rank(at, i) = n /\ buf.bytes[n] = Byte(k, i)
    BY DEF IsRead, at
  <2>9. CASE Len(buf.bytes) < LineMax - 1 /\ ~buf.over
    <3>1. ~after.over /\ after.bytes = Append(buf.bytes, Byte(k, p)) BY <2>1, <2>5, <2>9
    <3>2. /\ Len(after.bytes) = Len(buf.bytes) + 1
          /\ \A n \in 1..Len(buf.bytes) : after.bytes[n] = buf.bytes[n]
          /\ after.bytes[Len(buf.bytes) + 1] = Byte(k, p)
      BY <1>2, <2>5, <3>1, AppendProperties
    <3>3. Len(after.bytes) = Cardinality(new) BY <2>4, <2>8, <2>9, <3>2
    <3>4. ASSUME NEW n \in 1..Len(after.bytes)
          PROVE  \E i \in new : Rank(new, i) = n /\ after.bytes[n] = Byte(k, i)
      <4>1. CASE n \in 1..Len(buf.bytes) BY <2>2, <2>4, <2>8, <2>9, <3>2, <4>1
      <4>2. CASE n = Len(buf.bytes) + 1 BY <2>2, <2>4, <2>8, <2>9, <3>2, <4>2
      <4> QED BY <2>6, <3>2, <4>1, <4>2
    <3> QED BY <3>1, <3>3, <3>4 DEF IsRead, new, after
  <2>10. CASE ~(Len(buf.bytes) < LineMax - 1 /\ ~buf.over)
    <3>1. after.over BY <2>1, <2>5, <2>10
    <3>2. Cardinality(new) >= LineMax BY <2>3, <2>4, <2>5, <2>6, <2>7, <2>8, <2>10
    <3> QED BY <3>1, <3>2 DEF IsRead, new, after
  <2> QED BY <2>9, <2>10
<1> QED BY <1>3, <1>4, <1>5

\* A line that was read up to its newline is executed as it was meant.
LEMMA WholeLineMeant ==
  ASSUME NEW k \in DOMAIN BleLines, NEW buf \in Assembled, Meaningful(k),
         IsRead(buf, k, Len(BleLines[k]) - 1)
  PROVE  CommandIn(buf) = Meant(BleLines[k]) /\ Sources(buf) = {<<"ble", k>>}
<1> DEFINE line == BleLines[k]
           at == KeptBy(line, Len(line) - 1)
           after == InOrder(line, at)
<1>1. Len(line) \in Nat \ {0} /\ DOMAIN line = 1..Len(line) /\ line[Len(line)] = "nl"
  BY LinePlaces
<1>2. KeptAt(line) = at /\ at \in SUBSET (1..Len(line) - 1)
  <2>1. KeptAt(line) = KeptBy(line, Len(line)) BY <1>1 DEF KeptAt, KeptBy
  <2> QED BY <1>1, <2>1, KeptNext
<1>3. Cardinality(at) \in Nat /\ Len(line) - 1 \in Nat BY <1>1, <1>2, Places
<1> HIDE DEF at
<1>4. /\ after # <<>> /\ ~(Len(after) >= LineMax) /\ Head(after) = "open"
      /\ Meant(line) = ParseRpcCmd(after)
  BY <1>2 DEF Meaningful, Meant
<1>5. DOMAIN after = 1..Cardinality(at) BY DEF InOrder
<1>6. Len(after) = Cardinality(at) BY <1>3 DEF InOrder
<1>7. buf.bytes \in Seq(BleByte) /\ buf.over \in BOOLEAN BY DEF Assembled
<1>8. ~buf.over
  <2>1. ~(Cardinality(at) >= LineMax) BY <1>4, <1>6
  <2> QED BY <2>1 DEF IsRead, at
<1>9. /\ Len(buf.bytes) = Cardinality(at)
      /\ \A n \in 1..Len(buf.bytes) : \E i \in at : Rank(at, i) = n /\ buf.bytes[n] = Byte(k, i)
  BY <1>8 DEF IsRead, at
<1>10. Units(buf.bytes) = after BY <1>2, <1>3, <1>7, <1>9, ReadInOrder, ZenonT(40)
<1>11. Len(buf.bytes) \in Nat \ {0} /\ DOMAIN buf.bytes = 1..Len(buf.bytes) /\ buf.bytes # <<>>
  <2>1. Len(buf.bytes) \in Nat /\ DOMAIN buf.bytes = 1..Len(buf.bytes) BY <1>7, LenProperties
  <2>2. buf.bytes # <<>>
    <3>1. Units(<<>>) = <<>> BY DEF Units
    <3> QED BY <1>4, <1>10, <3>1
  <2> QED BY <1>7, <2>1, <2>2, EmptySeq
<1>12. UnitOf(buf.bytes[1]) = "open"
  <2>1. after[1] = UnitOf(buf.bytes[1]) BY <1>10, <1>11 DEF Units
  <2> QED BY <1>4, <2>1
<1>13. CommandIn(buf) = ParseRpcCmd(after) BY <1>8, <1>10, <1>11, <1>12 DEF CommandIn
<1>14. Sources(buf) = {<<"ble", k>>}
  <2>1. \A n \in DOMAIN buf.bytes : LineOf(buf.bytes[n]) = <<"ble", k>>
    BY <1>9, <1>11 DEF LineOf, Byte
  <2>2. 1 \in DOMAIN buf.bytes BY <1>11
  <2> QED BY <2>1, <2>2 DEF Sources
<1> QED BY <1>4, <1>13, <1>14

(***************************************************************************)
(* What was sent and not yet handled: the bytes between the tail and the   *)
(* host task's own head, then those it has left of the write.              *)
(***************************************************************************)
Air == Between(bleRxBuf, bleRxTail, host.head) \o host.todo

\* A sequence without the element at m.
Without(new, old, m) ==
  /\ Len(new) = Len(old) - 1
  /\ \A i \in 1..Len(new) : new[i] = IF i < m THEN old[i] ELSE old[i + 1]

LEMMA AirIs ==
  ASSUME LinkInv
  PROVE  LET w == Between(bleRxBuf, bleRxTail, host.head) IN
         /\ w \in Seq(Cell) /\ Len(w) \in Nat /\ host.todo \in Seq(Cell) /\ Len(host.todo) \in Nat
         /\ Air = w \o host.todo /\ Air \in Seq(Cell) /\ Len(Air) = Len(w) + Len(host.todo)
         /\ \A i \in 1..Len(Air) :
              Air[i] = IF i <= Len(w) THEN w[i] ELSE host.todo[i - Len(w)]
<1>1. Between(bleRxBuf, bleRxTail, host.head) \in Seq(Cell)
  BY BetweenIs DEF LinkInv, RingTypes, HostRecords
<1>2. host.todo \in Seq(Cell)
  BY SeqMonotonic DEF LinkInv, RingTypes, HostRecords, Cell
<1>3. /\ Len(Between(bleRxBuf, bleRxTail, host.head)) \in Nat /\ Len(host.todo) \in Nat
  BY <1>1, <1>2, LenProperties
<1> QED BY <1>1, <1>2, <1>3, ConcatProperties DEF Air

\* Most steps leave all of it where it is,
LEMMA AirStays ==
  ASSUME UNCHANGED <<bleRxBuf, bleRxTail>>, host'.head = host.head, host'.todo = host.todo
  PROVE  Air' = Air
BY DEF Air, Between, Dist, Slot

\* storing a byte moves it from one part to the other,
LEMMA AirStored ==
  ASSUME LinkInv, HostWrite, HostStore
  PROVE  Air' = Air
<1> DEFINE w == Between(bleRxBuf, bleRxTail, host.head)
           b == Head(host.todo)
<1>1. /\ bleRxBuf \in [Index -> Cell] /\ bleRxHead \in Index /\ bleRxTail \in Index
      /\ host.head \in Index /\ host.todo \in Seq(BleByte) /\ host.todo # <<>>
  BY DEF LinkInv, RingTypes, HostRecords, HostStore, HostAhead
<1>2. Dist(bleRxTail, host.head) < Size - 1
  <2>1. Dist(bleRxTail, bleRxHead) + Dist(bleRxHead, host.head) < Size - 1
    BY StoreFacts
  <2> QED BY <1>1, <2>1, SizeAssumption DEF Dist, Index
<1>3. b \in Cell
  BY StoreFacts DEF Cell
<1>4. Between(bleRxBuf, bleRxTail, host.head)' = Append(w, b)
  <2>1. Between([bleRxBuf EXCEPT ![host.head] = b], bleRxTail, NextIndex(host.head))
          = Append(w, b)
    BY <1>1, <1>2, <1>3, StoreAppends
  <2>2. Between(bleRxBuf, bleRxTail, host.head)' = Between(bleRxBuf', bleRxTail', host'.head)
    BY DEF Between, Dist, Slot
  <2> QED BY <2>1, <2>2, StoreFacts
<1>5. host'.todo = Tail(host.todo)
  BY DEF HostStore
<1>6. Air' = Append(w, b) \o Tail(host.todo)
  BY <1>4, <1>5 DEF Air
<1>7. w \in Seq(Cell) /\ host.todo \in Seq(Cell)
  BY AirIs
<1> HIDE DEF w, b
<1>8. Append(w, b) \o Tail(host.todo) = w \o host.todo
  <2>1. Append(w, b) = w \o <<b>>
    BY <1>3, <1>7, AppendIsConcat
  <2>2. <<b>> \in Seq(Cell) /\ Tail(host.todo) \in Seq(Cell)
    BY <1>1, <1>3, <1>7, HeadTailProperties
  <2>3. (w \o <<b>>) \o Tail(host.todo) = w \o (<<b>> \o Tail(host.todo))
    <3> DEFINE one == <<b>>
               rest == Tail(host.todo)
    <3>1. w \in Seq(Cell) /\ one \in Seq(Cell) /\ rest \in Seq(Cell) BY <1>7, <2>2
    <3> HIDE DEF one, rest
    <3>2. (w \o one) \o rest = w \o (one \o rest) BY ONLY <3>1, ConcatAssociative, SMTT(30)
    <3> QED BY <3>2 DEF one, rest
  <2>4. <<b>> \o Tail(host.todo) = host.todo
    BY <1>1, <1>7, HeadTailProperties, ConcatProperties, SeqEqual DEF b
  <2> QED BY <2>1, <2>3, <2>4
<1> QED BY <1>6, <1>8 DEF Air, w

\* a full ring loses the byte the host task is about to store,
LEMMA AirDropped ==
  ASSUME LinkInv, UNCHANGED ring, host.todo # <<>>, host'.head = host.head,
         host'.todo = Tail(host.todo)
  PROVE  \E m \in 1..Len(Air) : Without(Air', Air, m) /\ Air[m] = Head(host.todo)
<1> DEFINE w == Between(bleRxBuf, bleRxTail, host.head)
           m == Len(w) + 1
<1>1. /\ w \in Seq(Cell) /\ Len(w) \in Nat /\ host.todo \in Seq(Cell)
      /\ Len(host.todo) \in Nat /\ Len(Air) = Len(w) + Len(host.todo)
      /\ \A i \in 1..Len(Air) :
           Air[i] = IF i <= Len(w) THEN w[i] ELSE host.todo[i - Len(w)]
  BY AirIs
<1>2. Air' = w \o Tail(host.todo)
  BY DEF Air, Between, Dist, Slot, ring
<1> HIDE DEF w
<1>3. /\ Tail(host.todo) \in Seq(Cell) /\ Len(Tail(host.todo)) = Len(host.todo) - 1
      /\ Len(host.todo) # 0 /\ Head(host.todo) = host.todo[1]
      /\ \A i \in 1..Len(host.todo) - 1 : Tail(host.todo)[i] = host.todo[i + 1]
  BY <1>1, HeadTailProperties, EmptySeq
<1> DEFINE t == Tail(host.todo)
<1>4. /\ Len(w \o t) = Len(w) + Len(t)
      /\ \A i \in 1..(Len(w) + Len(t)) : (w \o t)[i] = IF i <= Len(w) THEN w[i] ELSE t[i - Len(w)]
  BY <1>1, <1>3, ConcatProperties
<1> HIDE DEF t
<1>5. m \in 1..Len(Air) /\ Air[m] = Head(host.todo)
  BY <1>1, <1>3
<1>6. Len(w \o t) = Len(Air) - 1
  BY <1>1, <1>3, <1>4 DEF t
<1>7. ASSUME NEW i \in 1..Len(w \o t)
      PROVE  (w \o t)[i] = IF i < m THEN Air[i] ELSE Air[i + 1]
  <2>0. i \in Nat /\ i + 1 \in 1..Len(Air) /\ i \in 1..Len(Air) BY <1>1, <1>6
  <2>1. CASE i < m
    <3>1. i <= Len(w) BY <1>1, <2>0, <2>1
    <3> QED BY <1>1, <1>4, <1>6, <2>0, <2>1, <3>1
  <2>2. CASE ~(i < m)
    <3>1. /\ ~(i <= Len(w)) /\ ~(i + 1 <= Len(w)) /\ i + 1 - Len(w) = (i - Len(w)) + 1
          /\ i - Len(w) \in 1..Len(host.todo) - 1
      BY <1>1, <1>6, <2>0, <2>2
    <3>2. Air[i + 1] = host.todo[(i - Len(w)) + 1] BY <1>1, <2>0, <3>1
    <3>3. (w \o t)[i] = t[i - Len(w)] BY <1>4, <3>1
    <3>4. t[i - Len(w)] = host.todo[(i - Len(w)) + 1] BY <1>3, <3>1 DEF t
    <3> QED BY <2>2, <3>2, <3>3, <3>4
  <2> QED BY <2>1, <2>2
<1>8. Without(Air', Air, m)
  <2>1. Air' = w \o t BY <1>2 DEF t
  <2> QED BY <1>6, <1>7, <2>1 DEF Without
<1> QED BY <1>5, <1>8

\* the loop takes the first,
LEMMA AirTaken ==
  ASSUME LinkInv, BleRead, main.pc = "store"
  PROVE  /\ 1 \in 1..Len(Air) /\ Without(Air', Air, 1)
         /\ Air[1] = main.char
<1> DEFINE w == Between(bleRxBuf, bleRxTail, host.head)
           v == Between(bleRxBuf, NextIndex(bleRxTail), host.head)
           t == host.todo
<1>1. /\ bleRxBuf \in [Index -> Cell] /\ bleRxHead \in Index /\ bleRxTail \in Index
      /\ host.head \in Index
  BY DEF LinkInv, RingTypes, HostRecords
<1>2. bleRxTail # host.head
  <2>1. Dist(bleRxTail, bleRxHead) + Dist(bleRxHead, host.head) < Size /\ bleRxHead # bleRxTail
    BY TakeFacts DEF LinkInv, HostAhead
  <2> QED BY <1>1, <2>1, SizeAssumption DEF Dist, Index
<1>3. w # <<>> /\ Head(w) = bleRxBuf[bleRxTail] /\ v = Tail(w)
  BY <1>1, <1>2, BetweenTail
<1>4. Air' = v \o t
  <2>1. Between(bleRxBuf, bleRxTail, host.head)' = v
    BY TakeFacts DEF Between, Dist, Slot
  <2> QED BY <2>1, TakeFacts DEF Air
<1>5. /\ w \in Seq(Cell) /\ Len(w) \in Nat /\ t \in Seq(Cell)
      /\ Len(t) \in Nat /\ Len(Air) = Len(w) + Len(t)
      /\ \A i \in 1..Len(Air) : Air[i] = IF i <= Len(w) THEN w[i] ELSE t[i - Len(w)]
  BY AirIs
<1> HIDE DEF w, v, t
<1>6. /\ v \in Seq(Cell) /\ Len(v) = Len(w) - 1 /\ Len(w) # 0 /\ Head(w) = w[1]
      /\ \A i \in 1..Len(w) - 1 : v[i] = w[i + 1]
  BY <1>3, <1>5, HeadTailProperties, EmptySeq
<1>7. /\ Len(v \o t) = Len(v) + Len(t)
      /\ \A i \in 1..(Len(v) + Len(t)) : (v \o t)[i] = IF i <= Len(v) THEN v[i] ELSE t[i - Len(v)]
  BY <1>5, <1>6, ConcatProperties
<1>8. ASSUME NEW i \in 1..Len(v \o t) PROVE (v \o t)[i] = Air[i + 1]
  <2>1. i \in Nat /\ i + 1 \in 1..Len(Air) /\ i \in 1..(Len(v) + Len(t)) BY <1>5, <1>6, <1>7
  <2>2. CASE i <= Len(v)
    <3>1. i + 1 <= Len(w) /\ i \in 1..Len(w) - 1 BY <1>5, <1>6, <2>1, <2>2
    <3> QED BY <1>5, <1>6, <1>7, <2>1, <2>2, <3>1
  <2>3. CASE ~(i <= Len(v))
    <3>1. ~(i + 1 <= Len(w)) /\ i + 1 - Len(w) = i - Len(v) BY <1>5, <1>6, <2>1, <2>3
    <3> QED BY <1>5, <1>7, <2>1, <2>3, <3>1
  <2> QED BY <2>2, <2>3
<1>9. 1 \in 1..Len(Air) /\ Air[1] = bleRxBuf[bleRxTail]
  BY <1>3, <1>5, <1>6
<1>10. Len(v \o t) = Len(Air) - 1 BY <1>5, <1>6, <1>7
<1>11. Without(Air', Air, 1)
  <2>1. \A i \in 1..Len(v \o t) : ~(i < 1) OBVIOUS
  <2> QED BY <1>4, <1>8, <1>10, <2>1 DEF Without
<1>12. main.char = bleRxBuf[bleRxTail]
  BY DEF LinkInv, LoopReads
<1> QED BY <1>9, <1>11, <1>12

\* and a write adds the next bytes of the central's line.
Written(new, old, k, at, n) ==
  /\ at + n - 1 <= Len(BleLines[k]) /\ Len(new) = Len(old) + n
  /\ \A i \in 1..Len(old) : new[i] = old[i]
  /\ \A i \in 1..n : new[Len(old) + i] = Byte(k, at + i - 1)

LEMMA AirWritten ==
  ASSUME LinkInv, OnWrite, host.todo = <<>>
  PROVE  \E n \in Nat \ {0} :
           /\ central.line \in DOMAIN BleLines
           /\ Written(Air', Air, central.line, central.at, n)
           /\ central' = IF central.at + n - 1 = Len(BleLines[central.line])
                           THEN [line |-> central.line + 1, at |-> 1]
                           ELSE [central EXCEPT !.at = central.at + n]
<1> DEFINE bytes == BytesOf("ble", BleLines, central.line)
           w == Between(bleRxBuf, bleRxTail, host.head)
<1>1. PICK n \in 1..Chunk :
        /\ central.at + n - 1 <= Len(bytes)
        /\ host' = [pc |-> "check", head |-> bleRxHead,
                    todo |-> SubSeq(bytes, central.at, central.at + n - 1)]
        /\ central' = IF central.at + n - 1 = Len(bytes)
                        THEN [line |-> central.line + 1, at |-> 1]
                        ELSE [central EXCEPT !.at = central.at + n - 1 + 1]
  BY DEF OnWrite
<1>2. /\ central.line \in DOMAIN BleLines /\ central.line \in 1..Len(BleLines)
      /\ central.at \in Nat \ {0} /\ n \in Nat \ {0}
  <2>1. Len(BleLines) \in Nat /\ DOMAIN BleLines = 1..Len(BleLines)
    BY LinesAssumption, LenProperties
  <2>2. central.line \in Nat \ {0} /\ central.at \in Nat \ {0}
    BY DEF LinkInv, RingTypes
  <2>3. central.line <= Len(BleLines) BY DEF OnWrite
  <2>4. n \in Nat \ {0} BY LimitAssumption
  <2> QED BY <2>1, <2>2, <2>3, <2>4
<1>3. /\ bytes \in Seq(BleByte) /\ Len(bytes) \in Nat /\ Len(bytes) = Len(BleLines[central.line])
      /\ \A i \in 1..Len(bytes) : bytes[i] = Byte(central.line, i)
  <2>1. Len(BleLines[central.line]) \in Nat BY <1>2, LinePlaces
  <2>2. Len(bytes) = Len(BleLines[central.line]) BY <2>1 DEF BytesOf
  <2> QED BY <1>2, <2>1, <2>2, LineBytes DEF BytesOf, Byte
<1>4. w \in Seq(Cell) /\ Len(w) \in Nat /\ Air = w
  <2>1. w \in Seq(Cell) /\ Len(w) \in Nat BY AirIs
  <2> HIDE DEF w
  <2>2. w \o <<>> = w BY <2>1, ConcatEmptySeq
  <2> QED BY <2>1, <2>2 DEF Air, w
<1> DEFINE t == SubSeq(bytes, central.at, central.at + n - 1)
<1>5. Air' = w \o t
  <2>1. host.pc = "idle" /\ UNCHANGED ring BY DEF OnWrite
  <2>2. host'.head = host.head /\ host'.todo = t
    <3>1. host.head = bleRxHead BY <2>1 DEF LinkInv, HostAhead
    <3> QED BY <1>1, <3>1
  <2> QED BY <2>1, <2>2 DEF Air, Between, Dist, Slot, ring
<1> HIDE DEF bytes, w
<1>6. t \in Seq(Cell) /\ Len(t) = n /\ \A i \in 1..n : t[i] = bytes[central.at + i - 1]
  <2>0. central.at + n - 1 <= Len(bytes) BY <1>1
  <2>1. ASSUME NEW i \in central.at..(central.at + n - 1) PROVE bytes[i] \in BleByte
    <3>1. i \in 1..Len(bytes) BY <1>2, <1>3, <2>0
    <3> QED BY <1>3, <3>1, ElementOfSeq
  <2>2. /\ central.at \in Int /\ central.at + n - 1 \in Int
        /\ ~(central.at > central.at + n - 1)
        /\ (central.at + n - 1) - central.at + 1 = n
    BY <1>2
  <2>3. t \in Seq(BleByte) /\ Len(t) = n /\ \A i \in 1..n : t[i] = bytes[central.at + i - 1]
    BY <2>1, <2>2, SubSeqProperties
  <2>4. t \in Seq(Cell) BY <2>3, SeqMonotonic DEF Cell
  <2> QED BY <2>3, <2>4
<1> HIDE DEF t
<1>7. /\ Len(w \o t) = Len(w) + n
      /\ \A i \in 1..(Len(w) + n) : (w \o t)[i] = IF i <= Len(w) THEN w[i] ELSE t[i - Len(w)]
  BY <1>4, <1>6, ConcatProperties
<1>8. \A i \in 1..Len(w) : (w \o t)[i] = w[i] BY <1>2, <1>4, <1>7
<1>9. ASSUME NEW i \in 1..n
      PROVE  (w \o t)[Len(w) + i] = Byte(central.line, central.at + i - 1)
  <2>1. /\ Len(w) + i \in 1..(Len(w) + n) /\ ~(Len(w) + i <= Len(w)) /\ Len(w) + i - Len(w) = i
        /\ central.at + i - 1 \in 1..Len(bytes)
    <3>1. central.at + n - 1 <= Len(bytes) BY <1>1
    <3>2. Len(bytes) \in Nat BY <1>3
    <3>3. Len(w) \in Nat /\ n \in Nat /\ central.at \in Nat \ {0} BY <1>2, <1>4
    <3>4. i \in Nat \ {0} /\ i <= n BY <3>3
    <3>5. central.at + i - 1 \in Nat \ {0} /\ central.at + i - 1 <= central.at + n - 1 BY <3>3, <3>4
    <3>6. central.at + i - 1 \in 1..Len(bytes) BY <3>1, <3>2, <3>3, <3>5
    <3>7. Len(w) + i \in 1..(Len(w) + n) /\ ~(Len(w) + i <= Len(w)) /\ Len(w) + i - Len(w) = i BY <3>3, <3>4
    <3> QED BY <3>6, <3>7
  <2>2. (w \o t)[Len(w) + i] = t[i]
    <3> DEFINE k == Len(w) + i
    <3>1. k \in 1..(Len(w) + n) /\ ~(k <= Len(w)) /\ k - Len(w) = i BY <2>1
    <3> HIDE DEF k
    <3>2. (w \o t)[k] = t[k - Len(w)] BY <1>7, <3>1
    <3> QED BY <3>1, <3>2 DEF k
  <2> QED BY <1>3, <1>6, <2>1, <2>2
<1>10. central.at + n - 1 + 1 = central.at + n BY <1>2
<1>11. Written(Air', Air, central.line, central.at, n)
  BY <1>1, <1>3, <1>4, <1>5, <1>7, <1>8, <1>9 DEF Written
<1> QED BY <1>1, <1>2, <1>3, <1>10, <1>11

(***************************************************************************)
(* Places: <<line, unit>> in what the central sends, in the order of       *)
(* sending.  A byte carries its line but not its place, so the invariant   *)
(* says that there are places for the bytes in the air.                    *)
(***************************************************************************)
Place == {p \in Nat \X Nat : p[1] \in DOMAIN BleLines /\ p[2] \in 1..Len(BleLines[p[1]])}
Nowhere == <<0, 0>>
Before(p, q) == p[1] < q[1] \/ (p[1] = q[1] /\ p[2] < q[2])
Sent == <<central.line, central.at>>
Ends(p) == p[2] = Len(BleLines[p[1]])
Whole(k, lost) == <<"ble", k>> \notin lost

\* The bytes of air are at the places P, after h and before sent, in order, and
\* every place between the two of a line that lost nothing is among them.
InAir(air, P, h, sent, lost) ==
  /\ P \in Seq(Place) /\ Len(P) = Len(air) /\ Before(h, sent)
  /\ \A i \in 1..Len(P) : /\ air[i] = Byte(P[i][1], P[i][2])
                          /\ Before(h, P[i]) /\ Before(P[i], sent)
                          /\ \A j \in 1..Len(P) : i < j => Before(P[i], P[j])
  /\ \A p \in Place : Before(h, p) /\ Before(p, sent) /\ Whole(p[1], lost)
                        => \E i \in 1..Len(P) : P[i] = p

\* The line being assembled, when h was the last place handled: nothing after a
\* newline, and what was read of a line that lost nothing after another one.
Reading(buf, h, lost) ==
  /\ h = Nowhere \/ h \in Place
  /\ h = Nowhere \/ Ends(h) => buf = NoLine
  /\ h # Nowhere /\ ~Ends(h) /\ Whole(h[1], lost) /\ Whole(h[1] - 1, lost)
       => IsRead(buf, h[1], h[2])

LEMMA BeforeOrder ==
  ASSUME NEW p \in Nat \X Nat, NEW q \in Nat \X Nat
  PROVE  /\ ~Before(p, p)
         /\ Before(p, q) => ~Before(q, p)
         /\ Before(p, q) \/ Before(q, p) \/ p = q
         /\ \A r \in Nat \X Nat : Before(p, q) /\ Before(q, r) => Before(p, r)
<1>1. p[1] \in Nat /\ p[2] \in Nat /\ q[1] \in Nat /\ q[2] \in Nat /\ p = <<p[1], p[2]>> /\ q = <<q[1], q[2]>>
  OBVIOUS
<1>2. ~Before(p, p) /\ (Before(p, q) => ~Before(q, p)) BY <1>1 DEF Before
<1>3. Before(p, q) \/ Before(q, p) \/ p = q
  <2>1. p[1] = q[1] /\ p[2] = q[2] => p = q BY <1>1, Zenon
  <2> QED BY <1>1, <2>1 DEF Before
<1>4. ASSUME NEW r \in Nat \X Nat, Before(p, q), Before(q, r) PROVE Before(p, r)
  <2>1. r[1] \in Nat /\ r[2] \in Nat OBVIOUS
  <2> QED BY <1>1, <1>4, <2>1 DEF Before
<1> QED BY <1>2, <1>3, <1>4

LEMMA PlaceIs ==
  ASSUME NEW p \in Place
  PROVE  /\ p \in Nat \X Nat /\ p[1] \in DOMAIN BleLines /\ p[1] \in Nat \ {0}
         /\ p[2] \in 1..Len(BleLines[p[1]]) /\ p[2] \in Nat \ {0}
         /\ Len(BleLines[p[1]]) \in Nat \ {0}
         /\ Byte(p[1], p[2]) \in BleByte /\ p # Nowhere
<1>1. p \in Nat \X Nat /\ p[1] \in DOMAIN BleLines /\ p[2] \in 1..Len(BleLines[p[1]]) BY DEF Place
<1>2. /\ p[1] \in Nat \ {0} /\ Len(BleLines[p[1]]) \in Nat \ {0} /\ Byte(p[1], p[2]) \in BleByte
  BY <1>1, LinePlaces
<1>3. p[2] \in Nat \ {0} BY <1>1, <1>2
<1> QED BY <1>1, <1>2, <1>3 DEF Nowhere

\* A byte that leaves the air, lost or handled.
LEMMA AirShortens ==
  ASSUME NEW air, NEW new, NEW P, NEW h \in Nat \X Nat, NEW sent \in Nat \X Nat,
         NEW lost, NEW g, NEW gone, NEW m \in 1..Len(P),
         InAir(air, P, h, sent, lost), Without(new, air, m),
         \/ g = h /\ gone = lost \cup {<<"ble", P[m][1]>>}
         \/ m = 1 /\ g = P[1] /\ gone = lost
  PROVE  \E Q : InAir(new, Q, g, sent, gone)
<1> DEFINE at(i) == IF i < m THEN i ELSE i + 1
           Q == [i \in 1..Len(P) - 1 |-> P[at(i)]]
<1>1. P \in Seq(Place) /\ Len(P) \in Nat /\ \A i \in 1..Len(P) : P[i] \in Place
  BY LenProperties, ElementOfSeq DEF InAir
<1>2. \A i \in 1..Len(P) - 1 : at(i) \in 1..Len(P) /\ at(i) # m
  BY <1>1
<1>3. \A i, j \in 1..Len(P) - 1 : i < j => at(i) < at(j)
  BY <1>1
<1>4. \A i \in 1..Len(P) : i # m => \E j \in 1..Len(P) - 1 : at(j) = i
  <2> SUFFICES ASSUME NEW i \in 1..Len(P), i # m PROVE \E j \in 1..Len(P) - 1 : at(j) = i
    OBVIOUS
  <2>1. CASE i < m
    <3>1. i \in 1..Len(P) - 1 /\ at(i) = i BY <1>1, <2>1
    <3> QED BY <3>1
  <2>2. CASE ~(i < m)
    <3>1. i - 1 \in 1..Len(P) - 1 /\ at(i - 1) = i BY <1>1, <2>2
    <3> QED BY <3>1
  <2> QED BY <2>1, <2>2
<1>5. \A i \in 1..Len(P) - 1 : new[i] = air[at(i)]
  BY <1>1 DEF Without, InAir
<1> HIDE DEF at
<1>6. Q \in Seq(Place) /\ Len(Q) = Len(P) - 1 /\ \A i \in 1..Len(Q) : Q[i] = P[at(i)]
  <2>1. Len(P) - 1 \in Nat BY <1>1
  <2>2. Q \in [1..Len(P) - 1 -> Place] BY <1>1, <1>2
  <2>3. Q \in Seq(Place) BY <2>1, <2>2, SeqDef
  <2>4. Len(Q) = Len(P) - 1 BY <2>1
  <2> QED BY <2>3, <2>4
<1> HIDE DEF Q
<1>7. Len(Q) = Len(new) BY <1>6 DEF Without, InAir
<1>8. Before(g, sent)
  <2>1. \A i \in 1..Len(P) : Before(P[i], sent) BY DEF InAir
  <2> QED BY <2>1 DEF InAir
<1>9. ASSUME NEW i \in 1..Len(P), i # m PROVE Before(g, P[i])
  <2>1. CASE g = h BY <2>1 DEF InAir
  <2>2. CASE m = 1 /\ g = P[1]
    <3>1. 1 < i BY <1>1, <1>9, <2>2
    <3> QED BY <1>1, <2>2, <3>1 DEF InAir
  <2> QED BY <2>1, <2>2
<1>10. ASSUME NEW i \in 1..Len(Q)
       PROVE  /\ new[i] = Byte(Q[i][1], Q[i][2]) /\ Before(g, Q[i]) /\ Before(Q[i], sent)
              /\ \A j \in 1..Len(Q) : i < j => Before(Q[i], Q[j])
  <2>1. i \in 1..Len(P) - 1 /\ at(i) \in 1..Len(P) /\ at(i) # m /\ Q[i] = P[at(i)] BY <1>2, <1>6
  <2>2. new[i] = Byte(Q[i][1], Q[i][2]) BY <1>5, <2>1 DEF InAir
  <2>3. Before(g, Q[i]) BY <1>9, <2>1
  <2>4. Before(Q[i], sent) BY <2>1 DEF InAir
  <2>5. ASSUME NEW j \in 1..Len(Q), i < j PROVE Before(Q[i], Q[j])
    <3>1. j \in 1..Len(P) - 1 /\ at(j) \in 1..Len(P) /\ Q[j] = P[at(j)] BY <1>2, <1>6
    <3>2. at(i) < at(j) BY <1>3, <2>1, <2>5, <3>1
    <3> QED BY <2>1, <3>1, <3>2 DEF InAir
  <2> QED BY <2>2, <2>3, <2>4, <2>5
<1>11. ASSUME NEW p \in Place, Before(g, p), Before(p, sent), Whole(p[1], gone)
       PROVE  \E i \in 1..Len(Q) : Q[i] = p
  <2>1. Before(h, p) /\ Whole(p[1], lost) /\ p # P[m]
    <3>1. CASE g = h /\ gone = lost \cup {<<"ble", P[m][1]>>}
      <4>1. Whole(p[1], lost) /\ p # P[m] BY <1>11, <3>1 DEF Whole
      <4> QED BY <1>11, <3>1, <4>1
    <3>2. CASE m = 1 /\ g = P[1] /\ gone = lost
      <4>1. Before(h, P[1]) /\ P[1] \in Place BY <1>1, <3>2 DEF InAir
      <4>2. P[1] \in Nat \X Nat /\ p \in Nat \X Nat BY <4>1, PlaceIs
      <4>3. p # P[1] BY <1>11, <3>2, <4>2, BeforeOrder
      <4>4. Before(h, p) BY <1>11, <3>2, <4>1, <4>2, BeforeOrder
      <4> QED BY <1>11, <3>2, <4>3, <4>4
    <3> QED BY <3>1, <3>2
  <2>2. PICK i \in 1..Len(P) : P[i] = p BY <1>11, <2>1 DEF InAir
  <2>3. i # m BY <2>1, <2>2
  <2>4. PICK j \in 1..Len(P) - 1 : at(j) = i BY <1>4, <2>3
  <2> QED BY <1>6, <2>2, <2>4
<1>12. Q \in Seq(Place) /\ Len(Q) = Len(new) /\ Before(g, sent) BY <1>6, <1>7, <1>8
<1>13. \A i \in 1..Len(Q) : /\ new[i] = Byte(Q[i][1], Q[i][2]) /\ Before(g, Q[i]) /\ Before(Q[i], sent)
                            /\ \A j \in 1..Len(Q) : i < j => Before(Q[i], Q[j])
  BY <1>10
<1>14. \A p \in Place : Before(g, p) /\ Before(p, sent) /\ Whole(p[1], gone) => \E i \in 1..Len(Q) : Q[i] = p
  BY <1>11
<1>15. InAir(new, Q, g, sent, gone) BY ONLY <1>12, <1>13, <1>14, Zenon DEF InAir
<1> QED BY <1>15

LEMMA AirFirst ==
  ASSUME NEW air, NEW new, NEW P, NEW h \in Nat \X Nat, NEW sent \in Nat \X Nat,
         NEW lost, 1 \in 1..Len(P), InAir(air, P, h, sent, lost), Without(new, air, 1)
  PROVE  \E Q : InAir(new, Q, P[1], sent, lost)
<1> DEFINE g == P[1]
           m == 1
           gone == lost
<1>1. /\ m = 1 /\ g = P[1] /\ gone = lost /\ m \in 1..Len(P)
      /\ Without(new, air, m)
  OBVIOUS
<1> HIDE DEF g, m, gone
<1>2. \E Q : InAir(new, Q, g, sent, gone) BY <1>1, AirShortens, ZenonT(40)
<1> QED BY <1>1, <1>2

LEMMA Reckoning ==
  ASSUME NEW at \in Nat \ {0}, NEW n \in Nat \ {0}, NEW l \in Nat, NEW max \in Nat,
         at + n - 1 <= max
  PROVE  /\ \A i \in l + 1..l + n : /\ at + i - l - 1 \in 1..max /\ at + i - l - 1 < at + n
                                   /\ at + i - l - 1 >= at
         /\ \A x \in Nat : x >= at /\ x < at + n =>
              l + 1 + x - at \in l + 1..l + n /\ at + (l + 1 + x - at) - l - 1 = x
OBVIOUS

\* A write adds the places from sent on.
LEMMA AirLengthens ==
  ASSUME NEW air, NEW new, NEW P, NEW h \in Nat \X Nat, NEW lost,
         NEW k \in DOMAIN BleLines, NEW at \in Nat \ {0}, NEW n \in Nat \ {0}, NEW sent,
         Written(new, air, k, at, n), InAir(air, P, h, <<k, at>>, lost),
         sent = IF at + n - 1 = Len(BleLines[k]) THEN <<k + 1, 1>> ELSE <<k, at + n>>
  PROVE  \E Q : InAir(new, Q, h, sent, lost)
<1> DEFINE l == Len(P)
           old == <<k, at>>
           next(i) == <<k, at + i - l - 1>>
           Q == [i \in 1..l + n |-> IF i <= l THEN P[i] ELSE next(i)]
<1>1. P \in Seq(Place) /\ l \in Nat /\ l = Len(air) /\ \A i \in 1..l : P[i] \in Place
  BY LenProperties, ElementOfSeq DEF InAir
<1>2. k \in Nat \ {0} /\ Len(BleLines[k]) \in Nat \ {0} BY LinePlaces
<1>3. sent \in Nat \X Nat /\ old \in Nat \X Nat BY <1>2
<1>4. Before(old, sent) BY <1>2 DEF Before
<1>written. /\ at + n - 1 <= Len(BleLines[k]) /\ Len(new) = Len(air) + n
            /\ \A i \in 1..Len(air) : new[i] = air[i]
            /\ \A i \in 1..n : new[Len(air) + i] = Byte(k, at + i - 1)
  BY DEF Written
<1>sent. /\ at + n - 1 = Len(BleLines[k]) => sent = <<k + 1, 1>>
         /\ at + n - 1 # Len(BleLines[k]) => sent = <<k, at + n>>
  OBVIOUS
<1>5. ASSUME NEW i \in l + 1..l + n
      PROVE  next(i) \in Place /\ Before(next(i), sent) /\ (next(i) = old \/ Before(old, next(i)))
  <2>1. at + i - l - 1 \in 1..Len(BleLines[k]) /\ at + i - l - 1 >= at /\ at + i - l - 1 < at + n
    <3> DEFINE max == Len(BleLines[k])
    <3>1. max \in Nat /\ at + n - 1 <= max BY <1>2, <1>written
    <3>2. l \in Nat BY <1>1
    <3> HIDE DEF max, l
    <3>3. at + i - l - 1 \in 1..max /\ at + i - l - 1 >= at /\ at + i - l - 1 < at + n
      BY <3>1, <3>2, Reckoning
    <3> QED BY <3>3 DEF max
  <2>2. next(i) \in Place
    <3>1. ASSUME NEW x \in 1..Len(BleLines[k]) PROVE <<k, x>> \in Place
      <4>1. <<k, x>> \in Nat \X Nat /\ <<k, x>>[1] = k /\ <<k, x>>[2] = x BY <1>2
      <4> QED BY <4>1 DEF Place
    <3> DEFINE x == at + i - l - 1
    <3>2. x \in 1..Len(BleLines[k]) BY <2>1
    <3> HIDE DEF x
    <3>3. <<k, x>> \in Place BY <3>1, <3>2
    <3> QED BY <3>3 DEF x
  <2>3. Before(next(i), sent)
    <3> HIDE DEF l
    <3>1. CASE at + n - 1 = Len(BleLines[k])
      <4>1. k < k + 1 BY <1>2
      <4> QED BY <1>sent, <3>1, <4>1 DEF Before
    <3>2. CASE at + n - 1 # Len(BleLines[k])
      <4> DEFINE x == at + i - l - 1
      <4>1. sent = <<k, at + n>> /\ x < at + n BY <1>sent, <2>1, <3>2
      <4> HIDE DEF x
      <4>2. Before(<<k, x>>, sent) BY <4>1 DEF Before
      <4> QED BY <4>2 DEF x
    <3> QED BY <3>1, <3>2
  <2>4. next(i) = old \/ Before(old, next(i)) BY <2>1 DEF Before
  <2> QED BY <2>2, <2>3, <2>4
<1>6. \A i, j \in l + 1..l + n : i < j => Before(next(i), next(j)) BY <1>1 DEF Before
<1>7. ASSUME NEW p \in Place, Before(p, sent), ~Before(p, old)
      PROVE  \E i \in l + 1..l + n : next(i) = p
  <2>1. /\ p[1] \in Nat /\ p[2] \in Nat \ {0} /\ p = <<p[1], p[2]>>
        /\ p[2] <= Len(BleLines[p[1]])
    BY PlaceIs
  <2>2. p[1] = k /\ p[2] >= at /\ p[2] < at + n
    <3>1. ~(p[1] < k) /\ ~(p[1] = k /\ p[2] < at) BY <1>7 DEF Before
    <3>2. CASE at + n - 1 = Len(BleLines[k])
      <4>1. p[1] < k + 1 \/ (p[1] = k + 1 /\ p[2] < 1) BY <1>sent, <1>7, <3>2 DEF Before
      <4>2. p[1] = k
        <5>1. ~(p[2] < 1) BY <2>1
        <5>2. p[1] < k + 1 BY <4>1, <5>1
        <5> QED BY <1>2, <2>1, <3>1, <5>2, SMTT(30)
      <4>3. p[2] <= at + n - 1 BY <2>1, <3>2, <4>2
      <4>4. p[2] < at + n /\ p[2] >= at BY <2>1, <3>1, <4>2, <4>3
      <4> QED BY <4>2, <4>4
    <3>3. CASE at + n - 1 # Len(BleLines[k])
      <4>1. p[1] < k \/ (p[1] = k /\ p[2] < at + n) BY <1>sent, <1>7, <3>3 DEF Before
      <4> QED BY <1>2, <2>1, <3>1, <4>1
    <3> QED BY <3>2, <3>3
  <2> DEFINE i == l + 1 + p[2] - at
  <2>3. i \in l + 1..l + n /\ at + i - l - 1 = p[2]
    <3>1. l \in Nat /\ p[2] \in Nat BY <1>1, <2>1
    <3> DEFINE max == at + n - 1
               x == p[2]
    <3>2. max \in Nat /\ at + n - 1 <= max OBVIOUS
    <3>3. x \in Nat /\ x >= at /\ x < at + n BY <2>2, <3>1
    <3> HIDE DEF l, max, x, i
    <3>4. l + 1 + x - at \in l + 1..l + n /\ at + (l + 1 + x - at) - l - 1 = x
      BY <3>1, <3>2, <3>3, Reckoning
    <3> QED BY <3>4 DEF x, i
  <2>4. next(i) = p BY <2>1, <2>2, <2>3
  <2> HIDE DEF i
  <2> QED BY <2>3, <2>4
<1> HIDE DEF next, old
<1>8. 1..l + n = 1..l \cup (l + 1..l + n) /\ \A i \in l + 1..l + n : ~(i <= l) BY <1>1
<1>9. /\ Q \in Seq(Place) /\ Len(Q) = l + n
      /\ \A i \in 1..l : Q[i] = P[i]
      /\ \A i \in l + 1..l + n : Q[i] = next(i)
  <2>1. l + n \in Nat BY <1>1
  <2>2. \A i \in 1..l : Q[i] = P[i] BY <1>1, <1>8
  <2>3. \A i \in l + 1..l + n : Q[i] = next(i) BY <1>8
  <2>4. Q \in [1..l + n -> Place] BY <1>1, <1>5, <1>8
  <2>5. Q \in Seq(Place) BY <2>1, <2>4, SeqDef
  <2>6. Len(Q) = l + n BY <2>1
  <2> QED BY <2>2, <2>3, <2>5, <2>6
<1> HIDE DEF Q
<1>10. Len(Q) = Len(new) BY <1>1, <1>9, <1>written
<1>11. Before(h, sent) BY <1>3, <1>4, BeforeOrder DEF InAir, old
<1>12. ASSUME NEW i \in 1..l
       PROVE  /\ new[i] = Byte(P[i][1], P[i][2]) /\ Before(h, P[i]) /\ Before(P[i], old)
              /\ Before(P[i], sent) /\ \A j \in 1..l : i < j => Before(P[i], P[j])
  <2>1. /\ air[i] = Byte(P[i][1], P[i][2]) /\ Before(h, P[i]) /\ Before(P[i], old)
        /\ \A j \in 1..l : i < j => Before(P[i], P[j])
    BY DEF InAir, old
  <2>2. new[i] = air[i] BY <1>1, <1>written
  <2>3. P[i] \in Nat \X Nat BY <1>1, PlaceIs
  <2>4. Before(P[i], sent)
    <3> DEFINE x == P[i]
    <3>1. x \in Nat \X Nat /\ Before(x, old) BY <2>1, <2>3
    <3> HIDE DEF x
    <3>2. Before(x, sent) BY <1>3, <1>4, <3>1, BeforeOrder
    <3> QED BY <3>2 DEF x
  <2> QED BY <2>1, <2>2, <2>4
<1>13. ASSUME NEW i \in l + 1..l + n
       PROVE  /\ new[i] = Byte(next(i)[1], next(i)[2]) /\ Before(h, next(i))
              /\ Before(next(i), sent)
  <2>1. new[i] = Byte(next(i)[1], next(i)[2])
    <3> DEFINE j == i - l
    <3>1. j \in 1..n /\ Len(air) + j = i /\ at + j - 1 = at + i - l - 1 BY <1>1
    <3> HIDE DEF j
    <3>2. new[Len(air) + j] = Byte(k, at + j - 1) BY <1>written, <3>1
    <3>3. new[i] = Byte(k, at + i - l - 1) BY <3>1, <3>2
    <3> QED BY <3>3 DEF next
  <2>2. Before(h, next(i))
    <3>1. Before(h, old) BY DEF InAir, old
    <3>2. next(i) \in Nat \X Nat BY <1>5, PlaceIs
    <3> QED BY <1>3, <1>5, <3>1, <3>2, BeforeOrder
  <2> QED BY <1>5, <2>1, <2>2
<1>14. ASSUME NEW i \in 1..Len(Q)
       PROVE  /\ new[i] = Byte(Q[i][1], Q[i][2]) /\ Before(h, Q[i]) /\ Before(Q[i], sent)
              /\ \A j \in 1..Len(Q) : i < j => Before(Q[i], Q[j])
  <2>1. CASE i \in 1..l
    <3>1. ASSUME NEW j \in 1..Len(Q), i < j PROVE Before(Q[i], Q[j])
      <4>1. CASE j \in 1..l BY <1>9, <1>12, <2>1, <3>1, <4>1
      <4>2. CASE j \in l + 1..l + n
        <5>1. /\ P[i] \in Nat \X Nat /\ next(j) \in Nat \X Nat /\ Before(P[i], old)
              /\ next(j) = old \/ Before(old, next(j))
          BY <1>1, <1>5, <1>12, <2>1, <4>2, PlaceIs
        <5>2. Before(P[i], next(j)) BY <1>3, <5>1, BeforeOrder
        <5> QED BY <1>9, <2>1, <4>2, <5>2
      <4> QED BY <1>8, <1>9, <4>1, <4>2
    <3> QED BY <1>9, <1>12, <2>1, <3>1
  <2>2. CASE i \in l + 1..l + n
    <3>1. ASSUME NEW j \in 1..Len(Q), i < j PROVE Before(Q[i], Q[j])
      <4>1. j \in l + 1..l + n BY <1>1, <1>9, <2>2, <3>1
      <4> QED BY <1>6, <1>9, <2>2, <3>1, <4>1
    <3> QED BY <1>9, <1>13, <2>2, <3>1
  <2> QED BY <1>8, <1>9, <2>1, <2>2
<1>15. ASSUME NEW p \in Place, Before(h, p), Before(p, sent), Whole(p[1], lost)
       PROVE  \E i \in 1..Len(Q) : Q[i] = p
  <2>1. CASE Before(p, old)
    <3>1. PICK i \in 1..l : P[i] = p BY <1>15, <2>1 DEF InAir, old
    <3> QED BY <1>8, <1>9, <3>1
  <2>2. CASE ~Before(p, old)
    <3>1. PICK i \in l + 1..l + n : next(i) = p BY <1>7, <1>15, <2>2
    <3>2. Q[i] = p /\ i \in 1..l + n BY <1>8, <1>9, <3>1
    <3> QED BY <1>9, <3>2
  <2> QED BY <2>1, <2>2
<1>16. Q \in Seq(Place) /\ Len(Q) = Len(new) BY <1>9, <1>10
<1>17. InAir(new, Q, h, sent, lost) BY <1>11, <1>14, <1>15, <1>16, Zenon DEF InAir
<1> QED BY <1>17

\* A central that goes in the middle of a line leaves that line unsent.
LEMMA AirCut ==
  ASSUME NEW air, NEW P, NEW h \in Nat \X Nat, NEW lost, NEW k \in Nat \ {0},
         NEW at \in Nat \ {0}, InAir(air, P, h, <<k, at>>, lost)
  PROVE  InAir(air, P, h, <<k + 1, 1>>, lost \cup {<<"ble", k>>})
<1> DEFINE old == <<k, at>>
           sent == <<k + 1, 1>>
<1>1. old \in Nat \X Nat /\ sent \in Nat \X Nat OBVIOUS
<1>2. Before(old, sent)
  <2>1. k < k + 1 OBVIOUS
  <2> QED BY <2>1 DEF Before
<1>3. ASSUME NEW p \in Place, Before(p, sent), Whole(p[1], lost \cup {<<"ble", k>>})
      PROVE  Before(p, old) /\ Whole(p[1], lost)
  <2>1. p[1] # k /\ Whole(p[1], lost) BY <1>3 DEF Whole
  <2>2. p[1] \in Nat /\ ~(p[2] < 1) BY PlaceIs
  <2>3. p[1] < k + 1 \/ (p[1] = k + 1 /\ p[2] < 1) BY <1>3 DEF Before
  <2>4. p[1] < k BY <2>1, <2>2, <2>3
  <2> QED BY <2>1, <2>4 DEF Before
<1> HIDE DEF sent
<1>4. /\ P \in Seq(Place) /\ Len(P) = Len(air) /\ Before(h, old)
      /\ \A i \in 1..Len(P) : /\ air[i] = Byte(P[i][1], P[i][2])
                              /\ Before(h, P[i]) /\ Before(P[i], old)
                              /\ \A j \in 1..Len(P) : i < j => Before(P[i], P[j])
      /\ \A p \in Place : Before(h, p) /\ Before(p, old) /\ Whole(p[1], lost)
                            => \E i \in 1..Len(P) : P[i] = p
  BY Zenon DEF InAir
<1> HIDE DEF old
<1>5. Before(h, sent) BY <1>1, <1>2, <1>4, BeforeOrder
<1>6. \A i \in 1..Len(P) : Before(P[i], sent)
  <2> TAKE i \in 1..Len(P)
  <2>1. P[i] \in Place BY <1>4, ElementOfSeq
  <2>2. P[i] \in Nat \X Nat BY <2>1, PlaceIs
  <2> QED BY <1>1, <1>2, <1>4, <2>2, BeforeOrder
<1>7. InAir(air, P, h, sent, lost \cup {<<"ble", k>>}) BY <1>3, <1>4, <1>5, <1>6, Zenon DEF InAir
<1> QED BY <1>7 DEF sent

LEMMA ReadingLost ==
  ASSUME NEW buf, NEW h, NEW lost, NEW gone, lost \subseteq gone, Reading(buf, h, lost)
  PROVE  Reading(buf, h, gone)
BY DEF Reading, Whole

LEMMA HandledIs ==
  ASSUME NEW buf, NEW h, NEW lost, Reading(buf, h, lost)
  PROVE  h \in Nat \X Nat
BY PlaceIs DEF Reading, Nowhere

\* Nothing whole lies between the last byte handled and the first in the air.
LEMMA NothingSkipped ==
  ASSUME NEW air, NEW P, NEW h, NEW sent \in Nat \X Nat, NEW lost,
         InAir(air, P, h, sent, lost), 1 \in 1..Len(P),
         NEW q \in Place, Before(q, P[1]), Whole(q[1], lost)
  PROVE  ~Before(h, q)
<1> SUFFICES ASSUME Before(h, q) PROVE FALSE
  OBVIOUS
<1>1. P \in Seq(Place) /\ Before(P[1], sent) BY DEF InAir
<1>2. P[1] \in Nat \X Nat /\ q \in Nat \X Nat BY <1>1, ElementOfSeq, PlaceIs
<1>3. Before(q, sent) BY <1>1, <1>2, BeforeOrder
<1>4. PICK i \in 1..Len(P) : P[i] = q BY <1>3 DEF InAir
<1>5. i # 1 BY <1>2, <1>4, BeforeOrder
<1>6. 1 < i BY <1>1, <1>5, LenProperties
<1>7. Before(P[1], P[i]) BY <1>6 DEF InAir
<1> QED BY <1>2, <1>4, <1>7, BeforeOrder

\* So what was read of its line, and of no other, is in the buffer when a byte
\* of a whole line after a whole line is handled.
LEMMA ReadSoFar ==
  ASSUME NEW air, NEW P, NEW h, NEW sent \in Nat \X Nat, NEW lost, NEW buf,
         InAir(air, P, h, sent, lost), 1 \in 1..Len(P), Reading(buf, h, lost),
         Whole(P[1][1], lost), Whole(P[1][1] - 1, lost)
  PROVE  IsRead(buf, P[1][1], P[1][2] - 1)
<1> DEFINE p == P[1]
<1>1. p \in Place /\ Before(h, p) BY ElementOfSeq DEF InAir
<1>2. /\ p \in Nat \X Nat /\ p[1] \in Nat \ {0} /\ p[2] \in Nat \ {0} /\ h \in Nat \X Nat
      /\ p[1] \in DOMAIN BleLines /\ p[2] \in 1..Len(BleLines[p[1]])
      /\ Len(BleLines[p[1]]) \in Nat
  BY <1>1, PlaceIs, HandledIs
<1>3. h[1] \in Nat /\ h[2] \in Nat /\ h = <<h[1], h[2]>> BY <1>2
<1>4. ASSUME NEW q \in Place, Before(q, p), Whole(q[1], lost) PROVE h = q \/ Before(q, h)
  <2>1. ~Before(h, q) BY <1>4, NothingSkipped
  <2>2. q \in Nat \X Nat BY PlaceIs
  <2> QED BY <1>2, <2>1, <2>2, BeforeOrder
<1>5. h # Nowhere => h \in Place /\ h[1] \in Nat \ {0} /\ h[2] \in 1..Len(BleLines[h[1]])
                       /\ h[2] \in Nat \ {0} /\ Len(BleLines[h[1]]) \in Nat
  BY PlaceIs DEF Reading
<1>6. Nowhere[1] = 0 /\ Nowhere[2] = 0 BY DEF Nowhere
<1>7. Whole(p[1], lost) /\ Whole(p[1] - 1, lost) OBVIOUS
<1> HIDE DEF p
<1>8. CASE p[2] # 1
  <2> DEFINE q == <<p[1], p[2] - 1>>
  <2>1. q[1] = p[1] /\ q[2] = p[2] - 1 OBVIOUS
  <2>2. q \in Place
    <3>1. q \in Nat \X Nat /\ q[2] \in 1..Len(BleLines[p[1]]) BY <1>2, <1>8
    <3> QED BY <1>2, <2>1, <3>1 DEF Place
  <2> HIDE DEF q
  <2>3. Before(q, p) BY <1>2, <2>1 DEF Before
  <2>4. h = q \/ Before(q, h) BY <1>4, <1>7, <2>1, <2>2, <2>3
  <2>5. h = q
    <3> SUFFICES ASSUME Before(q, h) PROVE FALSE BY <2>4
    <3>1. p[1] < h[1] \/ (p[1] = h[1] /\ p[2] - 1 < h[2]) BY <2>1 DEF Before
    <3>2. h[1] < p[1] \/ (h[1] = p[1] /\ h[2] < p[2]) BY <1>1 DEF Before, p
    <3> QED BY <1>2, <1>3, <3>1, <3>2
  <2>6. h # Nowhere BY <2>2, <2>5, PlaceIs
  <2>7. ~Ends(h)
    <3>1. p[2] - 1 # Len(BleLines[p[1]]) BY <1>2
    <3> QED BY <2>1, <2>5, <3>1 DEF Ends
  <2>8. IsRead(buf, h[1], h[2]) BY <1>7, <2>1, <2>5, <2>6, <2>7 DEF Reading
  <2> QED BY <2>1, <2>5, <2>8 DEF p
<1>9. CASE p[2] = 1
  <2>1. h = Nowhere \/ Ends(h)
    <3> SUFFICES ASSUME h # Nowhere PROVE Ends(h) OBVIOUS
    <3>1. h[1] < p[1]
      <4>1. h[1] < p[1] \/ (h[1] = p[1] /\ h[2] < p[2]) BY <1>1 DEF Before, p
      <4> QED BY <1>5, <1>9, <4>1
    <3>2. p[1] - 1 \in Nat \ {0} /\ p[1] - 1 \in DOMAIN BleLines
      <4>1. p[1] - 1 \in Nat \ {0} BY <1>2, <1>5, <3>1
      <4>2. DOMAIN BleLines = 1..Len(BleLines) /\ Len(BleLines) \in Nat
        BY LinesAssumption, LenProperties
      <4> QED BY <1>2, <4>1, <4>2
    <3> DEFINE k == p[1] - 1
               q == <<k, Len(BleLines[k])>>
    <3>3. k < p[1] /\ k \in Nat \ {0} /\ k \in DOMAIN BleLines BY <1>2, <3>2
    <3>4. h[1] <= k BY <1>2, <1>3, <3>1
    <3>5. Whole(k, lost) BY <1>7
    <3> HIDE DEF k
    <3>6. Len(BleLines[k]) \in Nat \ {0} BY <3>3, LinePlaces
    <3>7. q[1] = k /\ q[2] = Len(BleLines[k]) OBVIOUS
    <3>8. q \in Place BY <3>3, <3>6, <3>7 DEF Place
    <3> HIDE DEF q
    <3>9. Before(q, p) BY <3>3, <3>7 DEF Before
    <3>10. h = q \/ Before(q, h) BY <1>4, <3>5, <3>7, <3>8, <3>9
    <3>11. CASE h = q BY <3>7, <3>11 DEF Ends
    <3>12. CASE Before(q, h)
      <4>1. k < h[1] \/ (k = h[1] /\ Len(BleLines[k]) < h[2]) BY <3>7, <3>12 DEF Before
      <4>2. k = h[1] /\ Len(BleLines[k]) < h[2] BY <1>3, <3>3, <3>4, <4>1
      <4>3. h[2] <= Len(BleLines[h[1]]) BY <1>5
      <4> QED BY <1>3, <3>6, <4>2, <4>3
    <3> QED BY <3>10, <3>11, <3>12
  <2>2. buf = NoLine BY <2>1, Zenon DEF Reading
  <2>3. KeptBy(BleLines[p[1]], 0) = {} BY DEF KeptBy
  <2>4. Cardinality({}) = 0 BY FS_EmptySet
  <2>5. ~NoLine.over /\ NoLine.bytes = <<>> /\ Len(<<>>) = 0 BY EmptySeq DEF NoLine
  <2>6. \A n \in 1..0 : FALSE OBVIOUS
  <2>7. IsRead(buf, p[1], 0) BY <2>2, <2>3, <2>4, <2>5, <2>6 DEF IsRead
  <2> QED BY <1>9, <2>7 DEF p
<1> QED BY <1>8, <1>9

(***************************************************************************)
(* The invariant of losses                                                 *)
(***************************************************************************)
LossInv ==
  /\ host.pc = "idle" => host.todo = <<>>
  /\ bleBuf \in Assembled
  /\ ended \in Seq(Nat) /\ \E S : executed \in Seq(S)
  /\ \E P, h : InAir(Air, P, h, Sent, spoiled) /\ Reading(bleBuf, h, spoiled)
  /\ LossIsContained

\* No command that was executed is forgotten.
Remembers ==
  /\ \E S : executed' \in Seq(S)
  /\ \A e \in DOMAIN executed : e \in DOMAIN executed' /\ executed'[e] = executed[e]

LEMMA ExecuteRemembers ==
  ASSUME NEW cmd, NEW buf, NEW back, Execute(cmd, buf, back), LossInv
  PROVE  /\ Remembers
         /\ cmd # <<>> => \E e \in DOMAIN executed' :
                            executed'[e] = [cmd |-> cmd, from |-> Sources(buf)]
<1> DEFINE x == [cmd |-> cmd, from |-> Sources(buf)]
<1>1. PICK S : executed \in Seq(S) BY DEF LossInv
<1>2. CASE cmd = <<>>
  <2>1. executed' = executed BY <1>2 DEF Execute
  <2> QED BY <1>1, <1>2, <2>1 DEF Remembers
<1>3. CASE cmd # <<>>
  <2>1. executed' = Append(executed, x) BY <1>3 DEF Execute
  <2> DEFINE T == S \cup {x}
  <2>2. x \in T /\ S \subseteq T OBVIOUS
  <2> HIDE DEF x, T
  <2>3. executed \in Seq(T) BY <1>1, <2>2, SeqMonotonic
  <2>4. /\ executed' \in Seq(T) /\ Len(executed') = Len(executed) + 1
        /\ \A i \in 1..Len(executed) : executed'[i] = executed[i]
        /\ executed'[Len(executed) + 1] = x
    BY <2>1, <2>2, <2>3, AppendProperties
  <2>5. /\ Len(executed) \in Nat /\ DOMAIN executed = 1..Len(executed)
        /\ DOMAIN executed' = 1..Len(executed')
    BY <2>3, <2>4, LenProperties
  <2>6. /\ Len(executed) + 1 \in DOMAIN executed'
        /\ \A e \in DOMAIN executed : e \in DOMAIN executed'
    BY <2>4, <2>5
  <2>7. Remembers BY <2>4, <2>5, <2>6 DEF Remembers
  <2> QED BY <2>4, <2>6, <2>7 DEF x
<1> QED BY <1>2, <1>3

LEMMA ContainedStays ==
  ASSUME LossIsContained, Remembers, spoiled \subseteq spoiled', ended' = ended
  PROVE  LossIsContained'
<1> SUFFICES ASSUME NEW i \in DOMAIN ended,
                    {<<"ble", ended[i]>>, <<"ble", ended[i] - 1>>} \cap spoiled' = {},
                    Meaningful(ended[i])
             PROVE  \E e \in DOMAIN executed' :
                      executed'[e] = [cmd |-> Meant(BleLines[ended[i]]),
                                      from |-> {<<"ble", ended[i]>>}]
  BY Zenon DEF LossIsContained
<1>1. {<<"ble", ended[i]>>, <<"ble", ended[i] - 1>>} \cap spoiled = {} OBVIOUS
<1>2. PICK e \in DOMAIN executed :
        executed[e] = [cmd |-> Meant(BleLines[ended[i]]), from |-> {<<"ble", ended[i]>>}]
  BY <1>1 DEF LossIsContained
<1> QED BY <1>2 DEF Remembers

\* A step that neither moves a byte, nor hears one, nor ends a line.
LEMMA QuietLoss ==
  ASSUME LossInv, Air' = Air, Remembers, UNCHANGED <<central, spoiled, bleBuf, ended>>,
         host'.pc = "idle" => host'.todo = <<>>
  PROVE  LossInv'
<1>1. LossIsContained' BY ContainedStays DEF LossInv
<1>2. \E P, h : InAir(Air', P, h, Sent', spoiled') /\ Reading(bleBuf', h, spoiled')
  BY DEF LossInv, Sent
<1>3. \E S : executed' \in Seq(S) BY DEF Remembers
<1>4. bleBuf' \in Assembled /\ ended' \in Seq(Nat) BY DEF LossInv
<1> QED BY <1>1, <1>2, <1>3, <1>4 DEF LossInv

LEMMA CutLoss ==
  ASSUME LinkInv, LossInv, CutLine, UNCHANGED <<ring, host, bleBuf, executed, ended>>
  PROVE  LossInv'
<1>1. Air' = Air BY AirStays DEF ring
<1>2. Remembers BY DEF Remembers, LossInv
<1>3. CASE central.at > 1
  <2>1. PICK P, h : InAir(Air, P, h, Sent, spoiled) /\ Reading(bleBuf, h, spoiled)
    BY DEF LossInv
  <2>2. h \in Nat \X Nat /\ central.line \in Nat \ {0} /\ central.at \in Nat \ {0}
    BY <2>1, HandledIs DEF LinkInv, RingTypes
  <2>3. spoiled' = spoiled \cup {<<"ble", central.line>>} /\ Sent' = <<central.line + 1, 1>>
    BY <1>3 DEF CutLine, Sent
  <2>4. InAir(Air', P, h, Sent', spoiled')
    BY <1>1, <2>1, <2>2, <2>3, AirCut DEF Sent
  <2>5. Reading(bleBuf', h, spoiled') BY <2>1, <2>3, ReadingLost
  <2>6. LossIsContained' BY <1>2, <2>3, ContainedStays DEF LossInv
  <2>7. \E S : executed' \in Seq(S) BY <1>2 DEF Remembers
  <2>8. /\ bleBuf' \in Assembled /\ ended' \in Seq(Nat)
        /\ host'.pc = "idle" => host'.todo = <<>>
    BY DEF LossInv
  <2> QED BY <2>4, <2>5, <2>6, <2>7, <2>8 DEF LossInv
<1>4. CASE ~(central.at > 1)
  <2>1. UNCHANGED <<central, spoiled>> BY <1>4 DEF CutLine
  <2>2. host'.pc = "idle" => host'.todo = <<>> BY DEF LossInv
  <2> QED BY <1>1, <1>2, <2>1, <2>2, QuietLoss
<1> QED BY <1>3, <1>4

LEMMA WriteLoss ==
  ASSUME LinkInv, LossInv, OnWrite
  PROVE  LossInv'
<1>1. host.pc = "idle" /\ UNCHANGED <<bleBuf, executed, ended, spoiled>> /\ host'.pc = "check"
  BY DEF OnWrite, history
<1>2. host.todo = <<>> BY <1>1 DEF LossInv
<1>3. PICK P, h : InAir(Air, P, h, Sent, spoiled) /\ Reading(bleBuf, h, spoiled)
  BY DEF LossInv
<1>4. PICK n \in Nat \ {0} :
        /\ central.line \in DOMAIN BleLines
        /\ Written(Air', Air, central.line, central.at, n)
        /\ central' = IF central.at + n - 1 = Len(BleLines[central.line])
                        THEN [line |-> central.line + 1, at |-> 1]
                        ELSE [central EXCEPT !.at = central.at + n]
  BY <1>2, AirWritten
<1>5. /\ h \in Nat \X Nat /\ central.at \in Nat \ {0}
      /\ central \in [line : Nat \ {0}, at : Nat \ {0}]
  BY <1>3, HandledIs DEF LinkInv, RingTypes
<1>6. Sent' = IF central.at + n - 1 = Len(BleLines[central.line])
                THEN <<central.line + 1, 1>> ELSE <<central.line, central.at + n>>
  <2>1. CASE central.at + n - 1 = Len(BleLines[central.line]) BY <1>4, <2>1 DEF Sent
  <2>2. CASE central.at + n - 1 # Len(BleLines[central.line])
    <3>1. central' = [central EXCEPT !.at = central.at + n] BY <1>4, <2>2
    <3>2. central'.line = central.line /\ central'.at = central.at + n BY <1>5, <3>1
    <3> QED BY <2>2, <3>2 DEF Sent
  <2> QED BY <2>1, <2>2
<1>7. \E Q : InAir(Air', Q, h, Sent', spoiled)
  <2> DEFINE k == central.line
             at == central.at
             sent == Sent'
  <2>1. /\ k \in DOMAIN BleLines /\ at \in Nat \ {0} /\ Written(Air', Air, k, at, n)
        /\ InAir(Air, P, h, <<k, at>>, spoiled)
        /\ sent = IF at + n - 1 = Len(BleLines[k]) THEN <<k + 1, 1>> ELSE <<k, at + n>>
    BY <1>3, <1>4, <1>5, <1>6 DEF Sent
  <2> HIDE DEF k, at, sent
  <2>2. \E Q : InAir(Air', Q, h, sent, spoiled) BY <1>5, <2>1, AirLengthens
  <2> QED BY <2>2 DEF sent
<1>8. Remembers BY <1>1 DEF Remembers, LossInv
<1>9. LossIsContained' BY <1>1, <1>8, ContainedStays DEF LossInv
<1>10. \E Q, g : InAir(Air', Q, g, Sent', spoiled') /\ Reading(bleBuf', g, spoiled')
  BY <1>1, <1>3, <1>7
<1>11. \E S : executed' \in Seq(S) BY <1>8 DEF Remembers
<1>12. bleBuf' \in Assembled /\ ended' \in Seq(Nat) /\ (host'.pc = "idle" => host'.todo = <<>>)
  BY <1>1 DEF LossInv
<1> QED BY <1>9, <1>10, <1>11, <1>12 DEF LossInv

\* A byte the ring has no room for spoils its line.
LEMMA DropLoss ==
  ASSUME LinkInv, LossInv, HostWrite, HostCheck, host' = [host EXCEPT !.todo = Tail(@)],
         spoiled' = spoiled \cup {LineOf(Head(host.todo))}
  PROVE  LossInv'
<1>1. /\ host \in HostRecords /\ host.pc = "check" /\ host.todo # <<>>
      /\ UNCHANGED <<ring, central, bleBuf, executed, ended>>
  BY DEF HostCheck, HostWrite, HostStore, HostPublish, LinkInv, RingTypes
<1>2. host'.head = host.head /\ host'.todo = Tail(host.todo) /\ host'.pc = "check"
  BY <1>1 DEF HostRecords
<1>3. PICK m \in 1..Len(Air) : Without(Air', Air, m) /\ Air[m] = Head(host.todo)
  BY <1>1, <1>2, AirDropped
<1>4. PICK P, h : InAir(Air, P, h, Sent, spoiled) /\ Reading(bleBuf, h, spoiled)
  BY DEF LossInv
<1>5. /\ h \in Nat \X Nat /\ central \in [line : Nat \ {0}, at : Nat \ {0}]
      /\ Sent \in Nat \X Nat /\ Sent' = Sent
  BY <1>1, <1>4, HandledIs DEF LinkInv, RingTypes, Sent
<1>6. m \in 1..Len(P) /\ Air[m] = Byte(P[m][1], P[m][2]) BY <1>4 DEF InAir
<1>7. spoiled' = spoiled \cup {<<"ble", P[m][1]>>} BY <1>3, <1>6 DEF LineOf, Byte
<1>8. \E Q : InAir(Air', Q, h, Sent, spoiled')
  BY <1>3, <1>4, <1>5, <1>6, <1>7, AirShortens, ZenonT(40)
<1>9. Reading(bleBuf', h, spoiled') BY <1>1, <1>4, <1>7, ReadingLost
<1>10. Remembers BY <1>1 DEF Remembers, LossInv
<1>11. LossIsContained' BY <1>1, <1>7, <1>10, ContainedStays DEF LossInv
<1>12. \E S : executed' \in Seq(S) BY <1>10 DEF Remembers
<1>13. bleBuf' \in Assembled /\ ended' \in Seq(Nat) /\ (host'.pc = "idle" => host'.todo = <<>>)
  BY <1>1, <1>2 DEF LossInv
<1> QED BY <1>5, <1>8, <1>9, <1>11, <1>12, <1>13 DEF LossInv

LEMMA AssembledNext ==
  ASSUME NEW buf \in Assembled, NEW c \in BleByte
  PROVE  AfterChar(buf, c) \in Assembled
<1>1. LineMax \in Nat \ {0} /\ NoLine \in Assembled
  BY LimitAssumption, EmptySeq DEF NoLine, Assembled
<1>2. buf \in [bytes : Seq(BleByte), over : BOOLEAN] /\ Len(buf.bytes) < LineMax BY DEF Assembled
<1>3. Append(buf.bytes, c) \in Seq(BleByte) /\ Len(Append(buf.bytes, c)) = Len(buf.bytes) + 1
      /\ Len(buf.bytes) \in Nat
  BY <1>2, AppendProperties, LenProperties
<1>4. CASE Len(buf.bytes) < LineMax - 1
  <2>1. [buf EXCEPT !.bytes = Append(@, c)] \in Assembled BY <1>1, <1>2, <1>3, <1>4, SMTT(30) DEF Assembled
  <2>2. [buf EXCEPT !.over = TRUE] \in Assembled BY <1>2 DEF Assembled
  <2> QED BY <1>1, <2>1, <2>2 DEF AfterChar
<1>5. CASE ~(Len(buf.bytes) < LineMax - 1)
  <2>1. [buf EXCEPT !.over = TRUE] \in Assembled BY <1>2 DEF Assembled
  <2> QED BY <1>1, <1>5, <2>1 DEF AfterChar
<1> QED BY <1>4, <1>5

LEMMA TakeLoss ==
  ASSUME LinkInv, LossInv, BleRead, main.pc = "store"
  PROVE  LossInv'
<1>1. PICK P, h : InAir(Air, P, h, Sent, spoiled) /\ Reading(bleBuf, h, spoiled)
  BY DEF LossInv
<1> DEFINE c == main.char
           p == P[1]
           k == p[1]
<1>2. /\ UNCHANGED <<host, central, spoiled>>
      /\ ended' = IF UnitOf(c) = "nl" THEN Append(ended, LineOf(c)[2]) ELSE ended
      /\ bleBuf' = AfterChar(bleBuf, c)
      /\ Execute(ExecutedNow(bleBuf, c), bleBuf, "ble")
  BY DEF BleRead, BleHandle
<1>3. 1 \in 1..Len(Air) /\ Without(Air', Air, 1) /\ Air[1] = c BY AirTaken
<1>4. 1 \in 1..Len(P) /\ c = Byte(p[1], p[2]) /\ p \in Place BY <1>1, <1>3, ElementOfSeq DEF InAir
<1>5. /\ h \in Nat \X Nat /\ Sent \in Nat \X Nat /\ Sent' = Sent
  <2>1. central \in [line : Nat \ {0}, at : Nat \ {0}] BY DEF LinkInv, RingTypes
  <2> QED BY <1>1, <1>2, <2>1, HandledIs DEF Sent
<1>6. \E Q : InAir(Air', Q, p, Sent', spoiled')
  <2>1. \E Q : InAir(Air', Q, p, Sent, spoiled) BY <1>1, <1>3, <1>4, <1>5, AirFirst
  <2> QED BY <1>2, <1>5, <2>1
<1>7. /\ k \in DOMAIN BleLines /\ k \in Nat \ {0} /\ p[2] \in 1..Len(BleLines[k]) /\ c \in BleByte
      /\ Len(BleLines[k]) \in Nat \ {0} /\ p # Nowhere /\ p[2] \in Nat
      /\ UnitOf(c) = BleLines[k][p[2]] /\ LineOf(c) = <<"ble", k>>
  BY <1>4, PlaceIs DEF UnitOf, LineOf, Byte
<1>8. UnitOf(c) = "nl" <=> Ends(p)
  <2>1. /\ BleLines[k][Len(BleLines[k])] = "nl"
        /\ \A i \in 1..Len(BleLines[k]) - 1 : BleLines[k][i] # "nl"
    BY <1>7, LinePlaces
  <2>2. CASE p[2] = Len(BleLines[k]) BY <1>7, <2>1, <2>2 DEF Ends
  <2>3. CASE p[2] # Len(BleLines[k])
    <3>1. p[2] \in 1..Len(BleLines[k]) - 1 BY <1>7, <2>3
    <3> QED BY <1>7, <2>1, <2>3, <3>1 DEF Ends
  <2> QED BY <2>2, <2>3
<1>9. Whole(k, spoiled) /\ Whole(k - 1, spoiled) => IsRead(bleBuf, k, p[2] - 1)
  BY <1>1, <1>4, <1>5, ReadSoFar
<1>10. bleBuf \in Assembled BY DEF LossInv
<1> HIDE DEF c, p, k
<1>11. bleBuf' \in Assembled BY <1>2, <1>7, <1>10, AssembledNext
<1>12. Reading(bleBuf', p, spoiled')
  <2>1. Ends(p) => bleBuf' = NoLine BY <1>2, <1>8 DEF AfterChar
  <2>2. ASSUME ~Ends(p), Whole(k, spoiled), Whole(k - 1, spoiled) PROVE IsRead(bleBuf', k, p[2])
    <3>1. BleLines[k][p[2]] # "nl" BY <1>7, <1>8, <2>2
    <3>2. IsRead(AfterChar(bleBuf, Byte(k, p[2])), k, p[2])
      BY <1>7, <1>9, <1>10, <2>2, <3>1, ReadStep
    <3> QED BY <1>2, <1>4, <3>2 DEF k
  <2> QED BY <1>2, <1>4, <1>7, <2>1, <2>2 DEF Reading, k
<1>13. /\ Remembers
       /\ ExecutedNow(bleBuf, c) # <<>> =>
            \E e \in DOMAIN executed' :
              executed'[e] = [cmd |-> ExecutedNow(bleBuf, c), from |-> Sources(bleBuf)]
  BY <1>2, ExecuteRemembers
<1>14. LossIsContained' /\ ended' \in Seq(Nat)
  <2>1. CASE ~Ends(p)
    <3>1. ended' = ended BY <1>2, <1>8, <2>1
    <3> QED BY <1>2, <1>13, <3>1, ContainedStays DEF LossInv
  <2>2. CASE Ends(p)
    <3>1. ended' = Append(ended, k) /\ ended \in Seq(Nat) BY <1>2, <1>7, <1>8, <2>2 DEF LossInv
    <3>2. /\ ended' \in Seq(Nat) /\ Len(ended') = Len(ended) + 1 /\ Len(ended) \in Nat
          /\ \A i \in 1..Len(ended) : ended'[i] = ended[i]
          /\ ended'[Len(ended) + 1] = k
      BY <1>7, <3>1, AppendProperties, LenProperties
    <3>3. DOMAIN ended' = 1..Len(ended) + 1 /\ DOMAIN ended = 1..Len(ended)
      BY <3>1, <3>2, LenProperties
    <3>4. ASSUME Whole(k, spoiled), Whole(k - 1, spoiled), Meaningful(k)
          PROVE  \E e \in DOMAIN executed' :
                   executed'[e] = [cmd |-> Meant(BleLines[k]), from |-> {<<"ble", k>>}]
      <4>1. IsRead(bleBuf, k, Len(BleLines[k]) - 1) BY <1>9, <2>2, <3>4 DEF Ends, k
      <4>2. CommandIn(bleBuf) = Meant(BleLines[k]) /\ Sources(bleBuf) = {<<"ble", k>>}
        BY <1>7, <1>10, <3>4, <4>1, WholeLineMeant
      <4>3. ExecutedNow(bleBuf, c) = Meant(BleLines[k]) BY <1>8, <2>2, <4>2 DEF ExecutedNow
      <4>4. Meant(BleLines[k]) # <<>> BY <3>4 DEF Meaningful
      <4> QED BY <1>13, <4>2, <4>3, <4>4
    <3>5. ASSUME NEW i \in DOMAIN ended',
                 {<<"ble", ended'[i]>>, <<"ble", ended'[i] - 1>>} \cap spoiled' = {},
                 Meaningful(ended'[i])
          PROVE  \E e \in DOMAIN executed' :
                   executed'[e] = [cmd |-> Meant(BleLines[ended'[i]]),
                                   from |-> {<<"ble", ended'[i]>>}]
      <4>1. CASE i = Len(ended) + 1
        <5>1. ended'[i] = k BY <3>2, <4>1
        <5>2. Whole(k, spoiled) /\ Whole(k - 1, spoiled) BY <1>2, <3>5, <5>1 DEF Whole
        <5> QED BY <3>4, <3>5, <5>1, <5>2
      <4>2. CASE i # Len(ended) + 1
        <5>1. i \in 1..Len(ended) /\ i \in DOMAIN ended BY <3>2, <3>3, <4>2
        <5>2. ended'[i] = ended[i] BY <3>2, <5>1
        <5>3. PICK e \in DOMAIN executed :
                executed[e] = [cmd |-> Meant(BleLines[ended[i]]), from |-> {<<"ble", ended[i]>>}]
          BY <1>2, <3>5, <5>1, <5>2 DEF LossInv, LossIsContained
        <5> QED BY <1>13, <5>2, <5>3 DEF Remembers
      <4> QED BY <4>1, <4>2
    <3>6. LossIsContained' BY <3>5, Zenon DEF LossIsContained
    <3> QED BY <3>2, <3>6
  <2> QED BY <2>1, <2>2
<1>15. \E S : executed' \in Seq(S) BY <1>13 DEF Remembers
<1>16. host'.pc = "idle" => host'.todo = <<>> BY <1>2 DEF LossInv
<1>17. \E Q, g : InAir(Air', Q, g, Sent', spoiled') /\ Reading(bleBuf', g, spoiled')
  BY <1>6, <1>12
<1> QED BY <1>11, <1>14, <1>15, <1>16, <1>17 DEF LossInv

LEMMA LossStep == LinkInv /\ LossInv /\ [Next]_vars => LossInv'
<1> SUFFICES ASSUME LinkInv, LossInv, [Next]_vars PROVE LossInv'
  OBVIOUS
<1>0. /\ host \in HostRecords
      /\ UNCHANGED executed => Remembers
      /\ UNCHANGED host => (host'.pc = "idle" => host'.todo = <<>>)
      /\ UNCHANGED <<ring, host>> => Air' = Air
  <2>1. UNCHANGED <<ring, host>> => Air' = Air BY AirStays DEF ring
  <2> QED BY <2>1 DEF Remembers, LossInv, LinkInv, RingTypes
<1>1. CASE Connect \/ BleTest \/ BleRestart
  <2>1. UNCHANGED <<ring, host, executed, central, spoiled, bleBuf, ended>>
    BY <1>1 DEF Connect, BleTest, BleRestart, history
  <2> QED BY <1>0, <2>1, QuietLoss
<1>2. CASE Disconnect \/ BleStop
  <2>1. CutLine /\ UNCHANGED <<ring, host, bleBuf, executed, ended>>
    BY <1>2 DEF Disconnect, BleStop
  <2> QED BY <2>1, CutLoss
<1>3. CASE OnWrite
  BY <1>3, WriteLoss
<1>4. CASE UsbChar
  <2>1. UNCHANGED <<ring, host, central, spoiled, bleBuf, ended>>
    BY <1>4 DEF UsbChar, history
  <2>2. PICK cmd, buf : Execute(cmd, buf, "usb")
    BY <1>4 DEF UsbChar
  <2>3. Remembers BY <2>2, ExecuteRemembers
  <2> QED BY <1>0, <2>1, <2>3, QuietLoss
<1>5. CASE BleRead
  <2>1. CASE main.pc = "load"
    <3>1. UNCHANGED <<ring, host, executed, central, spoiled, bleBuf, ended>>
      BY <1>5, <2>1 DEF BleRead, ring
    <3> QED BY <1>0, <3>1, QuietLoss
  <2>2. CASE main.pc = "store"
    BY <1>5, <2>2, TakeLoss
  <2> QED BY <1>5, <2>1, <2>2 DEF BleRead
<1>6. CASE HostWrite
  <2>1. UNCHANGED <<bleBuf, central, executed, ended>> BY <1>6 DEF HostWrite
  <2>2. CASE HostCheck /\ UNCHANGED ring
    <3>1. CASE host' = [host EXCEPT !.pc = "store"] /\ UNCHANGED spoiled
      <4>1. host'.head = host.head /\ host'.todo = host.todo /\ host'.pc = "store"
        BY <1>0, <3>1 DEF HostRecords
      <4>2. Air' = Air BY <2>2, <4>1, AirStays DEF ring
      <4> QED BY <1>0, <2>1, <3>1, <4>1, <4>2, QuietLoss
    <3>2. CASE /\ host' = [host EXCEPT !.todo = Tail(@)]
               /\ spoiled' = spoiled \cup {LineOf(Head(host.todo))}
      BY <1>6, <2>2, <3>2, DropLoss
    <3> QED BY <2>2, <3>1, <3>2 DEF HostCheck
  <2>3. CASE HostStore /\ UNCHANGED spoiled
    <3>1. Air' = Air BY <1>6, <2>3, AirStored
    <3>2. host'.pc = "check" BY <2>3 DEF HostStore
    <3> QED BY <1>0, <2>1, <2>3, <3>1, <3>2, QuietLoss
  <2>4. CASE HostPublish /\ UNCHANGED <<bleRxBuf, bleRxTail, spoiled>>
    <3>1. host'.head = host.head /\ host'.todo = host.todo /\ host.todo = <<>>
      BY <1>0, <2>4 DEF HostPublish, HostRecords
    <3>2. Air' = Air BY <2>4, <3>1, AirStays
    <3> QED BY <1>0, <2>1, <2>4, <3>1, <3>2, QuietLoss
  <2> QED BY <1>6, <2>2, <2>3, <2>4 DEF HostWrite
<1>7. CASE UNCHANGED vars
  <2>1. UNCHANGED <<ring, host, executed, central, spoiled, bleBuf, ended>>
    BY <1>7 DEF vars, ring
  <2> QED BY <1>0, <2>1, QuietLoss
<1> QED BY <1>1, <1>2, <1>3, <1>4, <1>5, <1>6, <1>7 DEF Next, Central, Loop

LEMMA LossInit == Init => LossInv
<1> SUFFICES ASSUME Init PROVE LossInv
  OBVIOUS
<1>1. LinkInv BY InitInv
<1>2. Sent = <<1, 1>> /\ host.todo = <<>> /\ bleBuf = NoLine /\ ended = <<>> /\ executed = <<>>
  BY DEF Init, Sent
<1>3. Len(Air) = 0
  <2> DEFINE w == Between(bleRxBuf, bleRxTail, host.head)
  <2>1. bleRxBuf \in [Index -> Cell] /\ bleRxTail \in Index /\ host.head = bleRxTail
    BY <1>1 DEF LinkInv, RingTypes, Init
  <2>2. Len(w) = 0 BY <2>1, BetweenIs, DistSlot, SMTT(30)
  <2>3. Len(Air) = Len(w) + Len(host.todo) BY <1>1, AirIs
  <2> HIDE DEF w
  <2> QED BY <1>2, <2>2, <2>3, EmptySeq
<1>4. InAir(Air, <<>>, Nowhere, Sent, spoiled)
  <2>1. <<>> \in Seq(Place) /\ Len(<<>>) = 0 BY EmptySeq
  <2>2. Before(Nowhere, Sent) BY <1>2 DEF Before, Nowhere
  <2>3. \A p \in Place : ~Before(p, Sent)
    <3> SUFFICES ASSUME NEW p \in Place, Before(p, Sent) PROVE FALSE OBVIOUS
    <3>1. p[1] \in Nat \ {0} /\ p[2] \in Nat \ {0} BY PlaceIs
    <3>2. p[1] < 1 \/ (p[1] = 1 /\ p[2] < 1) BY <1>2 DEF Before
    <3> QED BY <3>1, <3>2
  <2> QED BY <1>3, <2>1, <2>2, <2>3 DEF InAir
<1>5. Reading(bleBuf, Nowhere, spoiled) BY <1>2 DEF Reading
<1>6. bleBuf \in Assembled
  <2>1. LineMax \in Nat \ {0} BY LimitAssumption
  <2> QED BY <1>2, <2>1, EmptySeq DEF NoLine, Assembled
<1>7. <<>> \in Seq(Nat) BY EmptySeq
<1>8. LossIsContained BY <1>2 DEF LossIsContained
<1> QED BY <1>2, <1>4, <1>5, <1>6, <1>7, <1>8 DEF LossInv

\* Whatever the ring refuses, however long the lines and whenever the central
\* vanishes, a whole line that follows a whole line is executed as it was meant.
THEOREM LossStaysContained == Spec => []LossIsContained
<1>1. LossInv => LossIsContained BY DEF LossInv
<1> QED BY <1>1, LossInit, LossStep, RingInvariant, PTL DEF Spec
===============================================================================
