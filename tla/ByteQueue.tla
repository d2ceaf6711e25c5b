------------------------------ MODULE ByteQueue ------------------------------
(***************************************************************************)
(* What the BLE receive buffer promises the main loop: a queue of bounded  *)
(* capacity between one writer and one reader.  The bytes of a write join  *)
(* it together, in order, when the write is complete; a byte is refused    *)
(* only while the bytes waiting and the bytes of the write before it fill  *)
(* the capacity; the reader takes the bytes in order, each once.           *)
(***************************************************************************)
EXTENDS Integers, Sequences

CONSTANTS Byte, Capacity

VARIABLES
  queue,    \* bytes the reader can take
  staged,   \* bytes of the write in progress that were accepted
  refused,  \* number of bytes refused so far
  taken     \* the byte taken last, in a sequence of at most one

vars == <<queue, staged, refused, taken>>

Init == queue = <<>> /\ staged = <<>> /\ refused = 0 /\ taken = <<>>

Full == Len(queue) + Len(staged) >= Capacity

Accept ==
  /\ ~Full
  /\ \E b \in Byte : staged' = Append(staged, b)
  /\ UNCHANGED <<queue, refused, taken>>

Refuse == Full /\ refused' = refused + 1 /\ UNCHANGED <<queue, staged, taken>>

Publish ==
  /\ queue' = queue \o staged /\ staged' = <<>>
  /\ UNCHANGED <<refused, taken>>

Take ==
  /\ queue # <<>>
  /\ queue' = Tail(queue) /\ taken' = <<Head(queue)>>
  /\ UNCHANGED <<staged, refused>>

Next == Accept \/ Refuse \/ Publish \/ Take

Spec == Init /\ [][Next]_vars
===============================================================================
