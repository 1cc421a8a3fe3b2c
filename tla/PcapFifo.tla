------------------------------ MODULE PcapFifo ------------------------------
(***************************************************************************)
(* What the capture buffer promises its two sides: a bounded queue of      *)
(* bytes that takes a record whole or not at all and gives the bytes back  *)
(* in order.  PcapRing implements it with a ring.                          *)
(***************************************************************************)
EXTENDS Naturals, Sequences

CONSTANTS
  Byte,        \* the values a byte can have
  Size,        \* bytes the buffer holds
  Records,     \* the records the capture hook writes, sequences of bytes
  MaxRead,     \* the most bytes one read asks for
  MaxDropped   \* bound on the drop counter

VARIABLES
  open,     \* is there a buffer?
  queue,    \* bytes written and not yet read
  got,      \* what the last read returned
  lost      \* records dropped since the buffer was opened or reset

fifoVars == <<open, queue, got, lost>>

Init == open = FALSE /\ queue = <<>> /\ got = <<>> /\ lost = 0

Open == ~open /\ open' = TRUE /\ queue' = <<>> /\ lost' = 0 /\ UNCHANGED got

Close == open /\ open' = FALSE /\ queue' = <<>> /\ lost' = 0 /\ UNCHANGED got

Reset == queue' = <<>> /\ lost' = 0 /\ UNCHANGED <<open, got>>

Write(rec) ==
  /\ open
  /\ \/ /\ Len(queue) + Len(rec) <= Size
        /\ queue' = queue \o rec
        /\ UNCHANGED lost
     \/ /\ Len(queue) + Len(rec) > Size
        /\ lost < MaxDropped /\ lost' = lost + 1
        /\ UNCHANGED queue
  /\ UNCHANGED <<open, got>>

\* The lock was taken: the record is lost, whatever the room.
WriteBusy == open /\ lost < MaxDropped /\ lost' = lost + 1 /\ UNCHANGED <<open, queue, got>>

Read(max) ==
  /\ open
  /\ \E k \in 0 .. Len(queue) :
       /\ k <= max /\ (k = max \/ k = Len(queue))
       /\ got' = SubSeq(queue, 1, k)
       /\ queue' = SubSeq(queue, k + 1, Len(queue))
  /\ UNCHANGED <<open, lost>>

Next ==
  \/ Open \/ Close \/ Reset \/ WriteBusy
  \/ \E rec \in Records : Write(rec)
  \/ \E max \in 1 .. MaxRead : Read(max)

Spec == Init /\ [][Next]_fifoVars
=============================================================================
