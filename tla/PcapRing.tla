------------------------------ MODULE PcapRing ------------------------------
(***************************************************************************)
(* The capture ring buffer (pcap_ringbuf.c): the operations as they are    *)
(* under ringbuf_mutex.  PcapStream has the threads, the mutex and the     *)
(* semaphore around them.                                                  *)
(***************************************************************************)
EXTENDS Naturals, Sequences

CONSTANTS
  Byte,         \* the values a byte can have
  ringbuf_size, \* PCAP_RINGBUF_SIZE
  Records,      \* the records the capture hook writes, sequences of bytes
  MaxReadLen,   \* PCAP_SEND_BUF_SIZE
  MaxDropped,   \* bound on dropped_packets
  Zero          \* the byte that stands for memory nobody wrote

ASSUME RingAssumption ==
  /\ ringbuf_size \in Nat \ {0} /\ MaxReadLen \in Nat \ {0} /\ MaxDropped \in Nat
  /\ Records \subseteq Seq(Byte) /\ Zero \in Byte

Index == 0 .. (ringbuf_size - 1)

VARIABLES
  has_buffer,         \* ringbuf_data # NULL
  ringbuf_data,       \* the bytes of the buffer
  ringbuf_head,       \* where the next byte is written
  ringbuf_tail,       \* where the next byte is read
  ringbuf_available,  \* bytes to read
  dropped_packets,
  chunk               \* what the last ringbuf_read returned

ring_vars == <<has_buffer, ringbuf_data, ringbuf_head, ringbuf_tail,
               ringbuf_available, dropped_packets, chunk>>

\* x % ringbuf_size, for the x < 2 * ringbuf_size that occur.
Wrap(x) == IF x < ringbuf_size THEN x ELSE x - ringbuf_size

\* A fault: the second memcpy starts at the front of the record again.
Stored_Restart(rec) ==
  [i \in Index |->
     IF ringbuf_head <= i /\ i < ringbuf_head + Len(rec) THEN rec[i - ringbuf_head + 1]
     ELSE IF i + ringbuf_size < ringbuf_head + Len(rec) THEN rec[i + 1]
     ELSE ringbuf_data[i]]

\* ringbuf_data after the one or two memcpy of ringbuf_write.
Stored(rec) ==
  [i \in Index |->
     IF ringbuf_head <= i /\ i < ringbuf_head + Len(rec) THEN rec[i - ringbuf_head + 1]
     ELSE IF i + ringbuf_size < ringbuf_head + Len(rec) THEN rec[i + ringbuf_size - ringbuf_head + 1]
     ELSE ringbuf_data[i]]

\* The first n bytes to read, after the one or two memcpy of ringbuf_read.
Fetched(n) == [k \in 1 .. n |-> ringbuf_data[Wrap(ringbuf_tail + k - 1)]]

Empty ==
  ringbuf_head' = 0 /\ ringbuf_tail' = 0 /\ ringbuf_available' = 0 /\ dropped_packets' = 0
-----------------------------------------------------------------------------
RingInit ==
  /\ has_buffer = FALSE
  /\ ringbuf_data = [i \in Index |-> Zero]
  /\ ringbuf_head = 0 /\ ringbuf_tail = 0 /\ ringbuf_available = 0
  /\ dropped_packets = 0
  /\ chunk = <<>>

\* malloc does not clear what it returns.
ringbuf_alloc ==
  /\ ~has_buffer
  /\ has_buffer' = TRUE
  /\ Empty
  /\ UNCHANGED <<ringbuf_data, chunk>>

ringbuf_free ==
  /\ has_buffer
  /\ has_buffer' = FALSE
  /\ Empty
  /\ UNCHANGED <<ringbuf_data, chunk>>

ringbuf_reset ==
  /\ Empty
  /\ UNCHANGED <<has_buffer, ringbuf_data, chunk>>

Drop ==
  /\ dropped_packets < MaxDropped
  /\ dropped_packets' = dropped_packets + 1
  /\ UNCHANGED <<has_buffer, ringbuf_data, ringbuf_head, ringbuf_tail, ringbuf_available, chunk>>

\* The mutex was busy.
ringbuf_write_busy == has_buffer /\ Drop

ringbuf_write(rec) ==
  /\ has_buffer
  /\ \/ Len(rec) > ringbuf_size - ringbuf_available /\ Drop
     \/ /\ Len(rec) <= ringbuf_size - ringbuf_available
        /\ ringbuf_data' = Stored(rec)
        /\ ringbuf_head' = Wrap(ringbuf_head + Len(rec))
        /\ ringbuf_available' = ringbuf_available + Len(rec)
        /\ UNCHANGED <<has_buffer, ringbuf_tail, dropped_packets, chunk>>

ringbuf_read(max_len) ==
  LET to_read == IF max_len < ringbuf_available THEN max_len ELSE ringbuf_available
  IN  /\ has_buffer /\ ringbuf_available > 0
      /\ chunk' = Fetched(to_read)
      /\ ringbuf_tail' = Wrap(ringbuf_tail + to_read)
      /\ ringbuf_available' = ringbuf_available - to_read
      /\ UNCHANGED <<has_buffer, ringbuf_data, ringbuf_head, dropped_packets>>

RingNext ==
  \/ ringbuf_alloc \/ ringbuf_free \/ ringbuf_reset \/ ringbuf_write_busy
  \/ \E rec \in Records : ringbuf_write(rec)
  \/ \E max_len \in 1 .. MaxReadLen : ringbuf_read(max_len)

RingSpec == RingInit /\ [][RingNext]_ring_vars
-----------------------------------------------------------------------------
RingTypeOK ==
  /\ has_buffer \in BOOLEAN
  /\ ringbuf_data \in [Index -> Byte]
  /\ ringbuf_head \in Index /\ ringbuf_tail \in Index
  /\ ringbuf_available \in 0 .. ringbuf_size
  /\ dropped_packets \in 0 .. MaxDropped
  /\ chunk \in Seq(Byte)

\* The three position variables, each updated on its own in write and read,
\* always agree: the write position is the read position plus what is available,
\* around the end.
HeadFollowsTail == ringbuf_head = Wrap(ringbuf_tail + ringbuf_available)

\* The bytes still to be read, oldest first.
Contents == Fetched(ringbuf_available)

Fifo == INSTANCE PcapFifo WITH
  Size <- ringbuf_size, MaxRead <- MaxReadLen,
  open <- has_buffer, queue <- Contents, got <- chunk, lost <- dropped_packets

\* The ring is a bounded queue: what is read is what was written, in order and
\* unchanged around the wrap, a record goes in whole or is counted as dropped,
\* and nothing else loses a byte but a reset.
ImplementsFifo == Fifo!Spec
=============================================================================
