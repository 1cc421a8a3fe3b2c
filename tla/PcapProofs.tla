----------------------------- MODULE PcapProofs -----------------------------
(***************************************************************************)
(* The capture ring of PcapRing is a bounded queue, and the threads of     *)
(* PcapStream that use one never touch a freed buffer and give a client    *)
(* whole records, for every buffer size, every set of records, every read  *)
(* size and any number of hooks and users.                                 *)
(*                                                                         *)
(* The ring: the inductive invariant is the type invariant with            *)
(* HeadFollowsTail: the code updates head, tail and available separately,  *)
(* and only their agreement tells which bytes a write may overwrite.       *)
(*                                                                         *)
(* The threads: the buffer is there for a session and only then            *)
(* (BufferOfSession), because it is freed under the mutex that a hook      *)
(* copying into it holds (Locked).  What the client has got, the server    *)
(* holds and the ring holds, taken together, are parts that follow one     *)
(* another and end with a record (Framed).                                 *)
(***************************************************************************)
EXTENDS PcapRing, PcapStream, TLAPS, SequenceTheorems

RingInv == RingTypeOK /\ HeadFollowsTail

\* Positions stay inside the buffer when they advance by at most its size.
LEMMA WrapInIndex ==
  ASSUME NEW x \in Nat, x < 2 * ringbuf_size
  PROVE  Wrap(x) \in Index
  BY RingAssumption DEF Wrap, Index

\* What a read copies out: n bytes, each from its wrapped position.
LEMMA FetchedType ==
  ASSUME RingTypeOK, NEW n \in 0 .. ringbuf_size
  PROVE  /\ Fetched(n) \in Seq(Byte)
         /\ Len(Fetched(n)) = n
         /\ \A k \in 1 .. n : Fetched(n)[k] = ringbuf_data[Wrap(ringbuf_tail + k - 1)]
  <1>1. \A k \in 1 .. n : Wrap(ringbuf_tail + k - 1) \in Index
    BY RingAssumption DEF RingTypeOK, Index, Wrap
  <1>2. \A k \in 1 .. n : ringbuf_data[Wrap(ringbuf_tail + k - 1)] \in Byte
    BY <1>1 DEF RingTypeOK
  <1>3. QED
    BY <1>2 DEF Fetched

LEMMA InitRing == RingInit => RingInv
  <1> SUFFICES ASSUME RingInit PROVE RingInv
    OBVIOUS
  <1>1. 0 \in Index /\ Wrap(0) = 0 /\ 0 + 0 = 0 /\ 0 \in 0 .. ringbuf_size /\ 0 \in 0 .. MaxDropped
    BY RingAssumption DEF Index, Wrap
  <1>2. ringbuf_data \in [Index -> Byte]
    BY RingAssumption DEF RingInit
  <1>3. chunk \in Seq(Byte)
    BY DEF RingInit
  <1>4. HeadFollowsTail
    BY <1>1 DEF RingInit, HeadFollowsTail
  <1>5. QED
    BY <1>1, <1>2, <1>3, <1>4 DEF RingInit, RingInv, RingTypeOK

\* The two memcpy of a write leave bytes in every cell.
LEMMA StoredType ==
  ASSUME RingTypeOK, NEW rec \in Records
  PROVE  Stored(rec) \in [Index -> Byte]
  <1>1. rec \in Seq(Byte)
    BY RingAssumption
  <1>2. ASSUME NEW i \in Index PROVE Stored(rec)[i] \in Byte
    <2>1. CASE ringbuf_head <= i /\ i < ringbuf_head + Len(rec)
      <3>1. i - ringbuf_head + 1 \in 1 .. Len(rec)
        BY <1>1, <2>1, RingAssumption DEF RingTypeOK, Index
      <3>2. QED
        BY <1>1, <2>1, <3>1 DEF Stored
    <2>2. CASE /\ ~(ringbuf_head <= i /\ i < ringbuf_head + Len(rec))
               /\ i + ringbuf_size < ringbuf_head + Len(rec)
      <3>1. i + ringbuf_size - ringbuf_head + 1 \in 1 .. Len(rec)
        BY <1>1, <2>2, RingAssumption DEF RingTypeOK, Index
      <3>2. QED
        BY <1>1, <2>2, <3>1 DEF Stored
    <2>3. CASE /\ ~(ringbuf_head <= i /\ i < ringbuf_head + Len(rec))
               /\ ~(i + ringbuf_size < ringbuf_head + Len(rec))
      BY <2>3 DEF Stored, RingTypeOK
    <2>4. QED
      BY <2>1, <2>2, <2>3
  <1>3. QED
    BY <1>2 DEF Stored

LEMMA WriteRing ==
  ASSUME RingInv, NEW rec \in Records, ringbuf_write(rec)
  PROVE  RingInv'
  <1> USE DEF RingInv, RingTypeOK, HeadFollowsTail
  <1>1. CASE Len(rec) > ringbuf_size - ringbuf_available /\ Drop
    BY <1>1, RingAssumption DEF Drop, Wrap
  <1>2. CASE /\ Len(rec) <= ringbuf_size - ringbuf_available
             /\ ringbuf_data' = Stored(rec)
             /\ ringbuf_head' = Wrap(ringbuf_head + Len(rec))
             /\ ringbuf_available' = ringbuf_available + Len(rec)
             /\ UNCHANGED <<has_buffer, ringbuf_tail, dropped_packets, chunk>>
    <2>1. rec \in Seq(Byte) /\ Len(rec) \in Nat
      BY RingAssumption
    <2>2. ringbuf_data' \in [Index -> Byte]
      BY <1>2, StoredType
    <2>3. ringbuf_head' \in Index /\ ringbuf_available' \in 0 .. ringbuf_size
      BY <1>2, <2>1, RingAssumption DEF Index, Wrap
    <2>4. HeadFollowsTail'
      BY <1>2, <2>1, RingAssumption DEF Index, Wrap
    <2>5. QED
      BY <1>2, <2>2, <2>3, <2>4
  <1>3. QED
    BY <1>1, <1>2 DEF ringbuf_write

LEMMA ReadRing ==
  ASSUME RingInv, NEW max_len \in 1 .. MaxReadLen, ringbuf_read(max_len)
  PROVE  RingInv'
  <1> DEFINE to_read == IF max_len < ringbuf_available THEN max_len ELSE ringbuf_available
  <1>1. /\ to_read \in 0 .. ringbuf_size /\ to_read <= ringbuf_available
        /\ ringbuf_available \in 0 .. ringbuf_size /\ ringbuf_tail \in Index
    BY RingAssumption DEF RingInv, RingTypeOK
  <1>2. /\ chunk' = Fetched(to_read)
        /\ ringbuf_tail' = Wrap(ringbuf_tail + to_read)
        /\ ringbuf_available' = ringbuf_available - to_read
        /\ UNCHANGED <<has_buffer, ringbuf_data, ringbuf_head, dropped_packets>>
    BY DEF ringbuf_read
  <1>3. chunk' \in Seq(Byte)
    BY <1>1, <1>2, FetchedType DEF RingInv
  <1> HIDE DEF to_read
  <1>4. ringbuf_tail' \in Index /\ ringbuf_available' \in 0 .. ringbuf_size /\ HeadFollowsTail'
    BY <1>1, <1>2, RingAssumption DEF RingInv, HeadFollowsTail, Index, Wrap
  <1>5. QED
    BY <1>2, <1>3, <1>4 DEF RingInv, RingTypeOK

LEMMA NextRing == RingInv /\ [RingNext]_ring_vars => RingInv'
  <1> SUFFICES ASSUME RingInv, [RingNext]_ring_vars PROVE RingInv'
    OBVIOUS
  <1>1. ASSUME ringbuf_alloc \/ ringbuf_free \/ ringbuf_reset PROVE RingInv'
    BY <1>1, RingAssumption
    DEF ringbuf_alloc, ringbuf_free, ringbuf_reset, Empty, RingInv, RingTypeOK, HeadFollowsTail, Index, Wrap
  <1>2. CASE ringbuf_write_busy
    BY <1>2, RingAssumption DEF ringbuf_write_busy, Drop, RingInv, RingTypeOK, HeadFollowsTail, Wrap
  <1>3. ASSUME NEW rec \in Records, ringbuf_write(rec) PROVE RingInv'
    BY <1>3, WriteRing
  <1>4. ASSUME NEW max_len \in 1 .. MaxReadLen, ringbuf_read(max_len) PROVE RingInv'
    BY <1>4, ReadRing
  <1>5. CASE UNCHANGED ring_vars
    BY <1>5 DEF ring_vars, RingInv, RingTypeOK, HeadFollowsTail, Wrap
  <1>6. QED
    BY <1>1, <1>2, <1>3, <1>4, <1>5 DEF RingNext

\* The buffer's positions stay inside it and agree with each other, for every
\* size, whatever records are written and however much is read at a time.
THEOREM PositionsAgree == RingSpec => [](RingTypeOK /\ HeadFollowsTail)
  <1>1. RingInv => RingTypeOK /\ HeadFollowsTail
    BY DEF RingInv
  <1>2. QED
    BY <1>1, InitRing, NextRing, PTL DEF RingSpec
-----------------------------------------------------------------------------
(* The ring implements the queue. *)

\* The queue is a sequence of as many bytes as are available ...
LEMMA ContentsType ==
  RingTypeOK => Contents \in Seq(Byte) /\ Len(Contents) = ringbuf_available
  BY FetchedType DEF Contents, RingTypeOK

\* ... and so it is after a step.
LEMMA ContentsTypeNext ==
  RingTypeOK' => (Contents \in Seq(Byte) /\ Len(Contents) = ringbuf_available)'
  BY ContentsType, PTL

\* Before anything is written, the queue is empty.
LEMMA EmptyContents ==
  ASSUME RingTypeOK, ringbuf_available = 0
  PROVE  Contents = <<>>
  <1>1. Contents \in Seq(Byte) /\ Len(Contents) = 0
    BY FetchedType, RingAssumption DEF Contents
  <1>2. QED
    BY <1>1

\* A write puts the record behind what is in the queue: the bytes still to be
\* read are not overwritten, and the new ones follow them around the end.
LEMMA WriteAppends ==
  ASSUME RingInv, RingInv', NEW rec \in Records,
         Len(rec) <= ringbuf_size - ringbuf_available,
         ringbuf_data' = Stored(rec),
         ringbuf_available' = ringbuf_available + Len(rec),
         ringbuf_tail' = ringbuf_tail
  PROVE  Contents' = Contents \o rec
  <1> DEFINE a == ringbuf_available
             len == Len(rec)
  <1>1. rec \in Seq(Byte) /\ len \in Nat /\ a \in 0 .. ringbuf_size /\ a + len \in 0 .. ringbuf_size
    BY RingAssumption DEF RingInv, RingTypeOK
  <1>2. /\ Contents \in Seq(Byte) /\ Len(Contents) = a
        /\ \A k \in 1 .. a : Contents[k] = ringbuf_data[Wrap(ringbuf_tail + k - 1)]
    BY <1>1, FetchedType DEF Contents, RingInv
  <1>3. /\ Contents' = [k \in 1 .. a + len |-> Stored(rec)[Wrap(ringbuf_tail + k - 1)]]
    BY DEF Contents, Fetched, Wrap
  <1>4. /\ Contents \o rec \in Seq(Byte) /\ Len(Contents \o rec) = a + len
        /\ \A k \in 1 .. a + len :
             (Contents \o rec)[k] = IF k <= a THEN Contents[k] ELSE rec[k - a]
    BY <1>1, <1>2
  <1>5. ASSUME NEW k \in 1 .. a + len
        PROVE  Stored(rec)[Wrap(ringbuf_tail + k - 1)]
                 = IF k <= a THEN ringbuf_data[Wrap(ringbuf_tail + k - 1)] ELSE rec[k - a]
    <2> DEFINE i == Wrap(ringbuf_tail + k - 1)
    <2>1. /\ ringbuf_tail \in Index /\ k \in Nat /\ i \in Index
          /\ ringbuf_head = Wrap(ringbuf_tail + a)
      BY <1>1, RingAssumption DEF RingInv, RingTypeOK, HeadFollowsTail, Index, Wrap
    <2>2. Stored(rec)[i] =
            IF ringbuf_head <= i /\ i < ringbuf_head + len THEN rec[i - ringbuf_head + 1]
            ELSE IF i + ringbuf_size < ringbuf_head + len THEN rec[i + ringbuf_size - ringbuf_head + 1]
            ELSE ringbuf_data[i]
      BY <2>1 DEF Stored
    <2>3. CASE k <= a
      <3>1. /\ ~(ringbuf_head <= i /\ i < ringbuf_head + len)
            /\ ~(i + ringbuf_size < ringbuf_head + len)
        BY <1>1, <2>1, <2>3, RingAssumption DEF Index, Wrap
      <3>2. QED
        BY <2>2, <2>3, <3>1
    <2>4. CASE k > a
      <3>1. \/ /\ ringbuf_head <= i /\ i < ringbuf_head + len
               /\ i - ringbuf_head + 1 = k - a
            \/ /\ ~(ringbuf_head <= i /\ i < ringbuf_head + len)
               /\ i + ringbuf_size < ringbuf_head + len
               /\ i + ringbuf_size - ringbuf_head + 1 = k - a
        BY <1>1, <2>1, <2>4, RingAssumption DEF Index, Wrap
      <3>2. ~(k <= a)
        BY <1>1, <2>1, <2>4
      <3> HIDE DEF i
      <3>3. Stored(rec)[i] = rec[k - a]
        BY <2>2, <3>1
      <3> USE DEF i
      <3>4. QED
        BY <3>2, <3>3
    <2>5. k <= a \/ k > a
      BY <1>1, <2>1
    <2> HIDE DEF i
    <2>6. QED
      BY <2>3, <2>4, <2>5
  <1>6. ASSUME NEW k \in 1 .. a + len
        PROVE  Contents'[k] = (Contents \o rec)[k]
    <2>1. Contents'[k] = Stored(rec)[Wrap(ringbuf_tail + k - 1)]
      BY <1>3
    <2>2. (Contents \o rec)[k] = IF k <= a THEN Contents[k] ELSE rec[k - a]
      BY <1>4
    <2>3. k <= a => Contents[k] = ringbuf_data[Wrap(ringbuf_tail + k - 1)]
      BY <1>1, <1>2
    <2>4. QED
      BY <1>5, <2>1, <2>2, <2>3
  <1>7. Contents' \in Seq(Byte) /\ Len(Contents') = a + len
    BY ContentsTypeNext DEF RingInv
  <1>8. QED
    BY <1>4, <1>6, <1>7

\* A read takes the oldest bytes off the queue and leaves the rest in order.
LEMMA ReadTakes ==
  ASSUME RingInv, RingInv', NEW n \in 0 .. ringbuf_size, n <= ringbuf_available,
         chunk' = Fetched(n),
         ringbuf_tail' = Wrap(ringbuf_tail + n),
         ringbuf_available' = ringbuf_available - n,
         ringbuf_data' = ringbuf_data
  PROVE  /\ chunk' = SubSeq(Contents, 1, n)
         /\ Contents' = SubSeq(Contents, n + 1, Len(Contents))
  <1> DEFINE a == ringbuf_available
  <1>1. a \in 0 .. ringbuf_size /\ n \in 0 .. a /\ ringbuf_tail \in Index
    BY DEF RingInv, RingTypeOK
  <1>2. /\ Contents \in Seq(Byte) /\ Len(Contents) = a
        /\ \A k \in 1 .. a : Contents[k] = ringbuf_data[Wrap(ringbuf_tail + k - 1)]
    BY <1>1, FetchedType DEF Contents, RingInv
  <1>3. /\ Fetched(n) \in Seq(Byte) /\ Len(Fetched(n)) = n
        /\ \A k \in 1 .. n : Fetched(n)[k] = ringbuf_data[Wrap(ringbuf_tail + k - 1)]
    BY FetchedType DEF RingInv
  <1> HIDE DEF a
  <1>4. /\ SubSeq(Contents, 1, n) \in Seq(Byte) /\ Len(SubSeq(Contents, 1, n)) = n
        /\ \A k \in 1 .. n : SubSeq(Contents, 1, n)[k] = Contents[k]
    BY <1>1, <1>2
  <1>5. Fetched(n) = SubSeq(Contents, 1, n)
    <2>1. ASSUME NEW k \in 1 .. n PROVE Fetched(n)[k] = SubSeq(Contents, 1, n)[k]
      <3>1. k \in 1 .. a
        BY <1>1
      <3>2. QED
        BY <1>2, <1>3, <1>4, <3>1
    <2>2. QED
      BY <1>3, <1>4, <2>1
  <1>6. Contents' \in Seq(Byte) /\ Len(Contents') = a - n
    BY ContentsTypeNext DEF RingInv, a
  <1>7. /\ SubSeq(Contents, n + 1, a) \in Seq(Byte) /\ Len(SubSeq(Contents, n + 1, a)) = a - n
        /\ \A k \in 1 .. a - n : SubSeq(Contents, n + 1, a)[k] = Contents[k + n]
    BY <1>1, <1>2
  <1>8. Contents' = [k \in 1 .. a - n |-> ringbuf_data[Wrap(Wrap(ringbuf_tail + n) + k - 1)]]
    BY DEF Contents, Fetched, Wrap, a
  <1>9. ASSUME NEW k \in 1 .. a - n
        PROVE  Contents'[k] = SubSeq(Contents, n + 1, a)[k]
    <2>1. k + n \in 1 .. a /\ k \in Nat /\ n \in Nat
      BY <1>1
    <2>2. Wrap(Wrap(ringbuf_tail + n) + k - 1) = Wrap(ringbuf_tail + (k + n) - 1)
      BY <1>1, <2>1, RingAssumption DEF Wrap, Index
    <2>3. Contents'[k] = ringbuf_data[Wrap(ringbuf_tail + (k + n) - 1)]
      BY <1>8, <2>2
    <2>4. QED
      BY <1>2, <1>7, <2>1, <2>3
  <1>10. Contents' = SubSeq(Contents, n + 1, a)
    <2>1. a - n \in Nat
      BY <1>1
    <2> DEFINE l == a - n
               S == SubSeq(Contents, n + 1, a)
    <2>2. /\ Contents' \in Seq(Byte) /\ Len(Contents') = l
          /\ S \in Seq(Byte) /\ Len(S) = l /\ \A k \in 1 .. l : Contents'[k] = S[k]
      BY <1>6, <1>7, <1>9
    <2> HIDE DEF l, S
    <2>3. Contents' = S
      BY <2>2
    <2>4. QED
      BY <2>3 DEF S
  <1>11. QED
    BY <1>2, <1>5, <1>10

LEMMA InitFifo == RingInv /\ RingInit => Fifo!Init
  BY EmptyContents DEF RingInv, RingInit, Fifo!Init

\* A step of the ring is a step of the queue, or leaves the queue alone.
LEMMA NextFifo == RingInv /\ RingInv' /\ [RingNext]_ring_vars => [Fifo!Next]_(Fifo!fifoVars)
  <1> SUFFICES ASSUME RingInv, RingInv', [RingNext]_ring_vars
               PROVE  [Fifo!Next]_(Fifo!fifoVars)
    OBVIOUS
  <1>1. ringbuf_available' = 0 => Contents' = <<>>
    <2>1. RingInv' => (Contents \in Seq(Byte) /\ Len(Contents) = ringbuf_available)'
      BY ContentsTypeNext DEF RingInv
    <2>2. QED
      BY <2>1
  <1>2. /\ Contents \in Seq(Byte) /\ Len(Contents) = ringbuf_available
        /\ ringbuf_available \in 0 .. ringbuf_size
    BY ContentsType DEF RingInv, RingTypeOK
  <1>3. ASSUME ringbuf_data' = ringbuf_data, ringbuf_tail' = ringbuf_tail,
               ringbuf_available' = ringbuf_available
        PROVE  Contents' = Contents
    BY <1>3 DEF Contents, Fetched, Wrap
  <1>4. CASE ringbuf_alloc
    BY <1>1, <1>4 DEF ringbuf_alloc, Empty, Fifo!Next, Fifo!Open
  <1>5. CASE ringbuf_free
    BY <1>1, <1>5 DEF ringbuf_free, Empty, Fifo!Next, Fifo!Close
  <1>6. CASE ringbuf_reset
    BY <1>1, <1>6 DEF ringbuf_reset, Empty, Fifo!Next, Fifo!Reset
  <1>7. CASE ringbuf_write_busy
    BY <1>3, <1>7 DEF ringbuf_write_busy, Drop, Fifo!Next, Fifo!WriteBusy
  <1>8. ASSUME NEW rec \in Records, ringbuf_write(rec) PROVE Fifo!Write(rec)
    <2>1. rec \in Seq(Byte) /\ Len(rec) \in Nat
      BY RingAssumption
    <2>2. CASE Len(rec) > ringbuf_size - ringbuf_available /\ Drop
      <3>1. Len(Contents) + Len(rec) > ringbuf_size
        BY <1>2, <2>1, <2>2, RingAssumption
      <3>2. QED
        BY <1>3, <1>8, <2>2, <3>1 DEF ringbuf_write, Drop, Fifo!Write
    <2>3. CASE /\ Len(rec) <= ringbuf_size - ringbuf_available
               /\ ringbuf_data' = Stored(rec)
               /\ ringbuf_head' = Wrap(ringbuf_head + Len(rec))
               /\ ringbuf_available' = ringbuf_available + Len(rec)
               /\ UNCHANGED <<has_buffer, ringbuf_tail, dropped_packets, chunk>>
      <3>1. Len(Contents) + Len(rec) <= ringbuf_size
        BY <1>2, <2>1, <2>3, RingAssumption
      <3>2. Contents' = Contents \o rec
        BY <2>3, WriteAppends
      <3>3. QED
        BY <1>8, <2>3, <3>1, <3>2 DEF ringbuf_write, Fifo!Write
    <2>4. QED
      BY <1>8, <2>2, <2>3 DEF ringbuf_write
  <1>9. ASSUME NEW max_len \in 1 .. MaxReadLen, ringbuf_read(max_len) PROVE Fifo!Read(max_len)
    <2> DEFINE n == IF max_len < ringbuf_available THEN max_len ELSE ringbuf_available
    <2>1. /\ n \in 0 .. ringbuf_size /\ n \in 0 .. Len(Contents) /\ n <= ringbuf_available
          /\ n <= max_len /\ (n = max_len \/ n = Len(Contents))
      BY <1>2, RingAssumption
    <2>2. /\ has_buffer
          /\ chunk' = Fetched(n)
          /\ ringbuf_tail' = Wrap(ringbuf_tail + n)
          /\ ringbuf_available' = ringbuf_available - n
          /\ UNCHANGED <<has_buffer, ringbuf_data, ringbuf_head, dropped_packets>>
      BY <1>9 DEF ringbuf_read
    <2> HIDE DEF n
    <2>3. /\ chunk' = SubSeq(Contents, 1, n)
          /\ Contents' = SubSeq(Contents, n + 1, Len(Contents))
      BY <2>1, <2>2, ReadTakes
    <2>4. QED
      BY <2>1, <2>2, <2>3 DEF Fifo!Read
  <1>10. CASE UNCHANGED ring_vars
    BY <1>3, <1>10 DEF ring_vars, Fifo!fifoVars
  <1>11. CASE RingNext
    BY <1>4, <1>5, <1>6, <1>7, <1>8, <1>9, <1>11 DEF RingNext, Fifo!Next
  <1>12. QED
    BY <1>10, <1>11

\* The ring is a bounded queue of bytes, for every size, set of records and read
\* size: no interleaving of writes, reads, drops and resets loses, repeats,
\* reorders or mixes up a byte.
THEOREM RingImplementsFifo == RingSpec => ImplementsFifo
  <1>1. RingInit => Fifo!Init
    BY InitRing, InitFifo
  <1>2. QED
    BY <1>1, InitRing, NextRing, NextFifo, PTL DEF RingSpec, ImplementsFifo, Fifo!Spec
-----------------------------------------------------------------------------
(* The threads around the ring *)

\* A part of a record of len parts; Whole, with which a session begins, counts as
\* the end of one.
Part == {p \in [len : Nat, k : Nat] : p.k <= p.len}

ServerLabels == {"accept", "alloc_lock", "alloc", "drain", "header", "read", "read_lock",
                 "copy_out", "send", "poll", "disconnect", "free_lock", "free"}
HookLabels == {"idle", "build", "write", "try_lock", "locked", "copy_in", "signal"}
UserLabels == {"idle", "assign", "reset_lock", "reset", "usage"}

StreamPlaces ==
  /\ pc \in [Tasks -> ServerLabels \cup HookLabels \cup UserLabels]
  /\ pc[Server] \in ServerLabels
  /\ \A h \in Hooks : pc[h] \in HookLabels
  /\ \A u \in Users : pc[u] \in UserLabels

StreamData ==
  /\ pcap_snaplen \in Nat \ {0} /\ allocated \in BOOLEAN /\ cut \in BOOLEAN
  /\ queue \in Seq(Part) /\ send_buf \in Seq(Part) /\ last_sent \in Part
  /\ pkt_buf \in [Hooks -> Seq(Part)]

\* Who stands behind the mutex holds it.
Locked ==
  \A t \in Tasks :
    pc[t] \in {"locked", "copy_in", "alloc", "copy_out", "free", "reset", "usage"} => mutex = t

\* The buffer is there exactly for a session; only where it is there does the
\* ring hold anything or a hook copy into it.
BufferOfSession ==
  /\ allocated => pc[Server] \notin {"accept", "alloc_lock", "alloc"}
  /\ ~allocated => queue = <<>>
  /\ \A h \in Hooks : pc[h] = "copy_in" => allocated

\* What a hook is about to write is one whole record.
Built ==
  \A h \in Hooks : pc[h] \in {"write", "try_lock", "locked", "copy_in"} =>
    \E n \in Nat \ {0} : pkt_buf[h] = Record(n)

\* Parts that follow one another and end with a record.
Sound(parts) == Chained(parts) /\ Last(parts).k = Last(parts).len

\* What the client has got, what is on its way to it and what the ring holds make
\* up whole records; before the session begins, what the ring holds.
Framed ==
  /\ pc[Server] = "send" <=> send_buf # <<>>
  /\ Streaming /\ ~cut => Sound(<<last_sent>> \o send_buf \o queue)
  /\ pc[Server] \in {"drain", "header"} => Sound(<<Whole>> \o queue)

SInv == StreamPlaces /\ StreamData /\ Locked /\ BufferOfSession /\ Built /\ Framed

-----------------------------------------------------------------------------
(* Lemmas: records one after the other *)

LEMMA PartTypes ==
  /\ Whole \in Part /\ Whole.k = Whole.len
  /\ \A n \in Nat : Record(n) \in Seq(Part) /\ Len(Record(n)) = n
                    /\ \A i \in 1 .. n : Record(n)[i] = [len |-> n, k |-> i]
  <1>1. Whole \in Part /\ Whole.k = Whole.len
    BY DEF Part, Whole
  <1>2. ASSUME NEW n \in Nat
        PROVE  Record(n) \in Seq(Part) /\ Len(Record(n)) = n
               /\ \A i \in 1 .. n : Record(n)[i] = [len |-> n, k |-> i]
    <2>1. \A i \in 1 .. n : [len |-> n, k |-> i] \in Part
      BY DEF Part
    <2>2. QED
      BY <2>1 DEF Record
  <1>3. QED
    BY <1>1, <1>2

LEMMA LastIn ==
  ASSUME NEW s \in Seq(Part), s # <<>>
  PROVE  Last(s) \in Part
  <1>1. Len(s) \in 1 .. Len(s)
    BY EmptySeq
  <1>2. QED
    BY <1>1, ElementOfSeq DEF Last

\* A read cuts the ring's contents in two.
LEMMA CutApart ==
  ASSUME NEW s \in Seq(Part), NEW n \in 0 .. Len(s)
  PROVE  /\ SubSeq(s, 1, n) \in Seq(Part) /\ SubSeq(s, n + 1, Len(s)) \in Seq(Part)
         /\ SubSeq(s, 1, n) \o SubSeq(s, n + 1, Len(s)) = s
         /\ SubSeq(s, 1, n) = <<>> <=> n = 0
  <1>1. SubSeq(s, 1, n) \in Seq(Part) /\ SubSeq(s, n + 1, Len(s)) \in Seq(Part)
    BY EmptySeq
  <1>2. SubSeq(s, 1, n) \o SubSeq(s, n + 1, Len(s)) = SubSeq(s, 1, Len(s))
    <2>1. 1 \in 1 .. Len(s) + 1 /\ n \in 1 - 1 .. Len(s) /\ Len(s) \in n .. Len(s)
      BY EmptySeq
    <2>2. QED
      BY <2>1, ConcatAdjacentSubSeq
  <1>3. SubSeq(s, 1, n) = <<>> <=> n = 0
    BY EmptySeq
  <1>4. QED
    BY <1>1, <1>2, <1>3, SubSeqFull

\* Behind whole records comes another whole record.
LEMMA SoundAppend ==
  ASSUME NEW s \in Seq(Part), s # <<>>, Sound(s), NEW n \in Nat \ {0}
  PROVE  Sound(s \o Record(n))
  <1> DEFINE r == Record(n)  t == s \o r
  <1>1. r \in Seq(Part) /\ Len(r) = n /\ \A i \in 1 .. n : r[i] = [len |-> n, k |-> i]
    BY PartTypes
  <1>2. Len(s) \in Nat \ {0}
    BY EmptySeq
  <1> HIDE DEF r
  <1>3. /\ t \in Seq(Part) /\ Len(t) = Len(s) + n
        /\ \A i \in 1 .. Len(s) + n : t[i] = IF i <= Len(s) THEN s[i] ELSE r[i - Len(s)]
    BY <1>1, <1>2, ConcatProperties
  <1> HIDE DEF t
  <1>4. ASSUME NEW i \in 1 .. Len(t) - 1
        PROVE  IF t[i].k = t[i].len THEN t[i + 1].k = 1
               ELSE t[i + 1] = [t[i] EXCEPT !.k = @ + 1]
    <2>1. CASE i < Len(s)
      <3>1. t[i] = s[i] /\ t[i + 1] = s[i + 1] /\ i \in 1 .. Len(s) - 1
        BY <1>2, <1>3, <2>1
      <3>2. QED
        BY <3>1 DEF Sound, Chained
    <2>2. CASE i = Len(s)
      <3>1. t[i] = s[Len(s)] /\ t[i + 1] = r[1]
        BY <1>1, <1>2, <1>3, <2>2
      <3>2. t[i].k = t[i].len /\ t[i + 1].k = 1
        BY <1>1, <3>1 DEF Sound, Last
      <3>3. QED
        BY <3>2
    <2>3. CASE ~(i <= Len(s))
      <3>1. PICK j \in 1 .. n - 1 : j = i - Len(s)
        <4>1. i - Len(s) \in 1 .. n - 1
          BY <1>2, <1>3, <2>3
        <4>2. QED
          BY <4>1
      <3>2. t[i] = r[j] /\ t[i + 1] = r[j + 1]
        <4>1. /\ i \in 1 .. Len(s) + n /\ i + 1 \in 1 .. Len(s) + n
              /\ ~(i <= Len(s)) /\ ~(i + 1 <= Len(s)) /\ (i + 1) - Len(s) = j + 1
          BY <1>2, <1>3, <2>3, <3>1
        <4>2. t[i] = r[i - Len(s)] /\ t[i + 1] = r[(i + 1) - Len(s)]
          BY <1>3, <4>1
        <4>3. QED
          BY <3>1, <4>1, <4>2
      <3>3. t[i] = [len |-> n, k |-> j] /\ t[i + 1] = [len |-> n, k |-> j + 1]
        BY <1>1, <3>1, <3>2
      <3>4. QED
        BY <3>1, <3>3
    <2>4. QED
      BY <1>2, <1>3, <2>1, <2>2, <2>3
  <1>5. t[Len(t)] = [len |-> n, k |-> n]
    BY <1>1, <1>2, <1>3
  <1>6. Sound(t)
    BY <1>4, <1>5 DEF Sound, Chained, Last
  <1>7. QED
    BY <1>6 DEF t, r

\* What follows a part continues it.
LEMMA SoundSuffix ==
  ASSUME NEW a \in Seq(Part), a # <<>>, NEW b \in Seq(Part), Sound(a \o b)
  PROVE  Sound(<<Last(a)>> \o b)
  <1> DEFINE s == a \o b  f == <<Last(a)>>  t == f \o b
  <1>1. Len(a) \in Nat \ {0} /\ Len(b) \in Nat
    BY EmptySeq
  <1>2. Last(a) \in Part /\ f \in Seq(Part) /\ Len(f) = 1 /\ f[1] = a[Len(a)]
    BY <1>1, ElementOfSeq DEF Last
  <1>3. /\ s \in Seq(Part) /\ Len(s) = Len(a) + Len(b)
        /\ \A i \in 1 .. Len(a) + Len(b) : s[i] = IF i <= Len(a) THEN a[i] ELSE b[i - Len(a)]
    BY ConcatProperties
  <1> HIDE DEF f
  <1>4. /\ t \in Seq(Part) /\ Len(t) = 1 + Len(b)
        /\ \A i \in 1 .. 1 + Len(b) : t[i] = IF i <= 1 THEN f[i] ELSE b[i - 1]
    <2>1. /\ t \in Seq(Part) /\ Len(t) = Len(f) + Len(b)
          /\ \A i \in 1 .. Len(f) + Len(b) : t[i] = IF i <= Len(f) THEN f[i] ELSE b[i - Len(f)]
      BY <1>2, ConcatProperties
    <2> HIDE DEF t
    <2>2. QED
      BY <1>2, <2>1
  <1>5. Sound(s)
    OBVIOUS
  <1> HIDE DEF s, t
  <1>6. \A i \in 1 .. 1 + Len(b) : t[i] = s[i + Len(a) - 1]
    <2> TAKE i \in 1 .. 1 + Len(b)
    <2>1. CASE i = 1
      BY <1>1, <1>2, <1>3, <1>4, <2>1
    <2>2. CASE i > 1
      <3>1. /\ i \in 1 .. 1 + Len(b) /\ ~(i <= 1)
            /\ i + Len(a) - 1 \in 1 .. Len(a) + Len(b) /\ ~(i + Len(a) - 1 <= Len(a))
            /\ (i + Len(a) - 1) - Len(a) = i - 1
        BY <1>1, <2>2
      <3>2. t[i] = b[i - 1]
        BY <1>4, <3>1
      <3>3. s[i + Len(a) - 1] = b[(i + Len(a) - 1) - Len(a)]
        BY <1>3, <3>1
      <3>4. QED
        BY <3>1, <3>2, <3>3
    <2>3. QED
      BY <2>1, <2>2
  <1>7. Chained(t)
    <2> SUFFICES ASSUME NEW i \in 1 .. Len(t) - 1
                 PROVE  IF t[i].k = t[i].len THEN t[i + 1].k = 1
                        ELSE t[i + 1] = [t[i] EXCEPT !.k = @ + 1]
      BY DEF Chained
    <2> DEFINE j == i + Len(a) - 1
    <2>1. /\ i \in 1 .. 1 + Len(b) /\ i + 1 \in 1 .. 1 + Len(b)
          /\ j \in 1 .. Len(s) - 1 /\ (i + 1) + Len(a) - 1 = j + 1
      BY <1>1, <1>3, <1>4
    <2>2. t[i] = s[j] /\ t[i + 1] = s[(i + 1) + Len(a) - 1]
      BY <1>6, <2>1
    <2> HIDE DEF j
    <2>3. QED
      BY <1>5, <2>1, <2>2 DEF Sound, Chained
  <1>8. t[Len(t)] = s[Len(s)]
    BY <1>1, <1>3, <1>4, <1>6
  <1>9. QED
    BY <1>5, <1>7, <1>8 DEF Sound, Last, t, f

\* What ends with a record can be cut there.
LEMMA SoundPrefix ==
  ASSUME NEW a \in Seq(Part), a # <<>>, NEW b \in Seq(Part), Sound(a \o b),
         Last(a).k = Last(a).len
  PROVE  Sound(a)
  <1> DEFINE s == a \o b
  <1>1. Len(a) \in Nat \ {0} /\ Len(b) \in Nat
    BY EmptySeq
  <1>2. /\ Len(s) = Len(a) + Len(b)
        /\ \A i \in 1 .. Len(a) + Len(b) : s[i] = IF i <= Len(a) THEN a[i] ELSE b[i - Len(a)]
    BY ConcatProperties
  <1>3. Sound(s)
    OBVIOUS
  <1> HIDE DEF s
  <1>4. ASSUME NEW i \in 1 .. Len(a) - 1
        PROVE  i \in 1 .. Len(s) - 1 /\ s[i] = a[i] /\ s[i + 1] = a[i + 1]
    BY <1>1, <1>2
  <1>5. Chained(a)
    BY <1>3, <1>4 DEF Sound, Chained
  <1>6. QED
    BY <1>5 DEF Sound

-----------------------------------------------------------------------------
(* The invariant *)

LEMMA TasksApart ==
  /\ Server \in Tasks /\ Hooks \subseteq Tasks /\ Users \subseteq Tasks
  /\ Server \notin Hooks /\ Server \notin Users /\ Hooks \cap Users = {}
  /\ Nobody \notin Tasks
  BY TaskAssumption DEF Tasks, Server, Nobody

\* One task moves at a time, to a place of its own program.
LEMMA ServerMoves ==
  ASSUME StreamPlaces, NEW l \in ServerLabels, Goto(Server, l)
  PROVE  StreamPlaces' /\ pc'[Server] = l /\ \A t \in Tasks \ {Server} : pc'[t] = pc[t]
  BY TasksApart DEF StreamPlaces, Goto, Tasks

LEMMA HookMoves ==
  ASSUME StreamPlaces, NEW h \in Hooks, NEW l \in HookLabels, Goto(h, l)
  PROVE  StreamPlaces' /\ pc'[h] = l /\ \A t \in Tasks \ {h} : pc'[t] = pc[t]
  BY TasksApart DEF StreamPlaces, Goto, Tasks

LEMMA UserMoves ==
  ASSUME StreamPlaces, NEW u \in Users, NEW l \in UserLabels, Goto(u, l)
  PROVE  StreamPlaces' /\ pc'[u] = l /\ \A t \in Tasks \ {u} : pc'[t] = pc[t]
  BY TasksApart DEF StreamPlaces, Goto, Tasks

LEMMA InitSInv == Init => SInv
  <1> SUFFICES ASSUME Init PROVE SInv
    OBVIOUS
  <1> USE TasksApart
  <1>1. \A h \in Hooks : pc[h] = "idle"
    BY DEF Init
  <1>2. \A u \in Users : pc[u] = "idle"
    BY DEF Init
  <1>3. pc[Server] = "accept"
    BY DEF Init
  <1>4. StreamPlaces /\ StreamData
    <2>1. <<>> \in Seq(Part) /\ Whole \in Part
      BY PartTypes, EmptySeq
    <2>2. pcap_snaplen \in Nat \ {0}
      BY StreamAssumption DEF Init
    <2>3. QED
      BY <1>1, <1>2, <1>3, <2>1, <2>2
         DEF Init, StreamPlaces, StreamData, Tasks, ServerLabels, HookLabels, UserLabels
  <1>5. Locked /\ BufferOfSession /\ Built
    BY <1>1, <1>2, <1>3 DEF Init, Locked, BufferOfSession, Built, Tasks
  <1>6. Framed
    BY <1>3 DEF Init, Framed, Streaming
  <1>7. QED
    BY <1>4, <1>5, <1>6 DEF SInv

\* A read takes a first part of what is there; it is empty only if nothing is there.
LEMMA Cut ==
  ASSUME CopyOut, queue \in Seq(Part)
  PROVE  \E n \in 0 .. Len(queue) :
           /\ send_buf' = SubSeq(queue, 1, n) /\ queue' = SubSeq(queue, n + 1, Len(queue))
           /\ n = 0 => queue = <<>>
           /\ Goto(Server, IF allocated /\ n > 0 THEN "send" ELSE "poll")
  <1> DEFINE n == IF MaxRead < Len(queue) THEN MaxRead ELSE Len(queue)
  <1>1. MaxRead \in Nat \ {0} /\ Len(queue) \in Nat /\ (Len(queue) = 0 => queue = <<>>)
    BY StreamAssumption, EmptySeq
  <1>2. n \in 0 .. Len(queue) /\ (n = 0 => queue = <<>>)
    BY <1>1
  <1>3. /\ send_buf' = SubSeq(queue, 1, n) /\ queue' = SubSeq(queue, n + 1, Len(queue))
        /\ Goto(Server, IF allocated /\ n > 0 THEN "send" ELSE "poll")
    BY DEF CopyOut
  <1> HIDE DEF n
  <1>4. QED
    BY <1>2, <1>3

LEMMA CutEmpty ==
  ASSUME CopyOut, queue = <<>>
  PROVE  queue' = <<>>
  <1>1. queue \in Seq(Part)
    BY EmptySeq
  <1>2. PICK n \in 0 .. Len(queue) : queue' = SubSeq(queue, n + 1, Len(queue))
    BY <1>1, Cut
  <1>3. n = 0 /\ Len(queue) = 0
    BY EmptySeq
  <1>4. QED
    BY <1>2, <1>3, SubSeqEmpty

LEMMA NextPlaces == StreamPlaces /\ [Next]_vars => StreamPlaces'
  <1> SUFFICES ASSUME StreamPlaces, [Next]_vars PROVE StreamPlaces'
    OBVIOUS
  <1>1. CASE Accept
    BY <1>1, ServerMoves DEF Accept, ServerLabels
  <1>2. CASE AllocLock
    BY <1>2, ServerMoves DEF AllocLock, ServerLabels
  <1>3. CASE Alloc
    BY <1>3, ServerMoves DEF Alloc, ServerLabels
  <1>4. CASE Drain
    BY <1>4, ServerMoves DEF Drain, ServerLabels
  <1>5. CASE SendHeader
    BY <1>5, ServerMoves DEF SendHeader, ServerLabels
  <1>6. CASE ReadWait
    BY <1>6, ServerMoves DEF ReadWait, ServerLabels
  <1>7. CASE ReadLock
    BY <1>7, ServerMoves DEF ReadLock, ServerLabels
  <1>8. CASE CopyOut
    BY <1>8, ServerMoves DEF CopyOut, ServerLabels
  <1>9. CASE Send
    BY <1>9, ServerMoves DEF Send, ServerLabels
  <1>10. CASE Poll
    BY <1>10, ServerMoves DEF Poll, ServerLabels
  <1>11. CASE Disconnect
    BY <1>11, ServerMoves DEF Disconnect, ServerLabels
  <1>12. CASE FreeLock
    BY <1>12, ServerMoves DEF FreeLock, ServerLabels
  <1>13. CASE Free
    BY <1>13, ServerMoves DEF Free, ServerLabels
  <1>14. ASSUME NEW h \in Hooks, HookPacket(h) PROVE StreamPlaces'
    BY <1>14, HookMoves DEF HookPacket, HookLabels
  <1>15. ASSUME NEW h \in Hooks, BuildRecord(h) PROVE StreamPlaces'
    BY <1>15, HookMoves DEF BuildRecord, HookLabels
  <1>16. ASSUME NEW h \in Hooks, WriteCheck(h) PROVE StreamPlaces'
    BY <1>16, HookMoves DEF WriteCheck, Discard, HookLabels
  <1>17. ASSUME NEW h \in Hooks, WriteTryLock(h) PROVE StreamPlaces'
    BY <1>17, HookMoves DEF WriteTryLock, Discard, HookLabels
  <1>18. ASSUME NEW h \in Hooks, WriteRecheck(h) PROVE StreamPlaces'
    BY <1>18, HookMoves DEF WriteRecheck, Discard, HookLabels
  <1>19. ASSUME NEW h \in Hooks, WriteCopy(h) PROVE StreamPlaces'
    BY <1>19, HookMoves DEF WriteCopy, HookLabels
  <1>20. ASSUME NEW h \in Hooks, WriteSignal(h) PROVE StreamPlaces'
    BY <1>20, HookMoves DEF WriteSignal, HookLabels
  <1>21. ASSUME NEW u \in Users, AssignMode(u) PROVE StreamPlaces'
    BY <1>21, UserMoves DEF AssignMode, UserLabels
  <1>22. ASSUME NEW u \in Users, ResetLock(u) PROVE StreamPlaces'
    BY <1>22, UserMoves DEF ResetLock, UserLabels
  <1>23. ASSUME NEW u \in Users, Reset(u) PROVE StreamPlaces'
    BY <1>23, UserMoves DEF Reset, UserLabels
  <1>24. ASSUME NEW u \in Users, UsageUnlock(u) PROVE StreamPlaces'
    BY <1>24, UserMoves DEF UsageUnlock, UserLabels
  <1>25. ASSUME NEW u \in Users, UsageLock(u) PROVE StreamPlaces'
    BY <1>25, UserMoves DEF UsageLock, UserLabels
  <1>26. ASSUME NEW u \in Users, NEW mode \in Modes, SetMode(u, mode) PROVE StreamPlaces'
    BY <1>26, UserMoves DEF SetMode, UserLabels
  <1>27. ASSUME NEW u \in Users, NEW snaplen \in Snaplens, pcap_set_snaplen(u, snaplen)
         PROVE  StreamPlaces'
    BY <1>27 DEF pcap_set_snaplen, StreamPlaces
  <1>28. CASE UNCHANGED vars
    BY <1>28 DEF vars, StreamPlaces
  <1>29. QED
    BY <1>1, <1>2, <1>3, <1>4, <1>5, <1>6, <1>7, <1>8, <1>9, <1>10, <1>11, <1>12, <1>13, <1>14,
       <1>15, <1>16, <1>17, <1>18, <1>19, <1>20, <1>21, <1>22, <1>23, <1>24, <1>25, <1>26,
       <1>27, <1>28
       DEF Next, ServerStep, Hook, UserStep

LEMMA NextData == StreamPlaces /\ StreamData /\ Framed /\ [Next]_vars => StreamData'
  <1> SUFFICES ASSUME StreamPlaces /\ StreamData /\ Framed, [Next]_vars PROVE StreamData'
    OBVIOUS
  <1>1. CASE Accept
    BY <1>1 DEF Accept, StreamData, ring, locals, history
  <1>2. CASE AllocLock
    BY <1>2 DEF AllocLock, StreamData, shared, locals, history
  <1>3. CASE Alloc
    BY <1>3, EmptySeq DEF Alloc, StreamData, shared, locals, history
  <1>4. CASE Drain
    BY <1>4 DEF Drain, StreamData, shared, locals
  <1>5. CASE SendHeader
    BY <1>5, PartTypes DEF SendHeader, StreamData, shared, ring
  <1>6. CASE ReadWait
    BY <1>6 DEF ReadWait, StreamData, shared, locals, history
  <1>7. CASE ReadLock
    BY <1>7 DEF ReadLock, StreamData, shared, locals, history
  <1>8. CASE CopyOut
    <2>1. PICK n \in 0 .. Len(queue) :
            send_buf' = SubSeq(queue, 1, n) /\ queue' = SubSeq(queue, n + 1, Len(queue))
      BY <1>8, Cut DEF StreamData
    <2>2. send_buf' \in Seq(Part) /\ queue' \in Seq(Part)
      BY <2>1, CutApart DEF StreamData
    <2>3. QED
      BY <1>8, <2>2 DEF CopyOut, StreamData, shared, history
  <1>9. CASE Send
    <2>1. send_buf # <<>>
      BY <1>9 DEF Framed, Send
    <2>2. Last(send_buf) \in Part
      BY <2>1, LastIn DEF StreamData
    <2>3. QED
      BY <1>9, <2>2, EmptySeq DEF Send, StreamData, shared, ring, history
  <1>10. CASE Poll
    BY <1>10 DEF Poll, StreamData, shared, ring, locals, history
  <1>11. CASE Disconnect
    BY <1>11 DEF Disconnect, StreamData, ring, locals, history
  <1>12. CASE FreeLock
    BY <1>12 DEF FreeLock, StreamData, shared, locals, history
  <1>13. CASE Free
    BY <1>13, EmptySeq DEF Free, StreamData, shared, locals, history
  <1>14. ASSUME NEW h \in Hooks, HookPacket(h) PROVE StreamData'
    BY <1>14 DEF HookPacket, StreamData, shared, ring, locals
  <1>15. ASSUME NEW h \in Hooks, BuildRecord(h) PROVE StreamData'
    <2>1. \A n \in Lengths : n \in Nat /\ pcap_snaplen \in Nat
      BY StreamAssumption DEF StreamData
    <2>2. pkt_buf' \in [Hooks -> Seq(Part)]
      BY <1>15, <2>1, PartTypes DEF BuildRecord, StreamData
    <2>3. QED
      BY <1>15, <2>2 DEF BuildRecord, StreamData, shared, ring, history
  <1>16. ASSUME NEW h \in Hooks, WriteCheck(h) PROVE StreamData'
    BY <1>16, EmptySeq DEF WriteCheck, Discard, StreamData, shared, ring, history
  <1>17. ASSUME NEW h \in Hooks, WriteTryLock(h) PROVE StreamData'
    BY <1>17, EmptySeq DEF WriteTryLock, Discard, StreamData, shared, history
  <1>18. ASSUME NEW h \in Hooks, WriteRecheck(h) PROVE StreamData'
    BY <1>18, EmptySeq DEF WriteRecheck, Discard, StreamData, shared, history
  <1>19. ASSUME NEW h \in Hooks, WriteCopy(h) PROVE StreamData'
    <2>1. queue \o pkt_buf[h] \in Seq(Part)
      BY ConcatProperties DEF StreamData
    <2>2. QED
      BY <1>19, <2>1, EmptySeq DEF WriteCopy, StreamData, shared, history
  <1>20. ASSUME NEW h \in Hooks, WriteSignal(h) PROVE StreamData'
    BY <1>20 DEF WriteSignal, StreamData, shared, locals
  <1>21. ASSUME NEW u \in Users, AssignMode(u) PROVE StreamData'
    BY <1>21 DEF AssignMode, StreamData, ring, locals, history
  <1>22. ASSUME NEW u \in Users, ResetLock(u) PROVE StreamData'
    BY <1>22 DEF ResetLock, StreamData, shared, locals, history
  <1>23. ASSUME NEW u \in Users, Reset(u) PROVE StreamData'
    BY <1>23, EmptySeq DEF Reset, StreamData, shared, locals
  <1>24. ASSUME NEW u \in Users, UsageUnlock(u) PROVE StreamData'
    BY <1>24 DEF UsageUnlock, StreamData, shared, locals, history
  <1>25. ASSUME NEW u \in Users, UsageLock(u) PROVE StreamData'
    BY <1>25 DEF UsageLock, StreamData, shared, locals
  <1>26. ASSUME NEW u \in Users, NEW mode \in Modes, SetMode(u, mode) PROVE StreamData'
    BY <1>26 DEF SetMode, StreamData, shared, ring
  <1>27. ASSUME NEW u \in Users, NEW snaplen \in Snaplens, pcap_set_snaplen(u, snaplen)
         PROVE  StreamData'
    BY <1>27, StreamAssumption DEF pcap_set_snaplen, StreamData, ring, locals
  <1>28. CASE UNCHANGED vars
    BY <1>28 DEF vars, StreamData, shared, ring, locals, history
  <1>29. QED
    BY <1>1, <1>2, <1>3, <1>4, <1>5, <1>6, <1>7, <1>8, <1>9, <1>10, <1>11, <1>12, <1>13, <1>14,
       <1>15, <1>16, <1>17, <1>18, <1>19, <1>20, <1>21, <1>22, <1>23, <1>24, <1>25, <1>26,
       <1>27, <1>28
       DEF Next, ServerStep, Hook, UserStep

LEMMA NextLocked == StreamPlaces /\ Locked /\ [Next]_vars => Locked'
  <1> SUFFICES ASSUME StreamPlaces /\ Locked, [Next]_vars PROVE Locked'
    OBVIOUS
  <1>1. CASE Accept
    BY <1>1, ServerMoves, TasksApart DEF Accept, Locked, ring, ServerLabels
  <1>2. CASE AllocLock
    BY <1>2, ServerMoves, TasksApart DEF AllocLock, Lock, Locked, ServerLabels
  <1>3. CASE Alloc
    BY <1>3, ServerMoves, TasksApart DEF Alloc, Unlock, Locked, ServerLabels
  <1>4. CASE Drain
    BY <1>4, ServerMoves, TasksApart DEF Drain, Locked, ServerLabels
  <1>5. CASE SendHeader
    BY <1>5, ServerMoves, TasksApart DEF SendHeader, Locked, ring, ServerLabels
  <1>6. CASE ReadWait
    BY <1>6, ServerMoves, TasksApart DEF ReadWait, Locked, ServerLabels
  <1>7. CASE ReadLock
    BY <1>7, ServerMoves, TasksApart DEF ReadLock, Lock, Locked, ServerLabels
  <1>8. CASE CopyOut
    BY <1>8, ServerMoves, TasksApart DEF CopyOut, Unlock, Locked, ServerLabels
  <1>9. CASE Send
    BY <1>9, ServerMoves, TasksApart DEF Send, Locked, ring, ServerLabels
  <1>10. CASE Poll
    BY <1>10, ServerMoves, TasksApart DEF Poll, Locked, ring, ServerLabels
  <1>11. CASE Disconnect
    BY <1>11, ServerMoves, TasksApart DEF Disconnect, Locked, ring, ServerLabels
  <1>12. CASE FreeLock
    BY <1>12, ServerMoves, TasksApart DEF FreeLock, Lock, Locked, ServerLabels
  <1>13. CASE Free
    BY <1>13, ServerMoves, TasksApart DEF Free, Unlock, Locked, ServerLabels
  <1>14. ASSUME NEW h \in Hooks, HookPacket(h) PROVE Locked'
    BY <1>14, HookMoves, TasksApart DEF HookPacket, Locked, ring, HookLabels
  <1>15. ASSUME NEW h \in Hooks, BuildRecord(h) PROVE Locked'
    BY <1>15, HookMoves, TasksApart DEF BuildRecord, Locked, ring, HookLabels
  <1>16. ASSUME NEW h \in Hooks, WriteCheck(h) PROVE Locked'
    BY <1>16, HookMoves, TasksApart DEF WriteCheck, Discard, Locked, ring, HookLabels
  <1>17. ASSUME NEW h \in Hooks, WriteTryLock(h) PROVE Locked'
    BY <1>17, HookMoves, TasksApart DEF WriteTryLock, Discard, Lock, Locked, HookLabels
  <1>18. ASSUME NEW h \in Hooks, WriteRecheck(h) PROVE Locked'
    BY <1>18, HookMoves, TasksApart DEF WriteRecheck, Discard, Unlock, Locked, HookLabels
  <1>19. ASSUME NEW h \in Hooks, WriteCopy(h) PROVE Locked'
    BY <1>19, HookMoves, TasksApart DEF WriteCopy, Unlock, Locked, HookLabels
  <1>20. ASSUME NEW h \in Hooks, WriteSignal(h) PROVE Locked'
    BY <1>20, HookMoves, TasksApart DEF WriteSignal, Locked, HookLabels
  <1>21. ASSUME NEW u \in Users, AssignMode(u) PROVE Locked'
    BY <1>21, UserMoves, TasksApart DEF AssignMode, Locked, ring, UserLabels
  <1>22. ASSUME NEW u \in Users, ResetLock(u) PROVE Locked'
    BY <1>22, UserMoves, TasksApart DEF ResetLock, Lock, Locked, UserLabels
  <1>23. ASSUME NEW u \in Users, Reset(u) PROVE Locked'
    BY <1>23, UserMoves, TasksApart DEF Reset, Unlock, Locked, UserLabels
  <1>24. ASSUME NEW u \in Users, UsageUnlock(u) PROVE Locked'
    BY <1>24, UserMoves, TasksApart DEF UsageUnlock, Unlock, Locked, UserLabels
  <1>25. ASSUME NEW u \in Users, UsageLock(u) PROVE Locked'
    BY <1>25, UserMoves, TasksApart DEF UsageLock, Lock, Locked, UserLabels
  <1>26. ASSUME NEW u \in Users, NEW mode \in Modes, SetMode(u, mode) PROVE Locked'
    BY <1>26, UserMoves, TasksApart DEF SetMode, Locked, ring, UserLabels
  <1>27. ASSUME NEW u \in Users, NEW snaplen \in Snaplens, pcap_set_snaplen(u, snaplen)
         PROVE  Locked'
    BY <1>27 DEF pcap_set_snaplen, Locked, ring
  <1>28. CASE UNCHANGED vars
    BY <1>28 DEF vars, Locked, ring
  <1>29. QED
    BY <1>1, <1>2, <1>3, <1>4, <1>5, <1>6, <1>7, <1>8, <1>9, <1>10, <1>11, <1>12, <1>13, <1>14,
       <1>15, <1>16, <1>17, <1>18, <1>19, <1>20, <1>21, <1>22, <1>23, <1>24, <1>25, <1>26,
       <1>27, <1>28
       DEF Next, ServerStep, Hook, UserStep

LEMMA NextBuffer == StreamPlaces /\ Locked /\ BufferOfSession /\ [Next]_vars => BufferOfSession'
  <1> SUFFICES ASSUME StreamPlaces /\ Locked /\ BufferOfSession, [Next]_vars
               PROVE  BufferOfSession'
    OBVIOUS
  <1>1. CASE Accept
    BY <1>1, ServerMoves, TasksApart DEF Accept, BufferOfSession, ring, ServerLabels
  <1>2. CASE AllocLock
    BY <1>2, ServerMoves, TasksApart DEF AllocLock, BufferOfSession, ServerLabels
  <1>3. CASE Alloc
    BY <1>3, ServerMoves, TasksApart DEF Alloc, BufferOfSession, ServerLabels
  <1>4. CASE Drain
    BY <1>4, ServerMoves, TasksApart DEF Drain, BufferOfSession, ServerLabels
  <1>5. CASE SendHeader
    BY <1>5, ServerMoves, TasksApart DEF SendHeader, BufferOfSession, ring, ServerLabels
  <1>6. CASE ReadWait
    BY <1>6, ServerMoves, TasksApart DEF ReadWait, BufferOfSession, ServerLabels
  <1>7. CASE ReadLock
    BY <1>7, ServerMoves, TasksApart DEF ReadLock, BufferOfSession, ServerLabels
  <1>8. CASE CopyOut
    <2>1. allocated \/ (queue = <<>> /\ queue' = <<>>)
      BY <1>8, CutEmpty DEF BufferOfSession
    <2>2. QED
      BY <1>8, <2>1, ServerMoves, TasksApart DEF CopyOut, BufferOfSession, ServerLabels
  <1>9. CASE Send
    BY <1>9, ServerMoves, TasksApart DEF Send, BufferOfSession, ring, ServerLabels
  <1>10. CASE Poll
    BY <1>10, ServerMoves, TasksApart DEF Poll, BufferOfSession, ring, ServerLabels
  <1>11. CASE Disconnect
    BY <1>11, ServerMoves, TasksApart DEF Disconnect, BufferOfSession, ring, ServerLabels
  <1>12. CASE FreeLock
    BY <1>12, ServerMoves, TasksApart DEF FreeLock, BufferOfSession, ServerLabels
  <1>13. CASE Free
    <2>1. mutex = Server /\ \A h \in Hooks : pc[h] # "copy_in"
      BY <1>13, TasksApart DEF Free, Locked
    <2>2. QED
      BY <1>13, <2>1, ServerMoves, TasksApart DEF Free, BufferOfSession, ServerLabels
  <1>14. ASSUME NEW h \in Hooks, HookPacket(h) PROVE BufferOfSession'
    BY <1>14, HookMoves, TasksApart DEF HookPacket, BufferOfSession, ring, HookLabels
  <1>15. ASSUME NEW h \in Hooks, BuildRecord(h) PROVE BufferOfSession'
    BY <1>15, HookMoves, TasksApart DEF BuildRecord, BufferOfSession, ring, HookLabels
  <1>16. ASSUME NEW h \in Hooks, WriteCheck(h) PROVE BufferOfSession'
    BY <1>16, HookMoves, TasksApart DEF WriteCheck, Discard, BufferOfSession, ring, HookLabels
  <1>17. ASSUME NEW h \in Hooks, WriteTryLock(h) PROVE BufferOfSession'
    BY <1>17, HookMoves, TasksApart DEF WriteTryLock, Discard, BufferOfSession, HookLabels
  <1>18. ASSUME NEW h \in Hooks, WriteRecheck(h) PROVE BufferOfSession'
    BY <1>18, HookMoves, TasksApart DEF WriteRecheck, Discard, BufferOfSession, HookLabels
  <1>19. ASSUME NEW h \in Hooks, WriteCopy(h) PROVE BufferOfSession'
    BY <1>19, HookMoves, TasksApart DEF WriteCopy, BufferOfSession, HookLabels
  <1>20. ASSUME NEW h \in Hooks, WriteSignal(h) PROVE BufferOfSession'
    BY <1>20, HookMoves, TasksApart DEF WriteSignal, BufferOfSession, HookLabels
  <1>21. ASSUME NEW u \in Users, AssignMode(u) PROVE BufferOfSession'
    BY <1>21, UserMoves, TasksApart DEF AssignMode, BufferOfSession, ring, UserLabels
  <1>22. ASSUME NEW u \in Users, ResetLock(u) PROVE BufferOfSession'
    BY <1>22, UserMoves, TasksApart DEF ResetLock, BufferOfSession, UserLabels
  <1>23. ASSUME NEW u \in Users, Reset(u) PROVE BufferOfSession'
    BY <1>23, UserMoves, TasksApart DEF Reset, BufferOfSession, UserLabels
  <1>24. ASSUME NEW u \in Users, UsageUnlock(u) PROVE BufferOfSession'
    BY <1>24, UserMoves, TasksApart DEF UsageUnlock, BufferOfSession, UserLabels
  <1>25. ASSUME NEW u \in Users, UsageLock(u) PROVE BufferOfSession'
    BY <1>25, UserMoves, TasksApart DEF UsageLock, BufferOfSession, UserLabels
  <1>26. ASSUME NEW u \in Users, NEW mode \in Modes, SetMode(u, mode) PROVE BufferOfSession'
    BY <1>26, UserMoves, TasksApart DEF SetMode, BufferOfSession, ring, UserLabels
  <1>27. ASSUME NEW u \in Users, NEW snaplen \in Snaplens, pcap_set_snaplen(u, snaplen)
         PROVE  BufferOfSession'
    BY <1>27 DEF pcap_set_snaplen, BufferOfSession, ring
  <1>28. CASE UNCHANGED vars
    BY <1>28 DEF vars, BufferOfSession, ring
  <1>29. QED
    BY <1>1, <1>2, <1>3, <1>4, <1>5, <1>6, <1>7, <1>8, <1>9, <1>10, <1>11, <1>12, <1>13, <1>14,
       <1>15, <1>16, <1>17, <1>18, <1>19, <1>20, <1>21, <1>22, <1>23, <1>24, <1>25, <1>26,
       <1>27, <1>28
       DEF Next, ServerStep, Hook, UserStep

LEMMA NextBuilt == StreamPlaces /\ StreamData /\ Built /\ [Next]_vars => Built'
  <1> SUFFICES ASSUME StreamPlaces /\ StreamData /\ Built, [Next]_vars PROVE Built'
    OBVIOUS
  <1>1. CASE Accept
    BY <1>1, ServerMoves, TasksApart DEF Accept, Built, locals, ServerLabels
  <1>2. CASE AllocLock
    BY <1>2, ServerMoves, TasksApart DEF AllocLock, Built, locals, ServerLabels
  <1>3. CASE Alloc
    BY <1>3, ServerMoves, TasksApart DEF Alloc, Built, locals, ServerLabels
  <1>4. CASE Drain
    BY <1>4, ServerMoves, TasksApart DEF Drain, Built, locals, ServerLabels
  <1>5. CASE SendHeader
    BY <1>5, ServerMoves, TasksApart DEF SendHeader, Built, ServerLabels
  <1>6. CASE ReadWait
    BY <1>6, ServerMoves, TasksApart DEF ReadWait, Built, locals, ServerLabels
  <1>7. CASE ReadLock
    BY <1>7, ServerMoves, TasksApart DEF ReadLock, Built, locals, ServerLabels
  <1>8. CASE CopyOut
    BY <1>8, ServerMoves, TasksApart DEF CopyOut, Built, ServerLabels
  <1>9. CASE Send
    BY <1>9, ServerMoves, TasksApart DEF Send, Built, ServerLabels
  <1>10. CASE Poll
    BY <1>10, ServerMoves, TasksApart DEF Poll, Built, locals, ServerLabels
  <1>11. CASE Disconnect
    BY <1>11, ServerMoves, TasksApart DEF Disconnect, Built, locals, ServerLabels
  <1>12. CASE FreeLock
    BY <1>12, ServerMoves, TasksApart DEF FreeLock, Built, locals, ServerLabels
  <1>13. CASE Free
    BY <1>13, ServerMoves, TasksApart DEF Free, Built, locals, ServerLabels
  <1>14. ASSUME NEW h \in Hooks, HookPacket(h) PROVE Built'
    BY <1>14, HookMoves, TasksApart DEF HookPacket, Built, locals, HookLabels
  <1>15. ASSUME NEW h \in Hooks, BuildRecord(h) PROVE Built'
    <2>1. \A g \in Hooks \ {h} : pc'[g] = pc[g] /\ pkt_buf'[g] = pkt_buf[g]
      BY <1>15, HookMoves, TasksApart DEF BuildRecord, StreamData, HookLabels
    <2>2. CASE ~client_connected
      <3>1. pc'[h] = "idle" /\ pkt_buf' = pkt_buf
        BY <1>15, <2>2, HookMoves DEF BuildRecord, HookLabels
      <3>2. QED
        BY <2>1, <3>1 DEF Built
    <2>3. CASE client_connected
      <3>1. PICK n \in Nat \ {0} : pkt_buf' = [pkt_buf EXCEPT ![h] = Record(n)]
        <4>1. PICK len \in Lengths : pkt_buf' = [pkt_buf EXCEPT ![h] =
                    Record(IF len > pcap_snaplen THEN pcap_snaplen ELSE len)]
          BY <1>15, <2>3 DEF BuildRecord
        <4>2. len \in Nat \ {0} /\ pcap_snaplen \in Nat \ {0}
          BY StreamAssumption DEF StreamData
        <4>3. QED
          BY <4>1, <4>2
      <3>2. pkt_buf'[h] = Record(n)
        BY <3>1 DEF StreamData
      <3>3. QED
        BY <2>1, <3>2 DEF Built
    <2>4. QED
      BY <2>2, <2>3
  <1>16. ASSUME NEW h \in Hooks, WriteCheck(h) PROVE Built'
    BY <1>16, HookMoves, TasksApart DEF WriteCheck, Discard, StreamData, Built, HookLabels
  <1>17. ASSUME NEW h \in Hooks, WriteTryLock(h) PROVE Built'
    BY <1>17, HookMoves, TasksApart DEF WriteTryLock, Discard, StreamData, Built, HookLabels
  <1>18. ASSUME NEW h \in Hooks, WriteRecheck(h) PROVE Built'
    BY <1>18, HookMoves, TasksApart DEF WriteRecheck, Discard, StreamData, Built, HookLabels
  <1>19. ASSUME NEW h \in Hooks, WriteCopy(h) PROVE Built'
    BY <1>19, HookMoves, TasksApart DEF WriteCopy, Discard, StreamData, Built, HookLabels
  <1>20. ASSUME NEW h \in Hooks, WriteSignal(h) PROVE Built'
    BY <1>20, HookMoves, TasksApart DEF WriteSignal, Built, locals, HookLabels
  <1>21. ASSUME NEW u \in Users, AssignMode(u) PROVE Built'
    BY <1>21, UserMoves, TasksApart DEF AssignMode, Built, locals, UserLabels
  <1>22. ASSUME NEW u \in Users, ResetLock(u) PROVE Built'
    BY <1>22, UserMoves, TasksApart DEF ResetLock, Built, locals, UserLabels
  <1>23. ASSUME NEW u \in Users, Reset(u) PROVE Built'
    BY <1>23, UserMoves, TasksApart DEF Reset, Built, locals, UserLabels
  <1>24. ASSUME NEW u \in Users, UsageUnlock(u) PROVE Built'
    BY <1>24, UserMoves, TasksApart DEF UsageUnlock, Built, locals, UserLabels
  <1>25. ASSUME NEW u \in Users, UsageLock(u) PROVE Built'
    BY <1>25, UserMoves, TasksApart DEF UsageLock, Built, locals, UserLabels
  <1>26. ASSUME NEW u \in Users, NEW mode \in Modes, SetMode(u, mode) PROVE Built'
    BY <1>26, UserMoves, TasksApart DEF SetMode, Built, UserLabels
  <1>27. ASSUME NEW u \in Users, NEW snaplen \in Snaplens, pcap_set_snaplen(u, snaplen)
         PROVE  Built'
    BY <1>27 DEF pcap_set_snaplen, Built, locals
  <1>28. CASE UNCHANGED vars
    BY <1>28 DEF vars, Built, locals
  <1>29. QED
    BY <1>1, <1>2, <1>3, <1>4, <1>5, <1>6, <1>7, <1>8, <1>9, <1>10, <1>11, <1>12, <1>13, <1>14,
       <1>15, <1>16, <1>17, <1>18, <1>19, <1>20, <1>21, <1>22, <1>23, <1>24, <1>25, <1>26,
       <1>27, <1>28
       DEF Next, ServerStep, Hook, UserStep

\* The session's bytes, taken together in either way.
LEMMA Joined ==
  ASSUME NEW l \in Part, NEW sb \in Seq(Part), NEW q \in Seq(Part)
  PROVE  /\ <<l>> \o sb \in Seq(Part) /\ <<l>> \o sb # <<>>
         /\ Last(<<l>> \o sb) = IF sb = <<>> THEN l ELSE Last(sb)
         /\ <<l>> \o sb \o q = <<l>> \o (sb \o q)
         /\ sb = <<>> => <<l>> \o sb \o q = <<l>> \o q
  <1>1. <<l>> \in Seq(Part) /\ Len(<<l>>) = 1 /\ <<l>>[1] = l
    OBVIOUS
  <1>2. /\ <<l>> \o sb \in Seq(Part) /\ Len(<<l>> \o sb) = 1 + Len(sb)
        /\ \A i \in 1 .. 1 + Len(sb) : (<<l>> \o sb)[i] = IF i <= 1 THEN <<l>>[i] ELSE sb[i - 1]
    BY <1>1, ConcatProperties
  <1>3. Len(sb) \in Nat /\ (sb # <<>> => Len(sb) > 0) /\ Len(<<>>) = 0
    BY EmptySeq
  <1>4. <<l>> \o sb # <<>>
    BY <1>2, <1>3
  <1>5. CASE sb = <<>>
    <2>1. <<l>> \o sb = <<l>>
      BY <1>1, <1>5, ConcatEmptySeq
    <2>2. Last(<<l>>) = l
      BY <1>1 DEF Last
    <2>3. <<l>> \o (sb \o q) = <<l>> \o q
      BY <1>5, ConcatEmptySeq
    <2>4. QED
      BY <1>2, <1>4, <1>5, <2>1, <2>2, <2>3
  <1>6. CASE sb # <<>>
    <2>1. (<<l>> \o sb)[1 + Len(sb)] = sb[Len(sb)]
      BY <1>2, <1>3, <1>6
    <2>2. Last(<<l>> \o sb) = Last(sb)
      BY <1>2, <1>3, <2>1 DEF Last
    <2>3. <<l>> \o sb \o q = <<l>> \o (sb \o q)
      BY <1>1, ConcatAssociative
    <2>4. QED
      BY <1>2, <1>4, <1>6, <2>2, <2>3
  <1>7. QED
    BY <1>5, <1>6

\* A session begins at the start of a record.
LEMMA SoundStart == Sound(<<Whole>> \o <<>>)
  <1>1. <<Whole>> \o <<>> = <<Whole>>
    BY PartTypes, ConcatEmptySeq
  <1>2. Len(<<Whole>>) = 1 /\ <<Whole>>[1] = Whole
    OBVIOUS
  <1>3. QED
    BY <1>1, <1>2, PartTypes DEF Sound, Chained, Last

LEMMA NextFramed == StreamPlaces /\ StreamData /\ BufferOfSession /\ Built /\ Framed /\
   [Next]_vars => Framed'
  <1> SUFFICES ASSUME StreamPlaces /\ StreamData /\ BufferOfSession /\ Built /\ Framed, [Next]_vars
               PROVE  Framed'
    OBVIOUS
  <1>1. CASE Accept
    BY <1>1, ServerMoves, TasksApart DEF Accept, Framed, Streaming, ring, locals, history,
       ServerLabels
  <1>2. CASE AllocLock
    BY <1>2, ServerMoves, TasksApart DEF AllocLock, Framed, Streaming, locals, history,
       ServerLabels
  <1>3. CASE Alloc
    <2>1. ~allocated
      BY <1>3 DEF Alloc, BufferOfSession
    <2>2. send_buf' = <<>> /\ UNCHANGED <<send_buf, last_sent, cut>>
      BY <1>3 DEF Alloc, Framed, locals, history
    <2>3. \/ pc'[Server] = "drain" /\ queue' = <<>>
          \/ pc'[Server] = "disconnect"
      BY <1>3, <2>1, ServerMoves DEF Alloc, ServerLabels
    <2>4. QED
      BY <2>2, <2>3, SoundStart DEF Framed, Streaming
  <1>4. CASE Drain
    BY <1>4, ServerMoves, TasksApart DEF Drain, Framed, Streaming, locals, ServerLabels
  <1>5. CASE SendHeader
    <2>1. send_buf = <<>> /\ Sound(<<Whole>> \o queue)
      BY <1>5 DEF SendHeader, Framed
    <2>2. Sound(<<Whole>> \o send_buf \o queue)
      BY <2>1, Joined, PartTypes DEF StreamData
    <2>3. pc'[Server] \in {"read", "disconnect"}
      BY <1>5, ServerMoves DEF SendHeader, ServerLabels
    <2>4. last_sent' = Whole /\ send_buf' = send_buf /\ queue' = queue
      BY <1>5 DEF SendHeader, ring
    <2>5. QED
      BY <2>1, <2>2, <2>3, <2>4 DEF Framed, Streaming
  <1>6. CASE ReadWait
    BY <1>6, ServerMoves, TasksApart DEF ReadWait, Framed, Streaming, locals, history,
       ServerLabels
  <1>7. CASE ReadLock
    BY <1>7, ServerMoves, TasksApart DEF ReadLock, Framed, Streaming, locals, history,
       ServerLabels
  <1>8. CASE CopyOut
    <2>1. PICK n \in 0 .. Len(queue) :
            /\ send_buf' = SubSeq(queue, 1, n) /\ queue' = SubSeq(queue, n + 1, Len(queue))
            /\ n = 0 => queue = <<>>
            /\ Goto(Server, IF allocated /\ n > 0 THEN "send" ELSE "poll")
      BY <1>8, Cut DEF StreamData
    <2>2. /\ send_buf' \in Seq(Part) /\ queue' \in Seq(Part) /\ send_buf' \o queue' = queue
          /\ send_buf' = <<>> <=> n = 0
      BY <2>1, CutApart DEF StreamData
    <2>3. ~allocated => n = 0
      BY <2>1, EmptySeq DEF BufferOfSession
    <2>4. pc'[Server] = IF send_buf' = <<>> THEN "poll" ELSE "send"
      BY <2>1, <2>2, <2>3, ServerMoves DEF ServerLabels
    <2>5. send_buf = <<>> /\ last_sent' = last_sent /\ cut' = cut /\ Streaming
      BY <1>8 DEF CopyOut, Framed, Streaming, history
    <2>6. <<last_sent>> \o send_buf' \o queue' = <<last_sent>> \o send_buf \o queue
      <3>1. <<last_sent>> \o send_buf' \o queue' = <<last_sent>> \o (send_buf' \o queue')
        BY <2>2, Joined DEF StreamData
      <3>2. <<last_sent>> \o send_buf \o queue = <<last_sent>> \o queue
        BY <2>5, Joined DEF StreamData
      <3>3. QED
        BY <2>2, <3>1, <3>2
    <2>7. QED
      BY <2>4, <2>5, <2>6 DEF Framed
  <1>9. CASE Send
    <2>1. send_buf # <<>> /\ Streaming
      BY <1>9 DEF Send, Framed, Streaming
    <2>2. /\ last_sent' = Last(send_buf) /\ send_buf' = <<>> /\ queue' = queue /\ cut' = cut
          /\ pc'[Server] \in {"read", "disconnect"}
      BY <1>9, ServerMoves DEF Send, ring, history, ServerLabels
    <2>3. Last(send_buf) \in Part
      BY <2>1, LastIn DEF StreamData
    <2>4. ASSUME ~cut PROVE Sound(<<last_sent'>> \o send_buf' \o queue')
      <3>1. Sound(<<last_sent>> \o send_buf \o queue)
        BY <2>1, <2>4 DEF Framed
      <3>2. /\ <<last_sent>> \o send_buf \in Seq(Part) /\ <<last_sent>> \o send_buf # <<>>
            /\ Last(<<last_sent>> \o send_buf) = Last(send_buf)
        BY <2>1, Joined DEF StreamData
      <3>3. Sound(<<Last(send_buf)>> \o queue)
        BY <3>1, <3>2, SoundSuffix DEF StreamData
      <3>4. <<Last(send_buf)>> \o <<>> \o queue = <<Last(send_buf)>> \o queue
        BY <2>3, Joined, EmptySeq DEF StreamData
      <3>5. QED
        BY <2>2, <3>3, <3>4
    <2>5. QED
      BY <2>2, <2>4 DEF Framed
  <1>10. CASE Poll
    BY <1>10, ServerMoves, TasksApart DEF Poll, Framed, Streaming, ring, locals, history,
       ServerLabels
  <1>11. CASE Disconnect
    BY <1>11, ServerMoves, TasksApart DEF Disconnect, Framed, Streaming, ring, locals, history,
       ServerLabels
  <1>12. CASE FreeLock
    BY <1>12, ServerMoves, TasksApart DEF FreeLock, Framed, Streaming, locals, history,
       ServerLabels
  <1>13. CASE Free
    BY <1>13, ServerMoves DEF Free, Framed, Streaming, locals, ServerLabels
  <1>14. ASSUME NEW h \in Hooks, HookPacket(h) PROVE Framed'
    BY <1>14, HookMoves, TasksApart DEF HookPacket, Framed, Streaming, ring, locals, HookLabels
  <1>15. ASSUME NEW h \in Hooks, BuildRecord(h) PROVE Framed'
    BY <1>15, HookMoves, TasksApart DEF BuildRecord, Framed, Streaming, ring, history,
       HookLabels
  <1>16. ASSUME NEW h \in Hooks, WriteCheck(h) PROVE Framed'
    BY <1>16, HookMoves, TasksApart DEF WriteCheck, Discard, Framed, Streaming, ring, history,
       HookLabels
  <1>17. ASSUME NEW h \in Hooks, WriteTryLock(h) PROVE Framed'
    BY <1>17, HookMoves, TasksApart DEF WriteTryLock, Discard, Framed, Streaming, history,
       HookLabels
  <1>18. ASSUME NEW h \in Hooks, WriteRecheck(h) PROVE Framed'
    BY <1>18, HookMoves, TasksApart DEF WriteRecheck, Discard, Framed, Streaming, history,
       HookLabels
  <1>19. ASSUME NEW h \in Hooks, WriteCopy(h) PROVE Framed'
    <2>1. PICK n \in Nat \ {0} : queue' = queue \o Record(n)
      BY <1>19 DEF WriteCopy, Built
    <2>2. /\ pc'[Server] = pc[Server] /\ send_buf' = send_buf /\ last_sent' = last_sent
          /\ cut' = cut
      BY <1>19, HookMoves, TasksApart DEF WriteCopy, HookLabels, history
    <2>3. Record(n) \in Seq(Part)
      BY PartTypes
    <2>4. ASSUME NEW s \in Seq(Part), s # <<>>, Sound(s \o queue)
          PROVE  Sound(s \o queue')
      <3>1. s \o queue \in Seq(Part) /\ s \o queue # <<>>
        BY <2>4, ConcatProperties, ConcatEqualIffEmpty DEF StreamData
      <3>2. Sound((s \o queue) \o Record(n))
        BY <2>4, <3>1, SoundAppend
      <3>3. (s \o queue) \o Record(n) = s \o (queue \o Record(n))
        BY <2>3, ConcatAssociative DEF StreamData
      <3>4. QED
        BY <2>1, <3>2, <3>3
    <2>5. Streaming /\ ~cut => Sound(<<last_sent>> \o send_buf \o queue')
      <3>1. <<last_sent>> \o send_buf \in Seq(Part) /\ <<last_sent>> \o send_buf # <<>>
        BY Joined DEF StreamData
      <3>2. QED
        BY <2>4, <3>1 DEF Framed
    <2>6. pc[Server] \in {"drain", "header"} => Sound(<<Whole>> \o queue')
      <3>1. <<Whole>> \in Seq(Part) /\ <<Whole>> # <<>>
        BY PartTypes
      <3>2. QED
        BY <2>4, <3>1 DEF Framed
    <2>7. QED
      BY <2>2, <2>5, <2>6 DEF Framed, Streaming
  <1>20. ASSUME NEW h \in Hooks, WriteSignal(h) PROVE Framed'
    BY <1>20, HookMoves, TasksApart DEF WriteSignal, Framed, Streaming, locals, HookLabels
  <1>21. ASSUME NEW u \in Users, AssignMode(u) PROVE Framed'
    BY <1>21, UserMoves, TasksApart DEF AssignMode, Framed, Streaming, ring, locals, history,
       UserLabels
  <1>22. ASSUME NEW u \in Users, ResetLock(u) PROVE Framed'
    BY <1>22, UserMoves, TasksApart DEF ResetLock, Framed, Streaming, locals, history,
       UserLabels
  <1>23. ASSUME NEW u \in Users, Reset(u) PROVE Framed'
    <2>1. pc'[Server] = pc[Server]
      BY <1>23, UserMoves, TasksApart DEF Reset, UserLabels
    <2>2. /\ queue' = <<>> /\ send_buf' = send_buf /\ last_sent' = last_sent
          /\ cut' = (cut \/ (Streaming /\ LastOut.k < LastOut.len))
      BY <1>23 DEF Reset, locals
    <2>3. ASSUME Streaming, ~cut' PROVE Sound(<<last_sent>> \o send_buf \o <<>>)
      <3>1. Sound(<<last_sent>> \o send_buf \o queue)
        BY <2>2, <2>3 DEF Framed
      <3>2. /\ <<last_sent>> \o send_buf \in Seq(Part) /\ <<last_sent>> \o send_buf # <<>>
            /\ Last(<<last_sent>> \o send_buf) = LastOut
        BY Joined DEF StreamData, LastOut
      <3>3. LastOut \in Part /\ ~(LastOut.k < LastOut.len)
        BY <2>2, <2>3, <3>2, LastIn
      <3>4. LastOut.k = LastOut.len
        BY <3>3 DEF Part
      <3>5. Sound(<<last_sent>> \o send_buf)
        BY <3>1, <3>2, <3>4, SoundPrefix DEF StreamData
      <3>6. QED
        BY <3>2, <3>5, ConcatEmptySeq
    <2>4. QED
      BY <2>1, <2>2, <2>3, SoundStart DEF Framed, Streaming
  <1>24. ASSUME NEW u \in Users, UsageUnlock(u) PROVE Framed'
    BY <1>24, UserMoves, TasksApart DEF UsageUnlock, Framed, Streaming, locals, history,
       UserLabels
  <1>25. ASSUME NEW u \in Users, UsageLock(u) PROVE Framed'
    BY <1>25, UserMoves, TasksApart DEF UsageLock, Framed, Streaming, locals, UserLabels
  <1>26. ASSUME NEW u \in Users, NEW mode \in Modes, SetMode(u, mode) PROVE Framed'
    BY <1>26, UserMoves, TasksApart DEF SetMode, Framed, Streaming, ring, UserLabels
  <1>27. ASSUME NEW u \in Users, NEW snaplen \in Snaplens, pcap_set_snaplen(u, snaplen)
         PROVE  Framed'
    BY <1>27 DEF pcap_set_snaplen, Framed, Streaming, ring, locals
  <1>28. CASE UNCHANGED vars
    BY <1>28 DEF vars, Framed, Streaming, ring, locals, history, ServerLabels, HookLabels,
       UserLabels
  <1>29. QED
    BY <1>1, <1>2, <1>3, <1>4, <1>5, <1>6, <1>7, <1>8, <1>9, <1>10, <1>11, <1>12, <1>13, <1>14,
       <1>15, <1>16, <1>17, <1>18, <1>19, <1>20, <1>21, <1>22, <1>23, <1>24, <1>25, <1>26,
       <1>27, <1>28
       DEF Next, ServerStep, Hook, UserStep

LEMMA NextSInv == SInv /\ [Next]_vars => SInv'
  BY NextPlaces, NextData, NextLocked, NextBuffer, NextBuilt, NextFramed DEF SInv

LEMMA AlwaysSInv == Spec => []SInv
  BY InitSInv, NextSInv, PTL DEF Spec

\* Nobody copies into or out of a freed buffer, for any number of hooks and users.
THEOREM NeverUsedAfterFree == Spec => []NoUseAfterFree
  <1>1. SInv => NoUseAfterFree
    BY DEF SInv, BufferOfSession, NoUseAfterFree
  <1>2. QED
    BY <1>1, AlwaysSInv, PTL

\* What a client gets is whole records, back to back, for every length, buffer and read size.
THEOREM StreamAlwaysFramed == Spec => []StreamFramed
  <1>1. SInv => StreamFramed
    BY DEF SInv, Framed, Sound, StreamFramed
  <1>2. QED
    BY <1>1, AlwaysSInv, PTL
=============================================================================
