----------------------------- MODULE PcapStream -----------------------------
(***************************************************************************)
(* Packet capture (pcap_capture.c) as its threads run it.  The packet      *)
(* hooks write records from the Ethernet receive task, the lwIP thread and *)
(* the WiFi task; one server task streams them to a TCP client; the        *)
(* console and the web server change the mode and the snap length.         *)
(*                                                                         *)
(* The ring is the queue that PcapRing implements.  It holds the parts of  *)
(* the records: a record of length n is its parts 1 .. n, and a read may   *)
(* end inside one.  Each action is what runs between two points at which   *)
(* another thread can be seen: taking the mutex, releasing it, the         *)
(* semaphore, and an access to a variable that no lock protects.  The      *)
(* counters of captured and dropped packets are left out.                  *)
(***************************************************************************)
EXTENDS Naturals, Sequences, SequencesExt

CONSTANTS
  Hooks,        \* threads that run the packet hooks
  Users,        \* tasks that change settings: console, web server
  Lengths,      \* lengths of packets, in parts
  Snaplens,     \* values of pcap_snaplen the users set, in parts
  Size,         \* PCAP_RINGBUF_SIZE, in parts
  MaxRead,      \* PCAP_SEND_BUF_SIZE, in parts
  MaxPackets,   \* bound on the packets that are captured
  MaxEdits      \* bound on the settings the users make

ASSUME StreamAssumption ==
  /\ Lengths \subseteq Nat \ {0} /\ Snaplens \subseteq Nat \ {0} /\ Snaplens # {}
  /\ Size \in Nat \ {0} /\ MaxRead \in Nat \ {0}
  /\ MaxPackets \in Nat /\ MaxEdits \in Nat

Server == "pcap_server"
Nobody == "nobody"
ASSUME TaskAssumption == {Server, Nobody} \cap (Hooks \cup Users) = {} /\ Hooks \cap Users = {}

Tasks == Hooks \cup Users \cup {Server}
Modes == {"OFF", "ACL_MONITOR", "PROMISCUOUS"}

VARIABLES
  pc,                \* where each task stands
  capture_mode,
  client_connected,
  pcap_snaplen,
  allocated,         \* ringbuf_data # NULL
  queue,             \* the parts in the ring
  mutex,             \* holder of ringbuf_mutex
  data_ready_sem,    \* has the binary semaphore been given?
  pkt_buf,           \* the record a hook has built
  mode_change,       \* old_mode and mode of pcap_set_mode
  send_buf,          \* what the server has read and not sent
  last_sent,         \* the last part the client got
  \* history, for the properties
  packets, edits,    \* what the bounds count
  cut,               \* a reset has thrown away the rest of a record being sent
  fresh              \* the semaphore was given since the server drained it

shared == <<capture_mode, client_connected, pcap_snaplen>>
ring == <<allocated, queue, mutex, data_ready_sem>>
locals == <<pkt_buf, mode_change, send_buf, last_sent>>
history == <<packets, edits, cut, fresh>>
vars == <<pc, shared, ring, locals, history>>

Record(len) == [k \in 1 .. len |-> [len |-> len, k |-> k]]
Whole == [len |-> 0, k |-> 0]   \* nothing sent yet: the next part starts a record

Goto(t, l) == pc' = [pc EXCEPT ![t] = l]

\* xSemaphoreTake(ringbuf_mutex, portMAX_DELAY)
Lock(t) == mutex = Nobody /\ mutex' = t
Unlock == mutex' = Nobody

pcap_should_capture(is_acl_monitored, is_ap_interface) ==
  /\ client_connected
  /\ \/ capture_mode = "ACL_MONITOR" /\ is_acl_monitored
     \/ capture_mode = "PROMISCUOUS" /\ is_ap_interface

\* The last part the client has been sent, or the server has read for it.
LastOut == IF send_buf = <<>> THEN last_sent ELSE Last(send_buf)

Streaming == pc[Server] \in {"read", "read_lock", "copy_out", "send", "poll"}
-----------------------------------------------------------------------------
Init ==
  /\ pc = [t \in Tasks |-> IF t = Server THEN "accept" ELSE "idle"]
  /\ capture_mode = "OFF" /\ client_connected = FALSE
  /\ pcap_snaplen \in Snaplens
  /\ allocated = FALSE /\ queue = <<>> /\ mutex = Nobody /\ data_ready_sem = FALSE
  /\ pkt_buf = [h \in Hooks |-> <<>>]
  /\ mode_change = [u \in Users |-> [old |-> "OFF", new |-> "OFF"]]
  /\ send_buf = <<>> /\ last_sent = Whole
  /\ packets = 0 /\ edits = 0 /\ cut = FALSE /\ fresh = FALSE

(* A packet hook *)

\* A packet arrives that is to be captured.
HookPacket(h) ==
  /\ pc[h] = "idle" /\ packets < MaxPackets
  /\ \E monitored, ap \in BOOLEAN : pcap_should_capture(monitored, ap)
  /\ packets' = packets + 1
  /\ Goto(h, "build")
  /\ UNCHANGED <<shared, ring, locals, edits, cut, fresh>>

\* pcap_capture_packet up to ringbuf_write.
BuildRecord(h) ==
  /\ pc[h] = "build"
  /\ \/ ~client_connected /\ Goto(h, "idle") /\ UNCHANGED pkt_buf
     \/ /\ client_connected /\ Goto(h, "write")
        /\ \E tot_len \in Lengths :
             pkt_buf' = [pkt_buf EXCEPT ![h] =
                           Record(IF tot_len > pcap_snaplen THEN pcap_snaplen ELSE tot_len)]
  /\ UNCHANGED <<shared, ring, mode_change, send_buf, last_sent, history>>

\* The hook returns without the record.
Discard(h) == Goto(h, "idle") /\ pkt_buf' = [pkt_buf EXCEPT ![h] = <<>>]

\* ringbuf_write looks for the buffer before it has the mutex ...
WriteCheck(h) ==
  /\ pc[h] = "write"
  /\ \/ allocated /\ Goto(h, "try_lock") /\ UNCHANGED pkt_buf
     \/ ~allocated /\ Discard(h)
  /\ UNCHANGED <<shared, ring, mode_change, send_buf, last_sent, history>>

\* ... does not wait for the mutex ...
WriteTryLock(h) ==
  /\ pc[h] = "try_lock"
  /\ \/ mutex # Nobody /\ Discard(h) /\ UNCHANGED mutex
     \/ Lock(h) /\ Goto(h, "locked") /\ UNCHANGED pkt_buf
  /\ UNCHANGED <<shared, allocated, queue, data_ready_sem,
                 mode_change, send_buf, last_sent, history>>

\* A fault: the buffer is not looked at again under the mutex.
WriteRecheck_NoBufferCheck(h) ==
  /\ pc[h] = "locked"
  /\ \/ /\ Len(pkt_buf[h]) <= Size - Len(queue)
        /\ Goto(h, "copy_in") /\ UNCHANGED <<mutex, pkt_buf>>
     \/ /\ Len(pkt_buf[h]) > Size - Len(queue)
        /\ Discard(h) /\ Unlock
  /\ UNCHANGED <<shared, allocated, queue, data_ready_sem,
                 mode_change, send_buf, last_sent, history>>

\* ... looks again for the buffer, and for room ...
WriteRecheck(h) ==
  /\ pc[h] = "locked"
  /\ \/ /\ allocated /\ Len(pkt_buf[h]) <= Size - Len(queue)
        /\ Goto(h, "copy_in") /\ UNCHANGED <<mutex, pkt_buf>>
     \/ /\ ~allocated \/ Len(pkt_buf[h]) > Size - Len(queue)
        /\ Discard(h) /\ Unlock
  /\ UNCHANGED <<shared, allocated, queue, data_ready_sem,
                 mode_change, send_buf, last_sent, history>>

\* ... copies the record in and releases the mutex ...
WriteCopy(h) ==
  /\ pc[h] = "copy_in"
  /\ queue' = queue \o pkt_buf[h]
  /\ Unlock
  /\ pkt_buf' = [pkt_buf EXCEPT ![h] = <<>>]
  /\ Goto(h, "signal")
  /\ UNCHANGED <<shared, allocated, data_ready_sem,
                 mode_change, send_buf, last_sent, history>>

\* ... and only then gives the semaphore.
WriteSignal(h) ==
  /\ pc[h] = "signal"
  /\ data_ready_sem' = TRUE
  /\ fresh' = TRUE
  /\ Goto(h, "idle")
  /\ UNCHANGED <<shared, allocated, queue, mutex, locals, packets, edits, cut>>

Hook(h) ==
  \/ BuildRecord(h) \/ WriteCheck(h) \/ WriteTryLock(h) \/ WriteRecheck(h)
  \/ WriteCopy(h) \/ WriteSignal(h)
-----------------------------------------------------------------------------
(* The server task *)

Accept ==
  /\ pc[Server] = "accept"
  /\ client_connected' = TRUE
  /\ Goto(Server, "alloc_lock")
  /\ UNCHANGED <<capture_mode, pcap_snaplen, ring, locals, history>>

AllocLock ==
  /\ pc[Server] = "alloc_lock" /\ Lock(Server)
  /\ Goto(Server, "alloc")
  /\ UNCHANGED <<shared, allocated, queue, data_ready_sem, locals, history>>

\* ringbuf_alloc; malloc may fail.
Alloc ==
  /\ pc[Server] = "alloc" /\ Unlock
  /\ \/ allocated /\ Goto(Server, "header") /\ UNCHANGED <<allocated, queue>>
     \/ /\ ~allocated /\ Goto(Server, "drain")
        /\ allocated' = TRUE /\ queue' = <<>>
     \/ ~allocated /\ Goto(Server, "disconnect") /\ UNCHANGED <<allocated, queue>>
  /\ UNCHANGED <<shared, data_ready_sem, locals, history>>

\* The mutex is free again when ringbuf_alloc drains the semaphore.
Drain ==
  /\ pc[Server] = "drain"
  /\ data_ready_sem' = FALSE
  /\ fresh' = FALSE
  /\ Goto(Server, "header")
  /\ UNCHANGED <<shared, allocated, queue, mutex, locals, packets, edits, cut>>

\* The global header; sending it may fail.
SendHeader ==
  /\ pc[Server] = "header"
  /\ last_sent' = Whole /\ cut' = FALSE
  /\ \/ Goto(Server, "read") \/ Goto(Server, "disconnect")
  /\ UNCHANGED <<shared, ring, pkt_buf, mode_change, send_buf, packets, edits, fresh>>

\* ringbuf_read waits for the semaphore, at most 100 ms.
ReadWait ==
  /\ pc[Server] = "read"
  /\ \/ allocated /\ data_ready_sem /\ Goto(Server, "read_lock")
     \/ (~allocated \/ ~data_ready_sem) /\ Goto(Server, "poll")
  /\ data_ready_sem' = (data_ready_sem /\ ~allocated)
  /\ UNCHANGED <<shared, allocated, queue, mutex, locals, history>>

ReadLock ==
  /\ pc[Server] = "read_lock" /\ Lock(Server)
  /\ Goto(Server, "copy_out")
  /\ UNCHANGED <<shared, allocated, queue, data_ready_sem, locals, history>>

\* A fault: what is left in the ring is not signalled again.
CopyOut_NoSignal ==
  LET to_read == IF MaxRead < Len(queue) THEN MaxRead ELSE Len(queue)
  IN  /\ pc[Server] = "copy_out" /\ Unlock
      /\ send_buf' = SubSeq(queue, 1, to_read)
      /\ queue' = SubSeq(queue, to_read + 1, Len(queue))
      /\ Goto(Server, IF allocated /\ to_read > 0 THEN "send" ELSE "poll")
      /\ UNCHANGED <<shared, allocated, data_ready_sem, pkt_buf, mode_change,
                     last_sent, history>>

\* The rest of ringbuf_read.  A reset may have left nothing to read.
CopyOut ==
  LET to_read == IF MaxRead < Len(queue) THEN MaxRead ELSE Len(queue)
  IN  /\ pc[Server] = "copy_out" /\ Unlock
      /\ send_buf' = SubSeq(queue, 1, to_read)
      /\ queue' = SubSeq(queue, to_read + 1, Len(queue))
      /\ data_ready_sem' = (data_ready_sem \/ to_read < Len(queue))
      /\ Goto(Server, IF allocated /\ to_read > 0 THEN "send" ELSE "poll")
      /\ UNCHANGED <<shared, allocated, pkt_buf, mode_change, last_sent, history>>

\* send_to_client; a failure ends the session.
Send ==
  /\ pc[Server] = "send"
  /\ last_sent' = Last(send_buf) /\ send_buf' = <<>>
  /\ \/ Goto(Server, "read") \/ Goto(Server, "disconnect")
  /\ UNCHANGED <<shared, ring, pkt_buf, mode_change, history>>

\* Nothing was read: the socket shows whether the client is still there.
Poll ==
  /\ pc[Server] = "poll"
  /\ \/ Goto(Server, "read") \/ Goto(Server, "disconnect")
  /\ UNCHANGED <<shared, ring, locals, history>>

\* A fault: the next client is accepted without freeing the buffer.
Disconnect_KeepsBuffer ==
  /\ pc[Server] = "disconnect"
  /\ client_connected' = FALSE
  /\ Goto(Server, "accept")
  /\ UNCHANGED <<capture_mode, pcap_snaplen, ring, locals, history>>

Disconnect ==
  /\ pc[Server] = "disconnect"
  /\ client_connected' = FALSE
  /\ Goto(Server, "free_lock")
  /\ UNCHANGED <<capture_mode, pcap_snaplen, ring, locals, history>>

FreeLock ==
  /\ pc[Server] = "free_lock" /\ Lock(Server)
  /\ Goto(Server, "free")
  /\ UNCHANGED <<shared, allocated, queue, data_ready_sem, locals, history>>

\* ringbuf_free
Free ==
  /\ pc[Server] = "free" /\ Unlock
  /\ allocated' = FALSE /\ queue' = <<>>
  /\ Goto(Server, "accept")
  /\ UNCHANGED <<shared, data_ready_sem, locals, history>>

ServerStep ==
  \/ Accept \/ AllocLock \/ Alloc \/ Drain \/ SendHeader
  \/ ReadWait \/ ReadLock \/ CopyOut \/ Send \/ Poll
  \/ Disconnect \/ FreeLock \/ Free
-----------------------------------------------------------------------------
(* The console and the web server *)

\* pcap_set_mode, with the server task already started: it reads the old mode ...
SetMode(u, mode) ==
  /\ pc[u] = "idle" /\ edits < MaxEdits
  /\ edits' = edits + 1
  /\ mode_change' = [mode_change EXCEPT ![u] = [old |-> capture_mode, new |-> mode]]
  /\ Goto(u, "assign")
  /\ UNCHANGED <<shared, ring, pkt_buf, send_buf, last_sent,
                 packets, cut, fresh>>

\* ... and sets the new one.
AssignMode(u) ==
  /\ pc[u] = "assign"
  /\ capture_mode' = mode_change[u].new
  /\ Goto(u, IF mode_change[u].old = "OFF" /\ mode_change[u].new # "OFF" THEN "reset_lock" ELSE "idle")
  /\ UNCHANGED <<client_connected, pcap_snaplen, ring, locals, history>>

ResetLock(u) ==
  /\ pc[u] = "reset_lock" /\ Lock(u)
  /\ Goto(u, "reset")
  /\ UNCHANGED <<shared, allocated, queue, data_ready_sem, locals, history>>

\* ringbuf_reset, whether or not a client is being served.
Reset(u) ==
  /\ pc[u] = "reset" /\ Unlock
  /\ queue' = <<>>
  /\ cut' = (cut \/ (Streaming /\ LastOut.k < LastOut.len))
  /\ Goto(u, "idle")
  /\ UNCHANGED <<shared, allocated, data_ready_sem, locals, packets, edits, fresh>>

pcap_set_snaplen(u, snaplen) ==
  /\ pc[u] = "idle" /\ edits < MaxEdits
  /\ edits' = edits + 1
  /\ pcap_snaplen' = snaplen
  /\ UNCHANGED <<pc, capture_mode, client_connected, ring, locals,
                 packets, cut, fresh>>

\* pcap_get_buffer_usage holds the mutex for a moment: "pcap status" makes the
\* hooks drop packets.
UsageLock(u) ==
  /\ pc[u] = "idle" /\ edits < MaxEdits /\ Lock(u)
  /\ edits' = edits + 1
  /\ Goto(u, "usage")
  /\ UNCHANGED <<shared, allocated, queue, data_ready_sem, locals, packets, cut, fresh>>

UsageUnlock(u) ==
  /\ pc[u] = "usage" /\ Unlock
  /\ Goto(u, "idle")
  /\ UNCHANGED <<shared, allocated, queue, data_ready_sem, locals, history>>

UserStep(u) == AssignMode(u) \/ ResetLock(u) \/ Reset(u) \/ UsageUnlock(u)

Next ==
  \/ ServerStep
  \/ \E h \in Hooks : HookPacket(h) \/ Hook(h)
  \/ \E u \in Users : \/ UserStep(u) \/ UsageLock(u)
                      \/ \E mode \in Modes : SetMode(u, mode)
                      \/ \E snaplen \in Snaplens : pcap_set_snaplen(u, snaplen)

Spec == Init /\ [][Next]_vars

\* Every task that has something to do gets to do it; nobody has to send a packet,
\* to connect, or to change a setting.
FairSpec ==
  /\ Spec
  /\ WF_vars(ServerStep /\ pc[Server] # "accept")
  /\ \A h \in Hooks : WF_vars(Hook(h))
  /\ \A u \in Users : WF_vars(UserStep(u))
-----------------------------------------------------------------------------
TypeOK ==
  /\ pc \in [Tasks -> STRING]
  /\ capture_mode \in Modes /\ client_connected \in BOOLEAN /\ pcap_snaplen \in Snaplens
  /\ allocated \in BOOLEAN /\ Len(queue) \in 0 .. Size
  /\ mutex \in Tasks \cup {Nobody} /\ data_ready_sem \in BOOLEAN
  /\ Len(send_buf) <= MaxRead
  /\ packets \in 0 .. MaxPackets /\ edits \in 0 .. MaxEdits
  /\ cut \in BOOLEAN /\ fresh \in BOOLEAN

\* Nobody copies into or out of a buffer that has been freed, although a client
\* may leave while a hook is anywhere inside ringbuf_write (pcap_ringbuf.c:90-93).
NoUseAfterFree ==
  /\ \A h \in Hooks : pc[h] = "copy_in" => allocated
  /\ (pc[Server] = "copy_out" /\ queue # <<>>) => allocated

\* One part after the other, record after record.
Chained(parts) ==
  \A i \in 1 .. Len(parts) - 1 :
    IF parts[i].k = parts[i].len
    THEN parts[i + 1].k = 1
    ELSE parts[i + 1] = [parts[i] EXCEPT !.k = @ + 1]

\* What a client gets is whole records, back to back from the first byte after
\* the header, however the records were cut into reads, whatever was dropped and
\* whatever an earlier client left unread; only enabling capture during the
\* session can break it.
StreamFramed ==
  (Streaming /\ ~cut) => Chained(<<last_sent>> \o send_buf \o queue)

\* What was captured is sent, or goes with the session, without any more packets.
CapturedIsSent == (Streaming /\ fresh /\ queue # <<>>) ~> queue = <<>>
=============================================================================
