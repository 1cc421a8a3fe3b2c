------------------------------ MODULE W5500Mac ------------------------------
(***************************************************************************)
(* The W5500 Ethernet driver (esp_eth_mac_w5500.c, esp_eth_phy_w5500.c):   *)
(* the lwIP thread that transmits, the driver's task that receives and     *)
(* drains the transmit queue, the link poll of the PHY, a console that     *)
(* reopens the socket, and the chip with its interrupt line, its power     *)
(* glitches and its cable.                                                 *)
(*                                                                         *)
(* The semaphore tx_idle_sem is meant to be held from the moment a frame   *)
(* is prepared until the chip has raised SIR_SEND for it.  Short frames    *)
(* are written by the lwIP thread itself, others copied into a buffer of   *)
(* the pool and written by the task.  An SPI transfer is one step.         *)
(***************************************************************************)
EXTENDS Naturals, Sequences, SequencesExt, FiniteSets

CONSTANTS
  Buffers,      \* the transmit buffers of the pool: W5500_TX_QUEUE_DEPTH of them
  MaxFrames,    \* bound: frames the stack transmits
  RxRoom,       \* frames that fit into the chip's receive buffer
  Debounce,     \* W5500_LINK_DOWN_DEBOUNCE
  MaxFaults     \* bound: power glitches, pulled cables and resets from the console

NoBuffer == "no buffer"

ASSUME W5500Assumption ==
  /\ IsFiniteSet(Buffers) /\ Buffers # {} /\ NoBuffer \notin Buffers
  /\ {MaxFrames, RxRoom, Debounce, MaxFaults} \subseteq Nat

Nothing == [buf |-> NoBuffer, frame |-> 0]

VARIABLES
  pc,         \* where the lwIP thread and the driver's task are
  stage,      \* how far an actor is in w5500_reopen_socket or mac->start
  frame,      \* the frame the lwIP thread transmits: they are numbered
  next,       \* tx_frame, the entry the task took from the queue
  pool,       \* tx_pool
  queue,      \* tx_queue: a sequence of [buf, frame]
  active,     \* tx_active_buf
  sem,        \* the count of tx_idle_sem
  late,       \* the clock is more than W5500_TX_DONE_TMO_MS past tx_start_us
  notified,   \* the task's notification
  remain,     \* packets_remain
  chip,       \* the chip, see Chip
  link,       \* the PHY: [cable, up, downs]: the cable, link_status, link_down_count
  sent,       \* history: the frame handed to the chip last
  early,      \* history: a time-out was declared while nothing was overdue
  faults      \* what is left of MaxFaults

vars == <<pc, stage, frame, next, pool, queue, active, sem, late, notified,
          remain, chip, link, sent, early, faults>>

Actors == {"lwip", "task", "link", "console"}

\* power: out of hardware reset; raw: the registers are set up (SOCK_MR and the
\* interrupt mask of the socket); open: SOCK_SR is MACRAW; irq: SIMR lets SOCK0
\* interrupt; sending: frames under SEND; ir: SOCK_IR; rx: frames received.
Chip == [power : BOOLEAN, raw : BOOLEAN, open : BOOLEAN, irq : BOOLEAN,
         sending : Nat, ir : SUBSET {"SEND", "RECV"}, rx : 0 .. RxRoom]

Dead == [power |-> FALSE, raw |-> FALSE, open |-> FALSE, irq |-> FALSE,
         sending |-> 0, ir |-> {}, rx |-> 0]

\* emac_w5500_init: the chip is reset and its registers set up; the socket is closed.
Ready == [Dead EXCEPT !.power = TRUE, !.raw = TRUE]

\* The interrupt line is low.
Low(c) == c.power /\ c.raw /\ c.irq /\ c.ir # {}

\* The chip becomes c.  A falling edge runs w5500_isr_handler, which notifies the
\* task.
Becomes(c) ==
  /\ chip' = c
  /\ notified' = (notified \/ (Low(c) /\ ~Low(chip)))

Go(a, label) == pc' = [pc EXCEPT ![a] = label]

\* The lwIP thread has tx_idle_sem for a frame it has not written yet.
LwipHolds == pc["lwip"] \in {"check", "start", "verify", "write"}

Init ==
  /\ pc = [lwip |-> "idle", task |-> "wait"]
  /\ stage = [a \in Actors |-> "none"]
  /\ frame = 0 /\ next = Nothing
  /\ pool = Buffers /\ queue = <<>> /\ active = NoBuffer
  /\ sem = 1 /\ late = TRUE /\ notified = FALSE
  /\ remain = FALSE
  /\ chip = Ready
  /\ link = [cable |-> TRUE, up |-> FALSE, downs |-> 0]
  /\ sent = 0 /\ early = FALSE
  /\ faults = MaxFaults
-----------------------------------------------------------------------------
(* w5500_reopen_socket, in any actor: CLOSE, the default registers with    *)
(* the interrupt masked, then OPEN and the mask.  Writes to a chip in      *)
(* reset are lost.                                                         *)

\* w5500_setup_default: the registers, with the interrupt masked.
SetUp(c) == [c EXCEPT !.raw = c.power, !.irq = FALSE]

\* CLOSE, by which a frame under SEND is lost, and w5500_setup_default.
Close(a) ==
  /\ stage[a] = "close"
  /\ stage' = [stage EXCEPT ![a] = "open"]
  /\ Becomes(SetUp([chip EXCEPT !.open = FALSE, !.sending = 0]))
  /\ UNCHANGED <<pc, frame, next, pool, queue, active, sem, late, remain, link, sent,
                 early, faults>>

\* OPEN empties both buffers of the chip, and leaves SOCK_IR alone; then SIMR.
Opened(c) ==
  IF c.power THEN [c EXCEPT !.open = c.raw, !.irq = TRUE, !.sending = 0, !.rx = 0] ELSE c

Open(a) ==
  /\ stage[a] = "open"
  /\ stage' = [stage EXCEPT ![a] = "none"]
  /\ Becomes(Opened(chip))
  /\ UNCHANGED <<pc, frame, next, pool, queue, active, sem, late, remain, link, sent,
                 early, faults>>
-----------------------------------------------------------------------------
(* emac_w5500_transmit, in the lwIP thread *)

\* A short, aligned frame goes the short way if the semaphore is free.
Transmit(short) ==
  /\ pc["lwip"] = "idle"
  /\ frame < MaxFrames
  /\ frame' = frame + 1
  /\ IF short /\ sem = 1
     THEN sem' = 0 /\ Go("lwip", "check")
     ELSE Go("lwip", "pool") /\ UNCHANGED sem
  /\ UNCHANGED <<stage, next, pool, queue, active, late, notified, remain, chip, link,
                 sent, early, faults>>

\* A fault: the queue is not looked at.
Check_NoLook ==
  /\ pc["lwip"] = "check"
  /\ Go("lwip", "start")
  /\ UNCHANGED <<stage, frame, next, pool, queue, active, sem, late, notified, remain,
                 chip, link, sent, early, faults>>

\* Nothing may be queued ahead of it; otherwise the semaphore is given back and the
\* frame takes the long way.
Check ==
  /\ pc["lwip"] = "check"
  /\ IF queue = <<>>
     THEN Go("lwip", "start") /\ UNCHANGED sem
     ELSE Go("lwip", "pool") /\ sem' = 1
  /\ UNCHANGED <<stage, frame, next, pool, queue, active, late, notified, remain, chip,
                 link, sent, early, faults>>

\* A buffer of the pool is filled and queued, for which there is always room, and the
\* task notified; without a buffer in 2 ms the frame is dropped.
Enqueue ==
  /\ pc["lwip"] = "pool"
  /\ \/ \E b \in pool :
          /\ pool' = pool \ {b}
          /\ queue' = Append(queue, [buf |-> b, frame |-> frame])
          /\ notified' = TRUE
     \/ pool = {} /\ UNCHANGED <<pool, queue, notified>>
  /\ Go("lwip", "idle")
  /\ UNCHANGED <<stage, frame, next, active, sem, late, remain, chip, link, sent, early,
                 faults>>
-----------------------------------------------------------------------------
(* w5500_start_tx, in the lwIP thread or in the task *)

\* No room in the chip (a chip in reset reads as zero): reopen the socket.
CheckRoom(a) ==
  /\ pc[a] = "start" /\ stage[a] = "none"
  /\ IF chip.power
     THEN Go(a, "write") /\ UNCHANGED stage
     ELSE Go(a, "verify") /\ stage' = [stage EXCEPT ![a] = "close"]
  /\ UNCHANGED <<frame, next, pool, queue, active, sem, late, notified, remain, chip,
                 link, sent, early, faults>>

\* A frame that could not be started: the semaphore is given back.  The task drops
\* the frame and returns its buffer; the lwIP thread queues it.
Verify(a) ==
  /\ pc[a] = "verify" /\ stage[a] = "none"
  /\ IF chip.open
     THEN Go(a, "write") /\ UNCHANGED <<pool, sem, next>>
     ELSE /\ sem' = 1
          /\ Go(a, IF a = "lwip" THEN "pool" ELSE "wait")
          /\ pool' = IF a = "lwip" THEN pool ELSE pool \cup {next.buf}
          /\ next' = IF a = "lwip" THEN next ELSE Nothing
  /\ UNCHANGED <<stage, frame, queue, active, late, notified, remain, chip, link, sent,
                 early, faults>>

\* The chip accepts SEND only on an open socket; otherwise it never answers.
Sent(c) == IF c.open THEN [c EXCEPT !.sending = @ + 1] ELSE c

\* The frame and SEND are written.  The lwIP thread sets tx_start_us only when
\* w5500_start_tx has returned.
LwipWrite ==
  /\ pc["lwip"] = "write"
  /\ Becomes(Sent(chip))
  /\ sent' = frame
  /\ Go("lwip", "stamp")
  /\ UNCHANGED <<stage, frame, next, pool, queue, active, sem, late, remain, link,
                 early, faults>>

LwipStamp ==
  /\ pc["lwip"] = "stamp"
  /\ late' = FALSE
  /\ Go("lwip", "idle")
  /\ UNCHANGED <<stage, frame, next, pool, queue, active, sem, notified, remain, chip,
                 link, sent, early, faults>>

TaskWrite ==
  /\ pc["task"] = "write"
  /\ Becomes(Sent(chip))
  /\ sent' = next.frame
  /\ active' = next.buf
  /\ next' = Nothing
  /\ late' = FALSE
  /\ Go("task", "wait")
  /\ UNCHANGED <<stage, frame, pool, queue, sem, remain, link, early, faults>>
-----------------------------------------------------------------------------
(* emac_w5500_task *)

\* Woken by a notification, or by the clock after a second.  The chip is looked at
\* when there was a notification or the interrupt line is low; if SOCK_MR has not the
\* value of the set-up, the chip was reset, and the socket is reopened first.
Wake ==
  /\ pc["task"] = "wait"
  /\ notified' = FALSE
  /\ IF notified \/ Low(chip)
     THEN /\ Go("task", "ir")
          /\ stage' = [stage EXCEPT !["task"] = IF chip.raw THEN "none" ELSE "close"]
     ELSE Go("task", "timeout") /\ UNCHANGED stage
  /\ UNCHANGED <<frame, next, pool, queue, active, sem, late, remain, chip, link, sent,
                 early, faults>>

\* The buffer of a queued frame goes back to the pool.
Returned == IF active = NoBuffer THEN pool ELSE pool \cup {active}

\* A fault: the buffer is returned but not forgotten.
ReadIr_KeepsActive ==
  /\ pc["task"] = "ir" /\ stage["task"] = "none"
  /\ Go("task", IF "RECV" \in chip.ir THEN "recv" ELSE "timeout")
  /\ IF "SEND" \in chip.ir
     THEN Becomes([chip EXCEPT !.ir = @ \ {"SEND"}]) /\ pool' = Returned /\ sem' = 1
     ELSE UNCHANGED <<chip, notified, pool, sem>>
  /\ UNCHANGED <<stage, frame, next, queue, active, late, remain, link, sent, early,
                 faults>>

\* SOCK_IR is read once.  SIR_SEND is handled first: it is cleared, the frame has
\* left, and the next one may be started.
ReadIr ==
  /\ pc["task"] = "ir" /\ stage["task"] = "none"
  /\ Go("task", IF "RECV" \in chip.ir THEN "recv" ELSE "timeout")
  /\ IF "SEND" \in chip.ir
     THEN /\ Becomes([chip EXCEPT !.ir = @ \ {"SEND"}])
          /\ pool' = Returned /\ active' = NoBuffer /\ sem' = 1
     ELSE UNCHANGED <<chip, notified, pool, active, sem>>
  /\ UNCHANGED <<stage, frame, next, queue, late, remain, link, sent, early, faults>>

\* Then SIR_RECV.
RecvDone ==
  /\ pc["task"] = "recv"
  /\ Becomes([chip EXCEPT !.ir = @ \ {"RECV"}])
  /\ Go("task", "drain")
  /\ UNCHANGED <<stage, frame, next, pool, queue, active, sem, late, remain, link, sent,
                 early, faults>>

\* emac_w5500_alloc_recv_buf finds a frame; emac_w5500_receive takes it, or for want
\* of memory emac_w5500_flush_recv_frame.
Readable(c) == c.rx > 0
Received(c) == [c EXCEPT !.rx = @ - 1]

\* One frame is read, or discarded for want of memory.  packets_remain says
\* whether there was more than that frame; an empty chip leaves it as it was.
Drain ==
  /\ pc["task"] = "drain"
  /\ IF Readable(chip)
     THEN chip' = Received(chip) /\ remain' = (chip.rx > 1)
     ELSE UNCHANGED <<chip, remain>>
  /\ Go("task", IF remain' THEN "drain" ELSE "timeout")
  /\ UNCHANGED <<stage, frame, next, pool, queue, active, sem, late, notified, link,
                 sent, early, faults>>

\* SIR_SEND is overdue: the semaphore is taken, and 10 ms have passed since the
\* last SEND was issued.  That is so as well while the lwIP thread prepares a frame
\* and when SIR_SEND came after SOCK_IR was read.
Overdue == sem = 0 /\ late
Mistaken == LwipHolds \/ chip.sending > 0 \/ "SEND" \in chip.ir

TxTimeout ==
  /\ pc["task"] = "timeout"
  /\ IF Overdue
     THEN /\ Go("task", "recover") /\ stage' = [stage EXCEPT !["task"] = "close"]
          /\ early' = (early \/ Mistaken)
     ELSE Go("task", "next") /\ UNCHANGED <<stage, early>>
  /\ UNCHANGED <<frame, next, pool, queue, active, sem, late, notified, remain, chip,
                 link, sent, faults>>

\* A fault: the semaphore is not given.
Recover_KeepsSem ==
  /\ pc["task"] = "recover" /\ stage["task"] = "none"
  /\ pool' = Returned /\ active' = NoBuffer
  /\ Go("task", "next")
  /\ UNCHANGED <<stage, frame, next, queue, sem, late, notified, remain, chip, link,
                 sent, early, faults>>

\* After the socket was reopened.
Recover ==
  /\ pc["task"] = "recover" /\ stage["task"] = "none"
  /\ pool' = Returned /\ active' = NoBuffer /\ sem' = 1
  /\ Go("task", "next")
  /\ UNCHANGED <<stage, frame, next, queue, late, notified, remain, chip, link, sent,
                 early, faults>>

\* A fault: the semaphore is not looked at.
StartNext_Anyway ==
  /\ pc["task"] = "next"
  /\ IF queue # <<>>
     THEN sem' = 0 /\ next' = Head(queue) /\ queue' = Tail(queue) /\ Go("task", "start")
     ELSE Go("task", "wait") /\ UNCHANGED <<sem, next, queue>>
  /\ UNCHANGED <<stage, frame, pool, active, late, notified, remain, chip, link, sent,
                 early, faults>>

\* The head of the queue is started if the semaphore is free; it is given back at
\* once when nothing is queued.
StartNext ==
  /\ pc["task"] = "next"
  /\ IF sem = 1 /\ queue # <<>>
     THEN sem' = 0 /\ next' = Head(queue) /\ queue' = Tail(queue) /\ Go("task", "start")
     ELSE Go("task", "wait") /\ UNCHANGED <<sem, next, queue>>
  /\ UNCHANGED <<stage, frame, pool, active, late, notified, remain, chip, link, sent,
                 early, faults>>
-----------------------------------------------------------------------------
(* The PHY's link poll, which starts and stops the MAC, and the console *)

\* The link bit of PHYCFGR.
Linked == chip.power /\ link.cable

\* emac_w5500_stop: the interrupt is masked, the socket closed.
Stopped(c) == [c EXCEPT !.irq = FALSE, !.open = FALSE, !.sending = 0]

\* w5500_update_link_duplex_speed: a link that is up is reported at once, a link
\* that is down after Debounce readings that were ignored.  The report runs
\* emac_w5500_set_link: emac_w5500_start sets the registers up, then opens the
\* socket and the interrupt; emac_w5500_stop masks the interrupt and closes.
PollLink ==
  /\ stage["link"] = "none"
  /\ \/ /\ Linked
        /\ link' = [link EXCEPT !.up = TRUE, !.downs = 0]
        /\ IF link.up
           THEN UNCHANGED <<stage, chip, notified>>
           ELSE /\ Becomes(SetUp(chip))
                /\ stage' = [stage EXCEPT !["link"] = "open"]
     \/ /\ ~Linked
        /\ UNCHANGED stage
        /\ IF link.downs < Debounce
           THEN link' = [link EXCEPT !.downs = @ + 1] /\ UNCHANGED <<chip, notified>>
           ELSE /\ link' = [link EXCEPT !.up = FALSE]
                /\ IF link.up
                   THEN Becomes(Stopped(chip))
                   ELSE UNCHANGED <<chip, notified>>
  /\ UNCHANGED <<pc, frame, next, pool, queue, active, sem, late, remain, sent, early,
                 faults>>

\* w5500_reset_socket, from the command `eth reset'.
w5500_reset_socket ==
  /\ stage["console"] = "none" /\ faults > 0
  /\ stage' = [stage EXCEPT !["console"] = "close"]
  /\ faults' = faults - 1
  /\ UNCHANGED <<pc, frame, next, pool, queue, active, sem, late, notified, remain,
                 chip, link, sent, early>>
-----------------------------------------------------------------------------
(* The chip, the clock and the network *)

\* A frame has left: SIR_SEND.
ChipSends ==
  /\ chip.sending > 0 /\ link.cable
  /\ Becomes([chip EXCEPT !.sending = @ - 1, !.ir = @ \cup {"SEND"}])
  /\ UNCHANGED <<pc, stage, frame, next, pool, queue, active, sem, late, remain, link,
                 sent, early, faults>>

Arrive ==
  /\ chip.open /\ link.cable /\ chip.rx < RxRoom
  /\ Becomes([chip EXCEPT !.rx = @ + 1, !.ir = @ \cup {"RECV"}])
  /\ UNCHANGED <<pc, stage, frame, next, pool, queue, active, sem, late, remain, link,
                 sent, early, faults>>

\* 10 ms pass, which is far more than the chip needs for a frame.
Tick ==
  /\ ~late
  /\ chip.sending = 0 \/ ~link.cable
  /\ late' = TRUE
  /\ UNCHANGED <<pc, stage, frame, next, pool, queue, active, sem, notified, remain,
                 chip, link, sent, early, faults>>

Glitch ==
  /\ chip.power /\ faults > 0
  /\ chip' = Dead
  /\ faults' = faults - 1
  /\ UNCHANGED <<pc, stage, frame, next, pool, queue, active, sem, late, notified,
                 remain, link, sent, early>>

\* The chip comes out of reset with the registers it has then.
PowerUp ==
  /\ ~chip.power
  /\ chip' = [chip EXCEPT !.power = TRUE]
  /\ UNCHANGED <<pc, stage, frame, next, pool, queue, active, sem, late, notified,
                 remain, link, sent, early, faults>>

Cable ==
  /\ link.cable => faults > 0
  /\ link' = [link EXCEPT !.cable = ~@]
  /\ faults' = IF link.cable THEN faults - 1 ELSE faults
  /\ UNCHANGED <<pc, stage, frame, next, pool, queue, active, sem, late, notified,
                 remain, chip, sent, early>>
-----------------------------------------------------------------------------
Reopen(a) == Close(a) \/ Open(a)

Lwip ==
  \/ Check \/ Enqueue
  \/ CheckRoom("lwip") \/ Verify("lwip") \/ LwipWrite \/ LwipStamp \/ Reopen("lwip")

Task ==
  \/ Wake \/ ReadIr \/ RecvDone \/ Drain \/ TxTimeout \/ Recover
  \/ StartNext \/ CheckRoom("task") \/ Verify("task") \/ TaskWrite \/ Reopen("task")

Link == PollLink \/ Open("link")

Next ==
  \/ \E short \in BOOLEAN : Transmit(short)
  \/ Lwip \/ Task \/ Link
  \/ w5500_reset_socket \/ Reopen("console")
  \/ ChipSends \/ Arrive \/ Tick \/ Glitch \/ PowerUp \/ Cable

Spec == Init /\ [][Next]_vars

\* The threads are scheduled, time passes, and a chip in reset comes out of it.
FairSpec ==
  /\ Spec
  /\ WF_vars(Lwip) /\ WF_vars(Task) /\ WF_vars(Link) /\ WF_vars(Reopen("console"))
  /\ WF_vars(ChipSends \/ Tick \/ PowerUp)
-----------------------------------------------------------------------------
TaskStarting == pc["task"] \in {"start", "verify", "write"}

TypeOK ==
  /\ pc["lwip"] \in {"idle", "check", "start", "verify", "write", "stamp", "pool"}
  /\ pc["task"] \in {"wait", "ir", "recv", "drain", "timeout", "recover",
                     "next", "start", "verify", "write"}
  /\ stage \in [Actors -> {"none", "close", "open"}]
  /\ pool \subseteq Buffers /\ {active, next.buf} \subseteq Buffers \cup {NoBuffer}
  /\ Len(queue) <= Cardinality(Buffers)
  /\ sem \in {0, 1} /\ {late, notified, remain, early} \subseteq BOOLEAN
  /\ chip \in Chip

\* A SEND is only issued after SIR_SEND has fired for the previous one (the comment
\* at w5500_issue_send, which leaves out reading the command back for it): at most
\* one frame is being prepared or under SEND, and the semaphore is taken while it
\* is.  Stated for as long as no time-out was declared for a frame that was still
\* being prepared or had already left, which the code does not rule out.
SendsSerialized ==
  ~early =>
    /\ ~(LwipHolds /\ TaskStarting)
    /\ chip.sending > 0 => ~LwipHolds /\ ~TaskStarting /\ "SEND" \notin chip.ir
    /\ chip.sending <= 1
    /\ LwipHolds \/ TaskStarting \/ chip.sending > 0 => sem = 0

\* Every buffer of the pool is in one place: in the pool, in the queue, in the task's
\* hands or in flight; none is there twice, and unless a time-out was mistaken, none
\* is lost.
Queued == {queue[i].buf : i \in DOMAIN queue}
BuffersKept ==
  /\ Cardinality(pool) + Len(queue) + Cardinality({next.buf, active} \ {NoBuffer})
       <= Cardinality(Buffers)
  /\ ~early => pool \cup Queued \cup ({next.buf, active} \ {NoBuffer}) = Buffers

\* Frames go out in the order the stack transmitted them, whichever way each took.
InOrder == [][sent' >= sent \/ early]_vars

\* The receive loop comes to an end again and again.  It need not: frames may arrive
\* faster than the loop reads them, and a chip emptied by a reset or a reopened socket
\* while packets_remain was set leaves it turning (see the README).
DrainEnds == []<>(pc["task"] # "drain")

\* What was queued leaves: whatever becomes of the chip and the cable, the task comes
\* back to the queue, with the semaphore free, as long as its receive loop ends.
QueueMoves == DrainEnds => \A b \in Buffers : b \in Queued ~> b \notin Queued
=============================================================================
