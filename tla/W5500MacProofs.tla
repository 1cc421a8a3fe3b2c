--------------------------- MODULE W5500MacProofs ---------------------------
(***************************************************************************)
(* Proofs about W5500Mac, for every pool of buffers, any number of frames  *)
(* and of faults: at most one frame is being prepared or under SEND, no    *)
(* buffer of the pool is lost or handed out twice, and frames go out in    *)
(* the order the stack transmitted them.                                   *)
(***************************************************************************)
EXTENDS W5500Mac, TLAPS, FiniteSetTheorems

Threads == {"lwip", "task"}
LwipLabels == {"idle", "check", "start", "verify", "write", "stamp", "pool"}
TaskLabels == {"wait", "ir", "recv", "drain", "timeout", "recover", "next", "start", "verify",
               "write"}
Frames == [buf : Buffers, frame : Nat]

Shapes ==
  /\ pc \in [Threads -> LwipLabels \cup TaskLabels]
  /\ pc["lwip"] \in LwipLabels /\ pc["task"] \in TaskLabels
  /\ chip \in Chip
  /\ sem \in {0, 1} /\ early \in BOOLEAN
  /\ pool \subseteq Buffers /\ queue \in Seq(Frames)
  /\ active \in Buffers \cup {NoBuffer}
  /\ IF TaskStarting THEN next \in Frames ELSE next = Nothing
  /\ frame \in Nat /\ sent \in Nat

\* Who may have tx_idle_sem, or is the reason that it is not given back: the lwIP
\* thread, the task, a frame under SEND, SIR_SEND.
UnderSend == chip.sending > 0
Raised == "SEND" \in chip.ir

\* One of them at a time, and then the semaphore is taken; when the task recovers from a
\* time-out, none of them, but the semaphore is taken still.
Serial ==
  /\ LwipHolds => ~TaskStarting /\ ~UnderSend /\ ~Raised
  /\ TaskStarting => ~UnderSend /\ ~Raised
  /\ UnderSend => ~Raised
  /\ chip.sending <= 1
  /\ LwipHolds \/ TaskStarting \/ UnderSend \/ Raised => sem = 0
  /\ pc["task"] = "recover" =>
       sem = 0 /\ ~LwipHolds /\ ~UnderSend /\ ~Raised

\* A buffer is in flight only while the semaphore is taken for it.
Flying == active # NoBuffer => sem = 0 /\ ~LwipHolds /\ ~TaskStarting

Ours == ~early => Serial /\ Flying

-----------------------------------------------------------------------------
(* The chip *)

\* What a step of the chip may do to a frame: nothing, lose it, or forget SIR_SEND.
Keeps(d) ==
  /\ d \in Chip
  /\ d.sending = chip.sending \/ d.sending = 0
  /\ "SEND" \in d.ir => Raised

LEMMA ChipSteps ==
  ASSUME chip \in Chip
  PROVE  /\ Keeps(SetUp([chip EXCEPT !.open = FALSE, !.sending = 0]))
         /\ Keeps(SetUp(chip)) /\ Keeps(Stopped(chip)) /\ Keeps(Opened(chip))
         /\ Keeps(Dead) /\ Keeps([chip EXCEPT !.power = TRUE])
         /\ Keeps([chip EXCEPT !.ir = @ \ {"RECV"}])
         /\ Readable(chip) => Keeps(Received(chip))
         /\ chip.rx < RxRoom => Keeps([chip EXCEPT !.rx = @ + 1, !.ir = @ \cup {"RECV"}])
<1>1. RxRoom \in Nat
  BY W5500Assumption
<1>2. Keeps(SetUp([chip EXCEPT !.open = FALSE, !.sending = 0]))
  BY DEF Keeps, SetUp, Chip, Raised
<1>3. Keeps(SetUp(chip)) /\ Keeps(Stopped(chip)) /\ Keeps([chip EXCEPT !.power = TRUE])
  BY DEF Keeps, SetUp, Stopped, Chip, Raised
<1>4. Keeps(Opened(chip))
  <2>1. CASE chip.power
    <3>1. 0 \in 0 .. RxRoom
      BY <1>1
    <3>2. [chip EXCEPT !.open = chip.raw, !.irq = TRUE, !.sending = 0, !.rx = 0] \in Chip
      BY <3>1 DEF Chip
    <3> QED BY <2>1, <3>2 DEF Opened, Keeps, Chip, Raised
  <2>2. CASE ~chip.power
    BY <2>2 DEF Opened, Keeps, Raised
  <2> QED BY <2>1, <2>2
<1>5. Keeps(Dead)
  BY <1>1 DEF Keeps, Dead, Chip, Raised
<1>6. Keeps([chip EXCEPT !.ir = @ \ {"RECV"}])
  BY DEF Keeps, Chip, Raised
<1>7. Readable(chip) => Keeps(Received(chip))
  BY <1>1 DEF Keeps, Readable, Received, Chip, Raised
<1>8. chip.rx < RxRoom => Keeps([chip EXCEPT !.rx = @ + 1, !.ir = @ \cup {"RECV"}])
  <2> SUFFICES ASSUME chip.rx < RxRoom
               PROVE  Keeps([chip EXCEPT !.rx = @ + 1, !.ir = @ \cup {"RECV"}])
    OBVIOUS
  <2>1. chip.rx + 1 \in 0 .. RxRoom
    BY <1>1 DEF Chip
  <2>2. [chip EXCEPT !.rx = @ + 1, !.ir = @ \cup {"RECV"}] \in Chip
    BY <2>1 DEF Chip
  <2> QED BY <2>2 DEF Keeps, Chip, Raised
<1> QED BY <1>2, <1>3, <1>4, <1>5, <1>6, <1>7, <1>8
-----------------------------------------------------------------------------
(* The steps *)

tx == <<frame, next, pool, queue, active, sem, sent, early>>

\* The labels at which the task has nothing to do with a frame.
Calm == {"wait", "ir", "recv", "drain", "timeout", "next"}

\* A step that does nothing for a frame, but may lose the one under SEND.
Quiet ==
  /\ UNCHANGED tx /\ Keeps(chip')
  /\ \/ UNCHANGED pc
     \/ \E l \in Calm : pc["task"] \in Calm /\ Go("task", l)

Transmits ==
  \/ \E short \in BOOLEAN : Transmit(short)
  \/ Check \/ Enqueue \/ CheckRoom("lwip") \/ Verify("lwip") \/ LwipWrite \/ LwipStamp
Starts ==
  \/ ReadIr \/ TxTimeout \/ Recover \/ StartNext
  \/ CheckRoom("task") \/ Verify("task") \/ TaskWrite

LEMMA QuietSteps ==
  ASSUME Shapes,
         \/ \E a \in {"lwip", "task", "link", "console"} : Reopen(a)
         \/ Wake \/ RecvDone \/ Drain
         \/ PollLink \/ w5500_reset_socket
         \/ Arrive \/ Tick \/ Glitch \/ PowerUp \/ Cable
         \/ UNCHANGED vars
  PROVE  Quiet
<1>0. chip \in Chip /\ Keeps(chip)
  BY DEF Shapes, Keeps, Raised
<1> USE DEF Becomes, tx
<1>1. CASE \E a \in {"lwip", "task", "link", "console"} : Reopen(a)
  BY <1>0, <1>1, ChipSteps DEF Reopen, Close, Open, Quiet
<1>2. CASE Wake
  BY <1>0, <1>2 DEF Wake, Quiet, Calm
<1>3. CASE RecvDone
  BY <1>0, <1>3, ChipSteps DEF RecvDone, Quiet, Calm
<1>4. CASE Drain
  BY <1>0, <1>4, ChipSteps DEF Drain, Quiet, Calm
<1>5. CASE PollLink
  BY <1>0, <1>5, ChipSteps DEF PollLink, Quiet
<1>6. CASE w5500_reset_socket \/ Tick \/ Cable
  BY <1>0, <1>6 DEF w5500_reset_socket, Tick, Cable, Quiet
<1>7. CASE Arrive
  BY <1>0, <1>7, ChipSteps DEF Arrive, Quiet
<1>8. CASE Glitch
  BY <1>0, <1>8, ChipSteps DEF Glitch, Quiet
<1>9. CASE PowerUp
  BY <1>0, <1>9, ChipSteps DEF PowerUp, Quiet
<1>10. CASE UNCHANGED vars
  BY <1>0, <1>10 DEF vars, Quiet
<1> QED BY <1>1, <1>2, <1>3, <1>4, <1>5, <1>6, <1>7, <1>8, <1>9, <1>10

LEMMA NextCases ==
  ASSUME Shapes, [Next]_vars
  PROVE  Quiet \/ ChipSends \/ Transmits \/ Starts
<1>1. CASE Lwip \/ \E short \in BOOLEAN : Transmit(short)
  BY <1>1, QuietSteps DEF Lwip, Transmits
<1>2. CASE Task
  BY <1>2, QuietSteps DEF Task, Starts
<1>3. CASE Link
  BY <1>3, QuietSteps DEF Link, Reopen
<1> QED BY <1>1, <1>2, <1>3, QuietSteps DEF Next

LEMMA SentType ==
  ASSUME chip \in Chip
  PROVE  /\ Sent(chip) \in Chip
         /\ Sent(chip).sending \in {chip.sending, chip.sending + 1}
         /\ Sent(chip).ir = chip.ir
BY DEF Sent, Chip
-----------------------------------------------------------------------------
(* Types *)

LEMMA InitShapes == Init => Shapes /\ Ours
<1> SUFFICES ASSUME Init PROVE Shapes /\ Ours
  OBVIOUS
<1>1. Dead \in Chip /\ Ready \in Chip
  <2>1. 0 \in 0 .. RxRoom
    BY W5500Assumption
  <2> QED BY <2>1 DEF Ready, Dead, Chip
<1>2. pc["lwip"] = "idle" /\ pc["task"] = "wait"
  BY DEF Init
<1>3. pc \in [Threads -> LwipLabels \cup TaskLabels]
  BY DEF Init, Threads, LwipLabels, TaskLabels
<1>4. Shapes
  <2>1. ~TaskStarting /\ <<>> \in Seq(Frames)
    BY <1>2 DEF TaskStarting
  <2> QED BY <1>1, <1>2, <1>3, <2>1 DEF Init, Shapes, LwipLabels, TaskLabels
<1>5. ~UnderSend /\ ~Raised
  BY DEF Init, UnderSend, Raised, Ready, Dead
<1>6. chip.sending = 0
  BY DEF Init, Ready, Dead
<1> QED BY <1>2, <1>4, <1>5, <1>6 DEF Ours, Serial, Flying, LwipHolds, TaskStarting, Init

LEMMA QuietShapes ==
  ASSUME Shapes, Quiet
  PROVE  Shapes' /\ TaskStarting' = TaskStarting
<1>1. chip' \in Chip
  BY DEF Quiet, Keeps
<1>2. CASE UNCHANGED pc
  BY <1>1, <1>2 DEF Shapes, Quiet, tx, TaskStarting
<1>3. ASSUME NEW l \in Calm, pc["task"] \in Calm, Go("task", l)
      PROVE  Shapes' /\ TaskStarting' = TaskStarting
  <2>1. /\ pc' \in [Threads -> LwipLabels \cup TaskLabels]
        /\ pc'["lwip"] = pc["lwip"] /\ pc'["task"] = l
    BY <1>3 DEF Shapes, Go, Calm, TaskLabels, Threads
  <2>2. ~TaskStarting /\ ~TaskStarting' /\ l \in TaskLabels
    BY <1>3, <2>1 DEF TaskStarting, Calm, TaskLabels
  <2> QED BY <1>1, <2>1, <2>2 DEF Shapes, Quiet, tx, TaskStarting
<1> QED BY <1>2, <1>3 DEF Quiet

LEMMA TransmitShapes ==
  ASSUME Shapes, Transmits
  PROVE  Shapes' /\ TaskStarting' = TaskStarting
<1> USE DEF Shapes, Go, Threads, LwipLabels
<1>1. /\ pc'["task"] = pc["task"] /\ pc' \in [Threads -> LwipLabels \cup TaskLabels]
      /\ pc'["lwip"] \in LwipLabels
  BY DEF Transmits, Transmit, Check, Enqueue, CheckRoom, Verify, LwipWrite, LwipStamp
<1>2. TaskStarting' = TaskStarting
  BY <1>1 DEF TaskStarting
<1>3. chip' \in Chip
  BY SentType DEF Transmits, Transmit, Check, Enqueue, CheckRoom, Verify, LwipWrite, LwipStamp,
     Becomes
<1>4. /\ sem' \in {0, 1} /\ early' = early /\ active' = active /\ next' = next
      /\ frame' \in Nat /\ sent' \in Nat
  BY DEF Transmits, Transmit, Check, Enqueue, CheckRoom, Verify, LwipWrite, LwipStamp
<1>5. pool' \subseteq Buffers /\ queue' \in Seq(Frames)
  <2>1. CASE Enqueue
    <3>1. ASSUME NEW b \in pool, queue' = Append(queue, [buf |-> b, frame |-> frame])
          PROVE  queue' \in Seq(Frames)
      <4>1. [buf |-> b, frame |-> frame] \in Frames
        BY DEF Frames
      <4> QED BY <3>1, <4>1
    <3> QED BY <2>1, <3>1 DEF Enqueue
  <2>2. CASE ~Enqueue
    BY <2>2 DEF Transmits, Transmit, Check, CheckRoom, Verify, LwipWrite, LwipStamp
  <2> QED BY <2>1, <2>2
<1> QED BY <1>1, <1>2, <1>3, <1>4, <1>5

LEMMA StartShapes ==
  ASSUME Shapes, Starts
  PROVE  Shapes' /\ pc'["lwip"] = pc["lwip"]
<1> USE DEF Shapes, Go, Threads, TaskLabels, Starts
<1>1. /\ pc'["lwip"] = pc["lwip"] /\ pc' \in [Threads -> LwipLabels \cup TaskLabels]
      /\ pc'["task"] \in TaskLabels
  BY DEF ReadIr, TxTimeout, Recover, StartNext, CheckRoom, Verify, TaskWrite
<1>2. chip' \in Chip
  <2>1. CASE ReadIr
    <3>1. [chip EXCEPT !.ir = @ \ {"SEND"}] \in Chip
      BY DEF Chip
    <3> QED BY <2>1, <3>1 DEF ReadIr, Becomes
  <2>2. CASE ~ReadIr
    BY <2>2, SentType DEF TxTimeout, Recover, StartNext, CheckRoom, Verify, TaskWrite, Becomes
  <2> QED BY <2>1, <2>2
<1>3. sem' \in {0, 1} /\ early' \in BOOLEAN /\ frame' = frame
  BY DEF ReadIr, TxTimeout, Recover, StartNext, CheckRoom, Verify, TaskWrite
<1>4. sent' \in Nat /\ active' \in Buffers \cup {NoBuffer} /\ pool' \subseteq Buffers
  BY DEF ReadIr, TxTimeout, Recover, StartNext, CheckRoom, Verify, TaskWrite, Returned, Frames,
     TaskStarting, Nothing
<1>5. queue' \in Seq(Frames)
  <2>1. queue # <<>> => Tail(queue) \in Seq(Frames)
    OBVIOUS
  <2> QED BY <2>1 DEF ReadIr, TxTimeout, Recover, StartNext, CheckRoom, Verify, TaskWrite
<1>6. IF TaskStarting' THEN next' \in Frames ELSE next' = Nothing
  <2>1. CASE StartNext
    <3>1. queue # <<>> => Head(queue) \in Frames
      OBVIOUS
    <3>2. ~TaskStarting
      BY <2>1 DEF StartNext, TaskStarting
    <3> QED BY <2>1, <3>1, <3>2 DEF StartNext, TaskStarting
  <2>2. CASE ~StartNext
    BY <2>2 DEF ReadIr, TxTimeout, Recover, CheckRoom, Verify, TaskWrite, TaskStarting
  <2> QED BY <2>1, <2>2
<1> QED BY <1>1, <1>2, <1>3, <1>4, <1>5, <1>6

LEMMA SendShapes ==
  ASSUME Shapes, ChipSends
  PROVE  Shapes' /\ UNCHANGED <<pc, tx>>
<1>1. [chip EXCEPT !.sending = @ - 1, !.ir = @ \cup {"SEND"}] \in Chip
  <2>1. chip.sending - 1 \in Nat
    BY DEF Shapes, Chip, ChipSends
  <2> QED BY <2>1 DEF Shapes, Chip
<1> QED BY <1>1 DEF ChipSends, Becomes, Shapes, tx, TaskStarting
-----------------------------------------------------------------------------
(* One frame at a time *)

\* What the chip does to the frame under SEND, for the steps that write to it.
LEMMA SentSends ==
  ASSUME chip \in Chip, chip.sending = 0, ~Raised, chip' = Sent(chip)
  PROVE  chip'.sending \in {0, 1} /\ ~Raised'
BY SentType DEF Raised

LEMMA QuietOurs ==
  ASSUME Shapes, Ours, Quiet
  PROVE  Ours'
<1> SUFFICES ASSUME ~early' PROVE Serial' /\ Flying'
  BY DEF Ours
<1>1. Serial /\ Flying /\ sem' = sem /\ active' = active
  BY DEF Ours, Quiet, tx
<1>2. /\ chip'.sending = chip.sending \/ chip'.sending = 0
      /\ chip.sending \in Nat
      /\ Raised' => Raised
  BY DEF Quiet, Keeps, Shapes, Chip, Raised
<1>3. /\ LwipHolds' = LwipHolds /\ TaskStarting' = TaskStarting
      /\ pc'["task"] = "recover" => pc["task"] = "recover"
  <2>1. CASE UNCHANGED pc
    BY <2>1 DEF LwipHolds, TaskStarting
  <2>2. ASSUME NEW l \in Calm, pc["task"] \in Calm, Go("task", l)
        PROVE  pc'["lwip"] = pc["lwip"] /\ pc'["task"] \in Calm
    BY <2>2 DEF Go, Shapes, Threads
  <2>3. CASE ~(UNCHANGED pc)
    BY <2>2, <2>3, QuietShapes DEF Quiet, LwipHolds, Calm
  <2> QED BY <2>1, <2>3
<1> QED BY <1>1, <1>2, <1>3 DEF Serial, Flying, UnderSend

LEMMA SendOurs ==
  ASSUME Shapes, Ours, ChipSends
  PROVE  Ours'
<1> SUFFICES ASSUME ~early' PROVE Serial' /\ Flying'
  BY DEF Ours
<1>1. Serial /\ Flying /\ UnderSend /\ UNCHANGED <<pc, sem, active>>
  BY DEF Ours, ChipSends, UnderSend
<1>2. chip.sending = 1
  BY <1>1 DEF Serial, UnderSend, Shapes, Chip
<1>3. chip'.sending = 0
  BY <1>2 DEF ChipSends, Becomes, Shapes, Chip
<1> QED BY <1>1, <1>3 DEF Serial, Flying, UnderSend, LwipHolds, TaskStarting

LEMMA TransmitOurs ==
  ASSUME Shapes, Ours, Transmits
  PROVE  Ours'
<1> SUFFICES ASSUME ~early' PROVE Serial' /\ Flying'
  BY DEF Ours
<1>1. Serial /\ Flying /\ active' = active /\ chip \in Chip /\ chip.sending \in Nat
  BY DEF Ours, Transmits, Transmit, Check, Enqueue, CheckRoom, Verify, LwipWrite, LwipStamp,
     Shapes, Chip
<1>2. TaskStarting' = TaskStarting /\ pc'["task"] = pc["task"]
  BY TransmitShapes DEF Transmits, Transmit, Check, Enqueue, CheckRoom, Verify, LwipWrite,
     LwipStamp, Go, Shapes, Threads
<1> USE DEF Go, Shapes, Threads
<1>3. ASSUME NEW short \in BOOLEAN, Transmit(short)
      PROVE  Serial' /\ Flying'
  <2>1. UNCHANGED chip /\ ~LwipHolds
    BY <1>3 DEF Transmit, LwipHolds
  <2>2. \/ sem = 1 /\ sem' = 0
        \/ sem' = sem /\ pc'["lwip"] = "pool"
    BY <1>3 DEF Transmit
  <2>3. sem = 1 => ~TaskStarting /\ ~UnderSend /\ ~Raised /\ active = NoBuffer
                   /\ pc["task"] # "recover"
    BY <1>1 DEF Serial, Flying
  <2>4. pc'["lwip"] = "pool" => ~LwipHolds'
    BY DEF LwipHolds
  <2> QED BY <1>1, <1>2, <2>1, <2>2, <2>3, <2>4 DEF Serial, Flying, UnderSend, Raised
<1>4. CASE Check
  <2>1. UNCHANGED chip /\ LwipHolds
    BY <1>4 DEF Check, LwipHolds
  <2>2. \/ UNCHANGED sem
        \/ pc'["lwip"] = "pool"
    BY <1>4 DEF Check
  <2>3. pc'["lwip"] = "pool" => ~LwipHolds'
    BY DEF LwipHolds
  <2> QED BY <1>1, <1>2, <2>1, <2>2, <2>3 DEF Serial, Flying, UnderSend, Raised
<1>5. CASE Enqueue \/ LwipStamp
  <2>1. UNCHANGED <<chip, sem>> /\ ~LwipHolds'
    BY <1>5 DEF Enqueue, LwipStamp, LwipHolds
  <2> QED BY <1>1, <1>2, <2>1 DEF Serial, Flying, UnderSend, Raised
<1>6. CASE CheckRoom("lwip")
  <2>1. UNCHANGED <<chip, sem>> /\ LwipHolds
    BY <1>6 DEF CheckRoom, LwipHolds
  <2> QED BY <1>1, <1>2, <2>1 DEF Serial, Flying, UnderSend, Raised
<1>7. CASE Verify("lwip")
  <2>1. UNCHANGED chip /\ LwipHolds
    BY <1>7 DEF Verify, LwipHolds
  <2>2. \/ UNCHANGED sem
        \/ pc'["lwip"] = "pool"
    BY <1>7 DEF Verify
  <2>3. pc'["lwip"] = "pool" => ~LwipHolds'
    BY DEF LwipHolds
  <2> QED BY <1>1, <1>2, <2>1, <2>2, <2>3 DEF Serial, Flying, UnderSend, Raised
<1>8. CASE LwipWrite
  <2>1. LwipHolds /\ ~LwipHolds' /\ UNCHANGED sem /\ chip' = Sent(chip)
    BY <1>8 DEF LwipWrite, LwipHolds, Becomes
  <2>2. chip.sending = 0 /\ ~Raised
    BY <1>1, <2>1 DEF Serial, UnderSend
  <2>3. chip'.sending \in {0, 1} /\ ~Raised'
    BY <1>1, <2>1, <2>2, SentSends
  <2> QED BY <1>1, <1>2, <2>1, <2>3 DEF Serial, Flying, UnderSend
<1> QED BY <1>3, <1>4, <1>5, <1>6, <1>7, <1>8 DEF Transmits

LEMMA StartOurs ==
  ASSUME Shapes, Ours, Starts
  PROVE  Ours'
<1> SUFFICES ASSUME ~early' PROVE Serial' /\ Flying'
  BY DEF Ours
<1>1. Serial /\ Flying /\ chip \in Chip /\ chip.sending \in Nat
  BY DEF Ours, Starts, ReadIr, TxTimeout, Recover, StartNext, CheckRoom, Verify, TaskWrite,
     Shapes, Chip
<1>2. LwipHolds' = LwipHolds
  BY StartShapes DEF LwipHolds
<1> USE DEF Go, Shapes, Threads
<1>3. CASE ReadIr
  <2>1. ~TaskStarting /\ ~TaskStarting' /\ pc["task"] # "recover" /\ pc'["task"] # "recover"
    BY <1>3 DEF ReadIr, TaskStarting
  <2>2. CASE Raised
    <3>1. active' = NoBuffer
      BY <1>3, <2>2 DEF ReadIr, Raised
    <3>2. chip' = [chip EXCEPT !.ir = @ \ {"SEND"}]
      BY <1>3, <2>2 DEF ReadIr, Raised, Becomes
    <3>3. ~Raised' /\ chip'.sending = chip.sending
      BY <3>2 DEF Raised, Chip
    <3> QED BY <1>1, <1>2, <2>1, <2>2, <3>1, <3>3 DEF Serial, Flying, UnderSend
  <2>3. CASE ~Raised
    <3>1. UNCHANGED <<chip, sem, active>>
      BY <1>3, <2>3 DEF ReadIr, Raised
    <3> QED BY <1>1, <1>2, <2>1, <3>1 DEF Serial, Flying, UnderSend, Raised
  <2> QED BY <2>2, <2>3
<1>4. CASE TxTimeout
  <2>1. ~TaskStarting /\ ~TaskStarting' /\ UNCHANGED <<chip, sem, active>>
    BY <1>4 DEF TxTimeout, TaskStarting
  <2>2. pc'["task"] = "recover" => sem = 0 /\ ~LwipHolds /\ ~UnderSend /\ ~Raised
    BY <1>4 DEF TxTimeout, Overdue, Mistaken, UnderSend, Raised
  <2> QED BY <1>1, <1>2, <2>1, <2>2 DEF Serial, Flying, UnderSend, Raised
<1>5. CASE Recover
  <2>1. ~TaskStarting' /\ UNCHANGED chip /\ active' = NoBuffer /\ pc'["task"] # "recover"
        /\ pc["task"] = "recover"
    BY <1>5 DEF Recover, TaskStarting
  <2> QED BY <1>1, <1>2, <2>1 DEF Serial, Flying, UnderSend, Raised
<1>6. CASE StartNext
  <2>1. ~TaskStarting /\ UNCHANGED <<chip, active>> /\ pc'["task"] # "recover"
    BY <1>6 DEF StartNext, TaskStarting
  <2>2. \/ sem = 1 /\ sem' = 0
        \/ UNCHANGED sem /\ ~TaskStarting'
    BY <1>6 DEF StartNext, TaskStarting
  <2> QED BY <1>1, <1>2, <2>1, <2>2 DEF Serial, Flying, UnderSend, Raised
<1>7. CASE CheckRoom("task")
  <2>1. TaskStarting /\ UNCHANGED <<chip, sem, active>> /\ pc'["task"] # "recover"
    BY <1>7 DEF CheckRoom, TaskStarting
  <2> QED BY <1>1, <1>2, <2>1 DEF Serial, Flying, UnderSend, Raised
<1>8. CASE Verify("task")
  <2>1. TaskStarting /\ UNCHANGED <<chip, active>> /\ pc'["task"] # "recover"
    BY <1>8 DEF Verify, TaskStarting
  <2>2. UNCHANGED sem \/ ~TaskStarting'
    BY <1>8 DEF Verify, TaskStarting
  <2> QED BY <1>1, <1>2, <2>1, <2>2 DEF Serial, Flying, UnderSend, Raised
<1>9. CASE TaskWrite
  <2>1. /\ TaskStarting /\ ~TaskStarting' /\ UNCHANGED sem /\ chip' = Sent(chip)
        /\ pc'["task"] # "recover"
    BY <1>9 DEF TaskWrite, TaskStarting, Becomes
  <2>2. chip.sending = 0 /\ ~Raised
    BY <1>1, <2>1 DEF Serial, UnderSend
  <2>3. chip'.sending \in {0, 1} /\ ~Raised'
    BY <1>1, <2>1, <2>2, SentSends
  <2> QED BY <1>1, <1>2, <2>1, <2>3 DEF Serial, Flying, UnderSend
<1> QED BY <1>3, <1>4, <1>5, <1>6, <1>7, <1>8, <1>9 DEF Starts
-----------------------------------------------------------------------------
(* Every buffer in one place *)

Held == {next.buf, active} \ {NoBuffer}

\* No two places hold the same buffer.
Apart ==
  /\ \A i, j \in 1 .. Len(queue) : queue[i].buf = queue[j].buf => i = j
  /\ \A i \in 1 .. Len(queue) : queue[i].buf \notin pool \cup {next.buf, active}
  /\ next.buf \notin pool /\ active \notin pool
  /\ next.buf = active => active = NoBuffer

NoneLost == ~early => pool \cup Queued \cup Held = Buffers

\* What is in the queue after its head was taken, and after an entry was added.
LEMMA QueueTaken ==
  ASSUME queue \in Seq(Frames), queue # <<>>
  PROVE  /\ Tail(queue) \in Seq(Frames) /\ Len(Tail(queue)) = Len(queue) - 1
         /\ Len(queue) \in Nat \ {0}
         /\ Head(queue) = queue[1] /\ Head(queue) \in Frames
         /\ \A i \in 1 .. Len(queue) - 1 : Tail(queue)[i] = queue[i + 1]
OBVIOUS

LEMMA QueueAdded ==
  ASSUME queue \in Seq(Frames), NEW e \in Frames
  PROVE  /\ Append(queue, e) \in Seq(Frames) /\ Len(Append(queue, e)) = Len(queue) + 1
         /\ Len(queue) \in Nat
         /\ \A i \in 1 .. Len(queue) : Append(queue, e)[i] = queue[i]
         /\ Append(queue, e)[Len(queue) + 1] = e
OBVIOUS

LEMMA QueuedDef ==
  ASSUME queue \in Seq(Frames)
  PROVE  Queued = {queue[i].buf : i \in 1 .. Len(queue)}
BY DEF Queued

\* Buffers in places of their own can be counted.
LEMMA Counting ==
  ASSUME Shapes, Apart
  PROVE  Cardinality(pool) + Len(queue) + Cardinality(Held) <= Cardinality(Buffers)
<1>1. /\ IsFiniteSet(Buffers) /\ NoBuffer \notin Buffers
      /\ queue \in Seq(Frames) /\ Len(queue) \in Nat
      /\ pool \subseteq Buffers /\ active \in Buffers \cup {NoBuffer}
      /\ next.buf \in Buffers \cup {NoBuffer}
  BY W5500Assumption DEF Shapes, Frames, Nothing
<1>2. \A i \in 1 .. Len(queue) : queue[i].buf \in Buffers
  <2>1. \A i \in 1 .. Len(queue) : queue[i] \in Frames
    BY <1>1
  <2> QED BY <2>1 DEF Frames
<1>3. IsFiniteSet(Queued) /\ Cardinality(Queued) = Len(queue) /\ Queued \subseteq Buffers
  <2> DEFINE f == [i \in 1 .. Len(queue) |-> queue[i].buf]
  <2>1. f \in Bijection(1 .. Len(queue), Queued)
    <3>1. f \in [1 .. Len(queue) -> Queued]
      BY <1>1, QueuedDef
    <3>2. \A i, j \in 1 .. Len(queue) : f[i] = f[j] => i = j
      BY DEF Apart
    <3>3. \A b \in Queued : \E i \in 1 .. Len(queue) : f[i] = b
      BY <1>1, QueuedDef
    <3> HIDE DEF f
    <3>4. f \in Injection(1 .. Len(queue), Queued)
      BY <3>1, <3>2 DEF Injection, IsInjective
    <3>5. f \in Surjection(1 .. Len(queue), Queued)
      BY <3>1, <3>3 DEF Surjection
    <3> QED BY <3>4, <3>5 DEF Bijection
  <2>2. ExistsBijection(1 .. Len(queue), Queued)
    BY <2>1 DEF ExistsBijection
  <2>3. IsFiniteSet(1 .. Len(queue)) /\ Cardinality(1 .. Len(queue)) = Len(queue)
    <3>1. 1 \in Int /\ Len(queue) \in Int /\ (Len(queue) < 1 => Len(queue) = 0)
      BY <1>1
    <3> QED BY <3>1, FS_Interval
  <2>4. IsFiniteSet(Queued) /\ Cardinality(Queued) = Len(queue)
    BY <2>2, <2>3, FS_Bijection
  <2> QED BY <1>1, <1>2, <2>4, QueuedDef
<1>4. Held \subseteq Buffers /\ IsFiniteSet(Held) /\ IsFiniteSet(pool)
  <2>1. Held \subseteq Buffers
    BY <1>1 DEF Held
  <2> QED BY <1>1, <2>1, FS_Subset
<1>5. pool \cap Queued = {} /\ (pool \cup Queued) \cap Held = {}
  <2>1. pool \cap Queued = {}
    BY <1>1, QueuedDef DEF Apart
  <2>2. pool \cap Held = {}
    BY <1>1 DEF Apart, Held
  <2>3. Queued \cap Held = {}
    BY <1>1, QueuedDef DEF Apart, Held
  <2> QED BY <2>1, <2>2, <2>3
<1>6. /\ IsFiniteSet(pool \cup Queued)
      /\ Cardinality(pool \cup Queued) = Cardinality(pool) + Len(queue)
  <2>1. /\ IsFiniteSet(pool \cup Queued)
        /\ Cardinality(pool \cup Queued) =
             Cardinality(pool) + Cardinality(Queued) - Cardinality(pool \cap Queued)
    BY <1>3, <1>4, FS_Union
  <2>2. Cardinality(pool \cap Queued) = 0
    BY <1>5, FS_EmptySet
  <2>3. Cardinality(pool) \in Nat
    BY <1>4, FS_CardinalityType
  <2> QED BY <1>1, <1>3, <2>1, <2>2, <2>3
<1>7. Cardinality(pool \cup Queued \cup Held)
        = Cardinality(pool) + Len(queue) + Cardinality(Held)
  <2>1. Cardinality((pool \cup Queued) \cup Held) =
          Cardinality(pool \cup Queued) + Cardinality(Held)
            - Cardinality((pool \cup Queued) \cap Held)
    BY <1>4, <1>6, FS_Union
  <2>2. Cardinality((pool \cup Queued) \cap Held) = 0
    BY <1>5, FS_EmptySet
  <2>3. Cardinality(pool) \in Nat /\ Cardinality(Held) \in Nat
    BY <1>4, FS_CardinalityType
  <2> QED BY <1>1, <1>6, <2>1, <2>2, <2>3
<1>8. pool \cup Queued \cup Held \subseteq Buffers
  BY <1>1, <1>3, <1>4
<1> QED BY <1>1, <1>7, <1>8, FS_Subset

\* Steps that leave the buffers where they are.
places == <<pool, queue, next, active>>

LEMMA StillApart ==
  ASSUME Shapes, Apart, NoneLost, UNCHANGED <<places, early>> \/ (UNCHANGED places /\ early')
  PROVE  Apart' /\ NoneLost'
BY DEF places, Apart, NoneLost, Queued, Held

LEMMA EnqueueApart ==
  ASSUME Shapes, Apart, NoneLost, Enqueue
  PROVE  Apart' /\ NoneLost'
<1>1. CASE UNCHANGED places
  BY <1>1, StillApart DEF Enqueue
<1>2. ASSUME NEW b \in pool, pool' = pool \ {b},
             queue' = Append(queue, [buf |-> b, frame |-> frame])
      PROVE  Apart' /\ NoneLost'
  <2> DEFINE e == [buf |-> b, frame |-> frame]
  <2>1. e \in Frames /\ e.buf = b /\ queue \in Seq(Frames)
    BY DEF Shapes, Frames
  <2> HIDE DEF e
  <2>2. /\ queue' = Append(queue, e) /\ queue' \in Seq(Frames)
        /\ Len(queue) \in Nat /\ Len(queue') = Len(queue) + 1
        /\ \A i \in 1 .. Len(queue) : queue'[i] = queue[i]
        /\ queue'[Len(queue) + 1] = e
    BY <1>2, <2>1, QueueAdded DEF e
  <2>3. UNCHANGED <<next, active, early>> /\ b # next.buf /\ b # active
    BY DEF Enqueue, Apart
  <2>4. \A i \in 1 .. Len(queue) : queue[i].buf # b
    BY DEF Apart
  <2>5. Apart'
    <3>1. \A i, j \in 1 .. Len(queue') : queue'[i].buf = queue'[j].buf => i = j
      BY <2>1, <2>2, <2>4 DEF Apart
    <3>2. \A i \in 1 .. Len(queue') : queue'[i].buf \notin pool' \cup {next.buf, active}
      BY <1>2, <2>1, <2>2, <2>3 DEF Apart
    <3> QED BY <1>2, <2>3, <3>1, <3>2 DEF Apart
  <2>6. Queued' = Queued \cup {b}
    <3>1. /\ Queued' = {queue'[i].buf : i \in 1 .. Len(queue')}
          /\ Queued = {queue[i].buf : i \in 1 .. Len(queue)}
      BY <2>1, <2>2 DEF Queued
    <3>2. ASSUME NEW x \in Queued' PROVE x \in Queued \cup {b}
      BY <2>1, <2>2, <3>1
    <3>3. ASSUME NEW x \in Queued PROVE x \in Queued'
      <4>1. PICK i \in 1 .. Len(queue) : x = queue[i].buf
        BY <3>1
      <4> QED BY <2>2, <3>1, <4>1
    <3>4. b \in Queued'
      <4>1. Len(queue) + 1 \in 1 .. Len(queue')
        BY <2>2
      <4> QED BY <2>1, <2>2, <3>1, <4>1
    <3> QED BY <3>2, <3>3, <3>4
  <2> QED BY <1>2, <2>3, <2>5, <2>6 DEF NoneLost, Held
<1> QED BY <1>1, <1>2 DEF Enqueue, places

LEMMA StartNextApart ==
  ASSUME Shapes, Apart, NoneLost, StartNext
  PROVE  Apart' /\ NoneLost'
<1>0. next = Nothing /\ UNCHANGED <<pool, active, early>>
  BY DEF StartNext, Shapes, TaskStarting
<1>1. CASE UNCHANGED <<next, queue>>
  BY <1>0, <1>1, StillApart DEF places
<1>2. CASE queue # <<>> /\ next' = Head(queue) /\ queue' = Tail(queue)
  <2>1. /\ queue \in Seq(Frames) /\ queue' \in Seq(Frames) /\ Len(queue') = Len(queue) - 1
        /\ Len(queue) \in Nat \ {0} /\ next' = queue[1] /\ next' \in Frames
        /\ \A i \in 1 .. Len(queue) - 1 : queue'[i] = queue[i + 1]
    BY <1>2, QueueTaken DEF Shapes
  <2>2. Apart'
    BY <1>0, <2>1 DEF Apart
  <2>3. Queued = Queued' \cup {next'.buf}
    <3>1. /\ Queued' = {queue'[i].buf : i \in 1 .. Len(queue')}
          /\ Queued = {queue[i].buf : i \in 1 .. Len(queue)}
      BY <2>1 DEF Queued
    <3>2. ASSUME NEW x \in Queued PROVE x \in Queued' \cup {next'.buf}
      <4>1. PICK i \in 1 .. Len(queue) : x = queue[i].buf
        BY <3>1
      <4>2. CASE i = 1
        BY <2>1, <4>1, <4>2
      <4>3. CASE i # 1
        <5>1. i - 1 \in 1 .. Len(queue') /\ queue'[i - 1] = queue[i]
          BY <2>1, <4>3
        <5> QED BY <3>1, <4>1, <5>1
      <4> QED BY <4>2, <4>3
    <3>3. ASSUME NEW x \in Queued' PROVE x \in Queued
      <4>1. PICK i \in 1 .. Len(queue') : x = queue'[i].buf
        BY <3>1
      <4>2. i + 1 \in 1 .. Len(queue) /\ queue'[i] = queue[i + 1]
        BY <2>1
      <4> QED BY <3>1, <4>1, <4>2
    <3>4. next'.buf \in Queued
      BY <2>1, <3>1
    <3> QED BY <3>2, <3>3, <3>4
  <2>4. next'.buf # NoBuffer /\ next.buf = NoBuffer
    BY <1>0, <2>1, W5500Assumption DEF Frames, Nothing
  <2> QED BY <1>0, <2>2, <2>3, <2>4 DEF NoneLost, Held
<1> QED BY <1>1, <1>2 DEF StartNext

\* The buffer in flight comes back.
LEMMA ReturnedApart ==
  ASSUME Shapes, Apart, NoneLost, pool' = Returned, active' = NoBuffer,
         UNCHANGED <<queue, next, early>>
  PROVE  Apart' /\ NoneLost'
<1>1. /\ NoBuffer \notin Buffers /\ pool \subseteq Buffers
      /\ next.buf \in Buffers \cup {NoBuffer} /\ active \in Buffers \cup {NoBuffer}
  BY W5500Assumption DEF Shapes, Frames, Nothing
<1>2. \A i \in 1 .. Len(queue) : queue[i].buf \in Buffers
  <2>1. \A i \in 1 .. Len(queue) : queue[i] \in Frames
    BY DEF Shapes
  <2> QED BY <2>1 DEF Frames
<1>3. Apart'
  BY <1>1, <1>2 DEF Apart, Returned
<1>4. pool' \cup Held' = pool \cup Held
  BY <1>1 DEF Returned, Held
<1> QED BY <1>3, <1>4 DEF NoneLost, Queued

LEMMA StartApart ==
  ASSUME Shapes, Ours, Apart, NoneLost, Starts
  PROVE  Apart' /\ NoneLost'
<1>1. CASE ReadIr
  BY <1>1, StillApart, ReturnedApart DEF ReadIr, places
<1>2. CASE TxTimeout
  BY <1>2, StillApart DEF TxTimeout, places, Shapes
<1>3. CASE Recover
  BY <1>3, ReturnedApart DEF Recover
<1>4. CASE StartNext
  BY <1>4, StartNextApart
<1>5. CASE CheckRoom("task")
  BY <1>5, StillApart DEF CheckRoom, places
<1>7. NoBuffer \notin Buffers /\ pool \subseteq Buffers /\ active \in Buffers \cup {NoBuffer}
      /\ (TaskStarting => next.buf \in Buffers)
  BY W5500Assumption DEF Shapes, Frames
<1>8. \A i \in 1 .. Len(queue) : queue[i].buf \in Buffers
  <2>1. \A i \in 1 .. Len(queue) : queue[i] \in Frames
    BY DEF Shapes
  <2> QED BY <2>1 DEF Frames
<1>9. CASE Verify("task")
  <2>1. CASE chip.open
    BY <1>9, <2>1, StillApart DEF Verify, places
  <2>2. CASE ~chip.open
    <3>1. /\ pool' = pool \cup {next.buf} /\ next' = Nothing
          /\ UNCHANGED <<queue, active, early>>
      BY <1>9, <2>2 DEF Verify
    <3>2. next.buf \in Buffers
      BY <1>7, <1>9 DEF Verify, TaskStarting
    <3>3. Apart'
      BY <1>7, <1>8, <3>1, <3>2 DEF Apart, Nothing
    <3>4. pool' \cup Held' = pool \cup Held
      BY <1>7, <3>1, <3>2 DEF Held, Nothing
    <3> QED BY <3>1, <3>3, <3>4 DEF NoneLost, Queued
  <2> QED BY <2>1, <2>2
<1>10. CASE TaskWrite
  <2>1. /\ active' = next.buf /\ next' = Nothing /\ UNCHANGED <<pool, queue, early>>
        /\ TaskStarting
    BY <1>10 DEF TaskWrite, TaskStarting
  <2>2. Apart'
    BY <1>7, <1>8, <2>1 DEF Apart, Nothing
  <2>3. ~early => active = NoBuffer
    BY <2>1 DEF Ours, Flying
  <2>4. ~early => Held' = Held
    BY <2>1, <2>3 DEF Held, Nothing
  <2> QED BY <2>1, <2>2, <2>4 DEF NoneLost, Queued
<1> QED BY <1>1, <1>2, <1>3, <1>4, <1>5, <1>9, <1>10 DEF Starts

LEMMA TransmitApart ==
  ASSUME Shapes, Apart, NoneLost, Transmits
  PROVE  Apart' /\ NoneLost'
<1>1. CASE Enqueue
  BY <1>1, EnqueueApart
<1>2. CASE ~Enqueue
  <2>1. UNCHANGED <<places, early>>
    BY <1>2 DEF Transmits, Transmit, Check, CheckRoom, Verify, LwipWrite, LwipStamp, places
  <2> QED BY <2>1, StillApart
<1> QED BY <1>1, <1>2

LEMMA AlwaysApart ==
  ASSUME Shapes, Ours, Apart, NoneLost, [Next]_vars
  PROVE  Apart' /\ NoneLost'
<1>1. CASE Quiet \/ ChipSends
  BY <1>1, SendShapes, StillApart DEF Quiet, tx, places
<1> QED BY <1>1, NextCases, TransmitApart, StartApart

LEMMA InitApart == Init => Apart /\ NoneLost
<1> SUFFICES ASSUME Init PROVE Apart /\ NoneLost
  OBVIOUS
<1>1. /\ pool = Buffers /\ queue = <<>> /\ active = NoBuffer /\ next.buf = NoBuffer
      /\ NoBuffer \notin Buffers
  BY W5500Assumption DEF Init, Nothing
<1>2. Len(queue) = 0 /\ Queued = {}
  BY <1>1 DEF Queued
<1> QED BY <1>1, <1>2 DEF Apart, NoneLost, Held
-----------------------------------------------------------------------------
(* The order of the frames *)

\* What waits was transmitted in the order it waits in, the task's frame first; the
\* lwIP thread writes a frame itself only when none is queued; and unless a time-out
\* was mistaken, what waits was transmitted no earlier than what was sent last.
Ordered ==
  /\ sent <= frame /\ (TaskStarting => next.frame <= frame)
  /\ \A i \in 1 .. Len(queue) : queue[i].frame <= frame
  /\ \A i, j \in 1 .. Len(queue) : i <= j => queue[i].frame <= queue[j].frame
  /\ TaskStarting => \A i \in 1 .. Len(queue) : next.frame <= queue[i].frame
  /\ pc["lwip"] \in {"start", "verify", "write"} => queue = <<>>
  /\ ~early => (TaskStarting => sent <= next.frame)
  /\ ~early => \A i \in 1 .. Len(queue) : sent <= queue[i].frame

LEMMA InitOrdered == Init => Ordered
<1> SUFFICES ASSUME Init PROVE Ordered
  OBVIOUS
<1>1. sent = 0 /\ frame = 0 /\ queue = <<>> /\ ~TaskStarting
  BY DEF Init, TaskStarting
<1>2. Len(queue) = 0
  BY <1>1
<1> QED BY <1>1, <1>2 DEF Ordered

LEMMA FrameNumbers ==
  ASSUME Shapes
  PROVE  /\ frame \in Nat /\ sent \in Nat /\ Len(queue) \in Nat
         /\ \A i \in 1 .. Len(queue) : queue[i].frame \in Nat
         /\ TaskStarting => next.frame \in Nat
<1>1. \A i \in 1 .. Len(queue) : queue[i] \in Frames
  BY DEF Shapes
<1> QED BY <1>1 DEF Shapes, Frames

\* A step that leaves what waits where it is, and what was sent.
LEMMA StillOrdered ==
  ASSUME Shapes, Ordered, UNCHANGED <<queue, next, sent>>, frame' \in {frame, frame + 1},
         TaskStarting' => TaskStarting, early => early',
         pc'["lwip"] \in {"start", "verify", "write"} => queue = <<>>
  PROVE  Ordered'
<1>1. \A x \in Nat : x <= frame => x <= frame'
  BY DEF Shapes
<1> QED BY <1>1, FrameNumbers DEF Ordered

LEMMA TransmitOrdered ==
  ASSUME Shapes, Ours, Ordered, Transmits
  PROVE  Ordered'
<1>1. TaskStarting' = TaskStarting
  BY TransmitShapes
<1> USE DEF Go, Shapes, Threads
<1>2. CASE \E short \in BOOLEAN : Transmit(short)
  BY <1>1, <1>2, StillOrdered DEF Transmit
<1>3. CASE Check
  BY <1>1, <1>3, StillOrdered DEF Check
<1>4. CASE CheckRoom("lwip") \/ Verify("lwip")
  BY <1>1, <1>4, StillOrdered DEF CheckRoom, Verify, Ordered
<1>5. CASE LwipStamp
  BY <1>1, <1>5, StillOrdered DEF LwipStamp
<1>6. CASE Enqueue
  <2>1. UNCHANGED <<next, sent, frame, early>> /\ pc'["lwip"] = "idle"
    BY <1>6 DEF Enqueue
  <2>2. CASE UNCHANGED queue
    BY <1>1, <2>1, <2>2, StillOrdered
  <2>3. ASSUME NEW b \in pool, queue' = Append(queue, [buf |-> b, frame |-> frame])
        PROVE  Ordered'
    <3> DEFINE e == [buf |-> b, frame |-> frame]
    <3>1. e \in Frames /\ e.frame = frame
      BY DEF Frames
    <3> HIDE DEF e
    <3>2. /\ queue' = Append(queue, e) /\ Len(queue') = Len(queue) + 1
          /\ \A i \in 1 .. Len(queue) : queue'[i] = queue[i]
          /\ queue'[Len(queue) + 1] = e
      BY <2>3, <3>1, QueueAdded DEF e
    <3>3. \A i \in 1 .. Len(queue') : i \in 1 .. Len(queue) \/ i = Len(queue) + 1
      BY <3>2, FrameNumbers
    <3>4. \A i \in 1 .. Len(queue') : queue'[i].frame \in Nat /\ queue'[i].frame <= frame'
      BY <2>1, <3>1, <3>2, <3>3, FrameNumbers DEF Ordered
    <3>5. \A i, j \in 1 .. Len(queue') : i <= j => queue'[i].frame <= queue'[j].frame
      BY <2>1, <3>1, <3>2, <3>3, <3>4, FrameNumbers DEF Ordered
    <3>6. TaskStarting => \A i \in 1 .. Len(queue') : next.frame <= queue'[i].frame
      BY <3>1, <3>2, <3>3, FrameNumbers DEF Ordered
    <3>7. ~early => \A i \in 1 .. Len(queue') : sent <= queue'[i].frame
      BY <3>1, <3>2, <3>3, FrameNumbers DEF Ordered
    <3> QED BY <1>1, <2>1, <3>4, <3>5, <3>6, <3>7 DEF Ordered
  <2> QED BY <1>6, <2>2, <2>3 DEF Enqueue
<1>7. CASE LwipWrite
  <2>1. /\ sent' = frame /\ queue = <<>> /\ LwipHolds
        /\ UNCHANGED <<next, queue, frame, early>>
    BY <1>7 DEF LwipWrite, Ordered, LwipHolds
  <2>2. Len(queue) = 0
    BY <2>1
  <2>3. ~early => ~TaskStarting
    BY <2>1 DEF Ours, Serial
  <2> QED BY <1>1, <2>1, <2>2, <2>3, FrameNumbers DEF Ordered
<1> QED BY <1>2, <1>3, <1>4, <1>5, <1>6, <1>7 DEF Transmits

LEMMA StartOrdered ==
  ASSUME Shapes, Ordered, Starts
  PROVE  Ordered'
<1>1. pc'["lwip"] = pc["lwip"]
  BY StartShapes
<1>2. frame' = frame
  BY DEF Starts, ReadIr, TxTimeout, Recover, StartNext, CheckRoom, Verify, TaskWrite
<1> USE DEF Go, Threads
<1>3. CASE ReadIr \/ TxTimeout \/ Recover
  <2>1. ~TaskStarting' /\ UNCHANGED <<queue, next, sent>> /\ (early => early')
    BY <1>3 DEF ReadIr, TxTimeout, Recover, TaskStarting, Shapes
  <2> QED BY <1>1, <1>2, <2>1, StillOrdered DEF Ordered
<1>4. CASE CheckRoom("task")
  <2>1. TaskStarting /\ UNCHANGED <<queue, next, sent, early>>
    BY <1>4 DEF CheckRoom, TaskStarting
  <2> QED BY <1>1, <1>2, <2>1, StillOrdered DEF Ordered
<1>5. CASE Verify("task")
  <2>1. TaskStarting /\ UNCHANGED <<queue, sent, early>>
    BY <1>5 DEF Verify, TaskStarting
  <2>2. UNCHANGED next \/ ~TaskStarting'
    BY <1>5 DEF Verify, TaskStarting, Shapes
  <2> QED BY <1>1, <1>2, <2>1, <2>2, FrameNumbers DEF Ordered
<1>6. CASE TaskWrite
  <2>1. /\ TaskStarting /\ ~TaskStarting' /\ sent' = next.frame /\ UNCHANGED <<queue, early>>
    BY <1>6 DEF TaskWrite, TaskStarting, Shapes
  <2> QED BY <1>1, <1>2, <2>1, FrameNumbers DEF Ordered
<1>7. CASE StartNext
  <2>1. ~TaskStarting /\ UNCHANGED <<sent, early>>
    BY <1>7 DEF StartNext, TaskStarting
  <2>2. CASE UNCHANGED <<queue, next>>
    <3>1. ~TaskStarting'
      BY <1>7, <2>1, <2>2, QueueTaken DEF StartNext, TaskStarting, Shapes
    <3> QED BY <1>1, <1>2, <2>1, <2>2, <3>1, StillOrdered DEF Ordered
  <2>3. CASE queue # <<>> /\ next' = Head(queue) /\ queue' = Tail(queue)
    <3>1. /\ Len(queue') = Len(queue) - 1 /\ next' = queue[1]
          /\ Len(queue) \in Nat \ {0}
          /\ \A i \in 1 .. Len(queue) - 1 : queue'[i] = queue[i + 1]
      BY <2>3, QueueTaken DEF Shapes
    <3>2. \A i \in 1 .. Len(queue') : i + 1 \in 1 .. Len(queue) /\ queue'[i] = queue[i + 1]
      BY <3>1
    <3>3. 1 \in 1 .. Len(queue) /\ queue[1].frame \in Nat
      BY <3>1, FrameNumbers
    <3>4. \A i \in 1 .. Len(queue') :
            /\ queue'[i].frame <= frame /\ next'.frame <= queue'[i].frame
            /\ ~early => sent <= queue'[i].frame
      BY <3>1, <3>2, <3>3 DEF Ordered
    <3>5. \A i, j \in 1 .. Len(queue') : i <= j => queue'[i].frame <= queue'[j].frame
      BY <3>1, <3>2 DEF Ordered
    <3>6. next'.frame <= frame /\ (~early => sent <= next'.frame)
      BY <3>1, <3>3 DEF Ordered
    <3>7. pc["lwip"] \notin {"start", "verify", "write"}
      BY <2>3 DEF Ordered
    <3> QED BY <1>1, <1>2, <2>1, <3>4, <3>5, <3>6, <3>7 DEF Ordered
  <2> QED BY <1>7, <2>2, <2>3 DEF StartNext
<1> QED BY <1>3, <1>4, <1>5, <1>6, <1>7 DEF Starts

LEMMA AlwaysOrdered ==
  ASSUME Shapes, Ours, Ordered, [Next]_vars
  PROVE  Ordered'
<1>1. CASE ChipSends
  BY <1>1, SendShapes, StillOrdered DEF tx, Ordered, TaskStarting
<1>2. CASE Quiet
  <2>1. pc'["lwip"] = pc["lwip"]
    BY <1>2 DEF Quiet, Go, Shapes, Threads
  <2> QED BY <1>2, <2>1, QuietShapes, StillOrdered DEF Quiet, tx, Ordered
<1> QED BY <1>1, <1>2, NextCases, TransmitOrdered, StartOrdered
-----------------------------------------------------------------------------
IInv == Shapes /\ Ours /\ Apart /\ NoneLost /\ Ordered

\* The inductive invariant: who may have the semaphore, where the buffers are and in
\* which order the frames wait hold in every state of the driver.
THEOREM Invariance == Spec => []IInv
<1>1. Init => IInv
  BY InitShapes, InitApart, InitOrdered DEF IInv
<1>2. IInv /\ [Next]_vars => IInv'
  <2> SUFFICES ASSUME IInv, [Next]_vars PROVE IInv'
    OBVIOUS
  <2>1. Shapes' /\ Ours'
    BY NextCases, QuietShapes, TransmitShapes, StartShapes, SendShapes,
       QuietOurs, TransmitOurs, StartOurs, SendOurs DEF IInv
  <2> QED BY <2>1, AlwaysApart, AlwaysOrdered DEF IInv
<1> QED BY <1>1, <1>2, PTL DEF Spec

\* Whatever the chip, the cable and the console do, at most one frame is being prepared
\* or under SEND, with the semaphore taken for it, as long as w5500's time-out is not
\* declared for a frame that has left or was not written yet.
THEOREM SendsAlwaysSerialized == Spec => []SendsSerialized
<1>1. IInv => SendsSerialized
  BY DEF IInv, Ours, Serial, SendsSerialized, UnderSend, Raised
<1> QED BY <1>1, Invariance, PTL

\* No buffer of tx_pool is handed out twice, and none is lost to a time-out that was not
\* mistaken.
THEOREM BuffersAlwaysKept == Spec => []BuffersKept
<1>1. IInv => BuffersKept
  BY Counting DEF IInv, NoneLost, Held, BuffersKept
<1> QED BY <1>1, Invariance, PTL

\* The short way never overtakes a frame that was queued.
THEOREM FramesInOrder == Spec => InOrder
<1>1. IInv /\ [Next]_vars => [sent' >= sent \/ early]_vars
  <2> SUFFICES ASSUME IInv, [Next]_vars, ~early PROVE sent' >= sent
    OBVIOUS
  <2>1. CASE LwipWrite \/ TaskWrite
    BY <2>1, FrameNumbers DEF IInv, LwipWrite, TaskWrite, Ordered, TaskStarting
  <2>2. CASE ~(LwipWrite \/ TaskWrite)
    <3>1. UNCHANGED sent
      BY <2>2, NextCases, SendShapes DEF IInv, Quiet, tx, Transmits, Starts, Transmit, Check,
         Enqueue, CheckRoom, Verify, LwipStamp, ReadIr, TxTimeout, Recover, StartNext
    <3> QED BY <3>1 DEF IInv, Shapes
  <2> QED BY <2>1, <2>2
<1> QED BY <1>1, Invariance, PTL DEF Spec, InOrder
=============================================================================
