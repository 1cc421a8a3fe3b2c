---------------------------- MODULE SyslogClient ----------------------------
(***************************************************************************)
(* The syslog client (syslog_client.c) as its tasks run it.  Every task    *)
(* that logs runs the vprintf hook, which posts complete lines to a queue; *)
(* one sender task takes them off and sends them; the console and the web  *)
(* server enable and disable the client; the main task at boot, and a task *)
(* of its own after each reconnect, resolve the server's name.             *)
(*                                                                         *)
(* s_mutex serialises enable, disable and connect, but not the hook, and   *)
(* connect gives it away while it resolves.  s_fmt_mutex guards the line   *)
(* buffers.  Allocations are taken to succeed; how a line is put together  *)
(* and formatted is left out: a call to the hook completes a line or not.  *)
(***************************************************************************)
EXTENDS Naturals, Sequences

CONSTANTS
  Admins,      \* tasks that enable and disable: console, web server
  Connectors,  \* the main task at boot, the "syslog_dns" tasks
  Loggers,     \* tasks that log
  QueueDepth,  \* SYSLOG_QUEUE_DEPTH
  MaxLines,    \* bound on the calls of the hook
  MaxEdits     \* bound on enable, disable and reconnects

ASSUME SyslogAssumption ==
  QueueDepth \in Nat \ {0} /\ MaxLines \in Nat /\ MaxEdits \in Nat

Nobody == "nobody"
Absent == "absent"
Callers == Admins \cup Connectors
ASSUME TaskAssumption ==
  {Nobody, Absent} \cap (Callers \cup Loggers) = {} /\ Callers \cap Loggers = {}

VARIABLES
  pc,           \* where each task stands
  s_enabled, s_resolved, s_mutex,
  s_sock,       \* s_sock >= 0
  s_queue,      \* s_queue # NULL
  messages,     \* what is in it: lines, and the pill that ends the sender
  s_fmt_mutex,  \* its holder; Absent until the first start
  buffers,      \* s_rawbuf and s_pktbuf # NULL
  sender,       \* where the sender task stands; "none" iff s_sender_task = NULL
  resolution,   \* what getaddrinfo told a caller
  nvs_enabled,  \* "syslog_en" in flash
  \* history, for the properties
  open_sockets, \* sockets opened and not closed
  lines, edits, \* what the bounds count
  overlapped,   \* two of enable, disable and connect were under way at once
  timed_out     \* a stop gave up waiting for the sender

config == <<s_enabled, nvs_enabled>>
socket == <<s_resolved, s_sock, open_sockets>>
queue == <<s_queue, messages>>
format == <<s_fmt_mutex, buffers>>
history == <<lines, edits, overlapped, timed_out>>
syslog_vars == <<pc, config, s_mutex, socket, queue, format, sender, resolution, history>>

Goto(t, l) == pc' = [pc EXCEPT ![t] = l]

CloseSocket ==
  s_sock' = FALSE /\ open_sockets' = IF s_sock THEN open_sockets - 1 ELSE open_sockets

Quiet == \A t \in Callers : pc[t] = "idle"

\* Caller t begins an operation.
BeginCall(t) ==
  /\ pc[t] = "idle" /\ edits < MaxEdits
  /\ edits' = edits + 1
  /\ overlapped' = (overlapped \/ ~Quiet)

\* Where the tasks stand at power on: syslog_init connects, in the main task, if
\* flash says so.
BootPc(enabled, main) ==
  [t \in Callers \cup Loggers |-> IF enabled /\ t = main THEN "connect" ELSE "idle"]
-----------------------------------------------------------------------------
SyslogInit ==
  /\ nvs_enabled \in BOOLEAN /\ s_enabled = nvs_enabled
  /\ \E main \in Connectors : pc = BootPc(nvs_enabled, main)
  /\ s_mutex = Nobody /\ s_fmt_mutex = Absent
  /\ s_resolved = FALSE /\ s_sock = FALSE /\ open_sockets = 0
  /\ s_queue = FALSE /\ messages = <<>> /\ buffers = FALSE /\ sender = "none"
  /\ resolution = [t \in Callers |-> FALSE]
  /\ lines = 0 /\ edits = 0 /\ overlapped = FALSE /\ timed_out = FALSE

(* syslog_vprintf *)

\* A task logs, and the fast exit is not taken.
Log(l) ==
  /\ pc[l] = "idle" /\ lines < MaxLines
  /\ s_enabled /\ s_queue
  /\ lines' = lines + 1
  /\ Goto(l, "try")
  /\ UNCHANGED <<config, s_mutex, socket, queue, format, sender, resolution,
                 edits, overlapped, timed_out>>

\* Another task is formatting: the line is dropped.  If not, the buffers are used
\* when they exist and the server is known.
TryLock(l) ==
  /\ pc[l] = "try" /\ s_fmt_mutex # Absent
  /\ \/ s_fmt_mutex # Nobody /\ Goto(l, "idle") /\ UNCHANGED s_fmt_mutex
     \/ /\ s_fmt_mutex = Nobody /\ s_fmt_mutex' = l
        /\ Goto(l, IF buffers /\ s_resolved THEN "format" ELSE "give")
  /\ UNCHANGED <<config, s_mutex, socket, queue, buffers, sender, resolution, history>>

\* A fault: the hook returns on an incomplete line without giving the mutex.
Format_KeepsMutex(l) ==
  /\ pc[l] = "format"
  /\ Goto(l, "post") \/ Goto(l, "idle")
  /\ UNCHANGED <<config, s_mutex, socket, queue, format, sender, resolution, history>>

\* The text is appended; only a complete line is posted.
Format(l) ==
  /\ pc[l] = "format"
  /\ Goto(l, "post") \/ Goto(l, "give")
  /\ UNCHANGED <<config, s_mutex, socket, queue, format, sender, resolution, history>>

\* xQueueSend without waiting: a line that finds the queue full is lost.
Post(l) ==
  /\ pc[l] = "post" /\ s_queue
  /\ messages' = IF Len(messages) < QueueDepth THEN Append(messages, "line") ELSE messages
  /\ Goto(l, "give")
  /\ UNCHANGED <<config, s_mutex, socket, s_queue, format, sender, resolution, history>>

Give(l) ==
  /\ pc[l] = "give"
  /\ s_fmt_mutex' = Nobody
  /\ Goto(l, "idle")
  /\ UNCHANGED <<config, s_mutex, socket, queue, buffers, sender, resolution, history>>

\* The queue was there at the fast exit and is gone, or the mutex has not been
\* made yet: FreeRTOS asserts on the null handle and the chip restarts.
Panic(l) ==
  /\ \/ pc[l] = "post" /\ ~s_queue
     \/ pc[l] = "try" /\ s_fmt_mutex = Absent
  /\ s_enabled' = nvs_enabled
  /\ \E main \in Connectors : pc' = BootPc(nvs_enabled, main)
  /\ s_mutex' = Nobody /\ s_fmt_mutex' = Absent
  /\ s_resolved' = FALSE /\ s_sock' = FALSE /\ open_sockets' = 0
  /\ s_queue' = FALSE /\ messages' = <<>> /\ buffers' = FALSE /\ sender' = "none"
  /\ resolution' = [t \in Callers |-> FALSE]
  /\ overlapped' = FALSE /\ timed_out' = FALSE
  /\ UNCHANGED <<nvs_enabled, lines, edits>>

Hook(l) == TryLock(l) \/ Format(l) \/ Post(l) \/ Give(l) \/ Panic(l)
-----------------------------------------------------------------------------
(* sender_task *)

Receive ==
  /\ sender = "receive" /\ messages # <<>>
  /\ messages' = Tail(messages)
  /\ sender' = IF Head(messages) = "pill" THEN "close" ELSE "send"
  /\ UNCHANGED <<pc, config, s_mutex, socket, s_queue, format, resolution, history>>

\* sendto, or nothing when there is no socket.
SendLine ==
  /\ sender = "send"
  /\ sender' = "receive"
  /\ UNCHANGED <<pc, config, s_mutex, socket, queue, format, resolution, history>>

SenderClose ==
  /\ sender = "close"
  /\ CloseSocket
  /\ sender' = "clear"
  /\ UNCHANGED <<pc, config, s_mutex, s_resolved, queue, format, resolution, history>>

SenderClear ==
  /\ sender = "clear"
  /\ s_resolved' = FALSE
  /\ sender' = "delete"
  /\ UNCHANGED <<pc, config, s_mutex, s_sock, open_sockets, queue, format, resolution, history>>

\* s_sender_task = NULL, and the task ends.
SenderGone ==
  /\ sender = "delete"
  /\ sender' = "none"
  /\ UNCHANGED <<pc, config, s_mutex, socket, queue, format, resolution, history>>

SenderStep == Receive \/ SendLine \/ SenderClose \/ SenderClear \/ SenderGone
-----------------------------------------------------------------------------
(* syslog_connect *)

\* syslog_notify_connected, after a reconnect.
Notify(t) ==
  /\ BeginCall(t) /\ s_enabled /\ ~s_resolved
  /\ Goto(t, "connect")
  /\ UNCHANGED <<config, s_mutex, socket, queue, format, sender, resolution, lines, timed_out>>

Done(t) == Goto(t, IF t \in Admins THEN "save" ELSE "idle")

Connect(t) ==
  /\ pc[t] = "connect" /\ s_mutex = Nobody
  /\ \/ ~s_enabled /\ Done(t) /\ UNCHANGED socket
     \/ s_enabled /\ CloseSocket /\ s_resolved' = FALSE /\ Goto(t, "resolve")
  /\ UNCHANGED <<config, s_mutex, queue, format, sender, resolution, history>>

\* getaddrinfo, without the mutex.
Resolve(t) ==
  /\ pc[t] = "resolve"
  /\ \E found \in BOOLEAN : resolution' = [resolution EXCEPT ![t] = found]
  /\ Goto(t, "open")
  /\ UNCHANGED <<config, s_mutex, socket, queue, format, sender, history>>

\* The mutex is taken again; s_enabled is not looked at again.
Open(t) ==
  /\ pc[t] = "open" /\ s_mutex = Nobody
  /\ s_mutex' = t
  /\ IF resolution[t]
     THEN s_sock' = TRUE /\ s_resolved' = TRUE /\ open_sockets' = open_sockets + 1
     ELSE UNCHANGED socket
  /\ Goto(t, "start")
  /\ UNCHANGED <<config, queue, format, sender, resolution, history>>

\* start_sender makes the queue first ...
StartQueue(t) ==
  /\ pc[t] = "start"
  /\ s_queue' = TRUE
  /\ Goto(t, "start_task")
  /\ UNCHANGED <<config, s_mutex, socket, messages, format, sender, resolution, history>>

\* ... then the rest, unless it exists.
StartTask(t) ==
  /\ pc[t] = "start_task"
  /\ s_fmt_mutex' = IF s_fmt_mutex = Absent THEN Nobody ELSE s_fmt_mutex
  /\ buffers' = TRUE
  /\ sender' = IF sender = "none" THEN "receive" ELSE sender
  /\ s_mutex' = Nobody
  /\ Done(t)
  /\ UNCHANGED <<config, socket, queue, resolution, history>>
-----------------------------------------------------------------------------
(* syslog_enable and syslog_disable *)

Enable(a) ==
  /\ BeginCall(a)
  /\ Goto(a, "enable")
  /\ UNCHANGED <<config, s_mutex, socket, queue, format, sender, resolution, lines, timed_out>>

SetEnabled(a) ==
  /\ pc[a] = "enable" /\ s_mutex = Nobody
  /\ s_enabled' = TRUE /\ s_resolved' = FALSE
  /\ Goto(a, "connect")
  /\ UNCHANGED <<nvs_enabled, s_mutex, s_sock, open_sockets, queue, format, sender,
                 resolution, history>>

\* The flag is cleared before the mutex is taken.
Disable(a) ==
  /\ BeginCall(a)
  /\ s_enabled' = FALSE
  /\ Goto(a, "disable")
  /\ UNCHANGED <<nvs_enabled, s_mutex, socket, queue, format, sender, resolution,
                 lines, timed_out>>

\* stop_sender sends the pill, for 100 ms while the queue is full ...
Stop(a) ==
  /\ pc[a] = "disable" /\ s_mutex = Nobody
  /\ s_mutex' = a
  /\ Goto(a, IF s_queue /\ sender # "none" THEN "pill" ELSE "delete")
  /\ UNCHANGED <<config, socket, queue, format, sender, resolution, history>>

SendPill(a) ==
  /\ pc[a] = "pill"
  /\ \/ Len(messages) < QueueDepth /\ messages' = Append(messages, "pill")
     \/ Len(messages) = QueueDepth /\ UNCHANGED messages
  /\ Goto(a, "wait")
  /\ UNCHANGED <<config, s_mutex, socket, s_queue, format, sender, resolution, history>>

\* Faults: the queue of a sender that still runs is deleted; the stop does not
\* wait for the sender at all.
Wait_DeletesAnyway(a) ==
  /\ pc[a] = "wait"
  /\ Goto(a, "delete")
  /\ timed_out' = (timed_out \/ sender # "none")
  /\ UNCHANGED <<config, s_mutex, socket, queue, format, sender, resolution,
                 lines, edits, overlapped>>

Wait_Never(a) ==
  /\ pc[a] = "wait"
  /\ Goto(a, "close")
  /\ UNCHANGED <<config, s_mutex, socket, queue, format, sender, resolution, history>>

\* ... and waits for the sender to end, two seconds at most.
Wait(a) ==
  /\ pc[a] = "wait"
  /\ Goto(a, IF sender = "none" THEN "delete" ELSE "close")
  /\ timed_out' = (timed_out \/ sender # "none")
  /\ UNCHANGED <<config, s_mutex, socket, queue, format, sender, resolution,
                 lines, edits, overlapped>>

\* vQueueDelete, without s_fmt_mutex.
DeleteQueue(a) ==
  /\ pc[a] = "delete"
  /\ s_queue' = FALSE /\ messages' = <<>>
  /\ Goto(a, IF s_fmt_mutex = Absent THEN "close" ELSE "fmt")
  /\ UNCHANGED <<config, s_mutex, socket, format, sender, resolution, history>>

\* A fault: the buffers are freed without the mutex the hook holds.
FreeBuffers_Unlocked(a) ==
  /\ pc[a] = "fmt"
  /\ buffers' = FALSE
  /\ Goto(a, "close")
  /\ UNCHANGED <<config, s_mutex, socket, queue, s_fmt_mutex, sender, resolution, history>>

FreeBuffers(a) ==
  /\ pc[a] = "fmt" /\ s_fmt_mutex = Nobody
  /\ buffers' = FALSE
  /\ Goto(a, "close")
  /\ UNCHANGED <<config, s_mutex, socket, queue, s_fmt_mutex, sender, resolution, history>>

CloseAtDisable(a) ==
  /\ pc[a] = "close"
  /\ CloseSocket /\ s_resolved' = FALSE /\ s_mutex' = Nobody
  /\ Goto(a, "save")
  /\ UNCHANGED <<config, queue, format, sender, resolution, history>>

\* save_config writes the flag as it is now.
SaveConfig(a) ==
  /\ pc[a] = "save"
  /\ nvs_enabled' = s_enabled
  /\ Goto(a, "idle")
  /\ UNCHANGED <<s_enabled, s_mutex, socket, queue, format, sender, resolution, history>>

CallerStep(t) ==
  \/ Connect(t) \/ Resolve(t) \/ Open(t) \/ StartQueue(t) \/ StartTask(t)
  \/ SetEnabled(t) \/ Stop(t) \/ SendPill(t) \/ Wait(t) \/ DeleteQueue(t)
  \/ FreeBuffers(t) \/ CloseAtDisable(t) \/ SaveConfig(t)

SyslogNext ==
  \/ SenderStep
  \/ \E l \in Loggers : Log(l) \/ Hook(l)
  \/ \E t \in Callers : CallerStep(t)
  \/ \E t \in Connectors : Notify(t)
  \/ \E a \in Admins : Enable(a) \/ Disable(a)

SyslogSpec == SyslogInit /\ [][SyslogNext]_syslog_vars

\* A task with something to do gets to do it; whoever waits for the mutex gets it
\* in turn, as FreeRTOS wakes the longest waiting task of the highest priority;
\* names are resolved or not in finite time.
SyslogFairSpec ==
  /\ SyslogSpec
  /\ WF_syslog_vars(SenderStep)
  /\ \A l \in Loggers : WF_syslog_vars(Hook(l))
  /\ \A t \in Callers : SF_syslog_vars(CallerStep(t))
-----------------------------------------------------------------------------
CallerLabels ==
  {"idle", "connect", "resolve", "open", "start", "start_task", "enable", "disable", "pill",
   "wait", "delete", "fmt", "close", "save"}
HookLabels == {"idle", "try", "format", "post", "give"}

SyslogTypeOK ==
  /\ pc \in [Callers \cup Loggers -> CallerLabels \cup HookLabels]
  /\ {s_enabled, nvs_enabled, s_resolved, s_sock, s_queue, buffers, overlapped, timed_out}
       \subseteq BOOLEAN
  /\ s_mutex \in Callers \cup {Nobody}
  /\ s_fmt_mutex \in Loggers \cup {Nobody, Absent}
  /\ Len(messages) <= QueueDepth /\ (~s_queue => messages = <<>>)
  /\ sender \in {"none", "receive", "send", "close", "clear", "delete"}
  /\ resolution \in [Callers -> BOOLEAN]
  /\ open_sockets \in Nat /\ (s_sock => open_sockets > 0)
  /\ lines \in 0 .. MaxLines /\ edits \in 0 .. MaxEdits

\* syslog_client.c:350: the hook never formats into buffers that a disable has
\* freed, wherever the two stand.
BuffersHeld == \A l \in Loggers : pc[l] = "format" => buffers

\* syslog_client.c:334: the queue the sender receives from is never deleted under
\* it, also when the stop gives up waiting and when enable, disable and connect
\* overlap.
SenderHasQueue == sender \in {"receive", "send"} => s_queue

\* Released: no queue, no buffers, no sender, no socket.
Released == ~s_queue /\ ~buffers /\ sender = "none" /\ open_sockets = 0

\* As long as the operations came one after the other and no stop timed out, the
\* client between them runs if it is enabled and holds nothing if it is not: the
\* sender's own cleanup, which takes no lock, never undoes the next start.
RunsIffEnabled ==
  (Quiet /\ ~overlapped /\ ~timed_out) =>
    IF s_enabled
    THEN s_queue /\ buffers /\ sender \in {"receive", "send"} /\ open_sockets = (IF s_sock THEN 1 ELSE 0)
    ELSE Released

\* Each enable, disable, connect and log call ends: a disable waits for the
\* hook's mutex with s_mutex in its hand, the hook waits for nothing.
CallsEnd == \A t \in Callers \cup Loggers : pc[t] # "idle" ~> pc[t] = "idle"
=============================================================================
