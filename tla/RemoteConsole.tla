---------------------------- MODULE RemoteConsole ----------------------------
(***************************************************************************)
(* The remote console (remote_console.c): the task that serves one TCP     *)
(* session after the other, and the calls that enable, disable and kick it *)
(* from other tasks and from a command of the session itself.              *)
(*                                                                         *)
(* A task is interrupted where it may block: at a flash write, a wait, a   *)
(* socket call or the execution of a command; and between the look at a    *)
(* shared field and what is done because of it, when a console task is     *)
(* created or a session kicked.  The state is shared without a lock, so    *)
(* everything read before such a point may be stale after it.  The         *)
(* settings on flash, the port and the counters are left out, and so is    *)
(* what a second task, once there is one, does to the socket of the first. *)
(***************************************************************************)
EXTENDS Naturals, FiniteSets

CONSTANTS
  Operators,    \* tasks that run commands or pages: the serial console, the web server
  Interfaces,   \* RC_BIND_AP, RC_BIND_STA, RC_BIND_VPN
  MaxAttempts,  \* RC_MAX_AUTH_ATTEMPTS
  MaxClients,   \* bound: connections
  MaxEvents     \* bound: calls, and what else befalls the router

ASSUME ConsoleAssumption ==
  /\ IsFiniteSet(Interfaces) /\ Interfaces # {}
  /\ {"mqtt", "session"} \cap Operators = {}
  /\ {MaxAttempts, MaxClients, MaxEvents} \subseteq Nat /\ MaxAttempts > 0

\* Who calls: an operator, the handler of the MQTT client, a command of the session.
Callers == Operators \cup {"mqtt", "session"}

\* A second task only exists by mistake.
Tasks == {1, 2}

VARIABLES
  pc,          \* where each console task is
  handle,      \* rc_state.task_handle: the task, 0 for NULL
  enabled,     \* rc_config.enabled
  bind,        \* rc_config.bind
  state,       \* rc_state.state
  server,      \* rc_state.server_socket is open
  shutdown,    \* shutdown_requested
  kick,        \* kick_requested
  client,      \* the connection served: its number
  tries,       \* failed attempts at the password
  call,        \* how far each caller is
  target,      \* history: the connection served when the last kick was requested
  raced,       \* history: two enables have looked at the handle before either created
  events       \* what is left of MaxEvents

console == <<pc, handle, enabled, bind, state, server, shutdown, kick, client, tries,
             call, target, raced, events>>

Dead == {t \in Tasks : pc[t] = "none"}
Go(t, label) == pc' = [pc EXCEPT ![t] = label]
Call(c, label) == call' = [call EXCEPT ![c] = label]

\* A caller may begin: an operator whenever it has nothing else to do, the session
\* when it executes a command.
Begins(c) ==
  /\ call[c] = "idle" /\ events > 0
  /\ c = "session" => \E t \in Tasks : pc[t] = "run"
  /\ events' = events - 1

\* remote_console_init: the task is started if the console is enabled.
ConsoleInit ==
  /\ enabled \in BOOLEAN
  /\ pc = [t \in Tasks |-> IF enabled /\ t = 1 THEN "socket" ELSE "none"]
  /\ handle = IF enabled THEN 1 ELSE 0
  /\ bind \in (SUBSET Interfaces) \ {{}}
  /\ state = IF enabled THEN "LISTENING" ELSE "DISABLED"
  /\ server = FALSE /\ shutdown = FALSE /\ kick = FALSE
  /\ client = 0 /\ tries = 0 /\ target = 0 /\ raced = FALSE
  /\ call = [c \in Callers |-> "idle"]
  /\ events = MaxEvents
-----------------------------------------------------------------------------
(* remote_console_task *)

\* The server socket is opened, bound and listened on; that may fail, and is tried
\* again 5 s later.
OpenServer(t) ==
  /\ pc[t] = "socket"
  /\ \/ shutdown /\ Go(t, "exit") /\ UNCHANGED <<server, state>>
     \/ ~shutdown /\ Go(t, "accept") /\ server' = TRUE /\ state' = "LISTENING"
  /\ UNCHANGED <<handle, enabled, bind, shutdown, kick, client, tries, call, target, raced, events>>

\* accept() returns without a connection when the socket was closed.
StopAccepting(t) ==
  /\ pc[t] = "accept" /\ shutdown
  /\ Go(t, "close")
  /\ UNCHANGED <<handle, enabled, bind, state, server, shutdown, kick, client, tries, call,
                 target, raced, events>>

\* A fault: a kick of the past is not forgotten.
Accept_KeepsKick(t, i) ==
  /\ pc[t] = "accept" /\ server /\ client < MaxClients
  /\ client' = client + 1
  /\ IF i \in bind
     THEN Go(t, "auth") /\ state' = "AUTH_WAIT" /\ tries' = 0
     ELSE UNCHANGED <<pc, state, tries>>
  /\ UNCHANGED <<handle, enabled, bind, server, shutdown, kick, call, target, raced, events>>

\* A connection that came in on interface i: it is closed again unless the interface
\* is allowed.  A kick that is still requested was meant for somebody else.
Accept(t, i) ==
  /\ pc[t] = "accept" /\ server /\ client < MaxClients
  /\ client' = client + 1
  /\ IF i \in bind
     THEN Go(t, "auth") /\ state' = "AUTH_WAIT" /\ kick' = FALSE /\ tries' = 0
     ELSE UNCHANGED <<pc, state, kick, tries>>
  /\ UNCHANGED <<handle, enabled, bind, server, shutdown, call, target, raced, events>>

\* authenticate_client: with no password set, or the right one, the session starts.
\* A wrong one may be tried again until the attempts are used up.
Authenticate(t) ==
  /\ pc[t] = "auth"
  /\ \/ Go(t, "prompt") /\ state' = "ACTIVE" /\ UNCHANGED tries
     \/ /\ tries' = tries + 1
        /\ Go(t, IF tries' < MaxAttempts THEN "auth" ELSE "delay")
        /\ UNCHANGED state
  /\ UNCHANGED <<handle, enabled, bind, server, shutdown, kick, client, call, target, raced, events>>

\* recv_line gives up: kicked or shut down, 60 s without the password, or the client
\* has gone.
Refuse(t) ==
  /\ pc[t] = "auth"
  /\ Go(t, "cleanup")
  /\ UNCHANGED <<handle, enabled, bind, state, server, shutdown, kick, client, tries, call,
                 target, raced, events>>

\* RC_AUTH_DELAY_MS have passed.
DelayOver(t) ==
  /\ pc[t] = "delay"
  /\ Go(t, "cleanup")
  /\ UNCHANGED <<handle, enabled, bind, state, server, shutdown, kick, client, tries, call,
                 target, raced, events>>
-----------------------------------------------------------------------------
(* handle_session *)

\* A fault: the flags are not looked at.
Prompt_Deaf(t) ==
  /\ pc[t] = "prompt"
  /\ Go(t, "recv")
  /\ UNCHANGED <<handle, enabled, bind, state, server, shutdown, kick, client, tries, call,
                 target, raced, events>>

\* The flags are looked at before every wait for input, which lasts a second.
Prompt(t) ==
  /\ pc[t] = "prompt"
  /\ Go(t, IF kick \/ shutdown THEN "cleanup" ELSE "recv")
  /\ UNCHANGED <<handle, enabled, bind, state, server, shutdown, kick, client, tries, call,
                 target, raced, events>>

\* No input for a second, or a line that is no command.
Silence(t) ==
  /\ pc[t] = "recv"
  /\ Go(t, "prompt")
  /\ UNCHANGED <<handle, enabled, bind, state, server, shutdown, kick, client, tries, call,
                 target, raced, events>>

\* quit, the end of the connection, or the idle time-out.
Quit(t) ==
  /\ pc[t] = "recv"
  /\ Go(t, "cleanup")
  /\ UNCHANGED <<handle, enabled, bind, state, server, shutdown, kick, client, tries, call,
                 target, raced, events>>

\* A command, whose output is captured: rc_capturing is set while it runs.
Command(t) ==
  /\ pc[t] = "recv"
  /\ Go(t, "run")
  /\ UNCHANGED <<handle, enabled, bind, state, server, shutdown, kick, client, tries, call,
                 target, raced, events>>

\* It has returned.
Returned(t) ==
  /\ pc[t] = "run" /\ call["session"] = "idle"
  /\ Go(t, "prompt")
  /\ UNCHANGED <<handle, enabled, bind, state, server, shutdown, kick, client, tries, call,
                 target, raced, events>>

Cleanup(t) ==
  /\ pc[t] = "cleanup"
  /\ Go(t, "accept")
  /\ state' = "LISTENING" /\ kick' = FALSE
  /\ UNCHANGED <<handle, enabled, bind, server, shutdown, client, tries, call, target, raced, events>>

CloseServer(t) ==
  /\ pc[t] = "close"
  /\ Go(t, "socket")
  /\ server' = FALSE
  /\ UNCHANGED <<handle, enabled, bind, state, shutdown, kick, client, tries, call, target,
                 raced, events>>

\* The task clears its own handle and deletes itself.
Exit(t) ==
  /\ pc[t] = "exit"
  /\ Go(t, "none")
  /\ state' = "DISABLED" /\ handle' = 0
  /\ UNCHANGED <<enabled, bind, server, shutdown, kick, client, tries, call, target, raced, events>>
-----------------------------------------------------------------------------
(* Calls *)

\* remote_console_enable: the setting is written to flash,
Enable(c) ==
  /\ Begins(c) /\ ~enabled
  /\ enabled' = TRUE
  /\ Call(c, "create")
  /\ UNCHANGED <<pc, handle, bind, state, server, shutdown, kick, client, tries, target, raced>>

\* then, unless there is a task still, the wish to end is taken back,
LookForTask(c) ==
  /\ call[c] = "create"
  /\ \/ handle # 0 /\ Call(c, "idle") /\ UNCHANGED <<shutdown, raced>>
     \/ /\ handle = 0 /\ Call(c, "spawn")
        /\ shutdown' = FALSE
        /\ raced' = (raced \/ \E d \in Callers : call[d] = "spawn")
  /\ UNCHANGED <<pc, handle, enabled, bind, state, server, kick, client, tries, target, events>>

\* and a task created.  If that fails the setting is taken back, and written again.
Spawn(c) ==
  /\ call[c] = "spawn"
  /\ Call(c, "idle")
  /\ \/ \E t \in Dead :
          /\ \A u \in Dead : t <= u
          /\ Go(t, "socket") /\ handle' = t /\ state' = "LISTENING"
          /\ UNCHANGED enabled
     \/ enabled' = FALSE /\ UNCHANGED <<pc, handle, state>>
  /\ UNCHANGED <<bind, server, shutdown, kick, client, tries, target, raced, events>>

\* remote_console_disable: the setting is written to flash,
Disable(c) ==
  /\ Begins(c) /\ enabled
  /\ enabled' = FALSE
  /\ Call(c, "stop")
  /\ UNCHANGED <<pc, handle, bind, state, server, shutdown, kick, client, tries, target, raced>>

\* then the task is told to stop, and its server socket closed.
Stop(c) ==
  /\ call[c] = "stop"
  /\ shutdown' = TRUE /\ kick' = TRUE /\ server' = FALSE
  /\ Call(c, "wait")
  /\ UNCHANGED <<pc, handle, enabled, bind, state, client, tries, target, raced, events>>

\* A fault: it is waited for without a limit.
Wait_Unbounded(c) ==
  /\ call[c] = "wait" /\ handle = 0
  /\ state' = "DISABLED"
  /\ Call(c, "idle")
  /\ UNCHANGED <<pc, handle, enabled, bind, server, shutdown, kick, client, tries, target,
                 raced, events>>

\* A fault: the handle is cleared for the task.
Wait_ClearsHandle(c) ==
  /\ call[c] = "wait"
  /\ handle' = 0 /\ state' = "DISABLED"
  /\ Call(c, "idle")
  /\ UNCHANGED <<pc, enabled, bind, server, shutdown, kick, client, tries, target, raced, events>>

\* It is waited for until it has cleared its handle, or RC_SHUTDOWN_TIMEOUT_MS.
Wait(c) ==
  /\ call[c] = "wait"
  /\ state' = "DISABLED"
  /\ Call(c, "idle")
  /\ UNCHANGED <<pc, handle, enabled, bind, server, shutdown, kick, client, tries, target,
                 raced, events>>

\* remote_console_kick looks for a session,
Kick(c) ==
  /\ Begins(c) /\ state = "ACTIVE"
  /\ Call(c, "kick")
  /\ UNCHANGED <<pc, handle, enabled, bind, state, server, shutdown, kick, client, tries,
                 target, raced>>

\* and requests the end of the one that is there now.
RequestKick(c) ==
  /\ call[c] = "kick"
  /\ Call(c, "idle")
  /\ kick' = TRUE /\ target' = client
  /\ UNCHANGED <<pc, handle, enabled, bind, state, server, shutdown, client, tries, raced,
                 events>>

\* remote_console_set_bind
SetBind(c, b) ==
  /\ Begins(c) /\ b # bind
  /\ bind' = b
  /\ UNCHANGED <<pc, handle, enabled, state, server, shutdown, kick, client, tries, call,
                 target, raced>>
-----------------------------------------------------------------------------
\* What a client may do, and what the task does by itself.
Client(t) ==
  \/ \E i \in Interfaces : Accept(t, i)
  \/ Authenticate(t) \/ Quit(t) \/ Command(t)

Console(t) ==
  \/ OpenServer(t) \/ StopAccepting(t) \/ Refuse(t) \/ DelayOver(t)
  \/ Prompt(t) \/ Silence(t) \/ Returned(t)
  \/ Cleanup(t) \/ CloseServer(t) \/ Exit(t)

\* remote_console_cmd and the form of the configuration page
Calls(c) ==
  \/ Enable(c) \/ Disable(c) \/ Kick(c)
  \/ \E b \in (SUBSET Interfaces) \ {{}} : SetBind(c, b)

Proceeds(c) == LookForTask(c) \/ Spawn(c) \/ Stop(c) \/ Wait(c) \/ RequestKick(c)
=============================================================================
