------------------------------- MODULE MqttHa -------------------------------
(***************************************************************************)
(* The link to Home Assistant (mqtt_ha.c) together with the remote console *)
(* it switches: starting and stopping the MQTT client from a console,      *)
(* among them the remote one, and the client's event handler, which        *)
(* enables and disables the remote console and waits for it.               *)
(*                                                                         *)
(* External: esp-mqtt and the broker.  The client's task runs the handler  *)
(* with the lock of the client held, which publishing and stopping wait    *)
(* for.  The broker keeps the last retained message of a topic, and sends  *)
(* the last will of a client that went away without DISCONNECT.            *)
(***************************************************************************)
EXTENDS RemoteConsole

VARIABLES
  s_client,      \* the client exists
  s_connected,
  timer,         \* s_publish_timer runs
  run,           \* the client's task is to go on
  mqtt,          \* where the client's task is
  link,          \* the connection with the broker
  will,          \* the broker holds the client's last will
  availability,  \* retained at the broker
  rejoined       \* history: the client connected last while it was being stopped

client_vars == <<s_client, s_connected, timer, run, mqtt, link, will, availability,
                 rejoined>>
vars == <<console, client_vars>>

\* The handler runs, and holds the lock of the client.
Handling == mqtt \in {"online", "data", "report"}

Commanders == Callers \ {"mqtt"}
Stopping(c) == call[c] \in {"offline", "mqtt stop", "join"}

\* mqtt_ha_init
Init ==
  /\ ConsoleInit
  /\ s_client \in BOOLEAN /\ run = s_client /\ timer = s_client
  /\ mqtt = IF s_client THEN "connect" ELSE "off"
  /\ s_connected = FALSE
  /\ link = FALSE /\ will = FALSE /\ availability = "none"
  /\ rejoined = FALSE
-----------------------------------------------------------------------------
(* mqtt_event_handler, in the task of the client *)

\* A broker that still holds the will of the earlier connection sends it first.
Connect ==
  /\ mqtt = "connect" /\ run
  /\ mqtt' = "online"
  /\ link' = TRUE /\ will' = TRUE
  /\ availability' = IF will THEN "offline" ELSE availability
  /\ UNCHANGED <<console, s_client, s_connected, timer, run, rejoined>>

\* A message reaches the broker if the connection stands; what does not is repeated
\* after the next connect, which says the same.
Retained(a) == IF link THEN a ELSE availability

\* MQTT_EVENT_CONNECTED: "online" is published, the commands are subscribed, and the
\* discovery messages published.
Connected ==
  /\ mqtt = "online"
  /\ s_connected' = TRUE
  /\ availability' = Retained("online")
  /\ rejoined' = \E c \in Commanders : Stopping(c)
  /\ mqtt' = "report"
  /\ UNCHANGED <<console, s_client, timer, run, link, will>>

\* publish_state ends the handler.
Report ==
  /\ mqtt = "report"
  /\ mqtt' = "loop"
  /\ UNCHANGED <<console, s_client, s_connected, timer, run, link, will, availability,
                 rejoined>>

\* MQTT_EVENT_DISCONNECTED
Disconnected ==
  /\ mqtt = "loop" /\ ~link /\ run
  /\ s_connected' = FALSE
  /\ mqtt' = "connect"
  /\ UNCHANGED <<console, s_client, timer, run, link, will, availability, rejoined>>

\* MQTT_EVENT_DATA for the remote console: the handler calls remote_console_enable or
\* remote_console_disable, which waits, and publishes the state.
Switch ==
  /\ mqtt = "loop" /\ link /\ run
  /\ mqtt' = "data"
  /\ Enable("mqtt") \/ Disable("mqtt")
  /\ UNCHANGED <<s_client, s_connected, timer, run, link, will, availability, rejoined>>

Switched ==
  /\ mqtt = "data" /\ call["mqtt"] = "idle"
  /\ mqtt' = "report"
  /\ UNCHANGED <<console, s_client, s_connected, timer, run, link, will, availability,
                 rejoined>>

\* The task ends when it is told to.
Ended ==
  /\ mqtt \in {"connect", "loop"} /\ ~run
  /\ mqtt' = "off"
  /\ UNCHANGED <<console, s_client, s_connected, timer, run, link, will, availability,
                 rejoined>>
-----------------------------------------------------------------------------
(* mqtt_ha_start and mqtt_ha_stop, from the command `mqtt' *)

\* Two consoles may run the command at once; what mqtt_ha_stop then does to the client
\* the other one waits for is left out.
Alone == \A c \in Commanders : ~Stopping(c)

\* mqtt_ha_start; without memory the client is destroyed again.
Start(c) ==
  /\ Begins(c) /\ Alone /\ ~s_client
  /\ \/ s_client' = TRUE /\ run' = TRUE /\ mqtt' = "connect" /\ timer' = TRUE
     \/ UNCHANGED <<s_client, run, mqtt, timer>>
  /\ UNCHANGED <<pc, handle, enabled, bind, state, server, shutdown, kick, client, tries,
                 call, target, raced, s_connected, link, will, availability, rejoined>>

\* mqtt_ha_stop: the timer is stopped; a connected client says that it goes.
MqttStop(c) ==
  /\ Begins(c) /\ Alone
  /\ timer' = FALSE
  /\ Call(c, IF ~s_client THEN "idle" ELSE IF s_connected THEN "offline" ELSE "mqtt stop")
  /\ UNCHANGED <<pc, handle, enabled, bind, state, server, shutdown, kick, client, tries,
                 target, raced, s_client, s_connected, run, mqtt, link, will, availability,
                 rejoined>>

\* A fault: nothing is published.
Offline_Unsaid(c) ==
  /\ call[c] = "offline" /\ ~Handling
  /\ Call(c, "mqtt stop")
  /\ UNCHANGED <<pc, handle, enabled, bind, state, server, shutdown, kick, client, tries,
                 target, raced, events, client_vars>>

Offline(c) ==
  /\ call[c] = "offline" /\ ~Handling
  /\ availability' = Retained("offline")
  /\ Call(c, "mqtt stop")
  /\ UNCHANGED <<pc, handle, enabled, bind, state, server, shutdown, kick, client, tries,
                 target, raced, events, s_client, s_connected, timer, run, mqtt, link, will,
                 rejoined>>

\* 200 ms later esp_mqtt_client_stop: DISCONNECT, by which the broker forgets the
\* will; then the client's task is waited for.
StopClient(c) ==
  /\ call[c] = "mqtt stop" /\ ~Handling
  /\ run' = FALSE /\ link' = FALSE
  /\ will' = (will /\ ~link)
  /\ Call(c, "join")
  /\ UNCHANGED <<pc, handle, enabled, bind, state, server, shutdown, kick, client, tries,
                 target, raced, events, s_client, s_connected, timer, mqtt, availability, rejoined>>

Destroy(c) ==
  /\ call[c] = "join" /\ mqtt = "off"
  /\ s_client' = FALSE /\ s_connected' = FALSE
  /\ Call(c, "idle")
  /\ UNCHANGED <<pc, handle, enabled, bind, state, server, shutdown, kick, client, tries,
                 target, raced, events, timer, run, mqtt, link, will, availability, rejoined>>

\* `mqtt interval' restarts the timer.
Interval(c) ==
  /\ Begins(c) /\ s_client /\ timer' = TRUE
  /\ UNCHANGED <<pc, handle, enabled, bind, state, server, shutdown, kick, client, tries,
                 call, target, raced, s_client, s_connected, run, mqtt, link, will, availability,
                 rejoined>>
-----------------------------------------------------------------------------
(* The broker and the network *)

LinkLost ==
  /\ link /\ events > 0
  /\ events' = events - 1
  /\ link' = FALSE
  /\ UNCHANGED <<pc, handle, enabled, bind, state, server, shutdown, kick, client, tries,
                 call, target, raced, s_client, s_connected, timer, run, mqtt, will, availability,
                 rejoined>>

Will ==
  /\ ~link /\ will
  /\ will' = FALSE /\ availability' = "offline"
  /\ UNCHANGED <<console, s_client, s_connected, timer, run, mqtt, link, rejoined>>
-----------------------------------------------------------------------------
Mqtt == Connected \/ Report \/ Disconnected \/ Switched \/ Ended

Returns(c) ==
  \/ (Proceeds(c) /\ UNCHANGED client_vars)
  \/ Offline(c) \/ StopClient(c) \/ Destroy(c)

Next ==
  \/ \E t \in Tasks : (Client(t) \/ Console(t)) /\ UNCHANGED client_vars
  \/ \E c \in Commanders :
       \/ Calls(c) /\ UNCHANGED client_vars
       \/ Start(c) \/ MqttStop(c) \/ Interval(c)
  \/ \E c \in Callers : Returns(c)
  \/ Mqtt \/ Connect \/ Switch \/ LinkLost \/ Will

Spec == Init /\ [][Next]_vars

\* Every task is scheduled, waits with a time limit end, and the broker sends a will.
\* Nothing is assumed of clients, operators and connections.
FairSpec ==
  /\ Spec
  /\ \A t \in Tasks : WF_vars(Console(t) /\ UNCHANGED client_vars)
  /\ \A c \in Callers : WF_vars(Returns(c))
  /\ WF_vars(Mqtt) /\ WF_vars(Will)
-----------------------------------------------------------------------------
TypeOK ==
  /\ pc \in [Tasks -> {"none", "socket", "accept", "auth", "delay", "prompt", "recv", "run",
                       "cleanup", "close", "exit"}]
  /\ handle \in Tasks \cup {0} /\ client \in 0 .. MaxClients /\ target \in 0 .. MaxClients
  /\ bind \in (SUBSET Interfaces) \ {{}} /\ tries \in 0 .. MaxAttempts
  /\ state \in {"DISABLED", "LISTENING", "AUTH_WAIT", "ACTIVE"}
  /\ {enabled, server, shutdown, kick, s_client, s_connected, timer, run, link, will,
      rejoined, raced} \subseteq BOOLEAN
  /\ call \in [Callers -> {"idle", "create", "spawn", "stop", "wait", "kick", "offline",
                            "mqtt stop", "join"}]
  /\ mqtt \in {"off", "connect", "online", "report", "loop", "data"}
  /\ availability \in {"none", "online", "offline"}

\* There is never a second console task, however enables and slow disables follow each
\* other (remote_console.c:343, the race the comment in remote_console_disable tells of),
\* unless an enable looked for a task just before another one created it.
OneTask == ~raced => \A t, u \in Tasks : pc[t] # "none" /\ pc[u] # "none" => t = u

\* Home Assistant sees a router whose client was stopped as gone, or the broker is
\* about to tell it, unless the client was connecting just then: mqtt_ha_stop looks at
\* s_connected too early for that.
OfflineWhenStopped == ~s_client /\ ~rejoined => availability # "online" \/ will

\* As long as there is one console task, a session is only thrown out because its end
\* was requested while this very session was served, or because the console is to end:
\* no kick outlives its session, or a disable.
KickHitsItsSession ==
  [][~raced =>
       \A t \in Tasks : pc[t] = "prompt" /\ pc'[t] = "cleanup" =>
         shutdown \/ target = client]_vars

\* Once told to end, the console task ends, whatever its session is doing: waiting
\* for a silent client, for a command, or for a guess too many.
ShutdownEnds == shutdown ~> (handle = 0 \/ ~shutdown)

\* Every call returns: a disable from inside a session waits for that session, and
\* `mqtt disable' from a session waits for the handler, which may be waiting for the
\* session.
CallsReturn == \A c \in Callers : call[c] # "idle" ~> call[c] = "idle"
=============================================================================
