---------------------------- MODULE MqttHaProofs ----------------------------
(***************************************************************************)
(* Proofs about MqttHa and the remote console in it, for any number of     *)
(* operators, interfaces, connections and attempts: as long as no two      *)
(* enables race, there is one console task and a kick hits the session it  *)
(* was meant for; and a router whose client was stopped is shown as gone,  *)
(* or the broker is about to say so.                                       *)
(***************************************************************************)
EXTENDS MqttHa, TLAPS

Labels == {"none", "socket", "accept", "auth", "delay", "prompt", "recv", "run", "cleanup",
           "close", "exit"}

\* Where a task serves a connection.
Serving == {"auth", "delay", "prompt", "recv", "run", "cleanup"}

PcOK == pc \in [Tasks -> Labels]

\* A task that exists is the one the handle names: nobody clears the handle but the
\* task itself, and nobody creates a task but where the handle is clear.
Named == \A t \in Tasks : pc[t] # "none" => t = handle

\* A caller about to create a task has found the handle clear, and is the only one.
SpawnAlone ==
  /\ DOMAIN call = Callers
  /\ \A c \in Callers : call[c] = "spawn" =>
       handle = 0 /\ \A d \in Callers : call[d] = "spawn" => d = c

\* A kick that a session may see was meant for it, or the console is to end.
KickMeant == \A t \in Tasks : kick /\ pc[t] \in Serving => shutdown \/ target = client

Sound == PcOK /\ Named /\ KickMeant /\ SpawnAlone
IInv == raced \/ Sound

\* What the invariant speaks of, but for the calls.
core == <<pc, handle, shutdown, kick, client, target>>

\* No caller comes to the creation of a task.
NoSpawn ==
  \/ UNCHANGED call
  \/ \E c \in Callers, l \in {"idle", "create", "stop", "wait", "kick", "offline", "mqtt stop",
                              "join"} : Call(c, l)

LEMMA TasksDef == Tasks = {1, 2} /\ 0 \notin Tasks
BY SMT DEF Tasks

\* remote_console_init creates one task or none.
LEMMA InitSound == Init => Sound
<1> SUFFICES ASSUME Init PROVE Sound
  OBVIOUS
<1>1. PcOK
  BY DEF Init, ConsoleInit, PcOK, Labels
<1>2. Named
  BY DEF Init, ConsoleInit, Named
<1>3. KickMeant
  BY DEF Init, ConsoleInit, KickMeant
<1>4. SpawnAlone
  BY DEF Init, ConsoleInit, SpawnAlone
<1> QED
  BY <1>1, <1>2, <1>3, <1>4 DEF Sound

\* Where nobody comes to it, whoever is about to create a task remains alone.
LEMMA StillAlone == SpawnAlone /\ NoSpawn /\ handle' \in {handle, 0} => SpawnAlone'
BY DEF SpawnAlone, NoSpawn, Call

\* A step that leaves alone what the invariant speaks of.
LEMMA CoreStep == Sound /\ UNCHANGED core /\ NoSpawn => Sound'
BY StillAlone DEF Sound, PcOK, Named, KickMeant, core

\* A task moves from one label to another, neither of which is "none", and nothing
\* else of the core changes, but a kick may be forgotten.
LEMMA MoveStep ==
  ASSUME Sound, NEW t \in Tasks, NEW label \in Labels \ {"none"},
         pc[t] # "none",
         Go(t, label),
         pc[t] \in Serving \/ label \notin Serving,
         kick' => kick,
         UNCHANGED <<handle, shutdown, client, target, call>>
  PROVE  Sound'
<1>1. PcOK'
  BY DEF Sound, PcOK, Go
<1>2. \A u \in Tasks : pc'[u] # "none" => pc[u] # "none"
  BY DEF Sound, PcOK, Go
<1>3. \A u \in Tasks : pc'[u] \in Serving => pc[u] \in Serving
  BY DEF Sound, PcOK, Go
<1>4. Named'
  BY <1>2 DEF Sound, Named
<1>5. KickMeant'
  BY <1>3 DEF Sound, KickMeant
<1> QED
  BY <1>1, <1>4, <1>5, StillAlone DEF Sound, NoSpawn

\* A connection is accepted, or refused on an interface that is not allowed: no
\* other task serves one, since there is only this task.
LEMMA AcceptStep ==
  ASSUME Sound, NEW t \in Tasks, NEW i \in Interfaces, Accept(t, i)
  PROVE  Sound'
<1>1. PcOK'
  BY DEF Sound, PcOK, Accept, Go, Labels
<1>2. Named'
  <2>1. \A u \in Tasks : pc'[u] # "none" => pc[u] # "none"
    BY DEF Sound, PcOK, Accept, Go
  <2> QED
    BY <2>1 DEF Sound, Named, Accept
<1>3. KickMeant'
  <2>1. CASE i \in bind
    BY <2>1 DEF Accept, KickMeant
  <2>2. CASE i \notin bind
    <3>1. \A u \in Tasks : pc[u] \in Serving => u = t
      BY DEF Sound, Named, Accept, Serving
    <3>2. pc[t] \notin Serving /\ UNCHANGED pc
      BY <2>2 DEF Accept, Serving
    <3> QED
      BY <3>1, <3>2 DEF KickMeant
  <2> QED
    BY <2>1, <2>2
<1>4. SpawnAlone'
  BY StillAlone DEF Sound, Accept, NoSpawn
<1> QED
  BY <1>1, <1>2, <1>3, <1>4 DEF Sound

\* The task that ends is the one the handle names, so that clearing the handle
\* leaves no task.
LEMMA ExitStep ==
  ASSUME Sound, NEW t \in Tasks, Exit(t)
  PROVE  Sound'
<1>1. t = handle
  BY DEF Sound, Named, Exit
<1>2. \A u \in Tasks : pc'[u] = "none"
  BY <1>1 DEF Sound, PcOK, Named, Exit, Go
<1>3. PcOK'
  BY DEF Sound, PcOK, Exit, Go, Labels
<1>4. SpawnAlone'
  BY StillAlone DEF Sound, Exit, NoSpawn
<1> QED
  BY <1>2, <1>3, <1>4 DEF Sound, Named, KickMeant, Serving

\* The steps of the console task.
LEMMA ConsoleStep ==
  ASSUME Sound, NEW t \in Tasks, Client(t) \/ Console(t)
  PROVE  Sound'
<1> USE DEF Serving, Labels
<1>1. CASE \E i \in Interfaces : Accept(t, i)
  BY <1>1, AcceptStep
<1>2. CASE Authenticate(t)
  <2>1. PICK label \in {"auth", "prompt", "delay"} : Go(t, label)
    BY <1>2 DEF Authenticate
  <2> QED
    BY <1>2, <2>1, MoveStep DEF Authenticate
<1>3. CASE Quit(t)
  BY <1>3, MoveStep DEF Quit
<1>4. CASE Command(t)
  BY <1>4, MoveStep DEF Command
<1>5. CASE OpenServer(t)
  <2>1. PICK label \in {"exit", "accept"} : Go(t, label)
    BY <1>5 DEF OpenServer
  <2> QED
    BY <1>5, <2>1, MoveStep DEF OpenServer
<1>6. CASE StopAccepting(t)
  BY <1>6, MoveStep DEF StopAccepting
<1>7. CASE Refuse(t)
  BY <1>7, MoveStep DEF Refuse
<1>8. CASE DelayOver(t)
  BY <1>8, MoveStep DEF DelayOver
<1>9. CASE Prompt(t)
  <2>1. PICK label \in {"cleanup", "recv"} : Go(t, label)
    BY <1>9 DEF Prompt
  <2> QED
    BY <1>9, <2>1, MoveStep DEF Prompt
<1>10. CASE Silence(t)
  BY <1>10, MoveStep DEF Silence
<1>11. CASE Returned(t)
  BY <1>11, MoveStep DEF Returned
<1>12. CASE Cleanup(t)
  BY <1>12, MoveStep DEF Cleanup
<1>13. CASE CloseServer(t)
  BY <1>13, MoveStep DEF CloseServer
<1>14. CASE Exit(t)
  BY <1>14, ExitStep
<1> QED
  BY <1>1, <1>2, <1>3, <1>4, <1>5, <1>6, <1>7, <1>8, <1>9, <1>10, <1>11, <1>12, <1>13,
     <1>14 DEF Client, Console

\* A caller that finds the handle clear is the only one to create a task, or the race
\* is on record.
LEMMA LookStep ==
  ASSUME Sound, NEW c \in Callers, LookForTask(c), ~raced'
  PROVE  Sound'
<1>1. CASE handle # 0 /\ Call(c, "idle") /\ UNCHANGED shutdown
  BY <1>1, CoreStep DEF LookForTask, core, NoSpawn
<1>2. CASE handle = 0 /\ Call(c, "spawn")
  <2>1. \A u \in Tasks : pc[u] = "none"
    BY <1>2, TasksDef DEF Sound, Named
  <2>2. UNCHANGED <<pc, handle>> /\ \A d \in Callers : call[d] # "spawn"
    BY <1>2 DEF LookForTask
  <2>3. \A d \in Callers : call'[d] = IF d = c THEN "spawn" ELSE call[d]
    BY <1>2 DEF Call, Sound, SpawnAlone
  <2>4. SpawnAlone'
    BY <1>2, <2>2, <2>3 DEF Call, Sound, SpawnAlone
  <2> QED
    BY <2>1, <2>2, <2>4 DEF Sound, PcOK, Named, KickMeant, Serving
<1> QED
  BY <1>1, <1>2 DEF LookForTask

\* A task is created where there is none.
LEMMA SpawnStep ==
  ASSUME Sound, NEW c \in Callers, Spawn(c)
  PROVE  Sound'
<1>1. handle = 0 /\ \A d \in Callers : call'[d] # "spawn"
  <2>1. call[c] = "spawn" /\ Call(c, "idle")
    BY DEF Spawn
  <2> QED BY <2>1 DEF Call, Sound, SpawnAlone
<1>2. \A u \in Tasks : pc[u] = "none"
  BY <1>1, TasksDef DEF Sound, Named
<1>3. SpawnAlone'
  BY <1>1 DEF Spawn, Call, Sound, SpawnAlone
<1>4. CASE UNCHANGED <<pc, handle>>
  BY <1>2, <1>3, <1>4 DEF Spawn, Sound, PcOK, Named, KickMeant, Serving
<1>5. CASE \E t \in Dead : Go(t, "socket") /\ handle' = t
  <2>1. PICK t \in Tasks : Go(t, "socket") /\ handle' = t
    BY <1>5 DEF Dead
  <2>2. PcOK'
    BY <2>1 DEF Sound, PcOK, Go, Labels
  <2>3. \A u \in Tasks : pc'[u] = IF u = t THEN "socket" ELSE "none"
    BY <1>2, <2>1 DEF Sound, PcOK, Go
  <2> QED
    BY <1>3, <2>1, <2>2, <2>3 DEF Sound, Named, KickMeant, Serving
<1> QED
  BY <1>4, <1>5 DEF Spawn

\* The calls.  A kick is meant for the connection served now; a disable that kicks
\* asks the task to end as well.
LEMMA CallStep ==
  ASSUME Sound, NEW c \in Callers, Calls(c) \/ Proceeds(c), ~raced'
  PROVE  Sound'
<1> USE DEF NoSpawn
<1>1. CASE Enable(c)
  BY <1>1, CoreStep DEF Enable, core
<1>2. CASE Disable(c)
  BY <1>2, CoreStep DEF Disable, core
<1>3. CASE Kick(c)
  BY <1>3, CoreStep DEF Kick, core
<1>4. CASE \E b \in (SUBSET Interfaces) \ {{}} : SetBind(c, b)
  BY <1>4, CoreStep DEF SetBind, core
<1>5. CASE LookForTask(c)
  BY <1>5, LookStep
<1>6. CASE Spawn(c)
  BY <1>6, SpawnStep
<1>7. CASE Stop(c)
  <2>1. SpawnAlone'
    BY <1>7, StillAlone DEF Stop, Sound
  <2> QED
    BY <1>7, <2>1 DEF Stop, Sound, PcOK, Named, KickMeant
<1>8. CASE Wait(c)
  BY <1>8, CoreStep DEF Wait, core
<1>9. CASE RequestKick(c)
  <2>1. SpawnAlone'
    BY <1>9, StillAlone DEF RequestKick, Sound
  <2> QED
    BY <1>9, <2>1 DEF RequestKick, Sound, PcOK, Named, KickMeant
<1> QED
  BY <1>1, <1>2, <1>3, <1>4, <1>5, <1>6, <1>7, <1>8, <1>9 DEF Calls, Proceeds

\* A race stays on record, and only a caller that looks for a task sets it.
LEMMA RaceKept == [Next]_vars /\ raced => raced'
<1> SUFFICES ASSUME [Next]_vars, raced PROVE raced'
  OBVIOUS
<1>1. ASSUME NEW t \in Tasks, Client(t) \/ Console(t) PROVE raced'
  BY <1>1 DEF Client, Console, Accept, Authenticate, Quit, Command, OpenServer,
     StopAccepting, Refuse, DelayOver, Prompt, Silence, Returned, Cleanup, CloseServer, Exit
<1>2. ASSUME NEW c \in Callers, Calls(c) \/ Proceeds(c) PROVE raced'
  BY <1>2 DEF Calls, Proceeds, Enable, Disable, Kick, SetBind, LookForTask, Spawn, Stop, Wait,
     RequestKick
<1>3. ASSUME NEW c \in Callers,
             \/ Start(c) \/ MqttStop(c) \/ Interval(c)
             \/ Offline(c) \/ StopClient(c) \/ Destroy(c)
      PROVE  raced'
  BY <1>3 DEF Start, MqttStop, Interval, Offline, StopClient, Destroy
<1>4. CASE Switch
  BY <1>4 DEF Switch, Enable, Disable
<1>5. CASE Mqtt \/ Connect \/ LinkLost \/ Will
  BY <1>5 DEF Mqtt, Connected, Report, Disconnected, Switched, Ended, Connect, LinkLost,
     Will, console
<1>6. CASE UNCHANGED vars
  BY <1>6 DEF vars, console
<1> QED
  BY <1>1, <1>2, <1>3, <1>4, <1>5, <1>6 DEF Next, Returns, Commanders

LEMMA NextSound == Sound /\ [Next]_vars /\ ~raced' => Sound'
<1> SUFFICES ASSUME Sound, [Next]_vars, ~raced' PROVE Sound'
  OBVIOUS
<1>1. CASE \E t \in Tasks : (Client(t) \/ Console(t)) /\ UNCHANGED client_vars
  BY <1>1, ConsoleStep
<1>2. CASE \E c \in Commanders : Calls(c) /\ UNCHANGED client_vars
  BY <1>2, CallStep DEF Commanders
<1>3. CASE \E c \in Callers : Proceeds(c) /\ UNCHANGED client_vars
  BY <1>3, CallStep
<1>4. ASSUME NEW c \in Callers, Start(c) \/ MqttStop(c) \/ Interval(c)
      PROVE  UNCHANGED core /\ NoSpawn
  BY <1>4 DEF Start, MqttStop, Interval, core, NoSpawn
<1>5. ASSUME NEW c \in Callers, Offline(c) \/ StopClient(c) \/ Destroy(c)
      PROVE  UNCHANGED core /\ NoSpawn
  BY <1>5 DEF Offline, StopClient, Destroy, core, NoSpawn
<1>6. CASE Switch
  <2>1. "mqtt" \in Callers
    BY DEF Callers
  <2> QED
    BY <1>6, <2>1, CallStep DEF Switch, Calls
<1>7. CASE Mqtt \/ Connect \/ LinkLost \/ Will
  <2>1. UNCHANGED core /\ NoSpawn
    BY <1>7 DEF NoSpawn, Mqtt, Connected, Report, Disconnected, Switched, Ended, Connect, LinkLost,
                Will, console, core
  <2> QED
    BY <2>1, CoreStep
<1>8. CASE UNCHANGED vars
  <2>1. UNCHANGED core /\ NoSpawn
    BY <1>8 DEF NoSpawn, vars, console, core
  <2> QED
    BY <2>1, CoreStep
<1> QED
  BY <1>1, <1>2, <1>3, <1>4, <1>5, <1>6, <1>7, <1>8, CoreStep DEF Next, Returns, Commanders

THEOREM ConsoleInvariant == Spec => []IInv
<1>1. Init => IInv
  BY InitSound DEF IInv
<1>2. IInv /\ [Next]_vars => IInv'
  BY NextSound, RaceKept DEF IInv
<1> QED
  BY <1>1, <1>2, PTL DEF Spec

\* remote_console_enable never creates a task beside one that a disable gave up
\* waiting for: for any number of callers there is one console task at most, until an
\* enable has looked for a task just before another one created it.
THEOREM AlwaysOneTask == Spec => []OneTask
<1>1. IInv => OneTask
  BY DEF IInv, Sound, Named, OneTask
<1> QED
  BY <1>1, ConsoleInvariant, PTL

\* A session is thrown out at its prompt by nothing but the flags.
LEMMA OnlyPromptLeaves ==
  ASSUME Sound, [Next]_vars, NEW t \in Tasks, pc[t] = "prompt", pc'[t] = "cleanup"
  PROVE  kick \/ shutdown
<1>1. handle # 0
  BY TasksDef DEF Sound, Named
<1>2. ASSUME NEW u \in Tasks, Client(u) \/ Console(u)
      PROVE  kick \/ shutdown
  <2>1. u = t \/ pc'[t] = pc[t]
    BY <1>2 DEF Sound, PcOK, Client, Console, Go, Accept, Authenticate, Quit, Command,
       OpenServer, StopAccepting, Refuse, DelayOver, Prompt, Silence, Returned, Cleanup,
       CloseServer, Exit
  <2>2. CASE Prompt(t)
    BY <2>2 DEF Sound, PcOK, Prompt, Go
  <2>3. pc[u] = "prompt" => Prompt(u)
    BY <1>2 DEF Client, Console, Accept, Authenticate, Quit, Command,
       OpenServer, StopAccepting, Refuse, DelayOver, Silence, Returned, Cleanup,
       CloseServer, Exit
  <2> QED
    BY <2>1, <2>2, <2>3
<1>3. ASSUME NEW c \in Callers, Calls(c) \/ Proceeds(c)
      PROVE  UNCHANGED pc
  BY <1>1, <1>3 DEF Calls, Proceeds, Enable, Disable, Kick, SetBind, LookForTask, Spawn, Stop,
     Wait, RequestKick, Sound, SpawnAlone
<1>4. ASSUME NEW c \in Callers, Start(c) \/ MqttStop(c) \/ Interval(c)
      PROVE  UNCHANGED pc
  BY <1>4 DEF Start, MqttStop, Interval
<1>5. ASSUME NEW c \in Callers, Offline(c) \/ StopClient(c) \/ Destroy(c)
      PROVE  UNCHANGED pc
  BY <1>5 DEF Offline, StopClient, Destroy
<1>6. CASE Switch
  BY <1>6 DEF Switch, Enable, Disable
<1>7. CASE Mqtt \/ Connect \/ LinkLost \/ Will
  BY <1>7 DEF Mqtt, Connected, Report, Disconnected, Switched, Ended, Connect, LinkLost,
     Will, console
<1>8. CASE UNCHANGED vars
  BY <1>8 DEF vars, console
<1> QED
  BY <1>2, <1>3, <1>4, <1>5, <1>6, <1>7, <1>8 DEF Next, Returns, Commanders

\* handle_session leaves its loop for a flag only if the end of its own session was
\* requested, or the console is to end, as long as enables have not raced.
THEOREM KicksAlwaysHit == Spec => KickHitsItsSession
<1>1. IInv /\ [Next]_vars =>
        [~raced =>
           \A t \in Tasks : pc[t] = "prompt" /\ pc'[t] = "cleanup" =>
             shutdown \/ target = client]_vars
  <2>1. ASSUME Sound, [Next]_vars, NEW t \in Tasks, pc[t] = "prompt", pc'[t] = "cleanup"
        PROVE  shutdown \/ target = client
    BY <2>1, OnlyPromptLeaves DEF Sound, KickMeant, Serving
  <2> QED
    BY <2>1 DEF IInv
<1> QED
  BY <1>1, ConsoleInvariant, PTL DEF Spec, KickHitsItsSession
-----------------------------------------------------------------------------
(* What Home Assistant is told *)

\* The calls of the remote console, and what mqtt_ha_stop adds to them.
Plain == {"idle", "create", "spawn", "stop", "wait", "kick"}
Farewell == {"offline", "mqtt stop", "join"}

\* Where the client's task is while it takes the connection for up.
Online == {"report", "loop", "data"}

ClientShapes ==
  /\ call \in [Callers -> Plain \cup Farewell]
  /\ mqtt \in Online \cup {"off", "connect", "online"}
  /\ {s_client, s_connected, run, link, will, rejoined} \subseteq BOOLEAN

\* The client's task cannot stop the client.  A client that is told to end has no
\* connection, and one that does not exist was told to end.
ToldToEnd ==
  /\ call["mqtt"] \in Plain
  /\ \A c \in Callers : call[c] = "join" => ~run
  /\ ~s_client => ~run
  /\ ~run => ~link

\* What the task and the broker take for granted of the connection: the broker holds
\* the will as long as it stands, and has sent it before the next one is told of.
Agreed ==
  /\ link => will /\ mqtt \notin {"off", "connect"}
  /\ mqtt \in Online => s_connected
  /\ mqtt = "online" => will \/ availability = "offline"

\* Whoever is seen as online has a will to be sent, or came back while it was stopped.
\* Once mqtt_ha_stop has said that the router goes, only that makes it online again.
Seen ==
  /\ availability = "online" => will \/ rejoined
  /\ \A c \in Callers :
       call[c] = "mqtt stop" /\ link /\ mqtt # "online" /\ availability = "online" => rejoined

Told == ClientShapes /\ ToldToEnd /\ Agreed /\ Seen

LEMMA InitTold == Init => Told
<1> SUFFICES ASSUME Init PROVE Told
  OBVIOUS
<1>1. "mqtt" \in Callers
  BY DEF Callers
<1>2. ClientShapes
  BY DEF Init, ConsoleInit, ClientShapes, Plain
<1>3. ToldToEnd
  BY <1>1 DEF Init, ConsoleInit, ToldToEnd, Plain
<1>4. Agreed /\ Seen
  BY DEF Init, ConsoleInit, Agreed, Seen, Online
<1> QED BY <1>2, <1>3, <1>4 DEF Told

\* The remote console and its callers leave the client alone, and whoever stops it.
LEMMA ConsoleTold ==
  ASSUME Told, UNCHANGED client_vars, call' \in [Callers -> Plain \cup Farewell],
         \A c \in Callers : call'[c] = call[c] \/ call'[c] \in Plain
  PROVE  Told'
BY DEF Told, ClientShapes, ToldToEnd, Agreed, Seen, Plain, client_vars, Callers

LEMMA ConsoleCalls ==
  ASSUME Told,
         \/ \E t \in Tasks : Client(t) \/ Console(t)
         \/ \E c \in Callers : Calls(c) \/ Proceeds(c)
  PROVE  /\ call' \in [Callers -> Plain \cup Farewell]
         /\ \A c \in Callers : call'[c] = call[c] \/ call'[c] \in Plain
<1>1. CASE \E t \in Tasks : Client(t) \/ Console(t)
  <2>1. UNCHANGED call
    BY <1>1 DEF Client, Console, Accept, Authenticate, Quit, Command, OpenServer,
       StopAccepting, Refuse, DelayOver, Prompt, Silence, Returned, Cleanup, CloseServer, Exit
  <2> QED BY <2>1 DEF Told, ClientShapes
<1>2. ASSUME NEW c \in Callers, Calls(c) \/ Proceeds(c)
      PROVE  UNCHANGED call \/ \E l \in Plain : Call(c, l)
  BY <1>2 DEF Calls, Proceeds, Enable, Disable, Kick, SetBind, LookForTask, Spawn, Stop, Wait,
     RequestKick, Plain
<1> QED BY <1>1, <1>2 DEF Told, ClientShapes, Call

\* The client's task and its handler.
LEMMA HandlerTold ==
  ASSUME Told, Mqtt \/ Connect \/ Switch
  PROVE  Told'
<1> USE DEF Online
<1>1. CASE Connected
  <2>1. UNCHANGED <<call, s_client, run, link, will>> /\ s_connected' = TRUE
        /\ mqtt' = "report" /\ mqtt = "online" /\ rejoined' \in BOOLEAN
    BY <1>1 DEF Connected, console
  <2>2. \A c \in Callers : call[c] = "mqtt stop" => rejoined'
    <3>1. \A c \in Callers : call[c] = "mqtt stop" => c \in Commanders
      BY DEF Told, ToldToEnd, Plain, Commanders
    <3> QED BY <1>1, <3>1 DEF Connected, Stopping
  <2>3. availability' = IF link THEN "online" ELSE availability
    BY <1>1 DEF Connected, Retained
  <2> QED BY <2>1, <2>2, <2>3 DEF Told, ClientShapes, ToldToEnd, Agreed, Seen
<1>2. CASE Report \/ Disconnected \/ Switched \/ Ended
  <2>1. UNCHANGED <<call, s_client, run, link, will, availability, rejoined>>
    BY <1>2 DEF Report, Disconnected, Switched, Ended, console
  <2>2. \/ mqtt \in {"report", "data"} /\ mqtt' \in {"loop", "report"} /\ UNCHANGED s_connected
        \/ mqtt = "loop" /\ ~link /\ mqtt' = "connect" /\ s_connected' = FALSE
        \/ ~run /\ mqtt' = "off" /\ UNCHANGED s_connected
    BY <1>2 DEF Report, Disconnected, Switched, Ended
  <2> QED BY <2>1, <2>2 DEF Told, ClientShapes, ToldToEnd, Agreed, Seen
<1>3. CASE Connect
  <2>1. UNCHANGED <<call, s_client, s_connected, run, rejoined>> /\ run /\ link' /\ will'
        /\ link' \in BOOLEAN /\ will' \in BOOLEAN /\ mqtt' = "online"
    BY <1>3 DEF Connect, console
  <2> QED BY <2>1 DEF Told, ClientShapes, ToldToEnd, Agreed, Seen
<1>4. CASE Switch
  <2>1. UNCHANGED <<s_client, s_connected, run, link, will, availability, rejoined>>
        /\ mqtt = "loop" /\ mqtt' = "data"
    BY <1>4 DEF Switch
  <2>2. "mqtt" \in Callers
    BY DEF Callers
  <2>3. /\ call' \in [Callers -> Plain \cup Farewell]
        /\ \A c \in Callers : call'[c] = call[c] \/ call'[c] \in Plain
    BY <1>4, <2>2, ConsoleCalls DEF Switch, Calls
  <2>4. ClientShapes' /\ Agreed'
    BY <2>1, <2>3 DEF Told, ClientShapes, Agreed
  <2>5. ToldToEnd' /\ Seen'
    BY <2>1, <2>2, <2>3 DEF Told, ToldToEnd, Seen, Plain
  <2> QED BY <2>4, <2>5 DEF Told
<1> QED BY <1>1, <1>2, <1>3, <1>4 DEF Mqtt

\* Starting and stopping, from a console.
LEMMA StopTold ==
  ASSUME Told, NEW c \in Callers,
         \/ c \in Commanders /\ (Start(c) \/ MqttStop(c) \/ Interval(c))
         \/ Offline(c) \/ StopClient(c) \/ Destroy(c)
  PROVE  Told'
<1> USE DEF Online, Plain, Farewell, Call
<1>0. "mqtt" \in Callers
  BY DEF Callers
<1>1. CASE c \in Commanders /\ Start(c)
  <2>1. /\ UNCHANGED <<call, s_connected, link, will, availability, rejoined>> /\ ~s_client
        /\ \/ s_client' = TRUE /\ run' = TRUE /\ mqtt' = "connect"
           \/ UNCHANGED <<s_client, run, mqtt>>
    BY <1>1 DEF Start
  <2>2. \A d \in Callers : call[d] # "join"
    BY <1>1 DEF Start, Alone, Stopping, Commanders, Told, ToldToEnd
  <2>3. ~link
    BY <2>1 DEF Told, ToldToEnd
  <2>4. ClientShapes' /\ Agreed'
    BY <2>1, <2>3 DEF Told, ClientShapes, Agreed
  <2>5. ~link' /\ (~s_client' => ~run') /\ \A d \in Callers : call'[d] # "join"
    BY <2>1, <2>2, <2>3 DEF Told, ToldToEnd
  <2>6. ToldToEnd' /\ Seen'
    BY <2>1, <2>5 DEF Told, ToldToEnd, Seen
  <2> QED BY <2>4, <2>6 DEF Told
<1>2. CASE c \in Commanders /\ MqttStop(c)
  <2>1. /\ UNCHANGED <<s_client, s_connected, run, mqtt, link, will, availability, rejoined>>
        /\ c # "mqtt"
    BY <1>2 DEF MqttStop, Commanders
  <2>2. PICK l \in {"idle", "offline", "mqtt stop"} :
          call' = [call EXCEPT ![c] = l] /\ (l = "mqtt stop" => ~s_connected)
    BY <1>2 DEF MqttStop
  <2>3. l = "mqtt stop" /\ link => mqtt = "online"
    BY <2>2 DEF Told, ClientShapes, Agreed
  <2>4. /\ call' \in [Callers -> Plain \cup Farewell]
        /\ \A d \in Callers : call'[d] = IF d = c THEN l ELSE call[d]
    BY <2>2 DEF Told, ClientShapes
  <2>5. ClientShapes' /\ Agreed'
    BY <2>1, <2>4 DEF Told, ClientShapes, Agreed
  <2>6. ToldToEnd'
    BY <1>0, <2>1, <2>4 DEF Told, ToldToEnd
  <2>7. Seen'
    BY <2>1, <2>3, <2>4 DEF Told, Seen
  <2> QED BY <2>5, <2>6, <2>7 DEF Told
<1>3. CASE Interval(c)
  BY <1>3 DEF Interval, Told, ClientShapes, ToldToEnd, Agreed, Seen
<1>4. CASE Offline(c)
  <2>1. /\ UNCHANGED <<s_client, s_connected, run, mqtt, link, will, rejoined>>
        /\ c # "mqtt" /\ mqtt # "online"
        /\ availability' = IF link THEN "offline" ELSE availability
    BY <1>4 DEF Offline, Told, ToldToEnd, Handling, Retained
  <2>2. /\ call' \in [Callers -> Plain \cup Farewell]
        /\ \A d \in Callers : call'[d] = IF d = c THEN "mqtt stop" ELSE call[d]
    BY <1>4 DEF Offline, Told, ClientShapes
  <2> QED BY <1>0, <2>1, <2>2 DEF Told, ClientShapes, ToldToEnd, Agreed, Seen
<1>5. CASE StopClient(c)
  <2>1. /\ UNCHANGED <<s_client, s_connected, mqtt, availability, rejoined>>
        /\ run' = FALSE /\ link' = FALSE /\ will' = (will /\ ~link)
        /\ c # "mqtt" /\ mqtt # "online" /\ call[c] = "mqtt stop"
    BY <1>5 DEF StopClient, Told, ToldToEnd, Handling
  <2>2. /\ call' \in [Callers -> Plain \cup Farewell]
        /\ \A d \in Callers : call'[d] = IF d = c THEN "join" ELSE call[d]
    BY <1>5 DEF StopClient, Told, ClientShapes
  <2> QED BY <1>0, <2>1, <2>2 DEF Told, ClientShapes, ToldToEnd, Agreed, Seen
<1>6. CASE Destroy(c)
  <2>1. /\ UNCHANGED <<run, mqtt, link, will, availability, rejoined>>
        /\ s_client' = FALSE /\ s_connected' = FALSE /\ mqtt = "off" /\ ~run
    BY <1>6 DEF Destroy, Told, ToldToEnd
  <2>2. /\ call' \in [Callers -> Plain \cup Farewell]
        /\ \A d \in Callers : call'[d] = IF d = c THEN "idle" ELSE call[d]
    BY <1>6 DEF Destroy, Told, ClientShapes
  <2> QED BY <1>0, <2>1, <2>2 DEF Told, ClientShapes, ToldToEnd, Agreed, Seen
<1> QED BY <1>1, <1>2, <1>3, <1>4, <1>5, <1>6

LEMMA NextTold == Told /\ [Next]_vars => Told'
<1> SUFFICES ASSUME Told, [Next]_vars PROVE Told'
  OBVIOUS
<1>1. CASE \E t \in Tasks : (Client(t) \/ Console(t)) /\ UNCHANGED client_vars
  BY <1>1, ConsoleCalls, ConsoleTold
<1>2. CASE \E c \in Callers : (Calls(c) \/ Proceeds(c)) /\ UNCHANGED client_vars
  BY <1>2, ConsoleCalls, ConsoleTold
<1>3. CASE Mqtt \/ Connect \/ Switch
  BY <1>3, HandlerTold
<1>4. CASE \E c \in Commanders : Start(c) \/ MqttStop(c) \/ Interval(c)
  BY <1>4, StopTold DEF Commanders
<1>5. CASE \E c \in Callers : Offline(c) \/ StopClient(c) \/ Destroy(c)
  BY <1>5, StopTold
<1>6. CASE LinkLost
  BY <1>6 DEF LinkLost, Told, ClientShapes, ToldToEnd, Agreed, Seen
<1>7. CASE Will
  BY <1>7 DEF Will, console, Told, ClientShapes, ToldToEnd, Agreed, Seen
<1>8. CASE UNCHANGED vars
  BY <1>8 DEF vars, console, client_vars, Told, ClientShapes, ToldToEnd, Agreed, Seen
<1> QED
  BY <1>1, <1>2, <1>3, <1>4, <1>5, <1>6, <1>7, <1>8 DEF Next, Returns, Commanders

\* However connections come and go while mqtt_ha_stop says farewell, waits and ends the
\* client, nobody takes a stopped router for online for good, but for a client that
\* connected during the stop.
THEOREM StoppedIsOffline == Spec => []OfflineWhenStopped
<1>1. Told => OfflineWhenStopped
  BY DEF Told, ClientShapes, Seen, OfflineWhenStopped
<1> QED
  BY <1>1, InitTold, NextTold, PTL DEF Spec
=============================================================================
