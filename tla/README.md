# A formal model of the ESP32 Ethernet router

The router joins an Ethernet segment (the *downlink*, where it is the gateway and
DHCP server) to a WiFi network (the *uplink*, through NAT and, if configured, a
WireGuard tunnel), and adds what a small router needs: access lists, reservations
with LAN isolation, packet capture, NetFlow, syslog, a remote console, MQTT and a web
interface. It runs FreeRTOS tasks on one or two cores. This directory holds TLA+
models of its components, their TLC configurations, and TLAPS proofs about them.

Contents: [the system](#1-the-system), [the plan](#2-the-plan), [modules and
code](#3-modules-and-code), [what the runs show](#4-what-the-runs-show),
[bounds](#5-bounds), [fairness](#6-fairness), [proofs](#7-proofs),
[behaviour that was met and is not excluded](#8-what-the-models-reach-that-the-documentation-does-not-say),
[what is left out](#9-what-is-not-modelled).

## 1. The system

### Who runs what

| thread | runs |
|---|---|
| lwIP thread (`tcpip_thread`) | the DHCP server's message handler and one-second timer, NAPT, the link-output hooks |
| Ethernet receive task, WiFi task | the packet hooks of `netif_hooks.c` (ACL, isolation, capture, NetFlow, statistics) |
| default event loop | WiFi, IP and Ethernet event handlers of `esp32_nat_router.c` |
| `httpd`, serial console, `rcon` | every configuration change, one caller each, not serialised with one another |
| `pcap_server`, `syslog_tx`, `syslog_dns`, `netflow_exp`, `rcon`, the MQTT client | the components' own tasks |
| `esp_timer` | the MQTT publishing timer |

Configuration lives in NVS flash, one key or blob per component, written by whoever
changes it. Power may go at any time.

### Components, state and operations

| component | code | state | operations | what is hard, and what makes it correct |
|---|---|---|---|---|
| DHCP server | `components/dhcpserver/dhcpserver.c` | pool, sorted lease list, next-address pointer, declined flag | `handle_dhcp`, `dhcps_tmr`, start, stop | the address search combines a wrapping pointer, a first-gap search and an early exit; refusals remove list nodes. No address twice, nobody refused while there is room, nobody's lease touched by another's message, leases end |
| reservation table | `main/dhcp_manager.c` | table, atomic counter of isolated entries, NVS blob | add, delete, isolate, clear, load | edited from several tasks without a lock, read by the lwIP thread and the packet hook. Flash follows the table; the counter is exact |
| capture ring | `components/pcap_capture/pcap_ringbuf.c` | buffer, head, tail, fill, drop counter | alloc, free, reset, write, read | three position variables, two-part copies. A bounded queue of whole records |
| capture server | `components/pcap_capture/pcap_capture.c` | mode, snap length, client, semaphore | hooks, server loop, `pcap_set_mode`, `pcap_set_snaplen` | buffer freed while hooks write; semaphore given outside the mutex. No use after free, whole records, everything captured is sent |
| syslog client | `components/syslog/syslog_client.c` | enabled, resolved, socket, queue, buffers, sender task | vprintf hook, sender, connect, enable, disable | the hook runs in every task that logs; a stop waits for a task; a connect gives the lock away. Nothing used after it was freed, runs if and only if enabled, every call ends |
| NetFlow | `components/netflow/netflow.c` | flow table (open addressing), socket, export task | `netflow_account`, sweep and export, enable, disable | export works on table slots outside the lock; disable deletes a task that may hold it |
| remote console | `components/remote_console/remote_console.c` | enabled, session state, captured output | server task, enable, disable, kick, login | flags without a lock, bounded waits against a task that may block for longer. One task at a time, a kick hits its session, told to end it ends, every call returns |
| MQTT / Home Assistant | `components/mqtt_ha/mqtt_ha.c` | client, timer, retained availability | start, stop, event handler, publishing timer | the handler holds the client's lock while it waits for the console; stop, reconnect and retained messages. Home Assistant learns that the router went |
| ACLs | `components/acl/acl.c`, `acl_nvs.c` | four rule lists, hit counters, NVS blobs | check, add, delete, clear, save, load | first match decides; rules move while packets are checked; snapshots are saved outside the lock. What is forbidden never leaves, what nothing forbids passes, flash holds what was saved |
| packet hooks | `main/netif_hooks.c` | per-client statistics, byte counters | input and output hooks on both interfaces, MSS clamping | the order of isolation, ACL, and the VPN kill switch, each looking twice at what others change |
| port mapping | `main/portmap.c` | table, NVS blob, NAPT entries | add, delete, clear, apply | kept consistent with NAPT over address changes |
| VPN manager | `main/vpn_manager.c` | tunnel context, pending flag, default route | connect, reassert, disconnect | asynchronous connect against reconnects; kill switch |
| start-up and events | `main/esp32_nat_router.c` | link states, addresses, retry state | `app_main`, event handlers, factory-reset button | order of events; reconnects |
| Ethernet driver | `components/eth_w5500/` | MAC, PHY and SPI state | receive task, transmit, link check, console reset | two tasks start frames with one transmit buffer, time-outs and power glitches reopen the socket. One SEND at a time, no buffer lost or freed twice, frames in order, the queue moves |
| web server, consoles | `components/http_server/`, `cmd_router/`, `cmd_system/` | login session, settings in flash, the two firmware partitions | pages, commands, import and export, firmware upload | they are the callers of everything above; settings are written key by key and power may go in between. A whole image is always there to boot |

`PROJECT.json` lists the hazards of this code line by line, each with the properties
that would catch it or the reason why none does.

## 2. The plan

Modelled first is what every client depends on and what runs concurrently without a
test: addresses, then the components whose tasks start, stop and share buffers.

1. **DHCP** (done): `DhcpPool`, `DhcpServer`, `DhcpReservations`; proofs of the pool
   arithmetic, of the lease list and its timer, of the persistence of the table and of its
   counter (`DhcpProofs`).
2. **Packet capture** (done): `PcapFifo` (what the ring promises), `PcapRing`
   (implements it), `PcapStream` (the threads around it); both proved (`PcapProofs`).
3. **Syslog** (done): `SyslogClient`; its safety is proved (`ExporterProofs`).
4. **NetFlow** (done): `NetFlow`, the flow table with its probe window, the export that
   sends without the lock, the settings calls; proofs for every table and hash
   (`ExporterProofs`).
5. **Uplink** (done): `WifiStation`, joining and scanning; `Uplink`, tunnel, default route
   and port mappings; their safety is proved (`WifiStationProofs`, `UplinkProofs`).
6. **Ethernet driver** (done): `W5500Mac`, transmit, the driver's task, resets and the link;
   its safety is proved (`W5500MacProofs`).
7. **Remote console and MQTT** (done): `RemoteConsole`, the server task against enable,
   disable and kick; `MqttHa` composes it with the MQTT handler that switches it.
8. **Packet path and settings** (done): `PacketFilter`, isolation, lists and kill switch as
   one way of a packet, with the edits; `RouterConfig` adds the other settings, login,
   import, restarts and firmware.

Left: the first start of the capture server and two NetFlow settings calls at once; the
unlocked lease copy, which needs the lease list node by node; the publishing timer.

Abstract specifications: `PcapFifo`. Every safety property of the runs is proved; still
worth proving are the type invariants that no theorem states yet, and `AddressesDistinct`
with reservations that lie inside the pool and on no leased address.

## 3. Modules and code

`PROJECT.json` maps every definition to its lines. The correspondences that need a word:

**DhcpPool** has no state: the subnet is a pair of constants, addresses are the
host-order numbers both functions compute with. `dhcps_poll_set` keeps a usable pool or
takes the wider side of the subnet; `get_dhcp_pool_range` is the second computation of
the same range for display. The netmask is the same constant for both; the code's second
copy assumes 255.255.255.0, which is the downlink's.

**DhcpServer**: one action for each message (`handle_dhcp` with everything it calls) and
one for each timer tick, because both run in the lwIP thread. `Search` is the walk over
the list with the three quantities it carries, `Remaining` the loop of the timer; both are
recursive functions of how many nodes were visited. `ChosenAddress`, `Located` and `Verdict`
follow `parse_msg` in order. Answers are reduced to their verdict and address.
Reservations are what `lookup_dhcp_reservation` returns per client and change between
messages. The code compares network-order words; inside one /24 on this little-endian CPU
that is the order of the host numbers, and the user interfaces accept reservations in
the /24 only.

**DhcpReservations**: every point where another task can run between two accesses of an
operation is a step boundary: search, fill, count, store, save. `Reboot` may come between
any two. A save may fail, which leaves the table ahead of flash: `set_config_param_blob`
tells the caller, and nobody takes the edit back (`dhcp_manager.c:166`, 181, 198). Three history
variables say what such a module cannot promise: `outdated` has the tasks whose scan another
task has overtaken, `stale` that the count stored last was of such a scan or an addition has
overwritten an isolated entry since, `unsaved` that the last save failed.

**PcapRing** is `pcap_ringbuf.c` under its mutex, byte by byte, including what the buffer
still holds from before (`malloc` clears nothing). **PcapFifo** is what both sides rely
on; `PcapRing!ImplementsFifo` maps `queue` to the bytes from tail, wrapped.

**PcapStream** has the threads: each action is what runs between two points where another
thread can be seen. It uses the queue `PcapRing` implements and holds *parts* of records:
a record of length n is the parts 1..n, so that a cut or a mix of records is visible.

**SyslogClient**: the hook, the sender, and the callers of enable, disable and connect.
A call to the hook completes a line or not. `Panic` is what FreeRTOS does when the hook
passes a null handle: it asserts and the chip restarts. A stop may time out at any moment
while the sender is still there.

**NetFlow**: a slot holds which flow it has, how long it has been silent, how old it is,
and (a history field) whether it was sent; counters are left out. The hook is three steps:
the checks, the try for the mutex (a packet is skipped if it is taken), and the search. The export
task reads each slot in a step of its own, without the mutex. Every settings call is a
sequence of steps at which hook and export may come in; one call runs at a time. `vTaskDelete`
leaves the mutex as it is. `CountFreed` is the panic of a hook whose table was freed after
its check, `Restart` a reset at any moment; both end in `netflow_init`.

**WifiStation**: the event handler and the programs of consoles and web server, cut at
every access to `ap_connect` and `wifi_scan_active`. Check and assignment of the mark at the
end of a scan are one step: to write FALSE where FALSE was found changes nothing. The
driver joins, loses the network and posts its events at will; a scan cannot start while
it joins or scans. `scan_page` is a history variable, as are the two counts.

**Uplink**: the same handlers as far as they concern tunnel, route and port mappings, with
`vpn_connect` in its task and the edits of an administrator. `Recompute` is what esp_netif
does to `netif_default`, at the lease itself; the handler comes later. `Critical` names the
steps between which tables, addresses and flags disagree, `overlapped` records that two
tasks were in such steps at once, `slipped` that the route was lost, or never set,
inside `vpn_connect`, and `unsaved` that the last write of the mappings failed: `add_portmap`
and the others then go on with the NAT engine all the same (`portmap.c:112`). Slots without a
mapping all look alike. That no port is mapped twice is an assumption (`AddPortmap`): the
program does not look. The rebinding in `app_main` (`esp32_nat_router.c:1070`) repeats what the
first lease does and is left out.

**W5500Mac**: the lwIP thread (`emac_w5500_transmit`), the driver's task, the PHY's timer
(link poll, stop and start) and a console (`w5500 reset`) are programs cut at every access to the
chip or to the semaphore. The chip is external: one transmit buffer, a SEND that ends
sooner or later, interrupts, and a supply that may break down and forget every register.
Frames are numbers. `early` is a history variable: a time-out was declared for a frame
that was not overdue, after which the comment at `esp_eth_mac_w5500.c:233` is wrong.

**RemoteConsole** is the console task cut where it may block, and the calls cut where they
write flash or wait, and between a look at the shared state and the deed that follows from it:
`LookForTask` and `Spawn` (`remote_console.c:312`, 314), `Kick` and `RequestKick` (405, 409). The
tasks are preemptive, and in between others may run. `raced` records that two enables have stood
between look and creation at once. It has no specification of its own: **MqttHa** extends it
with the MQTT client and its handler and has the next-state relation, because the handler and a
session's own commands are among the callers. The handler runs with the client's lock, so
`Offline` and `StopClient` wait while it runs. The broker is external: it keeps the last
retained availability and sends the last will of a client that did not say DISCONNECT.

**PacketFilter** follows one packet at a time, since packets do not change what decides about
other packets (the counters are left out). A rule is the set of packets it matches,
so address masks, protocols and ports are data. `Route` is the IP stack between the hooks.
`held` is what has forbidden the packet at every moment since it came, `stood` what has at
some moment; `Barriers` states what forbids a packet without reference to the hooks.
**RouterConfig** extends it with the callers: a call is the sequence of steps it does
(`todo`), each a write of a key or a change in RAM, and a restart may come between any two.
`promised` is what flash ought to hold if every call ran to its end, `doubtful` the keys
that two calls under way at once both write, or that could not be written. Any write may fail
(`WriteFails`; a key of an import by itself in `ImportKey`), and with it goes what the call does
only after a success (`Depends`): `set_sta` gives up at the first key, `set_ap_ip` clears the
reservations and mappings only if the new address was stored, and so on. The next call
that writes such a key takes it out of doubt. After a restart the VPN settings are any of
`VpnSettings`, whatever the keys hold; they are not what these properties are about.

Operators whose comment begins with "A fault:" or "Fault:" are not part of any specification. Each
is the code with one plausible bug; a property is kept only if it notices one of them.

## 4. What the runs show

| run | instance | properties |
|---|---|---|
| `DhcpPoolOnly` | four clients, pool of three, every router address in a subnet of six hosts, no reservations | `PoolSafe`, `PrintedPoolIsServed`: the pool is right and the printed one is it; `AddressesDistinct`: no address to two clients; `ServedWhileFree`: nobody refused while an address is free; `StalestGoFirst`: the timer takes leases in order of age |
| `DhcpReserved` | two clients, a pool of two, the router's address and another below it, one above it, two reservations | `ReplyMatchesLease`: what was answered is what is recorded; `OthersUntouched`: no message affects another's lease; `ReservedAddressKept`: fresh leases avoid others' reservations; `LeaseEndsOrRenewed` (liveness) |
| `DhcpReservations` | two tasks, three clients, two slots, power losses, saves that fail | `CountExactWhenIdle`: the counter is exact however edits overlap, but for two orders of steps; `PersistedWhenIdle`: flash is the table however edits overlap, unless the last save failed |
| `PcapRing` | ring of five bytes, records of two and three | `ImplementsFifo` (refinement) |
| `PcapStream` | two hooks, the server, one user, ring of four parts | `NoUseAfterFree`; `StreamFramed`: whole records back to back; `CapturedIsSent` (liveness) |
| `SyslogClient` | one administrator, one connecting task, two that log, queue of one | `BuffersHeld`, `SenderHasQueue`: nothing used after it was freed; `RunsIffEnabled`: operations that do not overlap leave it running or empty; `CallsEnd` (liveness, and absence of deadlock among the two mutexes and the stop) |
| `NetFlow` | two slots, three keys, one direction, one timeout of one tick | `OneFlowPerKey`; `TaskHasTable`: the export task never meets a freed table; `SentOnce`: no packet reported twice; `StalestEvicted`; `FlowsLeave` (liveness) |
| `WifiStation` | two consoles, the web server, four events of the driver or restarts, three scans or page loads | `KeepsTrying`: scans at consoles never leave the router offline for good, however they come between a loss and its handler |
| `Uplink` | one administrator, two addresses, two ports and slots, all VPN settings, three events or restarts, two edits, writes that fail | `NatFollowsTable`: NAT engine, table, flash, addresses and flags agree when no rebuilds overlapped; `TunnelKeepsRoute`: the tunnel gets the default route back |
| `W5500Mac` | the four threads, see section 5 | `SendsSerialized`: one SEND at a time, the buffer not written under it; `BuffersKept`: each frame's buffer is freed once; `InOrder`; `QueueMoves` (liveness: the queue is emptied whatever resets come) |
| `MqttHa` | one console, the handler and a session as callers, two interfaces, two connections | `OneTask`, unless two enables raced; `OfflineWhenStopped`: the broker shows a router that was stopped as gone, or will; `KickHitsItsSession`; `ShutdownEnds`, `CallsReturn` (liveness, and absence of deadlock among session, handler and callers) |
| `RouterConfig` | one client, one console, the web server, the button, a rule that denies and one that allows in two slots, three settings of the tunnel, two calls, one write that fails | `Barred`: what was forbidden all the way never leaves; `Spared`: what was dropped was forbidden at some moment; `PromiseKept`: flash holds what the calls said, apart from races and the keys that could not be written; `ImageKept`: a whole image can be booted |

Properties that are stated with a history variable (`~overlapped`, `~timed_out`, `~cut`,
`~stale`, `~unsaved`, `~raced`, `fresh`, `~early`, `~rejoined`, `doubtful`) do not hold without
it. The hazards list names what happens then. Type invariants are proved (section 7) or were checked beside these
properties while the modules were written; they are not among the runs.

## 5. Bounds

* DHCP: three pool addresses are enough for the pointer to wrap, for a gap in the middle
  and for a full pool; the fourth client is the one that finds none. Leases live for two
  or three ticks, so that timers of different age and the eviction above `MaxStations`
  meet. With reservations the pool is two addresses; below it are the router's own
  and one more, so that a reservation can lead the pointer to the router's, and one is above.
* Reservations: two tasks are what a race needs; three clients for two slots make the
  table full.
* Ring: size 5 is coprime to the record and read lengths, so every wrap position occurs.
* Stream: packets (2) and user actions (3) are bounded by `MaxPackets`, `MaxEdits`; a ring
  of four parts holds one record and part of another, reads take two parts.
* Syslog: calls of the hook (3) and of enable, disable and reconnect (2, besides the
  connect at boot) are bounded by `MaxLines` and `MaxEdits`; a queue of one is full with
  one line, so that the pill may not fit.
* NetFlow: two slots with a window of two are full with two of the three keys, the window
  of one key wraps, and a clear opens gaps on either side of a flow. Time stands still
  while a flow is `MaxAge` old, which is the timeout: expired by silence and expired by
  age alone both occur. The hooks of both directions do the same; one is enough, because the
  other tasks supply the contention.
* Station: three scans or pages let two consoles and a page overlap; four events let a
  joining fail, a lease come and go, and a restart follow.
* Uplink: three events are a lease that connects the tunnel and two more to disturb it,
  or its loss and a new lease; two slots hold a mapping for either interface. Four events
  with two edits were checked once as well (five million states).
* Driver: one buffer, so that the queue is full with one frame and the pool empty; three frames, so
  that one is written directly, one waits and one follows; one power glitch, pulled cable or console
  reset at any moment.
* MQTT and console: three calls or losses of the link let a disable time out, an enable follow
  and a stop come in between; two connections let a kick outlive its session; two attempts
  are the first and the last. Two tasks exist in the model although one should, so that
  a second is visible.
* Settings: two calls let any two overlap, in any interleaving of their steps, with restarts at
  any point, also between an upload and the restart that follows it; two slots let a rule stand before
  another and move up. One write fails (`MaxFailures`): a second failure adds keys in doubt and drops
  steps in the same way, and what the first leaves is then met by the rest of its call and by the
  other. Flash starts factory-fresh or with a firewall, an isolated client and a
  password of older firmware.
* `Focus` (a state constraint of `RouterConfig`): packets are followed and the tunnel moves only
  while flash, firmware, session and file are as at first, apart from the uplink's
  switch, no write has failed, and no edit under way has begun to write flash. What decides about
  a packet does not read any of these, so
  each way of a packet through each table and tunnel is still there; without it the instance
  is the product of two that do not touch.
* An export is taken when no call is under way.
* Symmetry is used where no property is temporal and tasks or clients are interchangeable.
* `CHECK_DEADLOCK FALSE` stands where an instance may come to rest: a DHCP server that is
  never started again with no reservations to edit, or all bounds exhausted.

## 6. Fairness

`DhcpReservations`, `PcapRing`, `WifiStation`, `Uplink` and `RouterConfig` have safety properties only and
assume none.

* `DhcpServer`: weak fairness of the timer; lwIP re-arms it as long as the server runs.
* `PcapStream`: weak fairness of every thread that is in the middle of something. Nobody
  has to send packets, connect or change settings. `Send` is one step that ends: the
  client reads, or its socket fails. (A client that neither reads nor goes away blocks
  `send` for as long as TCP keeps the connection.)
* `SyslogClient`: weak fairness of the sender and of a hook under way, strong fairness of
  the callers: FreeRTOS hands a mutex to the longest waiting task of the highest
  priority. Name resolution ends with or without an address, as lwIP's resolver does.
* `NetFlow`: weak fairness of a hook under way and of time; strong fairness of the export
  task and of the settings call, which wait for a mutex the hooks hold briefly and never
  wait for.
* `W5500Mac`: weak fairness of the threads, of time, and of the chip: a SEND ends or the power
  comes back. `QueueMoves` assumes besides that the receive loop comes to an end again and
  again (`DrainEnds`), which the code does not ensure: `packets_remain` keeps its value when a
  reset empties the chip, and a flood of frames may outrun the loop.
* `MqttHa`: weak fairness of the console task's own steps (its waits for a client, a socket and
  input have time limits, and a command ends), of the steps of a call under way, of the
  MQTT handler and of the broker's will. A caller that waits for the client's lock gets it
  because the handler ends; nothing is assumed of clients, operators and links.

## 7. Proofs

All proofs are checked by TLAPS for every value of the constants that the named
assumptions of the modules allow, and TLC finds what is proved true on the instance of its
run.

**DhcpProofs** (`DhcpServer`, `DhcpReservations`)
* The pool rests on `SubnetAssumption` (four addresses) and `DhcpAssumption`.
  `WiderSideSafe` is the arithmetic: the larger of the two distances to the edges of the
  subnet is at least two. The invariant is `PoolSafe` and `PrintedPoolIsServed` with the
  types of the two variables; `PoolFixed` shows that only `dhcps_start` moves the pool.
  Results: `PoolAlwaysSafe`, `PrintedPoolAlwaysServed`.
* The leases, with any reservations that come and go: the invariant `ServerOK` says that each
  client has one node (`OneEach`) and no timer is zero (`Live`), besides the types.
  `InsertKeeps`, `RemoveKeeps` and `RefreshKeeps` say what the three changes of the list do
  to it and to the leases of others; `Survivors` says which nodes a tick leaves and where
  each comes from. Results: `ReplyAlwaysMatches`, `OthersAlwaysUntouched`,
  `ReservedAlwaysKept`, `StalestAlwaysFirst`.
* The search, with no reservations (`MaxReservations = 0`, the hypothesis of both theorems):
  `AddressesDistinct` is not inductive. `PoolOnly` is: the list is strictly ascending and inside
  the pool, and the pointer is at most one behind it. `Searched` is the invariant of the walk:
  neither candidate is an address visited so far, and everything from the start of the pool
  up to the first free one is. An address stepped past by the pointer comes later in the list
  or not at all, because the list ascends (`SearchStep`, `ChosenFree`); it is where the
  fault `Visit_NoStep` breaks. Results: `AddressesAlwaysDistinct`, `AlwaysServedWhileFree`.
* That the recursive functions behind `Search` and `Remaining` exist is itself proved
  (`StagesExist`). Both parts assume of the constants that what stands for no client is none
  (`NoMac \notin Macs`, part of `DhcpAssumption`).
* The table: `PersistedWhenIdle` is not inductive. `SaveAhead` is: while flash differs from
  the table, the last save failed or some task has its save still ahead. `CountExactWhenIdle`
  needs `Counted`: unless `stale`, the counter is exact or a task has yet to scan or to store
  (`CountAhead`), and whoever has scanned and was not overtaken holds the exact number
  (`CountFresh`). Results: `FlashFollowsTable`, `CounterAlwaysExact`, for any number of tasks and
  however their edits overlap.

**PcapProofs** (`PcapRing`, `PcapStream`)
* The ring: the invariant is the type invariant and `HeadFollowsTail`; lemmas say
  what one write and one read do to `Contents`, by cases on the wrap. Results:
  `PositionsAgree`, and `RingImplementsFifo`: every step of the ring is a step of the
  queue or changes nothing.
* The threads: `NoUseAfterFree` needs that whoever stands behind the mutex holds it (`Locked`)
  and that the buffer is there for a session only (`BufferOfSession`). `StreamFramed` needs
  that what hooks write is one whole record each (`Built`), and that what the client has
  got, the server holds and the ring holds follow one another and end with a record
  (`Framed`); `SoundAppend`, `SoundSuffix` and `SoundPrefix` are the three things that
  happen to such a sequence: a write, a send, a reset between two records. Results:
  `NeverUsedAfterFree`, `StreamAlwaysFramed`, for any number of hooks and users.

**ExporterProofs** (`SyslogClient`, `NetFlow`)
* `BuffersHeld` needs that the mutexes are held by whoever stands behind them (`Holders`);
  `SenderHasQueue` needs that a sender always has a queue, that one is there when it is
  started, and that there is no sender when it is deleted (`QueueKept`). `RunsIffEnabled`
  speaks of moments of rest; the invariant says for each place of an operation that runs
  alone what it has done and left (`Phases`). Results: `BuffersAlwaysHeld`,
  `SenderAlwaysHasQueue`, `AlwaysRunsIffEnabled`, for any number of tasks.
* The flow table rests on `NetFlowAssumption` (the hash yields a slot, the window is no
  larger than the table). `OneFlowPerKey` needs that every flow lies in the window of its
  key (`InWindow`); `SentOnce` needs that a sent flow is on the list of the sweep that will
  clear it (`SentListed`), and where task, settings call and table may stand with
  each other (`Exclusion`). `CountReplaces` says what one packet does to the flow of a slot.
  Results: `FlowsNeverSplit`, `TaskAlwaysHasTable`, `FlowsSentOnce`, `AlwaysStalestEvicted`.

**WifiStationProofs**: `KeepsTrying` speaks of moments at which all is handled; the
invariant says who will join while something is not. An idle station has a start or a
loss in the queue, or a scan under way that will find `ap_connect` false (`Answered`); a set
mark belongs to a scan under way (`Suppressed`); the lease of a network that was lost
has the loss behind it in the queue (`Outlived`). Lemmas say what posting to and
removing from the queue do to these. Results: `StationTypes`, `AlwaysKeepsTrying`, for any
number of consoles.

**UplinkProofs**, from `UplinkAssumption`
* The route: whenever the tunnel ought to have it, it has it or the event task
  is on its way to reassert it (`Ahead`), or `vpn_connect` is about to set it; and between
  setting it and `vpn_connected` a loss is recorded (`Fresh`). Result:
  `TunnelAlwaysKeepsRoute`.
* The mappings: `NatFollowsTable` speaks of moments at which no task is in a critical
  step. `Phase` says for each critical step what of NAT engine, table, flash and tunnel
  still differs (after `add_portmap` found its slot, the NAT engine lacks exactly the new
  port; flash is behind only before its write or after one that failed), and `Alone` that
  unless two rebuilds overlapped only one task is in one. Result: `NatAlwaysFollowsTable`,
  for any number of administrators, ports and slots.

**W5500MacProofs**, from `W5500Assumption`: unless a time-out was mistaken, the idle
semaphore is taken for one of four reasons, and for one only: the lwIP thread writes a
frame, the task does, the chip sends, or `SIR_SEND` waits to be seen (`Serial`). `Apart` and `NoneLost` place
each buffer in the pool, the queue, or one of two hands; `Ordered` compares the frames
that wait with the one sent last. Results: `SendsAlwaysSerialized`, `BuffersAlwaysKept`,
and the action property `FramesInOrder`, for any pool and any number of glitches and resets.

**MqttHaProofs**
* The console, as long as enables have not raced (the invariant is `raced \/ Sound`, and `RaceKept`
  says that the first is for good): that there is one task needs that a task that exists is the one
  the handle names (`Named`), and that the handle stays clear while the one enable that has
  looked at it creates its task (`SpawnAlone`);
  `KickHitsItsSession` needs that while a session is served, a kick it may see was meant
  for it, unless the console is to end (`KickMeant`). Results: `AlwaysOneTask`,
  `KicksAlwaysHit`, for any number of callers and connections.
* `OfflineWhenStopped` needs that whoever the broker shows as online has a will with it or
  came back while it was stopped (`Seen`), which needs in turn that a client told to end has
  no connection (`ToldToEnd`) and that its task takes no connection for up that the broker
  has closed (`Agreed`). Result: `StoppedIsOffline`.

**RouterConfigProofs** (`PacketFilter`, `RouterConfig`), for any rules, clients, tunnel settings
and initial contents of flash
* `Barred` and `Spared` need what may still have forbidden a packet at each place of its
  way (`OnItsWay`): what it has passed cannot have forbidden it all along. `Tracked`
  relates the two history variables to what forbids the packet now.
* `PromiseKept`: each key that is not in doubt holds what was promised, or the last step of the
  one call that will still write it writes just that (`Solo`, `Foretold`), for which the
  copy of the lists and the count of isolated entries must come before anything else of
  their call (`SavesFirst`) and the counter must be exact or about to be (`Settled`). A write
  that fails drops a prefix of what its call has left to do; `FailureLeaves`, `RestTouched` and
  `RestPrompt` say that what is left is a rest of the same call and that every key it no longer
  writes is in doubt.
* Results: `ForbiddenNeverLeaves`, `DroppedForAReason`, `PromiseAlwaysKept`, `ImageAlwaysKept`.
  The proof of the second corrected the model: `ListsOnWay` had left out the list that is
  being looked at, which no rule of the checked instance showed; a rule that matches traffic
  to the router and a tunnel without kill switch, now part of the instance, do.

The installed provers cannot use the induction rules of the library, which take an operator.
Where one is needed (that there is a first free slot, what a recursive function over the lease
list yields) the proof argues by a least counterexample, with the well-founded order on
finite sets (`Smallest`).

Only model-checked is liveness (`CapturedIsSent`, `CallsEnd`, `FlowsLeave`,
`LeaseEndsOrRenewed`, `QueueMoves`, `ShutdownEnds`, `CallsReturn`), and with it the absence of
deadlock: TLAPS does not reason about fairness and ENABLED.

## 8. What the models reach that the documentation does not say

None of these is excluded by a property, and the models have each as a reachable state.

* A disable during a name resolution is followed by `start_sender` (`syslog_client.c:413`), so
  the client is disabled and holds its queue, buffers, task and socket, although
  `syslog_client.c:15` says they are "destroyed on disable".
* `netflow_disable` deletes the export task (`netflow.c:515`) also while it holds the mutex that
  the next statement waits for (`netflow.c:520`): the command never ends and the table is not
  freed, although `README.md:543` says "disable and free flow table RAM".
* The end of a scan clears `wifi_scan_active` without joining (`esp32_nat_router.c:404`), and the
  page loaded next finds nothing to resume (`http_server.c:550`), although `http_server.c:546`
  says that "navigating away from /scan (or any other page load) restarts the connection
  process". A network lost while the scan page was open is not joined again until the router is
  restarted or somebody scans at a console.
* A reservation below the pool leads the next-address pointer there (`dhcpserver.c:1175-1180`):
  it is then the address after the reserved one, and clients without a reservation get
  addresses below the pool, the router's own among them, until the pointer passes the end of
  the pool or the server is started anew.
* A reservation above the pool is refused (`dhcpserver.c:1186`), although 1147 says it is used
  "regardless of pool range".
* A lease between `vpn_manager.c:83` and 98 takes the default route from a tunnel that is not
  yet marked connected, and nothing gives it back until the next event, although 120 says it is
  reasserted whenever such an event fires.
* A time-out for SEND may be declared for a frame that has just begun
  (`esp_eth_mac_w5500.c:1006`), after which two SENDs overlap, although the comment at 233 says
  one is started at a time.
* A disable of the remote console gives up after 3 s (`remote_console.c:357`), less than the 5 s
  after a wrong password; an enable then finds the handle set, and the console is
  enabled with a task that ends (311-328).
* Two enables, of the MQTT handler and a console for instance, that both find the handle clear
  (`remote_console.c:312`) before either has created its task (314) start two on the same
  static buffers. In the model one of them is overtaken, between its setting of `enabled` and its
  look, by a disable and the other enable; in the program both may also find `enabled` false (304).
* A kick decided for a session that ends (405) may be requested when the next has begun (409).
* The count of isolated entries that is stored last may be of a scan that another edit has overtaken
  (`dhcp_manager.c:33`), and an addition may overwrite the isolated entry that was put into the slot
  it had found (149-158). The counter is then wrong until the next count; at 0 isolation is off.
* A table that cannot be written is reported to the caller and stays in force: reservations and
  port mappings of an edit that failed hold until the next restart, or are saved with the next edit
  (`dhcp_manager.c:166`, `portmap.c:112`).
* `mqtt_ha_stop` while CONNECTED is being handled leaves the retained "online" at the broker
  (`mqtt_ha.c:524`).
* Of two overlapping saves of the lists the older copy may be written last (`acl_nvs.c:19-42`).
* An edit of a list within the seconds between an import and the restart writes the lists of before
  the import over the imported ones (`http_server.c:493`, `acl_nvs.c:36`).
* A tunnel that falls between the kill switch and the route lets that packet out
  (`netif_hooks.c:593`).

Read in the code and not in a model: `set_ap_ip` means to compare the first three octets of
two addresses and masks words in network order (`cmd_router.c:731`), which are the last three.

## 9. What is not modelled

The status LED: it maps the link state to colours and keeps nothing another part reads. Within
the modelled components:

* DHCP and hooks: packet bytes and options, host names, DNS settings, allocation failures
  (except the capture buffer's), the unlocked copy of the lease list for the web page;
  counters of clients, bytes and rules, the TTL override, MSS clamping, the ICMP message about the path MTU.
* Tasks: the first start of the capture server, the publishing timer of MQTT against the
  destruction of its client, two `mqtt disable` at once, two NetFlow settings calls at once.
* Contents: syslog lines, NetFlow records, MQTT discovery and state messages, captured
  command output, the redirection targets of port mappings.
* Driver: the set-up of the chip, its address filters, polling instead of interrupts, time-outs of the
  SPI lock, construction and removal.
* Flash: an `nvs_set` that succeeds is durable at once, so that there is no commit that fails
  after it; a namespace is erased whole or not at all; a failure to open it is the failure of
  the first write. What the components of the other modules write (the switches of capture, syslog,
  NetFlow, console and MQTT) is left out with its failures.
* Remote console: check and assignment of `enabled` are one step; two tasks, once they exist, each
  act as one would, and what they do to each other's sockets is left out.
* Web server and consoles: HTML, the captive portal's DNS, the parsing of arguments, the commands
  that only show or send something (show, scan results, ping, iperf, wol, tasks) or sleep, and the value of a
  setting unless something here reads it.
* Start-up: the interfaces `app_main` creates and the rebinding of port mappings before any
  address is known; the Ethernet uplink mode apart from its switch.
