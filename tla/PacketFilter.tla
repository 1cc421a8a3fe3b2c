---------------------------- MODULE PacketFilter ----------------------------
(***************************************************************************)
(* What lets a packet through the router: the hooks of the two network     *)
(* interfaces (netif_hooks.c) with LAN isolation, the access control lists *)
(* (acl.c) and the VPN kill switch, while the console and the web server   *)
(* edit them and save them (acl_nvs.c).                                    *)
(*                                                                         *)
(* One packet is followed at a time, since packets do not affect each      *)
(* other; each action is what a hook does between two points at which      *)
(* another task can be seen.  A rule is the set of packets it matches (its *)
(* protocol, addresses, masks and ports) with its action.  The downlink is *)
(* behind NAT, so the rules of the uplink see the router's own address.    *)
(* Counters, capture, NetFlow, MSS clamping and the TTL are left out: they *)
(* decide nothing about where a packet goes.  RouterConfig has the other   *)
(* settings, restarts, and the next-state relation.                        *)
(***************************************************************************)
EXTENDS Naturals, Sequences, FiniteSets

CONSTANTS
  Clients,      \* hosts on the downlink
  Tasks,        \* tasks that edit: consoles, the web server, the button's thread
  Rules,        \* rules the tasks may add, records [from, to, allow]
  MaxRules,     \* MAX_ACL_ENTRIES
  VpnSettings,  \* settings of the VPN the router may have been started with
  MaxEdits,     \* bound on the edits
  NoRule,       \* a slot whose valid flag is clear
  Absent        \* a key that is not in flash

Endpoints == Clients \cup {"router", "net", "tunnel"}
\* Where a client's packet goes: the router's DHCP server, the router itself, the
\* DNS server handed out, a host of the uplink's network, the VPN's subnet, or the
\* Internet.
Destinations == {"dhcp", "router", "dns", "lan", "vpn", "internet"}

ASSUME FilterAssumption ==
  /\ IsFiniteSet(Clients)
  /\ Clients \cap ({"router", "net", "tunnel"} \cup Destinations) = {}
  /\ Rules \subseteq [from : SUBSET Endpoints, to : SUBSET (Destinations \cup Clients), allow : BOOLEAN]
  /\ NoRule \notin Rules
  /\ MaxRules \in Nat \ {0} /\ MaxEdits \in Nat
  /\ VpnSettings \subseteq [enabled : BOOLEAN, killswitch : BOOLEAN, route_all : BOOLEAN]
  /\ VpnSettings # {}

\* In the order of their numbers, and of their keys in flash.
ListOrder == <<"to_esp", "from_esp", "from_eth", "to_eth">>
Lists == {ListOrder[i] : i \in DOMAIN ListOrder}
Slots == 1 .. MaxRules

\* The keys in flash: the lists, and the other settings.
Settings == {"dhcp_res", "portmap_tab", "ssid", "passwd", "ent_username", "mac", "static_ip", "gateway_addr",
             "ap_ip", "ap_dns", "eth_nat", "eth_dhcps", "eth_dhcpc", "hostname", "web_disabled", "web_password",
             "vpn_privkey", "vpn_endpoint", "vpn_enabled", "led_gpio", "led_low", "ls_gpio", "sta_ttl",
             "tx_power", "wifi_cc", "rf_switch", "spi_clk_mhz", "tz"}
Keys == Lists \cup Settings

VARIABLES
  acl_lists,      \* a rule or NoRule in each slot of each list
  isolated,       \* clients whose reservation has the isolation flag
  isolated_count, \* dhcp_isolated_count()
  eth_dhcpc_enabled, \* the Ethernet port is the uplink: no LAN to isolate from
  vpn,            \* vpn_enabled, vpn_killswitch, vpn_route_all, read at boot
  tunnel,         \* "down"; "up"; "stale": connected, but the peer is silent
  packet,         \* the packet on its way
  at, list,       \* where it stands, and the list that is consulted there
  flash,          \* what the keys hold in flash
  todo,           \* what each task's call has still to do
  edits,          \* what MaxEdits counts
  \* history, for the properties
  held, stood,    \* what forbade the packet ever since it came; at some time since
  promised,       \* what flash should hold by the calls made
  doubtful        \* what two calls under way at once both write, or one could not write

tables == <<acl_lists, isolated, isolated_count, eth_dhcpc_enabled>>
tunnels == <<vpn, tunnel>>
travel == <<packet, at, list>>
promises == <<promised, doubtful>>
history == <<held, stood, promises>>
vars == <<tables, tunnels, travel, flash, todo, edits, history>>

NoPacket == [from |-> "net", to |-> "router"]
EmptyList == [i \in Slots |-> NoRule]

Set(key, value) == [op |-> "set", key |-> key, value |-> value]
Step(op) == [op |-> op, key |-> "none", value |-> Absent]
Saves(lists) == [i \in 1 .. Len(ListOrder) |-> Set(ListOrder[i], lists[ListOrder[i]])]

Idle(t) == todo[t] = <<>>
Doing(t, op) == ~Idle(t) /\ Head(todo[t]).op = op
Done(t) == todo' = [todo EXCEPT ![t] = Tail(@)]
-----------------------------------------------------------------------------
(* The lists *)

\* The packet as the hook of a list sees it: NAT has not yet undone, or has
\* already done, its translation.
Seen(l, p) ==
  CASE l = "from_esp" -> [p EXCEPT !.from = "router"]
    [] l = "to_esp"   -> [p EXCEPT !.to = "router"]
    [] OTHER          -> p

Matches(rule, p) == p.from \in rule.from /\ p.to \in rule.to

acl_is_empty(l) == \A i \in Slots : acl_lists[l][i] = NoRule

\* Does acl_check_packet deny?  The first rule that matches decides; a packet that
\* no rule matches passes.
acl_check_packet(l, p) ==
  LET hits == {i \in Slots : acl_lists[l][i] # NoRule /\ Matches(acl_lists[l][i], Seen(l, p))}
      first == CHOOSE i \in hits : \A j \in hits : i <= j
  IN  hits # {} /\ ~acl_lists[l][first].allow

FreeSlots(l) == {i \in Slots : acl_lists[l][i] = NoRule}

\* acl_add: the first free slot.
Added(l, rule) ==
  [acl_lists[l] EXCEPT ![CHOOSE i \in FreeSlots(l) : \A j \in FreeSlots(l) : i <= j] = rule]

\* acl_delete: the rules right behind move up, as far as the next free slot.
Deleted(l, idx) ==
  LET slots == acl_lists[l]
      Moved(i) == i \in (idx + 1) .. MaxRules /\ \A j \in (idx + 1) .. i : slots[j] # NoRule
  IN  [i \in Slots |-> IF Moved(i + 1) THEN slots[i + 1]
                       ELSE IF i = idx \/ Moved(i) THEN NoRule ELSE slots[i]]
-----------------------------------------------------------------------------
(* The way of a packet *)

Private == Destinations \ {"internet"}

\* is_lan_destination, with the exceptions isolation_should_drop makes.
IsolationForbids(to) == to \in Private \ {"dhcp", "dns"}

vpn_is_connected == tunnel = "up"

\* A fault: the kill switch spares nobody.
KillSwitchForbids_All(to) == vpn.route_all \/ to = "vpn"

\* Local destinations are spared; a split tunnel blocks its own subnet only.
KillSwitchForbids(to) == IF vpn.route_all THEN to \notin {"dhcp", "router"} ELSE to = "vpn"

KillSwitchOn == vpn.enabled /\ vpn.killswitch /\ ~vpn_is_connected

\* The tunnel has the route to its subnet, and the default route if it routes all;
\* it keeps them while the peer is silent.
Tunnelled(to) ==
  /\ tunnel # "down"
  /\ to = "vpn" \/ (vpn.route_all /\ to \in {"dns", "internet"})

Move(stage) == at' = stage /\ UNCHANGED list
Consult(l) == at' = "empty" /\ list' = l

\* Where a packet goes on that the list lets through.
Past == Move(CASE list = "from_eth" -> "killswitch"
               [] list = "to_esp"   -> "route"
               [] OTHER             -> "out")

Arrive ==
  /\ at = "none"
  /\ \/ \E c \in Clients, to \in Destinations :
          packet' = [from |-> c, to |-> to] /\ Move("count")
     \/ \E to \in Clients \cup {"router"} :
          packet' = [from |-> "net", to |-> to] /\ Consult("to_esp")
     \/ /\ tunnel = "up"
        /\ \E to \in Clients \cup {"router"} :
             packet' = [from |-> "tunnel", to |-> to] /\ Move("route")
  /\ UNCHANGED <<tables, tunnels, flash, todo, edits, promises>>

\* isolation_should_drop looks at the counter before it looks at the table ...
IsolationCount ==
  /\ at = "count"
  /\ IF isolated_count = 0 \/ eth_dhcpc_enabled THEN Consult("from_eth") ELSE Move("flags")
  /\ UNCHANGED <<tables, tunnels, packet, flash, todo, edits, promises>>

IsolationFlags ==
  /\ at = "flags"
  /\ IF packet.from \in isolated /\ IsolationForbids(packet.to)
     THEN Move("dropped") ELSE Consult("from_eth")
  /\ UNCHANGED <<tables, tunnels, packet, flash, todo, edits, promises>>

\* ... and each hook asks whether its list is empty before it has the packet checked.
ListEmpty ==
  /\ at = "empty"
  /\ IF acl_is_empty(list) THEN Past ELSE Move("check")
  /\ UNCHANGED <<tables, tunnels, packet, flash, todo, edits, promises>>

\* A fault: a client's packet that the list lets through skips the kill switch.
ListCheck_Final ==
  /\ at = "check"
  /\ IF acl_check_packet(list, packet) THEN Move("dropped")
     ELSE IF list = "from_eth" THEN Move("route") ELSE Past
  /\ UNCHANGED <<tables, tunnels, packet, flash, todo, edits, promises>>

ListCheck ==
  /\ at = "check"
  /\ IF acl_check_packet(list, packet) THEN Move("dropped") ELSE Past
  /\ UNCHANGED <<tables, tunnels, packet, flash, todo, edits, promises>>

KillSwitch ==
  /\ at = "killswitch"
  /\ Move(IF KillSwitchOn /\ KillSwitchForbids(packet.to) THEN "dropped" ELSE "route")
  /\ UNCHANGED <<tables, tunnels, packet, flash, todo, edits, promises>>

\* The IP stack, in its own thread: deliver, or send on to the interface that has
\* the route.
Route ==
  /\ at = "route"
  /\ IF packet.from \in Clients
     THEN IF packet.to \in {"dhcp", "router"} \/ Tunnelled(packet.to)
          THEN Move("out") ELSE Consult("from_esp")
     ELSE IF packet.to = "router" THEN Move("out") ELSE Consult("to_eth")
  /\ UNCHANGED <<tables, tunnels, packet, flash, todo, edits, promises>>

Gone ==
  /\ at \in {"out", "dropped"}
  /\ packet' = NoPacket /\ at' = "none" /\ list' = "to_esp"
  /\ UNCHANGED <<tables, tunnels, flash, todo, edits, promises>>

\* The tunnel gets its routes before vpn_connected is set and loses them after it
\* is cleared; in between, and while the peer is silent, it is stale.
TunnelChanges ==
  /\ vpn.enabled
  /\ tunnel' \in (IF tunnel = "stale" THEN {"up", "down"} ELSE {"stale"})
  /\ UNCHANGED <<tables, vpn, travel, flash, todo, edits, promises>>
-----------------------------------------------------------------------------
(* The edits *)

\* A task that is idle calls something that will do these steps.
Call(t, steps) ==
  /\ Idle(t) /\ edits < MaxEdits
  /\ edits' = edits + 1
  /\ todo' = [todo EXCEPT ![t] = steps]

\* What a step writes, the counter of isolated reservations included.
Touches(step) ==
  CASE step.op = "set" -> {step.key}
    [] step.op = "import" -> DOMAIN step.value
    [] step.op = "erase" -> Keys
    [] step.op = "snapshot" -> Lists
    [] step.op \in {"count", "store"} -> {"isolated_count"}
    [] step.op = "save" -> {"dhcp_res"}
    [] step.op = "clear" -> {"isolated_count", "dhcp_res"}
    [] OTHER -> {}

Touched(steps) == UNION {Touches(steps[i]) : i \in DOMAIN steps}

\* The last step that writes a key.
Decides(steps, i, key) ==
  /\ i \in DOMAIN steps /\ key \in Touches(steps[i])
  /\ \A j \in DOMAIN steps : i < j => key \notin Touches(steps[j])

\* What the key holds after a write, and what the keys hold after all of them.
Written(write, key) ==
  CASE write.op = "set" -> write.value
    [] write.op = "import" -> write.value[key]
    [] OTHER -> Absent

Outcome(keys, writes) ==
  LET mine == Touched(writes)
      last(key) == CHOOSE i \in DOMAIN writes : Decides(writes, i, key)
  IN  [key \in Keys |-> IF key \in mine THEN Written(writes[last(key)], key) ELSE keys[key]]

\* A call that will do the steps promises that flash then holds the writes.
Promise(t, steps, writes) ==
  LET mine == Touched(steps)
      theirs == UNION {Touched(todo[other]) : other \in Tasks \ {t}}
  IN  /\ promised' = Outcome(promised, writes)
      /\ doubtful' = (doubtful \ mine) \cup (mine \cap theirs)

\* acl_add, acl_delete or acl_clear under the lock; save_acl_rules follows.
Edit(t, l, slots) ==
  /\ Call(t, <<Step("snapshot")>>)
  /\ acl_lists' = [acl_lists EXCEPT ![l] = slots]
  /\ Promise(t, <<Step("snapshot")>>, Saves(acl_lists'))
  /\ UNCHANGED <<isolated, isolated_count, eth_dhcpc_enabled, tunnels, travel, flash>>

AddRule(t, l, rule) == FreeSlots(l) # {} /\ Edit(t, l, Added(l, rule))

\* A fault: the rule is deleted and nothing is saved.
DeleteRule_Unsaved(t, l, idx) ==
  /\ acl_lists[l][idx] # NoRule
  /\ Call(t, <<>>)
  /\ acl_lists' = [acl_lists EXCEPT ![l] = Deleted(l, idx)]
  /\ Promise(t, <<>>, Saves(acl_lists'))
  /\ UNCHANGED <<isolated, isolated_count, eth_dhcpc_enabled, tunnels, travel, flash>>

DeleteRule(t, l, idx) == acl_lists[l][idx] # NoRule /\ Edit(t, l, Deleted(l, idx))
ClearList(t, l) == Edit(t, l, EmptyList)

\* save_acl_rules copies the lists under the lock ...
Snapshot(t) ==
  /\ Doing(t, "snapshot")
  /\ todo' = [todo EXCEPT ![t] = Saves(acl_lists) \o Tail(@)]
  /\ UNCHANGED <<tables, tunnels, travel, flash, edits, promises>>

\* ... and writes them one by one without it.  (RouterConfig has writes that fail.)
WriteKey(t) ==
  /\ Doing(t, "set")
  /\ flash' = [flash EXCEPT ![Head(todo[t]).key] = Head(todo[t]).value]
  /\ Done(t)
  /\ UNCHANGED <<tables, tunnels, travel, edits, promises>>

\* A reservation is flagged or its flag is cleared; recount_isolated then counts
\* the flags ...
SetIsolation(t, clients) ==
  LET steps == <<Step("count"), Step("save")>>
  IN  /\ clients # isolated
      /\ Call(t, steps)
      /\ isolated' = clients
      /\ Promise(t, steps, <<Set("dhcp_res", clients)>>)
      /\ UNCHANGED <<acl_lists, isolated_count, eth_dhcpc_enabled, tunnels, travel, flash>>

Count(t) ==
  /\ Doing(t, "count")
  /\ todo' = [todo EXCEPT ![t] = <<[Step("store") EXCEPT !.value = Cardinality(isolated)]>> \o Tail(@)]
  /\ UNCHANGED <<tables, tunnels, travel, flash, edits, promises>>

\* ... stores the sum ...
StoreCount(t) ==
  /\ Doing(t, "store")
  /\ isolated_count' = Head(todo[t]).value
  /\ Done(t)
  /\ UNCHANGED <<acl_lists, isolated, eth_dhcpc_enabled, tunnels, travel, flash, edits, promises>>

\* ... and the table is written to flash.
SaveReservations(t) ==
  /\ Doing(t, "save")
  /\ flash' = [flash EXCEPT !["dhcp_res"] = isolated]
  /\ Done(t)
  /\ UNCHANGED <<tables, tunnels, travel, edits, promises>>

\* clear_all_dhcp_reservations, up to its recount.
ClearReservations(t) ==
  /\ Doing(t, "clear")
  /\ isolated' = {}
  /\ todo' = [todo EXCEPT ![t] = <<Step("count"), Step("save")>> \o Tail(@)]
  /\ UNCHANGED <<acl_lists, isolated_count, eth_dhcpc_enabled, tunnels, travel, flash, edits, promises>>
-----------------------------------------------------------------------------
(* What should stop a packet *)

\* Does the list, as it stands, deny the packet?
Denied(l, p) ==
  \E i \in Slots :
    /\ acl_lists[l][i] # NoRule /\ Matches(acl_lists[l][i], Seen(l, p)) /\ ~acl_lists[l][i].allow
    /\ \A j \in 1 .. (i - 1) : acl_lists[l][j] # NoRule => ~Matches(acl_lists[l][j], Seen(l, p))

\* The lists a packet meets on the way it would take now, and the one that is
\* consulted for it: it may have been sent that way before the tunnel had the route.
ListsOnWay(p) ==
  (IF p.from \in Clients
   THEN {"from_eth"} \cup (IF p.to \in {"dhcp", "router"} \/ Tunnelled(p.to) THEN {} ELSE {"from_esp"})
   ELSE (IF p.from = "net" THEN {"to_esp"} ELSE {}) \cup (IF p.to = "router" THEN {} ELSE {"to_eth"}))
  \cup (IF at \in {"empty", "check"} THEN {list} ELSE {})

\* An isolated client reaches nothing private but DHCP and the DNS server it was
\* told ...
Flagged(p) == p.from \in isolated /\ p.to \in {"router", "lan", "vpn"}

\* ... once the edit that isolates it has counted.
Isolation(p) ==
  /\ Flagged(p) /\ ~eth_dhcpc_enabled
  /\ "isolated_count" \notin doubtful \cup UNION {Touched(todo[t]) : t \in Tasks}

\* While the VPN is down, the kill switch leaves a client nothing but the router,
\* or, with a split tunnel, everything but the VPN's subnet.
Shut(p) ==
  /\ p.from \in Clients /\ vpn.enabled /\ vpn.killswitch /\ tunnel # "up"
  /\ p.to \in (IF vpn.route_all THEN {"dns", "lan", "vpn", "internet"} ELSE {"vpn"})

Barriers(p) ==
  {l \in ListsOnWay(p) : Denied(l, p)}
    \cup (IF Shut(p) THEN {"killswitch"} ELSE {})
    \cup (IF Isolation(p) THEN {"isolation"} ELSE {})

\* The history, at every step.
Track ==
  IF at' = "none" THEN held' = {} /\ stood' = {}
  ELSE LET up == Barriers(packet)'
           reasons == up \cup (IF Flagged(packet)' THEN {"isolation"} ELSE {})
       IN  /\ held' = IF at = "none" THEN up ELSE held \cap up
           /\ stood' = IF at = "none" THEN reasons ELSE stood \cup reasons

\* A packet that arrives at the wrong moment may slip through or be lost, but one
\* that a rule, the isolation or the kill switch forbade all the way never leaves:
\* neither the look at an empty list before the check, nor the look at the counter
\* before the table, nor the order of the hooks lets it by.
Barred == at = "out" => held = {}

\* A packet is dropped only by something that forbade it at some time on its way.
Spared == at = "dropped" => stood # {}

\* When no call is under way, each key in flash holds what the last call that wrote
\* it said it saved, power losses and restarts notwithstanding, and the failures of
\* writes of other keys, unless it could not be written or two calls that write it
\* ran at once (save_acl_rules writes a copy of the lists without the lock, and the
\* older copy may be written last).
PromiseKept ==
  (\A t \in Tasks : Idle(t)) => \A key \in Keys \ doubtful : flash[key] = promised[key]
=============================================================================
