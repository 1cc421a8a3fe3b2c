------------------------------- MODULE Uplink -------------------------------
(***************************************************************************)
(* The default route and the port mappings of the router: the event task   *)
(* that reacts to WiFi and Ethernet (esp32_nat_router.c), the task that    *)
(* brings the WireGuard tunnel up (vpn_manager.c), the port mappings that  *)
(* follow the addresses (portmap.c), and administrators who edit them.     *)
(* None of these takes a lock: what another task may come between is a     *)
(* step of its own.  The loops over the mappings are one step each; that   *)
(* two tasks were in the steps between which mappings, addresses and flags *)
(* disagree is recorded, and then nothing more is claimed of the mappings. *)
(*                                                                         *)
(* External, modelled from its use: esp_netif, which puts the interface    *)
(* with the highest priority in lwIP's netif_default on every lease and on *)
(* interfaces coming and going, the table of the NAT engine, and the       *)
(* WireGuard library, whose calls may fail.  What the handlers tell the    *)
(* DNS, syslog and NetFlow is left out; joining again is in WifiStation.   *)
(***************************************************************************)
EXTENDS Naturals, Sequences, FiniteSetsExt

CONSTANTS
  Admins,      \* console and web server
  Addresses,   \* that the WiFi network may lease to the router
  TunnelIP,    \* the address of the tunnel, vpn_ip
  NoIP,        \* 0
  Ports,       \* protocol and external port of a mapping
  NoPort,      \* of a slot whose content is never used
  TabSize,     \* IP_PORTMAP_MAX
  Modes,       \* settings of the VPN in flash at power on
  MaxEvents,   \* bound on what happens on the links, and on restarts
  MaxEdits     \* bound on what the administrators do

ASSUME UplinkAssumption ==
  /\ TabSize \in Nat \ {0} /\ MaxEvents \in Nat /\ MaxEdits \in Nat
  /\ NoIP \notin Addresses \cup {TunnelIP}
  /\ NoPort \notin Ports
  /\ Modes \subseteq {"off", "incomplete", "split", "all"}
  /\ Admins \cap {"events", "vpn"} = {}

Slots == 1 .. TabSize
Tasks == {"events", "vpn"} \cup Admins

VARIABLES
  sta_up,          \* the station has joined a network and has a lease
  netif_default,   \* the default route: "none", "eth", "sta" or "wg"
  wg_netif,        \* wg_ctx.netif # NULL
  events,          \* the event loop's queue; its head is handled, then removed
  napt,            \* the mappings in force: port and the address it is bound to
  vpn_mode,        \* vpn_enabled, a complete configuration, vpn_route_all
  pc,              \* where a task stands
  edit,            \* the mapping an administrator adds or deletes
  eth_link_up, my_ip,
  vpn_connected, vpn_tunnel_ip, wg_initialized,
  ap_pmtu,         \* ap_pmtu # 0, and with it ap_mss_clamp # 0
  portmap_tab, nvs_portmap_tab,
  \* history, for the properties
  happened, edits, \* what the bounds count
  overlapped,      \* two tasks were in Critical steps at once
  slipped,         \* the tunnel lost or did not get the default route in vpn_connect
  unsaved          \* the last write of the mappings to flash failed

route == <<netif_default, slipped>>
tunnel == <<wg_netif, vpn_connected, vpn_tunnel_ip, wg_initialized, ap_pmtu>>
link == <<sta_up, eth_link_up, my_ip>>
flash == <<nvs_portmap_tab, unsaved>>
maps == <<napt, portmap_tab, flash>>
counts == <<happened, edits>>
vars == <<route, tunnel, link, maps, edit, counts, events, vpn_mode, pc, overlapped>>
-----------------------------------------------------------------------------
Unused == [valid |-> FALSE, port |-> NoPort, iface |-> "sta"]
Mapping == [valid : BOOLEAN, port : Ports, iface : {"sta", "vpn"}] \cup {Unused}
Event == [type : {"lost", "got_ip", "eth_up", "eth_down"}, ip : Addresses \cup {NoIP}]
Plain(type) == [type |-> type, ip |-> NoIP]
Handled == Head(events)

At(t, l) == pc[t] = l
Goto(t, l) == pc' = [pc EXCEPT ![t] = l]

\* From the launch of vpn_connect_task to its end.
vpn_connect_pending == ~At("vpn", "idle")

\* The steps between which the mappings, the addresses they are bound to and the
\* tunnel's flags do not agree.
Critical == {"unflag", "untunnel", "delete", "apply", "remove", "forget", "flag",
             "tunnel", "store", "map", "erase", "unmap", "cleared"}
Labels == Critical \cup {"idle", "reassert", "set", "launch", "wait", "init", "peer",
                         "route", "tune", "finish"}
InCritical(t) == pc[t] \in Critical
Overlap == \E t, u \in Tasks : t # u /\ InCritical(t) /\ InCritical(u)

\* netif_default is computed anew: the station (100) comes before the Ethernet (10).
\* The tunnel loses it; if vpn_connect has set it and vpn_connected not yet, nobody
\* will notice.
Recompute(up, cable) ==
  /\ netif_default' = IF up THEN "sta" ELSE IF cable THEN "eth" ELSE "none"
  /\ slipped' = (slipped \/ pc["vpn"] \in {"tune", "flag"})

TabEntries == {portmap_tab[s] : s \in {i \in Slots : portmap_tab[i].valid}}

\* Tables that administrators leave in flash: no port is mapped twice.
Tables == {t \in [Slots -> {m \in Mapping : m.valid} \cup {Unused}] :
             \A i, j \in Slots : t[i].valid /\ t[j].valid /\ i # j => t[i].port # t[j].port}

BootPc == [t \in Tasks |-> "idle"]

Init ==
  /\ sta_up = FALSE /\ netif_default = "none" /\ wg_netif = FALSE
  /\ events = <<>> /\ napt = {}
  /\ vpn_mode \in Modes
  /\ pc = BootPc
  /\ edit = [a \in Admins |-> Unused]
  /\ eth_link_up = FALSE /\ my_ip = NoIP
  /\ vpn_connected = FALSE /\ vpn_tunnel_ip = NoIP /\ wg_initialized = FALSE
  /\ ap_pmtu = (vpn_mode # "off")
  /\ portmap_tab \in Tables /\ nvs_portmap_tab = portmap_tab
  /\ happened = 0 /\ edits = 0 /\ overlapped = FALSE /\ slipped = FALSE /\ unsaved = FALSE

\* Power loss or reset: the mappings come back from flash (get_portmap_tab).
Restart ==
  /\ happened < MaxEvents /\ happened' = happened + 1
  /\ sta_up' = FALSE /\ netif_default' = "none" /\ wg_netif' = FALSE
  /\ events' = <<>> /\ napt' = {}
  /\ pc' = BootPc
  /\ edit' = [a \in Admins |-> Unused]
  /\ eth_link_up' = FALSE /\ my_ip' = NoIP
  /\ vpn_connected' = FALSE /\ vpn_tunnel_ip' = NoIP /\ wg_initialized' = FALSE
  /\ ap_pmtu' = (vpn_mode # "off")
  /\ portmap_tab' = nvs_portmap_tab
  /\ overlapped' = FALSE /\ slipped' = FALSE /\ unsaved' = FALSE
  /\ UNCHANGED <<vpn_mode, nvs_portmap_tab, edits>>
-----------------------------------------------------------------------------
(* What happens on the links *)

Happens == happened < MaxEvents /\ happened' = happened + 1 /\ UNCHANGED edits
Post(e) == events' = Append(events, e)
OutsideOnly == UNCHANGED <<tunnel, eth_link_up, my_ip, maps, edit, vpn_mode, pc>>

\* The station joins and gets a lease, or renews it.
Lease(a) ==
  /\ Happens
  /\ sta_up' = TRUE /\ Recompute(TRUE, eth_link_up)
  /\ Post([type |-> "got_ip", ip |-> a])
  /\ OutsideOnly

\* The network is lost, or joining it fails.
LinkLost ==
  /\ Happens
  /\ sta_up' = FALSE /\ UNCHANGED route
  /\ Post(Plain("lost"))
  /\ OutsideOnly

\* A cable is plugged in or pulled; one change at a time.
Cable ==
  /\ Happens /\ ~\E i \in 1 .. Len(events) : events[i].type \in {"eth_up", "eth_down"}
  /\ Post(Plain(IF eth_link_up THEN "eth_down" ELSE "eth_up"))
  /\ OutsideOnly /\ UNCHANGED <<route, sta_up>>

Outside == (\E a \in Addresses : Lease(a)) \/ LinkLost \/ Cable
-----------------------------------------------------------------------------
(* delete_portmap_tab and apply_portmap_tab, in two tasks *)

MapsOnly == UNCHANGED <<route, tunnel, link, portmap_tab, flash, edit, counts, events,
                        vpn_mode>>

BindIP(m) == IF m.iface = "vpn" THEN vpn_tunnel_ip ELSE my_ip

\* What the table calls for: the valid mappings with an address to bind them to.
Wanted == {<<m.port, BindIP(m)>> : m \in {n \in TabEntries : BindIP(n) # NoIP}}

Unmapped(ports) == {m \in napt : m[1] \notin ports}

Delete(t) ==
  /\ At(t, "delete")
  /\ napt' = Unmapped({m.port : m \in TabEntries})
  /\ Goto(t, "apply")
  /\ MapsOnly

Apply(t) ==
  /\ At(t, "apply")
  /\ napt' = napt \cup Wanted
  /\ Goto(t, CASE t = "vpn" -> "finish"
               [] t = "events" /\ Handled.type = "lost" -> "remove"
               [] OTHER -> "reassert")
  /\ MapsOnly

Rebind(t) == Delete(t) \/ Apply(t)
-----------------------------------------------------------------------------
(* wifi_event_handler and eth_downlink_event_handler *)

Dispatch(type) == At("events", "idle") /\ events # <<>> /\ Handled.type = type
\* The handler returns.
Return == events' = Tail(events) /\ Goto("events", "idle")

\* esp_netif has taken the station down; then the handler looks at the tunnel.
Lost ==
  /\ Dispatch("lost")
  /\ Recompute(sta_up, eth_link_up)
  /\ IF vpn_connected THEN Goto("events", "unflag") /\ UNCHANGED events ELSE Return
  /\ UNCHANGED <<tunnel, link, maps, edit, counts, vpn_mode>>

\* vpn_disconnect
Unflag ==
  /\ At("events", "unflag")
  /\ vpn_connected' = FALSE
  /\ Goto("events", "untunnel")
  /\ UNCHANGED <<route, wg_netif, vpn_tunnel_ip, wg_initialized, ap_pmtu, link, maps,
                 edit, counts, events, vpn_mode>>

\* Fault: the address of the tunnel outlives it.
Untunnel_KeepsAddress ==
  /\ At("events", "untunnel")
  /\ ap_pmtu' = FALSE
  /\ Goto("events", "delete")
  /\ UNCHANGED <<route, wg_netif, vpn_connected, vpn_tunnel_ip, wg_initialized, link, maps,
                 edit, counts, events, vpn_mode>>

Untunnel ==
  /\ At("events", "untunnel")
  /\ vpn_tunnel_ip' = NoIP /\ ap_pmtu' = FALSE
  /\ Goto("events", "delete")
  /\ UNCHANGED <<route, wg_netif, vpn_connected, wg_initialized, link, maps,
                 edit, counts, events, vpn_mode>>

\* esp_wireguard_disconnect takes the interface away.
Remove ==
  /\ At("events", "remove")
  /\ IF wg_initialized
     THEN /\ wg_netif' = FALSE
          /\ netif_default' = IF netif_default = "wg" THEN "none" ELSE netif_default
          /\ Goto("events", "forget") /\ UNCHANGED events
     ELSE Return /\ UNCHANGED <<wg_netif, netif_default>>
  /\ UNCHANGED <<slipped, vpn_connected, vpn_tunnel_ip, wg_initialized, ap_pmtu, link,
                 maps, edit, counts, vpn_mode>>

Forget ==
  /\ At("events", "forget") /\ Return
  /\ wg_initialized' = FALSE
  /\ UNCHANGED <<route, wg_netif, vpn_connected, vpn_tunnel_ip, ap_pmtu, link, maps,
                 edit, counts, vpn_mode>>

GotIP ==
  /\ Dispatch("got_ip")
  /\ my_ip' = Handled.ip
  /\ Goto("events", "delete")
  /\ UNCHANGED <<route, tunnel, sta_up, eth_link_up, maps, edit, counts, events, vpn_mode>>

\* Fault: the cable does not bring the tunnel back as the default route.
EthUp_NoReassert ==
  /\ Dispatch("eth_up") /\ Return
  /\ eth_link_up' = TRUE /\ Recompute(sta_up, TRUE)
  /\ UNCHANGED <<tunnel, sta_up, my_ip, maps, edit, counts, vpn_mode>>

EthUp ==
  /\ Dispatch("eth_up")
  /\ eth_link_up' = TRUE /\ Recompute(sta_up, TRUE)
  /\ Goto("events", "reassert")
  /\ UNCHANGED <<tunnel, sta_up, my_ip, maps, edit, counts, events, vpn_mode>>

EthDown ==
  /\ Dispatch("eth_down") /\ Return
  /\ eth_link_up' = FALSE /\ Recompute(sta_up, FALSE)
  /\ UNCHANGED <<tunnel, sta_up, my_ip, maps, edit, counts, vpn_mode>>

\* vpn_reassert_default_route; a lease then starts the connection, the cable does not.
LaunchOrReturn ==
  IF Handled.type = "got_ip"
  THEN Goto("events", "launch") /\ UNCHANGED events
  ELSE Return

Reassert ==
  /\ At("events", "reassert")
  /\ IF vpn_mode = "all" /\ wg_initialized /\ wg_netif /\ vpn_connected
     THEN Goto("events", "set") /\ UNCHANGED events
     ELSE LaunchOrReturn
  /\ UNCHANGED <<route, tunnel, link, maps, edit, counts, vpn_mode>>

SetDefault ==
  /\ At("events", "set")
  /\ IF wg_netif THEN netif_default' = "wg" /\ slipped' = FALSE ELSE UNCHANGED route
  /\ LaunchOrReturn
  /\ UNCHANGED <<tunnel, link, maps, edit, counts, vpn_mode>>

\* vpn_connect_task_start; the creation of the task may fail.
Launch ==
  /\ At("events", "launch")
  /\ events' = Tail(events)
  /\ \/ /\ vpn_mode # "off" /\ ~vpn_connect_pending
        /\ pc' = [pc EXCEPT !["events"] = "idle", !["vpn"] = "wait"]
     \/ Goto("events", "idle")
  /\ UNCHANGED <<route, tunnel, link, maps, edit, counts, vpn_mode>>

EventTask ==
  \/ Lost \/ Unflag \/ Untunnel \/ Remove \/ Forget \/ GotIP \/ EthUp
  \/ EthDown \/ Reassert \/ SetDefault \/ Launch
  \/ Rebind("events")
-----------------------------------------------------------------------------
(* vpn_connect_task and vpn_connect *)

VpnOnly == UNCHANGED <<link, maps, edit, counts, events, vpn_mode>>

\* The time is known, or the wait is over; the configuration may lack a field.
Connect ==
  /\ At("vpn", "wait")
  /\ Goto("vpn", CASE vpn_mode = "incomplete" -> "finish"
                   [] wg_initialized -> "peer"
                   [] OTHER -> "init")
  /\ VpnOnly /\ UNCHANGED <<route, tunnel>>

InitWireguard ==
  /\ At("vpn", "init")
  /\ \/ wg_initialized' = TRUE /\ Goto("vpn", "peer")
     \/ UNCHANGED wg_initialized /\ Goto("vpn", "finish")
  /\ VpnOnly
  /\ UNCHANGED <<route, wg_netif, vpn_connected, vpn_tunnel_ip, ap_pmtu>>

\* esp_wireguard_connect; after a failure the context is cleared.
Peer ==
  /\ At("vpn", "peer")
  /\ \/ /\ wg_netif' = TRUE /\ UNCHANGED wg_initialized
        /\ Goto("vpn", IF vpn_mode = "all" THEN "route" ELSE "tune")
     \/ wg_initialized' = FALSE /\ wg_netif' = FALSE /\ Goto("vpn", "finish")
  /\ VpnOnly
  /\ UNCHANGED <<route, vpn_connected, vpn_tunnel_ip, ap_pmtu>>

\* esp_wireguard_set_default; a failure is logged and nothing else.
Route ==
  /\ At("vpn", "route")
  /\ \/ wg_netif /\ netif_default' = "wg" /\ slipped' = FALSE
     \/ slipped' = TRUE /\ UNCHANGED netif_default
  /\ Goto("vpn", "tune")
  /\ VpnOnly /\ UNCHANGED <<tunnel>>

Tune ==
  /\ At("vpn", "tune")
  /\ ap_pmtu' = TRUE
  /\ Goto("vpn", "flag")
  /\ VpnOnly
  /\ UNCHANGED <<route, wg_netif, vpn_connected, vpn_tunnel_ip, wg_initialized>>

Flag ==
  /\ At("vpn", "flag")
  /\ vpn_connected' = TRUE
  /\ Goto("vpn", "tunnel")
  /\ VpnOnly
  /\ UNCHANGED <<route, wg_netif, vpn_tunnel_ip, wg_initialized, ap_pmtu>>

Tunnel ==
  /\ At("vpn", "tunnel")
  /\ vpn_tunnel_ip' = IF wg_netif THEN TunnelIP ELSE vpn_tunnel_ip
  /\ Goto("vpn", "delete")
  /\ VpnOnly
  /\ UNCHANGED <<route, wg_netif, vpn_connected, wg_initialized, ap_pmtu>>

Finish ==
  /\ At("vpn", "finish")
  /\ Goto("vpn", "idle")
  /\ VpnOnly /\ UNCHANGED <<route, tunnel>>

VpnTask ==
  \/ Connect \/ InitWireguard \/ Peer \/ Route \/ Tune \/ Flag \/ Tunnel \/ Finish
  \/ Rebind("vpn")
-----------------------------------------------------------------------------
(* Administrators edit the mappings: add_portmap, del_portmap, clear_all_portmaps *)

Begin(a) == At(a, "idle") /\ edits < MaxEdits /\ edits' = edits + 1 /\ UNCHANGED happened
EditOnly == UNCHANGED <<route, tunnel, link, events, vpn_mode>>

Mapped(port) == {s \in Slots : portmap_tab[s].valid /\ portmap_tab[s].port = port}
FreeSlots == {s \in Slots : ~portmap_tab[s].valid}

\* A new port goes to the first free slot.  The program does not ask whether the
\* port is new; that the administrators map a port once is an assumption.
AddPortmap(a) ==
  /\ Begin(a) /\ FreeSlots # {}
  /\ \E m \in Mapping :
       /\ m.valid /\ Mapped(m.port) = {}
       /\ portmap_tab' = [portmap_tab EXCEPT ![Min(FreeSlots)] = m]
       /\ edit' = [edit EXCEPT ![a] = m]
  /\ Goto(a, "store")
  /\ EditOnly /\ UNCHANGED <<napt, flash>>

DelPortmap(a) ==
  /\ Begin(a)
  /\ \E port \in Ports :
       /\ Mapped(port) # {}
       /\ portmap_tab' = [portmap_tab EXCEPT ![Min(Mapped(port))] = Unused]
       /\ edit' = [edit EXCEPT ![a] = portmap_tab[Min(Mapped(port))]]
  /\ Goto(a, "erase")
  /\ EditOnly /\ UNCHANGED <<napt, flash>>

\* set_config_param_blob.  When it fails the caller is told in the end; the table and
\* the NAT engine follow the edit all the same.
Store(a) ==
  /\ pc[a] \in {"store", "erase", "cleared"}
  /\ \/ nvs_portmap_tab' = portmap_tab /\ unsaved' = FALSE
     \/ UNCHANGED nvs_portmap_tab /\ unsaved' = TRUE
  /\ Goto(a, CASE At(a, "store") -> "map" [] At(a, "erase") -> "unmap" [] OTHER -> "idle")
  /\ EditOnly /\ UNCHANGED <<napt, portmap_tab, edit, counts>>

Map(a) ==
  /\ At(a, "map")
  /\ napt' = IF BindIP(edit[a]) = NoIP THEN napt
             ELSE napt \cup {<<edit[a].port, BindIP(edit[a])>>}
  /\ edit' = [edit EXCEPT ![a] = Unused] /\ Goto(a, "idle")
  /\ EditOnly /\ UNCHANGED <<portmap_tab, flash, counts>>

Unmap(a) ==
  /\ At(a, "unmap")
  /\ napt' = Unmapped({edit[a].port})
  /\ edit' = [edit EXCEPT ![a] = Unused] /\ Goto(a, "idle")
  /\ EditOnly /\ UNCHANGED <<portmap_tab, flash, counts>>

ClearAll(a) ==
  /\ Begin(a)
  /\ napt' = Unmapped({m.port : m \in TabEntries})
  /\ portmap_tab' = [s \in Slots |-> Unused]
  /\ Goto(a, "cleared")
  /\ EditOnly /\ UNCHANGED <<flash, edit>>

EditStep(a) ==
  \/ AddPortmap(a) \/ DelPortmap(a) \/ ClearAll(a)
  \/ Store(a) \/ Map(a) \/ Unmap(a)
-----------------------------------------------------------------------------
Progress ==
  \/ Outside \/ EventTask \/ VpnTask
  \/ \E a \in Admins : EditStep(a)

Next ==
  \/ Progress /\ overlapped' = (overlapped \/ Overlap')
  \/ Restart

Spec == Init /\ [][Next]_vars
-----------------------------------------------------------------------------
(* The variables have their types. *)
TypeOK ==
  /\ {sta_up, eth_link_up, vpn_connected, wg_netif, wg_initialized, ap_pmtu, overlapped,
      slipped, unsaved} \subseteq BOOLEAN
  /\ netif_default \in {"none", "eth", "sta", "wg"}
  /\ events \in Seq(Event)
  /\ napt \subseteq Ports \X (Addresses \cup {TunnelIP})
  /\ vpn_mode \in Modes
  /\ pc \in [Tasks -> Labels]
  /\ edit \in [Admins -> Mapping]
  /\ my_ip \in Addresses \cup {NoIP} /\ vpn_tunnel_ip \in {TunnelIP, NoIP}
  /\ {portmap_tab, nvs_portmap_tab} \subseteq [Slots -> Mapping]
  /\ happened \in 0 .. MaxEvents /\ edits \in 0 .. MaxEdits

\* Nothing is under way in the event task or at the administrators.
Settled == events = <<>> /\ \A a \in Admins : At(a, "idle")

(* As long as a new address, the end of a connection, the end of a disconnection and
   edits do not overlap, whenever no task is at the mappings the NAT engine holds
   exactly the valid ones whose address is known, bound to the address of today, flash
   holds the same table unless the last write to it failed (portmap.c:24), and there is a
   tunnel address only while the tunnel is connected, which then limits the segment size
   (vpn_manager.c:131). *)
NatFollowsTable ==
  ~overlapped /\ ~(\E t \in Tasks : InCritical(t)) =>
    /\ napt = Wanted
    /\ ~unsaved => nvs_portmap_tab = portmap_tab
    /\ vpn_tunnel_ip # NoIP => vpn_connected
    /\ vpn_connected => ap_pmtu

(* In route-all mode, while the downlink is up and the tunnel is connected, the tunnel
   is the default route as soon as all events are handled and no connection is under
   way, unless it lost the route inside vpn_connect (vpn_manager.c:115). *)
TunnelKeepsRoute ==
  Settled /\ At("vpn", "idle") /\ vpn_mode = "all" /\ eth_link_up
    /\ vpn_connected /\ wg_initialized /\ wg_netif /\ ~slipped
  => netif_default = "wg"
=============================================================================
