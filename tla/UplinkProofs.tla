----------------------------- MODULE UplinkProofs -----------------------------
(***************************************************************************)
(* The tunnel keeps the default route, for any number of administrators,   *)
(* mappings and addresses and any bounds.  The argument: whenever the      *)
(* conditions hold under which the tunnel ought to be the default route,   *)
(* it is, or the event task has a way to go that ends in                   *)
(* vpn_reassert_default_route (Ahead), or vpn_connect is about to set it.  *)
(* The tunnel cannot become connected without it, because in the steps     *)
(* between set_default and vpn_connected a loss is recorded (Fresh).       *)
(*                                                                         *)
(* NAT engine, table, flash, addresses and flags agree while no task is in *)
(* a critical step and no two were at once, for any number of ports and    *)
(* slots: Phase says for each critical step what still differs.            *)
(***************************************************************************)
EXTENDS Uplink, TLAPS, FiniteSetTheorems, WellFoundedInduction

\* The types of what the argument is about; and the head of the queue is what
\* the event task handles.
RouteTypes ==
  /\ events \in Seq(Event)
  /\ pc \in [Tasks -> Labels]
  /\ vpn_connected \in BOOLEAN /\ wg_initialized \in BOOLEAN /\ wg_netif \in BOOLEAN
  /\ eth_link_up \in BOOLEAN /\ slipped \in BOOLEAN
  /\ pc["events"] # "idle" => events # <<>>

\* The route is the tunnel's from set_default until vpn_connected, or slipped says no.
Fresh ==
  vpn_mode = "all" /\ pc["vpn"] \in {"tune", "flag"} /\ wg_netif /\ ~slipped
    => netif_default = "wg"

Reasserting == {"got_ip", "eth_up"}
Waiting(q, first) == \E i \in first .. Len(q) : q[i].type \in Reasserting

\* The event task will reassert the route, or end the connection.
Ahead ==
  \/ pc["events"] \in {"unflag", "reassert", "set"}
  \/ pc["events"] \in {"delete", "apply"} /\ Head(events).type = "got_ip"
  \/ Waiting(events, IF pc["events"] = "idle" THEN 1 ELSE 2)

Due == /\ vpn_mode = "all" /\ eth_link_up
       /\ vpn_connected /\ wg_initialized /\ wg_netif /\ ~slipped
       /\ pc["vpn"] \notin {"peer", "route"}
Kept == Due => netif_default = "wg" \/ Ahead

IInv == RouteTypes /\ Fresh /\ Kept
-----------------------------------------------------------------------------
(* Queues *)

\* What posting an event does to a queue.
LEMMA Posted ==
  ASSUME NEW q \in Seq(Event), NEW e \in Event
  PROVE  /\ Append(q, e) \in Seq(Event) /\ Append(q, e) # <<>>
         /\ q # <<>> => Head(Append(q, e)) = Head(q)
         /\ \A k \in {1, 2} : Waiting(q, k) => Waiting(Append(q, e), k)
         /\ e.type \in Reasserting =>
              /\ Waiting(Append(q, e), 1)
              /\ q # <<>> => Waiting(Append(q, e), 2)
<1>1. /\ Append(q, e) \in Seq(Event) /\ Append(q, e) # <<>>
      /\ Len(q) \in Nat /\ Len(Append(q, e)) = Len(q) + 1
      /\ \A i \in 1 .. Len(q) : Append(q, e)[i] = q[i]
      /\ Append(q, e)[Len(q) + 1] = e
      /\ q # <<>> => Head(Append(q, e)) = Head(q) /\ Len(q) > 0
  <2>1. /\ Append(q, e) \in Seq(Event)
        /\ Len(q) \in Nat /\ Len(Append(q, e)) = Len(q) + 1
        /\ \A i \in 1 .. Len(q) : Append(q, e)[i] = q[i]
        /\ Append(q, e)[Len(q) + 1] = e
    OBVIOUS
  <2>2. q # <<>> => Len(q) > 0
    OBVIOUS
  <2>3. Append(q, e) # <<>>
    BY <2>1
  <2>4. q # <<>> => Head(Append(q, e)) = Head(q)
    BY <2>1, <2>2
  <2> QED BY <2>1, <2>2, <2>3, <2>4
<1>2. ASSUME NEW k \in {1, 2}, Waiting(q, k) PROVE Waiting(Append(q, e), k)
  <2>1. PICK i \in k .. Len(q) : q[i].type \in Reasserting
    BY <1>2 DEF Waiting
  <2>2. i \in k .. Len(Append(q, e)) /\ Append(q, e)[i] = q[i]
    BY <1>1, <2>1
  <2> QED BY <2>1, <2>2 DEF Waiting
<1>3. ASSUME e.type \in Reasserting, NEW k \in {1, 2}, k <= Len(q) + 1
      PROVE  Waiting(Append(q, e), k)
  <2>1. Len(q) + 1 \in k .. Len(Append(q, e))
    BY <1>1, <1>3
  <2> QED BY <1>1, <1>3, <2>1 DEF Waiting
<1>4. 1 <= Len(q) + 1 /\ (q # <<>> => 2 <= Len(q) + 1)
  BY <1>1
<1> QED BY <1>1, <1>2, <1>3, <1>4

\* What the return of a handler does to a queue, and what its dispatch leaves.
LEMMA Removed ==
  ASSUME NEW q \in Seq(Event), q # <<>>
  PROVE  /\ Tail(q) \in Seq(Event)
         /\ Waiting(q, 2) => Waiting(Tail(q), 1)
         /\ Waiting(q, 1) /\ Head(q).type \notin Reasserting => Waiting(q, 2)
<1>1. /\ Tail(q) \in Seq(Event)
      /\ Len(q) \in Nat \ {0} /\ Len(Tail(q)) = Len(q) - 1
      /\ \A i \in 1 .. Len(Tail(q)) : Tail(q)[i] = q[i + 1]
      /\ Head(q) = q[1]
  OBVIOUS
<1>2. ASSUME Waiting(q, 2) PROVE Waiting(Tail(q), 1)
  <2>1. PICK i \in 2 .. Len(q) : q[i].type \in Reasserting
    BY <1>2 DEF Waiting
  <2>2. i - 1 \in 1 .. Len(Tail(q)) /\ Tail(q)[i - 1] = q[i]
    BY <1>1, <2>1
  <2> QED BY <2>1, <2>2 DEF Waiting
<1>3. ASSUME Waiting(q, 1), Head(q).type \notin Reasserting PROVE Waiting(q, 2)
  <2>1. PICK i \in 1 .. Len(q) : q[i].type \in Reasserting
    BY <1>3 DEF Waiting
  <2>2. i \in 2 .. Len(q)
    BY <1>1, <1>3, <2>1
  <2> QED BY <2>1, <2>2 DEF Waiting
<1> QED BY <1>1, <1>2, <1>3
-----------------------------------------------------------------------------
(* The steps of the four actors, as far as they concern the argument *)

\* The links post one event, and recompute the route only together with a lease.
LEMMA OutsideSteps ==
  ASSUME RouteTypes, Outside
  PROVE  /\ UNCHANGED <<tunnel, eth_link_up, vpn_mode, pc>>
         /\ \E e \in Event :
              /\ events' = Append(events, e)
              /\ UNCHANGED route \/ (e.type = "got_ip" /\ Recompute(TRUE, eth_link_up))
<1>1. CASE \E a \in Addresses : Lease(a)
  <2>1. PICK a \in Addresses : Lease(a)
    BY <1>1
  <2> DEFINE e == [type |-> "got_ip", ip |-> a]
  <2>2. e \in Event /\ e.type = "got_ip"
    BY DEF Event
  <2>3. events' = Append(events, e) /\ Recompute(TRUE, eth_link_up) /\ OutsideOnly
    BY <2>1 DEF Lease, Post
  <2> HIDE DEF e
  <2> QED BY <2>2, <2>3 DEF OutsideOnly
<1>2. CASE LinkLost
  <2>1. Plain("lost") \in Event
    BY DEF Plain, Event
  <2> QED BY <1>2, <2>1 DEF LinkLost, Post, OutsideOnly
<1>3. CASE Cable
  <2>1. Plain("eth_up") \in Event /\ Plain("eth_down") \in Event
    BY DEF Plain, Event
  <2>2. events' = Append(events, Plain("eth_up")) \/ events' = Append(events, Plain("eth_down"))
    BY <1>3 DEF Cable, Post
  <2> QED BY <1>3, <2>1, <2>2 DEF Cable, OutsideOnly
<1> QED BY <1>1, <1>2, <1>3 DEF Outside

\* An administrator touches nothing of it but its own place in its program.
LEMMA EditSteps ==
  ASSUME RouteTypes, NEW a \in Admins, EditStep(a)
  PROVE  /\ UNCHANGED <<route, tunnel, eth_link_up, vpn_mode, events>>
         /\ pc' \in [Tasks -> Labels]
         /\ pc'["events"] = pc["events"] /\ pc'["vpn"] = pc["vpn"]
<1>1. UNCHANGED <<route, tunnel, link, vpn_mode, events>>
  BY DEF EditStep, AddPortmap, DelPortmap, ClearAll, Store, Map, Unmap, EditOnly
<1>2. PICK l \in Labels : pc' = [pc EXCEPT ![a] = l]
  BY DEF EditStep, AddPortmap, DelPortmap, ClearAll, Store, Map, Unmap, Goto, Labels, Critical
<1>3. a # "events" /\ a # "vpn" /\ a \in Tasks /\ "events" \in Tasks /\ "vpn" \in Tasks
  BY UplinkAssumption DEF UplinkAssumption, Tasks
<1> QED BY <1>1, <1>2, <1>3 DEF RouteTypes, link
-----------------------------------------------------------------------------
(* The steps of the event task *)

LEMMA EventTypes == RouteTypes /\ EventTask => RouteTypes'
<1> SUFFICES ASSUME RouteTypes, EventTask PROVE RouteTypes'
  OBVIOUS
<1>1. "events" \in Tasks /\ "vpn" \in Tasks /\ "events" # "vpn"
  BY DEF Tasks
<1>2. /\ events # <<>>
      /\ \/ events' = events
         \/ events' = Tail(events) /\ pc'["events"] = "idle"
  BY <1>1 DEF EventTask, Lost, Unflag, Untunnel, Remove, Forget, GotIP, EthUp, EthDown, Reassert,
     SetDefault, Launch, LaunchOrReturn, Rebind, Delete, Apply, MapsOnly, flash, Dispatch, Return, Goto, At,
     RouteTypes
<1>3. pc' \in [Tasks -> Labels]
  BY <1>1 DEF EventTask, Lost, Unflag, Untunnel, Remove, Forget, GotIP, EthUp, EthDown, Reassert,
     SetDefault, Launch, LaunchOrReturn, Rebind, Delete, Apply, Dispatch, Return, Goto, At,
     RouteTypes, Labels, Critical
<1>4. /\ vpn_connected' \in BOOLEAN /\ wg_initialized' \in BOOLEAN /\ wg_netif' \in BOOLEAN
      /\ eth_link_up' \in BOOLEAN /\ slipped' \in BOOLEAN
  BY DEF EventTask, Lost, Unflag, Untunnel, Remove, Forget, GotIP, EthUp, EthDown, Reassert,
     SetDefault, Launch, Rebind, Delete, Apply, MapsOnly, Recompute, route, tunnel, link, RouteTypes
<1>5. events' \in Seq(Event)
  BY <1>2, Removed DEF RouteTypes
<1> QED BY <1>2, <1>3, <1>4, <1>5 DEF RouteTypes

LEMMA EventSteps == IInv /\ EventTask => Fresh' /\ Kept'
<1> SUFFICES ASSUME IInv, EventTask PROVE Fresh' /\ Kept'
  OBVIOUS
<1>0. /\ "events" \in Tasks /\ "vpn" \in Tasks
      /\ RouteTypes /\ Fresh /\ Kept
      /\ events # <<>> /\ DOMAIN pc = Tasks
      /\ Waiting(events, 2) => Waiting(Tail(events), 1)
      /\ Waiting(events, 1) /\ Head(events).type \notin Reasserting => Waiting(events, 2)
  <2>1. events # <<>>
    BY DEF EventTask, Lost, Unflag, Untunnel, Remove, Forget, GotIP, EthUp, EthDown, Reassert,
       SetDefault, Launch, Rebind, Delete, Apply, Dispatch, At, IInv, RouteTypes
  <2> QED BY <2>1, Removed DEF Tasks, IInv, RouteTypes
<1>1. CASE Lost
  BY <1>0, <1>1 DEF Lost, Recompute, Dispatch, Return, Goto, At, Handled, route, tunnel, link, maps,
     flash, Fresh, Due, Kept, Ahead, Reasserting
<1>2. CASE Unflag
  BY <1>0, <1>2 DEF Unflag, Dispatch, Return, Goto, At, Handled, route, tunnel, link, maps,
     flash, Fresh, Due, Kept, Ahead, Reasserting
<1>3. CASE Untunnel
  BY <1>0, <1>3 DEF Untunnel, Dispatch, Return, Goto, At, Handled, route, tunnel, link, maps,
     flash, Fresh, Due, Kept, Ahead, Reasserting
<1>4. CASE Remove
  BY <1>0, <1>4 DEF Remove, Dispatch, Return, Goto, At, Handled, route, tunnel, link, maps,
     flash, Fresh, Due, Kept, Ahead, Reasserting
<1>5. CASE Forget
  BY <1>0, <1>5 DEF Forget, Dispatch, Return, Goto, At, Handled, route, tunnel, link, maps,
     flash, Fresh, Due, Kept, Ahead, Reasserting
<1>6. CASE GotIP
  BY <1>0, <1>6 DEF GotIP, Dispatch, Return, Goto, At, Handled, route, tunnel, link, maps,
     flash, Fresh, Due, Kept, Ahead, Reasserting
<1>7. CASE EthUp
  BY <1>0, <1>7 DEF EthUp, Recompute, Dispatch, Return, Goto, At, Handled, route, tunnel, link, maps,
     flash, Fresh, Due, Kept, Ahead, Reasserting
<1>8. CASE EthDown
  BY <1>0, <1>8 DEF EthDown, Recompute, Dispatch, Return, Goto, At, Handled, route, tunnel, link, maps,
     flash, Fresh, Due, Kept, Ahead, Reasserting
<1>9. CASE Reassert
  BY <1>0, <1>9 DEF Reassert, LaunchOrReturn, Dispatch, Return, Goto, At, Handled, route, tunnel, link, maps,
     flash, Fresh, Due, Kept, Ahead, Reasserting
<1>10. CASE SetDefault
  BY <1>0, <1>10 DEF SetDefault, LaunchOrReturn, Dispatch, Return, Goto, At, Handled, route, tunnel, link, maps,
     flash, Fresh, Due, Kept, Ahead, Reasserting
<1>11. CASE Launch
  BY <1>0, <1>11 DEF Launch, vpn_connect_pending, Dispatch, Return, Goto, At, Handled, route, tunnel, link, maps,
     flash, Fresh, Due, Kept, Ahead, Reasserting
<1>12. CASE Rebind("events")
  BY <1>0, <1>12 DEF Rebind, Delete, Apply, Goto, At, Handled, MapsOnly, flash, route, tunnel, link,
     Fresh, Due, Kept, Ahead, Reasserting
<1> QED BY <1>1, <1>2, <1>3, <1>4, <1>5, <1>6, <1>7, <1>8, <1>9, <1>10, <1>11, <1>12 DEF EventTask
-----------------------------------------------------------------------------
(* The steps of the task that connects *)

LEMMA VpnTypes ==
  RouteTypes /\ VpnTask => RouteTypes' /\ UNCHANGED <<events, eth_link_up, vpn_mode>>
<1> SUFFICES ASSUME RouteTypes, VpnTask
             PROVE  RouteTypes' /\ UNCHANGED <<events, eth_link_up, vpn_mode>>
  OBVIOUS
<1>1. "events" \in Tasks /\ "vpn" \in Tasks /\ "events" # "vpn"
  BY DEF Tasks
<1>2. UNCHANGED <<events, eth_link_up, vpn_mode>>
  BY DEF VpnTask, Connect, InitWireguard, Peer, Route, Tune, Flag, Tunnel, Finish, Rebind,
     Delete, Apply, MapsOnly, VpnOnly, link
<1>3. \E l \in Labels : pc' = [pc EXCEPT !["vpn"] = l]
  BY DEF VpnTask, Connect, InitWireguard, Peer, Route, Tune, Flag, Tunnel, Finish, Rebind,
     Delete, Apply, Goto, Labels, Critical
<1>4. vpn_connected' \in BOOLEAN /\ wg_initialized' \in BOOLEAN /\ wg_netif' \in BOOLEAN
  BY DEF VpnTask, Connect, InitWireguard, Peer, Route, Tune, Flag, Tunnel, Finish, Rebind,
     Delete, Apply, MapsOnly, tunnel, RouteTypes
<1>5. slipped' \in BOOLEAN
  BY DEF VpnTask, Connect, InitWireguard, Peer, Route, Tune, Flag, Tunnel, Finish, Rebind,
     Delete, Apply, MapsOnly, route, RouteTypes
<1> QED BY <1>1, <1>2, <1>3, <1>4, <1>5 DEF RouteTypes

LEMMA VpnSteps == IInv /\ VpnTask => Fresh' /\ Kept'
<1> SUFFICES ASSUME IInv, VpnTask PROVE Fresh' /\ Kept'
  OBVIOUS
<1>0. "events" \in Tasks /\ "vpn" \in Tasks /\ DOMAIN pc = Tasks /\ Fresh /\ Kept
  BY DEF Tasks, IInv, RouteTypes
<1>1. CASE Connect
  BY <1>0, <1>1 DEF Connect, VpnOnly, Goto, At, route, tunnel, link, Fresh, Due, Kept, Ahead
<1>2. CASE InitWireguard
  BY <1>0, <1>2 DEF InitWireguard, VpnOnly, Goto, At, route, tunnel, link, Fresh, Due, Kept, Ahead
<1>3. CASE Peer
  BY <1>0, <1>3 DEF Peer, VpnOnly, Goto, At, route, tunnel, link, Fresh, Due, Kept, Ahead
<1>4. CASE Route
  BY <1>0, <1>4 DEF Route, VpnOnly, Goto, At, route, tunnel, link, Fresh, Due, Kept, Ahead
<1>5. CASE Tune
  BY <1>0, <1>5 DEF Tune, VpnOnly, Goto, At, route, tunnel, link, Fresh, Due, Kept, Ahead
<1>6. CASE Flag
  BY <1>0, <1>6 DEF Flag, VpnOnly, Goto, At, route, tunnel, link, Fresh, Due, Kept, Ahead
<1>7. CASE Tunnel
  BY <1>0, <1>7 DEF Tunnel, VpnOnly, Goto, At, route, tunnel, link, Fresh, Due, Kept, Ahead
<1>8. CASE Finish
  BY <1>0, <1>8 DEF Finish, VpnOnly, Goto, At, route, tunnel, link, Fresh, Due, Kept, Ahead
<1>9. CASE Rebind("vpn")
  BY <1>0, <1>9 DEF Rebind, Delete, Apply, MapsOnly, flash, Goto, At, route, tunnel, link, Fresh, Due,
     Kept, Ahead
<1> QED BY <1>1, <1>2, <1>3, <1>4, <1>5, <1>6, <1>7, <1>8, <1>9 DEF VpnTask
-----------------------------------------------------------------------------
(* The mappings *)

\* The tunnel has an address only while it is connected, which limits the segments.
Bound == (vpn_tunnel_ip # NoIP => vpn_connected) /\ (vpn_connected => ap_pmtu)

Binding(m) == IF BindIP(m) = NoIP THEN {} ELSE {<<m.port, BindIP(m)>>}

\* What holds while a task stands in a critical step, and m is what it edits, if no
\* other task is in one; and at "idle", what holds if none is.
Phase(l, m) ==
  /\ IF l = "untunnel" THEN ~vpn_connected ELSE Bound
  /\ l = "flag" => ap_pmtu
  /\ l = "tunnel" => vpn_connected
  /\ l \notin {"store", "erase", "cleared"} => unsaved \/ nvs_portmap_tab = portmap_tab
  /\ CASE l = "delete" -> \A x \in napt : \E e \in TabEntries : x[1] = e.port
       [] l = "apply" -> napt = {}
       [] l \in {"store", "map"} -> Wanted = napt \cup Binding(m)
       [] l \in {"erase", "unmap"} -> Wanted = Unmapped({m.port})
       [] OTHER -> napt = Wanted

Place(t) == IF InCritical(t) THEN pc[t] ELSE "idle"
Edited(t) == IF t \in Admins THEN edit[t] ELSE Unused
Here(t) == Phase(Place(t), Edited(t))

Alone == ~overlapped => \A t, u \in Tasks : InCritical(t) /\ InCritical(u) => t = u
Phases ==
  ~overlapped =>
    /\ (\A t \in Tasks : ~InCritical(t)) => Phase("idle", Unused)
    /\ \A t \in Tasks : InCritical(t) => Here(t)

MapTypes == portmap_tab \in Tables /\ nvs_portmap_tab \in Tables /\ edit \in [Admins -> Mapping]

MapsInv == MapTypes /\ Alone /\ Phases

\* What Phase speaks about.
bound == <<napt, portmap_tab, nvs_portmap_tab, unsaved, my_ip, vpn_tunnel_ip, vpn_connected, ap_pmtu>>
-----------------------------------------------------------------------------
(* The table *)

\* Every set of natural numbers that is not empty has a smallest element.
LEMMA Smallest ==
  ASSUME NEW S \in SUBSET Nat, S # {}
  PROVE  \E s \in S : \A u \in S : s <= u
<1> DEFINE Below == {0 .. (s - 1) : s \in S}
<1>1. Below \subseteq FiniteSubsetsOf(Nat) /\ Below # {}
  <2>1. \A s \in S : 0 .. (s - 1) \in SUBSET Nat /\ IsFiniteSet(0 .. (s - 1))
    <3> TAKE s \in S
    <3>1. s \in Int /\ s - 1 \in Int
      OBVIOUS
    <3> QED BY <3>1, FS_Interval
  <2> QED BY <2>1 DEF FiniteSubsetsOf
<1> HIDE DEF Below
<1>2. PICK x \in Below : \A y \in Below : ~(<<y, x>> \in StrictSubsetOrdering(Nat))
  BY <1>1, FS_StrictSubsetOrderingWellFounded, WFMin
<1>3. PICK s \in S : x = 0 .. (s - 1)
  BY DEF Below
<1>4. ASSUME NEW u \in S, u < s PROVE FALSE
  <2>1. 0 .. (u - 1) \in Below
    BY DEF Below
  <2>2. 0 .. (u - 1) \subseteq 0 .. (s - 1) /\ 0 .. (u - 1) # 0 .. (s - 1)
    <3>1. u \in 0 .. (s - 1) /\ u \notin 0 .. (u - 1)
      BY <1>4
    <3> QED BY <1>4, <3>1
  <2>3. <<0 .. (u - 1), x>> \in StrictSubsetOrdering(Nat)
    BY <1>3, <2>2 DEF StrictSubsetOrdering
  <2> QED BY <1>2, <2>1, <2>3
<1> QED BY <1>4

\* What the search for a slot returns.
LEMMA MinIn ==
  ASSUME NEW S \in SUBSET Slots, S # {}
  PROVE  Min(S) \in S
<1>1. S \in SUBSET Nat
  BY UplinkAssumption DEF Slots
<1> QED BY <1>1, Smallest DEF Min

\* An entry in a free slot, with a port that is not mapped, keeps the ports apart.
LEMMA Filled ==
  ASSUME portmap_tab \in Tables, NEW s \in FreeSlots, NEW m \in Mapping, m.valid,
         Mapped(m.port) = {}, portmap_tab' = [portmap_tab EXCEPT ![s] = m]
  PROVE  portmap_tab' \in Tables /\ TabEntries' = TabEntries \cup {m}
<1>1. /\ portmap_tab \in [Slots -> {e \in Mapping : e.valid} \cup {Unused}]
      /\ \A i, j \in Slots :
           portmap_tab[i].valid /\ portmap_tab[j].valid /\ i # j => portmap_tab[i].port # portmap_tab[j].port
  BY DEF Tables
<1>2. s \in Slots /\ ~portmap_tab[s].valid
  BY DEF FreeSlots
<1>3. /\ portmap_tab' \in [Slots -> {e \in Mapping : e.valid} \cup {Unused}]
      /\ portmap_tab'[s] = m /\ \A i \in Slots : i # s => portmap_tab'[i] = portmap_tab[i]
  BY <1>1, <1>2
<1>4. \A i \in Slots : portmap_tab[i].valid => portmap_tab[i].port # m.port
  BY DEF Mapped
<1>5. \A i, j \in Slots :
        portmap_tab'[i].valid /\ portmap_tab'[j].valid /\ i # j => portmap_tab'[i].port # portmap_tab'[j].port
  BY <1>1, <1>2, <1>3, <1>4
<1>6. portmap_tab' \in Tables
  BY <1>3, <1>5 DEF Tables
<1>7. TabEntries' = TabEntries \cup {m}
  BY <1>2, <1>3 DEF TabEntries
<1> QED BY <1>6, <1>7

\* An entry that is taken out takes its port with it.
LEMMA Emptied ==
  ASSUME portmap_tab \in Tables, NEW s \in Slots, portmap_tab[s].valid,
         portmap_tab' = [portmap_tab EXCEPT ![s] = Unused]
  PROVE  /\ portmap_tab' \in Tables
         /\ TabEntries' = {e \in TabEntries : e.port # portmap_tab[s].port}
<1>1. /\ portmap_tab \in [Slots -> {e \in Mapping : e.valid} \cup {Unused}]
      /\ \A i, j \in Slots :
           portmap_tab[i].valid /\ portmap_tab[j].valid /\ i # j => portmap_tab[i].port # portmap_tab[j].port
  BY DEF Tables
<1>2. /\ portmap_tab' \in [Slots -> {e \in Mapping : e.valid} \cup {Unused}]
      /\ portmap_tab'[s] = Unused /\ \A i \in Slots : i # s => portmap_tab'[i] = portmap_tab[i]
      /\ ~Unused.valid
  BY <1>1 DEF Unused
<1>3. \A i, j \in Slots :
        portmap_tab'[i].valid /\ portmap_tab'[j].valid /\ i # j => portmap_tab'[i].port # portmap_tab'[j].port
  BY <1>1, <1>2
<1>4. portmap_tab' \in Tables
  BY <1>2, <1>3 DEF Tables
<1>5. TabEntries' \subseteq {e \in TabEntries : e.port # portmap_tab[s].port}
  BY <1>1, <1>2 DEF TabEntries
<1>6. {e \in TabEntries : e.port # portmap_tab[s].port} \subseteq TabEntries'
  BY <1>1, <1>2 DEF TabEntries
<1> QED BY <1>4, <1>5, <1>6

\* A table without an entry.
LEMMA Cleared ==
  LET t == [s \in Slots |-> Unused] IN t \in Tables /\ \A s \in Slots : ~t[s].valid
BY DEF Tables, Unused

\* What is wanted follows the table.
LEMMA WantedGrows ==
  ASSUME NEW m, TabEntries' = TabEntries \cup {m}, UNCHANGED <<my_ip, vpn_tunnel_ip>>
  PROVE  Wanted' = Wanted \cup Binding(m)
<1>1. \A e : BindIP(e)' = BindIP(e)
  BY DEF BindIP
<1> QED BY <1>1 DEF Wanted, Binding

LEMMA WantedShrinks ==
  ASSUME NEW port, TabEntries' = {e \in TabEntries : e.port # port},
         UNCHANGED <<my_ip, vpn_tunnel_ip>>
  PROVE  Wanted' = {x \in Wanted : x[1] \notin {port}}
<1>1. \A e : BindIP(e)' = BindIP(e)
  BY DEF BindIP
<1> QED BY <1>1 DEF Wanted

LEMMA WantedPorts == \A x \in Wanted : \E e \in TabEntries : x[1] = e.port
BY DEF Wanted

LEMMA StillWanted ==
  ASSUME UNCHANGED <<portmap_tab, my_ip, vpn_tunnel_ip>>
  PROVE  TabEntries' = TabEntries /\ Wanted' = Wanted /\ \A m : Binding(m)' = Binding(m)
BY DEF TabEntries, Wanted, Binding, BindIP
-----------------------------------------------------------------------------
(* One task's step, and the others *)

LEMMA StillHere ==
  ASSUME UNCHANGED bound, NEW l, NEW m, Phase(l, m)
  PROVE  Phase(l, m)'
<1>1. TabEntries' = TabEntries /\ Wanted' = Wanted /\ Binding(m)' = Binding(m)
  BY StillWanted DEF bound
<1> QED BY <1>1 DEF Phase, bound, Bound, Unmapped

LEMMA AnyoneIdle == \A m, k : Phase("idle", m) => Phase("idle", k)
BY DEF Phase

\* A step of t that carries what holds for t keeps the invariant: a task that stands
\* in a critical step meanwhile finds what it needs untouched.
LEMMA Carried ==
  ASSUME Alone, Phases, pc \in [Tasks -> Labels], pc' \in [Tasks -> Labels],
         overlapped' = (overlapped \/ Overlap'), NEW t \in Tasks,
         \A u \in Tasks \ {t} :
           /\ InCritical(u)' <=> InCritical(u)
           /\ InCritical(u) => pc'[u] = pc[u] /\ Edited(u)' = Edited(u),
         ~InCritical(t) /\ ~InCritical(t)' => UNCHANGED bound,
         Here(t) => Here(t)'
  PROVE  Alone' /\ Phases'
<1>1. Alone'
  BY DEF Alone, Overlap
<1>2. ASSUME ~overlapped' PROVE ~overlapped /\ Alone /\ Phases /\ ~Overlap'
  BY <1>2
<1>3. ASSUME ~overlapped', \A u \in Tasks \ {t} : ~InCritical(u)
      PROVE  /\ (\A u \in Tasks : ~InCritical(u)') => Phase("idle", Unused)'
             /\ \A u \in Tasks : InCritical(u)' => Here(u)'
  <2>1. Here(t)
    <3>1. CASE InCritical(t)
      BY <1>2, <1>3, <3>1 DEF Phases
    <3>2. CASE ~InCritical(t)
      <4>1. Phase("idle", Unused)
        BY <1>2, <1>3, <3>2 DEF Phases
      <4>2. Phase("idle", Edited(t))
        BY <4>1, AnyoneIdle
      <4> QED BY <3>2, <4>2 DEF Here, Place
    <3> QED BY <3>1, <3>2
  <2>2. Here(t)'
    BY <2>1
  <2>3. \A u \in Tasks : InCritical(u)' => u = t
    BY <1>3
  <2>4. ~InCritical(t)' => Phase("idle", Unused)'
    <3>1. ASSUME ~InCritical(t)' PROVE Phase("idle", Edited(t))'
      BY <2>2, <3>1 DEF Here, Place
    <3> QED BY <3>1 DEF Phase
  <2> QED BY <2>2, <2>3, <2>4
<1>4. ASSUME ~overlapped', NEW u \in Tasks \ {t}, InCritical(u)
      PROVE  /\ \E v \in Tasks : InCritical(v)'
             /\ \A v \in Tasks : InCritical(v)' => Here(v)'
  <2>1. InCritical(u)' /\ Here(u)
    BY <1>2, <1>4 DEF Phases
  <2>2. ~InCritical(t) /\ ~InCritical(t)'
    BY <1>1, <1>2, <1>4, <2>1 DEF Alone
  <2>3. Here(u)'
    <3>1. UNCHANGED bound /\ pc'[u] = pc[u] /\ Edited(u)' = Edited(u)
      BY <1>4, <2>2
    <3>2. PICK l, m : l = pc[u] /\ m = Edited(u)
      OBVIOUS
    <3>3. Phase(l, m)'
      BY <1>4, <2>1, <3>1, <3>2, StillHere DEF Here, Place
    <3>4. Place(u)' = l /\ Edited(u)' = m
      BY <2>1, <3>1, <3>2 DEF Place
    <3> QED BY <3>3, <3>4 DEF Here, Phase, Binding, BindIP
  <2>4. \A v \in Tasks : InCritical(v)' => v = u
    BY <1>1, <1>4, <2>1 DEF Alone
  <2> QED BY <2>1, <2>3, <2>4
<1>5. Phases'
  BY <1>3, <1>4 DEF Phases
<1> QED BY <1>1, <1>5

\* What a task's step has to show for Carried.
LEMMA Lands ==
  ASSUME NEW t, NEW k, NEW e, Place(t)' = k, Edited(t)' = e, Phase(k, e)'
  PROVE  Here(t)'
BY DEF Here, Phase, Binding, BindIP

Resting == {"idle", "unflag", "remove", "forget"}

LEMMA RestingAlike ==
  ASSUME NEW l \in Resting, NEW k \in Resting, NEW m, NEW e, Phase(l, m)
  PROVE  Phase(k, e)
BY DEF Phase, Resting

\* A step that leaves everything alone, from one resting place to the next.
LEMMA Rested ==
  ASSUME UNCHANGED bound, NEW t, Place(t) \in Resting, Place(t)' \in Resting, Here(t)
  PROVE  Here(t)'
<1>1. PICK k, e : k = Place(t)' /\ e = Edited(t)'
  OBVIOUS
<1>2. Phase(k, e)
  BY <1>1, RestingAlike DEF Here
<1> QED BY <1>1, <1>2, StillHere, Lands

\* A step to "delete" after an address has changed: what is bound, is in the table.
LEMMA ToDelete ==
  ASSUME NEW t, Place(t) \in Resting \cup {"untunnel", "tunnel"}, Place(t)' = "delete", Here(t),
         UNCHANGED <<napt, portmap_tab, nvs_portmap_tab, unsaved>>, Bound'
  PROVE  Here(t)'
<1>1. napt = Wanted /\ (unsaved \/ nvs_portmap_tab = portmap_tab)
  BY DEF Here, Phase, Resting
<1>2. \A x \in napt' : \E e \in TabEntries' : x[1] = e.port
  BY <1>1, WantedPorts DEF TabEntries
<1>3. PICK e : e = Edited(t)'
  OBVIOUS
<1>4. Phase("delete", e)'
  BY <1>1, <1>2 DEF Phase
<1> QED BY <1>3, <1>4, Lands

LEMMA DeleteHere ==
  ASSUME NEW t \in Tasks, pc \in [Tasks -> Labels], Delete(t), Here(t)
  PROVE  Here(t)'
<1>1. /\ Place(t) = "delete" /\ Place(t)' = "apply"
      /\ napt' = Unmapped({m.port : m \in TabEntries})
      /\ UNCHANGED <<portmap_tab, nvs_portmap_tab, unsaved, vpn_tunnel_ip, vpn_connected, ap_pmtu>>
  BY DEF Delete, MapsOnly, flash, tunnel, At, Goto, Place, InCritical, Critical
<1>2. \A x \in napt : \E e \in TabEntries : x[1] = e.port
  BY <1>1 DEF Here, Phase
<1>3. napt' = {}
  BY <1>1, <1>2 DEF Unmapped
<1>4. Bound /\ (unsaved \/ nvs_portmap_tab = portmap_tab)
  BY <1>1 DEF Here, Phase
<1>5. PICK e : e = Edited(t)'
  OBVIOUS
<1>6. Phase("apply", e)'
  BY <1>1, <1>3, <1>4 DEF Phase, Bound
<1> QED BY <1>1, <1>5, <1>6, Lands

LEMMA ApplyHere ==
  ASSUME NEW t \in Tasks, pc \in [Tasks -> Labels], Apply(t), Here(t)
  PROVE  Here(t)'
<1>1. /\ Place(t) = "apply"
      /\ napt' = napt \cup Wanted
      /\ UNCHANGED <<portmap_tab, nvs_portmap_tab, unsaved, my_ip, vpn_tunnel_ip, vpn_connected, ap_pmtu>>
  BY DEF Apply, MapsOnly, flash, tunnel, link, At, Place, InCritical, Critical
<1>2. pc'[t] \in {"finish", "remove", "reassert"}
  BY DEF Apply, Goto
<1>3. PICK k \in Resting : Place(t)' = k
  BY <1>2 DEF Place, InCritical, Critical, Resting
<1>4. napt = {} /\ Bound /\ (unsaved \/ nvs_portmap_tab = portmap_tab)
  BY <1>1 DEF Here, Phase
<1>5. napt' = Wanted' /\ Bound'
  BY <1>1, <1>4, StillWanted DEF Bound
<1>6. PICK e : e = Edited(t)'
  OBVIOUS
<1>7. Phase(k, e)'
  BY <1>1, <1>4, <1>5 DEF Phase, Resting
<1> QED BY <1>3, <1>6, <1>7, Lands

\* The event task.
LEMMA EventMaps ==
  ASSUME RouteTypes, EventTask
  PROVE  /\ UNCHANGED <<portmap_tab, nvs_portmap_tab, unsaved, edit>>
         /\ \A u \in Tasks \ {"events"} :
              /\ InCritical(u)' <=> InCritical(u)
              /\ InCritical(u) => pc'[u] = pc[u] /\ Edited(u)' = Edited(u)
         /\ ~InCritical("events") /\ ~InCritical("events")' => UNCHANGED bound
         /\ Here("events") => Here("events")'
<1>0. "events" \in Tasks /\ "vpn" \in Tasks /\ pc \in [Tasks -> Labels] /\ DOMAIN pc = Tasks
  BY DEF Tasks, RouteTypes
<1>1. UNCHANGED <<portmap_tab, nvs_portmap_tab, unsaved, edit>>
  BY DEF EventTask, Lost, Unflag, Untunnel, Remove, Forget, GotIP, EthUp, EthDown, Reassert,
     SetDefault, Launch, Rebind, Delete, Apply, MapsOnly, maps, flash
<1>2. \/ \A u \in Tasks \ {"events"} : pc'[u] = pc[u]
      \/ Launch /\ pc["vpn"] = "idle" /\ pc' = [pc EXCEPT !["events"] = "idle", !["vpn"] = "wait"]
  BY <1>0 DEF EventTask, Lost, Unflag, Untunnel, Remove, Forget, GotIP, EthUp, EthDown, Reassert,
     SetDefault, Launch, LaunchOrReturn, Rebind, Delete, Apply, Return, Goto, At, vpn_connect_pending
<1>3. \A u \in Tasks \ {"events"} :
        /\ InCritical(u)' <=> InCritical(u)
        /\ InCritical(u) => pc'[u] = pc[u] /\ Edited(u)' = Edited(u)
  <2> SUFFICES ASSUME NEW u \in Tasks \ {"events"}
               PROVE  /\ InCritical(u)' <=> InCritical(u)
                      /\ InCritical(u) => pc'[u] = pc[u] /\ Edited(u)' = Edited(u)
    OBVIOUS
  <2>1. Edited(u)' = Edited(u)
    BY <1>1 DEF Edited
  <2>2. pc'[u] = pc[u] \/ (pc[u] = "idle" /\ pc'[u] = "wait")
    BY <1>0, <1>2
  <2> QED BY <2>1, <2>2 DEF InCritical, Critical
<1> DEFINE Quietly == Place("events") \in Resting /\ Place("events")' \in Resting /\ UNCHANGED bound
           Goal == /\ ~InCritical("events") /\ ~InCritical("events")' => UNCHANGED bound
                   /\ Here("events") => Here("events")'
<1>4. ASSUME Quietly PROVE Goal
  BY <1>4, Rested
<1>5. ASSUME Lost \/ Remove \/ Forget PROVE Goal
  <2>1. pc["events"] \in {"idle", "remove", "forget"} /\ pc'["events"] \in {"idle", "unflag", "forget"}
    BY <1>0, <1>5 DEF Lost, Remove, Forget, Dispatch, Return, Goto, At
  <2>2. UNCHANGED bound
    BY <1>5 DEF Lost, Remove, Forget, bound, tunnel, link, maps, flash
  <2> QED BY <1>4, <2>1, <2>2 DEF Place, InCritical, Critical, Resting
<1>6. ASSUME EthUp \/ EthDown \/ Reassert \/ SetDefault \/ Launch PROVE Goal
  <2>1. pc["events"] \in {"idle", "reassert", "set", "launch"}
    BY <1>6 DEF EthUp, EthDown, Reassert, SetDefault, Launch, Dispatch, At
  <2>2. pc'["events"] \in {"idle", "reassert", "set", "launch"}
    BY <1>0, <1>6 DEF EthUp, EthDown, Reassert, SetDefault, Launch, LaunchOrReturn, Return, Goto
  <2>3. UNCHANGED bound
    BY <1>6 DEF EthUp, EthDown, Reassert, SetDefault, Launch, bound, tunnel, link, maps, flash
  <2> QED BY <1>4, <2>1, <2>2, <2>3 DEF Place, InCritical, Critical, Resting
<1>7. ASSUME Unflag PROVE Goal
  <2>1. /\ Place("events") = "unflag" /\ Place("events")' = "untunnel"
        /\ ~vpn_connected' /\ UNCHANGED <<napt, portmap_tab, nvs_portmap_tab, unsaved, my_ip, vpn_tunnel_ip>>
    BY <1>0, <1>7 DEF Unflag, maps, flash, link, At, Goto, Place, InCritical, Critical
  <2>2. ASSUME Here("events") PROVE Here("events")'
    <3>1. napt = Wanted /\ (unsaved \/ nvs_portmap_tab = portmap_tab)
      BY <2>1, <2>2 DEF Here, Phase
    <3>2. PICK e : e = Edited("events")'
      OBVIOUS
    <3>3. Phase("untunnel", e)'
      BY <2>1, <3>1, StillWanted DEF Phase
    <3> QED BY <2>1, <3>2, <3>3, Lands
  <2> QED BY <2>1, <2>2 DEF Place, InCritical
<1>8. ASSUME Untunnel PROVE Goal
  <2>1. /\ Place("events") = "untunnel" /\ Place("events")' = "delete"
        /\ vpn_tunnel_ip' = NoIP
        /\ UNCHANGED <<napt, portmap_tab, nvs_portmap_tab, unsaved, vpn_connected>>
    BY <1>0, <1>8 DEF Untunnel, maps, flash, At, Goto, Place, InCritical, Critical
  <2>2. Here("events") => Bound'
    BY <2>1 DEF Here, Phase, Bound
  <2> QED BY <2>1, <2>2, ToDelete DEF Place, InCritical
<1>9. ASSUME GotIP PROVE Goal
  <2>1. /\ Place("events") = "idle" /\ Place("events")' = "delete"
        /\ UNCHANGED <<napt, portmap_tab, nvs_portmap_tab, unsaved, vpn_tunnel_ip, vpn_connected, ap_pmtu>>
        /\ InCritical("events")'
    BY <1>0, <1>9 DEF GotIP, maps, flash, tunnel, Dispatch, At, Goto, Place, InCritical, Critical
  <2>2. Here("events") => Bound'
    BY <2>1 DEF Here, Phase, Bound
  <2> QED BY <2>1, <2>2, ToDelete DEF Resting
<1>10. ASSUME Rebind("events") PROVE Goal
  <2>1. pc["events"] \in Critical
    BY <1>10 DEF Rebind, Delete, Apply, At, Critical
  <2> QED BY <1>0, <1>10, <2>1, DeleteHere, ApplyHere DEF Rebind, InCritical
<1> QED BY <1>1, <1>3, <1>5, <1>6, <1>7, <1>8, <1>9, <1>10 DEF EventTask

\* The task that connects.
LEMMA VpnMaps ==
  ASSUME RouteTypes, VpnTask
  PROVE  /\ UNCHANGED <<portmap_tab, nvs_portmap_tab, unsaved, edit>>
         /\ \A u \in Tasks \ {"vpn"} : pc'[u] = pc[u] /\ Edited(u)' = Edited(u)
         /\ ~InCritical("vpn") /\ ~InCritical("vpn")' => UNCHANGED bound
         /\ Here("vpn") => Here("vpn")'
<1>0. "vpn" \in Tasks /\ pc \in [Tasks -> Labels]
  BY DEF Tasks, RouteTypes
<1>1. UNCHANGED <<portmap_tab, nvs_portmap_tab, unsaved, edit>>
  BY DEF VpnTask, Connect, InitWireguard, Peer, Route, Tune, Flag, Tunnel, Finish, Rebind, Delete,
     Apply, MapsOnly, VpnOnly, maps, flash
<1>2. \A u \in Tasks \ {"vpn"} : pc'[u] = pc[u]
  BY <1>0 DEF VpnTask, Connect, InitWireguard, Peer, Route, Tune, Flag, Tunnel, Finish, Rebind, Delete,
     Apply, Goto
<1>3. \A u \in Tasks \ {"vpn"} : pc'[u] = pc[u] /\ Edited(u)' = Edited(u)
  BY <1>1, <1>2 DEF Edited
<1> DEFINE Quietly == Place("vpn") \in Resting /\ Place("vpn")' \in Resting /\ UNCHANGED bound
           Goal == /\ ~InCritical("vpn") /\ ~InCritical("vpn")' => UNCHANGED bound
                   /\ Here("vpn") => Here("vpn")'
<1>4. ASSUME Quietly PROVE Goal
  BY <1>4, Rested
<1>5. ASSUME Connect \/ InitWireguard \/ Peer \/ Route \/ Finish PROVE Goal
  <2>1. pc["vpn"] \in {"wait", "init", "peer", "route", "finish"}
    BY <1>5 DEF Connect, InitWireguard, Peer, Route, Finish, At
  <2>2. pc'["vpn"] \in {"idle", "init", "peer", "route", "tune", "finish"}
    BY <1>0, <1>5 DEF Connect, InitWireguard, Peer, Route, Finish, Goto
  <2>3. UNCHANGED bound
    BY <1>5 DEF Connect, InitWireguard, Peer, Route, Finish, VpnOnly, bound, tunnel, link, maps, flash
  <2> QED BY <1>4, <2>1, <2>2, <2>3 DEF Place, InCritical, Critical, Resting
<1>6. ASSUME Tune PROVE Goal
  <2>1. /\ Place("vpn") = "idle" /\ Place("vpn")' = "flag" /\ InCritical("vpn")'
        /\ ap_pmtu'
        /\ UNCHANGED <<napt, portmap_tab, nvs_portmap_tab, unsaved, my_ip, vpn_tunnel_ip, vpn_connected>>
    BY <1>0, <1>6 DEF Tune, VpnOnly, maps, flash, link, At, Goto, Place, InCritical, Critical
  <2>2. ASSUME Here("vpn") PROVE Here("vpn")'
    <3>1. napt = Wanted /\ (unsaved \/ nvs_portmap_tab = portmap_tab) /\ Bound
      BY <2>1, <2>2 DEF Here, Phase
    <3>2. PICK e : e = Edited("vpn")'
      OBVIOUS
    <3>3. Phase("flag", e)'
      BY <2>1, <3>1, StillWanted DEF Phase, Bound
    <3> QED BY <2>1, <3>2, <3>3, Lands
  <2> QED BY <2>1, <2>2
<1>7. ASSUME Flag PROVE Goal
  <2>1. /\ Place("vpn") = "flag" /\ Place("vpn")' = "tunnel" /\ InCritical("vpn")
        /\ vpn_connected'
        /\ UNCHANGED <<napt, portmap_tab, nvs_portmap_tab, unsaved, my_ip, vpn_tunnel_ip, ap_pmtu>>
    BY <1>0, <1>7 DEF Flag, VpnOnly, maps, flash, link, At, Goto, Place, InCritical, Critical
  <2>2. ASSUME Here("vpn") PROVE Here("vpn")'
    <3>1. napt = Wanted /\ (unsaved \/ nvs_portmap_tab = portmap_tab) /\ ap_pmtu
      BY <2>1, <2>2 DEF Here, Phase
    <3>2. PICK e : e = Edited("vpn")'
      OBVIOUS
    <3>3. Phase("tunnel", e)'
      BY <2>1, <3>1, StillWanted DEF Phase, Bound
    <3> QED BY <2>1, <3>2, <3>3, Lands
  <2> QED BY <2>1, <2>2
<1>8. ASSUME Tunnel PROVE Goal
  <2>1. /\ Place("vpn") = "tunnel" /\ Place("vpn")' = "delete" /\ InCritical("vpn")
        /\ UNCHANGED <<napt, portmap_tab, nvs_portmap_tab, unsaved, vpn_connected, ap_pmtu>>
    BY <1>0, <1>8 DEF Tunnel, VpnOnly, maps, flash, At, Goto, Place, InCritical, Critical
  <2>2. Here("vpn") => Bound'
    BY <2>1 DEF Here, Phase, Bound
  <2> QED BY <2>1, <2>2, ToDelete
<1>9. ASSUME Rebind("vpn") PROVE Goal
  <2>1. pc["vpn"] \in Critical
    BY <1>9 DEF Rebind, Delete, Apply, At, Critical
  <2> QED BY <1>0, <1>9, <2>1, DeleteHere, ApplyHere DEF Rebind, InCritical
<1> QED BY <1>1, <1>3, <1>5, <1>6, <1>7, <1>8, <1>9 DEF VpnTask

\* An administrator.
LEMMA AdminMaps ==
  ASSUME MapTypes, pc \in [Tasks -> Labels], NEW a \in Admins, EditStep(a)
  PROVE  /\ MapTypes'
         /\ \A u \in Tasks \ {a} : pc'[u] = pc[u] /\ Edited(u)' = Edited(u)
         /\ InCritical(a) \/ InCritical(a)'
         /\ Here(a) => Here(a)'
<1> DEFINE Goal == /\ MapTypes'
                   /\ \A u \in Tasks \ {a} : pc'[u] = pc[u] /\ Edited(u)' = Edited(u)
                   /\ InCritical(a) \/ InCritical(a)'
                   /\ Here(a) => Here(a)'
<1>1. a \in Tasks /\ DOMAIN pc = Tasks /\ DOMAIN edit = Admins /\ Unused \in Mapping
      /\ portmap_tab \in Tables /\ edit \in [Admins -> Mapping]
  BY DEF Tasks, MapTypes, Mapping
<1>2. /\ UNCHANGED <<my_ip, vpn_tunnel_ip, vpn_connected, ap_pmtu>>
      /\ Bound' <=> Bound
  BY DEF EditStep, AddPortmap, DelPortmap, ClearAll, Store, Map, Unmap, EditOnly, tunnel, link, Bound
<1>3. ASSUME NEW l, pc' = [pc EXCEPT ![a] = l],
             NEW e \in Mapping, edit' = [edit EXCEPT ![a] = e]
      PROVE  /\ pc'[a] = l /\ Edited(a)' = e /\ edit' \in [Admins -> Mapping]
             /\ \A u \in Tasks \ {a} : pc'[u] = pc[u] /\ Edited(u)' = Edited(u)
  BY <1>1, <1>3 DEF Edited
<1>4. ASSUME NEW m \in Mapping, m.valid, Mapped(m.port) = {}, Begin(a), FreeSlots # {},
             portmap_tab' = [portmap_tab EXCEPT ![Min(FreeSlots)] = m],
             edit' = [edit EXCEPT ![a] = m], Goto(a, "store"), UNCHANGED <<napt, nvs_portmap_tab, unsaved>>
      PROVE  Goal
  <2>1. Min(FreeSlots) \in FreeSlots
    <3>1. FreeSlots \in SUBSET Slots
      BY DEF FreeSlots
    <3> QED BY <1>4, <3>1, MinIn
  <2>2. portmap_tab' \in Tables /\ TabEntries' = TabEntries \cup {m}
    BY <1>1, <1>4, <2>1, Filled
  <2>3. Wanted' = Wanted \cup Binding(m)
    BY <1>2, <2>2, WantedGrows
  <2>4. pc'[a] = "store" /\ Edited(a)' = m /\ edit' \in [Admins -> Mapping]
    BY <1>3, <1>4 DEF Goto
  <2>5. Place(a) = "idle" /\ Place(a)' = "store" /\ InCritical(a)'
    BY <1>4, <2>4 DEF Begin, At, Place, InCritical, Critical
  <2>6. ASSUME Here(a) PROVE Here(a)'
    <3>1. napt = Wanted /\ Bound
      BY <2>5, <2>6 DEF Here, Phase
    <3>2. Wanted' = napt' \cup Binding(m)'
      BY <1>2, <1>4, <2>3, <3>1 DEF Binding, BindIP
    <3>3. Phase("store", m)'
      BY <1>2, <3>1, <3>2 DEF Phase
    <3> QED BY <2>4, <2>5, <3>3, Lands
  <2>7. MapTypes'
    BY <1>4, <2>2, <2>4 DEF MapTypes
  <2>8. \A u \in Tasks \ {a} : pc'[u] = pc[u] /\ Edited(u)' = Edited(u)
    BY <1>3, <1>4 DEF Goto
  <2> QED BY <2>5, <2>6, <2>7, <2>8
<1>5. ASSUME NEW port \in Ports, Mapped(port) # {}, Begin(a),
             portmap_tab' = [portmap_tab EXCEPT ![Min(Mapped(port))] = Unused],
             edit' = [edit EXCEPT ![a] = portmap_tab[Min(Mapped(port))]], Goto(a, "erase"),
             UNCHANGED <<napt, nvs_portmap_tab, unsaved>>
      PROVE  Goal
  <2>1. Min(Mapped(port)) \in Mapped(port)
    <3>1. Mapped(port) \in SUBSET Slots
      BY DEF Mapped
    <3> QED BY <1>5, <3>1, MinIn
  <2>2. PICK s \in Slots : s = Min(Mapped(port)) /\ portmap_tab[s].valid /\ portmap_tab[s].port = port
    BY <2>1 DEF Mapped
  <2>3. PICK m \in Mapping : m = portmap_tab[s]
    BY <1>1 DEF Tables, Mapping
  <2>4. portmap_tab' \in Tables /\ TabEntries' = {e \in TabEntries : e.port # port}
    BY <1>1, <1>5, <2>2, Emptied
  <2>5. Wanted' = {x \in Wanted : x[1] \notin {port}}
    BY <1>2, <2>4, WantedShrinks
  <2>6. pc'[a] = "erase" /\ Edited(a)' = m /\ edit' \in [Admins -> Mapping] /\ m.port = port
    BY <1>3, <1>5, <2>2, <2>3 DEF Goto
  <2>7. Place(a) = "idle" /\ Place(a)' = "erase" /\ InCritical(a)'
    BY <1>5, <2>6 DEF Begin, At, Place, InCritical, Critical
  <2>8. ASSUME Here(a) PROVE Here(a)'
    <3>1. napt = Wanted /\ Bound
      BY <2>7, <2>8 DEF Here, Phase
    <3>2. Wanted' = Unmapped({m.port})'
      BY <1>5, <2>5, <2>6, <3>1 DEF Unmapped
    <3>3. Phase("erase", m)'
      BY <1>2, <3>1, <3>2 DEF Phase
    <3> QED BY <2>6, <2>7, <3>3, Lands
  <2>9. MapTypes'
    BY <1>5, <2>4, <2>6 DEF MapTypes
  <2>10. \A u \in Tasks \ {a} : pc'[u] = pc[u] /\ Edited(u)' = Edited(u)
    BY <1>3, <1>5, <2>2, <2>3 DEF Goto
  <2> QED BY <2>7, <2>8, <2>9, <2>10
<1>6. PICK e \in Mapping : e = edit[a]
  BY <1>1
<1>7. edit' = edit => edit' = [edit EXCEPT ![a] = e]
  BY <1>1, <1>6
<1>8. Edited(a) = e
  BY <1>6 DEF Edited
<1>9. ASSUME ClearAll(a) PROVE Goal
  <2>1. pc'[a] = "cleared" /\ edit' \in [Admins -> Mapping]
        /\ \A u \in Tasks \ {a} : pc'[u] = pc[u] /\ Edited(u)' = Edited(u)
    BY <1>3, <1>7, <1>9 DEF ClearAll, Goto
  <2>2. Place(a) = "idle" /\ Place(a)' = "cleared" /\ InCritical(a)'
    BY <1>9, <2>1 DEF ClearAll, Begin, At, Place, InCritical, Critical
  <2>3. portmap_tab' \in Tables /\ TabEntries' = {}
    BY <1>9, Cleared DEF ClearAll, TabEntries
  <2>4. Wanted' = {}
    BY <2>3 DEF Wanted
  <2>5. ASSUME Here(a) PROVE Here(a)'
    <3>1. napt = Wanted /\ Bound
      BY <2>2, <2>5 DEF Here, Phase
    <3>2. napt' = {}
      BY <1>9, <3>1, WantedPorts DEF ClearAll, Unmapped
    <3>3. PICK k : k = Edited(a)'
      OBVIOUS
    <3>4. Phase("cleared", k)'
      BY <1>2, <2>4, <3>1, <3>2 DEF Phase
    <3> QED BY <2>2, <3>3, <3>4, Lands
  <2> QED BY <1>9, <2>1, <2>2, <2>3, <2>5 DEF ClearAll, MapTypes, flash
<1>10. ASSUME Store(a) PROVE Goal
  <2>1. PICK l \in {"map", "unmap", "idle"} :
          /\ pc' = [pc EXCEPT ![a] = l]
          /\ \/ pc[a] = "store" /\ l = "map"
             \/ pc[a] = "erase" /\ l = "unmap"
             \/ pc[a] = "cleared" /\ l = "idle"
    BY <1>10 DEF Store, At, Goto
  <2>2. /\ pc'[a] = l /\ Edited(a)' = e /\ edit' \in [Admins -> Mapping]
        /\ \A u \in Tasks \ {a} : pc'[u] = pc[u] /\ Edited(u)' = Edited(u)
    BY <1>3, <1>7, <1>10, <2>1 DEF Store
  <2>3. Place(a) = pc[a] /\ InCritical(a) /\ Place(a)' = l
    BY <2>1, <2>2 DEF Place, InCritical, Critical
  <2>4. /\ UNCHANGED <<napt, portmap_tab>>
        /\ \/ nvs_portmap_tab' = portmap_tab' /\ ~unsaved'
           \/ UNCHANGED nvs_portmap_tab /\ unsaved'
        /\ Wanted' = Wanted /\ Binding(e)' = Binding(e)
    BY <1>2, <1>10, StillWanted DEF Store
  <2>5. ASSUME Here(a) PROVE Here(a)'
    <3>1. Phase(pc[a], e)
      BY <1>8, <2>3, <2>5 DEF Here
    <3>2. Phase(l, e)'
      BY <1>2, <2>1, <2>4, <3>1 DEF Phase, Unmapped
    <3> QED BY <2>2, <2>3, <3>2, Lands
  <2> QED BY <1>1, <2>2, <2>3, <2>4, <2>5 DEF MapTypes
<1>11. ASSUME Map(a) \/ Unmap(a) PROVE Goal
  <2>1. /\ pc[a] \in {"map", "unmap"} /\ pc' = [pc EXCEPT ![a] = "idle"]
        /\ edit' = [edit EXCEPT ![a] = Unused] /\ UNCHANGED <<portmap_tab, nvs_portmap_tab, unsaved>>
    BY <1>11 DEF Map, Unmap, At, Goto, flash
  <2>2. /\ pc'[a] = "idle" /\ Edited(a)' = Unused /\ edit' \in [Admins -> Mapping]
        /\ \A u \in Tasks \ {a} : pc'[u] = pc[u] /\ Edited(u)' = Edited(u)
    BY <1>1, <1>3, <2>1
  <2>3. Place(a) = pc[a] /\ InCritical(a) /\ Place(a)' = "idle"
    BY <2>1, <2>2 DEF Place, InCritical, Critical
  <2>4. Wanted' = Wanted
    BY <1>2, <2>1, StillWanted
  <2>5. ASSUME Here(a) PROVE Here(a)'
    <3>1. Phase(pc[a], e)
      BY <1>8, <2>3, <2>5 DEF Here
    <3>2. napt' = Wanted'
      <4>1. CASE Map(a)
        <5>1. Wanted = napt \cup Binding(e) /\ napt' = napt \cup Binding(e)
          BY <1>6, <3>1, <4>1 DEF Map, At, Phase, Binding
        <5> QED BY <2>4, <5>1
      <4>2. CASE Unmap(a)
        <5>1. Wanted = Unmapped({e.port}) /\ napt' = Unmapped({e.port})
          BY <1>6, <3>1, <4>2 DEF Unmap, At, Phase
        <5> QED BY <2>4, <5>1
      <4> QED BY <1>11, <4>1, <4>2
    <3>3. Phase("idle", Unused)'
      BY <1>2, <2>1, <3>1, <3>2 DEF Phase
    <3> QED BY <2>2, <2>3, <3>3, Lands
  <2> QED BY <1>1, <2>1, <2>2, <2>3, <2>5 DEF MapTypes
<1>12. AddPortmap(a) => Goal
  BY <1>4 DEF AddPortmap, flash
<1>13. DelPortmap(a) => Goal
  BY <1>5 DEF DelPortmap, flash
<1> QED BY <1>9, <1>10, <1>11, <1>12, <1>13 DEF EditStep
-----------------------------------------------------------------------------
LEMMA Inductive == IInv /\ [Next]_vars => IInv'
<1> SUFFICES ASSUME IInv, [Next]_vars PROVE IInv'
  OBVIOUS
<1>0. RouteTypes /\ Fresh /\ Kept /\ "events" \in Tasks /\ "vpn" \in Tasks
  BY DEF IInv, Tasks
<1>1. CASE Outside
  <2>1. PICK e \in Event :
          /\ events' = Append(events, e)
          /\ UNCHANGED route \/ (e.type = "got_ip" /\ Recompute(TRUE, eth_link_up))
    BY <1>0, <1>1, OutsideSteps
  <2>2. UNCHANGED <<tunnel, eth_link_up, vpn_mode, pc>>
    BY <1>0, <1>1, OutsideSteps
  <2>3. events \in Seq(Event)
    BY <1>0 DEF RouteTypes
  <2>4. RouteTypes'
    BY <1>0, <2>1, <2>2, <2>3, Posted DEF RouteTypes, tunnel, route, Recompute
  <2>5. Fresh'
    BY <1>0, <2>1, <2>2 DEF Fresh, tunnel, route, Recompute, RouteTypes
  <2>6. Ahead => Ahead'
    BY <1>0, <2>1, <2>2, <2>3, Posted DEF Ahead, RouteTypes
  <2>7. e.type = "got_ip" => Ahead'
    BY <1>0, <2>1, <2>2, <2>3, Posted DEF Ahead, RouteTypes, Reasserting
  <2>8. Kept'
    BY <1>0, <2>1, <2>2, <2>6, <2>7 DEF Kept, Due, tunnel, route, RouteTypes
  <2> QED BY <2>4, <2>5, <2>8 DEF IInv
<1>2. CASE EventTask
  BY <1>0, <1>2, EventTypes, EventSteps DEF IInv
<1>3. CASE VpnTask
  BY <1>0, <1>3, VpnTypes, VpnSteps DEF IInv
<1>4. CASE \E a \in Admins : EditStep(a)
  <2>1. PICK a \in Admins : EditStep(a)
    BY <1>4
  <2>2. /\ UNCHANGED <<route, tunnel, eth_link_up, vpn_mode, events>>
        /\ pc' \in [Tasks -> Labels]
        /\ pc'["events"] = pc["events"] /\ pc'["vpn"] = pc["vpn"]
    BY <1>0, <2>1, EditSteps
  <2>3. RouteTypes'
    BY <1>0, <2>2 DEF RouteTypes, route, tunnel
  <2> QED BY <1>0, <2>2, <2>3 DEF IInv, Fresh, Kept, Due, Ahead, route, tunnel
<1>5. CASE Restart
  <2>1. BootPc \in [Tasks -> Labels] /\ BootPc["events"] = "idle" /\ BootPc["vpn"] = "idle"
    BY DEF BootPc, Tasks, Labels
  <2>2. <<>> \in Seq(Event)
    OBVIOUS
  <2>3. RouteTypes'
    BY <1>5, <2>1, <2>2 DEF Restart, RouteTypes
  <2>4. Fresh' /\ Kept'
    BY <1>5, <2>1 DEF Restart, Fresh, Kept, Due
  <2> QED BY <2>3, <2>4 DEF IInv
<1>6. CASE UNCHANGED vars
  BY <1>0, <1>6 DEF vars, route, tunnel, link, IInv, RouteTypes, Fresh, Kept, Due, Ahead
<1> QED BY <1>1, <1>2, <1>3, <1>4, <1>5, <1>6 DEF Next, Progress

\* The mappings, step by step.
LEMMA NextMaps == RouteTypes /\ MapsInv /\ [Next]_vars => MapsInv'
<1> SUFFICES ASSUME RouteTypes, MapsInv, [Next]_vars PROVE MapsInv'
  OBVIOUS
<1>0. /\ "events" \in Tasks /\ "vpn" \in Tasks /\ "events" \notin Admins /\ "vpn" \notin Admins
      /\ pc \in [Tasks -> Labels] /\ MapTypes /\ Alone /\ Phases
  BY UplinkAssumption DEF Tasks, RouteTypes, MapsInv
<1>1. CASE Outside /\ overlapped' = (overlapped \/ Overlap')
  <2>1. UNCHANGED <<bound, edit, pc>>
    BY <1>1 DEF Outside, Lease, LinkLost, Cable, OutsideOnly, bound, maps, flash, tunnel
  <2>2. /\ \A u \in Tasks : InCritical(u)' <=> InCritical(u)
        /\ \A u \in Tasks : pc'[u] = pc[u] /\ Edited(u)' = Edited(u)
        /\ MapTypes'
    BY <1>0, <2>1 DEF InCritical, Edited, MapTypes, bound
  <2>3. Here("vpn") => Here("vpn")'
    <3>1. ASSUME Here("vpn") PROVE Here("vpn")'
      <4>1. PICK k, e : k = Place("vpn") /\ e = Edited("vpn")
        OBVIOUS
      <4>2. Place("vpn")' = k /\ Edited("vpn")' = e
        BY <1>0, <2>1, <2>2, <4>1 DEF Place
      <4>3. Phase(k, e)
        BY <3>1, <4>1 DEF Here
      <4> QED BY <2>1, <4>2, <4>3, StillHere, Lands
    <3> QED BY <3>1
  <2> QED BY <1>0, <1>1, <2>1, <2>2, <2>3, Carried DEF MapsInv
<1>2. CASE EventTask /\ overlapped' = (overlapped \/ Overlap')
  <2>1. pc' \in [Tasks -> Labels]
    BY <1>2, EventTypes DEF RouteTypes
  <2>2. MapTypes'
    BY <1>0, <1>2, EventMaps DEF MapTypes
  <2> QED BY <1>0, <1>2, <2>1, <2>2, EventMaps, Carried DEF MapsInv
<1>3. CASE VpnTask /\ overlapped' = (overlapped \/ Overlap')
  <2>1. pc' \in [Tasks -> Labels]
    BY <1>3, VpnTypes DEF RouteTypes
  <2>2. MapTypes'
    BY <1>0, <1>3, VpnMaps DEF MapTypes
  <2>3. \A u \in Tasks \ {"vpn"} : pc'[u] = pc[u] /\ Edited(u)' = Edited(u)
    BY <1>3, VpnMaps
  <2>4. \A u \in Tasks \ {"vpn"} : InCritical(u)' <=> InCritical(u)
    BY <2>3 DEF InCritical
  <2> QED BY <1>0, <1>3, <2>1, <2>2, <2>3, <2>4, VpnMaps, Carried DEF MapsInv
<1>4. CASE (\E a \in Admins : EditStep(a)) /\ overlapped' = (overlapped \/ Overlap')
  <2>1. PICK a \in Admins : EditStep(a)
    BY <1>4
  <2>2. a \in Tasks /\ pc' \in [Tasks -> Labels]
    BY <2>1, EditSteps DEF Tasks
  <2>3. /\ MapTypes'
        /\ \A u \in Tasks \ {a} : pc'[u] = pc[u] /\ Edited(u)' = Edited(u)
        /\ InCritical(a) \/ InCritical(a)'
        /\ Here(a) => Here(a)'
    BY <1>0, <2>1, AdminMaps
  <2>4. \A u \in Tasks \ {a} : InCritical(u)' <=> InCritical(u)
    BY <2>3 DEF InCritical
  <2> QED BY <1>0, <1>4, <2>2, <2>3, <2>4, Carried DEF MapsInv
<1>5. CASE Restart
  <2>1. \A t \in Tasks : ~InCritical(t)'
    BY <1>5 DEF Restart, BootPc, InCritical, Critical
  <2>2. napt' = {} /\ my_ip' = NoIP /\ vpn_tunnel_ip' = NoIP /\ ~vpn_connected'
        /\ portmap_tab' = nvs_portmap_tab /\ nvs_portmap_tab' = nvs_portmap_tab
    BY <1>5 DEF Restart
  <2>3. Wanted' = {}
    BY <2>2 DEF Wanted, BindIP
  <2>4. Phase("idle", Unused)'
    BY <2>2, <2>3 DEF Phase, Bound
  <2>5. MapTypes'
    BY <1>0, <1>5 DEF Restart, MapTypes, Mapping
  <2> QED BY <2>1, <2>4, <2>5 DEF MapsInv, Alone, Phases
<1>6. CASE UNCHANGED vars
  BY <1>0, <1>6 DEF vars, route, tunnel, link, maps, flash, MapsInv, MapTypes, Alone, Phases, Here, Place,
     Edited, InCritical, Phase, Bound, Wanted, TabEntries, BindIP, Binding, Unmapped
<1> QED BY <1>1, <1>2, <1>3, <1>4, <1>5, <1>6 DEF Next, Progress

THEOREM Invariance == Spec => []IInv
<1>1. Init => IInv
  <2> SUFFICES ASSUME Init PROVE IInv
    OBVIOUS
  <2>1. BootPc \in [Tasks -> Labels] /\ BootPc["events"] = "idle" /\ BootPc["vpn"] = "idle"
    BY DEF BootPc, Tasks, Labels
  <2>2. <<>> \in Seq(Event)
    OBVIOUS
  <2>3. RouteTypes
    BY <2>1, <2>2 DEF Init, RouteTypes
  <2> QED BY <2>1, <2>3 DEF Init, IInv, Fresh, Kept, Due
<1> QED BY <1>1, Inductive, PTL DEF Spec

(* For any number of administrators, mappings and addresses, once all events are handled
   and no connection is under way, a connected tunnel that was not deprived of the route
   inside vpn_connect is the default route while the downlink is up (vpn_manager.c:115). *)
THEOREM TunnelAlwaysKeepsRoute == Spec => []TunnelKeepsRoute
<1>1. IInv => TunnelKeepsRoute
  <2> SUFFICES ASSUME IInv, events = <<>>, pc["vpn"] = "idle", Due PROVE netif_default = "wg"
    BY DEF TunnelKeepsRoute, Settled, At, Due
  <2>1. pc["events"] = "idle"
    BY DEF IInv, RouteTypes
  <2>2. ~Ahead
    BY <2>1 DEF Ahead, Waiting
  <2> QED BY <2>2 DEF IInv, Kept
<1> QED BY <1>1, Invariance, PTL

(* For any number of administrators, mappings, addresses and ports, and as long as no two
   tasks are among the mappings at once: whenever none is, the NAT engine holds exactly the
   valid mappings whose address is known, bound to the address of today, flash holds the
   table unless the last write to it failed, and the tunnel has an address only while it is connected (portmap.c:24,
   vpn_manager.c:131). *)
THEOREM NatAlwaysFollowsTable == Spec => []NatFollowsTable
<1>1. Init => MapsInv
  <2> SUFFICES ASSUME Init PROVE MapsInv
    OBVIOUS
  <2>1. \A t \in Tasks : ~InCritical(t)
    BY DEF Init, BootPc, InCritical, Critical
  <2>2. napt = {} /\ my_ip = NoIP /\ vpn_tunnel_ip = NoIP /\ ~vpn_connected
        /\ nvs_portmap_tab = portmap_tab
    BY DEF Init
  <2>3. Wanted = {}
    BY <2>2 DEF Wanted, BindIP
  <2>4. Phase("idle", Unused)
    BY <2>2, <2>3 DEF Phase, Bound
  <2>5. MapTypes
    BY DEF Init, MapTypes, Mapping
  <2> QED BY <2>1, <2>4, <2>5 DEF MapsInv, Alone, Phases
<1>2. IInv /\ MapsInv /\ [Next]_vars => MapsInv'
  BY NextMaps DEF IInv
<1>3. MapsInv => NatFollowsTable
  BY DEF MapsInv, Phases, Phase, Bound, NatFollowsTable
<1> QED BY <1>1, <1>2, <1>3, Invariance, PTL DEF Spec
=============================================================================
