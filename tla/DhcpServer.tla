----------------------------- MODULE DhcpServer -----------------------------
(***************************************************************************)
(* The DHCP server of the Ethernet downlink (dhcpserver.c): the sorted     *)
(* lease list, the search for an address, the one-second lease timer, and  *)
(* the reservation table it consults (dhcp_manager.c).                     *)
(*                                                                         *)
(* handle_dhcp and dhcps_tmr both run in the lwIP thread, so each is one   *)
(* atomic action.  Reservations are changed by other tasks between them.   *)
(* Addresses are host numbers of the downlink's /24: the code compares     *)
(* network-order words, whose most significant byte on this little-endian  *)
(* CPU is the host number, and the console and the web page accept only    *)
(* reservations inside that /24.                                           *)
(***************************************************************************)
EXTENDS DhcpPool, Sequences, SequencesExt, FiniteSets

CONSTANTS
  Macs,             \* hardware addresses of the clients
  ServerIPs,        \* addresses the router may be configured with
  Addresses,        \* addresses a client may name or a reservation may hold
  MaxReservations,  \* MAX_DHCP_RESERVATIONS
  LeaseTicks,       \* ticks of a fresh lease: dhcps_lease_time * 60
  MaxStations       \* MAX_STATION_NUM

NoAddress == 0      \* ciaddr 0.0.0.0, an absent option 50, no reservation
NoMac == "no mac"

ASSUME DhcpAssumption ==
  /\ ServerIPs \subseteq Hosts /\ ServerIPs # {}
  /\ Addresses \subseteq Nat \ {0}
  /\ \A ip \in ServerIPs : WiderSide(ip).start .. WiderSide(ip).end \subseteq Addresses
  /\ MaxReservations \in Nat
  /\ LeaseTicks \in Nat \ {0} /\ MaxStations \in Nat \ {0}
  /\ NoMac \notin Macs

VARIABLES
  server_address,  \* dhcps->server_address; a new one takes effect with a reboot
  poll,       \* dhcps->dhcps_poll, the pool
  state,      \* dhcps->state
  leases,     \* dhcps->plist: a sequence of [mac, ip, timer], ascending by ip
  plus,       \* dhcps->client_address_plus, where the next search starts
  declined,   \* dhcps->has_declined_ip
  resv,       \* what lookup_dhcp_reservation returns for each MAC
  reply       \* the last message handled and the answer given to it

vars == <<server_address, poll, state, leases, plus, declined, resv, reply>>

StartIP == poll.start
EndIP == poll.end

MsgTypes == {"DISCOVER", "REQUEST", "DECLINE", "RELEASE", "INFORM"}

\* A message: the client, option 53, ciaddr, and the address of option 50 if there
\* is one.  The two addresses decide nothing but the answer to a REQUEST, and
\* option 50 the answer to a type the server does not know; elsewhere they are
\* left out.
Message(mac, type, ciaddr, reqip) ==
  [mac |-> mac, type |-> type, ciaddr |-> ciaddr, reqip |-> reqip]

Messages ==
  {Message(m, t, NoAddress, NoAddress) : m \in Macs, t \in MsgTypes}
    \cup {Message(m, "REQUEST", ip, NoAddress) : m \in Macs, ip \in Addresses}
    \cup {Message(m, t, NoAddress, ip) : m \in Macs, t \in {"REQUEST", "INFORM"}, ip \in Addresses}

NoReply == [mac |-> NoMac, type |-> "none", verdict |-> "IDLE", ip |-> NoAddress]
-----------------------------------------------------------------------------
(* Reservations *)

lookup_dhcp_reservation(mac) == resv[mac]

is_ip_reserved_for_other(ip, mac) ==
  ip # NoAddress /\ \E other \in Macs \ {mac} : resv[other] = ip

(* The lease list *)

LeasedIPs(list) == {list[i].ip : i \in DOMAIN list}

HasLease(mac) == \E i \in DOMAIN leases : leases[i].mac = mac

\* The node the walk stops at: the first one with the client's MAC.
Holder(mac) ==
  CHOOSE i \in DOMAIN leases :
    leases[i].mac = mac /\ \A j \in 1 .. (i - 1) : leases[j].mac # mac

\* In front of the first node with a greater address.
node_insert_to_list(list, node) ==
  LET greater == {i \in DOMAIN list : node.ip < list[i].ip}
  IN  IF greater = {} THEN Append(list, node)
      ELSE InsertAt(list, CHOOSE i \in greater : \A j \in greater : i <= j, node)

\* A fault: the search does not step over a taken address.
Visit_NoStep(w, lease) ==
  [plus |-> w.plus, gap |-> w.gap \/ w.first < lease.ip,
   first |-> IF w.gap \/ w.first < lease.ip THEN w.first ELSE w.first + 1]

\* One turn of the search loop: plus steps over an address that is taken, and
\* first, the first unused address, over every one up to the first gap.
Visit(w, lease) ==
  [plus  |-> IF lease.ip = w.plus THEN w.plus + 1 ELSE w.plus,
   first |-> IF w.gap \/ w.first < lease.ip THEN w.first ELSE w.first + 1,
   gap   |-> w.gap \/ w.first < lease.ip]

\* The loop over the nodes in front of the client's own (over all if it has none).
Search(nodes) ==
  LET walk[n \in 0 .. Len(nodes)] ==
        IF n = 0 THEN [plus |-> plus, first |-> StartIP, gap |-> FALSE]
        ELSE Visit(walk[n - 1], nodes[n])
  IN  walk[Len(nodes)]

\* A fault: the address is taken as it was found.
SkipReserved_Never(ip, mac) == ip

\* Up from ip, past every address reserved for another client.
SkipReserved(ip, mac) ==
  IF ip > EndIP THEN ip
  ELSE CHOOSE a \in ip .. (EndIP + 1) :
         /\ a = EndIP + 1 \/ ~is_ip_reserved_for_other(a, mac)
         /\ \A b \in ip .. (a - 1) : is_ip_reserved_for_other(b, mac)

\* A fault: at the end of the pool the search does not go back to the first gap.
ChosenAddress_NoWrap(mac, w) ==
  IF lookup_dhcp_reservation(mac) # NoAddress
  THEN lookup_dhcp_reservation(mac)
  ELSE SkipReserved(IF leases = <<>> /\ ~declined THEN StartIP ELSE w.plus, mac)

\* The address parse_msg picks for a client without a lease.
ChosenAddress(mac, w) ==
  LET next == IF leases = <<>> /\ ~declined THEN StartIP ELSE w.plus
      pool == IF w.plus > EndIP THEN w.first ELSE next
  IN  IF lookup_dhcp_reservation(mac) # NoAddress
      THEN lookup_dhcp_reservation(mac)
      ELSE SkipReserved(pool, mac)

\* parse_msg up to POOL_CHECK.  node is the index of the client's lease, 0 if
\* the search went past the pool and there is none.
Located(mac) ==
  IF HasLease(mac)
  THEN LET i == Holder(mac)
       IN  [leases |-> [leases EXCEPT ![i].timer = LeaseTicks],
            node |-> i, client |-> leases[i].ip,
            plus |-> Search(SubSeq(leases, 1, i - 1)).plus]
  ELSE LET w    == Search(leases)
           ip   == ChosenAddress(mac, w)
           list == node_insert_to_list(leases, [mac |-> mac, ip |-> ip, timer |-> LeaseTicks])
       IN  IF ip > EndIP
           THEN [leases |-> leases, node |-> 0, client |-> ip, plus |-> StartIP]
           ELSE [leases |-> list, client |-> ip,
                 node |-> CHOOSE i \in DOMAIN list : list[i].mac = mac,
                 plus |-> IF ip = EndIP THEN StartIP ELSE ip + 1]

\* parse_options: what the message asks for, given the client's address and
\* whether ciaddr shows that it renews the lease it had.
parse_options(msg, client, renew) ==
  LET option50 == IF msg.reqip = NoAddress THEN "IDLE"
                  ELSE IF msg.reqip = client THEN "ACK" ELSE "NAK"
  IN  CASE msg.type = "DISCOVER" -> "OFFER"
        [] msg.type = "DECLINE"  -> "DECLINE"
        [] msg.type = "RELEASE"  -> "RELEASE"
        [] msg.type = "REQUEST"  -> IF option50 # "IDLE" THEN option50
                                    ELSE IF renew THEN "ACK" ELSE "NAK"
        [] msg.type = "INFORM"   -> option50

\* The answer to a message, with the address create_msg puts into it.
Verdict(msg, l) ==
  IF l.client > EndIP \/ l.client = NoAddress
  THEN "NAK"
  ELSE parse_options(msg, l.client, HasLease(msg.mac) /\ l.client = msg.ciaddr)

Refused(verdict) == verdict \in {"NAK", "RELEASE", "DECLINE"}
-----------------------------------------------------------------------------
Init ==
  /\ server_address \in ServerIPs
  /\ poll = NoPoll
  /\ state = "CREATED"
  /\ leases = <<>>
  /\ plus = NoAddress
  /\ declined = FALSE
  /\ resv = [m \in Macs |-> NoAddress]
  /\ reply = NoReply

\* dhcps_start; after a stop it finds the pool it had set before.
dhcps_start ==
  /\ state # "STARTED"
  /\ state' = "STARTED"
  /\ poll' = dhcps_poll_set(poll, server_address)
  /\ plus' = poll'.start
  /\ UNCHANGED <<server_address, leases, declined, resv, reply>>

\* dhcps_stop frees the list; has_declined_ip survives.
dhcps_stop ==
  /\ state = "STARTED"
  /\ state' = "STOPPED"
  /\ leases' = <<>>
  /\ reply' = NoReply
  /\ UNCHANGED <<server_address, poll, plus, declined, resv>>

\* Faults: the node of a refused client stays in the list; the head of the list
\* is removed in its place.
handle_dhcp_KeepsRefused(msg) ==
  LET l == Located(msg.mac)
      v == Verdict(msg, l)
  IN  /\ state = "STARTED"
      /\ leases' = l.leases
      /\ plus' = l.plus
      /\ declined' = (v = "DECLINE")
      /\ reply' = [mac |-> msg.mac, type |-> msg.type, verdict |-> v,
                   ip |-> IF Refused(v) /\ l.client <= EndIP THEN NoAddress ELSE l.client]
      /\ UNCHANGED <<server_address, poll, state, resv>>

handle_dhcp_RemovesHead(msg) ==
  LET l == Located(msg.mac)
      v == Verdict(msg, l)
  IN  /\ state = "STARTED"
      /\ leases' = IF l.node # 0 /\ Refused(v) THEN Tail(l.leases) ELSE l.leases
      /\ plus' = l.plus
      /\ declined' = (v = "DECLINE")
      /\ reply' = [mac |-> msg.mac, type |-> msg.type, verdict |-> v,
                   ip |-> IF Refused(v) /\ l.client <= EndIP THEN NoAddress ELSE l.client]
      /\ UNCHANGED <<server_address, poll, state, resv>>

\* handle_dhcp: parse_msg, then the answer.  The lease of a refused client is
\* removed with it, and client_address, which create_msg copies into yiaddr, is
\* then zero, unless the address was refused for lying outside the pool.
handle_dhcp(msg) ==
  LET l == Located(msg.mac)
      v == Verdict(msg, l)
      inPool == l.client <= EndIP
  IN  /\ state = "STARTED"
      /\ leases' = IF l.node # 0 /\ Refused(v) THEN RemoveAt(l.leases, l.node) ELSE l.leases
      /\ plus' = l.plus
      /\ declined' = (v = "DECLINE")
      /\ reply' = [mac |-> msg.mac, type |-> msg.type, verdict |-> v,
                   ip |-> IF Refused(v) /\ inPool THEN NoAddress ELSE l.client]
      /\ UNCHANGED <<server_address, poll, state, resv>>

\* A fault: the comparison is turned round.
kill_oldest_dhcps_pool_Newest(list) ==
  RemoveAt(list, CHOOSE i \in DOMAIN list :
                   /\ \A j \in DOMAIN list : list[i].timer >= list[j].timer
                   /\ \A j \in 1 .. (i - 1) : list[i].timer > list[j].timer)

\* kill_oldest_dhcps_pool: the first node with the least time left.
kill_oldest_dhcps_pool(list) ==
  RemoveAt(list, CHOOSE i \in DOMAIN list :
                   /\ \A j \in DOMAIN list : list[i].timer <= list[j].timer
                   /\ \A j \in 1 .. (i - 1) : list[i].timer < list[j].timer)

\* A fault: the timers stand still.
Aged_Frozen(list) == list

\* One second off every lease.
Aged(list) == [i \in DOMAIN list |-> [list[i] EXCEPT !.timer = @ - 1]]

\* The leases that have not run out, in their order.
Running(lease) == lease.timer # 0
Remaining(list) ==
  LET left[n \in 0 .. Len(list)] ==
        IF n = 0 THEN <<>>
        ELSE IF Running(list[n]) THEN Append(left[n - 1], list[n]) ELSE left[n - 1]
  IN  left[Len(list)]

\* What ran out is removed, and one lease more when too many are left.
dhcps_tmr ==
  LET left == Remaining(Aged(leases))
  IN  /\ state = "STARTED"
      /\ leases' = IF Len(left) > MaxStations THEN kill_oldest_dhcps_pool(left) ELSE left
      /\ reply' = NoReply
      /\ UNCHANGED <<server_address, poll, state, plus, declined, resv>>

\* add_dhcp_reservation updates the client's entry or takes a free slot.
add_dhcp_reservation(mac, ip) ==
  /\ \/ resv[mac] # NoAddress
     \/ Cardinality({m \in Macs : resv[m] # NoAddress}) < MaxReservations
  /\ resv' = [resv EXCEPT ![mac] = ip]
  /\ reply' = NoReply
  /\ UNCHANGED <<server_address, poll, state, leases, plus, declined>>

del_dhcp_reservation(mac) ==
  /\ resv[mac] # NoAddress
  /\ resv' = [resv EXCEPT ![mac] = NoAddress]
  /\ reply' = NoReply
  /\ UNCHANGED <<server_address, poll, state, leases, plus, declined>>

Next ==
  \/ dhcps_start \/ dhcps_stop \/ dhcps_tmr
  \/ \E msg \in Messages : handle_dhcp(msg)
  \/ \E m \in Macs, ip \in Addresses : add_dhcp_reservation(m, ip)
  \/ \E m \in Macs : del_dhcp_reservation(m)

Spec == Init /\ [][Next]_vars

\* sys_timeout re-arms the timer as long as the server is started.
FairSpec == Spec /\ WF_vars(dhcps_tmr)
-----------------------------------------------------------------------------
LeaseOf(mac) == leases[Holder(mac)]
LeasesOf(list, mac) == {list[i] : i \in {j \in DOMAIN list : list[j].mac = mac}}

TypeOK ==
  /\ server_address \in ServerIPs
  /\ poll \in [enable : BOOLEAN, start : Nat, end : Nat]
  /\ state \in {"CREATED", "STARTED", "STOPPED"}
  /\ \A i \in DOMAIN leases :
       leases[i] \in [mac : Macs, ip : Addresses, timer : 1 .. LeaseTicks]
  /\ plus \in Nat
  /\ declined \in BOOLEAN
  /\ resv \in [Macs -> Addresses \cup {NoAddress}]
  /\ reply \in [mac : Macs \cup {NoMac}, type : MsgTypes \cup {"none"},
                verdict : {"OFFER", "ACK", "NAK", "RELEASE", "DECLINE", "IDLE"},
                ip : Nat]

\* Whatever host address the router has, the pool dhcps_poll_set leaves is not
\* empty, holds only host addresses of the subnet, never the router's own, and
\* no more than MaxLease of them. (An empty or inverted range would make
\* parse_msg refuse every client.)
PoolSafe ==
  poll.enable =>
    /\ poll.start <= poll.end
    /\ poll.start \in Hosts /\ poll.end \in Hosts
    /\ server_address \notin poll.start .. poll.end
    /\ poll.end + 1 <= poll.start + MaxLease

\* The range printed by `show mappings` (get_dhcp_pool_range, dhcp_manager.c:88
\* "mirrors dhcps_poll_set") is the range the server leases from, also after
\* the server was restarted with the pool it already had.
PrintedPoolIsServed ==
  poll.enable => [start |-> poll.start, end |-> poll.end] = get_dhcp_pool_range(server_address)

\* No two clients are ever leased the same address, as long as nobody edits the
\* reservation table: the wrap of the next-address pointer, the first-gap search
\* and the early exit of the walk at a known client all keep away from taken
\* addresses (parse_msg).
AddressesDistinct ==
  \A i, j \in DOMAIN leases : leases[i].ip = leases[j].ip => i = j

\* An address that was offered or acknowledged is the one recorded, with a full
\* timer, for the client that was told so, and a refused client keeps no lease.
ReplyMatchesLease ==
  /\ reply.verdict \in {"OFFER", "ACK"} =>
       /\ HasLease(reply.mac)
       /\ LeaseOf(reply.mac).ip = reply.ip
       /\ LeaseOf(reply.mac).timer = LeaseTicks
  /\ Refused(reply.verdict) => ~HasLease(reply.mac)

\* A message of one client never removes, changes or refreshes the lease of
\* another, whatever it asks for.
OthersUntouched ==
  [][reply'.mac \in Macs =>
       \A m \in Macs \ {reply'.mac} : LeasesOf(leases', m) = LeasesOf(leases, m)]_vars

\* Without reservations, a client that asks is refused an address only when
\* every address of the pool is leased, wherever the next-address pointer stands.
ServedWhileFree ==
  [][\A m \in Macs :
       (/\ ~HasLease(m)
        /\ \E a \in StartIP .. EndIP : a \notin LeasedIPs(leases)
        /\ reply'.mac = m /\ reply'.type = "DISCOVER")
       => reply'.verdict = "OFFER"]_vars

\* A fresh lease never takes an address reserved for somebody else, unless the
\* same address is reserved for the client as well.
ReservedAddressKept ==
  [][\A m \in Macs :
       (~HasLease(m) /\ HasLease(m)') =>
         \A other \in Macs \ {m} : resv[other] = LeaseOf(m)'.ip => resv[m] = resv[other]]_vars

\* The timer takes leases only in the order they run out: one that disappears
\* had no more time left than any that stays (dhcps_tmr, kill_oldest_dhcps_pool).
StalestGoFirst ==
  [][dhcps_tmr => \A m, o \in Macs :
       (HasLease(m) /\ HasLease(o) /\ ~HasLease(m)' /\ HasLease(o)')
         => LeaseOf(m).timer <= LeaseOf(o).timer]_vars

\* A lease that is not renewed ends: each client is again and again without a
\* lease, or has just asked for it anew, or the server is not running.
LeaseEndsOrRenewed ==
  \A m \in Macs :
    []<>(state # "STARTED" \/ ~HasLease(m) \/ reply.mac = m)
=============================================================================
