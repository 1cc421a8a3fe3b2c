------------------------------ MODULE DhcpPool ------------------------------
(***************************************************************************)
(* The address pool of the DHCP server: how dhcps_poll_set derives it from *)
(* the router's own address, and the second computation of the same range  *)
(* in dhcp_manager.c that the console and the web page print.              *)
(*                                                                         *)
(* Addresses are the host-order numbers both functions compute with.       *)
(* DhcpServer leases from the pool.                                        *)
(***************************************************************************)
EXTENDS Naturals

CONSTANTS
  Network,    \* the subnet's network address (host part 0)
  Broadcast,  \* the subnet's broadcast address (host part all ones)
  MaxLease    \* DHCPS_MAX_LEASE, the most addresses a pool may hold

\* A mask of at most 30 bits leaves four addresses; a longer one is refused by
\* DHCP_CHECK_IP_MATCH_SUBNET_MASK, because it has no host address.
ASSUME SubnetAssumption ==
  /\ Network \in Nat /\ Broadcast \in Nat /\ MaxLease \in Nat \ {0}
  /\ Network + 3 <= Broadcast

Hosts == (Network + 1) .. (Broadcast - 1)

NoPoll == [enable |-> FALSE, start |-> 0, end |-> 0]

\* A fault: the pool above the server starts at its own address.
WiderSide_WithServer(ip) ==
  LET below == ip - Network > Broadcast - ip
      first == IF below THEN Network + 1 ELSE ip
      last  == IF below THEN ip - 1 ELSE Broadcast - 1
  IN  [start |-> first,
       end   |-> IF last - first + 1 > MaxLease THEN first + MaxLease - 1 ELSE last]

\* The wider side of the subnet around ip, cut to MaxLease addresses.
WiderSide(ip) ==
  LET below == ip - Network > Broadcast - ip
      first == IF below THEN Network + 1 ELSE ip + 1
      last  == IF below THEN ip - 1 ELSE Broadcast - 1
  IN  [start |-> first,
       end   |-> IF last - first + 1 > MaxLease THEN first + MaxLease - 1 ELSE last]

\* A pool already set is kept when it does not contain the server, lies in its
\* subnet and is small enough; the unsigned test refuses an inverted one too.
Usable(p, ip) ==
  /\ p.enable
  /\ ~(ip >= p.start /\ ip <= p.end)
  /\ p.start \in Network .. Broadcast /\ p.end \in Network .. Broadcast
  /\ p.start <= p.end + 1 /\ p.end + 1 - p.start <= MaxLease

dhcps_poll_set(p, ip) ==
  IF Usable(p, ip)
  THEN p
  ELSE [enable |-> TRUE, start |-> WiderSide(ip).start, end |-> WiderSide(ip).end]

\* A fault: the copy forgets the limit.
get_dhcp_pool_range_Unlimited(ip) ==
  LET before == ip - Network
      after  == Broadcast - ip
  IN  [start |-> IF before > after THEN Network + 1 ELSE ip + 1,
       end   |-> IF before > after THEN ip - 1 ELSE Broadcast - 1]

\* The copy in dhcp_manager.c: the same arithmetic, never a kept pool.
get_dhcp_pool_range(ip) ==
  LET before == ip - Network
      after  == Broadcast - ip
      first  == IF before > after THEN Network + 1 ELSE ip + 1
      last   == IF before > after THEN ip - 1 ELSE Broadcast - 1
  IN  [start |-> first,
       end   |-> IF last - first + 1 > MaxLease THEN first + MaxLease - 1 ELSE last]
=============================================================================
