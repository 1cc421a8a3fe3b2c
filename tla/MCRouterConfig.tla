--------------------------- MODULE MCRouterConfig ---------------------------
(* RouterConfig for TLC. *)
EXTENDS RouterConfig

CONSTANTS c1, serial, httpd, button, none, absent

Deny == [from |-> {c1, "net", "router"}, to |-> {"internet", c1, "router"}, allow |-> FALSE]
Allow == [from |-> {c1}, to |-> Destinations, allow |-> TRUE]
MCRules == {Deny, Allow}

\* With the kill switch, a tunnel for everything or for its subnet only, and without.
FullTunnel == [enabled |-> TRUE, killswitch |-> TRUE, route_all |-> TRUE]
MCVpnSettings == {FullTunnel, [FullTunnel EXCEPT !.route_all = FALSE], [FullTunnel EXCEPT !.killswitch = FALSE]}

\* A factory-fresh router, and one with a firewall, an isolated client and a password.
Fresh == [key \in Keys |-> Absent]
Configured ==
  [key \in Keys |->
     CASE key = "from_eth" -> <<Deny, NoRule>>
       [] key \in Lists \ {"from_eth"} -> <<NoRule, NoRule>>
       [] key = "dhcp_res" -> {c1}
       [] key \in {"ap_ip", "vpn_privkey"} -> "set"
       [] key = "web_password" -> "plain"
       [] OTHER -> Absent]
MCStored == {Fresh, Configured}

\* A packet depends on the lists, the reservations and the tunnel, and not on flash:
\* packets and the tunnel are followed while flash, the firmware and the session are as
\* they were at first and no write has failed, and through edits that have not yet
\* written flash, except for the uplink, which is switched after its save.  The other
\* settings do not depend on the tunnel either: they are followed with one setting of it.
Focus ==
  at # "none" \/ tunnel # "down" \/ vpn # FullTunnel =>
    /\ image[1] /\ boot = 0 /\ ~session_active /\ file = Exported(Fresh) /\ failures = 0
    /\ \A key \in Keys \ {"eth_dhcpc"} : \E keys \in Stored : flash[key] = keys[key]
    /\ \A t \in Tasks : \A i \in DOMAIN todo[t] :
         todo[t][i].op \in {"snapshot", "count", "store", "save", "uplink"}
=============================================================================
