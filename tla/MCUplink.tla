------------------------------ MODULE MCUplink ------------------------------
(* An instance of Uplink for TLC: one administrator, two addresses, two ports. *)
EXTENDS Uplink, TLC

CONSTANTS admin, ip1, ip2, tun, zero, p, q, none

AllModes == {"off", "incomplete", "split", "all"}
Alike == Permutations(Addresses) \cup Permutations(Ports)
=============================================================================
