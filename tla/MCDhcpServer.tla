---------------------------- MODULE MCDhcpServer ----------------------------
(* Instances of DhcpServer for TLC: a subnet of six hosts, small pools.     *)
EXTENDS DhcpServer, TLC

CONSTANTS a, b, c, d

\* Two clients on the pool 4 .. 5, with the router's own address and one more
\* below it and one above.
TwoClients == {a, b}
WideAddresses == 2 .. 6
OneHost == {3}

\* Four clients contend for a pool of three addresses, wherever it lies.
FourClients == {a, b, c, d}
AnyHost == Hosts

ClientSymmetry == Permutations(Macs)
=============================================================================
