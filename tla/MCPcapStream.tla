---------------------------- MODULE MCPcapStream ----------------------------
(* An instance of PcapStream for TLC: two hooks and one user, records of two *)
(* and three parts through a ring of four, read two parts at a time.         *)
EXTENDS PcapStream

CONSTANTS h1, h2, u1
=============================================================================
