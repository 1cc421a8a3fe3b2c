----------------------------- MODULE MCPcapRing -----------------------------
(* An instance of PcapRing for TLC: a ring of five bytes, records of two   *)
(* and three, so that records and reads wrap at every position.            *)
EXTENDS PcapRing

SmallBytes == {0, 1}
SmallRecords == [1 .. 2 -> SmallBytes] \cup {<<1, 0, 0>>, <<0, 1, 1>>}
=============================================================================
