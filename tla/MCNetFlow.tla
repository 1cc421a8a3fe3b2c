----------------------------- MODULE MCNetFlow -----------------------------
(* Instances of NetFlow for TLC: three slots, a window of two.              *)
EXTENDS NetFlow, TLC

CONSTANTS k1, k2, k3

\* Three keys, two of which share their window and one that overlaps it.
ThreeKeys == {k1, k2, k3}
Overlapping == k1 :> 0 @@ k2 :> 1 @@ k3 :> 0
OneLimit == {[idle |-> 1, active |-> 1]}
=============================================================================
