------------------------- MODULE MCDhcpReservations -------------------------
(* An instance of DhcpReservations for TLC: two editors, more clients than  *)
(* slots.                                                                   *)
EXTENDS DhcpReservations, TLC

CONSTANTS httpd, console, a, b, c

TwoTasks == {httpd, console}
ThreeMacs == {a, b, c}
EditorSymmetry == Permutations(Tasks)
=============================================================================
