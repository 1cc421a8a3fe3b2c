---------------------------- MODULE MCWifiStation ----------------------------
(* An instance of WifiStation for TLC: two consoles and the web server. *)
EXTENDS WifiStation, TLC

CONSTANTS serial, remote

EitherConsole == Permutations(Consoles)
=============================================================================
