----------------------------- MODULE MCW5500Mac -----------------------------
(* A small instance of W5500Mac for TLC. *)
EXTENDS W5500Mac

OneBuffer == {"b1"}
=============================================================================
