------------------------------ MODULE MCMqttHa ------------------------------
(* A small instance of MqttHa for TLC. *)
EXTENDS MqttHa

CONSTANTS serial, AP, STA
=============================================================================
