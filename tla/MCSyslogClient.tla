--------------------------- MODULE MCSyslogClient ---------------------------
(* An instance of SyslogClient for TLC: one administrator, one connecting  *)
(* task and two tasks that log, a queue of one.                            *)
EXTENDS SyslogClient, TLC

CONSTANTS a1, dns, l1, l2

LoggerSymmetry == Permutations(Loggers)
=============================================================================
