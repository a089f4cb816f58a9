------------------------- MODULE MCSecurityMonitor -------------------------
(* Two worker threads and the monitor; attempts enough for two alarms, and  *)
(* a clock of half seconds.                                                 *)
EXTENDS SecurityMonitor

CONSTANTS ip1, t1, t2

OneIP == {ip1}
TwoThreads == {t1, t2}
=============================================================================
