--------------------------- MODULE MCSnmpService ---------------------------
(* The constants of SnmpService are numbers: see the .cfg files.            *)
EXTENDS SnmpService
=============================================================================
