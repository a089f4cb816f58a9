--------------------------- MODULE MCConfigurator ---------------------------
(* Two rows that may share a name or a host, and a second run over the first *)
(* one's backups.                                                            *)
EXTENDS Configurator, TLC

CONSTANTS sw1, sw2, h1, h2, t1, t2

TwoNames == {sw1, sw2}
TwoHosts == {h1, h2}
TwoThreads == {t1, t2}
=============================================================================
