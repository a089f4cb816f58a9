--------------------------- MODULE MCTrapReceiver ---------------------------
(* Arcs on both sides of every boundary of base 128, and every OID of up to  *)
(* three bytes from a set that has all roles a byte can play.                *)
EXTENDS TrapReceiver

MCOids == {LinkDown, AuthenticationFailure, <<1, 3, 6, 1, 6, 3, 1, 1, 5, 1>>, <<0, 0>>, <<2, 39, 0>>}
              \cup {<<1, 3, a, b>> : a \in {0, 127, 128, 16383}, b \in {1, 16384, 2097152}}
MCRawOids == UNION {[1 .. n -> {0, 43, 128, 129}] : n \in 0 .. 3}
MCCommunities == {<<112>>, <<255>>}
MCCriticalTexts == {<<99>>}
MCWarningTexts == {<<119>>}
=============================================================================
