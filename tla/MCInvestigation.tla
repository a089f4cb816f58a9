-------------------------- MODULE MCInvestigation --------------------------
EXTENDS Investigation, TLC

CONSTANTS t1, t2

OneThread == {t1}
TwoThreads == {t1, t2}
Spray == {"password_spray"}
AllAttacks == {"brute_force", "password_spray", "credential_stuffing", "distributed"}
AlertLines == {"alert"}
AllLines == {"not json", "not an object", "flow", "alert"}
OnlyOpen == {"open"}

Symmetry == Permutations(TwoThreads)
=============================================================================
