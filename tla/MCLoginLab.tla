----------------------------- MODULE MCLoginLab -----------------------------
(* A threshold of two and a window of two ticks: an attempt is live for two *)
(* ticks, and the clock passes more than a window after a burst.            *)
EXTENDS LoginLab, TLC

CONSTANTS r1, r2

OneTab == {r1}
TwoTabs == {r1, r2}

\* Requests are interchangeable.
Symmetry == Permutations(TwoTabs)
=============================================================================
