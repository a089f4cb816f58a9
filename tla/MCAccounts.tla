----------------------------- MODULE MCAccounts -----------------------------
(* Two browsers that may register the same address with different passwords. *)
EXTENDS Accounts, TLC

CONSTANTS b1, b2, ced, ann, demo, pw1, pw2, nobody

TwoBrowsers == {b1, b2}
TwoEmails == {ced, ann}
AllPasswords == {demo, pw1, pw2}
ShortPasswords == {demo}
Symmetry == Permutations(TwoBrowsers) \cup Permutations({pw1, pw2})
=============================================================================
