---------------------------- MODULE MCLogFollow ----------------------------
(* The constants of LogFollow are plain values: see the .cfg files.         *)
EXTENDS LogFollow
=============================================================================
