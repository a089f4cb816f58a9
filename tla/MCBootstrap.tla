---------------------------- MODULE MCBootstrap ----------------------------
(* Three versions of requirements.txt, one of which may come back.          *)
EXTENDS Bootstrap

MCRequirements == {"v1", "v2", "v3"}
=============================================================================
