-------------------------- MODULE BootstrapProofs --------------------------
(* What the stamp of start.py means, for any versions of requirements.txt   *)
(* and any number of edits and interruptions.                               *)
EXTENDS Bootstrap, TLAPS

\* What main() has done to the environment when it is where it is.
EnvironmentOK ==
    /\ TypeOK
    /\ pc = "creating" => venv = "missing"
    /\ pc = "adding pip" => venv = "partial"
    /\ pc = "stamping" => venv = "complete"

\* The stamp alone is not inductive: between the digest and the stamp main()
\* has to remember what it is installing, and the old stamp has to be about
\* something else.
StampInv ==
    /\ EnvironmentOK
    /\ StampTellsTheTruth
    /\ pc \in {"installing", "stamping"} => digest = attempted /\ stamp # attempted
    /\ pc = "installing" /\ ~ raced => requirements = attempted
    /\ pc = "stamping" /\ ~ raced => installed = attempted

\* An empty directory satisfies the invariant.
LEMMA StampInit == Init => StampInv
BY RequirementsAssumption DEF Init, StampInv, EnvironmentOK, TypeOK, StampTellsTheTruth

\* Every step of main() and every interruption keeps what is known of the
\* environment.
LEMMA EnvironmentStep == EnvironmentOK /\ [Next]_vars => EnvironmentOK'
<1> SUFFICES ASSUME EnvironmentOK, [Next]_vars PROVE EnvironmentOK'
  OBVIOUS
<1> USE RequirementsAssumption DEF EnvironmentOK, TypeOK, Goto, disk, mine, outside
<1>1. CASE Start
  BY <1>1 DEF Start
<1>2. CASE CreateInterpreter
  BY <1>2 DEF CreateInterpreter
<1>3. CASE AddPip
  BY <1>3 DEF AddPip
<1>4. CASE Hash
  BY <1>4 DEF Hash, UpToDate
<1>5. CASE Install
  BY <1>5 DEF Install
<1>6. CASE InstallFails
  BY <1>6 DEF InstallFails
<1>7. CASE WriteStamp
  BY <1>7 DEF WriteStamp
<1>8. CASE Launch \/ LaunchFails \/ Stop
  BY <1>8 DEF Launch, LaunchFails, Stop
<1>9. CASE Crash
  BY <1>9 DEF Crash
<1>10. CASE Edit
  BY <1>10 DEF Edit
<1>11. CASE UNCHANGED vars
  BY <1>11 DEF vars
<1> QED
  BY <1>1, <1>2, <1>3, <1>4, <1>5, <1>6, <1>7, <1>8, <1>9, <1>10, <1>11 DEF Next, Step

\* Every step of main(), every interruption and every edit keeps the
\* invariant: only the stamp's own write makes it name what pip was run for.
LEMMA StampStep == StampInv /\ [Next]_vars => StampInv'
<1> SUFFICES ASSUME StampInv, [Next]_vars PROVE StampInv'
  OBVIOUS
<1>0. EnvironmentOK'
  BY EnvironmentStep DEF StampInv
<1> USE RequirementsAssumption, <1>0
    DEF StampInv, EnvironmentOK, TypeOK, StampTellsTheTruth, Goto, disk, mine, outside
<1>1. CASE Start
  BY <1>1 DEF Start
<1>2. CASE CreateInterpreter
  BY <1>2 DEF CreateInterpreter
<1>3. CASE AddPip
  BY <1>3 DEF AddPip
<1>4. CASE Hash
  BY <1>4 DEF Hash, UpToDate
<1>5. CASE Install
  BY <1>5 DEF Install
<1>6. CASE InstallFails
  BY <1>6 DEF InstallFails
<1>7. CASE WriteStamp
  BY <1>7 DEF WriteStamp
<1>8. CASE Launch \/ LaunchFails \/ Stop
  BY <1>8 DEF Launch, LaunchFails, Stop
<1>9. CASE Crash
  BY <1>9 DEF Crash
<1>10. CASE Edit
  BY <1>10 DEF Edit
<1>11. CASE UNCHANGED vars
  BY <1>11 DEF vars
<1> QED
  BY <1>1, <1>2, <1>3, <1>4, <1>5, <1>6, <1>7, <1>8, <1>9, <1>10, <1>11 DEF Next, Step

\* The inductive invariant holds in every reachable state (start.py:23-33).
THEOREM StampInvariant == Spec => []StampInv
BY StampInit, StampStep, PTL DEF Spec

\* The files of the environment stay what TypeOK says; in particular a stamp,
\* even a torn one, is found only in an environment that has pip.
THEOREM BootstrapTypeCorrect == Spec => []TypeOK
<1>1. StampInv => TypeOK
  BY DEF StampInv, EnvironmentOK
<1> QED
  BY <1>1, StampInvariant, PTL

\* A stamp that names what pip was last run for means that it is installed in
\* full, however often main() was interrupted, unless requirements.txt was
\* edited between its digest and pip (start.py:27-31).
THEOREM StampIsTrue == Spec => []StampTellsTheTruth
<1>1. StampInv => StampTellsTheTruth
  BY DEF StampInv
<1> QED
  BY <1>1, StampInvariant, PTL
=============================================================================
