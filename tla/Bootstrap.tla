------------------------------ MODULE Bootstrap ------------------------------
(* start.py: "python start.py" prepares .venv and starts the server.  The   *)
(* process may be interrupted at any moment and started again, and          *)
(* requirements.txt may change between two starts.                          *)
EXTENDS Naturals

CONSTANTS
    Requirements,   \* the contents requirements.txt may have
    MaxChanges,     \* bound: edits of requirements.txt
    MaxCrashes      \* bound: interruptions and failed installations

ASSUME BoundsAssumption == MaxChanges \in Nat /\ MaxCrashes \in Nat
ASSUME RequirementsAssumption == Requirements \cap {"none", "missing", "torn"} = {}

VARIABLES
    pc,            \* where main() is
    venv,          \* "missing", "partial" (an interpreter without pip) or "complete"
    installed,     \* the requirements installed in full, or "none"
    stamp,         \* whose digest the stamp file holds, or "missing", "torn"
    requirements,  \* requirements.txt
    digest,        \* whose digest main() has computed
    attempted,     \* history: what pip was last run for
    raced,         \* history: was requirements.txt edited after its digest was taken?
    changes, crashes

disk == <<venv, installed, stamp>>
vars == <<pc, disk, requirements, digest, attempted, raced, changes, crashes>>
mine == <<digest, attempted>>
outside == <<requirements, raced, changes, crashes>>

Init ==
    /\ pc = "stopped" /\ venv = "missing"
    /\ installed = "none" /\ stamp = "missing"
    /\ requirements \in Requirements /\ digest = requirements
    /\ attempted = "none" /\ raced = FALSE /\ changes = 0 /\ crashes = 0

Goto(from, to) == pc = from /\ pc' = to

\* PYTHON.exists() (24): only the interpreter is looked for.
Start ==
    /\ Goto("stopped", IF venv = "missing" THEN "creating" ELSE "hashing")
    /\ UNCHANGED <<disk, mine, outside>>

\* venv.create(with_pip=True) (26) puts the interpreter in its place and
\* runs ensurepip then.
CreateInterpreter ==
    /\ Goto("creating", "adding pip")
    /\ venv' = "partial"
    /\ UNCHANGED <<installed, stamp, mine, outside>>

AddPip ==
    /\ Goto("adding pip", "hashing")
    /\ venv' = "complete"
    /\ UNCHANGED <<installed, stamp, mine, outside>>

\* 28.
UpToDate(text) == stamp = text

\* Mutated form of Hash: a stamp that cannot be read ends the start.
HashReadableStamp ==
    /\ Goto("hashing", IF stamp = "torn" THEN "stopped"
                       ELSE IF UpToDate(requirements) THEN "launching" ELSE "installing")
    /\ digest' = requirements
    /\ attempted' = IF UpToDate(requirements) THEN attempted ELSE requirements
    /\ UNCHANGED <<disk, outside>>

\* 27-28: the digest is taken once, for the comparison and for the stamp.
Hash ==
    /\ Goto("hashing", IF UpToDate(requirements) THEN "launching" ELSE "installing")
    /\ digest' = requirements
    /\ attempted' = IF UpToDate(requirements) THEN attempted ELSE requirements
    /\ UNCHANGED <<disk, outside>>

\* pip (30) reads requirements.txt again.
Install ==
    /\ venv = "complete"
    /\ Goto("installing", "stamping")
    /\ installed' = requirements
    /\ UNCHANGED <<venv, stamp, mine, outside>>

\* Mutated form of InstallFails: check=True is missing.
InstallFailureIgnored ==
    /\ venv = "partial" \/ crashes < MaxCrashes
    /\ Goto("installing", "stamping")
    /\ crashes' = IF venv = "partial" THEN crashes ELSE crashes + 1
    /\ installed' \in {installed} \cup IF venv = "complete" THEN {"none"} ELSE {}
    /\ UNCHANGED <<venv, stamp, mine, requirements, raced, changes>>

\* CalledProcessError: without pip always, and when the network is down, after
\* pip has changed the environment or before.
InstallFails ==
    /\ venv = "partial" \/ crashes < MaxCrashes
    /\ Goto("installing", "stopped")
    /\ crashes' = IF venv = "partial" THEN crashes ELSE crashes + 1
    /\ installed' \in {installed} \cup IF venv = "complete" THEN {"none"} ELSE {}
    /\ UNCHANGED <<venv, stamp, mine, requirements, raced, changes>>

\* 31.
WriteStamp ==
    /\ Goto("stamping", "launching")
    /\ stamp' = digest
    /\ UNCHANGED <<venv, installed, mine, outside>>

\* 33, which returns when the server ends.  server.py is started in whatever
\* environment is there: it comes up if its requirements are installed, and
\* may fail on an import if they are not.
Launch == Goto("launching", "serving") /\ UNCHANGED <<disk, mine, outside>>

LaunchFails ==
    /\ installed # requirements
    /\ Goto("launching", "stopped")
    /\ UNCHANGED <<disk, mine, outside>>

Stop == Goto("serving", "stopped") /\ UNCHANGED <<disk, mine, outside>>

\* An interruption: a package may be half installed, the stamp half written.
Crash ==
    /\ pc # "stopped" /\ crashes < MaxCrashes
    /\ pc' = "stopped" /\ crashes' = crashes + 1
    /\ installed' \in {installed} \cup IF pc = "installing" THEN {"none"} ELSE {}
    /\ stamp' \in {stamp} \cup IF pc = "stamping" THEN {"torn"} ELSE {}
    /\ UNCHANGED <<venv, mine, requirements, raced, changes>>

\* A new version of the project is checked out.
Edit ==
    /\ changes < MaxChanges /\ changes' = changes + 1
    /\ requirements' \in Requirements \ {requirements}
    /\ raced' = (raced \/ pc = "installing")
    /\ UNCHANGED <<pc, disk, mine, crashes>>

Step == \/ Start \/ CreateInterpreter \/ AddPip \/ Hash \/ Install \/ InstallFails
        \/ WriteStamp \/ Launch \/ LaunchFails

Next == Step \/ Stop \/ Crash \/ Edit

\* Whoever wants the application starts it again, and main() goes on.
Spec == Init /\ [][Next]_vars /\ WF_vars(Step)

-----------------------------------------------------------------------------

TypeOK ==
    /\ pc \in {"stopped", "creating", "adding pip", "hashing", "installing", "stamping",
               "launching", "serving"}
    /\ venv \in {"missing", "partial", "complete"}
    /\ requirements \in Requirements /\ digest \in Requirements
    /\ {installed, attempted} \subseteq Requirements \cup {"none"}
    /\ stamp \in Requirements \cup {"missing", "torn"}
    /\ stamp # "missing" => venv = "complete"

\* A stamp that names what pip was last run for means that it is installed in
\* full, whatever was interrupted, unless the file was edited between its
\* digest and pip.  An older stamp says nothing: it stays where it is while a
\* later version is being installed.
StampTellsTheTruth ==
    ~ raced /\ stamp = attempted => installed = stamp

\* What no later start notices: an interpreter without pip, when the creation
\* of the environment was interrupted (24); or a stamp that fits although the
\* requirements are not installed (28), when the installation of another
\* version was interrupted or raced with an edit, and this one came back.
Stranded ==
    venv = "partial" \/ (UpToDate(requirements) /\ installed # requirements)

\* The application is served in the end, whatever was interrupted, failed or
\* was torn, unless the environment is stranded in one of these two ways: no
\* other combination of edits, failures and interruptions is beyond repair.
ServedInTheEnd ==
    pc = "stopped" /\ ~ Stranded ~> pc = "serving" \/ (pc = "stopped" /\ Stranded)
=============================================================================
