---------------------------- MODULE Configurator ----------------------------
(* network/configurator.py, the command that backs devices up and sends     *)
(* them commands, and the web's previews and simulations over the same      *)
(* inventory (app/__init__.py:476-537).  The devices are external: a        *)
(* connection, a "show" or a "send" may fail, and of the lines sent to a    *)
(* shell that is closed at once a device may execute only the first few.    *)
EXTENDS Integers, Sequences, FiniteSets

CONSTANTS
    Names, Hosts,  \* of devices
    Lines,         \* lines sent to a device: its commands and the frame
    MaxRows,       \* bound: rows of the inventory file
    MaxRuns,       \* bound: runs of the command
    Threads,       \* worker threads of the web application
    MaxJobs        \* bound: rows of config_jobs

ASSUME BoundsAssumption == {Lines, MaxRows, MaxRuns, MaxJobs} \subseteq Nat

VARIABLES
    config,     \* config[h]: how many lines device h has executed
    backups,    \* backups[n]: what the file n.cfg holds
    run,        \* the process of the command
    runs,       \* runs so far
    jobs,       \* rows of config_jobs; no code deletes one, so the last id
    announced,  \* the job ids in the config_* events
    handler,    \* handler[t]: the id add_job gave to thread t, 0 before
    dropped     \* history: the jobs whose request failed half-way

cliVars == <<config, backups, run, runs>>
webVars == <<jobs, announced, handler, dropped>>
vars == <<cliVars, webVars>>

\* What a file may hold: a configuration, nothing yet, or a part of one.
Missing == [host |-> "missing", lines |-> 0]
Torn == [host |-> "torn", lines |-> 0]
Config(h) == [host |-> h, lines |-> config[h]]

-----------------------------------------------------------------------------
\* A row of the file: ok if its name, address, user, port and commands pass
\* the checks of 46-53.  Two rows may name one host.
Rows == [name : Names, host : Hosts, ok : BOOLEAN]
Inventories == UNION {[1 .. n -> Rows] : n \in 0 .. MaxRows}

\* Mutated form of Distinct: the set of names is never filled.
AnyNames(rows) == TRUE

\* name in names (44, 54).
Distinct(rows) == \A i, j \in DOMAIN rows : rows[i].name = rows[j].name => i = j

\* load_inventory (28-56).
Loads(rows) == rows # <<>> /\ (\A i \in DOMAIN rows : rows[i].ok) /\ Distinct(rows)

NoRun == [step |-> "none"]

Init ==
    /\ config = [h \in Hosts |-> 0]
    /\ backups = [n \in Names |-> Missing]
    /\ run = NoRun /\ runs = 0
    /\ jobs = 0 /\ announced = <<>> /\ handler = [t \in Threads |-> 0] /\ dropped = {}

\* main (121-131): outcome[i] is what became of row i, seen[i] (history) the
\* configuration its device had when it was read.
Start(rows, apply) ==
    /\ run.step \in {"none", "ended"} /\ runs < MaxRuns
    /\ Loads(rows)
    /\ run' = [step |-> "next", rows |-> rows, apply |-> apply, failures |-> 0, exit |-> -1,
               outcome |-> <<>>, seen |-> <<>>]
    /\ runs' = runs + 1
    /\ UNCHANGED <<config, backups, webVars>>

Device == run.rows[Len(run.outcome) + 1]
Seen == run.seen[Len(run.outcome) + 1]

\* Mutated form of Outcome: one failure ends the run.
OutcomeOrEnd(text) ==
    run' = [run EXCEPT !.step = IF text = "failed" THEN "end" ELSE "next",
                       !.outcome = Append(@, text),
                       !.failures = @ + IF text = "failed" THEN 1 ELSE 0]

\* The end of the loop's body (112-117).
Outcome(text) ==
    run' = [run EXCEPT !.step = "next", !.outcome = Append(@, text),
                       !.failures = @ + IF text = "failed" THEN 1 ELSE 0]

\* The loop's head (103-108), and its end (118).
NextDevice ==
    /\ run.step = "next"
    /\ IF Len(run.outcome) = Len(run.rows) THEN run' = [run EXCEPT !.step = "end"]
       ELSE IF ~ run.apply THEN run' = [run EXCEPT !.outcome = Append(@, "shown"),
                                                   !.seen = Append(@, Missing)]
       ELSE run' = [run EXCEPT !.step = "reading", !.seen = Append(@, Missing)]
    /\ UNCHANGED <<config, backups, runs, webVars>>

End ==
    /\ run.step = "end"
    /\ run' = [run EXCEPT !.step = "ended", !.exit = IF run.failures > 0 THEN 1 ELSE 0]
    /\ UNCHANGED <<config, backups, runs, webVars>>

\* connect and "show running-config" (69-83): an error, a message on stderr
\* or an empty answer fail the device.
ReadConfig ==
    /\ run.step = "reading"
    /\ \/ run' = [run EXCEPT !.step = "backing up", !.seen[Len(run.seen)] = Config(Device.host)]
       \/ Outcome("failed")
    /\ UNCHANGED <<config, backups, runs, webVars>>

\* Mutated form of WriteBackup: what the disk says is not heard.
WriteBackupQuietly ==
    /\ run.step = "backing up"
    /\ \E content \in {Seen, Torn} : backups' = [backups EXCEPT ![Device.name] = content]
    /\ run' = [run EXCEPT !.step = "sending"]
    /\ UNCHANGED <<config, runs, webVars>>

\* write_text (84-85) empties the file first; it may fail before or after.
WriteBackup ==
    /\ run.step = "backing up"
    /\ \/ /\ backups' = [backups EXCEPT ![Device.name] = Seen]
          /\ run' = [run EXCEPT !.step = "sending"]
       \/ /\ backups' \in {backups, [backups EXCEPT ![Device.name] = Torn]}
          /\ Outcome("failed")
    /\ UNCHANGED <<config, runs, webVars>>

\* 87-93: nobody reads the shell's answers, so it is "configured" (114) once
\* all lines are sent; executed says how many the device took before the
\* connection was closed.
SendLines(executed) ==
    /\ run.step = "sending"
    /\ config' = [config EXCEPT ![Device.host] = @ + executed]
    /\ Outcome("ok") \/ Outcome("failed")
    /\ UNCHANGED <<backups, runs, webVars>>

\* The process ends at any moment: the file or the device is left half done.
Crash ==
    /\ run.step \notin {"none", "ended"}
    /\ \/ UNCHANGED <<config, backups>>
       \/ /\ run.step = "backing up"
          /\ backups' = [backups EXCEPT ![Device.name] = Torn]
          /\ UNCHANGED config
       \/ /\ run.step = "sending"
          /\ \E n \in 1 .. Lines : config' = [config EXCEPT ![Device.host] = @ + n]
          /\ UNCHANGED backups
    /\ run' = NoRun
    /\ UNCHANGED <<runs, webVars>>

-----------------------------------------------------------------------------
\* preview_config and simulate_config: the row is stored (486, 523) and then
\* the event that names it (487, 524), in two transactions.
AddJob(t) ==
    /\ handler[t] = 0 /\ jobs < MaxJobs
    /\ jobs' = jobs + 1
    /\ handler' = [handler EXCEPT ![t] = jobs']
    /\ UNCHANGED <<cliVars, announced, dropped>>

\* Mutated form of JobOf: the newest job, not the thread's own.
NewestJob(t) == jobs

\* cursor.lastrowid of the thread's own connection (store.py:219).
JobOf(t) == handler[t]

\* The database may be locked for longer than connect() waits.
AddJobEvent(t) ==
    /\ handler[t] # 0
    /\ \/ announced' = Append(announced, JobOf(t)) /\ UNCHANGED dropped
       \/ dropped' = dropped \cup {handler[t]} /\ UNCHANGED announced
    /\ handler' = [handler EXCEPT ![t] = 0]
    /\ UNCHANGED <<cliVars, jobs>>

Command == NextDevice \/ End \/ ReadConfig \/ WriteBackup \/ (\E n \in 0 .. Lines : SendLines(n))

\* Nothing is left to do but to look.
Finished == run.step \in {"none", "ended"} /\ (\A t \in Threads : handler[t] = 0) /\ UNCHANGED vars

Next ==
    \/ \E rows \in Inventories, apply \in BOOLEAN : Start(rows, apply)
    \/ Command
    \/ Crash
    \/ \E t \in Threads : AddJob(t) \/ AddJobEvent(t)
    \/ Finished

\* Connections, "show" and the disk have timeouts or end: a run goes on.
Spec == Init /\ [][Next]_vars /\ WF_vars(Command)

-----------------------------------------------------------------------------

TypeOK ==
    /\ \A h \in Hosts : config[h] \in 0 .. MaxRuns * MaxRows * Lines
    /\ \A n \in Names : backups[n] \in {Missing, Torn} \cup [host : Hosts, lines : Nat]
    /\ run.step \in {"none", "next", "reading", "backing up", "sending", "end", "ended"}
    /\ run.step # "none" => /\ run.exit \in -1 .. 1
                            /\ Len(run.outcome) \in {Len(run.seen), Len(run.seen) - 1}
    /\ \A t \in Threads : handler[t] \in 0 .. jobs

\* The "successful show running-config backup before sending changes" of
\* README.md:130: no device changes but in a run with --apply, while the file
\* of the device in hand holds the configuration that is being changed.
ChangesAreBackedUp ==
    [][\A h \in Hosts : config'[h] # config[h] =>
          run.apply /\ Device.host = h /\ backups[Device.name] = Config(h)]_cliVars

\* A device reported as configured keeps its backup until the end of the run:
\* no other row of the inventory writes to the same file.
BackupsAreNotShared ==
    run.step # "none" => \A i \in DOMAIN run.outcome :
        run.outcome[i] = "ok" => backups[run.rows[i].name] = run.seen[i]

\* Every row is tried, whatever became of the ones before it, and the exit
\* code tells whether one of them failed (118).
EveryDeviceIsTried ==
    run.step = "next" ~>
        \/ run.step = "none"
        \/ /\ run.step = "ended" /\ Len(run.outcome) = Len(run.rows)
           /\ run.exit = 1 <=> \E i \in DOMAIN run.rows : run.outcome[i] = "failed"

\* Each event of a preview or a simulation names a job of its own, and each
\* job is named, unless its request is still under way or has failed.
JobsAreAnnounced ==
    /\ \A i, j \in DOMAIN announced : announced[i] = announced[j] => i = j
    /\ \A n \in 1 .. jobs :
          \/ \E i \in DOMAIN announced : announced[i] = n
          \/ \E t \in Threads : handler[t] = n
          \/ n \in dropped
=============================================================================
