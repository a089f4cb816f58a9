# TLA+ specifications of NetworkSecLab

NetworkSecLab is a small security-monitoring lab: a Flask portal that records
failed logins, detects brute force, receives SNMP traps, correlates simulated
attacks and Suricata records into incidents, and a terminal monitor that tails
the login log. This directory holds TLA+ models of its stateful parts, the TLC
configurations that check them on small instances, and TLAPS proofs of what
matters most for every instance. Line numbers refer to `src/`.

## 1. The system

| component | state | operations | who calls it | hard behaviour | what makes it correct |
|---|---|---|---|---|---|
| failed-attempt detector, `monitor/detector.py:30-46` | a deque of times per address | `record` | `login()` under `DETECTOR_LOCK`; `run_detector` | window edge, clear on alarm, lost on restart | an alarm exactly when the threshold lies in one window; bounded memory |
| login pipeline, `app/__init__.py:99-106, 179-195` | `logs/login_attempts.log`, event rows, notifications | `record_failed_login`, `add_event`, `record`, `notify` | six waitress threads (`server.py:15`) | interleaved handlers, partial failure, restart | rows have log lines; no row pays for two alarms; alarms become rows |
| terminal monitor, `monitor/detector.py:104-118` | deques of its own | one per line of the log | a process of its own | lines out of time order, restart | prints the true window count |
| log follower, `monitor/common.py:11-35`, used by monitor and viewer | open file, offset, buffer | `follow` | `run_detector`, `viewer.py` | torn writes, truncation, replacement, stop | in order, once, complete; reopens |
| event store, `app/store.py` | SQLite tables | see section 3 | every handler, SNMP thread | no foreign keys, deletions, restarts | tables agree, ids are not reused, timelines explain statuses |
| detection engine and its handlers, `security/engine.py`, `app/__init__.py:411-474` | rules, incidents, evidence | `correlate_credentials`, `create_incident`, `ingest_suricata` | worker threads | a handler is many transactions; analyst pages in between; crash | incidents keep their events and get evidence; disabled rules are silent; each pattern is found |
| authentication lab, `app/__init__.py:330-409` | attempts in the session cookie, incidents | attempt, status, reset | the dashboard, which polls each second | overlapping requests overwrite the cookie | no false alarm; one incident per burst; ids stay beside times |
| SNMP receiver, `app/services.py` | socket, ready flag, audit log, rows | `_run` | daemon thread; dashboard reads `status()` | failing calls and oversized numbers end the thread; UDP loss | log, rows and notifications agree; dead is offline |
| SNMP codec and stand-alone receiver, `network/snmp_traps.py`, `network/simulator.py` | none / audit log | BER, OID, `parse_trap`, `serve` | receiver, simulator | boundaries of lengths and arcs, damaged datagrams | decoding inverts encoding; nothing else passes for a trap |
| accounts, sessions, CSRF, `app/__init__.py:39-96, 149-228, 611-618` | users table, session cookies | register, login, logout | browsers | concurrent registration, old forms, failure between account and event | one account per address; a session needs its password; a form works in its own session only |
| configurator, `network/configurator.py` | device, backup file, `config_jobs` | `run`, `configure_device`, `add_job` | command line, web simulation | failure between backup and write, rerun, torn files | a backup precedes any change; exit code and events tell the truth |
| bootstrap, `start.py` | virtual environment, stamp | `main` | the user | interrupted installation, requirements that change | a stamp of what was tried last means installed; it starts in the end |
| alert channels, `app/alerts.py` | none | `notify` | login, lab, receiver | a slow webhook blocks its caller | never raises |
| front end, tests, docs, packaging | - | - | - | - | - |

They interact through shared state, not messages: the detector and its lock in
the web process, the SQLite file (each store method opens a connection and
commits once), the log file between web process and monitor, and the session
cookie between overlapping requests. UDP datagrams and webhook calls are the
only messages.

## 2. Modules

```
AttemptWindow            one call of record() on one deque (pure)
  FailedAttemptDetector  the web process's detector        implements BruteForceAlarm
    LoginPipeline        handlers of rejected logins, threads, faults
      SecurityMonitor    the terminal monitor over the log the pipeline writes
LogFollow                follow() against a changing file
EventStore               the store's tables and methods
  StoreReaders           requests that read it in several statements
  Investigation          attack and upload handlers over the store
LoginLab                 the lab over the session cookie
SnmpService              the SNMP receiver thread
TrapCodec                the bytes of a trap, encoder and decoder (pure)
  TrapReceiver           the stand-alone receiver over them
Accounts                 users, sessions and form tokens
Configurator             the configuration command, and config_jobs
Bootstrap                start.py
*Proofs                  theorems; MC*: constants for TLC
```

**AttemptWindow, FailedAttemptDetector, BruteForceAlarm.** `RecordAttempt` is
`record()` for one address: append, pop from the left while the leftmost entry
is older than the window (a popped count, no recursion), clear at the
threshold. `FailedAttemptDetector` keeps a deque per address, calls it with the
clock read under the lock, and forgets everything on a restart. Its history
variable `sinceAlarm` keeps what the deque drops. `BruteForceAlarm` is the
abstract detector: it remembers every attempt since the last alarm and counts
those in the window; the refinement mapping is the identity on the clock, the
answers and `sinceAlarm`.

**LoginPipeline.** One action per external call of the rejected-login path:
`Stamp` (the time is read), `WriteLog`, `StoreFailed`, `Detect`, `StoreAlarm`,
`Notify`. `LogFails` is the `OSError` the handler catches, `StoreFails` the
sqlite error it does not, `Restart` a crash. Everything before line 179 (form
checks, successful logins) leaves the modelled state alone.

**SecurityMonitor.** Adds the monitor process: it reads the lines in file order
with their whole-second stamps (`TicksPerSecond`), with deques of its own.

**LogFollow.** Files are inodes holding pieces; line n is two pieces, the
second carrying the newline. Appends, torn writes, truncation and removal
change the file; `Open`, `YieldLine`, `ReadNothing`, `CheckFile`, `Leave` are
the steps of the generator, with the buffering of `readline()`.

**EventStore.** One action per method that changes a table, atomic because each
runs on one connection and commits once. `lastEvent` is SQLite's
`AUTOINCREMENT` sequence; `wanted` is a history variable with the analyst's
last decision on a rule. `EventPages`, `IncidentPages` and `DetectionPages` are
the analyst's pages; `IncidentPages` ranges over incidents that do not exist
too, as the address of a page may.

**Investigation.** Handlers over `EventStore`, one action per store call:
`AddAttempt`, `FetchEvent`, `Correlate`, `CheckRule`, `OpenIncident`,
`RecordEvidence` for an attack, `ImportLine`, `EndUpload` with the same last
three for an upload. An attempt carries source, user and fingerprint, each `0`
if the pattern shares it, else the attempt's number: all that the four
conditions of `correlate_credentials` tell apart. `CallFails` and `Restart` are
the faults.

**LoginLab.** Each request gets a copy of the cookie when it is sent and
replaces it when its answer arrives; in between its handler runs call by call.
`Live`, the list comprehension over the stamps, is a function of the places kept.

**SnmpService.** The thread's program counter through `_run`, with the socket's
buffer; a datagram is garbage, foreign (another community), allowed, or outsized:
it holds a number of more than 4300 digits, which `str()` refuses with a
`ValueError` that no handler of `_run` catches (`ParseRaises`).

**StoreReaders.** One request under way beside every call of `EventStore`. It
runs its statements one by one (`ReportOrder`, `ListingOrder`), each on the
tables of its moment, as sqlite3 opens no transaction for a SELECT. `StartWalk`,
`TurnPage` and `ShowPage` are the dashboard's pagination around it; the history
fields `seen`, `due` and `torn` follow an analyst through the pages.

**TrapCodec, TrapReceiver.** Every function of `simulator.py` and
`snmp_traps.py` that touches bytes is an operator over sequences of numbers; a
`SnmpDecodeError` is a value. What a trap says is abstracted to the words that
decide its severity. Loops over bytes are recursive functions, one entry for each
turn (`OidRead`, `AllItems`, `BigEndian`), so that they can be reasoned about.
`TrapReceiver` follows one datagram at a time from the
sender's intention through the network, which may cut or extend it, to the line
`serve()` writes; `LongForm`, `V1Trap` and `SendRaw` are devices of the lab,
which are external. A log that cannot be written ends `serve()` (`Died`), which is started again. `Emit` sends what fits the short form of a length, as `tlv()`
raises for more; a device may write the length of the whole message in the long form.

**Accounts.** The users table and, per browser, the cookie it holds, the forms
it was shown and the registration it waits for. Registration is three steps
(`Register`, `Insert`, `Record`), as two databases are written; `ShowPage` is
any page with a form. `proved` (history) collects the accounts whose password a
browser has sent.

**Configurator.** One action per exchange with a device or the disk
(`ReadConfig`, `WriteBackup`, `SendLines`) in the loop of `run()`
(`NextDevice`, `Outcome`, `End`). A configuration is the number of lines the
device has executed; `SendLines` executes any prefix, since nobody reads the
shell's answers. `AddJob` and `AddJobEvent` are the two transactions of the web
previews and simulations.

**Bootstrap.** One action per effect of `main()` on `.venv`; pip reads the
requirements again after their digest was taken, and may leave the environment
without some of them when it fails or is interrupted. `Launch` finds what the
server imports, `LaunchFails` does not. `Edit` is a checkout.

Mutated forms (`... Mutated form of X`) beside a definition are plausible bugs
in it. They are used by no specification, only to show that a property can
fail.

## 3. Runs

| run | instance | what it shows |
|---|---|---|
| `login` | 2 threads and the monitor, 1 address, threshold 2, window of 2 half-seconds, clock to 4, 4 logins, 1 fault | detector: `DequeHoldsTheWindow`, and `ImplementsBruteForceAlarm` from interleaved handlers; pipeline: `RowsAreLogged`, `AlarmsAreBacked`, and `AlarmsReachTheStore` under fairness; monitor: `CountsTheWindow` |
| `follow_rotation` | 3 lines, 2 rotations, torn writes | `DeliveredInOrderOnce`, `DeliveredIsContiguous`, `ShortFileIsNoticed`, and `UnreadIsDelivered` under fairness |
| `store_readers` | 2 events of one severity, 1 incident, 2 timeline rows, 1 evidence row, 1 event per page | tables: `TablesAgree`, `LinksAreNotReused`, `StatusIsExplained`, `RulesFollowTheAnalyst`; readers: `ReportIsExplained`, `WalkMissesNothing` |
| `investigation_threads` | 2 threads, an attack and an upload in any combination, 1 fault, analyst pages | `EvidenceMatchesIncident`, `DisabledRulesAreSilent` |
| `investigation_import` | 1 thread, all 4 patterns of 3 attempts, uploads of up to 3 lines of all kinds, 1 fault, analyst pages | `OneIncidentPerEvent`, `UndisturbedAttacksAreFound`, `UploadsLeaveNoLooseEnds` |
| `lab_overlap` | 2 requests at once, 3 attempts, threshold 2, window 2, 1 fault, rule toggled | `AlertsAreBacked`, `IncidentsLinkTheWindow`, `BurstsAreReportedOnce` |
| `lab_stale` | 1 request at a time, 4 attempts | violation: `FiveFailuresCreateAnIncident` |
| `snmp_receiver` | buffer 2, 4 datagrams of all kinds, 2 faults | `RecordsAgree`, and under fairness `QueuedTrapsAreStored` (unless an older outsized datagram ends the thread) and `DeadIsOffline` |
| `trap_receiver` | arcs on both sides of 128, 128^2 and 128^3, every OID of up to 3 bytes of 4 roles, lengths in 0 to 4 further bytes, both versions, every cut | `TrapsAreReadAsMeant`, `DamagedTrapsAreRejected`, `OnlyPaddingIsTolerated` |
| `accounts` | 2 browsers, 2 addresses, 3 passwords, 6 tokens, 2 faults | `SessionsAreEarned`, `FormsStayInTheirSession`, `PasswordsAreNotOverwritten`, `RegistrationsAreRecorded` |
| `configurator` | 2 runs, inventories of up to 2 rows, 2 lines per device, 2 threads, 2 jobs | `ChangesAreBackedUp`, `BackupsAreNotShared`, `JobsAreAnnounced`, and under fairness `EveryDeviceIsTried`, exit code included |
| `bootstrap` | 3 versions, 3 edits, 3 interruptions | `StampTellsTheTruth`, and under fairness `ServedInTheEnd`, but for `Stranded` environments |

Each module states the types of its variables (`TypeOK`, `StoreTypeOK`, ...).
They document the state, hold on the instances above, and are the first part of
the inductive invariants of section 4; no run lists them as a property of its own.

### Divergences

`lab_stale` is a disagreement between the code and a page of the application,
quoted under `findings` in `PROJECT.json`: the lab's alert flag outlives its
window when nothing polls, and the next burst opens no incident although the
answer says so.

Other things the models show and the properties have to step around:

- The log's stamps are taken before the append (`app/__init__.py:101`), so two
  threads can write lines out of time order; the monitor then alarms on attempts
  that do not fit one window, against the ordering argument of
  `docs/06-DETECTOR-ENGINE.md:84`. `CountsTheWindow` without its condition
  `OrderedUpTo` fails in the `login` run for this reason.
- A line that is JSON but no EVE object ends an upload in an exception
  (`app/__init__.py:463`), where `README.md:78` says malformed records are
  skipped. `ImportLine` has the behaviour; `UploadsLeaveNoLooseEnds` says that
  what was imported before it is complete.
- An event inserted between the COUNT and the SELECT of a page can push another
  to a page that the label says does not exist, until the dashboard asks again
  (`torn` in `StoreReaders`).
- `decode_oid` looks at the value of an unfinished arc, so an OID that ends in
  bytes 128 is taken as the one without them (`OnlyPaddingIsTolerated`). It takes
  the first byte apart by a division by 40 (`snmp_traps.py:59`), so an OID below 2
  whose second arc is 40 or more is read as one below 3; no trap of the simulator
  has one, and `OidsAssumption` leaves them out.
- `[OK]` of the configurator means that the lines were sent; a device may have
  executed a part of them. A backup has the device's name and no date: a rerun
  replaces the backup of the original configuration by one of the half-changed.
- Two environments no later start repairs, the two cases of `Stranded`, which
  `ServedInTheEnd` excuses. An old requirement stamp stays while a later version
  is being installed: if that fails or is interrupted and the old version checked
  out again, the stamp says installed and the environment is not, so the server
  can fail on import at every start (`attempted` in `StampTellsTheTruth`). And an
  environment whose creation was interrupted has an interpreter and no pip.
- A datagram with a number of more than 4300 digits ends the receiver thread, and
  `serve()`, before its community is looked at: `str()` raises `ValueError`
  (`snmp_traps.py:68, 75`), which is neither of the errors handled at
  `services.py:52, 54`. Traps queued behind it are lost, no row is written and the
  dashboard shows no error text. `QueuedTrapsAreStored` excuses the traps behind
  such a datagram and nothing else.
- `follow()` yields half a line when it reads between two writes, and takes a
  file that has grown up to its position for the one it had open.
- `create_incident` is two transactions, so a failure between them leaves an
  incident with no evidence: the case `faults > 0` of
  `EvidenceMatchesIncident`.
- The receiver's ready flag is cleared only after the socket was closed and the
  error row written.

**Bounds.** Each is a constant with a name of its own (`MaxTime`,
`MaxAttempts`, `MaxFaults`, ...) in a guard. They are chosen so that the case of
interest happens: a threshold of 2 with attempts for two whole alarms; a clock
that outlives the window by the edge and one tick; two threads, as every race
here is between two; one fault, or two where the report of the first may fail;
two rotations, so that a reader can be two files behind; events that can be
deleted while they are linked and be followed by others; two rows that may
share a name or a device, and a rerun over the backups of the first run; arcs
of one to four digits. One address is enough for the pipeline: its deques are
independent, and the detector's properties, `AlarmsAreBacked` and the refinement
are proved for any set of addresses. Two events and one incident are enough for
the readers: an event inserted or deleted between two statements of a page of
one, and a status changed between two statements of a report. Numbers of the code (5 attempts, 30
seconds, 6 threads, 10 rows) are parameters: nothing in it depends on their
values but their order, and the theorems hold for all of them.

**Symmetry** is used for threads and browser tabs, and for
browsers and passwords, in `investigation_threads`, `lab_overlap` and
`accounts`, which check no liveness.

**Deadlock** is checked in every run. `Quiescent`, `Quiet` and `Finished` are
stuttering steps of states in which the bounds are used up or the reader is
done, or no command is running; any other stop is reported.

**Fairness.** `LoginPipeline` (and `SecurityMonitor` over it): weak fairness per
thread of its handler's next step, since waitress runs a request it has
accepted; not of new requests, faults, the clock or the monitor. `LogFollow`:
weak fairness of the reader, a loop that polls every 0.05 s (0.5 s without a
file); not of the writer. `SnmpService`: weak fairness of the receiver; not of
senders or failures. `Configurator`: weak fairness of a started command, whose
connections have timeouts; not of its start. `Bootstrap`: weak fairness of the
steps of `main()` and of the next start, by whoever wants the application; its
interruptions are bounded. The other modules have no liveness property and no
fairness.

## 4. Proofs

Checked by TLAPS for all values of the constants, from the named assumptions
of the modules: `Threshold` a positive natural, `Window`, `MaxTime` and the
other bounds naturals, `Threads` finite, `open` a status, `created` and `note`
not statuses.

Every safety invariant and action property of the runs that pass is proved, and so
is the refinement; liveness is "only model-checked", below.

**LoginProofs**, for the detector, the pipeline and the monitor.

- *Detector.* `TypeCorrect`; then `WindowInvariant`, the inductive invariant
  `WindowInv` for each address: the attempts since the last alarm are in clock
  order; the deque is a tail of them and what it lacks is out of the window; it
  is shorter than the threshold; and those attempts contain no burst. "No missed
  burst" alone is not inductive: the next attempt looks at the deque, not at the
  attempts, so the two must be tied together. Each conjunct is a theorem
  (`HistoryShort`, `BurstsNoticed`, `WindowHeld`). `Implementation` follows: the
  number of attempts in the window, counted over the whole history, is the
  length of the deque after eviction (`CountIsRecent`), so each step is a step
  of `BruteForceAlarm`. The lemma underneath, `PoppedProperties`, is that the
  eviction loop stops: a least number of pops exists.
- *Pipeline.* `RunsTheDetector`: every step of the process is a detector step or
  leaves it alone, so the theorems above carry over to any number of threads,
  with failures and restarts (`PipelineImplements`, `PipelineWindows`).
  `NoRowPaysTwice` (`AlarmsAreBacked`) keeps an account per address: Threshold
  times the alarms stored or on their way, plus the deque, plus rows not yet
  counted, is at most the rows. It needs that a thread in a handler has a request
  (`RequestsOK`) and the cost of one `record()` call (`RecordCosts`); there is one
  lemma per action that touches the account and one for all moves that do not.
  `RowsStayLogged` (`RowsAreLogged`) counts log lines against rows: a request
  whose row is stored and whose answer is still to come must be counted with the
  rows it has (at "stored", "alarmed" and "notifying"), as the acknowledged and
  the stored ones alone are not inductive.
- *Monitor.* `MonitorRunsTheDetector` and `MonitorInvariant`: the deque is the
  window at the last stamp read, as long as the lines read so far are in time
  order (`OrderedUpTo`). `MonitorCounts` (`CountsTheWindow`) follows, whether the
  monitor reads from the start or from the end, for windows of whole seconds.

**LogFollowProofs**, for `follow()` against a file that anything may happen to.
`Appended` is what all three writes have in common: what they add is newer than
every piece that stands in any file. `FilesInv`: the pieces of each file are in
the order they were written, inodes not used yet are empty, and a line of which
one half is written goes on in the last file that had the name. `ReaderInv`: what was taken (`Taken`: yielded,
or still in the buffer) is in order; the rest of the open file is newer; so is all
of a file that took its place; and a file shorter than the position holds newer
pieces only, since it was truncated after they were read. The last is what
"nothing twice" needs when `follow()` starts again from the beginning, and the
property says nothing of it. `DeliveredOnce` and, with `Stretch` (before the first
rotation there is one file, and what was taken is the stretch of it that ends at
the position), `DeliveredWithoutHoles`.

**StoreProofs**, for `EventStore`, its readers and the handlers over it.
`TablesInv` is the types, the uniqueness of event ids and
the references between tables, inductive together. From it: `StoreTypeCorrect`,
`TablesStayConsistent`, `LinksStay` (new ids are above every linked id),
`StatusStaysExplained` (a note is no status row; every status change appends
its row in the same transaction). `RulesStay` needs only that `upsert_rule`
leaves `enabled` alone.

Then the readers. `ReportsAreExplained`: an export reads the incident first and
its timeline later (`ReportInv`); the status it read has its row by then, and
timelines only grow. In the opposite order the invariant fails.
`WalksMissNothing`: `Rank` is the number of matching events above an event, hence
its place in the listing. A due event that was not shown yet has all the pages
shown so far above it (`Progress`), insertions only move it to later pages, and the last
page is the last because `Pages(total) * PerPage >= total`; a deletion, or an
insertion between COUNT and SELECT, is what `torn` excuses.

Then the handlers of attacks and uploads in `Investigation`. Each action is first reduced to what it does to the store (nothing, one event, one incident, one
evidence row, an analyst's call) and to its own request; the invariants are proved
against those facts:

- `HandlerInv`: what a request knows at each of its stages (`Stage`), since an
  attempt's ids, the pattern found and the incident opened are in its variables
  and not in the store; with the types, `HandlersTyped`.
- `DisabledRulesStaySilent`: a rule that is on when it is checked was on at some
  moment of the request (`Watched`).
- `OneIncidentForEachEvent`: no event in the hands of one request is in those of
  another or linked (`Owners`, `Linked`). Only disjoint incidents would say too
  little, as two requests could hold the same events before either has linked them.
- `EvidenceIsComplete`: an incident without its row belongs to one request that is
  about to write it (`Recorded`).
- `UploadsAreDocumented`: an alert of an upload leads to its incident unless its
  rule was seen off (`Origins`, `Reported`).
- `AttacksAreFound`: the attempts of a simulated attack are in the store as they
  were added, and those fetched say so (`Remembered`); what others insert has other
  ids, so what is matched in the end is the whole pattern.

Its assumptions are that the attack kinds, rules and bodies the bundled code uses
are among those the store may hold (`AttackTypesAssumption`, `RulesAssumption`,
`BodiesAssumption`).

**LoginLabProofs.** Each action is first reduced to the turn it is of its request
(`Turn`): its next step, its session and the id of its alarm. Two invariants follow
those.

- `LabInv` holds however requests overlap. The times of every session, in the cookie
  or in a request, are drawn from the attempts in order and each from one of its own
  (`Drawn`): a stale cookie can lose attempts but not count one twice. At the steps
  before an alarm the times are those of one window (`OneWindow`). Hence
  `AlarmsOfTheLabAreBacked`, and `LabTypeCorrect` with `EvidenceInv`. The lemma
  underneath is `LiveFacts`: of a list in order, the stamps that are not old are its
  end.
- `CleanInv` is about requests one at a time and no failure (`clean`). The id of
  each time is beside it (`Matched`), but for the one whose row is still to be written;
  while the flag is down no incident links any of them (`Apart`); the
  incidents so far link one burst each (`Reports`). The properties speak of
  incidents only and are not inductive: the next incident is made of the cookie.
  `IncidentsOfTheLabLinkTheWindow` and `BurstsOfTheLabAreReportedOnce` follow.

**AccountsProofs.** `EarnedInv` ties every way into a session to a password:
what a browser has proved are accounts that exist, and the account of its
cookie, and of a registration that still has to record its event, are among
them. `FormsInv` says that a form whose token is the cookie's was shown to the
cookie's user: "no form has been accepted in another session" alone is not
inductive, as it says nothing of the forms still open. It needs from `TypeOK`
that a new token is above all others. `SessionsEarned`, `FormsStay`,
`RegistrationsRecorded` and `PasswordsStay` (an action property) follow, for any
sets of browsers, addresses and passwords.

**SnmpProofs.** First the receiver service. `OrderInv` numbers the datagrams: what
is logged is older than the packet in hand, and that older than the buffer.
`RecordsInv` says how far log, rows and notifications are apart at each step of
`_run`. Both are inductive with the types, and give `RecordsStayTogether`.

Then the codec, for messages of any content whose body fits the short form of a
length (127 bytes, all that `tlv()` writes). The provers cannot instantiate an
induction principle for a predicate, but they can for a set: `Induction` says that
a set with 0 and the successors of its numbers has every number, and follows from
the library's least elements of well-founded orders (`StrongInduction` for the digits
of an arc, which shrink by a division). Every loop of the codec is a recursive
function, shown to exist and unfolded by it.

- *Object identifiers.* `ArcIsRead`: the loop of `decode_oid`, behind anything it
  has read, turns the digits of an arc into that arc. `OidRoundTrip` follows arc by
  arc: decoding inverts encoding. `TrimmedDecodes`: 128s at the end change nothing
  that was read, neither the arcs nor whether one is unfinished.
- *Framing.* `MessageIsOneItem`, `PartIsNoItem`, `MoreIsLeft`: a message, its length
  in any form, is one item; no proper part of it is; a byte more is left over
  (`ItemOfHeader` tells what is read from how much is there).
- *Parsing.* One lemma per number of values that stand one behind the other
  (`TwoItems` to `SixItems`), then the PDUs from the inside out (`PduOfV2c`,
  `PduOfV1`), up to `ParsedAsMeant`.
- *Receiver.* `WireInv`: the datagram on its way is what its sender meant, in one
  of the forms of its length, or was damaged once. The properties speak of answers
  only and are not inductive: the answer to come is decided by the datagram, so the
  invariant has to tie it to the intention. `TrapsReadAsMeant`,
  `DamagedTrapsRejected` and `OnlyPaddingTolerated` follow.

They assume that identifiers begin with two arcs that fit one byte
(`OidsAssumption`), that raw identifiers and communities are bytes
(`BytesAssumption`), and that texts are ASCII and not empty (`TextsAssumption`).
Messages longer than that, and damage other than a cut or a byte 0 or 48 at the end,
are not in the model.

**ConfiguratorProofs.** `CommandInv` follows one row of the inventory through
`run()`: what was read is the device's configuration until lines are sent, and
before that the file of its name holds it. With distinct names, no later row
writes to an earlier row's file. `BackupsStay`, `ChangesFollowBackups` (an
action property) and, from `HandlersInv` (an id is held by one thread and named
by no event yet), `JobsStayAnnounced`.

**BootstrapProofs.** `StampInv`: from the digest to the stamp `main()` knows what
it is installing (`digest = attempted`), an older stamp is about something else,
and what pip read is what the digest was taken of unless the file was edited in
between (`raced`). `StampIsTrue` and `BootstrapTypeCorrect` follow for any
versions, edits and interruptions, if no content of `requirements.txt` is one of
the model's three marks (`RequirementsAssumption`).

**Only model-checked:** liveness, which is out of the prover's reach as is ENABLED:
`AlarmsReachTheStore`, `UnreadIsDelivered`, `ShortFileIsNoticed`,
`QueuedTrapsAreStored`, `DeadIsOffline`, `EveryDeviceIsTried` and `ServedInTheEnd`. `HistoryBelowThreshold`
and `NoMissedBurst` are proved (`HistoryShort`, `BurstsNoticed`) and no run repeats
them.

## 5. Assumptions and what is not modelled

- The clock does not step back while a process lives. A wall clock can; the
  effect, an unordered deque, is the one described under Divergences.
- A store method is atomic, and fails before it changes anything or not at all.
- Messages, names, hashes and layout are left out: no property distinguishes
  them. Form tokens are modelled in `Accounts` only; elsewhere a request that
  fails its token or form check changes nothing.
- `notify()` is one step that never fails; how long it takes shows only in what
  may happen before it. Its channels (`app/alerts.py:18-35`) are output.
- Times of events are left out of `EventStore`: `DeleteEvents` takes any set of
  events, `timeline()` is one SELECT for display.
- `simulate_logins` (`app/__init__.py:317-328`) is a fixed sequence of store
  calls; `simulate_trap` appears as `SnmpService!Send`; `verify_evidence` reads
  a row that no code changes.
- The UDP loopback may lose datagrams but neither duplicates nor reorders them.
- UTF-8 beyond ASCII is one replacement character (`Replaced`) or digits.
- The front end is modelled where its polling matters (`LoginLab`,
  `StoreReaders`); its rendering, tests, documents and packaging hold no state
  of the running system.

## 6. Plan

Done, in this order: detector and its abstract alarm, login pipeline, terminal
monitor, log follower, event store, investigation, lab, SNMP receiver; proofs
of detector, pipeline accounts and store; the store's readers, trap codec and
stand-alone receiver, accounts, configurator and bootstrap; proofs of accounts,
receiver service, configurator and bootstrap; proofs of the pipeline's log, the
monitor, the handlers of investigations, the store's readers, the log follower and
the lab; proofs of the trap codec and the stand-alone receiver.

To come: a clock that steps back, as a parameter of `FailedAttemptDetector`.
