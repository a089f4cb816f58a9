------------------------- MODULE ConfiguratorProofs -------------------------
(* Backups and jobs of the configuration command and of the web             *)
(* application, for inventories of any length, any number of lines, runs    *)
(* and threads.                                                             *)
EXTENDS Configurator, TLAPS

Files == [host : Hosts \cup {"missing", "torn"}, lines : Nat]
Texts == {"shown", "ok", "failed"}

RunRecords ==
    [step : {"next", "reading", "backing up", "sending", "end", "ended"},
     rows : Seq(Rows), apply : BOOLEAN, failures : Nat, exit : Int,
     outcome : Seq(Texts), seen : Seq(Files)]

\* The types the proof needs.
CommandTypes ==
    /\ config \in [Hosts -> Nat] /\ backups \in [Names -> Files]
    /\ run = NoRun \/ (run \in RunRecords /\ Distinct(run.rows))

\* While a device is in hand, it is the next row, it is what was read, and
\* before anything is sent the file of its name holds that.
DeviceInv ==
    /\ run.step \in {"next", "end", "ended"} => Len(run.seen) = Len(run.outcome)
    /\ run.step # "none" => Len(run.outcome) <= Len(run.rows)
    /\ run.step \in {"reading", "backing up", "sending"} =>
          /\ run.apply
          /\ Len(run.outcome) < Len(run.rows) /\ Len(run.seen) = Len(run.outcome) + 1
    /\ run.step \in {"backing up", "sending"} => Seen = Config(Device.host)
    /\ run.step = "sending" => backups[Device.name] = Seen

CommandInv == CommandTypes /\ DeviceInv /\ BackupsAreNotShared

\* Appending to a sequence.
LEMMA AppendFacts ==
    ASSUME NEW S, NEW s \in Seq(S), NEW e \in S, NEW t, t = Append(s, e)
    PROVE  /\ t \in Seq(S) /\ Len(t) = Len(s) + 1
           /\ DOMAIN s = 1 .. Len(s) /\ DOMAIN t = 1 .. Len(s) + 1
           /\ \A k \in 1 .. Len(s) : t[k] = s[k]
           /\ t[Len(s) + 1] = e
  OBVIOUS

\* Replacing its last element.
LEMMA LastReplaced ==
    ASSUME NEW S, NEW s \in Seq(S), NEW e \in S, NEW n \in Nat, Len(s) = n + 1,
           NEW t, t = [s EXCEPT ![Len(s)] = e]
    PROVE  /\ t \in Seq(S) /\ Len(t) = Len(s)
           /\ \A k \in 1 .. n : t[k] = s[k]
           /\ t[n + 1] = e
  OBVIOUS

\* The row after the last one done.
LEMMA NextIndex ==
    ASSUME NEW a \in Nat, NEW b \in Nat, NEW c \in Nat, a < b, c = a + 1
    PROVE  /\ a + 1 \in 1 .. b /\ a + 1 \in 1 .. c
           /\ \A i \in 1 .. a : i \in 1 .. b /\ i \in 1 .. c /\ i # a + 1
  OBVIOUS

\* The indices of a sequence that has grown by one.
LEMMA LastIndex ==
    ASSUME NEW a \in Nat, NEW i \in 1 .. a + 1
    PROVE  i = a + 1 \/ i \in 1 .. a
  OBVIOUS

\* The two bounds a row that is not the last one gives.
LEMMA NotEqual ==
    ASSUME NEW a \in Nat, NEW b \in Nat, a <= b, a # b
    PROVE  a < b /\ a + 1 <= b
  OBVIOUS

\* Arithmetic of the row in hand.
LEMMA StrictlyBelow ==
    ASSUME NEW a \in Nat, NEW b \in Nat, a < b
    PROVE  a + 1 <= b
  OBVIOUS

\* A sequence and its elements.
LEMMA SeqFacts ==
    ASSUME NEW S, NEW s \in Seq(S)
    PROVE  Len(s) \in Nat /\ DOMAIN s = 1 .. Len(s) /\ \A k \in 1 .. Len(s) : s[k] \in S
  OBVIOUS

\* The fields of a run.
LEMMA RunFacts ==
    ASSUME run \in RunRecords
    PROVE  /\ run.rows \in Seq(Rows) /\ run.outcome \in Seq(Texts) /\ run.seen \in Seq(Files)
           /\ run.apply \in BOOLEAN /\ run.failures \in Nat /\ run.step # "none"
           /\ Len(run.rows) \in Nat /\ Len(run.outcome) \in Nat /\ Len(run.seen) \in Nat
           /\ DOMAIN run.rows = 1 .. Len(run.rows) /\ DOMAIN run.outcome = 1 .. Len(run.outcome)
           /\ \A i \in 1 .. Len(run.rows) : run.rows[i] \in Rows
           /\ \A i \in 1 .. Len(run.seen) : run.seen[i] \in Files
<1>1. run.rows \in Seq(Rows) /\ run.outcome \in Seq(Texts) /\ run.seen \in Seq(Files)
  BY DEF RunRecords
<1>2. run.apply \in BOOLEAN /\ run.failures \in Nat
  BY DEF RunRecords
<1>3. run.step # "none"
  BY DEF RunRecords
<1> QED
  BY <1>1, <1>2, <1>3, SeqFacts

\* No run is told from a run by its step.
LEMMA NoRunFacts == NoRun.step = "none"
BY DEF NoRun

\* What the loop's body leaves behind.
LEMMA OutcomeFacts ==
    ASSUME run \in RunRecords, NEW text \in Texts, Outcome(text)
    PROVE  /\ run' \in RunRecords /\ run'.step = "next"
           /\ run'.rows = run.rows /\ run'.seen = run.seen
           /\ run'.outcome = Append(run.outcome, text)
<1>1. Append(run.outcome, text) \in Seq(Texts)
  BY RunFacts, AppendFacts
<1>2. run.failures + (IF text = "failed" THEN 1 ELSE 0) \in Nat
  BY RunFacts
<1> QED
  BY <1>1, <1>2 DEF Outcome, RunRecords

\* A device that executes lines.
LEMMA LinesAdded ==
    ASSUME NEW c \in [Hosts -> Nat], NEW h, NEW n \in Nat, NEW d, d = [c EXCEPT ![h] = @ + n]
    PROVE  d \in [Hosts -> Nat]
<1>1. d = [x \in Hosts |-> IF x = h THEN c[h] + n ELSE c[x]]
  OBVIOUS
<1>2. ASSUME NEW x \in Hosts PROVE d[x] \in Nat
  <2>1. CASE x = h
    <3>1. c[h] \in Nat
      BY <2>1
    <3>2. d[x] = c[h] + n
      BY <1>1, <2>1
    <3> QED
      BY <3>1, <3>2
  <2>2. CASE x # h
    BY <1>1, <2>2
  <2> QED
    BY <2>1, <2>2
<1> QED
  BY <1>1, <1>2

\* The outcomes after one more of them.
LEMMA OutcomeAppended ==
    ASSUME NEW text \in Texts, run.outcome \in Seq(Texts),
           run'.outcome = Append(run.outcome, text)
    PROVE  /\ Len(run'.outcome) = Len(run.outcome) + 1
           /\ DOMAIN run.outcome = 1 .. Len(run.outcome)
           /\ DOMAIN run'.outcome = 1 .. Len(run.outcome) + 1
           /\ \A k \in 1 .. Len(run.outcome) : run'.outcome[k] = run.outcome[k]
           /\ run'.outcome[Len(run.outcome) + 1] = text
  BY AppendFacts

\* Nothing runs and no file is written.
LEMMA InitHolds == Init => CommandInv
BY BoundsAssumption
   DEF Init, CommandInv, CommandTypes, DeviceInv, BackupsAreNotShared, NoRun, Missing, Files

\* The row in hand is one of the inventory.
LEMMA DeviceFacts ==
    ASSUME CommandInv, run.step \in {"reading", "backing up", "sending"}
    PROVE  /\ run \in RunRecords /\ Device \in Rows
           /\ Device.name \in Names /\ Device.host \in Hosts
           /\ Seen \in Files /\ Len(run.outcome) + 1 \in DOMAIN run.rows
           /\ \A i \in DOMAIN run.outcome : i \in DOMAIN run.rows /\ run.rows[i].name # Device.name
<1>1. run \in RunRecords /\ Distinct(run.rows)
  <2>1. run # NoRun
    BY NoRunFacts
  <2> QED
    BY <2>1 DEF CommandInv, CommandTypes
<1>2. /\ Len(run.outcome) < Len(run.rows) /\ Len(run.seen) = Len(run.outcome) + 1
  BY DEF CommandInv, DeviceInv
<1>3. /\ DOMAIN run.rows = 1 .. Len(run.rows) /\ DOMAIN run.outcome = 1 .. Len(run.outcome)
      /\ \A i \in 1 .. Len(run.rows) : run.rows[i] \in Rows
      /\ \A i \in 1 .. Len(run.seen) : run.seen[i] \in Files
  BY <1>1, RunFacts
<1>4. /\ Len(run.outcome) + 1 \in 1 .. Len(run.rows) /\ Len(run.outcome) + 1 \in 1 .. Len(run.seen)
      /\ \A i \in 1 .. Len(run.outcome) : i \in 1 .. Len(run.rows) /\ i # Len(run.outcome) + 1
  <2>1. Len(run.rows) \in Nat /\ Len(run.outcome) \in Nat /\ Len(run.seen) \in Nat
    BY <1>1, RunFacts
  <2> HIDE DEF CommandInv
  <2> QED
    BY <1>2, <2>1, NextIndex
<1>5. Device \in Rows /\ Seen \in Files
  BY <1>3, <1>4 DEF Device, Seen
<1>6. \A i \in DOMAIN run.outcome : i \in DOMAIN run.rows /\ i # Len(run.outcome) + 1
  BY <1>3, <1>4
<1> QED
  BY <1>1, <1>3, <1>4, <1>5, <1>6 DEF Distinct, Device, Rows

\* A started run has loaded its inventory.
LEMMA StartStep ==
    ASSUME CommandInv, NEW rows \in Inventories, NEW apply \in BOOLEAN, Start(rows, apply)
    PROVE  CommandInv'
<1>1. rows \in Seq(Rows)
  BY BoundsAssumption DEF Inventories
<1>2. run' \in RunRecords
  BY <1>1 DEF Start, RunRecords
<1>3. /\ run'.step = "next" /\ run'.outcome = <<>> /\ run'.seen = <<>> /\ run'.rows = rows
      /\ Distinct(rows)
  BY DEF Start, Loads
<1>4. UNCHANGED <<config, backups>>
  BY DEF Start
<1>5. Len(rows) \in Nat
  BY <1>1
<1>6. CommandTypes'
  BY <1>2, <1>3, <1>4 DEF CommandInv, CommandTypes, Distinct
<1>7. DeviceInv'
  BY <1>3, <1>5 DEF DeviceInv
<1>8. BackupsAreNotShared'
  BY <1>3 DEF BackupsAreNotShared
<1> QED
  BY <1>6, <1>7, <1>8 DEF CommandInv

\* The end of a row without anything written, and the next one.
LEMMA OutcomeStep ==
    ASSUME CommandInv, run.step \in {"reading", "backing up", "sending"},
           NEW text \in Texts, Outcome(text),
           config' \in [Hosts -> Nat], backups' \in [Names -> Files],
           \A n \in Names : n # Device.name => backups'[n] = backups[n],
           text = "ok" => backups'[Device.name] = Seen
    PROVE  CommandInv'
<1>1. /\ run \in RunRecords /\ run' \in RunRecords /\ run'.step = "next"
      /\ run'.rows = run.rows /\ run'.seen = run.seen
      /\ run'.outcome = Append(run.outcome, text)
  BY DeviceFacts, OutcomeFacts
<1>2. CommandTypes'
  <2>1. run # NoRun
    BY <1>1, RunFacts, NoRunFacts
  <2>2. Distinct(run.rows)
    BY <2>1 DEF CommandInv, CommandTypes
  <2> QED
    BY <1>1, <2>2 DEF CommandTypes, Distinct
<1>3. /\ Len(run'.outcome) = Len(run.outcome) + 1
      /\ DOMAIN run.outcome = 1 .. Len(run.outcome)
      /\ DOMAIN run'.outcome = 1 .. Len(run.outcome) + 1
      /\ \A k \in 1 .. Len(run.outcome) : run'.outcome[k] = run.outcome[k]
      /\ run'.outcome[Len(run.outcome) + 1] = text
      /\ Len(run.outcome) \in Nat /\ Len(run.rows) \in Nat
  <2>1. /\ run.outcome \in Seq(Texts)
        /\ Len(run.outcome) \in Nat /\ Len(run.rows) \in Nat
    BY <1>1, RunFacts
  <2> QED
    BY <1>1, <2>1, OutcomeAppended
<1>4. DeviceInv'
  <2>1. Len(run.outcome) < Len(run.rows) /\ Len(run.seen) = Len(run.outcome) + 1
    BY DEF CommandInv, DeviceInv
  <2>2. Len(run.outcome) + 1 <= Len(run.rows)
    BY <1>3, <2>1, StrictlyBelow
  <2> QED
    BY <1>1, <1>3, <2>1, <2>2 DEF DeviceInv
<1>5. BackupsAreNotShared'
  <2> SUFFICES ASSUME NEW i \in DOMAIN run'.outcome, run'.outcome[i] = "ok"
               PROVE  backups'[run.rows[i].name] = run.seen[i]
    BY <1>1 DEF BackupsAreNotShared
  <2>1. CASE i = Len(run.outcome) + 1
    BY <1>3, <2>1 DEF Device, Seen
  <2>2. CASE i \in DOMAIN run.outcome
    <3>1. run.rows[i].name # Device.name /\ run.rows[i].name \in Names
      BY <1>1, <2>2, DeviceFacts, RunFacts DEF Rows
    <3>2. backups[run.rows[i].name] = run.seen[i]
      BY <1>1, <1>3, <2>2, RunFacts DEF CommandInv, BackupsAreNotShared
    <3> QED
      BY <3>1, <3>2
  <2>3. i = Len(run.outcome) + 1 \/ i \in DOMAIN run.outcome
    BY <1>3, LastIndex
  <2> QED
    BY <2>1, <2>2, <2>3
<1> QED
  BY <1>2, <1>4, <1>5 DEF CommandInv

\* The loop takes the next row, only shows it, or ends.
LEMMA NextDeviceStep ==
    ASSUME CommandInv, NextDevice
    PROVE  CommandInv'
<1>1. /\ run \in RunRecords /\ Distinct(run.rows) /\ run.step = "next"
      /\ UNCHANGED <<config, backups>>
  <2>1. run # NoRun
    BY NoRunFacts DEF NextDevice
  <2> QED
    BY <2>1 DEF CommandInv, CommandTypes, NextDevice
<1>2. /\ Len(run.rows) \in Nat /\ Len(run.outcome) \in Nat /\ Len(run.seen) \in Nat
      /\ run.outcome \in Seq(Texts) /\ run.seen \in Seq(Files)
      /\ DOMAIN run.outcome = 1 .. Len(run.outcome)
  BY <1>1, RunFacts
<1>3. /\ Len(run.seen) = Len(run.outcome) /\ Len(run.outcome) <= Len(run.rows)
  BY <1>1, RunFacts DEF CommandInv, DeviceInv
<1>4. BackupsAreNotShared
  BY DEF CommandInv
<1> DEFINE seen == Append(run.seen, Missing)
           outcome == Append(run.outcome, "shown")
<1>5. /\ seen \in Seq(Files) /\ Len(seen) = Len(run.seen) + 1
      /\ \A k \in 1 .. Len(run.outcome) : seen[k] = run.seen[k]
  <2>1. Missing \in Files
    BY DEF Missing, Files
  <2> QED
    BY <1>2, <1>3, <2>1, AppendFacts
<1>6. /\ outcome \in Seq(Texts) /\ Len(outcome) = Len(run.outcome) + 1
      /\ DOMAIN outcome = 1 .. Len(run.outcome) + 1
      /\ \A k \in 1 .. Len(run.outcome) : outcome[k] = run.outcome[k]
      /\ outcome[Len(run.outcome) + 1] = "shown"
  <2>1. "shown" \in Texts
    BY DEF Texts
  <2> QED
    BY <1>2, <2>1, AppendFacts
<1>7. Len(run.outcome) # Len(run.rows) => /\ Len(run.outcome) < Len(run.rows)
                                          /\ Len(run.outcome) + 1 <= Len(run.rows)
  BY <1>2, <1>3, NotEqual
<1> HIDE DEF seen, outcome
<1>8. CASE run' = [run EXCEPT !.step = "end"]
  <2>1. run' \in RunRecords /\ run'.step = "end" /\ run'.rows = run.rows
        /\ run'.outcome = run.outcome /\ run'.seen = run.seen
    BY <1>1, <1>8 DEF RunRecords
  <2>2. CommandTypes'
    BY <1>1, <2>1 DEF CommandInv, CommandTypes, Distinct
  <2>3. DeviceInv'
    BY <1>3, <2>1 DEF DeviceInv
  <2>4. BackupsAreNotShared'
    BY <1>1, <1>4, <2>1 DEF BackupsAreNotShared
  <2> QED
    BY <2>2, <2>3, <2>4 DEF CommandInv
<1>9. CASE /\ Len(run.outcome) # Len(run.rows)
           /\ run' = [run EXCEPT !.outcome = outcome, !.seen = seen]
  <2>1. run' \in RunRecords /\ run'.step = "next" /\ run'.rows = run.rows
        /\ run'.outcome = outcome /\ run'.seen = seen
    BY <1>1, <1>5, <1>6, <1>9 DEF RunRecords
  <2>2. CommandTypes'
    BY <1>1, <2>1 DEF CommandInv, CommandTypes, Distinct
  <2>3. DeviceInv'
    BY <1>3, <1>5, <1>6, <1>7, <1>9, <2>1 DEF DeviceInv
  <2>4. BackupsAreNotShared'
    <3> SUFFICES ASSUME NEW i \in DOMAIN outcome, outcome[i] = "ok"
                 PROVE  backups[run.rows[i].name] = seen[i]
      BY <1>1, <2>1 DEF BackupsAreNotShared
    <3>1. i \in 1 .. Len(run.outcome)
      BY <1>2, <1>6, LastIndex
    <3>2. run.outcome[i] = "ok" /\ seen[i] = run.seen[i]
      BY <1>5, <1>6, <3>1
    <3> QED
      BY <1>1, <1>2, <1>4, <3>1, <3>2 DEF BackupsAreNotShared
  <2> QED
    BY <2>2, <2>3, <2>4 DEF CommandInv
<1>10. CASE /\ Len(run.outcome) # Len(run.rows) /\ run.apply
            /\ run' = [run EXCEPT !.step = "reading", !.seen = seen]
  <2>1. run' \in RunRecords /\ run'.step = "reading" /\ run'.rows = run.rows
        /\ run'.outcome = run.outcome /\ run'.seen = seen /\ run'.apply = run.apply
    BY <1>1, <1>5, <1>10 DEF RunRecords
  <2>2. CommandTypes'
    BY <1>1, <2>1 DEF CommandInv, CommandTypes, Distinct
  <2>3. DeviceInv'
    BY <1>3, <1>5, <1>7, <1>10, <2>1 DEF DeviceInv
  <2>4. BackupsAreNotShared'
    BY <1>1, <1>2, <1>4, <1>5, <2>1 DEF BackupsAreNotShared
  <2> QED
    BY <2>2, <2>3, <2>4 DEF CommandInv
<1> QED
  <2>1. run.apply \in BOOLEAN
    BY <1>1, RunFacts
  <2> QED
    BY <1>8, <1>9, <1>10, <2>1 DEF NextDevice, seen, outcome

\* What was read becomes what is to be written.
LEMMA ReadConfigStep ==
    ASSUME CommandInv, ReadConfig
    PROVE  CommandInv'
<1>1. run.step = "reading" /\ UNCHANGED <<config, backups>>
  BY DEF ReadConfig
<1>2. config \in [Hosts -> Nat] /\ backups \in [Names -> Files]
  BY DEF CommandInv, CommandTypes
<1>3. CASE Outcome("failed")
  BY <1>1, <1>2, <1>3, OutcomeStep DEF Texts
<1>4. CASE run' = [run EXCEPT !.step = "backing up", !.seen[Len(run.seen)] = Config(Device.host)]
  <2> DEFINE seen == [run.seen EXCEPT ![Len(run.seen)] = Config(Device.host)]
  <2>1. /\ run \in RunRecords /\ Device.host \in Hosts /\ Distinct(run.rows)
        /\ \A i \in DOMAIN run.outcome : i \in DOMAIN run.rows
    <3>1. run # NoRun
      BY <1>1, NoRunFacts
    <3> QED
      BY <1>1, <3>1, DeviceFacts DEF CommandInv, CommandTypes
  <2>2. /\ run.seen \in Seq(Files) /\ Len(run.outcome) \in Nat /\ Len(run.seen) \in Nat
        /\ Len(run.rows) \in Nat /\ DOMAIN run.outcome = 1 .. Len(run.outcome)
    BY <2>1, RunFacts
  <2>3. /\ run.apply /\ Len(run.outcome) < Len(run.rows) /\ Len(run.seen) = Len(run.outcome) + 1
        /\ Len(run.outcome) <= Len(run.rows)
    BY <1>1, <2>1, RunFacts DEF CommandInv, DeviceInv
  <2>4. Config(Device.host) \in Files
    BY <1>2, <2>1 DEF Config, Files
  <2>5. /\ seen \in Seq(Files) /\ Len(seen) = Len(run.seen)
        /\ \A k \in 1 .. Len(run.outcome) : seen[k] = run.seen[k]
        /\ seen[Len(run.outcome) + 1] = Config(Device.host)
    BY <2>2, <2>3, <2>4, LastReplaced
  <2> HIDE DEF seen
  <2>6. /\ run' \in RunRecords /\ run'.step = "backing up" /\ run'.rows = run.rows
        /\ run'.outcome = run.outcome /\ run'.seen = seen /\ run'.apply = run.apply
    BY <1>4, <2>1, <2>5 DEF RunRecords, seen
  <2>7. CommandTypes'
    BY <1>1, <1>2, <2>1, <2>6 DEF CommandTypes, Distinct
  <2>8. DeviceInv'
    <3>1. Seen' = Config(Device.host)'
      BY <1>1, <2>5, <2>6 DEF Seen, Device, Config
    <3> QED
      BY <2>3, <2>5, <2>6, <3>1 DEF DeviceInv
  <2>9. BackupsAreNotShared'
    BY <1>1, <2>1, <2>2, <2>5, <2>6, RunFacts DEF CommandInv, BackupsAreNotShared
  <2> QED
    BY <2>7, <2>8, <2>9 DEF CommandInv
<1> QED
  BY <1>3, <1>4 DEF ReadConfig

\* Only the file of the row in hand is written; no earlier row has its name.
LEMMA WriteBackupStep ==
    ASSUME CommandInv, WriteBackup
    PROVE  CommandInv'
<1>1. run.step = "backing up" /\ UNCHANGED config
  BY DEF WriteBackup
<1>2. config \in [Hosts -> Nat] /\ backups \in [Names -> Files] /\ BackupsAreNotShared
  BY DEF CommandInv, CommandTypes
<1>3. /\ run \in RunRecords /\ Device.name \in Names /\ Seen \in Files /\ Distinct(run.rows)
      /\ \A i \in DOMAIN run.outcome : i \in DOMAIN run.rows /\ run.rows[i].name # Device.name
      /\ \A i \in DOMAIN run.outcome : run.rows[i].name \in Names
  <2>1. run # NoRun
    BY <1>1, NoRunFacts
  <2>2. /\ run \in RunRecords /\ Device.name \in Names /\ Seen \in Files /\ Distinct(run.rows)
        /\ \A i \in DOMAIN run.outcome : i \in DOMAIN run.rows /\ run.rows[i].name # Device.name
    BY <1>1, <2>1, DeviceFacts DEF CommandInv, CommandTypes
  <2> QED
    BY <2>2, RunFacts DEF Rows
<1>4. CASE /\ backups' = [backups EXCEPT ![Device.name] = Seen]
           /\ run' = [run EXCEPT !.step = "sending"]
  <2>1. /\ run' \in RunRecords /\ run'.step = "sending" /\ run'.rows = run.rows
        /\ run'.outcome = run.outcome /\ run'.seen = run.seen /\ run'.apply = run.apply
    BY <1>3, <1>4 DEF RunRecords
  <2>2. Device' = Device /\ Seen' = Seen
    BY <2>1 DEF Device, Seen
  <2>3. backups' \in [Names -> Files] /\ backups'[Device.name] = Seen
    BY <1>2, <1>3, <1>4
  <2>4. CommandTypes'
    BY <1>1, <1>2, <1>3, <2>1, <2>3 DEF CommandTypes, Distinct
  <2>5. DeviceInv'
    <3>1. /\ Len(run.outcome) <= Len(run.rows) /\ run.apply
          /\ Len(run.outcome) < Len(run.rows) /\ Len(run.seen) = Len(run.outcome) + 1
          /\ Seen = Config(Device.host)
      BY <1>1, <1>3, RunFacts DEF CommandInv, DeviceInv
    <3>2. Config(Device.host)' = Config(Device.host)
      BY <1>1, <2>2 DEF Config
    <3> QED
      BY <2>1, <2>2, <2>3, <3>1, <3>2 DEF DeviceInv
  <2>6. BackupsAreNotShared'
    BY <1>2, <1>3, <1>4, <2>1, RunFacts DEF BackupsAreNotShared
  <2> QED
    BY <2>4, <2>5, <2>6 DEF CommandInv
<1>5. CASE /\ backups' \in {backups, [backups EXCEPT ![Device.name] = Torn]}
           /\ Outcome("failed")
  <2>1. Torn \in Files
    BY DEF Torn, Files
  <2>2. /\ backups' \in [Names -> Files]
        /\ \A n \in Names : n # Device.name => backups'[n] = backups[n]
    BY <1>2, <1>3, <1>5, <2>1
  <2>3. "failed" \in Texts /\ config' \in [Hosts -> Nat]
    BY <1>1, <1>2 DEF Texts
  <2> QED
    BY <1>1, <1>5, <2>2, <2>3, OutcomeStep
<1> QED
  BY <1>4, <1>5 DEF WriteBackup

\* Lines are sent while the backup is the one read.
LEMMA SendLinesStep ==
    ASSUME CommandInv, NEW n \in 0 .. Lines, SendLines(n)
    PROVE  CommandInv'
<1>1. /\ run.step = "sending" /\ UNCHANGED backups
      /\ config' = [config EXCEPT ![Device.host] = @ + n]
      /\ Outcome("ok") \/ Outcome("failed")
  BY DEF SendLines
<1>2. config \in [Hosts -> Nat] /\ backups \in [Names -> Files]
  BY DEF CommandInv, CommandTypes
<1>3. n \in Nat
  BY BoundsAssumption
<1>4. config' \in [Hosts -> Nat]
  BY <1>1, <1>2, <1>3, LinesAdded
<1>5. backups[Device.name] = Seen
  <2>1. DeviceInv
    BY DEF CommandInv
  <2> QED
    BY <1>1, <2>1 DEF DeviceInv
<1>6. "ok" \in Texts /\ "failed" \in Texts
  BY DEF Texts
<1> QED
  BY <1>1, <1>2, <1>4, <1>5, <1>6, OutcomeStep

\* A crash ends the run, with a device or a file half done.
LEMMA CrashStep ==
    ASSUME CommandInv, Crash
    PROVE  CommandInv'
<1>1. config \in [Hosts -> Nat] /\ backups \in [Names -> Files]
  BY DEF CommandInv, CommandTypes
<1>2. config' \in [Hosts -> Nat] /\ backups' \in [Names -> Files]
  <2>1. CASE UNCHANGED <<config, backups>>
    BY <1>1, <2>1
  <2>2. CASE backups' = [backups EXCEPT ![Device.name] = Torn] /\ UNCHANGED config
    <3>1. Torn \in Files
      BY DEF Torn, Files
    <3> QED
      BY <1>1, <2>2, <3>1
  <2>3. CASE /\ \E n \in 1 .. Lines : config' = [config EXCEPT ![Device.host] = @ + n]
             /\ UNCHANGED backups
    <3>1. PICK n \in 1 .. Lines : config' = [config EXCEPT ![Device.host] = @ + n]
      BY <2>3
    <3>2. n \in Nat
      BY BoundsAssumption
    <3> QED
      BY <1>1, <2>3, <3>1, <3>2, LinesAdded
  <2> QED
    BY <2>1, <2>2, <2>3 DEF Crash
<1>3. run' = NoRun
  BY DEF Crash
<1> QED
  BY <1>2, <1>3, NoRunFacts DEF CommandInv, CommandTypes, DeviceInv, BackupsAreNotShared

\* Every step, the web application's included.
LEMMA CommandStep ==
    ASSUME CommandInv, [Next]_vars
    PROVE  CommandInv'
<1>1. CASE \E rows \in Inventories, apply \in BOOLEAN : Start(rows, apply)
  BY <1>1, StartStep
<1>2. CASE NextDevice
  BY <1>2, NextDeviceStep
<1>3. CASE End
  <2>1. run # NoRun /\ UNCHANGED <<config, backups>>
    BY <1>3, NoRunFacts DEF End
  <2>2. /\ run \in RunRecords /\ Distinct(run.rows) /\ config \in [Hosts -> Nat]
        /\ backups \in [Names -> Files]
    BY <2>1 DEF CommandInv, CommandTypes
  <2>3. /\ run' \in RunRecords /\ run'.step = "ended" /\ run'.rows = run.rows
        /\ run'.outcome = run.outcome /\ run'.seen = run.seen
    <3>1. (IF run.failures > 0 THEN 1 ELSE 0) \in Int
      OBVIOUS
    <3> QED
      BY <1>3, <2>2, <3>1 DEF End, RunRecords
  <2>4. /\ Len(run.seen) = Len(run.outcome) /\ Len(run.outcome) <= Len(run.rows)
    BY <1>3, <2>2, RunFacts DEF End, CommandInv, DeviceInv
  <2>5. BackupsAreNotShared'
    BY <2>1, <2>2, <2>3, RunFacts DEF CommandInv, BackupsAreNotShared
  <2>6. CommandTypes' /\ DeviceInv'
    BY <2>1, <2>2, <2>3, <2>4 DEF CommandTypes, DeviceInv, Distinct
  <2> QED
    BY <2>5, <2>6 DEF CommandInv
<1>4. CASE ReadConfig
  BY <1>4, ReadConfigStep
<1>5. CASE WriteBackup
  BY <1>5, WriteBackupStep
<1>6. CASE \E n \in 0 .. Lines : SendLines(n)
  BY <1>6, SendLinesStep
<1>7. CASE Crash
  BY <1>7, CrashStep
<1>8. CASE UNCHANGED cliVars
  BY <1>8 DEF cliVars, CommandInv, CommandTypes, DeviceInv, BackupsAreNotShared, Seen, Device, Config
<1>9. CASE \E t \in Threads : AddJob(t) \/ AddJobEvent(t)
  BY <1>8, <1>9 DEF AddJob, AddJobEvent
<1>10. CASE UNCHANGED vars
  BY <1>8, <1>10 DEF vars
<1> QED
  BY <1>1, <1>2, <1>3, <1>4, <1>5, <1>6, <1>7, <1>9, <1>10 DEF Next, Command, Finished

\* The state of a run and of its backups: the row in hand, what was read of
\* it, and the file written before anything is sent (run, 96-118).
THEOREM CommandInvariant == Spec => []CommandInv
<1>1. CommandInv /\ [Next]_vars => CommandInv'
  BY CommandStep
<1> QED
  BY InitHolds, <1>1, PTL DEF Spec

\* A device reported as configured keeps its backup until the run ends,
\* whatever follows it in the inventory (load_inventory, 44-54).
THEOREM BackupsStay == Spec => []BackupsAreNotShared
<1>1. CommandInv => BackupsAreNotShared
  BY DEF CommandInv
<1> QED
  BY CommandInvariant, <1>1, PTL

\* The same of one step, without the temporal operators.
LEMMA BackedUpStep ==
    ASSUME CommandInv, [Next]_vars
    PROVE  [\A h \in Hosts : config'[h] # config[h] =>
               run.apply /\ Device.host = h /\ backups[Device.name] = Config(h)]_cliVars
<1> SUFFICES ASSUME NEW h \in Hosts, config'[h] # config[h]
             PROVE  run.apply /\ Device.host = h /\ backups[Device.name] = Config(h)
  OBVIOUS
<1>1. config \in [Hosts -> Nat] /\ DeviceInv
  BY DEF CommandInv, CommandTypes
<1>2. run.step = "sending" /\ \E n \in Nat : config' = [config EXCEPT ![Device.host] = @ + n]
  <2>1. CASE \E n \in 0 .. Lines : SendLines(n)
    <3>1. PICK n \in 0 .. Lines : SendLines(n)
      BY <2>1
    <3>2. n \in Nat
      BY BoundsAssumption
    <3> QED
      BY <3>1, <3>2 DEF SendLines
  <2>2. CASE Crash
    <3>1. PICK n \in 1 .. Lines : /\ run.step = "sending"
                                  /\ config' = [config EXCEPT ![Device.host] = @ + n]
      BY <2>2 DEF Crash
    <3>2. n \in Nat
      BY BoundsAssumption
    <3> QED
      BY <3>1, <3>2
  <2>3. CASE UNCHANGED config
    BY <2>3
  <2> QED
    BY <2>1, <2>2, <2>3 DEF Next, Command, Finished, vars, cliVars, Start, NextDevice, End,
       ReadConfig, WriteBackup, AddJob, AddJobEvent
<1>3. Device.host = h
  BY <1>1, <1>2
<1> QED
  BY <1>1, <1>2, <1>3 DEF DeviceInv

\* Nothing changes a device but a run with --apply that has written the
\* device's present configuration to its file (configure_device, 69-93).
THEOREM ChangesFollowBackups == Spec => ChangesAreBackedUp
<1>1. CommandInv /\ [Next]_vars =>
          [\A h \in Hosts : config'[h] # config[h] =>
               run.apply /\ Device.host = h /\ backups[Device.name] = Config(h)]_cliVars
  BY BackedUpStep
<1> QED
  BY CommandInvariant, <1>1, PTL DEF Spec, ChangesAreBackedUp

-----------------------------------------------------------------------------
\* Ids are given out once: a thread holds one that no other thread holds and
\* no event names.
HandlersInv ==
    /\ jobs \in Nat /\ handler \in [Threads -> 0 .. jobs]
    /\ announced \in Seq(1 .. jobs)
    /\ \A t, u \in Threads : handler[t] = handler[u] /\ handler[t] # 0 => t = u
    /\ \A t \in Threads, i \in DOMAIN announced : announced[i] # handler[t]

JobsInv == HandlersInv /\ JobsAreAnnounced

\* No job, no event.
LEMMA JobsInit == Init => JobsInv
<1> SUFFICES ASSUME Init PROVE JobsInv
  OBVIOUS
<1>1. HandlersInv
  BY DEF Init, HandlersInv
<1>2. JobsAreAnnounced
  BY DEF Init, JobsAreAnnounced
<1> QED
  BY <1>1, <1>2 DEF JobsInv

\* A wider range.
LEMMA WiderSeq ==
    ASSUME NEW n \in Nat, NEW s \in Seq(1 .. n)
    PROVE  /\ s \in Seq(1 .. n + 1) /\ DOMAIN s = 1 .. Len(s) /\ Len(s) \in Nat
           /\ \A i \in DOMAIN s : s[i] \in 1 .. n
  OBVIOUS

\* The id of a new row is above every id before it.
LEMMA AddJobStep ==
    ASSUME JobsInv, NEW t \in Threads, AddJob(t)
    PROVE  JobsInv'
<1>1. /\ jobs \in Nat /\ handler \in [Threads -> 0 .. jobs] /\ announced \in Seq(1 .. jobs)
      /\ \A v, u \in Threads : handler[v] = handler[u] /\ handler[v] # 0 => v = u
      /\ \A v \in Threads, i \in DOMAIN announced : announced[i] # handler[v]
  BY DEF JobsInv, HandlersInv
<1>2. /\ jobs' = jobs + 1 /\ handler' = [handler EXCEPT ![t] = jobs + 1]
      /\ announced' = announced /\ dropped' = dropped
  BY DEF AddJob
<1>3. \A i \in DOMAIN announced : announced[i] \in 1 .. jobs
  BY <1>1, WiderSeq
<1>4. handler' \in [Threads -> 0 .. jobs'] /\ announced' \in Seq(1 .. jobs')
  BY <1>1, <1>2, WiderSeq
<1>5. \A v \in Threads : v # t => handler'[v] = handler[v]
  BY <1>1, <1>2
<1>6. handler'[t] = jobs + 1 /\ \A v \in Threads : handler[v] \in 0 .. jobs
  BY <1>1, <1>2
<1>7. HandlersInv'
  <2>1. \A v, u \in Threads : handler'[v] = handler'[u] /\ handler'[v] # 0 => v = u
    BY <1>1, <1>5, <1>6
  <2>2. \A v \in Threads, i \in DOMAIN announced' : announced'[i] # handler'[v]
    BY <1>1, <1>2, <1>3, <1>5, <1>6
  <2> QED
    BY <1>1, <1>2, <1>4, <2>1, <2>2 DEF HandlersInv
<1>8. JobsAreAnnounced'
  <2>1. \A i, j \in DOMAIN announced' : announced'[i] = announced'[j] => i = j
    BY <1>2 DEF JobsInv, JobsAreAnnounced
  <2>2. ASSUME NEW n \in 1 .. jobs'
        PROVE  \/ \E i \in DOMAIN announced' : announced'[i] = n
               \/ \E v \in Threads : handler'[v] = n
               \/ n \in dropped'
    <3>1. CASE n = jobs + 1
      BY <1>6, <3>1
    <3>2. CASE n \in 1 .. jobs
      <4>1. handler[t] # n
        BY <3>2 DEF AddJob
      <4>2. \/ \E i \in DOMAIN announced : announced[i] = n
            \/ \E v \in Threads : handler[v] = n
            \/ n \in dropped
        BY <3>2 DEF JobsInv, JobsAreAnnounced
      <4> QED
        BY <1>2, <1>5, <4>1, <4>2
    <3> QED
      BY <1>1, <1>2, <3>1, <3>2, LastIndex
  <2> QED
    BY <2>1, <2>2 DEF JobsAreAnnounced
<1> QED
  BY <1>7, <1>8 DEF JobsInv

\* A thread announces its own id, or its request fails.
LEMMA AddJobEventStep ==
    ASSUME JobsInv, NEW t \in Threads, AddJobEvent(t)
    PROVE  JobsInv'
<1>1. /\ jobs \in Nat /\ handler \in [Threads -> 0 .. jobs] /\ announced \in Seq(1 .. jobs)
      /\ \A v, u \in Threads : handler[v] = handler[u] /\ handler[v] # 0 => v = u
      /\ \A v \in Threads, i \in DOMAIN announced : announced[i] # handler[v]
  BY DEF JobsInv, HandlersInv
<1>2. /\ jobs' = jobs /\ handler' = [handler EXCEPT ![t] = 0] /\ handler[t] # 0
  BY DEF AddJobEvent
<1>3. handler' \in [Threads -> 0 .. jobs'] /\ handler[t] \in 1 .. jobs
  BY <1>1, <1>2
<1>4. \A v \in Threads : v # t => handler'[v] = handler[v]
  BY <1>1, <1>2
<1>5. handler'[t] = 0
  BY <1>1, <1>2
<1>6. DOMAIN announced = 1 .. Len(announced) /\ Len(announced) \in Nat
      /\ \A i \in DOMAIN announced : announced[i] \in 1 .. jobs
  BY <1>1, WiderSeq
<1>7. \A v, u \in Threads : handler'[v] = handler'[u] /\ handler'[v] # 0 => v = u
  BY <1>1, <1>4, <1>5
<1>8. JobsAreAnnounced
  BY DEF JobsInv
<1>9. CASE announced' = Append(announced, handler[t]) /\ UNCHANGED dropped
  <2>1. /\ announced' \in Seq(1 .. jobs)
        /\ DOMAIN announced' = 1 .. Len(announced) + 1
        /\ \A k \in 1 .. Len(announced) : announced'[k] = announced[k]
        /\ announced'[Len(announced) + 1] = handler[t]
    BY <1>1, <1>3, <1>9, AppendFacts
  <2>2. \A i \in DOMAIN announced' : i = Len(announced) + 1 \/ i \in DOMAIN announced
    BY <1>6, <2>1, LastIndex
  <2>3. \A v \in Threads, i \in DOMAIN announced' : announced'[i] # handler'[v]
    <3> SUFFICES ASSUME NEW v \in Threads, NEW i \in DOMAIN announced'
                 PROVE  announced'[i] # handler'[v]
      OBVIOUS
    <3>1. announced'[i] # 0
      BY <1>3, <1>6, <2>1, <2>2
    <3>2. CASE v = t
      BY <1>5, <3>1, <3>2
    <3>3. CASE v # t
      BY <1>1, <1>2, <1>4, <1>6, <2>1, <2>2, <3>3
    <3> QED
      BY <3>2, <3>3
  <2>4. HandlersInv'
    BY <1>1, <1>2, <1>3, <1>7, <2>1, <2>3 DEF HandlersInv
  <2>5. \A i, j \in DOMAIN announced' : announced'[i] = announced'[j] => i = j
    BY <1>1, <1>6, <1>8, <2>1, <2>2 DEF JobsAreAnnounced
  <2>6. ASSUME NEW n \in 1 .. jobs'
        PROVE  \/ \E i \in DOMAIN announced' : announced'[i] = n
               \/ \E v \in Threads : handler'[v] = n
               \/ n \in dropped'
    <3>1. CASE n = handler[t]
      <4>1. Len(announced) + 1 \in DOMAIN announced'
        BY <1>6, <2>1
      <4> QED
        BY <2>1, <3>1, <4>1
    <3>2. CASE n # handler[t]
      <4>1. \/ \E i \in DOMAIN announced : announced[i] = n
            \/ \E v \in Threads : handler[v] = n
            \/ n \in dropped
        BY <1>2, <1>8 DEF JobsAreAnnounced
      <4>2. \A i \in DOMAIN announced : i \in DOMAIN announced' /\ announced'[i] = announced[i]
        BY <1>6, <2>1
      <4> QED
        BY <1>4, <1>9, <3>2, <4>1, <4>2
    <3> QED
      BY <3>1, <3>2
  <2> QED
    BY <2>4, <2>5, <2>6 DEF JobsInv, JobsAreAnnounced
<1>10. CASE dropped' = dropped \cup {handler[t]} /\ UNCHANGED announced
  <2>1. \A v \in Threads, i \in DOMAIN announced' : announced'[i] # handler'[v]
    <3> SUFFICES ASSUME NEW v \in Threads, NEW i \in DOMAIN announced
                 PROVE  announced[i] # handler'[v]
      BY <1>10
    <3>1. announced[i] # 0
      BY <1>6
    <3> QED
      BY <1>1, <1>4, <1>5, <3>1
  <2>2. HandlersInv'
    BY <1>1, <1>2, <1>3, <1>7, <1>10, <2>1 DEF HandlersInv
  <2>3. JobsAreAnnounced'
    BY <1>2, <1>4, <1>8, <1>10 DEF JobsAreAnnounced
  <2> QED
    BY <2>2, <2>3 DEF JobsInv
<1> QED
  BY <1>9, <1>10 DEF AddJobEvent, JobOf

\* Each event names a job of its own, and each job is named unless its
\* request is under way or has failed (486-487, 523-524), for any number of
\* threads.
THEOREM JobsStayAnnounced == Spec => []JobsAreAnnounced
<1>1. JobsInv /\ [Next]_vars => JobsInv'
  <2> SUFFICES ASSUME JobsInv, [Next]_vars PROVE JobsInv'
    OBVIOUS
  <2>1. CASE \E t \in Threads : AddJob(t) \/ AddJobEvent(t)
    BY <2>1, AddJobStep, AddJobEventStep
  <2>2. CASE UNCHANGED webVars
    BY <2>2 DEF webVars, JobsInv, HandlersInv, JobsAreAnnounced
  <2> QED
    BY <2>1, <2>2 DEF Next, Command, Finished, vars, Start, NextDevice, End, ReadConfig,
       WriteBackup, SendLines, Crash
<1>2. JobsInv => JobsAreAnnounced
  BY DEF JobsInv
<1> QED
  BY JobsInit, <1>1, <1>2, PTL DEF Spec
=============================================================================
