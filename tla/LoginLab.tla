------------------------------ MODULE LoginLab ------------------------------
(* The authentication lab of the dashboard, app/__init__.py:330-409.  The   *)
(* attempts of a user are kept in the signed session cookie, so a request   *)
(* works on the cookie it was sent with and its answer replaces the one in  *)
(* the browser.  The page polls the status every second while the user      *)
(* submits attempts (app/templates/dashboard.html:50-51): requests of one   *)
(* session overlap and their answers come back in any order.                *)
(*                                                                          *)
(* create_incident is taken apart here as in module Investigation.          *)
EXTENDS Naturals, Sequences, FiniteSets, SequencesExt

CONSTANTS
    Tabs,           \* requests of the session that may be in flight at once
    Threshold,      \* 5
    Window,         \* 30 seconds, in ticks
    RulesChange,    \* BOOLEAN: may an analyst switch AUTH-BRUTE-001?
    MaxTime,        \* bound: the clock stops here
    MaxAttempts,    \* bound: submissions that are answered with a row
    MaxFaults       \* bound: store calls that fail

ASSUME ThresholdAssumption == Threshold \in Nat \ {0}
ASSUME WindowAssumption == Window \in Nat \ {0}
ASSUME BoundsAssumption == {MaxTime, MaxAttempts, MaxFaults} \subseteq Nat

VARIABLES
    now,         \* time.time()
    cookie,      \* the session in the browser
    pc,          \* pc[t]: what request t does next
    session,     \* session[t]: its copy of the session
    alarmId,     \* alarmId[t]: the brute_force row it wrote, or 0
    rows,        \* the lab's rows of events, the id being the position
    incidents,   \* the incidents of AUTH-BRUTE-001: the ids each links
    evidence,    \* how many incidents have their evidence row
    ruleOn,      \* detection_rules.enabled of AUTH-BRUTE-001
    alerts,      \* notifications sent
    attempts,    \* history variable: the time of every rejected attempt
    clean,       \* history variable: no fault and no two requests at once
    faults       \* failures so far

storeVars == <<rows, incidents, evidence, ruleOn, alerts>>
historyVars == <<attempts, clean, faults>>
vars == <<now, cookie, pc, session, alarmId, storeVars, historyVars>>

Fresh == [times |-> <<>>, ids |-> <<>>, alerted |-> FALSE]

Init ==
    /\ now = 0
    /\ cookie = Fresh
    /\ pc = [t \in Tabs |-> "idle"]
    /\ session = [t \in Tabs |-> Fresh]
    /\ alarmId = [t \in Tabs |-> 0]
    /\ rows = <<>>
    /\ incidents = <<>>
    /\ evidence = 0
    /\ ruleOn = TRUE
    /\ alerts = 0
    /\ attempts = <<>>
    /\ clean = TRUE
    /\ faults = 0

-----------------------------------------------------------------------------

\* Mutated form of LastOf: the slice is forgotten.
AllOf(s, n) == s

\* s[-n:]
LastOf(s, n) == SubSeq(s, IF Len(s) > n THEN Len(s) - n + 1 ELSE 1, Len(s))

\* Mutated form of Live: attempts never grow old.
LiveForever(times) == times

\* [stamp for stamp in times if now - stamp < 30]
Live(times) ==
    LET kept == {i \in DOMAIN times : now < times[i] + Window}
        Place(i) == Cardinality({k \in kept : k <= i})
    IN  [n \in 1 .. Cardinality(kept) |-> times[CHOOSE i \in kept : Place(i) = n]]

Goto(t, step) == pc' = [pc EXCEPT ![t] = step]

Busy == {t \in Tabs : pc[t] # "idle"}

\* The submissions made, and those whose row or time is still to come.
Submitted == Len(attempts)
                + Cardinality({id \in DOMAIN rows : rows[id].kind = "login_success"})
                + Cardinality({t \in Tabs : pc[t] \in {"rejected", "accepted"}})

\* The browser sends a request with the cookie it has.
Send(t, kind) ==
    /\ pc[t] = "idle"
    /\ kind \in {"rejected", "accepted"} => Submitted < MaxAttempts
    /\ Goto(t, kind)
    /\ session' = [session EXCEPT ![t] = cookie]
    /\ clean' = (clean /\ Busy = {})
    /\ UNCHANGED <<now, cookie, alarmId, storeVars, attempts, faults>>

\* 349-354: the attempt is added to those of the last 30 seconds.
CountAttempt(t) ==
    /\ pc[t] = "rejected"
    /\ session' = [session EXCEPT ![t].times =
                      LastOf(Append(Live(@), now), Threshold)]
    /\ attempts' = Append(attempts, now)
    /\ Goto(t, "storing")
    /\ UNCHANGED <<now, cookie, alarmId, storeVars, clean, faults>>

\* Mutated form of Alarms: an alert that was raised is raised again.
AlarmsAgain(s) == Len(s.times) >= Threshold

Alarms(s) == Len(s.times) >= Threshold /\ ~ s.alerted

\* 355-366: the row, its id beside the times, and the decision.
StoreAttempt(t) ==
    /\ pc[t] = "storing"
    /\ rows' = Append(rows, [kind |-> "failed_login", stamp |-> Last(session[t].times)])
    /\ session' = [session EXCEPT ![t].ids =
                      LastOf(Append(@, Len(rows')), Len(session[t].times))]
    /\ Goto(t, IF Alarms(session[t]) THEN "alarming" ELSE "answered")
    /\ UNCHANGED <<now, cookie, alarmId, incidents, evidence, ruleOn, alerts, historyVars>>

\* 367-368.
StoreAlarm(t) ==
    /\ pc[t] = "alarming"
    /\ rows' = Append(rows, [kind |-> "brute_force", stamp |-> Last(session[t].times)])
    /\ alarmId' = [alarmId EXCEPT ![t] = Len(rows')]
    /\ Goto(t, "opening")
    /\ UNCHANGED <<now, cookie, session, incidents, evidence, ruleOn, alerts, historyVars>>

\* 369-372 with engine.py:49-54: an incident, if the rule is on.
OpenIncident(t) ==
    /\ pc[t] = "opening"
    /\ IF ruleOn
       THEN /\ incidents' = Append(incidents, ToSet(session[t].ids) \cup {alarmId[t]})
            /\ Goto(t, "recording")
       ELSE Goto(t, "notifying") /\ UNCHANGED incidents
    /\ UNCHANGED <<now, cookie, session, alarmId, rows, evidence, ruleOn, alerts, historyVars>>

\* engine.py:55-63.
RecordEvidence(t) ==
    /\ pc[t] = "recording"
    /\ evidence' = evidence + 1
    /\ Goto(t, "notifying")
    /\ UNCHANGED <<now, cookie, session, alarmId, rows, incidents, ruleOn, alerts, historyVars>>

\* 373-374.
Notify(t) ==
    /\ pc[t] = "notifying"
    /\ alerts' = alerts + 1
    /\ session' = [session EXCEPT ![t].alerted = TRUE]
    /\ Goto(t, "answered")
    /\ UNCHANGED <<now, cookie, alarmId, rows, incidents, evidence, ruleOn, historyVars>>

\* 342-346: valid credentials clear the session's attempts before the row is
\* written.
Accept(t) ==
    /\ pc[t] = "accepted"
    /\ session' = [session EXCEPT ![t] = Fresh]
    /\ rows' = Append(rows, [kind |-> "login_success", stamp |-> now])
    /\ Goto(t, "answered")
    /\ UNCHANGED <<now, cookie, alarmId, incidents, evidence, ruleOn, alerts, historyVars>>

\* 401-409.
Reset(t) ==
    /\ pc[t] = "reset"
    /\ session' = [session EXCEPT ![t] = Fresh]
    /\ Goto(t, "answered")
    /\ UNCHANGED <<now, cookie, alarmId, storeVars, historyVars>>

\* 389-394: only here does an alert wear off with its attempts.
Pruned(s) ==
    LET kept == Live(s.times)
    IN  [times   |-> kept,
         ids     |-> IF kept = <<>> THEN <<>> ELSE LastOf(s.ids, Len(kept)),
         alerted |-> s.alerted /\ kept # <<>>]

Status(t) ==
    /\ pc[t] = "status"
    /\ session' = [session EXCEPT ![t] = Pruned(@)]
    /\ Goto(t, "answered")
    /\ UNCHANGED <<now, cookie, alarmId, storeVars, historyVars>>

\* The answer reaches the browser and its Set-Cookie replaces the session.
Answer(t) ==
    /\ pc[t] = "answered"
    /\ cookie' = session[t]
    /\ Goto(t, "idle")
    /\ session' = [session EXCEPT ![t] = Fresh]
    /\ alarmId' = [alarmId EXCEPT ![t] = 0]
    /\ UNCHANGED <<now, storeVars, historyVars>>

\* A store call raises.  Flask answers 500 and still saves the session as
\* the handler left it (at 345 it is cleared already).
CallFails(t) ==
    /\ faults < MaxFaults /\ faults' = faults + 1
    /\ pc[t] \in {"storing", "alarming", "opening", "recording", "accepted"}
    /\ session' = IF pc[t] = "accepted" THEN [session EXCEPT ![t] = Fresh] ELSE session
    /\ Goto(t, "answered")
    /\ clean' = FALSE
    /\ UNCHANGED <<now, cookie, alarmId, storeVars, attempts>>

ToggleRule ==
    /\ RulesChange
    /\ ruleOn' = ~ ruleOn
    /\ UNCHANGED <<now, cookie, pc, session, alarmId, rows, incidents, evidence, alerts, historyVars>>

Tick == /\ now < MaxTime
        /\ now' = now + 1
        /\ UNCHANGED <<cookie, pc, session, alarmId, storeVars, historyVars>>

Handler(t) ==
    \/ CountAttempt(t) \/ StoreAttempt(t) \/ StoreAlarm(t) \/ OpenIncident(t)
    \/ RecordEvidence(t) \/ Notify(t) \/ Accept(t) \/ Reset(t) \/ Status(t)
    \/ Answer(t)

Next ==
    \/ Tick
    \/ ToggleRule
    \/ \E t \in Tabs :
          \/ \E kind \in {"rejected", "accepted", "status", "reset"} : Send(t, kind)
          \/ Handler(t)
          \/ CallFails(t)

Spec == Init /\ [][Next]_vars

-----------------------------------------------------------------------------

Sessions == [times : Seq(0 .. MaxTime), ids : Seq(Nat), alerted : BOOLEAN]

SessionOK(s) ==
    /\ s \in Sessions
    /\ Len(s.times) <= Threshold /\ Len(s.ids) <= Threshold
    /\ \A i \in DOMAIN s.ids : s.ids[i] \in DOMAIN rows

LabTypeOK ==
    /\ now \in 0 .. MaxTime
    /\ SessionOK(cookie)
    /\ session \in [Tabs -> Sessions] /\ \A t \in Tabs : SessionOK(session[t])
    /\ pc \in [Tabs -> {"idle", "rejected", "accepted", "status", "reset", "storing",
                       "alarming", "opening", "recording", "notifying", "answered"}]
    /\ alarmId \in [Tabs -> Nat]
    /\ \A t \in Tabs : alarmId[t] # 0 => /\ alarmId[t] \in DOMAIN rows
                                         /\ rows[alarmId[t]].kind = "brute_force"
    /\ rows \in Seq([kind : {"failed_login", "brute_force", "login_success"},
                     stamp : 0 .. MaxTime])
    /\ incidents \in Seq(SUBSET DOMAIN rows)
    /\ {evidence, alerts, faults} \subseteq Nat
    /\ evidence <= Len(incidents)
    /\ ruleOn \in BOOLEAN /\ clean \in BOOLEAN
    /\ attempts \in Seq(0 .. MaxTime)

\* The stamps that lie in one window ending at time last.
Recent(stamps, last) == {i \in DOMAIN stamps : stamps[i] <= last /\ last < stamps[i] + Window}

\* However requests overlap, whatever cookie comes back last and whatever
\* fails: a false alarm is never raised.  A request that is about to raise
\* one was made in a window with Threshold rejected attempts.
AlertsAreBacked ==
    \A t \in Tabs : pc[t] = "alarming" =>
        Cardinality(Recent(attempts, Last(session[t].times))) >= Threshold

Rejected(i) == {id \in incidents[i] : rows[id].kind = "failed_login"}

\* The ids in the session stay beside the times they belong to, although
\* both lists are pruned apart: an incident links the Threshold rejected
\* attempts of one window, unless a call failed or requests overlapped.
IncidentsLinkTheWindow ==
    clean => \A i \in DOMAIN incidents :
        /\ Cardinality(Rejected(i)) = Threshold
        /\ \A a, b \in Rejected(i) : rows[a].stamp < rows[b].stamp + Window

\* A burst opens one incident: no attempt is linked by two, unless a call
\* failed or requests overlapped.
BurstsAreReportedOnce ==
    clean => \A i, j \in DOMAIN incidents : i # j => incidents[i] \cap incidents[j] = {}

Linked == UNION {incidents[i] : i \in DOMAIN incidents}

\* The window had run empty before the first of the times s, which are those
\* of the latest attempts.
FollowsSilence(s) == \A k \in 1 .. Len(attempts) - Len(s) : attempts[k] + Window <= s[1]

\* "Five failures from the same source within 30 seconds create a critical
\* incident." (app/templates/dashboard.html:48): so does a burst that comes
\* after 30 seconds without an attempt, whatever was alerted before.
FiveFailuresCreateAnIncident ==
    [][\A t \in Tabs :
          /\ pc[t] = "storing" /\ pc'[t] = "answered" /\ faults' = faults
          /\ Len(session[t].times) = Threshold
          /\ FollowsSilence(session[t].times)
          => ToSet(session'[t].ids) \cap Linked # {}]_vars
=============================================================================
