---------------------------- MODULE StoreProofs ----------------------------
(* What the tables of EventStore say of each other, what the requests of    *)
(* StoreReaders see of them, and what the handlers of Investigation do to   *)
(* them: for every set of rules, bodies and statuses, every page size,      *)
(* number of threads, minimum, upload and bound.                            *)
EXTENDS Investigation, StoreReaders, SequenceTheorems, FunctionTheorems,
        FiniteSetTheorems, TLAPS

\* The inductive invariant: the types, the ids of events, and the references
\* between the tables.
TablesInv == StoreTypeOK /\ EventIdsAreUnique /\ TablesAgree

\* Appending to a sequence: what the next state of every table is made of.
LEMMA AppendFacts ==
    ASSUME NEW S, NEW s \in Seq(S), NEW e \in S
    PROVE  /\ Append(s, e) \in Seq(S)
           /\ Len(Append(s, e)) = Len(s) + 1
           /\ DOMAIN s = 1 .. Len(s)
           /\ DOMAIN Append(s, e) = 1 .. Len(s) + 1
           /\ \A k \in 1 .. Len(s) : Append(s, e)[k] = s[k]
           /\ Append(s, e)[Len(s) + 1] = e
  OBVIOUS

\* Changing one row of a table leaves the others and the length alone.
LEMMA ExceptFacts ==
    ASSUME NEW S, NEW s \in Seq(S), NEW i \in DOMAIN s, NEW e \in S
    PROVE  /\ [s EXCEPT ![i] = e] \in Seq(S)
           /\ Len([s EXCEPT ![i] = e]) = Len(s)
           /\ DOMAIN [s EXCEPT ![i] = e] = DOMAIN s
           /\ \A k \in DOMAIN s : [s EXCEPT ![i] = e][k] = IF k = i THEN e ELSE s[k]
  OBVIOUS

\* One row was added to the timeline.
ActivityAppended(act) ==
    /\ activity' \in Seq(Activity)
    /\ Len(activity') = Len(activity) + 1
    /\ DOMAIN activity = 1 .. Len(activity)
    /\ DOMAIN activity' = 1 .. Len(activity) + 1
    /\ \A k \in 1 .. Len(activity) : activity'[k] = activity[k]
    /\ activity'[Len(activity) + 1] = act

\* An empty database satisfies the invariant.
LEMMA TablesInit == StoreInit => TablesInv
BY BoundsAssumption, StatusAssumption
   DEF StoreInit, TablesInv, StoreTypeOK, EventIdsAreUnique, TablesAgree

\* Every store call keeps it (store.py:101-348): an event gets an id that was
\* never given, an incident is created together with its links and its first
\* row of the timeline, and evidence and notes go to incidents that exist.
LEMMA TablesStep == TablesInv /\ [StoreNext]_storeVars => TablesInv'
<1> SUFFICES ASSUME TablesInv, [StoreNext]_storeVars PROVE TablesInv'
  OBVIOUS
<1> USE BoundsAssumption, StatusAssumption
<1> USE DEF TablesInv, StoreTypeOK, EventIdsAreUnique, TablesAgree
<1>1. CASE Initialize
  BY <1>1 DEF Initialize, UpsertRules
<1>2. ASSUME NEW b \in Bodies, AddEvent(b) PROVE TablesInv'
  <2> DEFINE row == [id |-> lastEvent + 1, body |-> b, status |-> "open"]
  <2>1. lastEvent + 1 \in 1 .. MaxEvents /\ row \in Event
    BY <1>2 DEF AddEvent, Event
  <2>2. events' = events \cup {row} /\ lastEvent' = lastEvent + 1
    BY <1>2 DEF AddEvent, NextEventId
  <2>3. UNCHANGED <<enabled, incidents, links, activity, evidence, wanted>>
    BY <1>2 DEF AddEvent
  <2>4. EventIdsAreUnique'
    BY <2>1, <2>2 DEF Event
  <2>5. TablesAgree'
    BY <2>2, <2>3
  <2> QED
    BY <2>1, <2>2, <2>3, <2>4, <2>5
<1>3. ASSUME NEW r \in Rules, NEW ids \in SUBSET (1 .. lastEvent), CreateIncident(r, ids)
      PROVE TablesInv'
  <2> DEFINE n == Len(incidents) + 1
             row == [rule |-> r, status |-> "open"]
             act == [incident |-> n, action |-> "created"]
  <2>1. n \in 1 .. MaxIncidents /\ row \in Incident /\ act \in Activity
    BY <1>3 DEF CreateIncident, Incident, Activity
  <2>2. /\ incidents' = Append(incidents, row)
        /\ activity' = Append(activity, act)
        /\ links' = links \cup ({n} \X ids)
        /\ UNCHANGED <<events, lastEvent, enabled, evidence, wanted>>
        /\ Len(activity) < MaxActivity
    BY <1>3 DEF CreateIncident
  <2>3. /\ incidents' \in Seq(Incident) /\ Len(incidents') = n
        /\ DOMAIN incidents = 1 .. Len(incidents) /\ DOMAIN incidents' = 1 .. n
    BY <2>1, <2>2, AppendFacts
  <2>4. ActivityAppended(act)
    BY <2>1, <2>2, AppendFacts DEF ActivityAppended
  <2>8. /\ links' \subseteq (1 .. MaxIncidents) \X (1 .. MaxEvents)
        /\ \A l \in links' : l[1] \in 1 .. n /\ l[2] <= lastEvent
    <3>1. \A l \in {n} \X ids : /\ l \in (1 .. MaxIncidents) \X (1 .. MaxEvents)
                                /\ l[1] = n /\ l[2] <= lastEvent
      <4> SUFFICES ASSUME NEW id \in ids
                   PROVE  id \in 1 .. MaxEvents /\ id <= lastEvent
        BY <2>1
      <4> QED
        OBVIOUS
    <3>2. \A l \in links : l[1] \in 1 .. n
      BY <2>3
    <3> QED
      BY <2>1, <2>2, <3>1, <3>2
  <2>5. StoreTypeOK'
    <3>1. Len(incidents') <= MaxIncidents /\ Len(activity') <= MaxActivity
      BY <2>1, <2>2, <2>3, <2>4 DEF ActivityAppended
    <3> QED
      BY <2>2, <2>3, <2>4, <2>8, <3>1 DEF ActivityAppended
  <2>6. EventIdsAreUnique'
    BY <2>2
  <2>7. TablesAgree'
    <3>1. \A l \in links' : l[1] \in DOMAIN incidents' /\ l[2] <= lastEvent'
      BY <2>2, <2>3, <2>8
    <3>2. \A k \in DOMAIN evidence' : evidence'[k].incident \in DOMAIN incidents'
      BY <2>1, <2>2, <2>3
    <3>3. \A k \in DOMAIN activity' : activity'[k].incident \in DOMAIN incidents'
      <4>1. \A k \in 1 .. Len(activity) : activity'[k].incident \in 1 .. n
        <5> SUFFICES ASSUME NEW k \in 1 .. Len(activity)
                     PROVE  activity[k].incident \in 1 .. n
          BY <2>4 DEF ActivityAppended
        <5>1. activity[k].incident \in DOMAIN incidents
          BY <2>4 DEF ActivityAppended
        <5> QED
          BY <5>1, <2>3
      <4>2. activity'[Len(activity) + 1].incident \in 1 .. n
        BY <2>3, <2>4 DEF ActivityAppended
      <4> QED
        BY <2>3, <2>4, <4>1, <4>2 DEF ActivityAppended
    <3> QED
      BY <3>1, <3>2, <3>3
  <2> QED
    BY <2>5, <2>6, <2>7
<1>4. ASSUME NEW i \in DOMAIN incidents, NEW ids \in SUBSET (1 .. lastEvent), AddEvidence(i, ids)
      PROVE TablesInv'
  <2> DEFINE row == [incident |-> i, ids |-> ids]
  <2>1. row \in Evidence
    BY DEF Evidence
  <2>2. /\ evidence' = Append(evidence, row) /\ Len(evidence) < MaxEvidence
        /\ UNCHANGED <<events, lastEvent, enabled, incidents, links, activity, wanted>>
    BY <1>4 DEF AddEvidence
  <2>3. /\ evidence' \in Seq(Evidence) /\ Len(evidence') = Len(evidence) + 1
        /\ DOMAIN evidence = 1 .. Len(evidence)
        /\ DOMAIN evidence' = 1 .. Len(evidence) + 1
        /\ \A k \in 1 .. Len(evidence) : evidence'[k] = evidence[k]
        /\ evidence'[Len(evidence) + 1] = row
    BY <2>1, <2>2, AppendFacts
  <2>4. StoreTypeOK' /\ EventIdsAreUnique'
    BY <2>2, <2>3
  <2>5. \A k \in DOMAIN evidence' : evidence'[k].incident \in DOMAIN incidents'
    BY <2>2, <2>3
  <2> QED
    BY <2>2, <2>4, <2>5
<1>5. CASE EventPages
  <2>1. ASSUME NEW ids \in SUBSET (1 .. lastEvent), DeleteEvents(ids) PROVE TablesInv'
    BY <2>1 DEF DeleteEvents
  <2>2. ASSUME NEW e \in events, NEW s \in EventStatuses, UpdateEventStatus(e.id, s)
        PROVE TablesInv'
    <3> DEFINE After(f) == IF f.id = e.id THEN [f EXCEPT !.status = s] ELSE f
    <3>1. \A f \in events : After(f) \in Event /\ After(f).id = f.id
      BY DEF Event
    <3>2. /\ events' = {After(f) : f \in events}
          /\ UNCHANGED <<lastEvent, enabled, incidents, links, activity, evidence, wanted>>
      BY <2>2 DEF UpdateEventStatus
    <3> HIDE DEF After
    <3> QED
      BY <3>1, <3>2
  <2> QED
    BY <1>5, <2>1, <2>2 DEF EventPages
<1>6. CASE IncidentPages
  <2>1. ASSUME NEW i \in 1 .. MaxIncidents, AddActivity(i) PROVE TablesInv'
    <3> DEFINE act == [incident |-> i, action |-> "note"]
    <3>1. act \in Activity
      BY DEF Activity
    <3>2. /\ i \in DOMAIN incidents /\ Len(activity) < MaxActivity
          /\ activity' = Append(activity, act)
          /\ UNCHANGED <<events, lastEvent, enabled, incidents, links, evidence, wanted>>
      BY <2>1 DEF AddActivity
    <3>3. ActivityAppended(act)
      BY <3>1, <3>2, AppendFacts DEF ActivityAppended
    <3> QED
      BY <3>2, <3>3 DEF ActivityAppended
  <2>2. ASSUME NEW i \in 1 .. MaxIncidents, NEW s \in IncidentStatuses,
               UpdateIncidentStatus(i, s)
        PROVE TablesInv'
    <3> DEFINE act == [incident |-> i, action |-> s]
               row == [incidents[i] EXCEPT !.status = s]
    <3>1. /\ i \in DOMAIN incidents /\ Len(activity) < MaxActivity
          /\ activity' = Append(activity, act)
          /\ incidents' = [incidents EXCEPT ![i] = row]
          /\ UNCHANGED <<events, lastEvent, enabled, links, evidence, wanted>>
      BY <2>2 DEF UpdateIncidentStatus, StatusActivity
    <3>2. act \in Activity
      BY DEF Activity
    <3>3. row \in Incident
      <4>1. incidents[i] \in Incident
        BY <3>1
      <4> QED
        BY <4>1 DEF Incident
    <3>4. ActivityAppended(act)
      BY <3>1, <3>2, AppendFacts DEF ActivityAppended
    <3>5. /\ incidents' \in Seq(Incident) /\ Len(incidents') = Len(incidents)
          /\ DOMAIN incidents' = DOMAIN incidents
      BY <3>1, <3>3, ExceptFacts
    <3> QED
      BY <3>1, <3>4, <3>5 DEF ActivityAppended
  <2> QED
    BY <1>6, <2>1, <2>2 DEF IncidentPages
<1>7. CASE DetectionPages
  BY <1>7 DEF DetectionPages, SetRuleEnabled
<1>8. CASE UNCHANGED storeVars
  BY <1>8 DEF storeVars
<1> QED
  BY <1>1, <1>2, <1>3, <1>4, <1>5, <1>6, <1>7, <1>8 DEF StoreNext, AnalystStep

\* The types, the uniqueness of ids and the references hold in every state.
THEOREM TablesInvariant == StoreSpec => []TablesInv
BY TablesInit, TablesStep, PTL DEF StoreSpec

\* Every table holds well-typed rows, within the bounds.
THEOREM StoreTypeCorrect == StoreSpec => []StoreTypeOK
<1>1. TablesInv => StoreTypeOK
  BY DEF TablesInv
<1> QED
  BY <1>1, TablesInvariant, PTL

\* Links, evidence and timeline rows belong to incidents that exist, although
\* the schema has no foreign keys, and links name ids already given.
THEOREM TablesStayConsistent == StoreSpec => []TablesAgree
<1>1. TablesInv => TablesAgree
  BY DEF TablesInv
<1> QED
  BY <1>1, TablesInvariant, PTL

-----------------------------------------------------------------------------

\* The id of an event that a step adds stands in no link made before.
LEMMA NewEventsAreUnlinked ==
    TablesInv /\ [StoreNext]_storeVars =>
        \A e \in events' : (\A f \in events : f.id # e.id) => \A l \in links : l[2] # e.id
<1> SUFFICES ASSUME TablesInv, [StoreNext]_storeVars,
                    NEW e \in events', \A f \in events : f.id # e.id,
                    NEW l \in links
             PROVE  l[2] # e.id
  OBVIOUS
<1>1. l[2] <= lastEvent /\ l[2] \in Nat /\ lastEvent \in Nat
  BY BoundsAssumption DEF TablesInv, StoreTypeOK, TablesAgree
<1>2. ASSUME NEW b \in Bodies, AddEvent(b) PROVE l[2] # e.id
  <2>1. e.id = lastEvent + 1
    BY <1>2 DEF AddEvent, NextEventId
  <2> QED
    BY <1>1, <2>1
<1>3. CASE events' = events
  BY <1>3
<1>4. ASSUME NEW ids \in SUBSET (1 .. lastEvent), DeleteEvents(ids) PROVE FALSE
  BY <1>4 DEF DeleteEvents
<1>5. ASSUME NEW f \in events, NEW s \in EventStatuses, UpdateEventStatus(f.id, s) PROVE FALSE
  <2>1. PICK g \in events : e = IF g.id = f.id THEN [g EXCEPT !.status = s] ELSE g
    BY <1>5 DEF UpdateEventStatus
  <2>2. g \in Event
    BY DEF TablesInv, StoreTypeOK
  <2>3. e.id = g.id
    BY <2>1, <2>2 DEF Event
  <2> QED
    BY <2>3
<1>6. CASE EventPages
  BY <1>4, <1>5, <1>6 DEF EventPages
<1>7. CASE IncidentPages \/ DetectionPages
  BY <1>3, <1>7 DEF IncidentPages, DetectionPages, AddActivity, UpdateIncidentStatus,
                    SetRuleEnabled
<1> QED
  BY <1>2, <1>3, <1>6, <1>7
     DEF StoreNext, AnalystStep, Initialize, CreateIncident, AddEvidence, storeVars

\* A link never comes to name another event than the one it was made for,
\* whatever is deleted: ids are not given twice, and no link is ahead of the
\* last id.
THEOREM LinksStay == StoreSpec => LinksAreNotReused
BY NewEventsAreUnlinked, TablesInvariant, PTL DEF StoreSpec, LinksAreNotReused

-----------------------------------------------------------------------------

\* Only the analyst's page changes a rule; upsert_rule of a new process does
\* not (store.py:237).
LEMMA RulesStep == enabled = wanted /\ [StoreNext]_storeVars => enabled' = wanted'
<1> SUFFICES ASSUME enabled = wanted, [StoreNext]_storeVars PROVE enabled' = wanted'
  OBVIOUS
<1>1. CASE UNCHANGED <<enabled, wanted>>
  BY <1>1
<1>2. CASE DetectionPages
  BY <1>2 DEF DetectionPages, SetRuleEnabled
<1>3. CASE EventPages \/ IncidentPages
  BY <1>1, <1>3 DEF EventPages, DeleteEvents, UpdateEventStatus, IncidentPages,
                    AddActivity, UpdateIncidentStatus
<1> QED
  BY <1>1, <1>2, <1>3 DEF StoreNext, Initialize, UpsertRules, AddEvent, CreateIncident,
                          AddEvidence, AnalystStep, storeVars

\* Restarts and all other calls leave every rule as the analyst last set it.
THEOREM RulesStay == StoreSpec => []RulesFollowTheAnalyst
<1>1. StoreInit => RulesFollowTheAnalyst
  BY DEF StoreInit, RulesFollowTheAnalyst
<1>2. TablesInv /\ RulesFollowTheAnalyst /\ [StoreNext]_storeVars => RulesFollowTheAnalyst'
  BY RulesStep DEF RulesFollowTheAnalyst
<1> QED
  BY <1>1, <1>2, TablesInvariant, PTL DEF StoreSpec

-----------------------------------------------------------------------------
(* The status of an incident and its timeline.                              *)

\* Row k of the timeline is the last one that sets the status of i, and it
\* sets the status that i has.
Explains(k, i) ==
    /\ k \in StatusRows(i)
    /\ \A m \in StatusRows(i) : m <= k
    /\ incidents[i].status = StatusOf(activity[k].action)

\* Every call keeps the status of every incident explained.
LEMMA StatusStep == TablesInv /\ StatusIsExplained /\ [StoreNext]_storeVars => StatusIsExplained'
<1> SUFFICES ASSUME TablesInv, StatusIsExplained, [StoreNext]_storeVars
             PROVE  StatusIsExplained'
  OBVIOUS
<1> DEFINE L == Len(activity)
<1>1. /\ incidents \in Seq(Incident) /\ activity \in Seq(Activity) /\ L \in Nat
      /\ DOMAIN activity = 1 .. L /\ DOMAIN incidents = 1 .. Len(incidents)
      /\ \A k \in 1 .. L : activity[k].incident \in DOMAIN incidents
  BY DEF TablesInv, StoreTypeOK, TablesAgree
<1>2. \A i \in DOMAIN incidents : \E k \in 1 .. L : Explains(k, i)
  BY <1>1 DEF StatusIsExplained, Explains, StatusRows
<1>3. SUFFICES \A i \in DOMAIN incidents' : \E k : Explains(k, i)'
  BY DEF StatusIsExplained, Explains
<1>4. CASE UNCHANGED <<incidents, activity>>
  BY <1>2, <1>4 DEF Explains, StatusRows
\* A row for j is appended to the timeline: what explains another incident
\* still explains it.
<1>5. ASSUME NEW act \in Activity, activity' = Append(activity, act),
             NEW i \in DOMAIN incidents, act.incident # i \/ act.action = "note",
             i \in DOMAIN incidents', incidents'[i] = incidents[i]
      PROVE  \E k : Explains(k, i)'
  <2>1. ActivityAppended(act)
    BY <1>1, <1>5, AppendFacts DEF ActivityAppended
  <2>2. StatusRows(i)' = StatusRows(i)
    BY <1>1, <1>5, <2>1 DEF StatusRows, ActivityAppended
  <2>3. PICK k \in 1 .. L : Explains(k, i)
    BY <1>2
  <2>4. activity'[k] = activity[k]
    BY <2>1 DEF ActivityAppended
  <2> QED
    BY <1>5, <2>2, <2>3, <2>4 DEF Explains
\* A row for i that says what its status has become is appended.
<1>6. ASSUME NEW act \in Activity, activity' = Append(activity, act),
             NEW i, act.incident = i, act.action # "note",
             incidents'[i].status = StatusOf(act.action)
      PROVE  \E k : Explains(k, i)'
  <2>1. ActivityAppended(act)
    BY <1>1, <1>6, AppendFacts DEF ActivityAppended
  <2>2. L + 1 \in StatusRows(i)' /\ \A m \in StatusRows(i)' : m <= L + 1
    BY <1>1, <1>6, <2>1 DEF StatusRows, ActivityAppended
  <2>3. incidents'[i].status = StatusOf(activity'[L + 1].action)
    BY <1>6, <2>1 DEF ActivityAppended
  <2> QED
    BY <2>2, <2>3 DEF Explains
<1>7. ASSUME NEW r \in Rules, NEW ids \in SUBSET (1 .. lastEvent), CreateIncident(r, ids),
             NEW i \in DOMAIN incidents'
      PROVE  \E k : Explains(k, i)'
  <2> DEFINE n   == Len(incidents) + 1
             row == [rule |-> r, status |-> "open"]
             act == [incident |-> n, action |-> "created"]
  <2>1. n \in 1 .. MaxIncidents /\ row \in Incident /\ act \in Activity
    BY <1>1, <1>7, BoundsAssumption, StatusAssumption DEF CreateIncident, Incident, Activity
  <2>2. incidents' = Append(incidents, row) /\ activity' = Append(activity, act)
    BY <1>7 DEF CreateIncident
  <2>3. /\ DOMAIN incidents' = 1 .. n /\ incidents'[n] = row
        /\ \A j \in DOMAIN incidents : incidents'[j] = incidents[j]
    BY <1>1, <2>1, <2>2, AppendFacts
  <2>4. CASE i = n
    <3>1. incidents'[i].status = StatusOf(act.action)
      BY <2>3, <2>4 DEF StatusOf
    <3> QED
      BY <1>6, <2>1, <2>2, <2>4, <3>1
  <2>5. CASE i # n
    <3>1. i \in DOMAIN incidents
      BY <1>1, <2>3, <2>5
    <3> QED
      BY <1>5, <1>7, <2>1, <2>2, <2>3, <2>5, <3>1
  <2> QED
    BY <2>4, <2>5
<1>8. ASSUME NEW j \in 1 .. MaxIncidents, AddActivity(j), NEW i \in DOMAIN incidents'
      PROVE  \E k : Explains(k, i)'
  <2> DEFINE act == [incident |-> j, action |-> "note"]
  <2>1. act \in Activity
    BY DEF Activity
  <2>2. activity' = Append(activity, act) /\ incidents' = incidents
    BY <1>8 DEF AddActivity
  <2> QED
    BY <1>5, <1>8, <2>1, <2>2
<1>9. ASSUME NEW j \in 1 .. MaxIncidents, NEW s \in IncidentStatuses,
             UpdateIncidentStatus(j, s), NEW i \in DOMAIN incidents'
      PROVE  \E k : Explains(k, i)'
  <2> DEFINE act == [incident |-> j, action |-> s]
             row == [incidents[j] EXCEPT !.status = s]
  <2>1. act \in Activity /\ s # "note" /\ s # "created"
    BY StatusAssumption DEF Activity
  <2>2. /\ activity' = Append(activity, act) /\ j \in DOMAIN incidents
        /\ incidents' = [incidents EXCEPT ![j] = row]
    BY <1>9 DEF UpdateIncidentStatus, StatusActivity
  <2>3. incidents[j] \in Incident
    BY <1>1, <2>2
  <2>4. row \in Incident /\ row.status = s
    BY <2>3 DEF Incident
  <2>5. /\ DOMAIN incidents' = DOMAIN incidents /\ incidents'[j] = row
        /\ \A m \in DOMAIN incidents : m # j => incidents'[m] = incidents[m]
    BY <1>1, <2>2, <2>4, ExceptFacts
  <2>6. CASE i = j
    <3>1. incidents'[i].status = StatusOf(act.action)
      BY <2>1, <2>4, <2>5, <2>6 DEF StatusOf
    <3> QED
      BY <1>6, <2>1, <2>2, <2>6, <3>1
  <2>7. CASE i # j
    BY <1>5, <1>9, <2>1, <2>2, <2>5, <2>7
  <2> QED
    BY <2>6, <2>7
<1>10. CASE IncidentPages
  BY <1>8, <1>9, <1>10 DEF IncidentPages
<1> QED
  BY <1>4, <1>7, <1>10
     DEF StoreNext, AnalystStep, EventPages, DetectionPages, Initialize, AddEvent,
         AddEvidence, DeleteEvents, UpdateEventStatus, SetRuleEnabled, storeVars

\* The status of every incident is the one the last status row of its
\* timeline names.
THEOREM StatusStaysExplained == StoreSpec => []StatusIsExplained
<1>1. StoreInit => StatusIsExplained
  BY DEF StoreInit, StatusIsExplained
<1> QED
  BY <1>1, StatusStep, TablesInvariant, PTL DEF StoreSpec

-----------------------------------------------------------------------------
(* A request that reads the incident statement by statement.                *)

\* The fields of the two requests: what EXCEPT may change.
Shaped ==
    /\ reader = [kind |-> reader.kind, incident |-> reader.incident, todo |-> reader.todo,
                 got |-> reader.got, inserted |-> reader.inserted]
    /\ walk = [page |-> walk.page, pages |-> walk.pages, filter |-> walk.filter,
               seen |-> walk.seen, torn |-> walk.torn, due |-> walk.due]

\* What is left of a request, statement by statement.
ReportTodo == {ReportOrder, <<"events", "activity", "evidence">>, <<"activity", "evidence">>,
               <<"evidence">>, <<>>}

ListingTodo == {ListingOrder, <<"rows", "counted", "open">>, <<"counted", "open">>,
                <<"open">>, <<>>}

\* The heads and tails of these sequences.
LEMMA Statements ==
    /\ Head(ReportOrder) = "row" /\ Tail(ReportOrder) = <<"events", "activity", "evidence">>
    /\ Head(<<"events", "activity", "evidence">>) = "events"
    /\ Tail(<<"events", "activity", "evidence">>) = <<"activity", "evidence">>
    /\ Head(<<"activity", "evidence">>) = "activity"
    /\ Tail(<<"activity", "evidence">>) = <<"evidence">>
    /\ Head(<<"evidence">>) = "evidence" /\ Tail(<<"evidence">>) = <<>>
    /\ Head(ListingOrder) = "total" /\ Tail(ListingOrder) = <<"rows", "counted", "open">>
    /\ Head(<<"rows", "counted", "open">>) = "rows"
    /\ Tail(<<"rows", "counted", "open">>) = <<"counted", "open">>
    /\ Head(<<"counted", "open">>) = "counted" /\ Tail(<<"counted", "open">>) = <<"open">>
    /\ Head(<<"open">>) = "open" /\ Tail(<<"open">>) = <<>>
    /\ ReportOrder # <<>> /\ ListingOrder # <<>>
BY DEF ReportOrder, ListingOrder

\* Their lengths.
LEMMA Lengths ==
    /\ Len(ReportOrder) = 4 /\ Len(<<"events", "activity", "evidence">>) = 3
    /\ Len(<<"activity", "evidence">>) = 2 /\ Len(<<"evidence">>) = 1
    /\ Len(ListingOrder) = 4 /\ Len(<<"rows", "counted", "open">>) = 3
    /\ Len(<<"counted", "open">>) = 2 /\ Len(<<"open">>) = 1 /\ Len(<<>>) = 0
BY DEF ReportOrder, ListingOrder

\* What a request has read of an incident: once its row is read, a row of the
\* timeline names that status, and so does one it has read itself.
ReportInv ==
    reader.kind = "report" =>
        /\ reader.incident \in DOMAIN incidents
        /\ reader.todo \in ReportTodo
        /\ Len(reader.todo) < 4 =>
              /\ "row" \in DOMAIN reader.got
              /\ \E k \in StatusRows(reader.incident) :
                     reader.got["row"] = StatusOf(activity[k].action)
        /\ Len(reader.todo) < 2 =>
              /\ "activity" \in DOMAIN reader.got
              /\ \E action \in reader.got["activity"] : reader.got["row"] = StatusOf(action)

\* A write of another request only adds to a timeline, and removes no incident.
LEMMA TimelinesGrow ==
    ASSUME TablesInv, [StoreNext]_storeVars, NEW i
    PROVE  /\ DOMAIN incidents \subseteq DOMAIN incidents'
           /\ \A k \in StatusRows(i) : k \in StatusRows(i)' /\ activity'[k] = activity[k]
<1>1. /\ incidents \in Seq(Incident) /\ activity \in Seq(Activity)
  BY DEF TablesInv, StoreTypeOK
<1>2. ASSUME NEW act \in Activity, activity' = Append(activity, act)
      PROVE  \A k \in StatusRows(i) : k \in StatusRows(i)' /\ activity'[k] = activity[k]
  <2>1. /\ DOMAIN activity = 1 .. Len(activity) /\ DOMAIN activity' = 1 .. Len(activity) + 1
        /\ \A k \in 1 .. Len(activity) : activity'[k] = activity[k]
    BY <1>1, <1>2, AppendFacts
  <2> QED
    BY <2>1 DEF StatusRows
<1>3. CASE UNCHANGED <<incidents, activity>>
  BY <1>3 DEF StatusRows
<1>4. ASSUME NEW r \in Rules, NEW ids \in SUBSET (1 .. lastEvent), CreateIncident(r, ids)
      PROVE  /\ DOMAIN incidents \subseteq DOMAIN incidents'
             /\ \A k \in StatusRows(i) : k \in StatusRows(i)' /\ activity'[k] = activity[k]
  <2> DEFINE row == [rule |-> r, status |-> "open"]
             act == [incident |-> Len(incidents) + 1, action |-> "created"]
  <2>1. row \in Incident /\ act \in Activity
    BY <1>1, <1>4, BoundsAssumption, StatusAssumption DEF CreateIncident, Incident, Activity
  <2>2. incidents' = Append(incidents, row) /\ activity' = Append(activity, act)
    BY <1>4 DEF CreateIncident
  <2>3. DOMAIN incidents \subseteq DOMAIN incidents'
    BY <1>1, <2>1, <2>2, AppendFacts
  <2> QED
    BY <1>2, <2>1, <2>2, <2>3
<1>5. ASSUME NEW j \in 1 .. MaxIncidents, AddActivity(j)
      PROVE  /\ DOMAIN incidents \subseteq DOMAIN incidents'
             /\ \A k \in StatusRows(i) : k \in StatusRows(i)' /\ activity'[k] = activity[k]
  <2> DEFINE act == [incident |-> j, action |-> "note"]
  <2>1. act \in Activity
    BY DEF Activity
  <2>2. activity' = Append(activity, act) /\ incidents' = incidents
    BY <1>5 DEF AddActivity
  <2> QED
    BY <1>2, <2>1, <2>2
<1>6. ASSUME NEW j \in 1 .. MaxIncidents, NEW s \in IncidentStatuses, UpdateIncidentStatus(j, s)
      PROVE  /\ DOMAIN incidents \subseteq DOMAIN incidents'
             /\ \A k \in StatusRows(i) : k \in StatusRows(i)' /\ activity'[k] = activity[k]
  <2> DEFINE act == [incident |-> j, action |-> s]
  <2>1. act \in Activity
    BY DEF Activity
  <2>2. activity' = Append(activity, act) /\ DOMAIN incidents' = DOMAIN incidents
    BY <1>6 DEF UpdateIncidentStatus, StatusActivity
  <2> QED
    BY <1>2, <2>1, <2>2
<1>7. CASE IncidentPages
  BY <1>5, <1>6, <1>7 DEF IncidentPages
<1> QED
  BY <1>3, <1>4, <1>7
     DEF StoreNext, AnalystStep, EventPages, DetectionPages, Initialize, AddEvent,
         AddEvidence, DeleteEvents, UpdateEventStatus, SetRuleEnabled, storeVars

\* A request of the listing, or none, is no report.
LEMMA ReportInit == ReaderInit => Shaped /\ ReportInv
BY DEF ReaderInit, Shaped, ReportInv, NoRequest, Request

\* The records keep their fields.
LEMMA ShapedStep == Shaped /\ [ReaderNext]_readerVars => Shaped'
<1> SUFFICES ASSUME Shaped, [ReaderNext]_readerVars PROVE Shaped'
  OBVIOUS
<1>1. CASE StartWalk
  BY <1>1 DEF Shaped, StartWalk, Request
<1>2. CASE TurnPage
  BY <1>2 DEF Shaped, TurnPage, Request
<1>3. CASE OpenReport
  BY <1>3 DEF Shaped, OpenReport, Request
<1>4. CASE ReadNext
  BY <1>4 DEF Shaped, ReadNext
<1>5. CASE ShowPage
  BY <1>5 DEF Shaped, ShowPage, NoRequest, Request
<1>6. CASE CloseReport
  BY <1>6 DEF Shaped, CloseReport, NoRequest, Request
<1>7. CASE OtherRequest
  BY <1>7 DEF Shaped, OtherRequest
<1>8. CASE UNCHANGED readerVars
  BY <1>8 DEF Shaped, readerVars
<1> QED
  BY <1>1, <1>2, <1>3, <1>4, <1>5, <1>6, <1>7, <1>8 DEF ReaderNext

\* A statement answers its part and leaves the other parts as they were read.
LEMMA StatementRead ==
    ASSUME Shaped, ReadNext
    PROVE  /\ reader.todo # <<>> /\ reader'.todo = Tail(reader.todo)
           /\ reader'.kind = reader.kind /\ reader'.incident = reader.incident
           /\ reader'.got[Head(reader.todo)] = Read(Head(reader.todo))
           /\ DOMAIN reader'.got = DOMAIN reader.got \cup {Head(reader.todo)}
           /\ \A p \in DOMAIN reader.got :
                 p # Head(reader.todo) => reader'.got[p] = reader.got[p]
           /\ UNCHANGED <<storeVars, walk>>
<1> DEFINE part == Head(reader.todo)
           got == [p \in DOMAIN reader.got \cup {part} |->
                      IF p = part THEN Read(part) ELSE reader.got[p]]
<1>1. reader' = [kind |-> reader.kind, incident |-> reader.incident, todo |-> Tail(reader.todo),
                 got |-> got, inserted |-> reader.inserted]
  BY DEF Shaped, ReadNext
<1>2. reader.todo # <<>> /\ UNCHANGED <<storeVars, walk>>
  BY DEF ReadNext
<1>3. reader'.got = got
  BY <1>1
<1> QED
  BY <1>1, <1>2, <1>3

\* The row is read first, and its status has a row of the timeline then; the
\* timeline is read later and only grows.
LEMMA ReportStep ==
    TablesInv /\ StatusIsExplained /\ Shaped /\ ReportInv /\ [ReaderNext]_readerVars => ReportInv'
<1> SUFFICES ASSUME TablesInv, StatusIsExplained, Shaped, ReportInv, [ReaderNext]_readerVars
             PROVE  ReportInv'
  OBVIOUS
<1>1. CASE StartWalk \/ TurnPage \/ ShowPage \/ CloseReport
  <2>1. reader'.kind # "report"
    BY <1>1 DEF StartWalk, TurnPage, ShowPage, CloseReport, NoRequest, Request
  <2> QED
    BY <2>1 DEF ReportInv
<1>2. CASE OpenReport
  <2>1. PICK i \in DOMAIN incidents : reader' = Request("report", i, ReportOrder)
    BY <1>2 DEF OpenReport
  <2>2. reader'.incident = i /\ reader'.todo = ReportOrder /\ incidents' = incidents
    BY <1>2, <2>1 DEF Request, OpenReport, storeVars
  <2> QED
    BY <2>2, Lengths DEF ReportInv, ReportTodo
<1>3. CASE ReadNext
  <2> DEFINE i == reader.incident
  <2>1. SUFFICES ASSUME reader.kind = "report" PROVE ReportInv'
    BY <1>3, StatementRead DEF ReportInv
  <2>2. /\ i \in DOMAIN incidents /\ reader.todo \in ReportTodo /\ reader.todo # <<>>
        /\ reader'.incident = i /\ reader'.todo = Tail(reader.todo)
        /\ incidents' = incidents /\ activity' = activity /\ StatusRows(i)' = StatusRows(i)
    BY <1>3, <2>1, StatementRead DEF ReportInv, storeVars, StatusRows
  <2>3. CASE reader.todo = ReportOrder
    <3>1. "row" \in DOMAIN reader'.got /\ reader'.got["row"] = incidents[i].status
      BY <1>3, <2>3, Statements, StatementRead DEF Read
    <3>2. PICK k \in StatusRows(i) : incidents[i].status = StatusOf(activity[k].action)
      BY <2>2 DEF StatusIsExplained
    <3>3. reader'.todo = <<"events", "activity", "evidence">>
      BY <2>2, <2>3, Statements
    <3>4. reader'.todo \in ReportTodo /\ Len(reader'.todo) = 3
      BY <3>3, Lengths DEF ReportTodo
    <3>5. k \in StatusRows(reader.incident)' /\ reader'.got["row"] = StatusOf(activity'[k].action)
      BY <2>2, <3>1, <3>2
    <3>6. ~(Len(reader'.todo) < 2)
      BY <3>4
    <3> QED
      BY <2>2, <3>1, <3>4, <3>5, <3>6 DEF ReportInv
  <2>4. ASSUME reader.todo # ReportOrder
        PROVE  /\ "row" \in DOMAIN reader'.got
               /\ \E k \in StatusRows(i) : reader'.got["row"] = StatusOf(activity[k].action)
    <3>1. /\ reader.todo \in {<<"events", "activity", "evidence">>,
                              <<"activity", "evidence">>, <<"evidence">>}
      BY <2>2, <2>4 DEF ReportTodo
    <3>2. Len(reader.todo) < 4
      <4>1. Len(reader.todo) = 3 \/ Len(reader.todo) = 2 \/ Len(reader.todo) = 1
        BY <3>1, Lengths
      <4>2. \A n : n = 3 \/ n = 2 \/ n = 1 => n < 4
        OBVIOUS
      <4> QED
        BY <4>1, <4>2, Zenon
    <3>3. Head(reader.todo) \in {"events", "activity", "evidence"}
      BY <3>1, Statements
    <3> QED
      <4>1. "row" \in DOMAIN reader.got
        BY <2>1, <3>2 DEF ReportInv
      <4>2. PICK k \in StatusRows(i) : reader.got["row"] = StatusOf(activity[k].action)
        BY <2>1, <3>2 DEF ReportInv
      <4>3. "row" \in DOMAIN reader'.got /\ reader'.got["row"] = reader.got["row"]
        BY <1>3, <3>3, <4>1, StatementRead
      <4> QED
        BY <4>2, <4>3
  <2>5. CASE reader.todo = <<"events", "activity", "evidence">>
    BY <2>2, <2>4, <2>5, Statements, Lengths DEF ReportInv, ReportTodo
  <2>6. CASE reader.todo = <<"activity", "evidence">>
    <3>1. /\ "activity" \in DOMAIN reader'.got
          /\ reader'.got["activity"] = {activity[k].action : k \in StatusRows(i)}
      BY <1>3, <2>6, Statements, StatementRead DEF Read
    <3>2. \E action \in reader'.got["activity"] : reader'.got["row"] = StatusOf(action)
      BY <2>4, <2>6, <3>1, Lengths
    <3> QED
      BY <2>2, <2>4, <2>6, <3>1, <3>2, Statements, Lengths DEF ReportInv, ReportTodo
  <2>7. CASE reader.todo = <<"evidence">>
    <3>1. /\ "activity" \in DOMAIN reader'.got
          /\ reader'.got["activity"] = reader.got["activity"]
          /\ reader'.got["row"] = reader.got["row"]
          /\ \E action \in reader.got["activity"] : reader.got["row"] = StatusOf(action)
      BY <1>3, <2>1, <2>7, Statements, Lengths, StatementRead DEF ReportInv
    <3> QED
      BY <2>2, <2>4, <2>7, <3>1, Statements, Lengths DEF ReportInv, ReportTodo
  <2> QED
    BY <2>2, <2>3, <2>5, <2>6, <2>7 DEF ReportTodo
<1>4. CASE OtherRequest
  <2> DEFINE i == reader.incident
  <2>1. /\ reader'.kind = reader.kind /\ reader'.incident = i /\ reader'.todo = reader.todo
        /\ reader'.got = reader.got
    BY <1>4 DEF Shaped, OtherRequest
  <2>2. /\ DOMAIN incidents \subseteq DOMAIN incidents'
        /\ \A k \in StatusRows(i) : k \in StatusRows(i)' /\ activity'[k] = activity[k]
    BY <1>4, TimelinesGrow DEF OtherRequest
  <2> QED
    BY <2>1, <2>2 DEF ReportInv
<1>5. CASE UNCHANGED readerVars
  BY <1>5 DEF ReportInv, readerVars, storeVars, StatusRows
<1> QED
  BY <1>1, <1>2, <1>3, <1>4, <1>5 DEF ReaderNext

\* A request of the store, or a write of another one.
LEMMA ReadersUseTheStore == [ReaderNext]_readerVars => [StoreNext]_storeVars
BY DEF ReaderNext, StartWalk, TurnPage, OpenReport, ReadNext, ShowPage, CloseReport,
       OtherRequest, readerVars

\* The tables beside the readers are those of the store's own specification.
LEMMA ReadersInvariant == ReaderSpec => [](TablesInv /\ StatusIsExplained)
<1>1. ReaderInit => StoreInit
  BY DEF ReaderInit
<1>2. ReaderSpec => StoreSpec
  BY <1>1, ReadersUseTheStore, PTL DEF ReaderSpec, StoreSpec
<1> QED
  BY <1>2, TablesInvariant, StatusStaysExplained, PTL

\* What an exported incident shows as its status has its reason in the
\* timeline of the same export (store.py:290-302), whatever other requests
\* write between the four statements.
THEOREM ReportsAreExplained == ReaderSpec => []ReportIsExplained
<1>1. Shaped /\ ReportInv => ReportIsExplained
  BY Lengths DEF ReportInv, ReportIsExplained, Answered
<1> QED
  BY <1>1, ReportInit, ShapedStep, ReportStep, ReadersInvariant, PTL DEF ReaderSpec

-----------------------------------------------------------------------------
(* The walk through the pages.  An event's page follows from the number of  *)
(* matching ids above its own.                                              *)

\* The matching ids above i.
Later(i) == {j \in Ids(Matching) : j > i}

\* Every id of S lies on a page after page p.
Reached(p, S) == \A i \in S : Cardinality(Later(i)) >= p * PerPage

\* What is due and was not shown yet.
Unseen == (walk.due \cap Ids(events)) \ walk.seen

\* Events have an id each: as many events as ids.
LEMMA IdsCount ==
    ASSUME NEW E \in SUBSET Event, \A e, f \in E : e.id = f.id => e = f
    PROVE  /\ IsFiniteSet(E) /\ IsFiniteSet(Ids(E))
           /\ Cardinality(E) = Cardinality(Ids(E)) /\ Cardinality(E) \in Nat
<1>1. MaxEvents \in Nat /\ \A e \in E : e.id \in 1 .. MaxEvents
  BY BoundsAssumption DEF Event
<1>2. Ids(E) \in SUBSET (1 .. MaxEvents)
  BY <1>1 DEF Ids
<1>3. IsFiniteSet(Ids(E))
  <2>1. IsFiniteSet(1 .. MaxEvents)
    BY <1>1, FS_Interval
  <2> QED
    BY <1>2, <2>1, FS_Subset
<1> DEFINE row == [i \in Ids(E) |-> CHOOSE e \in E : e.id = i]
<1>4. \A i \in Ids(E) : row[i] \in E /\ row[i].id = i
  BY DEF Ids
<1>5. row \in [Ids(E) -> E]
  BY <1>4
<1>6. \A i, j \in Ids(E) : row[i] = row[j] => i = j
  BY <1>4
<1>7. \A e \in E : \E i \in Ids(E) : row[i] = e
  <2> TAKE e \in E
  <2>1. e.id \in Ids(E)
    BY DEF Ids
  <2>2. row[e.id] \in E /\ row[e.id].id = e.id
    BY <2>1, <1>4
  <2> HIDE DEF row
  <2> QED
    BY <2>1, <2>2
<1> HIDE DEF row
<1>8. row \in Bijection(Ids(E), E)
  BY <1>5, <1>6, <1>7, Fun_IsBij
<1>9. ExistsBijection(Ids(E), E)
  BY <1>8, Fun_ExistsBij
<1> QED
  BY <1>3, <1>9, FS_Bijection, FS_CardinalityType

\* The page numbers are large enough: an event with fewer matching events in
\* front of it than there are in all is on one of the pages.
LEMMA PagesReachAll ==
    ASSUME NEW total \in Nat, NEW rank \in Nat, rank < total, NEW p \in Nat, p >= Pages(total)
    PROVE  rank < p * PerPage
<1>1. total # 0 /\ Pages(total) = (total + PerPage - 1) \div PerPage
  BY DEF Pages
<1>2. Pages(total) \in Nat /\ total <= Pages(total) * PerPage
  BY <1>1, PageAssumption
<1>3. \A x, y \in Nat : x <= y => x * PerPage <= y * PerPage
  BY PageAssumption
<1>4. Pages(total) * PerPage <= p * PerPage /\ p * PerPage \in Nat
      /\ Pages(total) * PerPage \in Nat
  BY <1>2, <1>3, PageAssumption
<1> HIDE DEF Pages
<1> QED
  BY <1>2, <1>4

\* The rank of a row is the number of matching ids above its id.
LEMMA RankIsLater ==
    ASSUME TablesInv, NEW e \in events
    PROVE  /\ Rank(e, Matching) = Cardinality(Later(e.id))
           /\ Cardinality(Later(e.id)) \in Nat
           /\ e \in Matching => Cardinality(Later(e.id)) < Cardinality(Matching)
<1> DEFINE above == {f \in Matching : f.id > e.id}
<1>1. /\ Matching \in SUBSET Event /\ above \in SUBSET Event
      /\ \A f, g \in Matching : f.id = g.id => f = g
  BY DEF Matching, TablesInv, StoreTypeOK, EventIdsAreUnique
<1>2. Ids(above) = Later(e.id)
  BY DEF Ids, Later
<1>3. /\ IsFiniteSet(above) /\ IsFiniteSet(Matching)
      /\ Cardinality(above) = Cardinality(Ids(above)) /\ Cardinality(above) \in Nat
      /\ Cardinality(Matching) \in Nat
  BY <1>1, IdsCount
<1>4. ASSUME e \in Matching PROVE Cardinality(above) < Cardinality(Matching)
  <2>1. above \in SUBSET Matching
    OBVIOUS
  <2>2. e.id \in Nat
    BY DEF TablesInv, StoreTypeOK, Event
  <2>3. e \notin above
    BY <2>2
  <2> HIDE DEF above
  <2> QED
    BY <1>3, <1>4, <2>1, <2>3, FS_Subset
<1> QED
  BY <1>2, <1>3, <1>4 DEF Rank

\* If page p is read when its predecessors hold nothing of S, then what of S
\* is not on it comes later; if it is the last page, nothing is left.
LEMMA PageShowsItsRows ==
    ASSUME TablesInv, NEW S, NEW p \in Nat \ {0}, Reached(p - 1, S),
           \A i \in S : \E e \in Matching : e.id = i
    PROVE  /\ Reached(p, S \ Ids(Page(Matching, p)))
           /\ p >= Pages(Cardinality(Matching)) => S \ Ids(Page(Matching, p)) = {}
<1> SUFFICES ASSUME NEW i \in S, i \notin Ids(Page(Matching, p))
             PROVE  /\ Cardinality(Later(i)) >= p * PerPage
                    /\ ~(p >= Pages(Cardinality(Matching)))
  BY DEF Reached
<1>1. PICK e \in Matching : e.id = i
  OBVIOUS
<1>2. e \in events /\ Matching \in SUBSET events
  BY DEF Matching
<1> DEFINE rank == Cardinality(Later(i))
           total == Cardinality(Matching)
<1>3. Rank(e, Matching) = rank /\ rank \in Nat /\ rank < total /\ total \in Nat
  <2>1. Matching \in SUBSET Event /\ \A f, g \in Matching : f.id = g.id => f = g
    BY DEF Matching, TablesInv, StoreTypeOK, EventIdsAreUnique
  <2>2. total \in Nat
    BY <2>1, IdsCount
  <2> QED
    BY <1>1, <1>2, <2>2, RankIsLater
<1>4. rank >= (p - 1) * PerPage
  BY DEF Reached
<1>5. rank \notin (p - 1) * PerPage .. p * PerPage - 1
  BY <1>1, <1>3 DEF Page, Ids
<1>6. p * PerPage \in Nat /\ (p - 1) * PerPage \in Nat
  BY PageAssumption
<1> HIDE DEF rank, total
<1>7. rank >= p * PerPage
  BY <1>3, <1>4, <1>5, <1>6
<1>8. ~(p >= Pages(total))
  BY <1>3, <1>6, <1>7, PagesReachAll
<1> QED
  BY <1>7, <1>8 DEF rank, total

\* What is due was there when the walk began: no later event is.
DueInv ==
    /\ walk.due \subseteq 1 .. lastEvent
    /\ \A e \in events : e.id \in walk.due => e \in Matching
    /\ walk.page \in Nat /\ walk.pages \in Nat /\ walk.torn \in BOOLEAN

\* What is still unseen lies behind the pages that were shown.
Progress ==
    /\ reader.kind # "listing" => /\ Reached(walk.page, Unseen)
                                  /\ walk.page = walk.pages => Unseen = {}
    /\ reader.kind = "listing" =>
        /\ Len(reader.todo) > 2 => Reached(walk.page - 1, Unseen)
        /\ Len(reader.todo) = 3 => reader.got["total"] = Cardinality(Matching)
        /\ Len(reader.todo) < 3 =>
              /\ Reached(walk.page, Unseen \ Ids(reader.got["rows"]))
              /\ walk.page >= Pages(reader.got["total"]) =>
                    Unseen \ Ids(reader.got["rows"]) = {}

\* The inductive invariant of the walk.
WalkInv ==
    /\ DueInv
    /\ reader.kind = "listing" =>
        /\ reader.todo \in ListingTodo /\ walk.page > 0
        /\ Len(reader.todo) < 4 => "total" \in DOMAIN reader.got /\ reader.got["total"] \in Nat
        /\ Len(reader.todo) < 3 => "rows" \in DOMAIN reader.got
    /\ ~walk.torn => Progress

\* The analyst's pages delete events and set their status; what an event says
\* stays.
LEMMA PagesKeepBodies ==
    ASSUME TablesInv, AnalystStep
    PROVE  /\ \A e \in events' : \E f \in events : f.id = e.id /\ f.body = e.body
           /\ UNCHANGED <<lastEvent, evidence>>
<1>1. CASE UNCHANGED <<events, lastEvent, evidence>>
  BY <1>1
<1>2. ASSUME NEW ids \in SUBSET (1 .. lastEvent), DeleteEvents(ids)
      PROVE  /\ \A e \in events' : \E f \in events : f.id = e.id /\ f.body = e.body
             /\ UNCHANGED <<lastEvent, evidence>>
  BY <1>2 DEF DeleteEvents
<1>3. ASSUME NEW x \in events, NEW st \in EventStatuses, UpdateEventStatus(x.id, st)
      PROVE  /\ \A e \in events' : \E f \in events : f.id = e.id /\ f.body = e.body
             /\ UNCHANGED <<lastEvent, evidence>>
  <2> DEFINE After(f) == IF f.id = x.id THEN [f EXCEPT !.status = st] ELSE f
  <2>1. events' = {After(f) : f \in events} /\ UNCHANGED <<lastEvent, evidence>>
    BY <1>3 DEF UpdateEventStatus
  <2>2. \A f \in events : After(f).id = f.id /\ After(f).body = f.body
    BY DEF TablesInv, StoreTypeOK, Event
  <2> HIDE DEF After
  <2> QED
    BY <2>1, <2>2
<1> QED
  BY <1>1, <1>2, <1>3 DEF AnalystStep, EventPages, IncidentPages, DetectionPages, AddActivity,
                          UpdateIncidentStatus, SetRuleEnabled

\* What another request leaves of the events: all but new ones were there.
LEMMA EventsComeNew ==
    ASSUME TablesInv, [StoreNext]_storeVars
    PROVE  \/ /\ lastEvent' = lastEvent
              /\ \A e \in events' : \E f \in events : f.id = e.id /\ f.body = e.body
           \/ /\ lastEvent' = lastEvent + 1
              /\ \E b : events' = events \cup
                            {[id |-> lastEvent + 1, body |-> b, status |-> "open"]}
<1>1. CASE UNCHANGED <<events, lastEvent>>
  BY <1>1
<1>2. CASE AnalystStep
  BY <1>2, PagesKeepBodies
<1>3. ASSUME NEW b \in Bodies, AddEvent(b)
      PROVE  /\ lastEvent' = lastEvent + 1
             /\ events' = events \cup {[id |-> lastEvent + 1, body |-> b, status |-> "open"]}
  BY <1>3 DEF AddEvent, NextEventId
<1> QED
  BY <1>1, <1>2, <1>3 DEF StoreNext, Initialize, CreateIncident, AddEvidence, storeVars

\* Without a deletion no event is moved to an earlier page, and what is due
\* stays due; without an insertion the pages stay as they are.
LEMMA OthersKeepTheWalk ==
    ASSUME TablesInv, TablesInv', [StoreNext]_storeVars, DueInv,
           walk'.filter = walk.filter, walk'.due = walk.due, walk'.seen = walk.seen
    PROVE  /\ walk'.due \subseteq 1 .. lastEvent'
           /\ \A e \in events' : e.id \in walk'.due => e \in Matching'
           /\ ~Deletes => /\ Unseen' = Unseen
                          /\ \A i : Cardinality(Later(i)) <= Cardinality(Later(i)')
           /\ ~Deletes /\ ~Inserts => Cardinality(Matching') = Cardinality(Matching)
<1>1. /\ \A e \in events : e.id \in 1 .. lastEvent
      /\ \A e, f \in events : e.id = f.id => e = f
      /\ lastEvent \in Nat
  BY BoundsAssumption DEF TablesInv, StoreTypeOK, EventIdsAreUnique, Event
<1>2. ASSUME NEW f \in events', f.id \in 1 .. lastEvent
      PROVE  \E e \in events : e.id = f.id /\ e.body = f.body
  <2>1. CASE \A g \in events' : \E e \in events : e.id = g.id /\ e.body = g.body
    BY <2>1
  <2>2. ASSUME NEW b, events' = events \cup
                         {[id |-> lastEvent + 1, body |-> b, status |-> "open"]}
        PROVE  f \in events
    BY <1>1, <1>2, <2>2
  <2> QED
    BY <2>1, <2>2, EventsComeNew
<1>3. lastEvent' \in {lastEvent, lastEvent + 1}
  BY EventsComeNew
<1>4. walk'.due \subseteq 1 .. lastEvent'
  BY <1>1, <1>3 DEF DueInv
<1>5. \A e, f : e.body = f.body /\ f \in events' /\ e \in Matching => f \in Matching'
  BY DEF Matching
<1>6. ASSUME NEW f \in events', f.id \in walk'.due PROVE f \in Matching'
  <2>1. PICK e \in events : e.id = f.id /\ e.body = f.body
    BY <1>2, <1>6 DEF DueInv
  <2>2. e \in Matching
    BY <1>6, <2>1 DEF DueInv
  <2> QED
    BY <1>5, <2>1, <2>2
<1>7. ASSUME ~Deletes, NEW e \in events
      PROVE  \E f \in events' : f.id = e.id /\ f.body = e.body
  <2>1. PICK f \in events' : f.id = e.id
    BY <1>7 DEF Deletes, Ids
  <2>2. PICK g \in events : g.id = f.id /\ g.body = f.body
    BY <1>1, <1>2, <2>1
  <2> QED
    BY <1>1, <2>1, <2>2
<1>8. ASSUME ~Deletes PROVE Unseen' = Unseen
  <2>1. ASSUME NEW i \in walk.due PROVE i \in Ids(events') <=> i \in Ids(events)
    <3>1. i \in 1 .. lastEvent
      BY DEF DueInv
    <3>2. i \in Ids(events') => i \in Ids(events)
      BY <1>2, <3>1 DEF Ids
    <3>3. i \in Ids(events) => i \in Ids(events')
      BY <1>8 DEF Deletes
    <3> QED
      BY <3>2, <3>3
  <2> QED
    BY <2>1 DEF Unseen
<1>9. ASSUME ~Deletes PROVE Ids(Matching) \subseteq Ids(Matching')
  <2> SUFFICES ASSUME NEW e \in Matching PROVE e.id \in Ids(Matching')
    BY DEF Ids
  <2>1. PICK f \in events' : f.id = e.id /\ f.body = e.body
    BY <1>7, <1>9 DEF Matching
  <2> QED
    BY <1>5, <2>1 DEF Ids
<1>10. ASSUME ~Deletes, NEW i PROVE Cardinality(Later(i)) <= Cardinality(Later(i)')
  <2>1. Matching' \in SUBSET Event /\ \A f, g \in Matching' : f.id = g.id => f = g
    BY DEF Matching, TablesInv, StoreTypeOK, EventIdsAreUnique
  <2>2. IsFiniteSet(Ids(Matching'))
    BY <2>1, IdsCount
  <2>3. Later(i)' \in SUBSET Ids(Matching') /\ Later(i) \in SUBSET Later(i)'
    BY <1>9, <1>10 DEF Later
  <2> QED
    BY <2>2, <2>3, FS_Subset
<1>11. ASSUME ~Deletes, ~Inserts PROVE Cardinality(Matching') = Cardinality(Matching)
  <2>1. Ids(Matching') \subseteq Ids(Matching)
    <3> SUFFICES ASSUME NEW f \in Matching' PROVE f.id \in Ids(Matching)
      BY DEF Ids
    <3>1. f \in events' /\ f.id \in Ids(events)
      BY <1>11 DEF Matching, Inserts, Ids
    <3>2. f.id \in 1 .. lastEvent
      BY <1>1, <3>1 DEF Ids
    <3>3. PICK e \in events : e.id = f.id /\ e.body = f.body
      BY <1>2, <3>1, <3>2
    <3> QED
      BY <3>3 DEF Matching, Ids
  <2>2. Ids(Matching') = Ids(Matching)
    BY <1>9, <1>11, <2>1
  <2>3. /\ Matching \in SUBSET Event /\ \A f, g \in Matching : f.id = g.id => f = g
        /\ Matching' \in SUBSET Event /\ \A f, g \in Matching' : f.id = g.id => f = g
    BY DEF Matching, TablesInv, StoreTypeOK, EventIdsAreUnique
  <2>4. Cardinality(Matching) = Cardinality(Ids(Matching))
    BY <2>3, IdsCount
  <2>5. Cardinality(Matching') = Cardinality(Ids(Matching'))
    BY <2>3, IdsCount
  <2> QED
    BY <2>2, <2>4, <2>5
<1> QED
  BY <1>4, <1>6, <1>8, <1>10, <1>11

\* The number of pages is a number.
LEMMA PagesType == \A total \in Nat : Pages(total) \in Nat
BY PageAssumption DEF Pages

\* An id that is due and not deleted is the id of a matching event.
LEMMA UnseenMatches ==
    ASSUME DueInv, NEW i \in Unseen
    PROVE  \E e \in Matching : e.id = i
<1>1. PICK e \in events : e.id = i
  BY DEF Unseen, Ids
<1>2. e \in Matching
  BY <1>1 DEF Unseen, DueInv
<1> QED
  BY <1>1, <1>2

\* Nothing is due before the first walk.
LEMMA WalkInit == ReaderInit => WalkInv
BY DEF ReaderInit, StoreInit, WalkInv, DueInv, Progress, Unseen, Reached, Ids, NoRequest, Request

\* A walk begins on its first page, in front of which there is nothing.
LEMMA WalkStarts == TablesInv /\ WalkInv /\ StartWalk => WalkInv'
<1> SUFFICES ASSUME TablesInv, WalkInv, StartWalk PROVE WalkInv'
  OBVIOUS
<1>1. PICK filter \in Bodies \cup {"all"} :
         walk' = [page |-> 1, pages |-> 1, filter |-> filter, seen |-> {}, torn |-> FALSE,
                  due |-> {e.id : e \in {f \in events : filter \in {"all", f.body}}}]
  BY DEF StartWalk
<1>2. /\ walk'.page = 1 /\ walk'.pages = 1 /\ walk'.filter = filter /\ walk'.torn = FALSE
      /\ walk'.due = Ids({f \in events : filter \in {"all", f.body}})
      /\ Matching' = {f \in events : filter \in {"all", f.body}}
      /\ UNCHANGED <<events, lastEvent>>
  BY <1>1 DEF StartWalk, Matching, Ids, storeVars
<1>3. reader'.kind = "listing" /\ reader'.todo = ListingOrder /\ Len(reader'.todo) = 4
  BY Lengths DEF StartWalk, Request
<1>4. DueInv'
  <2>1. \A e \in events : e.id \in 1 .. lastEvent /\ \A f \in events : e.id = f.id => e = f
    BY BoundsAssumption DEF TablesInv, StoreTypeOK, EventIdsAreUnique, Event
  <2>2. walk'.due \subseteq 1 .. lastEvent'
    BY <1>2, <2>1 DEF Ids
  <2>3. \A e \in events' : e.id \in walk'.due => e \in Matching'
    BY <1>2, <2>1 DEF Ids
  <2> QED
    <3>1. walk'.torn \in BOOLEAN
      BY <1>2, Zenon
    <3> QED
      BY <1>2, <2>2, <2>3, <3>1 DEF DueInv
<1>5. Reached(walk.page - 1, Unseen)'
  <2> SUFFICES ASSUME NEW i \in Unseen'
               PROVE  Cardinality(Later(i)') >= (walk'.page - 1) * PerPage
    BY DEF Reached
  <2>1. PICK e \in events : e.id = i
    BY <1>2 DEF Unseen, Ids
  <2>2. TablesInv'
    BY TablesStep DEF StartWalk
  <2>3. Matching' \in SUBSET Event /\ \A f, g \in Matching' : f.id = g.id => f = g
    BY <2>2 DEF Matching, TablesInv, StoreTypeOK, EventIdsAreUnique
  <2>4. IsFiniteSet(Ids(Matching'))
    BY <2>3, IdsCount
  <2>5. Later(i)' \in SUBSET Ids(Matching')
    BY DEF Later
  <2>6. Cardinality(Later(i)') \in Nat
    BY <2>4, <2>5, FS_Subset, FS_CardinalityType
  <2>7. (walk'.page - 1) * PerPage = 0
    BY <1>2, PageAssumption
  <2> QED
    BY <2>6, <2>7
<1> QED
  BY <1>2, <1>3, <1>4, <1>5 DEF WalkInv, Progress, ListingTodo

\* A page is asked for again, or the next one: what was behind a page is
\* behind its predecessor.
LEMMA WalkTurns == TablesInv /\ Shaped /\ WalkInv /\ TurnPage => WalkInv'
<1> SUFFICES ASSUME TablesInv, Shaped, WalkInv, TurnPage PROVE WalkInv'
  OBVIOUS
<1>1. PICK page \in {walk.page, walk.page + 1} \cap 1 .. walk.pages :
         walk' = [walk EXCEPT !.page = page]
  BY DEF TurnPage
<1>2. /\ walk'.page = page /\ walk'.pages = walk.pages /\ walk'.filter = walk.filter
      /\ walk'.seen = walk.seen /\ walk'.torn = walk.torn /\ walk'.due = walk.due
      /\ UNCHANGED <<events, lastEvent>>
  BY <1>1 DEF Shaped, TurnPage, storeVars
<1>3. reader.kind # "listing" /\ reader'.kind = "listing" /\ reader'.todo = ListingOrder
  BY DEF TurnPage, NoRequest, Request
<1>4. Matching' = Matching /\ Unseen' = Unseen /\ \A i : Later(i)' = Later(i)
  BY <1>2 DEF Matching, Unseen, Later
<1>5. page \in Nat /\ page > 0 /\ page - 1 <= walk.page /\ walk.page \in Nat
  BY <1>1 DEF WalkInv, DueInv
<1>6. DueInv'
  BY <1>2, <1>4, <1>5 DEF WalkInv, DueInv
<1>7. ASSUME ~walk.torn PROVE Reached(walk.page - 1, Unseen)'
  <2> SUFFICES ASSUME NEW i \in Unseen PROVE Cardinality(Later(i)) >= (page - 1) * PerPage
    BY <1>2, <1>4 DEF Reached
  <2>1. Cardinality(Later(i)) >= walk.page * PerPage
    BY <1>3, <1>7 DEF WalkInv, Progress, Reached
  <2>2. Cardinality(Later(i)) \in Nat
    BY UnseenMatches, RankIsLater DEF WalkInv, Matching
  <2>3. \A x, y \in Nat : x - 1 <= y => (x - 1) * PerPage <= y * PerPage
    BY PageAssumption
  <2>4. (page - 1) * PerPage \in Int /\ walk.page * PerPage \in Int
    BY <1>5, PageAssumption
  <2> QED
    BY <1>5, <2>1, <2>2, <2>3, <2>4
<1> QED
  BY <1>2, <1>3, <1>5, <1>6, <1>7, Lengths DEF WalkInv, Progress, ListingTodo

\* Where events and walk stay, so does all that is said of the pages.
LEMMA PagesStay ==
    ASSUME DueInv, UNCHANGED <<events, lastEvent, walk>>
    PROVE  /\ DueInv' /\ Matching' = Matching /\ Unseen' = Unseen
           /\ \A p, S : Reached(p, S) => Reached(p, S)'
<1>1. Matching' = Matching /\ Unseen' = Unseen /\ \A i : Later(i)' = Later(i)
  BY DEF Matching, Unseen, Later
<1> QED
  BY <1>1 DEF DueInv, Reached

\* The last requests of a listing in numbers.
LEMMA LastStatements ==
    \A todo \in {<<"counted", "open">>, <<"open">>, <<>>} :
        Len(todo) < 3 /\ Len(todo) < 4 /\ ~(Len(todo) > 2) /\ Len(todo) # 3
<1>1. \A n : n = 2 \/ n = 1 \/ n = 0 => n < 3 /\ n < 4 /\ ~(n > 2) /\ n # 3
  OBVIOUS
<1>2. \A todo \in {<<"counted", "open">>, <<"open">>, <<>>} :
         Len(todo) = 2 \/ Len(todo) = 1 \/ Len(todo) = 0
  BY Lengths
<1> QED
  BY <1>1, <1>2, Zenon

\* Total and rows are read in this order; the rows shown are the page's.
LEMMA WalkReads == TablesInv /\ Shaped /\ WalkInv /\ ReadNext => WalkInv'
<1> SUFFICES ASSUME TablesInv, Shaped, WalkInv, ReadNext PROVE WalkInv'
  OBVIOUS
<1> DEFINE todo == reader.todo
           total == reader.got["total"]
           rows == reader.got["rows"]
<1>1. /\ todo # <<>> /\ reader'.todo = Tail(todo) /\ reader'.kind = reader.kind
      /\ reader'.got[Head(todo)] = Read(Head(todo))
      /\ DOMAIN reader'.got = DOMAIN reader.got \cup {Head(todo)}
      /\ \A p \in DOMAIN reader.got : p # Head(todo) => reader'.got[p] = reader.got[p]
      /\ UNCHANGED <<events, lastEvent, walk>>
  BY StatementRead DEF storeVars
<1>2. /\ DueInv' /\ Matching' = Matching /\ Unseen' = Unseen
      /\ \A p, S : Reached(p, S) => Reached(p, S)'
  BY <1>1, PagesStay DEF WalkInv
<1>3. CASE reader.kind # "listing"
  BY <1>1, <1>2, <1>3 DEF WalkInv, Progress
<1>4. CASE reader.kind = "listing" /\ todo = ListingOrder
  <2>1. /\ reader'.todo = <<"rows", "counted", "open">> /\ Len(reader'.todo) = 3
        /\ Len(reader.todo) = 4
    BY <1>1, <1>4, Statements, Lengths
  <2>2. "total" \in DOMAIN reader'.got /\ reader'.got["total"] = Cardinality(Matching)
    BY <1>1, <1>4, Statements DEF Read
  <2>3. Cardinality(Matching) \in Nat
    <3>1. Matching \in SUBSET Event /\ \A f, g \in Matching : f.id = g.id => f = g
      BY DEF Matching, TablesInv, StoreTypeOK, EventIdsAreUnique
    <3> QED
      BY <3>1, IdsCount
  <2>4. ASSUME ~walk.torn PROVE Reached(walk.page - 1, Unseen)'
    <3>1. Reached(walk.page - 1, Unseen)
      BY <1>4, <2>1, <2>4 DEF WalkInv, Progress
    <3> QED
      BY <1>1, <1>2, <3>1
  <2>5. ASSUME ~walk'.torn PROVE Progress'
    <3>1. Reached(walk.page - 1, Unseen)'
      BY <1>1, <2>4, <2>5
    <3>2. ~(Len(reader'.todo) < 3)
      BY <2>1
    <3> QED
      BY <1>1, <1>2, <1>4, <2>2, <3>1, <3>2 DEF Progress
  <2>6. ~(Len(reader'.todo) < 3)
    BY <2>1
  <2>7. walk'.page > 0
    BY <1>1, <1>4 DEF WalkInv
  <2> QED
    BY <1>1, <1>2, <1>4, <2>1, <2>2, <2>3, <2>5, <2>6, <2>7 DEF WalkInv, ListingTodo
<1>5. CASE reader.kind = "listing" /\ todo = <<"rows", "counted", "open">>
  <2>1. /\ reader'.todo = <<"counted", "open">> /\ Len(reader'.todo) = 2
        /\ Len(reader.todo) = 3 /\ Head(todo) = "rows"
    BY <1>1, <1>5, Statements, Lengths
  <2>2. "rows" \in DOMAIN reader'.got /\ reader'.got["rows"] = Page(Matching, walk.page)
    BY <1>1, <2>1 DEF Read
  <2>3. "total" \in DOMAIN reader.got /\ total \in Nat
    BY <1>5, <2>1 DEF WalkInv
  <2>4. "total" \in DOMAIN reader'.got /\ reader'.got["total"] = total
    BY <1>1, <2>1, <2>3
  <2>5. ASSUME ~walk.torn
        PROVE  LET left == Unseen \ Ids(Page(Matching, walk.page))
               IN  /\ Reached(walk.page, left)'
                   /\ walk.page >= Pages(total) => left = {}
    <3>1. Reached(walk.page - 1, Unseen) /\ total = Cardinality(Matching)
      BY <1>5, <2>1, <2>5 DEF WalkInv, Progress
    <3>2. walk.page \in Nat \ {0}
      BY <1>5 DEF WalkInv, DueInv
    <3>3. \A i \in Unseen : \E e \in Matching : e.id = i
      BY UnseenMatches DEF WalkInv
    <3>4. /\ Reached(walk.page, Unseen \ Ids(Page(Matching, walk.page)))
          /\ walk.page >= Pages(total) => Unseen \ Ids(Page(Matching, walk.page)) = {}
      BY <3>1, <3>2, <3>3, PageShowsItsRows
    <3>5. Reached(walk.page, Unseen \ Ids(Page(Matching, walk.page)))'
      BY <1>1, <1>2, <3>4 DEF Page, Rank
    <3> QED
      BY <3>4, <3>5
  <2>6. ASSUME ~walk'.torn PROVE Progress'
    <3>1. /\ Reached(walk.page, Unseen \ Ids(Page(Matching, walk.page)))'
          /\ walk.page >= Pages(total) => Unseen \ Ids(Page(Matching, walk.page)) = {}
      BY <1>1, <2>5, <2>6
    <3>2. Reached(walk.page, Unseen \ Ids(reader.got["rows"]))'
      BY <1>1, <1>2, <2>2, <3>1 DEF Page, Rank
    <3> QED
      BY <1>1, <1>2, <1>5, <2>1, <2>2, <2>4, <3>1, <3>2 DEF Progress
  <2> QED
    BY <1>1, <1>2, <1>5, <2>1, <2>2, <2>3, <2>4, <2>6 DEF WalkInv, ListingTodo
<1>6. CASE reader.kind = "listing" /\ todo \in {<<"counted", "open">>, <<"open">>}
  <2>1. /\ reader'.todo \in {<<"open">>, <<>>} /\ Head(todo) \in {"counted", "open"}
    BY <1>1, <1>6, Statements
  <2>2. Len(reader.todo) < 3 /\ Len(reader.todo) < 4
    BY <1>6, LastStatements
  <2>3. Len(reader'.todo) < 3 /\ ~(Len(reader'.todo) > 2) /\ Len(reader'.todo) # 3
    BY <2>1, LastStatements
  <2>4. "total" \in DOMAIN reader.got /\ total \in Nat /\ "rows" \in DOMAIN reader.got
    BY <1>6, <2>2 DEF WalkInv
  <2>5. /\ "total" \in DOMAIN reader'.got /\ reader'.got["total"] = total
        /\ "rows" \in DOMAIN reader'.got /\ reader'.got["rows"] = rows
    BY <1>1, <2>1, <2>4
  <2>6. ASSUME ~walk'.torn PROVE Progress'
    <3>1. /\ Reached(walk.page, Unseen \ Ids(rows))
          /\ walk.page >= Pages(total) => Unseen \ Ids(rows) = {}
      BY <1>1, <1>6, <2>2, <2>6 DEF WalkInv, Progress
    <3>2. Reached(walk.page, Unseen \ Ids(reader.got["rows"]))'
      BY <1>1, <1>2, <2>5, <3>1
    <3> QED
      BY <1>1, <1>2, <1>6, <2>3, <2>5, <3>1, <3>2 DEF Progress
  <2> QED
    BY <1>1, <1>2, <1>6, <2>1, <2>4, <2>5, <2>6 DEF WalkInv, ListingTodo
<1> QED
  BY <1>1, <1>3, <1>4, <1>5, <1>6 DEF WalkInv, ListingTodo

\* The answer is shown: its rows are seen, and a page behind the last one is
\* taken for the last one.
LEMMA WalkShows == Shaped /\ WalkInv /\ ShowPage => WalkInv'
<1> SUFFICES ASSUME Shaped, WalkInv, ShowPage PROVE WalkInv'
  OBVIOUS
<1> DEFINE pages == Pages(reader.got["total"])
           rows == reader.got["rows"]
<1>1. /\ reader.kind = "listing" /\ reader.todo = <<>> /\ reader'.kind # "listing"
      /\ UNCHANGED <<events, lastEvent>>
  BY DEF ShowPage, Answered, NoRequest, Request, storeVars
<1>2. /\ walk'.page = IF walk.page > pages THEN pages ELSE walk.page
      /\ walk'.pages = pages /\ walk'.filter = walk.filter /\ walk'.torn = walk.torn
      /\ walk'.seen = walk.seen \cup Ids(rows) /\ walk'.due = walk.due
  BY DEF Shaped, ShowPage
<1>3. Len(reader.todo) < 3 /\ Len(reader.todo) < 4
  BY <1>1, LastStatements
<1>4. pages \in Nat
  BY <1>1, <1>3, PagesType DEF WalkInv
<1>5. Matching' = Matching /\ \A i : Later(i)' = Later(i)
  BY <1>1, <1>2 DEF Matching, Later
<1>6. Unseen' = Unseen \ Ids(rows)
  BY <1>1, <1>2 DEF Unseen
<1>7. DueInv'
  BY <1>1, <1>2, <1>4, <1>5 DEF WalkInv, DueInv
<1>8. ASSUME ~walk'.torn
      PROVE  Reached(walk.page, Unseen)' /\ (walk'.page = walk'.pages => Unseen' = {})
  <2>1. /\ Reached(walk.page, Unseen \ Ids(rows))
        /\ walk.page >= pages => Unseen \ Ids(rows) = {}
    BY <1>1, <1>2, <1>3, <1>8 DEF WalkInv, Progress
  <2>2. walk.page \in Nat
    BY DEF WalkInv, DueInv
  <2> HIDE DEF pages
  <2>3. CASE walk.page >= pages
    BY <1>6, <2>1, <2>3 DEF Reached
  <2>4. CASE ~(walk.page >= pages)
    <3>1. walk'.page = walk.page /\ walk'.page # walk'.pages
      BY <1>2, <1>4, <2>2, <2>4
    <3> QED
      BY <1>5, <1>6, <2>1, <3>1 DEF Reached
  <2> QED
    BY <2>3, <2>4
<1> QED
  BY <1>1, <1>7, <1>8 DEF WalkInv, Progress

\* Opening and closing an incident, and the statements in between, leave the
\* walk alone.
LEMMA WalkWaits ==
    WalkInv /\ (OpenReport \/ CloseReport \/ UNCHANGED readerVars) => WalkInv'
<1> SUFFICES ASSUME WalkInv, OpenReport \/ CloseReport \/ UNCHANGED readerVars PROVE WalkInv'
  OBVIOUS
<1>1. UNCHANGED <<events, lastEvent, walk>>
  BY DEF OpenReport, CloseReport, readerVars, storeVars
<1>2. /\ DueInv' /\ Matching' = Matching /\ Unseen' = Unseen
      /\ \A p, S : Reached(p, S) => Reached(p, S)'
  BY <1>1, PagesStay DEF WalkInv
<1>3. CASE UNCHANGED reader
  BY <1>1, <1>2, <1>3 DEF WalkInv, Progress
<1>4. CASE OpenReport \/ CloseReport
  <2>1. reader.kind # "listing" /\ reader'.kind # "listing"
    BY <1>4 DEF OpenReport, CloseReport, NoRequest, Request
  <2> QED
    BY <1>1, <1>2, <2>1 DEF WalkInv, Progress
<1> QED
  BY <1>3, <1>4 DEF readerVars

\* A write of another request moves what is unseen to later pages, unless it
\* deletes an event or comes between a page's COUNT and its SELECT.
LEMMA WalkStands == TablesInv /\ Shaped /\ WalkInv /\ OtherRequest => WalkInv'
<1> SUFFICES ASSUME TablesInv, Shaped, WalkInv, OtherRequest PROVE WalkInv'
  OBVIOUS
<1>1. /\ reader'.kind = reader.kind /\ reader'.todo = reader.todo /\ reader'.got = reader.got
      /\ walk'.page = walk.page /\ walk'.pages = walk.pages /\ walk'.filter = walk.filter
      /\ walk'.seen = walk.seen /\ walk'.due = walk.due
  BY DEF Shaped, OtherRequest
<1>2. walk'.torn = (walk.torn \/ Deletes \/ (Inserts /\ BetweenCountAndRows))
  BY DEF Shaped, OtherRequest
<1>3. TablesInv'
  BY TablesStep DEF OtherRequest
<1>4. /\ walk'.due \subseteq 1 .. lastEvent'
      /\ \A e \in events' : e.id \in walk'.due => e \in Matching'
      /\ ~Deletes => /\ Unseen' = Unseen
                     /\ \A i : Cardinality(Later(i)) <= Cardinality(Later(i)')
      /\ ~Deletes /\ ~Inserts => Cardinality(Matching') = Cardinality(Matching)
  BY <1>1, <1>3, OthersKeepTheWalk DEF OtherRequest, WalkInv
<1>5. DueInv'
  <2>1. walk'.torn \in BOOLEAN
    BY <1>2, Zenon
  <2> QED
    BY <1>1, <1>4, <2>1 DEF WalkInv, DueInv
<1>6. ASSUME ~walk'.torn PROVE ~walk.torn /\ ~Deletes /\ ~(Inserts /\ BetweenCountAndRows)
  BY <1>2, <1>6, Zenon
<1>7. ASSUME ~Deletes, NEW p \in Int, NEW S \in SUBSET Unseen, Reached(p, S)
      PROVE  \A i \in S : Cardinality(Later(i)') >= p * PerPage
  <2> TAKE i \in S
  <2>1. Cardinality(Later(i)) >= p * PerPage /\ Cardinality(Later(i)) <= Cardinality(Later(i)')
    BY <1>4, <1>7 DEF Reached
  <2>2. Cardinality(Later(i)) \in Nat
    BY UnseenMatches, RankIsLater DEF WalkInv, Matching
  <2>3. Cardinality(Later(i)') \in Nat
    <3>1. Matching' \in SUBSET Event /\ \A f, g \in Matching' : f.id = g.id => f = g
      BY <1>3 DEF Matching, TablesInv, StoreTypeOK, EventIdsAreUnique
    <3>2. IsFiniteSet(Ids(Matching')) /\ Later(i)' \in SUBSET Ids(Matching')
      BY <3>1, IdsCount DEF Later
    <3> QED
      BY <3>2, FS_Subset, FS_CardinalityType
  <2>4. p * PerPage \in Int
    BY PageAssumption
  <2> QED
    BY <2>1, <2>2, <2>3, <2>4
<1>8. ASSUME ~walk'.torn PROVE Progress'
  <2>1. Progress /\ ~Deletes /\ Unseen' = Unseen /\ walk.page \in Int
    BY <1>4, <1>6, <1>8 DEF WalkInv, DueInv
  <2>2. CASE reader.kind # "listing"
    <3>1. Reached(walk.page, Unseen)
      BY <2>1, <2>2 DEF Progress
    <3>2. Reached(walk.page, Unseen)'
      BY <1>1, <1>7, <2>1, <3>1 DEF Reached
    <3> QED
      BY <1>1, <2>1, <2>2, <3>2 DEF Progress
  <2>3. CASE reader.kind = "listing"
    <3> DEFINE left == Unseen \ Ids(reader.got["rows"])
    <3>1. ASSUME Len(reader.todo) > 2 PROVE Reached(walk.page - 1, Unseen)'
      <4>1. Reached(walk.page - 1, Unseen) /\ walk.page - 1 \in Int
        BY <2>1, <2>3, <3>1 DEF Progress
      <4> QED
        BY <1>1, <1>7, <2>1, <4>1 DEF Reached
    <3>2. ASSUME Len(reader.todo) = 3
          PROVE  reader'.got["total"] = Cardinality(Matching')
      <4>1. reader.todo = <<"rows", "counted", "open">>
        <5>1. reader.todo \in ListingTodo
          BY <2>3 DEF WalkInv
        <5>2. 3 # 4 /\ 3 # 2 /\ 3 # 1 /\ 3 # 0
          OBVIOUS
        <5> QED
          BY <3>2, <5>1, <5>2, Lengths, Zenon DEF ListingTodo
      <4>2. BetweenCountAndRows
        BY <2>3, <4>1, Statements DEF BetweenCountAndRows
      <4>3. Cardinality(Matching') = Cardinality(Matching)
        BY <1>4, <1>6, <1>8, <4>2
      <4> QED
        BY <1>1, <2>1, <2>3, <3>2, <4>3 DEF Progress
    <3>3. ASSUME Len(reader.todo) < 3
          PROVE  /\ Reached(walk.page, left)'
                 /\ walk.page >= Pages(reader.got["total"]) => left = {}
      <4>1. /\ Reached(walk.page, left)
            /\ walk.page >= Pages(reader.got["total"]) => left = {}
        BY <2>1, <2>3, <3>3 DEF Progress
      <4>2. left' = left /\ left \in SUBSET Unseen
        BY <1>1, <2>1 DEF Ids
      <4> HIDE DEF left
      <4>3. \A i \in left : Cardinality(Later(i)') >= walk.page * PerPage
        BY <1>7, <2>1, <4>1, <4>2
      <4> QED
        BY <1>1, <4>1, <4>2, <4>3 DEF Reached
    <3> QED
      BY <1>1, <2>1, <2>3, <3>1, <3>2, <3>3 DEF Progress, Ids
  <2> QED
    BY <2>2, <2>3
<1> QED
  BY <1>1, <1>5, <1>8 DEF WalkInv

\* Whoever turns the pages up to the last one has seen every event that was
\* due and is there still (store.py:141-168), unless an event was deleted or
\* one was inserted between the COUNT and the SELECT of a page.
THEOREM WalksMissNothing == ReaderSpec => []WalkMissesNothing
<1>1. TablesInv /\ Shaped /\ WalkInv /\ [ReaderNext]_readerVars => WalkInv'
  BY WalkStarts, WalkTurns, WalkReads, WalkShows, WalkWaits, WalkStands DEF ReaderNext
<1>2. WalkInv => WalkMissesNothing
  <2> SUFFICES ASSUME WalkInv, reader.kind # "listing", ~walk.torn, walk.page = walk.pages
               PROVE  walk.due \cap Ids(events) \subseteq walk.seen
    BY DEF WalkMissesNothing
  <2>1. Unseen = {}
    BY DEF WalkInv, Progress
  <2> QED
    BY <2>1 DEF Unseen
<1> QED
  BY <1>1, <1>2, ReportInit, ShapedStep, WalkInit, ReadersInvariant, PTL DEF ReaderSpec

-----------------------------------------------------------------------------
(* The handlers of Investigation: threads interleave with each other, with  *)
(* the analyst's pages, with failing calls and with restarts.               *)

-----------------------------------------------------------------------------
(* What a step does to the locals of one handler.                           *)

WorkRecords == [rule : AllRules, ids : Seq(Nat), found : Seq(Bodies), asked : Nat,
                lines : Seq(LineKinds), incident : Nat, origin : 0 .. MaxRequests,
                sawEnabled : BOOLEAN, disturbed : BOOLEAN]

Steps == {"idle", "adding", "fetching", "matching", "checking", "opening",
          "recording", "importing"}

Answers == {"none", "match", "no match", "imported", "exception"}

\* The types of the handlers' variables, more closely than the run states
\* them.
Typed ==
    /\ work \in [Threads -> WorkRecords]
    /\ pc \in [Threads -> Steps]
    /\ opener \in Seq(WorkRecords) /\ Len(opener) = Len(incidents)
    /\ answer \in [Threads -> Answers]
    /\ requests \in 0 .. MaxRequests /\ faults \in 0 .. MaxFaults

\* The other threads are where they were.
Frame(t) == \A u \in Threads \ {t} : work'[u] = work[u] /\ pc'[u] = pc[u]

\* Thread t still works for the same request, and nothing was seen of it.
Kept(t) == /\ work'[t].rule = work[t].rule
           /\ work'[t].origin = work[t].origin
           /\ work'[t].sawEnabled = work[t].sawEnabled
           /\ work'[t].disturbed = work[t].disturbed

SameIncident(t) == work'[t].incident = work[t].incident

KeptFinds(t) == work'[t].found = work[t].found /\ work'[t].asked = work[t].asked

Started(t) ==
    /\ pc[t] = "idle"
    /\ \/ pc'[t] = "adding" /\ work'[t].rule \in AttackTypes
       \/ pc'[t] = "importing" /\ work'[t].rule = Suricata
    /\ work'[t].ids = <<>> /\ work'[t].found = <<>> /\ work'[t].asked = 0
    /\ work'[t].incident = 0 /\ work'[t].origin = requests + 1
    /\ work'[t].sawEnabled = enabled[work'[t].rule]
    /\ work'[t].disturbed = ~ enabled[work'[t].rule]
    /\ requests' = requests + 1
    /\ Frame(t) /\ UNCHANGED <<storeVars, opener, faults>>

Added(t) ==
    /\ pc[t] = "adding"
    /\ AddEvent(Pattern(work[t].rule, Len(work[t].ids) + 1, work[t].origin))
    /\ work'[t].ids = Append(work[t].ids, lastEvent + 1)
    /\ \/ Len(work[t].ids) + 1 = Minimum /\ pc'[t] = "fetching"
       \/ Len(work[t].ids) + 1 # Minimum /\ pc'[t] = "adding"
    /\ Frame(t) /\ Kept(t) /\ KeptFinds(t) /\ SameIncident(t)
    /\ UNCHANGED <<opener, requests, faults>>

\* The next event of the pattern was looked up: it is gone, or it is e.
Fetched(t) ==
    /\ pc[t] = "fetching"
    /\ work'[t].ids = work[t].ids /\ work'[t].asked = work[t].asked + 1
    /\ \/ /\ \A e \in events : e.id # work[t].ids[work[t].asked + 1]
          /\ work'[t].found = work[t].found
       \/ \E e \in events : /\ e.id = work[t].ids[work[t].asked + 1]
                            /\ work'[t].found = Append(work[t].found, e.body)
    /\ \/ work[t].asked + 1 = Len(work[t].ids) /\ pc'[t] = "matching"
       \/ work[t].asked + 1 # Len(work[t].ids) /\ pc'[t] = "fetching"
    /\ Frame(t) /\ Kept(t) /\ SameIncident(t) /\ UNCHANGED <<storeVars, opener, requests, faults>>

\* The pattern matched, or the rule was on: the locals stay.
Advanced(t) ==
    /\ \/ pc[t] = "matching" /\ pc'[t] = "checking"
       \/ pc[t] = "checking" /\ pc'[t] = "opening" /\ enabled[work[t].rule]
    /\ work' = work /\ Frame(t) /\ UNCHANGED <<storeVars, opener, requests, faults>>

Opened(t) ==
    /\ pc[t] = "opening" /\ pc'[t] = "recording"
    /\ CreateIncident(work[t].rule, ToSet(work[t].ids))
    /\ work'[t].ids = work[t].ids /\ work'[t].incident = Len(incidents) + 1
    /\ opener' = Append(opener, work[t])
    /\ Frame(t) /\ Kept(t) /\ KeptFinds(t) /\ UNCHANGED <<requests, faults>>

\* The request was answered.
Left(t) == pc'[t] = "idle" /\ work'[t] = NoWork /\ Frame(t)

\* The upload goes on behind an alert.
WentOn(t) ==
    /\ work[t].rule = Suricata /\ pc'[t] = "importing"
    /\ work'[t].ids = <<>> /\ work'[t].incident = 0
    /\ Frame(t) /\ Kept(t) /\ KeptFinds(t)

\* No incident: the pattern does not match, the rule is off, the upload is
\* over, or a call failed.
Ended(t) ==
    /\ pc[t] # "idle"
    /\ \/ pc[t] \in {"matching", "importing"} /\ Left(t) /\ faults' = faults
       \/ /\ pc[t] = "checking" /\ ~ enabled[work[t].rule] /\ (WentOn(t) \/ Left(t))
          /\ faults' = faults
       \/ Left(t) /\ faults' = faults + 1
    /\ UNCHANGED <<storeVars, opener, requests>>

Recording(t) ==
    /\ pc[t] = "recording"
    /\ AddEvidence(work[t].incident, ToSet(work[t].ids))
    /\ WentOn(t) \/ Left(t)
    /\ UNCHANGED <<opener, requests, faults>>

Skipped(t) ==
    /\ pc[t] = "importing" /\ pc'[t] = "importing" /\ work'[t].ids = work[t].ids
    /\ Frame(t) /\ Kept(t) /\ KeptFinds(t) /\ SameIncident(t)
    /\ UNCHANGED <<storeVars, opener, requests, faults>>

Imported(t) ==
    /\ pc[t] = "importing"
    /\ \/ /\ pc'[t] = "importing" /\ work'[t].ids = <<>>
          /\ AddEvent(SuricataBody("flow", work[t].origin))
       \/ /\ pc'[t] = "checking" /\ work'[t].ids = <<lastEvent + 1>>
          /\ AddEvent(SuricataBody("alert", work[t].origin))
    /\ Frame(t) /\ Kept(t) /\ KeptFinds(t) /\ SameIncident(t)
    /\ UNCHANGED <<opener, requests, faults>>

\* What an analyst's page does to a request in flight.
Seen ==
    /\ AnalystStep
    /\ pc' = pc
    /\ \A t \in Threads :
          /\ work'[t].rule = work[t].rule /\ work'[t].ids = work[t].ids
          /\ work'[t].found = work[t].found /\ work'[t].asked = work[t].asked
          /\ work'[t].incident = work[t].incident /\ work'[t].origin = work[t].origin
          /\ pc[t] = "idle" => work'[t] = work[t]
          /\ pc[t] # "idle" =>
                /\ work'[t].sawEnabled <=> work[t].sawEnabled \/ enabled'[work[t].rule]
                /\ work'[t].disturbed <=> \/ work[t].disturbed
                                          \/ ~ enabled'[work[t].rule]
                                          \/ {e.id : e \in events} # {e.id : e \in events'}
    /\ UNCHANGED <<opener, requests, faults>>

Restarted ==
    /\ Initialize
    /\ faults' = faults + 1
    /\ \A t \in Threads : pc'[t] = "idle" /\ work'[t] = NoWork
    /\ UNCHANGED <<opener, requests>>

\* A step of thread t is one of these.
Moved(t) ==
    \/ Started(t) \/ Added(t) \/ Fetched(t) \/ Advanced(t) \/ Opened(t)
    \/ Ended(t) \/ Recording(t) \/ Skipped(t) \/ Imported(t)

\* What every step keeps besides its own effect.
Stays == /\ work' \in [Threads -> WorkRecords] /\ pc' \in [Threads -> Steps]
         /\ answer' \in [Threads -> Answers]

\* The bounds are natural numbers.
LEMMA Bounds == Minimum \in Nat /\ Minimum > 0 /\ MaxRequests \in Nat /\ MaxFaults \in Nat
BY MinimumAssumption, InvestigationBounds

\* The record of an idle thread is a well-typed one.
LEMMA NoWorkTyped == NoWork \in WorkRecords
<1>1. 0 \in 0 .. MaxRequests
  BY Bounds
<1>2. Suricata \in AllRules
  BY DEF AllRules
<1>3. <<>> \in Seq(Nat) /\ <<>> \in Seq(Bodies) /\ <<>> \in Seq(LineKinds)
  OBVIOUS
<1> QED
  BY <1>1, <1>2, <1>3, Zenon DEF NoWork, WorkRecords

\* Putting a record into the table of locals.
LEMMA WorkExcept ==
    ASSUME Typed, NEW t \in Threads, NEW r \in WorkRecords, work' = [work EXCEPT ![t] = r]
    PROVE  /\ work'[t] = r
           /\ \A u \in Threads \ {t} : work'[u] = work[u]
           /\ work' \in [Threads -> WorkRecords]
BY DEF Typed

\* Moving the step of one thread.
LEMMA GotoFacts ==
    ASSUME Typed, NEW t \in Threads, NEW s \in Steps, Goto(t, s)
    PROVE  /\ pc'[t] = s /\ pc' \in [Threads -> Steps]
           /\ \A u \in Threads \ {t} : pc'[u] = pc[u]
BY DEF Typed, Goto

\* Answering a request clears the locals of the thread.
LEMMA AnswerFacts ==
    ASSUME Typed, NEW t \in Threads, NEW text \in Answers, Answer(t, text)
    PROVE  Left(t) /\ Stays
<1>1. answer' \in [Threads -> Answers]
  BY DEF Typed, Answer
<1> QED
  BY <1>1, NoWorkTyped, WorkExcept, GotoFacts DEF Answer, Left, Frame, Steps, Stays

\* After create_incident an attack is answered and an upload goes on.
LEMMA ResumeFacts ==
    ASSUME Typed, NEW t \in Threads, NEW text \in Answers, Resume(t, text)
    PROVE  (WentOn(t) \/ Left(t)) /\ Stays
<1>1. CASE work[t].rule # Suricata
  BY <1>1, AnswerFacts DEF Resume
<1>2. CASE work[t].rule = Suricata
  <2> DEFINE r == [work[t] EXCEPT !.ids = <<>>, !.incident = 0]
  <2>1. work[t] \in WorkRecords
    BY DEF Typed
  <2>2. /\ r \in WorkRecords /\ r.ids = <<>> /\ r.incident = 0 /\ r.rule = work[t].rule
        /\ r.origin = work[t].origin /\ r.sawEnabled = work[t].sawEnabled
        /\ r.disturbed = work[t].disturbed /\ r.found = work[t].found
        /\ r.asked = work[t].asked
    <3>1. /\ r.rule = work[t].rule /\ r.origin = work[t].origin
          /\ r.sawEnabled = work[t].sawEnabled /\ r.disturbed = work[t].disturbed
          /\ r.found = work[t].found /\ r.asked = work[t].asked
      BY <2>1 DEF WorkRecords
    <3>2. r.ids = <<>> /\ r.incident = 0
      BY <2>1 DEF WorkRecords
    <3>3. r \in WorkRecords
      <4>1. <<>> \in Seq(Nat)
        OBVIOUS
      <4>2. \A q \in WorkRecords, s \in Seq(Nat), n \in Nat :
               [q EXCEPT !.ids = s, !.incident = n] \in WorkRecords
        BY Zenon DEF WorkRecords
      <4> QED
        BY <2>1, <4>1, <4>2
    <3> QED
      BY <3>1, <3>2, <3>3
  <2>3. work' = [work EXCEPT ![t] = r]
    BY <1>2 DEF Resume, Typed
  <2>4. Goto(t, "importing") /\ answer' = answer
    BY <1>2 DEF Resume
  <2> HIDE DEF r
  <2> QED
    BY <1>2, <2>2, <2>3, <2>4, WorkExcept, GotoFacts
       DEF WentOn, Frame, Kept, KeptFinds, Steps, Stays, Typed
<1> QED
  BY <1>1, <1>2

\* Changing one field of a record.
LEMMA FieldExcept ==
    ASSUME NEW r \in WorkRecords
    PROVE  /\ \A s \in Seq(Nat) : [r EXCEPT !.ids = s] \in WorkRecords
           /\ \A s \in Seq(LineKinds) : [r EXCEPT !.lines = s] \in WorkRecords
           /\ \A n \in Nat : [r EXCEPT !.incident = n] \in WorkRecords
BY Zenon DEF WorkRecords

\* What a new request starts with.
LEMMA BeginFacts ==
    ASSUME Typed, StoreTypeOK, NEW t \in Threads, NEW rule \in AllRules,
           NEW lines \in Seq(LineKinds), NEW step \in Steps,
           Begin(t, rule, lines, step)
    PROVE  /\ pc[t] = "idle" /\ pc'[t] = step
           /\ work'[t].rule = rule
           /\ work'[t].ids = <<>> /\ work'[t].found = <<>> /\ work'[t].asked = 0
           /\ work'[t].incident = 0 /\ work'[t].origin = requests + 1
           /\ work'[t].sawEnabled = enabled[rule]
           /\ work'[t].disturbed = ~ enabled[rule]
           /\ requests' = requests + 1 /\ requests' \in 0 .. MaxRequests
           /\ Frame(t) /\ Stays /\ UNCHANGED <<storeVars, opener, faults>>
<1> DEFINE r == [NoWork EXCEPT !.rule = rule, !.lines = lines, !.origin = requests + 1,
                     !.sawEnabled = enabled[rule], !.disturbed = ~ enabled[rule]]
<1>1. /\ work' = [work EXCEPT ![t] = r] /\ Goto(t, step) /\ requests < MaxRequests
      /\ requests' = requests + 1 /\ UNCHANGED <<storeVars, answer, opener, faults>>
      /\ pc[t] = "idle"
  BY DEF Begin
<1>3. requests + 1 \in 0 .. MaxRequests
  <2>1. requests \in 0 .. MaxRequests
    BY DEF Typed
  <2> QED
    BY <1>1, <2>1, Bounds
<1>4. enabled[rule] \in BOOLEAN
  BY RulesAssumption DEF StoreTypeOK
<1>6. r \in WorkRecords
  <2>1. \A q \in WorkRecords, n \in 0 .. MaxRequests, e, d \in BOOLEAN :
           [q EXCEPT !.rule = rule, !.lines = lines, !.origin = n,
                     !.sawEnabled = e, !.disturbed = d] \in WorkRecords
    BY Zenon DEF WorkRecords
  <2> QED
    BY <1>3, <1>4, <2>1, NoWorkTyped
<1>7. /\ r.rule = rule /\ r.ids = <<>> /\ r.found = <<>> /\ r.asked = 0
      /\ r.incident = 0 /\ r.origin = requests + 1 /\ r.sawEnabled = enabled[rule]
      /\ r.disturbed = ~ enabled[rule]
  BY DEF NoWork
<1> HIDE DEF r
<1> QED
  BY <1>1, <1>3, <1>6, <1>7, WorkExcept, GotoFacts DEF Frame, Stays, Typed

\* The code of each action, as one of the moves above.
LEMMA AddAttemptFacts ==
    ASSUME Typed, StoreTypeOK, NEW t \in Threads, AddAttempt(t)
    PROVE  Added(t) /\ Stays
<1> DEFINE s == Append(work[t].ids, lastEvent + 1)
           r == [work[t] EXCEPT !.ids = s]
<1>1. work[t] \in WorkRecords /\ lastEvent + 1 \in Nat
  <2>1. lastEvent \in 0 .. MaxEvents /\ MaxEvents \in Nat
    BY BoundsAssumption DEF StoreTypeOK
  <2>2. work[t] \in WorkRecords
    BY DEF Typed
  <2> QED
    BY <2>1, <2>2
<1>2. s \in Seq(Nat) /\ Len(s) = Len(work[t].ids) + 1
  BY <1>1 DEF WorkRecords
<1>3. /\ r \in WorkRecords /\ r.ids = s
      /\ r.rule = work[t].rule /\ r.origin = work[t].origin
      /\ r.sawEnabled = work[t].sawEnabled /\ r.disturbed = work[t].disturbed
      /\ r.found = work[t].found /\ r.asked = work[t].asked
      /\ r.incident = work[t].incident
  <2> HIDE DEF s
  <2>1. r \in WorkRecords
    BY <1>1, <1>2, FieldExcept
  <2> QED
    BY <1>1, <2>1 DEF WorkRecords
<1>4. work' = [work EXCEPT ![t] = r]
  BY DEF AddAttempt, NextEventId, Typed
<1>5. /\ pc[t] = "adding"
      /\ AddEvent(Pattern(work[t].rule, Len(work[t].ids) + 1, work[t].origin))
      /\ IF Len(work'[t].ids) = Minimum THEN Goto(t, "fetching") ELSE UNCHANGED pc
      /\ UNCHANGED <<answer, opener, requests, faults>>
  BY DEF AddAttempt
<1> HIDE DEF r, s
<1>6. /\ work'[t] = r /\ \A u \in Threads \ {t} : work'[u] = work[u]
      /\ work' \in [Threads -> WorkRecords]
  BY <1>3, <1>4, WorkExcept
<1>7. CASE Len(s) = Minimum
  <2>1. Goto(t, "fetching")
    BY <1>3, <1>5, <1>6, <1>7
  <2> QED
    BY <1>2, <1>3, <1>5, <1>6, <1>7, <2>1, GotoFacts
       DEF Added, Frame, Kept, KeptFinds, SameIncident,
           Stays, Steps, Typed, s
<1>8. CASE Len(s) # Minimum
  BY <1>2, <1>3, <1>5, <1>6, <1>8
     DEF Added, Frame, Kept, KeptFinds, SameIncident, Stays, Typed, s
<1> QED
  BY <1>7, <1>8

\* The event is gone, or the one with that id is read.
LEMMA FetchEventFacts ==
    ASSUME Typed, StoreTypeOK, NEW t \in Threads, FetchEvent(t)
    PROVE  Fetched(t) /\ Stays
<1> DEFINE id == work[t].ids[work[t].asked + 1]
           rows == {e \in events : e.id = id}
           f == IF rows = {} THEN work[t].found
                ELSE Append(work[t].found, (CHOOSE e \in rows : TRUE).body)
           r == [work[t] EXCEPT !.asked = work[t].asked + 1, !.found = f]
<1>1. work[t] \in WorkRecords /\ work[t].asked \in Nat
  BY DEF Typed, WorkRecords
<1>2. /\ f \in Seq(Bodies)
      /\ \/ (\A e \in events : e.id # id) /\ f = work[t].found
         \/ \E e \in events : e.id = id /\ f = Append(work[t].found, e.body)
  <2>1. CASE rows = {}
    BY <1>1, <2>1 DEF WorkRecords
  <2>2. CASE rows # {}
    <3>1. PICK e \in rows : e = CHOOSE x \in rows : TRUE
      BY <2>2
    <3>2. e.body \in Bodies /\ e \in events /\ e.id = id
      BY <3>1 DEF StoreTypeOK, Event
    <3>3. f = Append(work[t].found, e.body)
      BY <2>2, <3>1
    <3>4. work[t].found \in Seq(Bodies)
      BY <1>1 DEF WorkRecords
    <3> HIDE DEF f
    <3> QED
      BY <3>2, <3>3, <3>4
  <2> QED
    BY <2>1, <2>2
<1>3. work' = [work EXCEPT ![t] = r]
  BY DEF FetchEvent, Typed
<1>4. /\ pc[t] = "fetching"
      /\ IF work'[t].asked = Len(work[t].ids) THEN Goto(t, "matching") ELSE UNCHANGED pc
      /\ UNCHANGED <<storeVars, answer, opener, requests, faults>>
  BY DEF FetchEvent
<1> HIDE DEF f
<1>5. /\ r \in WorkRecords /\ r.asked = work[t].asked + 1 /\ r.found = f
      /\ r.rule = work[t].rule /\ r.origin = work[t].origin
      /\ r.sawEnabled = work[t].sawEnabled /\ r.disturbed = work[t].disturbed
      /\ r.ids = work[t].ids /\ r.incident = work[t].incident
  <2>1. \A q \in WorkRecords, n \in Nat, g \in Seq(Bodies) :
           [q EXCEPT !.asked = n, !.found = g] \in WorkRecords
    BY Zenon DEF WorkRecords
  <2>2. work[t].asked + 1 \in Nat
    BY <1>1
  <2>3. r \in WorkRecords
    BY <1>1, <1>2, <2>1, <2>2
  <2> QED
    BY <1>1, <2>3 DEF WorkRecords
<1> HIDE DEF r, id
<1>6. /\ work'[t] = r /\ \A u \in Threads \ {t} : work'[u] = work[u]
      /\ work' \in [Threads -> WorkRecords]
  BY <1>3, <1>5, WorkExcept
<1>7. \/ /\ \A e \in events : e.id # work[t].ids[work[t].asked + 1]
         /\ work'[t].found = work[t].found
      \/ \E e \in events : /\ e.id = work[t].ids[work[t].asked + 1]
                           /\ work'[t].found = Append(work[t].found, e.body)
  BY <1>2, <1>5, <1>6 DEF id
<1>8. CASE work[t].asked + 1 = Len(work[t].ids)
  <2>1. Goto(t, "matching")
    BY <1>4, <1>5, <1>6, <1>8
  <2> QED
    BY <1>4, <1>5, <1>6, <1>7, <1>8, <2>1, GotoFacts
       DEF Fetched, Frame, Kept, SameIncident, Stays, Steps, Typed
<1>9. CASE work[t].asked + 1 # Len(work[t].ids)
  BY <1>4, <1>5, <1>6, <1>7, <1>9
       DEF Fetched, Frame, Kept, SameIncident, Stays, Typed
<1> QED
  BY <1>8, <1>9

\* No match ends the request, a match goes on with the same locals.
LEMMA CorrelateFacts ==
    ASSUME Typed, NEW t \in Threads, Correlate(t)
    PROVE  (Advanced(t) \/ Ended(t)) /\ Stays
<1>1. pc[t] = "matching" /\ UNCHANGED <<storeVars, opener, requests, faults>>
  BY DEF Correlate
<1>2. CASE Goto(t, "checking") /\ UNCHANGED <<work, answer>>
  BY <1>1, <1>2, GotoFacts DEF Advanced, Frame, Stays, Steps, Typed
<1>3. CASE Answer(t, "no match")
  BY <1>1, <1>3, AnswerFacts DEF Ended, Answers
<1> QED
  BY <1>2, <1>3 DEF Correlate

\* A rule that is off ends create_incident, one that is on lets it go on.
LEMMA CheckRuleFacts ==
    ASSUME Typed, NEW t \in Threads, CheckRule(t)
    PROVE  (Advanced(t) \/ Ended(t)) /\ Stays
<1>1. pc[t] = "checking" /\ UNCHANGED <<storeVars, opener, requests, faults>>
  BY DEF CheckRule
<1>2. CASE enabled[work[t].rule] /\ Goto(t, "opening") /\ UNCHANGED <<work, answer>>
  BY <1>1, <1>2, GotoFacts DEF Advanced, Frame, Stays, Steps, Typed
<1>3. CASE ~ enabled[work[t].rule] /\ Resume(t, "no match")
  BY <1>1, <1>3, ResumeFacts DEF Ended, Answers
<1> QED
  BY <1>2, <1>3 DEF CheckRule, RuleAllows

\* The new incident is the last one.
LEMMA OpenIncidentFacts ==
    ASSUME Typed, StoreTypeOK, NEW t \in Threads, OpenIncident(t)
    PROVE  Opened(t) /\ Stays
<1> DEFINE r == [work[t] EXCEPT !.incident = Len(incidents')]
<1>1. /\ pc[t] = "opening" /\ CreateIncident(work[t].rule, ToSet(work[t].ids))
      /\ work' = [work EXCEPT ![t] = r] /\ opener' = Append(opener, work[t])
      /\ Goto(t, "recording") /\ UNCHANGED <<answer, requests, faults>>
  BY DEF OpenIncident, Typed
<1>2. Len(incidents') = Len(incidents) + 1 /\ Len(incidents) \in Nat
  <2>1. incidents' = Append(incidents, [rule |-> work[t].rule, status |-> "open"])
    BY <1>1 DEF CreateIncident
  <2>2. incidents \in Seq(Incident)
    BY DEF StoreTypeOK
  <2>3. Append(incidents, [rule |-> work[t].rule, status |-> "open"])
            \in Seq(Incident \cup {[rule |-> work[t].rule, status |-> "open"]})
    BY <2>2
  <2> QED
    BY <2>1, <2>2
<1>3. /\ r \in WorkRecords /\ r.incident = Len(incidents) + 1
      /\ r.ids = work[t].ids /\ r.found = work[t].found /\ r.asked = work[t].asked
      /\ r.rule = work[t].rule /\ r.origin = work[t].origin
      /\ r.sawEnabled = work[t].sawEnabled /\ r.disturbed = work[t].disturbed
  <2>1. work[t] \in WorkRecords
    BY DEF Typed
  <2>2. Len(incidents') \in Nat
    BY <1>2
  <2>3. r \in WorkRecords
    BY <2>1, <2>2, FieldExcept
  <2>4. r.incident = Len(incidents')
    BY <2>1 DEF WorkRecords
  <2> QED
    BY <1>2, <2>1, <2>3, <2>4 DEF WorkRecords
<1> HIDE DEF r
<1> QED
  BY <1>1, <1>3, WorkExcept, GotoFacts
     DEF Opened, Frame, Kept, KeptFinds, Stays, Steps, Typed

\* The evidence is of the incident that was opened.
LEMMA RecordEvidenceFacts ==
    ASSUME Typed, NEW t \in Threads, RecordEvidence(t)
    PROVE  Recording(t) /\ Stays
BY ResumeFacts DEF RecordEvidence, Recording, Answers

\* A line is skipped, ends the request, or becomes an event.
LEMMA ImportLineFacts ==
    ASSUME Typed, StoreTypeOK, NEW t \in Threads, ImportLine(t)
    PROVE  (Skipped(t) \/ Ended(t) \/ Imported(t)) /\ Stays
<1> DEFINE line == Head(work[t].lines)
           rest == [work[t] EXCEPT !.lines = Tail(work[t].lines)]
<1>1. /\ pc[t] = "importing" /\ work[t].lines # <<>>
      /\ UNCHANGED <<opener, requests, faults>>
  BY DEF ImportLine
<1>2. work[t] \in WorkRecords
  BY DEF Typed
<1>3. /\ rest \in WorkRecords /\ rest.ids = work[t].ids /\ rest.incident = work[t].incident
      /\ rest.found = work[t].found /\ rest.asked = work[t].asked
      /\ rest.rule = work[t].rule /\ rest.origin = work[t].origin
      /\ rest.sawEnabled = work[t].sawEnabled /\ rest.disturbed = work[t].disturbed
  <2>1. Tail(work[t].lines) \in Seq(LineKinds)
    BY <1>1, <1>2 DEF WorkRecords
  <2>2. rest \in WorkRecords
    BY <1>2, <2>1, FieldExcept
  <2> QED
    BY <1>2, <2>2 DEF WorkRecords
<1>4. CASE /\ work' = [work EXCEPT ![t].lines = Tail(@)]
           /\ UNCHANGED <<storeVars, pc, answer>>
  <2>1. work' = [work EXCEPT ![t] = rest]
    BY <1>4 DEF Typed
  <2> HIDE DEF rest
  <2> QED
    BY <1>1, <1>3, <1>4, <2>1, WorkExcept
       DEF Skipped, Frame, Kept, KeptFinds, SameIncident, Stays, Typed
<1>5. CASE Answer(t, "exception") /\ UNCHANGED storeVars
  BY <1>1, <1>5, AnswerFacts DEF Ended, Answers
<1>6. CASE /\ line \in {"flow", "alert"}
           /\ AddEvent(SuricataBody(line, work[t].origin))
           /\ work' = [work EXCEPT ![t].lines = Tail(@), ![t].ids = LineIds(t, line)]
           /\ IF line = "alert" THEN Goto(t, "checking") ELSE UNCHANGED pc
           /\ UNCHANGED answer
  <2> DEFINE r == [rest EXCEPT !.ids = LineIds(t, line)]
  <2>1. work' = [work EXCEPT ![t] = r]
    BY <1>6 DEF Typed
  <2>2. LineIds(t, line) \in Seq(Nat)
    <3>1. lastEvent + 1 \in Nat
      BY BoundsAssumption DEF StoreTypeOK
    <3>2. <<>> \in Seq(Nat) /\ <<lastEvent + 1>> \in Seq(Nat)
      BY <3>1
    <3> QED
      BY <3>2 DEF LineIds, NextEventId
  <2> HIDE DEF rest
  <2>3. /\ r \in WorkRecords /\ r.ids = LineIds(t, line) /\ r.incident = work[t].incident
        /\ r.found = work[t].found /\ r.asked = work[t].asked
        /\ r.rule = work[t].rule /\ r.origin = work[t].origin
        /\ r.sawEnabled = work[t].sawEnabled /\ r.disturbed = work[t].disturbed
    <3>1. r \in WorkRecords
      BY <1>3, <2>2, FieldExcept
    <3> QED
      BY <1>3, <3>1 DEF WorkRecords
  <2> HIDE DEF r
  <2>4. /\ work'[t] = r /\ \A u \in Threads \ {t} : work'[u] = work[u]
        /\ work' \in [Threads -> WorkRecords]
    BY <2>1, <2>3, WorkExcept
  <2>5. CASE line = "alert"
    <3>1. Goto(t, "checking")
      BY <1>6, <2>5
    <3>2. work'[t].ids = <<lastEvent + 1>>
      BY <2>3, <2>4, <2>5 DEF LineIds, NextEventId
    <3> QED
      BY <1>1, <1>6, <2>3, <2>4, <2>5, <3>1, <3>2, GotoFacts
         DEF Imported, Frame, Kept, KeptFinds, SameIncident, Stays, Steps, Typed
  <2>6. CASE line = "flow"
    <3>1. UNCHANGED pc /\ work'[t].ids = <<>>
      BY <1>6, <2>3, <2>4, <2>6 DEF LineIds
    <3> QED
      BY <1>1, <1>6, <2>3, <2>4, <2>6, <3>1
         DEF Imported, Frame, Kept, KeptFinds, SameIncident, Stays, Typed
  <2> QED
    BY <1>6, <2>5, <2>6
<1> QED
  BY <1>4, <1>5, <1>6 DEF ImportLine

\* The upload is over.
LEMMA EndUploadFacts ==
    ASSUME Typed, NEW t \in Threads, EndUpload(t)
    PROVE  Ended(t) /\ Stays
BY AnswerFacts DEF EndUpload, Ended, Answers

\* A failed call ends the request.
LEMMA CallFailsFacts ==
    ASSUME Typed, NEW t \in Threads, CallFails(t)
    PROVE  Ended(t) /\ Stays
BY AnswerFacts DEF CallFails, Fault, Ended, Answers

\* A restart ends all requests.
LEMMA RestartFacts ==
    ASSUME Typed, Restart
    PROVE  Restarted /\ Stays
BY NoWorkTyped DEF Restart, Fault, Restarted, Stays, Steps, Answers

\* The pages change no local that the code has.
LEMMA AnalystFacts ==
    ASSUME Typed, Analyst
    PROVE  Seen /\ Stays
<1> DEFINE saw(t) == work[t].sawEnabled \/ enabled'[work[t].rule]
           lost(t) == \/ work[t].disturbed
                      \/ ~ enabled'[work[t].rule]
                      \/ {e.id : e \in events} # {e.id : e \in events'}
           After(t) == IF pc[t] = "idle" THEN work[t]
                       ELSE [work[t] EXCEPT !.sawEnabled = saw(t), !.disturbed = lost(t)]
<1>1. /\ AnalystStep /\ UNCHANGED <<pc, answer, opener, requests, faults>>
      /\ work' = [t \in Threads |-> After(t)]
  BY DEF Analyst
<1> HIDE DEF saw, lost
<1>2. \A t \in Threads : saw(t) \in BOOLEAN /\ lost(t) \in BOOLEAN
  BY DEF saw, lost
<1>3. ASSUME NEW t \in Threads
      PROVE  /\ After(t) \in WorkRecords
             /\ After(t).rule = work[t].rule /\ After(t).ids = work[t].ids
             /\ After(t).found = work[t].found /\ After(t).asked = work[t].asked
             /\ After(t).incident = work[t].incident /\ After(t).origin = work[t].origin
             /\ pc[t] = "idle" => After(t) = work[t]
             /\ pc[t] # "idle" => /\ After(t).sawEnabled = saw(t)
                                  /\ After(t).disturbed = lost(t)
  <2>1. work[t] \in WorkRecords
    BY DEF Typed
  <2>2. CASE pc[t] = "idle"
    BY <2>1, <2>2
  <2>3. CASE pc[t] # "idle"
    <3>1. \A q \in WorkRecords, a, b \in BOOLEAN :
             [q EXCEPT !.sawEnabled = a, !.disturbed = b] \in WorkRecords
      BY Zenon DEF WorkRecords
    <3>2. After(t) \in WorkRecords
      BY <1>2, <2>1, <2>3, <3>1
    <3> QED
      BY <2>1, <2>3, <3>2 DEF WorkRecords
  <2> QED
    BY <2>2, <2>3
<1> HIDE DEF After
<1>4. work' \in [Threads -> WorkRecords]
  BY <1>1, <1>3
<1>5. \A t \in Threads : work'[t] = After(t)
  BY <1>1
<1> QED
  BY <1>1, <1>3, <1>4, <1>5 DEF Seen, Stays, Typed, saw, lost

\* What the other threads, the analyst and the process can do in one step.
LEMMA NextFacts ==
    ASSUME Typed, StoreTypeOK, Next
    PROVE  /\ Seen \/ Restarted \/ \E t \in Threads : Moved(t)
           /\ Stays
<1>1. ASSUME NEW t \in Threads, NEW attack \in AttackTypes, StartAttack(t, attack)
      PROVE  Moved(t) /\ Stays
  <2>1. attack \in AllRules /\ <<>> \in Seq(LineKinds) /\ "adding" \in Steps
    BY DEF AllRules, Steps
  <2>2. Begin(t, attack, <<>>, "adding")
    BY <1>1 DEF StartAttack
  <2>3. /\ pc[t] = "idle" /\ pc'[t] = "adding" /\ work'[t].rule = attack
        /\ work'[t].ids = <<>> /\ work'[t].found = <<>> /\ work'[t].asked = 0
        /\ work'[t].incident = 0 /\ work'[t].origin = requests + 1
        /\ work'[t].sawEnabled = enabled[attack]
        /\ work'[t].disturbed = ~ enabled[attack]
        /\ requests' = requests + 1
        /\ Frame(t) /\ Stays /\ UNCHANGED <<storeVars, opener, faults>>
    BY <2>1, <2>2, BeginFacts
  <2> QED
    BY <2>3 DEF Started, Moved
<1>2. ASSUME NEW t \in Threads, NEW lines \in Uploads, StartUpload(t, lines)
      PROVE  Moved(t) /\ Stays
  <2>1. Suricata \in AllRules /\ lines \in Seq(LineKinds) /\ "importing" \in Steps
    BY DEF AllRules, Steps, Uploads
  <2> QED
    BY <1>2, <2>1, BeginFacts DEF StartUpload, Started, Moved
<1>3. ASSUME NEW t \in Threads, Step(t) PROVE Moved(t) /\ Stays
  BY <1>3, AddAttemptFacts, FetchEventFacts, CorrelateFacts, CheckRuleFacts,
     OpenIncidentFacts, RecordEvidenceFacts, ImportLineFacts, EndUploadFacts
     DEF Step, Moved
<1>4. ASSUME NEW t \in Threads, CallFails(t) PROVE Moved(t) /\ Stays
  BY <1>4, CallFailsFacts DEF Moved
<1> QED
  BY <1>1, <1>2, <1>3, <1>4, AnalystFacts, RestartFacts DEF Next

-----------------------------------------------------------------------------
(* Where a handler is tells what it holds.                                  *)

\* The number of events an incident of a rule is opened for.
Weight(rule) == IF rule = Suricata THEN 1 ELSE Minimum

Searching == {"adding", "fetching", "matching"}

Stage(t) ==
    /\ pc[t] = "idle" => work[t] = NoWork
    /\ pc[t] # "idle" => work[t].origin \in 1 .. requests
    /\ pc[t] \in Searching => work[t].rule \in AttackTypes
    /\ pc[t] = "importing" => work[t].rule = Suricata /\ work[t].ids = <<>>
    /\ pc[t] = "adding" => Len(work[t].ids) < Minimum /\ work[t].asked = 0
    /\ pc[t] \in {"fetching", "matching"} => Len(work[t].ids) = Minimum
    /\ pc[t] = "fetching" => work[t].asked < Minimum
    /\ pc[t] = "matching" => work[t].asked = Minimum
    /\ pc[t] \in {"checking", "opening", "recording"} => Len(work[t].ids) = Weight(work[t].rule)
    /\ pc[t] = "recording" => work[t].incident \in DOMAIN incidents
    /\ work[t].rule = Suricata => work[t].asked = 0
    /\ work[t].asked <= Len(work[t].ids)
    /\ work[t].incident \in 0 .. Len(incidents)
    /\ \A i \in 1 .. Len(work[t].ids) : work[t].ids[i] \in 1 .. lastEvent

HandlerInv == TablesInv /\ Typed /\ \A t \in Threads : Stage(t)

\* The invariant holds at first.
LEMMA HandlerInit == Init => HandlerInv
<1> SUFFICES ASSUME Init PROVE HandlerInv
  OBVIOUS
<1>1. TablesInv
  BY TablesInit DEF Init
<1>2. Typed
  <2>1. 0 \in 0 .. MaxRequests /\ 0 \in 0 .. MaxFaults
    BY Bounds
  <2> QED
    BY <2>1, NoWorkTyped DEF Init, StoreInit, Typed, Steps, Answers
<1>3. ASSUME NEW t \in Threads PROVE Stage(t)
  <2>1. /\ work[t] = NoWork /\ pc[t] = "idle" /\ incidents = <<>>
        /\ NoWork.asked = 0 /\ NoWork.ids = <<>> /\ NoWork.incident = 0
    BY DEF Init, StoreInit, NoWork
  <2> QED
    BY <2>1 DEF Stage, Searching
<1> QED
  BY <1>1, <1>2, <1>3 DEF HandlerInv

\* An attempt of a pattern is an event body the store may hold.
LEMMA PatternTyped ==
    ASSUME NEW attack \in AttackTypes, NEW k \in 1 .. Minimum, NEW o \in 1 .. MaxRequests
    PROVE  /\ Pattern(attack, k, o) \in AllBodies
           /\ Pattern(attack, k, o).kind = "attempt" /\ Pattern(attack, k, o).origin = o
<1>1. 0 \in 0 .. Minimum /\ k \in 0 .. Minimum
  BY Bounds
<1>2. \A a, b, c \in 0 .. Minimum :
         /\ Attempt(a, b, c, o) \in AllBodies
         /\ Attempt(a, b, c, o).kind = "attempt" /\ Attempt(a, b, c, o).origin = o
  BY DEF Attempt, AllBodies
<1>3. Pattern(attack, k, o) \in {Attempt(0, 0, k, o), Attempt(0, k, 0, o),
                                Attempt(0, k, k, o), Attempt(k, 0, k, o)}
  BY AttackTypesAssumption DEF Pattern
<1> QED
  BY <1>1, <1>2, <1>3

\* So is a record of a Suricata file.
LEMMA SuricataTyped ==
    ASSUME NEW kind \in {"flow", "alert"}, NEW o \in 1 .. MaxRequests
    PROVE  /\ SuricataBody(kind, o) \in AllBodies
           /\ SuricataBody(kind, o).kind = kind /\ SuricataBody(kind, o).origin = o
<1>1. 0 \in 0 .. Minimum
  BY Bounds
<1> QED
  BY <1>1 DEF SuricataBody, Attempt, AllBodies

\* The events a handler has, as a set.
Own(t) == ToSet(work[t].ids)

\* They are the members of the list, and ids already given.
LEMMA OwnFacts ==
    ASSUME HandlerInv, NEW t \in Threads
    PROVE  /\ \A x : x \in Own(t) <=> \E i \in 1 .. Len(work[t].ids) : work[t].ids[i] = x
           /\ Own(t) \subseteq 1 .. lastEvent
           /\ work[t].ids \in Seq(Nat)
<1>1. Stage(t) /\ work[t] \in WorkRecords
  BY DEF HandlerInv, Typed
<1>2. work[t].ids \in Seq(Nat)
  BY <1>1 DEF WorkRecords
<1>3. \A x : x \in Own(t) <=> \E i \in 1 .. Len(work[t].ids) : work[t].ids[i] = x
  BY <1>2 DEF Own, ToSet
<1>4. \A i \in 1 .. Len(work[t].ids) : work[t].ids[i] \in 1 .. lastEvent
  BY <1>1 DEF Stage
<1> QED
  BY <1>2, <1>3, <1>4

\* The members of a sequence, and of one that got longer.
LEMMA ToSetFacts ==
    ASSUME NEW S, NEW s \in Seq(S), NEW e \in S
    PROVE  ToSet(Append(s, e)) = ToSet(s) \cup {e}
<1> DEFINE g == Append(s, e)
<1>1. /\ Len(s) \in Nat /\ DOMAIN g = 1 .. Len(s) + 1 /\ g[Len(s) + 1] = e
      /\ \A i \in 1 .. Len(s) : g[i] = s[i]
  BY AppendProperties, LenProperties
<1>2. /\ DOMAIN s = 1 .. Len(s)
      /\ \A i \in 1 .. Len(s) + 1 : i \in 1 .. Len(s) \/ i = Len(s) + 1
      /\ \A i \in 1 .. Len(s) : i \in 1 .. Len(s) + 1
  BY <1>1
<1> HIDE DEF g
<1>3. \A x : x \in ToSet(g) <=> x \in ToSet(s) \/ x = e
  BY <1>1, <1>2 DEF ToSet
<1> QED
  BY <1>3 DEF g

\* Every step of a handler is a call of the store or leaves it alone.
LEMMA MovedCallsStore ==
    ASSUME HandlerInv, NEW t \in Threads, Moved(t)
    PROVE  [StoreNext]_storeVars
<1>1. /\ Stage(t) /\ work[t] \in WorkRecords /\ requests \in 0 .. MaxRequests
      /\ lastEvent \in 0 .. MaxEvents
  BY DEF HandlerInv, TablesInv, StoreTypeOK, Typed
<1>2. pc[t] # "idle" => work[t].origin \in 1 .. MaxRequests
  <2>1. pc[t] # "idle" => work[t].origin \in 1 .. requests
    BY <1>1 DEF Stage
  <2> QED
    BY <1>1, <2>1, Bounds
<1>3. CASE Added(t)
  <2>1. /\ work[t].rule \in AttackTypes /\ Len(work[t].ids) + 1 \in 1 .. Minimum
        /\ work[t].origin \in 1 .. MaxRequests
    BY <1>1, <1>2, <1>3, Bounds DEF Added, Stage, Searching, WorkRecords
  <2>2. Pattern(work[t].rule, Len(work[t].ids) + 1, work[t].origin) \in Bodies
    BY <2>1, PatternTyped, BodiesAssumption
  <2> QED
    BY <1>3, <2>2 DEF Added, StoreNext
<1>4. CASE Imported(t)
  <2>1. work[t].origin \in 1 .. MaxRequests
    BY <1>2, <1>4 DEF Imported
  <2>2. /\ SuricataBody("flow", work[t].origin) \in Bodies
        /\ SuricataBody("alert", work[t].origin) \in Bodies
    BY <2>1, SuricataTyped, BodiesAssumption
  <2> QED
    BY <1>4, <2>2 DEF Imported, StoreNext
<1>5. ToSet(work[t].ids) \in SUBSET (1 .. lastEvent)
  BY OwnFacts DEF Own
<1>6. CASE Opened(t)
  <2>1. work[t].rule \in Rules
    BY <1>1, RulesAssumption DEF WorkRecords
  <2> QED
    BY <1>5, <1>6, <2>1 DEF Opened, StoreNext
<1>7. CASE Recording(t)
  <2>1. work[t].incident \in DOMAIN incidents
    BY <1>1, <1>7 DEF Recording, Stage
  <2> QED
    BY <1>5, <1>7, <2>1 DEF Recording, StoreNext
<1> QED
  BY <1>3, <1>4, <1>6, <1>7 DEF Moved, Started, Fetched, Advanced, Ended, Skipped

\* Whatever happens, the store's tables stay consistent.
LEMMA TablesCarry ==
    ASSUME HandlerInv, Seen \/ Restarted \/ \E t \in Threads : Moved(t)
    PROVE  TablesInv'
<1>1. CASE Seen \/ Restarted
  BY <1>1, TablesStep DEF HandlerInv, Seen, Restarted, StoreNext
<1>2. ASSUME NEW t \in Threads, Moved(t) PROVE TablesInv'
  BY <1>2, MovedCallsStore, TablesStep DEF HandlerInv
<1> QED
  BY <1>1, <1>2

\* The row of an incident never moves, and keeps its rule.
LEMMA IncidentsKept ==
    ASSUME HandlerInv, Seen \/ Restarted \/ \E t \in Threads : Moved(t)
    PROVE  /\ Len(incidents) \in Nat /\ DOMAIN incidents = 1 .. Len(incidents)
           /\ DOMAIN incidents' = 1 .. Len(incidents')
           /\ \/ Len(incidents') = Len(incidents) /\ opener' = opener /\ links' = links
              \/ /\ Len(incidents') = Len(incidents) + 1
                 /\ \E t \in Threads :
                       /\ Opened(t)
                       /\ links' = links \cup ({Len(incidents) + 1} \X Own(t))
                       /\ incidents'[Len(incidents) + 1].rule = work[t].rule
           /\ \A i \in 1 .. Len(incidents) : incidents'[i].rule = incidents[i].rule
<1>1. /\ incidents \in Seq(Incident) /\ Len(incidents) \in Nat
      /\ DOMAIN incidents = 1 .. Len(incidents)
  BY DEF HandlerInv, TablesInv, StoreTypeOK
<1>2. ASSUME NEW t \in Threads, Opened(t)
      PROVE  /\ DOMAIN incidents' = 1 .. Len(incidents')
             /\ Len(incidents') = Len(incidents) + 1
             /\ links' = links \cup ({Len(incidents) + 1} \X Own(t))
             /\ incidents'[Len(incidents) + 1].rule = work[t].rule
             /\ \A i \in 1 .. Len(incidents) : incidents'[i].rule = incidents[i].rule
  <2> DEFINE row == [rule |-> work[t].rule, status |-> "open"]
  <2>1. /\ incidents' = Append(incidents, row)
        /\ links' = links \cup ({Len(incidents) + 1} \X Own(t))
    BY <1>2 DEF Opened, CreateIncident, Own
  <2>2. work[t].rule \in Rules
    BY RulesAssumption DEF HandlerInv, Typed, WorkRecords
  <2>3. row \in Incident /\ row.rule = work[t].rule
    BY <2>2, StatusAssumption DEF Incident
  <2> HIDE DEF row
  <2> QED
    BY <1>1, <2>1, <2>3, AppendFacts
<1>3. ASSUME NEW i \in 1 .. MaxIncidents, NEW x \in IncidentStatuses,
             UpdateIncidentStatus(i, x)
      PROVE  /\ DOMAIN incidents' = 1 .. Len(incidents')
             /\ Len(incidents') = Len(incidents) /\ links' = links
             /\ \A k \in 1 .. Len(incidents) : incidents'[k].rule = incidents[k].rule
  <2> DEFINE row == [incidents[i] EXCEPT !.status = x]
  <2>1. /\ i \in DOMAIN incidents /\ incidents' = [incidents EXCEPT ![i] = row]
        /\ links' = links
    BY <1>3 DEF UpdateIncidentStatus
  <2>2. row \in Incident /\ row.rule = incidents[i].rule
    <3>1. incidents[i] \in Incident
      BY <1>1, <2>1
    <3> QED
      BY <3>1 DEF Incident
  <2> HIDE DEF row
  <2> QED
    BY <1>1, <2>1, <2>2, ExceptFacts
<1>4. CASE Seen
  <2>1. UNCHANGED opener
    BY <1>4 DEF Seen
  <2>2. CASE UNCHANGED <<incidents, links>>
    BY <1>1, <2>1, <2>2
  <2> QED
    BY <1>1, <1>3, <1>4, <2>1, <2>2
       DEF Seen, AnalystStep, EventPages, IncidentPages, DetectionPages, DeleteEvents,
           UpdateEventStatus, AddActivity, SetRuleEnabled
<1>5. CASE Restarted
  <2>1. UNCHANGED <<incidents, links, opener>>
    BY <1>5 DEF Restarted, Initialize
  <2> QED
    BY <1>1, <2>1
<1>7. ASSUME NEW t \in Threads, Moved(t), ~ Opened(t)
      PROVE  UNCHANGED <<incidents, links, opener>>
  BY <1>7 DEF Moved, Started, Added, Fetched, Advanced, Ended, Recording, Skipped, Imported,
              AddEvent, AddEvidence, storeVars
<1> QED
  BY <1>1, <1>2, <1>4, <1>5, <1>7

\* Ids, incidents and requests are only ever added.
LEMMA Growth ==
    ASSUME HandlerInv, Seen \/ Restarted \/ \E t \in Threads : Moved(t)
    PROVE  /\ lastEvent \in Nat /\ lastEvent' \in Nat /\ lastEvent <= lastEvent'
           /\ Len(incidents) \in Nat /\ Len(incidents') \in Nat
           /\ Len(incidents) <= Len(incidents')
           /\ DOMAIN incidents = 1 .. Len(incidents)
           /\ DOMAIN incidents' = 1 .. Len(incidents')
           /\ requests \in Nat /\ requests' \in Nat /\ requests <= requests'
<1>1. /\ lastEvent \in Nat /\ lastEvent' \in Nat
      /\ incidents \in Seq(Incident) /\ incidents' \in Seq(Incident)
  <2>1. TablesInv /\ TablesInv'
    BY TablesCarry DEF HandlerInv
  <2>2. StoreTypeOK /\ StoreTypeOK'
    BY <2>1 DEF TablesInv
  <2>3. lastEvent \in 0 .. MaxEvents /\ lastEvent' \in 0 .. MaxEvents
    BY <2>2 DEF StoreTypeOK
  <2> QED
    BY <2>2, <2>3 DEF StoreTypeOK
<1>2. requests \in 0 .. MaxRequests
  BY DEF HandlerInv, Typed
<1>3. (requests' = requests \/ requests' = requests + 1)
  BY DEF Seen, Restarted, Moved, Started, Added, Fetched, Advanced, Opened, Ended,
         Recording, Skipped, Imported
<1>4. UNCHANGED lastEvent \/ lastEvent' = lastEvent + 1
  BY DEF Seen, Restarted, Moved, Started, Added, Fetched, Advanced, Opened, Ended,
         Recording, Skipped, Imported, AddEvent, NextEventId, CreateIncident, AddEvidence,
         Initialize, AnalystStep, EventPages, IncidentPages, DetectionPages, DeleteEvents,
         UpdateEventStatus, AddActivity, UpdateIncidentStatus, SetRuleEnabled, storeVars
<1>5. Len(incidents) <= Len(incidents')
  BY IncidentsKept
<1> QED
  BY <1>1, <1>2, <1>3, <1>4, <1>5, Bounds

\* Every incident has the work that opened it.
LEMMA OpenersMatch ==
    ASSUME HandlerInv, Seen \/ Restarted \/ \E t \in Threads : Moved(t)
    PROVE  opener' \in Seq(WorkRecords) /\ Len(opener') = Len(incidents')
<1>1. opener \in Seq(WorkRecords) /\ Len(opener) = Len(incidents)
  BY DEF HandlerInv, Typed
<1>2. CASE opener' = opener /\ Len(incidents') = Len(incidents)
  BY <1>1, <1>2
<1>3. ASSUME NEW t \in Threads, Opened(t), Len(incidents') = Len(incidents) + 1
      PROVE  opener' \in Seq(WorkRecords) /\ Len(opener') = Len(incidents')
  <2>1. opener' = Append(opener, work[t]) /\ work[t] \in WorkRecords
    BY <1>3 DEF Opened, HandlerInv, Typed
  <2> QED
    BY <1>1, <1>3, <2>1, AppendFacts
<1> QED
  BY <1>2, <1>3, IncidentsKept

\* A thread that does not move stays at its stage.
LEMMA StageKept ==
    ASSUME HandlerInv, Seen \/ Restarted \/ \E t \in Threads : Moved(t),
           NEW u \in Threads, pc'[u] = pc[u],
           work'[u] = work[u] \/ /\ pc[u] # "idle" /\ work'[u].rule = work[u].rule
                                 /\ work'[u].ids = work[u].ids
                                 /\ work'[u].asked = work[u].asked
                                 /\ work'[u].incident = work[u].incident
                                 /\ work'[u].origin = work[u].origin
    PROVE  Stage(u)'
<1>1. /\ lastEvent \in Nat /\ lastEvent' \in Nat /\ lastEvent <= lastEvent'
      /\ requests \in Nat /\ requests' \in Nat /\ requests <= requests'
      /\ DOMAIN incidents \subseteq DOMAIN incidents'
      /\ 0 .. Len(incidents) \subseteq 0 .. Len(incidents')
  BY Growth
<1>2. Stage(u) /\ work[u] \in WorkRecords
  BY DEF HandlerInv, Typed
<1>3. 1 .. lastEvent \subseteq 1 .. lastEvent' /\ 1 .. requests \subseteq 1 .. requests'
  BY <1>1
<1>4. /\ work'[u].rule = work[u].rule /\ work'[u].ids = work[u].ids
      /\ work'[u].asked = work[u].asked /\ work'[u].incident = work[u].incident
      /\ work'[u].origin = work[u].origin
      /\ pc[u] = "idle" => work'[u] = work[u]
  OBVIOUS
<1> QED
  BY <1>1, <1>2, <1>3, <1>4 DEF Stage

\* An idle thread holds nothing.
LEMMA StageIdle ==
    ASSUME HandlerInv, Seen \/ Restarted \/ \E t \in Threads : Moved(t),
           NEW u \in Threads, pc'[u] = "idle", work'[u] = NoWork
    PROVE  Stage(u)'
<1>1. /\ NoWork.asked = 0 /\ NoWork.ids = <<>> /\ NoWork.incident = 0
  BY DEF NoWork
<1>2. Len(incidents') \in Nat
  BY Growth
<1> QED
  BY <1>1, <1>2 DEF Stage, Searching

\* The thread that moves comes to the stage the code puts it at.
LEMMA StageMoved ==
    ASSUME HandlerInv, Stays, NEW t \in Threads, Moved(t)
    PROVE  Stage(t)'
<1>1. /\ lastEvent \in Nat /\ lastEvent' \in Nat /\ lastEvent <= lastEvent'
      /\ requests \in Nat /\ requests' \in Nat /\ requests <= requests'
      /\ DOMAIN incidents \subseteq DOMAIN incidents'
      /\ 0 .. Len(incidents) \subseteq 0 .. Len(incidents')
      /\ Len(incidents') \in Nat /\ DOMAIN incidents' = 1 .. Len(incidents')
  BY Growth
<1>2. Stage(t) /\ work[t] \in WorkRecords /\ work'[t] \in WorkRecords
  BY DEF HandlerInv, Typed, Stays
<1>3. /\ work[t].asked \in Nat /\ Len(work[t].ids) \in Nat /\ work[t].ids \in Seq(Nat)
  BY <1>2 DEF WorkRecords
<1>4. 1 .. lastEvent \subseteq 1 .. lastEvent' /\ 1 .. requests \subseteq 1 .. requests'
  BY <1>1
<1>5. CASE Started(t)
  <2>1. Len(work'[t].ids) = 0 /\ work'[t].asked = 0 /\ work'[t].incident = 0
    BY <1>5 DEF Started
  <2>2. requests' = requests + 1 /\ requests + 1 \in 1 .. requests'
    BY <1>1, <1>5 DEF Started
  <2> QED
    BY <1>1, <1>5, <2>1, <2>2, Bounds DEF Started, Stage, Searching
<1>6. CASE Added(t)
  <2> DEFINE s == Append(work[t].ids, lastEvent + 1)
  <2>1. lastEvent' = lastEvent + 1 /\ incidents' = incidents /\ requests' = requests
    BY <1>6 DEF Added, AddEvent, NextEventId
  <2>2. /\ Len(s) = Len(work[t].ids) + 1
        /\ \A i \in 1 .. Len(s) : s[i] \in 1 .. lastEvent'
    <3>1. /\ Len(s) = Len(work[t].ids) + 1 /\ s[Len(work[t].ids) + 1] = lastEvent + 1
          /\ \A i \in 1 .. Len(work[t].ids) : s[i] = work[t].ids[i]
      BY <1>1, <1>3
    <3>2. \A i \in 1 .. Len(work[t].ids) : s[i] \in 1 .. lastEvent'
      BY <1>2, <1>4, <3>1 DEF Stage
    <3> HIDE DEF s
    <3> QED
      <4>1. \A i \in 1 .. Len(s) : i \in 1 .. Len(work[t].ids) \/ i = Len(work[t].ids) + 1
        BY <1>3, <3>1
      <4>2. lastEvent + 1 \in 1 .. lastEvent'
        BY <1>1, <2>1
      <4> QED
        BY <3>1, <3>2, <4>1, <4>2
  <2>3. /\ work'[t].ids = s /\ work'[t].asked = 0 /\ work'[t].rule = work[t].rule
        /\ work'[t].origin = work[t].origin /\ work'[t].incident = work[t].incident
        /\ pc[t] = "adding" /\ Len(work[t].ids) < Minimum
        /\ work[t].rule \in AttackTypes /\ work[t].origin \in 1 .. requests
        /\ work[t].incident \in 0 .. Len(incidents)
    BY <1>2, <1>6 DEF Added, Stage, Searching, Kept, KeptFinds, SameIncident
  <2> HIDE DEF s
  <2>4. \/ pc'[t] = "fetching" /\ Len(s) = Minimum
        \/ pc'[t] = "adding" /\ Len(s) < Minimum
    BY <1>3, <1>6, <2>2, <2>3, Bounds DEF Added
  <2> QED
    BY <1>3, <2>1, <2>2, <2>3, <2>4, Bounds DEF Stage, Searching
<1>7. CASE Fetched(t)
  <2>1. lastEvent' = lastEvent /\ incidents' = incidents /\ requests' = requests
    BY <1>7 DEF Fetched, storeVars
  <2>2. /\ work'[t].ids = work[t].ids /\ work'[t].asked = work[t].asked + 1
        /\ work'[t].rule = work[t].rule
        /\ work'[t].origin = work[t].origin /\ work'[t].incident = work[t].incident
        /\ pc[t] = "fetching" /\ Len(work[t].ids) = Minimum /\ work[t].asked < Minimum
        /\ work[t].rule \in AttackTypes
    BY <1>2, <1>7 DEF Fetched, Stage, Searching, Kept, SameIncident
  <2>3. \/ pc'[t] = "matching" /\ work'[t].asked = Minimum
        \/ pc'[t] = "fetching" /\ work'[t].asked < Minimum
    BY <1>3, <1>7, <2>2, Bounds DEF Fetched
  <2> QED
    BY <1>2, <1>3, <2>1, <2>2, <2>3, Bounds, AttackTypesAssumption DEF Stage, Searching, Suricata
<1>8. CASE Advanced(t)
  <2>1. lastEvent' = lastEvent /\ incidents' = incidents /\ requests' = requests
    BY <1>8 DEF Advanced, storeVars
  <2>2. Suricata \notin AttackTypes
    BY AttackTypesAssumption DEF Suricata
  <2> QED
    BY <1>2, <1>8, <2>1, <2>2 DEF Advanced, Stage, Searching, Weight
<1>9. CASE Opened(t)
  <2>1. lastEvent' = lastEvent /\ requests' = requests
    BY <1>9 DEF Opened, CreateIncident
  <2>2. work'[t].incident \in DOMAIN incidents' /\ work'[t].incident \in 0 .. Len(incidents')
    <3>1. /\ work'[t].incident = Len(incidents) + 1
          /\ incidents' = Append(incidents, [rule |-> work[t].rule, status |-> "open"])
      BY <1>9 DEF Opened, CreateIncident
    <3>2. work[t].rule \in Rules
      BY <1>2, RulesAssumption DEF WorkRecords
    <3>3. [rule |-> work[t].rule, status |-> "open"] \in Incident
      BY <3>2, StatusAssumption DEF Incident
    <3>4. incidents \in Seq(Incident)
      BY DEF HandlerInv, TablesInv, StoreTypeOK
    <3>5. Len(incidents') = Len(incidents) + 1
      BY <3>1, <3>3, <3>4, AppendFacts
    <3> QED
      BY <1>1, <3>1, <3>4, <3>5
  <2> QED
    BY <1>2, <1>9, <2>1, <2>2 DEF Opened, Stage, Searching, Kept, KeptFinds
<1>10. CASE Ended(t) \/ Recording(t)
  <2>1. CASE Left(t)
    BY <2>1, StageIdle DEF Left
  <2>2. CASE WentOn(t)
    <3>1. lastEvent' = lastEvent /\ incidents' = incidents /\ requests' = requests
      BY <1>10 DEF Ended, Recording, AddEvidence, storeVars
    <3>2. /\ work'[t].ids = <<>> /\ work'[t].incident = 0 /\ pc'[t] = "importing"
          /\ work'[t].rule = Suricata /\ work'[t].origin = work[t].origin
          /\ pc[t] # "idle"
      BY <1>10, <2>2 DEF WentOn, Kept, Ended, Recording
    <3>3. work[t].asked = 0
      BY <1>2, <1>10, <2>2 DEF WentOn, Ended, Recording, Stage
    <3> QED
      BY <1>1, <1>2, <3>1, <3>2, <3>3, <2>2 DEF Stage, Searching, WentOn, KeptFinds
  <2> QED
    BY <1>10, <2>1, <2>2 DEF Ended, Recording
<1>11. CASE Skipped(t)
  BY <1>11, StageKept DEF Skipped, Kept, KeptFinds, SameIncident
<1>12. CASE Imported(t)
  <2>1. lastEvent' = lastEvent + 1 /\ incidents' = incidents /\ requests' = requests
    BY <1>12 DEF Imported, AddEvent, NextEventId
  <2>2. /\ work'[t].asked = work[t].asked
        /\ work'[t].rule = Suricata /\ work'[t].origin = work[t].origin
        /\ work'[t].incident = work[t].incident
        /\ work[t].asked <= 0
    BY <1>2, <1>12 DEF Imported, Kept, KeptFinds, SameIncident, Stage
  <2>3. \/ pc'[t] = "importing" /\ work'[t].ids = <<>>
        \/ pc'[t] = "checking" /\ work'[t].ids = <<lastEvent + 1>>
    BY <1>12 DEF Imported
  <2>4. CASE pc'[t] = "importing" /\ work'[t].ids = <<>>
    BY <1>2, <1>12, <2>1, <2>2, <2>4 DEF Stage, Searching, Imported
  <2>5. CASE pc'[t] = "checking" /\ work'[t].ids = <<lastEvent + 1>>
    <3>1. Len(<<lastEvent + 1>>) = 1 /\ <<lastEvent + 1>>[1] = lastEvent + 1
      OBVIOUS
    <3>2. /\ \A i \in 1 .. Len(<<lastEvent + 1>>) : <<lastEvent + 1>>[i] \in 1 .. lastEvent'
      BY <1>1, <2>1, <3>1
    <3> QED
      BY <1>2, <1>3, <1>12, <2>1, <2>2, <2>5, <3>1, <3>2 DEF Stage, Searching, Imported, Weight
  <2> QED
    BY <2>3, <2>4, <2>5
<1> QED
  BY <1>5, <1>6, <1>7, <1>8, <1>9, <1>10, <1>11, <1>12 DEF Moved

\* Every step keeps it.
LEMMA HandlerStep == HandlerInv /\ [Next]_vars => HandlerInv'
<1> SUFFICES ASSUME HandlerInv, [Next]_vars PROVE HandlerInv'
  OBVIOUS
<1>1. CASE UNCHANGED vars
  BY <1>1 DEF vars, handlerVars, storeVars, HandlerInv, TablesInv, StoreTypeOK,
              EventIdsAreUnique, TablesAgree, Typed, Stage
<1>2. CASE Next
  <2>1. /\ Typed /\ StoreTypeOK /\ StoreTypeOK'
        /\ Seen \/ Restarted \/ \E t \in Threads : Moved(t)
        /\ Stays /\ TablesInv'
    <3>1. Typed /\ StoreTypeOK
      BY DEF HandlerInv, TablesInv
    <3>2. (Seen \/ Restarted \/ \E t \in Threads : Moved(t)) /\ Stays
      BY <1>2, <3>1, NextFacts
    <3>3. TablesInv'
      BY <3>2, TablesCarry
    <3> QED
      BY <3>1, <3>2, <3>3 DEF TablesInv
  <2>2. \A u \in Threads : Stage(u)'
    <3>1. CASE Seen
      <4> SUFFICES ASSUME NEW u \in Threads PROVE Stage(u)'
        OBVIOUS
      <4>1. /\ pc'[u] = pc[u]
            /\ work'[u] = work[u] \/ /\ pc[u] # "idle" /\ work'[u].rule = work[u].rule
                                     /\ work'[u].ids = work[u].ids
                                     /\ work'[u].asked = work[u].asked
                                     /\ work'[u].incident = work[u].incident
                                     /\ work'[u].origin = work[u].origin
        BY <3>1 DEF Seen
      <4> QED
        BY <3>1, <4>1, StageKept
    <3>2. CASE Restarted
      BY <2>1, <3>2, StageIdle DEF Restarted
    <3>3. ASSUME NEW t \in Threads, Moved(t), NEW u \in Threads PROVE Stage(u)'
      <4>1. CASE u = t
        BY <2>1, <3>3, <4>1, StageMoved
      <4>2. CASE u # t
        <5>1. Frame(t)
          BY <3>3, Zenon DEF Moved, Started, Added, Fetched, Advanced, Opened, Ended,
                      Recording, Skipped, Imported, Left, WentOn
        <5> QED
          BY <2>1, <3>3, <4>2, <5>1, StageKept DEF Frame
      <4> QED
        BY <4>1, <4>2
    <3> QED
      BY <2>1, <3>1, <3>2, <3>3
  <2>3. Typed'
    <3>1. opener' \in Seq(WorkRecords) /\ Len(opener') = Len(incidents')
      BY <2>1, OpenersMatch
    <3>2. requests \in 0 .. MaxRequests /\ faults \in 0 .. MaxFaults
      BY <2>1 DEF Typed
    <3>3. /\ UNCHANGED requests \/ (requests < MaxRequests /\ requests' = requests + 1)
          /\ UNCHANGED faults \/ (faults < MaxFaults /\ faults' = faults + 1)
      BY <1>2 DEF Next, Analyst, Restart, Fault, StartAttack, StartUpload, Begin, Step, AddAttempt,
                  FetchEvent, Correlate, CheckRule, OpenIncident, RecordEvidence, ImportLine,
                  EndUpload, CallFails
    <3>4. requests' \in 0 .. MaxRequests /\ faults' \in 0 .. MaxFaults
      BY <3>2, <3>3, Bounds
    <3> QED
      BY <2>1, <3>1, <3>4 DEF Stays, Typed
  <2> QED
    BY <2>1, <2>2, <2>3 DEF HandlerInv
<1> QED
  BY <1>1, <1>2

\* The invariant holds in every state.
THEOREM HandlerInvariant == Spec => []HandlerInv
BY HandlerInit, HandlerStep, PTL DEF Spec

\* Types, ranges, and the local of an idle handler.
THEOREM HandlersTyped == Spec => []HandlerTypeOK
<1>1. HandlerInv => HandlerTypeOK
  <2> SUFFICES ASSUME HandlerInv PROVE HandlerTypeOK
    OBVIOUS
  <2>1. StoreTypeOK /\ Typed
    BY DEF HandlerInv, TablesInv
  <2>2. ASSUME NEW t \in Threads
        PROVE  /\ pc[t] = "idle" => work[t] = NoWork
               /\ work[t].rule \in Rules
               /\ ToSet(work[t].ids) \subseteq 1 .. lastEvent
               /\ work[t].asked \in 0 .. Len(work[t].ids)
               /\ work[t].incident \in 0 .. Len(incidents)
    <3>1. Stage(t) /\ work[t] \in WorkRecords
      BY DEF HandlerInv, Typed
    <3>2. ToSet(work[t].ids) \subseteq 1 .. lastEvent
      BY OwnFacts DEF Own
    <3>3. work[t].rule \in Rules /\ work[t].asked \in Nat /\ Len(work[t].ids) \in Nat
      BY <3>1, RulesAssumption DEF WorkRecords
    <3> QED
      BY <3>1, <3>2, <3>3 DEF Stage
  <2>3. Len(opener) = Len(incidents) /\ requests \in 0 .. MaxRequests /\ faults \in 0 .. MaxFaults
    BY <2>1 DEF Typed
  <2>4. pc \in [Threads -> Steps] /\ answer \in [Threads -> Answers]
    BY <2>1 DEF Typed
  <2> QED
    BY <2>1, <2>2, <2>3, <2>4 DEF HandlerTypeOK, Steps, Answers
<1> QED
  BY <1>1, HandlerInvariant, PTL

-----------------------------------------------------------------------------
(* A rule that is off.                                                      *)

\* What was seen of a thread's rule since its request began.
WatchedBy(t) ==
    /\ pc[t] # "idle" /\ enabled[work[t].rule] => work[t].sawEnabled
    /\ pc[t] = "opening" => work[t].sawEnabled
    /\ pc[t] # "idle" /\ ~ enabled[work[t].rule] => work[t].disturbed

\* The rules as the handlers see them, and the work that opened an incident.
Watched == DisabledRulesAreSilent /\ \A t \in Threads : WatchedBy(t)

\* A thread goes on to open an incident only when its rule is on.
LEMMA WatchedStep == HandlerInv /\ Watched /\ [Next]_vars => Watched'
<1> SUFFICES ASSUME HandlerInv, Watched, [Next]_vars PROVE Watched'
  OBVIOUS
<1>1. CASE UNCHANGED vars
  BY <1>1 DEF vars, handlerVars, storeVars, Watched, WatchedBy, DisabledRulesAreSilent
<1>2. CASE Next
  <2>1. Seen \/ Restarted \/ \E t \in Threads : Moved(t)
    BY <1>2, NextFacts DEF HandlerInv, TablesInv
  <2>2. \A t \in Threads : WatchedBy(t)
    BY DEF Watched
  <2>3. CASE Seen
    BY <2>2, <2>3 DEF Seen, Watched, WatchedBy, DisabledRulesAreSilent
  <2>4. CASE Restarted
    BY <2>4 DEF Restarted, Watched, WatchedBy, DisabledRulesAreSilent
  <2>5. ASSUME NEW t \in Threads, Moved(t) PROVE Watched'
    <3>1. enabled' = enabled /\ Frame(t)
      BY <2>5, Zenon DEF Moved, Started, Added, Fetched, Advanced, Opened, Ended, Recording,
                  Skipped, Imported, Left, WentOn, AddEvent, CreateIncident, AddEvidence, storeVars
    <3>2. \A u \in Threads \ {t} : WatchedBy(u)'
      BY <2>2, <3>1 DEF Frame, WatchedBy
    <3>3. WatchedBy(t)'
      BY <2>2, <2>5, <3>1
         DEF WatchedBy, Moved, Started, Added, Fetched, Advanced, Opened, Ended, Recording,
             Skipped, Imported, Left, WentOn, Kept
    <3>4. DisabledRulesAreSilent'
      <4>1. CASE opener' = opener
        BY <4>1 DEF Watched, DisabledRulesAreSilent
      <4>2. CASE Opened(t)
        <5>1. opener' = Append(opener, work[t]) /\ work[t].sawEnabled
          BY <2>2, <4>2 DEF Opened, WatchedBy
        <5>2. opener \in Seq(WorkRecords) /\ work[t] \in WorkRecords
          BY DEF HandlerInv, Typed
        <5> QED
          BY <5>1, <5>2, AppendFacts DEF Watched, DisabledRulesAreSilent
      <4> QED
        BY <2>5, <4>1, <4>2 DEF Moved, Started, Added, Fetched, Advanced, Ended, Recording,
                                Skipped, Imported
    <3> QED
      BY <3>2, <3>3, <3>4 DEF Watched
  <2> QED
    BY <2>1, <2>3, <2>4, <2>5
<1> QED
  BY <1>1, <1>2

\* No request runs at first.
LEMMA WatchedInit == Init => Watched
BY DEF Init, Watched, WatchedBy, DisabledRulesAreSilent

\* The flag is read one call before the incident is opened, so it can be off
\* by then; but it was on at some moment of the request (engine.py:49-54).
THEOREM DisabledRulesStaySilent == Spec => []DisabledRulesAreSilent
<1>1. Watched => DisabledRulesAreSilent
  BY DEF Watched
<1> QED
  BY <1>1, WatchedInit, WatchedStep, HandlerInvariant, PTL DEF Spec

-----------------------------------------------------------------------------
(* One incident for each event.                                             *)

\* A set whose members are numbered without repetition has that many members.
LEMMA Counted ==
    ASSUME NEW n \in Nat, NEW S, NEW f \in [1 .. n -> S],
           \A i, j \in 1 .. n : f[i] = f[j] => i = j,
           \A x \in S : \E i \in 1 .. n : f[i] = x
    PROVE  Cardinality(S) = n
<1>1. f \in Bijection(1 .. n, S)
  BY Fun_IsBij
<1>2. ExistsBijection(1 .. n, S)
  BY <1>1, Fun_ExistsBij
<1> QED
  BY <1>2, FS_CountingElements

\* So has an interval.
LEMMA IntervalCounted == \A n \in Nat : Cardinality(1 .. n) = n
<1> SUFFICES ASSUME NEW n \in Nat PROVE Cardinality(1 .. n) = n
  OBVIOUS
<1>1. ExistsBijection(1 .. n, 1 .. n)
  BY Fun_ExistsBijReflexive
<1> QED
  BY <1>1, FS_CountingElements

\* So do the links of one incident to a list of events.
LEMMA PairsCounted ==
    ASSUME NEW s \in Seq(Nat), NEW n, \A i, j \in 1 .. Len(s) : s[i] = s[j] => i = j
    PROVE  Cardinality({n} \X ToSet(s)) = Len(s)
<1> DEFINE f == [i \in 1 .. Len(s) |-> <<n, s[i]>>]
<1>1. Len(s) \in Nat /\ \A x : x \in ToSet(s) <=> \E i \in 1 .. Len(s) : s[i] = x
  BY DEF ToSet
<1>2. \A i \in 1 .. Len(s) : <<n, s[i]>> \in {n} \X ToSet(s)
  BY <1>1
<1>3. f \in [1 .. Len(s) -> {n} \X ToSet(s)]
  BY <1>2
<1>4. \A i, j \in 1 .. Len(s) : f[i] = f[j] => i = j
  OBVIOUS
<1>5. ASSUME NEW x \in {n} \X ToSet(s) PROVE \E i \in 1 .. Len(s) : f[i] = x
  <2>1. PICK y \in ToSet(s) : x = <<n, y>>
    OBVIOUS
  <2>2. PICK i \in 1 .. Len(s) : s[i] = y
    BY <1>1
  <2> QED
    BY <2>1, <2>2
<1> DEFINE S == {n} \X ToSet(s)
<1>6. Len(s) \in Nat /\ f \in [1 .. Len(s) -> S] /\ \A x \in S : \E i \in 1 .. Len(s) : f[i] = x
  BY <1>1, <1>3, <1>5
<1> HIDE DEF f, S
<1>7. Cardinality(S) = Len(s)
  BY <1>4, <1>6, Counted
<1> QED
  BY <1>7 DEF S

\* The stages at which the events of a handler are in no incident yet.
Early == {"adding", "fetching", "matching", "checking", "opening"}

Distinct(t) == \A i, j \in 1 .. Len(work[t].ids) : work[t].ids[i] = work[t].ids[j] => i = j

\* No two handlers have an event in common, and the events of a handler that
\* has not opened its incident are in none.
Owners ==
    /\ \A t \in Threads : Distinct(t)
    /\ \A t, u \in Threads : t # u => Own(t) \cap Own(u) = {}
    /\ \A t \in Threads : pc[t] \in Early => \A l \in links : l[2] \notin Own(t)

\* The links of one incident.
LinksOf(i) == {l \in links : l[1] = i}

Linked ==
    /\ \A l, m \in links : l[2] = m[2] => l = m
    /\ \A i \in DOMAIN incidents : Cardinality(LinksOf(i)) = Weight(incidents[i].rule)

\* A handler gets no event but the one it inserts.
LEMMA OwnSteps ==
    ASSUME HandlerInv, NEW t \in Threads, Moved(t)
    PROVE  /\ Own(t)' \subseteq Own(t) \cup {lastEvent + 1}
           /\ pc'[t] \in Early => pc[t] \in Early \/ Own(t)' \subseteq {lastEvent + 1}
           /\ ~ Own(t)' \subseteq Own(t) => lastEvent' = lastEvent + 1 /\ links' = links
           /\ Distinct(t) => Distinct(t)'
<1>1. /\ work[t].ids \in Seq(Nat) /\ lastEvent \in Nat /\ Stage(t)
      /\ Own(t) \subseteq 1 .. lastEvent
      /\ \A x : x \in Own(t) <=> \E i \in 1 .. Len(work[t].ids) : work[t].ids[i] = x
  <2>1. lastEvent \in 0 .. MaxEvents
    BY DEF HandlerInv, TablesInv, StoreTypeOK
  <2> QED
    BY <2>1, OwnFacts DEF HandlerInv
<1>2. CASE work'[t].ids = work[t].ids /\ (pc'[t] \in Early => pc[t] \in Early)
  BY <1>2 DEF Own, Distinct
<1>3. CASE work'[t].ids = <<>>
  <2>1. Own(t)' = {}
    BY <1>3 DEF Own, ToSet
  <2>2. Distinct(t)'
    BY <1>3 DEF Distinct
  <2> QED
    BY <2>1, <2>2
<1>4. CASE work'[t].ids = <<lastEvent + 1>> /\ lastEvent' = lastEvent + 1 /\ links' = links
  <2>1. Own(t)' = {lastEvent + 1}
    BY <1>4 DEF Own, ToSet
  <2>2. Distinct(t)'
    BY <1>4 DEF Distinct
  <2> QED
    BY <1>4, <2>1, <2>2
<1>5. CASE Added(t)
  <2>1. /\ work'[t].ids = Append(work[t].ids, lastEvent + 1)
        /\ lastEvent' = lastEvent + 1 /\ links' = links /\ pc[t] = "adding"
    BY <1>5 DEF Added, AddEvent, NextEventId
  <2>2. ToSet(Append(work[t].ids, lastEvent + 1)) = ToSet(work[t].ids) \cup {lastEvent + 1}
    BY <1>1, ToSetFacts
  <2>3. Own(t)' = Own(t) \cup {lastEvent + 1}
    BY <2>1, <2>2 DEF Own
  <2>4. ASSUME Distinct(t) PROVE Distinct(t)'
    <3> DEFINE s == work[t].ids
               n == lastEvent + 1
               g == Append(s, n)
    <3>1. /\ Len(s) \in Nat /\ Len(g) = Len(s) + 1 /\ g[Len(s) + 1] = n
          /\ \A i \in 1 .. Len(s) : g[i] = s[i] /\ s[i] \in Own(t)
      BY <1>1
    <3>2. n \notin Own(t)
      BY <1>1
    <3>3. \A i \in 1 .. Len(g) : i \in 1 .. Len(s) \/ i = Len(s) + 1
      BY <3>1
    <3>4. \A i, j \in 1 .. Len(s) : s[i] = s[j] => i = j
      BY <2>4 DEF Distinct
    <3>5. work'[t].ids = g
      BY <2>1
    <3> HIDE DEF g, s, n
    <3> QED
      BY <3>1, <3>2, <3>3, <3>4, <3>5 DEF Distinct
  <2> QED
    BY <2>1, <2>3, <2>4 DEF Early
<1>6. CASE Imported(t)
  <2>1. lastEvent' = lastEvent + 1 /\ links' = links
    BY <1>6 DEF Imported, AddEvent, NextEventId
  <2> QED
    BY <1>3, <1>4, <1>6, <2>1 DEF Imported
<1>7. CASE Left(t) \/ WentOn(t)
  BY <1>3, <1>7 DEF Left, WentOn, NoWork
<1> QED
  BY <1>2, <1>3, <1>5, <1>6, <1>7
     DEF Moved, Started, Fetched, Advanced, Opened, Ended, Recording, Skipped, Early

\* There are no events and no incidents at first.
LEMMA OwnersInit == Init => Owners /\ Linked
<1>1. ASSUME Init, NEW t \in Threads
      PROVE  work[t].ids = <<>> /\ pc[t] = "idle" /\ links = {} /\ incidents = <<>>
  BY <1>1 DEF Init, StoreInit, NoWork
<1>2. ASSUME Init, NEW t \in Threads PROVE Own(t) = {} /\ Distinct(t)
  BY <1>1, <1>2 DEF Own, ToSet, Distinct
<1>3. Init => links = {} /\ incidents = <<>>
  BY DEF Init, StoreInit
<1> QED
  BY <1>1, <1>2, <1>3 DEF Owners, Linked, Early

\* Two events of different handlers stay different.
LEMMA OwnersStep ==
    ASSUME HandlerInv, Owners, Seen \/ Restarted \/ \E t \in Threads : Moved(t)
    PROVE  Owners'
<1>1. CASE Seen
  <2>1. \A t \in Threads : work'[t].ids = work[t].ids /\ pc'[t] = pc[t]
    BY <1>1 DEF Seen
  <2>2. \A t \in Threads : Own(t)' = Own(t) /\ Distinct(t)' = Distinct(t)
    BY <2>1 DEF Own, Distinct
  <2>3. links' = links
    BY <1>1 DEF Seen, AnalystStep, EventPages, IncidentPages, DetectionPages, DeleteEvents,
           UpdateEventStatus, AddActivity, UpdateIncidentStatus, SetRuleEnabled
  <2> QED
    BY <2>1, <2>2, <2>3 DEF Owners
<1>2. CASE Restarted
  <2>1. \A t \in Threads : work'[t].ids = <<>> /\ pc'[t] = "idle"
    BY <1>2 DEF Restarted, NoWork
  <2>2. \A t \in Threads : Own(t)' = {} /\ Distinct(t)'
    BY <2>1 DEF Own, Distinct, ToSet
  <2> QED
    BY <2>1, <2>2 DEF Owners, Early
<1>3. ASSUME NEW t \in Threads, Moved(t) PROVE Owners'
  <2>1. Frame(t)
    BY <1>3, Zenon DEF Moved, Started, Added, Fetched, Advanced, Opened, Ended,
                Recording, Skipped, Imported, Left, WentOn
  <2>2. \A u \in Threads \ {t} : /\ Own(u)' = Own(u) /\ Distinct(u)' = Distinct(u)
                                 /\ pc'[u] = pc[u]
    BY <2>1 DEF Frame, Own, Distinct
  <2>3. /\ Own(t)' \subseteq Own(t) \cup {lastEvent + 1}
        /\ pc'[t] \in Early => pc[t] \in Early \/ Own(t)' \subseteq {lastEvent + 1}
        /\ ~ Own(t)' \subseteq Own(t) => lastEvent' = lastEvent + 1 /\ links' = links
        /\ Distinct(t) => Distinct(t)'
    BY <1>3, OwnSteps
  <2>4. \A u \in Threads : lastEvent + 1 \notin Own(u)
    <3>1. lastEvent \in Nat
      BY <1>3, Growth
    <3> QED
      BY <3>1, OwnFacts
  <2>5. \A l \in links : l[2] # lastEvent + 1
    <3>1. lastEvent \in Nat /\ \A l \in links : l[2] <= lastEvent
      BY <1>3, Growth DEF HandlerInv, TablesInv, TablesAgree
    <3>2. \A l \in links : l[2] \in Nat
      BY BoundsAssumption DEF HandlerInv, TablesInv, StoreTypeOK
    <3> QED
      BY <3>1, <3>2
  <2>6. \A u, v \in Threads : u # v => (Own(u) \cap Own(v) = {})'
    <3>1. \A u \in Threads \ {t} : Own(t)' \cap Own(u) = {}
      BY <2>3, <2>4 DEF Owners
    <3> QED
      BY <2>2, <3>1 DEF Owners
  <2>7. \A u \in Threads : pc'[u] \in Early => \A l \in links' : l[2] \notin Own(u)'
    <3>1. CASE links' = links
      BY <2>2, <2>3, <2>5, <3>1 DEF Owners
    <3>2. CASE links' # links
      <4>1. Opened(t)
        BY <1>3, <3>2 DEF Moved, Started, Added, Fetched, Advanced, Ended, Recording, Skipped,
                          Imported, AddEvent, AddEvidence, storeVars
      <4>2. pc'[t] = "recording" /\ links' = links \cup ({Len(incidents) + 1} \X Own(t))
        BY <4>1 DEF Opened, CreateIncident, Own
      <4>3. \A l \in links' : l \in links \/ l[2] \in Own(t)
        BY <4>2
      <4>4. \A u \in Threads \ {t} : pc[u] \in Early =>
               \A l \in links' : l[2] \notin Own(u)
        BY <4>3 DEF Owners
      <4> QED
        BY <2>2, <4>2, <4>4 DEF Early
    <3> QED
      BY <3>1, <3>2
  <2> QED
    BY <2>2, <2>3, <2>6, <2>7 DEF Owners
<1> QED
  BY <1>1, <1>2, <1>3

\* A new incident has no links but those it is created with.
LEMMA NewLinks ==
    ASSUME HandlerInv, NEW t \in Threads, NEW n, n = Len(incidents) + 1,
           Len(incidents) \in Nat, DOMAIN incidents = 1 .. Len(incidents),
           links' = links \cup ({n} \X Own(t))
    PROVE  /\ LinksOf(n)' = {n} \X Own(t)
           /\ \A i \in DOMAIN incidents : LinksOf(i)' = LinksOf(i)
<1>1. \A l \in links : l[1] \in 1 .. Len(incidents) /\ l[1] # n
  BY DEF HandlerInv, TablesInv, TablesAgree
<1>2. \A l \in {n} \X Own(t) : l[1] = n
  OBVIOUS
<1>3. LinksOf(n)' = {n} \X Own(t)
  BY <1>1, <1>2 DEF LinksOf
<1>4. ASSUME NEW i \in 1 .. Len(incidents) PROVE LinksOf(i)' = LinksOf(i)
  BY <1>2 DEF LinksOf
<1> QED
  BY <1>3, <1>4

\* No event gets a second link, and an incident has the links of its rule.
LEMMA LinkedStep ==
    ASSUME HandlerInv, Owners, Linked, Seen \/ Restarted \/ \E t \in Threads : Moved(t)
    PROVE  Linked'
<1>1. /\ DOMAIN incidents = 1 .. Len(incidents) /\ DOMAIN incidents' = 1 .. Len(incidents')
      /\ Len(incidents) \in Nat
      /\ \A i \in 1 .. Len(incidents) : incidents'[i].rule = incidents[i].rule
  BY IncidentsKept
<1>2. CASE Len(incidents') = Len(incidents) /\ links' = links
  BY <1>1, <1>2 DEF Linked, LinksOf
<1>3. ASSUME NEW t \in Threads, Opened(t), Len(incidents') = Len(incidents) + 1,
             links' = links \cup ({Len(incidents) + 1} \X Own(t)),
             incidents'[Len(incidents) + 1].rule = work[t].rule
      PROVE  Linked'
  <2> DEFINE s == work[t].ids
  <2>0. PICK n \in Nat : n = Len(incidents) + 1
    BY <1>1
  <2>1. /\ \A l \in links : l[2] \notin Own(t) /\ l[1] \in 1 .. Len(incidents)
        /\ pc[t] = "opening" /\ Stage(t) /\ s \in Seq(Nat)
    BY <1>1, <1>3, OwnFacts
       DEF Owners, Opened, Early, HandlerInv, TablesInv, TablesAgree
  <2>2. \A l, m \in links' : l[2] = m[2] => l = m
    <3>1. \A l \in {n} \X Own(t) : l = <<n, l[2]>> /\ l[2] \in Own(t)
      OBVIOUS
    <3> QED
      BY <1>3, <2>0, <2>1, <3>1 DEF Linked
  <2>4. /\ LinksOf(n)' = {n} \X Own(t)
        /\ \A i \in 1 .. Len(incidents) : LinksOf(i)' = LinksOf(i)
    BY <1>1, <1>3, <2>0, NewLinks
  <2>5. Cardinality({n} \X Own(t)) = Len(s)
    <3>1. \A i, j \in 1 .. Len(s) : s[i] = s[j] => i = j
      BY DEF Owners, Distinct
    <3> QED
      BY <2>1, <3>1, PairsCounted DEF Own
  <2>6. Len(s) = Weight(work[t].rule)
    BY <2>1 DEF Stage
  <2>7. \A i \in DOMAIN incidents' : Cardinality(LinksOf(i)') = Weight(incidents'[i].rule)
    <3>1. \A i \in DOMAIN incidents' : i \in 1 .. Len(incidents) \/ i = n
      BY <1>1, <1>3, <2>0
    <3>2. Cardinality(LinksOf(n)') = Weight(incidents'[n].rule)
      BY <1>3, <2>0, <2>4, <2>5, <2>6
    <3> QED
      BY <1>1, <2>4, <3>1, <3>2 DEF Linked
  <2> QED
    BY <2>2, <2>7 DEF Linked
<1> QED
  BY <1>2, <1>3, IncidentsKept

OwnersInv == Owners /\ Linked

\* Every step keeps the ownership of events.
LEMMA OwnersInvStep == HandlerInv /\ OwnersInv /\ [Next]_vars => OwnersInv'
<1> SUFFICES ASSUME HandlerInv, OwnersInv, [Next]_vars PROVE OwnersInv'
  OBVIOUS
<1>1. CASE UNCHANGED vars
  BY <1>1 DEF vars, handlerVars, storeVars, OwnersInv, Owners, Linked, LinksOf, Own, Distinct
<1>2. CASE Next
  <2>1. Seen \/ Restarted \/ \E t \in Threads : Moved(t)
    BY <1>2, NextFacts DEF HandlerInv, TablesInv
  <2> QED
    BY <2>1, OwnersStep, LinkedStep DEF OwnersInv
<1> QED
  BY <1>1, <1>2

\* No event is counted in two incidents, whichever threads import and
\* correlate at once, and an incident links one alert or one whole pattern
\* (app/__init__.py:427-440, 454-471).
THEOREM OneIncidentForEachEvent == Spec => []OneIncidentPerEvent
<1>1. OwnersInv => OneIncidentPerEvent
  BY DEF OwnersInv, Linked, LinksOf, Weight, OneIncidentPerEvent
<1>2. Init => OwnersInv
  BY OwnersInit DEF OwnersInv
<1> QED
  BY <1>1, <1>2, OwnersInvStep, HandlerInvariant, PTL DEF Spec

-----------------------------------------------------------------------------
(* The evidence of an incident.                                             *)

\* What thread t is about to record belongs to the incident it opened, which
\* has no evidence yet.
RecordsFor(t) ==
    pc[t] = "recording" =>
        /\ {work[t].incident} \X Own(t) = LinksOf(work[t].incident)
        /\ \A k \in DOMAIN evidence : evidence[k].incident # work[t].incident

OneRecorder ==
    \A t, u \in Threads : t # u /\ pc[t] = "recording" /\ pc[u] = "recording"
                              => work[t].incident # work[u].incident

EvidenceOnce ==
    \A k, m \in DOMAIN evidence : evidence[k].incident = evidence[m].incident => k = m

EvidenceNamesLinks ==
    \A k \in DOMAIN evidence :
        {evidence[k].incident} \X evidence[k].ids = LinksOf(evidence[k].incident)

EvidenceComes ==
    \A i \in DOMAIN incidents :
        \/ \E k \in DOMAIN evidence : evidence[k].incident = i
        \/ \E t \in Threads : pc[t] = "recording" /\ work[t].incident = i
        \/ faults > 0

Recorded ==
    /\ \A t \in Threads : RecordsFor(t)
    /\ OneRecorder
    /\ EvidenceOnce
    /\ EvidenceNamesLinks
    /\ EvidenceComes

\* No thread begins or ends to record.
LEMMA RecordedKept ==
    ASSUME Recorded, UNCHANGED <<links, evidence>>, DOMAIN incidents' = DOMAIN incidents,
           \A u \in Threads : pc'[u] = "recording" =>
               pc[u] = "recording" /\ work'[u].incident = work[u].incident /\ work'[u].ids = work[u].ids,
           \A u \in Threads : pc[u] = "recording" =>
               faults' > 0 \/ (pc'[u] = "recording" /\ work'[u].incident = work[u].incident),
           faults > 0 => faults' > 0
    PROVE  Recorded'
<1>1. ASSUME NEW u \in Threads PROVE RecordsFor(u)'
  BY DEF Recorded, RecordsFor, Own, LinksOf
<1>2. OneRecorder'
  BY DEF Recorded, OneRecorder
<1>3. EvidenceOnce' /\ EvidenceNamesLinks'
  BY DEF Recorded, EvidenceOnce, EvidenceNamesLinks, LinksOf
<1>4. EvidenceComes'
  BY DEF Recorded, EvidenceComes
<1> QED
  BY <1>1, <1>2, <1>3, <1>4 DEF Recorded

\* An incident is opened: its evidence is what comes next.
LEMMA RecordedOpened ==
    ASSUME HandlerInv, Recorded, NEW t \in Threads, Opened(t)
    PROVE  Recorded'
<1>1. /\ DOMAIN incidents = 1 .. Len(incidents) /\ Len(incidents) \in Nat
      /\ DOMAIN incidents' = 1 .. Len(incidents')
      /\ Len(incidents') = Len(incidents) + 1
  <2>1. /\ incidents \in Seq(Incident)
        /\ incidents' = Append(incidents, [rule |-> work[t].rule, status |-> "open"])
    BY DEF HandlerInv, TablesInv, StoreTypeOK, Opened, CreateIncident
  <2>2. opener \in Seq(WorkRecords) /\ work[t] \in WorkRecords
        /\ opener' = Append(opener, work[t]) /\ Len(opener) = Len(incidents)
    BY DEF HandlerInv, Typed, Opened
  <2>3. Len(opener') = Len(incidents')
    BY OpenersMatch DEF Moved
  <2> QED
    BY <2>1, <2>2, <2>3, AppendFacts, IncidentsKept DEF Moved
<1>2. PICK n \in Nat : n = Len(incidents) + 1
  BY <1>1
<1>3. /\ pc[t] = "opening" /\ pc'[t] = "recording" /\ Frame(t)
      /\ work'[t].ids = work[t].ids /\ work'[t].incident = n
      /\ links' = links \cup ({n} \X Own(t))
      /\ UNCHANGED <<evidence, faults>>
  BY <1>2 DEF Opened, CreateIncident, Own
<1>4. /\ LinksOf(n)' = {n} \X Own(t)
      /\ \A i \in 1 .. Len(incidents) : LinksOf(i)' = LinksOf(i)
  BY <1>1, <1>2, <1>3, NewLinks
<1>5. \A k \in DOMAIN evidence : evidence[k].incident \in 1 .. Len(incidents)
  BY <1>1 DEF HandlerInv, TablesInv, TablesAgree
<1>6. \A u \in Threads : pc[u] = "recording" => work[u].incident \in 1 .. Len(incidents)
  BY <1>1 DEF HandlerInv, Stage
<1>7. RecordsFor(t)'
  <2>1. Own(t)' = Own(t)
    BY <1>3 DEF Own
  <2> QED
    BY <1>2, <1>3, <1>4, <1>5, <2>1 DEF RecordsFor
<1>8. ASSUME NEW u \in Threads, u # t PROVE RecordsFor(u)'
  <2>1. Own(u)' = Own(u) /\ work'[u] = work[u] /\ pc'[u] = pc[u]
    BY <1>3, <1>8 DEF Own, Frame
  <2>2. RecordsFor(u)
    BY DEF Recorded
  <2> QED
    BY <1>3, <1>4, <1>6, <2>1, <2>2 DEF RecordsFor
<1>9. OneRecorder'
  <2>1. \A u \in Threads \ {t} : pc'[u] = "recording" => work'[u].incident # n
    BY <1>2, <1>3, <1>6 DEF Frame
  <2> QED
    BY <1>3, <2>1 DEF OneRecorder, Recorded, Frame
<1>10. EvidenceOnce'
  BY <1>3 DEF Recorded, EvidenceOnce
<1>11. EvidenceNamesLinks'
  BY <1>3, <1>4, <1>5 DEF Recorded, EvidenceNamesLinks
<1>12. EvidenceComes'
  <2> SUFFICES ASSUME NEW i \in 1 .. n
               PROVE  \/ \E k \in DOMAIN evidence : evidence[k].incident = i
                      \/ \E u \in Threads : pc'[u] = "recording" /\ work'[u].incident = i
                      \/ faults > 0
    BY <1>1, <1>2, <1>3 DEF EvidenceComes
  <2>1. CASE i = n
    BY <1>3, <2>1
  <2>2. CASE i # n
    <3>1. i \in DOMAIN incidents
      BY <1>1, <1>2, <2>2
    <3> QED
      BY <1>3, <3>1 DEF Recorded, EvidenceComes, Frame
  <2> QED
    BY <2>1, <2>2
<1> QED
  BY <1>7, <1>8, <1>9, <1>10, <1>11, <1>12 DEF Recorded

\* The evidence is recorded for the incident that has none.
LEMMA RecordedRecording ==
    ASSUME HandlerInv, Recorded, NEW t \in Threads, Recording(t)
    PROVE  Recorded'
<1> DEFINE row == [incident |-> work[t].incident, ids |-> Own(t)]
<1>1. /\ pc[t] = "recording" /\ evidence' = Append(evidence, row)
      /\ UNCHANGED <<incidents, links, faults>>
      /\ pc'[t] # "recording" /\ Frame(t)
  BY DEF Recording, AddEvidence, Own, Left, WentOn
<1>2. /\ \A u \in Threads : RecordsFor(u)
      /\ OneRecorder /\ EvidenceOnce /\ EvidenceNamesLinks /\ EvidenceComes
  BY DEF Recorded
<1>3. /\ {work[t].incident} \X Own(t) = LinksOf(work[t].incident)
      /\ \A k \in DOMAIN evidence : evidence[k].incident # work[t].incident
  BY <1>1, <1>2 DEF RecordsFor
<1>4. evidence \in Seq(Evidence) /\ row \in Evidence
  <2>1. StoreTypeOK /\ Stage(t)
    BY DEF HandlerInv, TablesInv
  <2>2. work[t].incident \in 1 .. MaxIncidents
    <3>1. work[t].incident \in DOMAIN incidents
      BY <1>1, <2>1 DEF Stage
    <3>2. /\ incidents \in Seq(Incident) /\ Len(incidents) <= MaxIncidents
          /\ MaxIncidents \in Nat
      BY <2>1, BoundsAssumption DEF StoreTypeOK
    <3> QED
      BY <3>1, <3>2
  <2>3. Own(t) \in SUBSET (1 .. MaxEvents)
    <3>1. lastEvent \in 0 .. MaxEvents /\ MaxEvents \in Nat
      BY <2>1, BoundsAssumption DEF StoreTypeOK
    <3> QED
      BY <3>1, OwnFacts
  <2> QED
    BY <2>1, <2>2, <2>3 DEF StoreTypeOK, Evidence
<1>5. /\ DOMAIN evidence = 1 .. Len(evidence) /\ Len(evidence) \in Nat
      /\ DOMAIN evidence' = 1 .. Len(evidence) + 1
      /\ \A k \in DOMAIN evidence : evidence'[k] = evidence[k]
      /\ evidence'[Len(evidence) + 1] = row
      /\ \A k \in DOMAIN evidence' : k \in DOMAIN evidence \/ k = Len(evidence) + 1
  BY <1>1, <1>4, AppendFacts
<1>6. row.incident = work[t].incident /\ row.ids = Own(t)
  OBVIOUS
<1> HIDE DEF row
<1>7. ASSUME NEW u \in Threads PROVE RecordsFor(u)'
  <2>1. CASE u = t
    BY <1>1, <2>1 DEF RecordsFor
  <2>2. CASE u # t
    <3>1. Own(u)' = Own(u) /\ work'[u] = work[u] /\ pc'[u] = pc[u]
      BY <1>1, <2>2 DEF Own, Frame
    <3>2. RecordsFor(u)
      BY <1>2
    <3>3. pc[u] = "recording" => work[u].incident # work[t].incident
      BY <1>1, <1>2, <2>2 DEF OneRecorder
    <3>4. LinksOf(work[u].incident)' = LinksOf(work[u].incident)
      BY <1>1, <3>1 DEF LinksOf
    <3> QED
      BY <1>5, <1>6, <3>1, <3>2, <3>3, <3>4 DEF RecordsFor
  <2> QED
    BY <2>1, <2>2
<1>8. OneRecorder'
  BY <1>1, <1>2 DEF OneRecorder, Frame
<1>9. EvidenceOnce'
  BY <1>2, <1>3, <1>5, <1>6 DEF EvidenceOnce
<1>10. EvidenceNamesLinks'
  <2> SUFFICES ASSUME NEW k \in DOMAIN evidence'
               PROVE  {evidence'[k].incident} \X evidence'[k].ids
                          = {l \in links : l[1] = evidence'[k].incident}
    BY <1>1 DEF EvidenceNamesLinks, LinksOf
  <2>1. CASE k \in DOMAIN evidence
    BY <1>2, <1>5, <2>1 DEF EvidenceNamesLinks, LinksOf
  <2>2. CASE k = Len(evidence) + 1
    BY <1>3, <1>5, <1>6, <2>2 DEF LinksOf
  <2> QED
    BY <1>5, <2>1, <2>2
<1>11. EvidenceComes'
  <2> SUFFICES ASSUME NEW i \in DOMAIN incidents
               PROVE  \/ \E k \in DOMAIN evidence' : evidence'[k].incident = i
                      \/ \E u \in Threads : pc'[u] = "recording" /\ work'[u].incident = i
                      \/ faults > 0
    BY <1>1 DEF EvidenceComes
  <2>1. CASE i = work[t].incident
    BY <1>5, <1>6, <2>1
  <2>2. CASE i # work[t].incident
    BY <1>1, <1>2, <1>5, <2>2 DEF EvidenceComes, Frame
  <2> QED
    BY <2>1, <2>2
<1> QED
  BY <1>7, <1>8, <1>9, <1>10, <1>11 DEF Recorded

\* Every step keeps links and evidence together.
LEMMA RecordedStep == HandlerInv /\ Recorded /\ [Next]_vars => Recorded'
<1> SUFFICES ASSUME HandlerInv, Recorded, [Next]_vars PROVE Recorded'
  OBVIOUS
<1>0. faults \in Nat
  BY Bounds DEF HandlerInv, Typed
<1>1. CASE UNCHANGED vars
  BY <1>0, <1>1, RecordedKept DEF vars, handlerVars, storeVars
<1>2. CASE Next
  <2>1. Seen \/ Restarted \/ \E t \in Threads : Moved(t)
    BY <1>2, NextFacts DEF HandlerInv, TablesInv
  <2>2. /\ DOMAIN incidents = 1 .. Len(incidents) /\ DOMAIN incidents' = 1 .. Len(incidents')
        /\ \/ Len(incidents') = Len(incidents) /\ links' = links
           \/ \E t \in Threads : Opened(t)
    BY <2>1, IncidentsKept
  <2>3. CASE Seen /\ DOMAIN incidents' = DOMAIN incidents /\ links' = links
    <3>1. UNCHANGED <<evidence, pc, faults>>
      BY <2>3 DEF Seen, AnalystStep, EventPages, IncidentPages, DetectionPages, DeleteEvents,
           UpdateEventStatus, AddActivity, UpdateIncidentStatus, SetRuleEnabled
    <3>2. \A t \in Threads : work'[t].incident = work[t].incident /\ work'[t].ids = work[t].ids
      BY <2>3 DEF Seen
    <3> QED
      BY <2>3, <3>1, <3>2, RecordedKept
  <2>4. CASE Restarted /\ DOMAIN incidents' = DOMAIN incidents /\ links' = links
    <3>1. /\ UNCHANGED evidence /\ faults' > 0
          /\ \A t \in Threads : pc'[t] = "idle"
      BY <1>0, <2>4 DEF Restarted, Initialize
    <3>2. /\ UNCHANGED <<links, evidence>> /\ (faults > 0 => faults' > 0)
          /\ \A u \in Threads : pc'[u] = "recording" =>
                 /\ pc[u] = "recording" /\ work'[u].incident = work[u].incident
                 /\ work'[u].ids = work[u].ids
          /\ \A u \in Threads : pc[u] = "recording" =>
                 faults' > 0 \/ (pc'[u] = "recording" /\ work'[u].incident = work[u].incident)
      BY <2>4, <3>1
    <3> QED
      BY <2>4, <3>1, <3>2, RecordedKept
  <2>5. ASSUME NEW t \in Threads, Moved(t), ~ Opened(t), ~ Recording(t),
               DOMAIN incidents' = DOMAIN incidents, links' = links
        PROVE  Recorded'
    <3>1. Frame(t) /\ evidence' = evidence
      BY <2>5, Zenon DEF Moved, Started, Added, Fetched, Advanced, Ended, Skipped, Imported,
                  Left, WentOn, AddEvent, storeVars
    <3>2. pc'[t] # "recording"
      BY <2>5 DEF Moved, Started, Added, Fetched, Advanced, Ended, Skipped, Imported,
                  Left, WentOn
    <3>3. pc[t] = "recording" => faults' > 0
      BY <1>0, <2>5 DEF Moved, Started, Added, Fetched, Advanced, Ended, Skipped, Imported
    <3>4. faults > 0 => faults' > 0
      BY <1>0, <2>5 DEF Moved, Started, Added, Fetched, Advanced, Ended, Skipped, Imported
    <3>5. /\ UNCHANGED <<links, evidence>>
          /\ \A u \in Threads : pc'[u] = "recording" =>
                 /\ pc[u] = "recording" /\ work'[u].incident = work[u].incident
                 /\ work'[u].ids = work[u].ids
          /\ \A u \in Threads : pc[u] = "recording" =>
                 faults' > 0 \/ (pc'[u] = "recording" /\ work'[u].incident = work[u].incident)
      BY <2>5, <3>1, <3>2, <3>3, Zenon DEF Frame
    <3> QED
      BY <2>5, <3>4, <3>5, RecordedKept
  <2>6. ASSUME NEW t \in Threads, Moved(t), DOMAIN incidents' = DOMAIN incidents, links' = links
        PROVE  Recorded'
    BY <2>5, <2>6, RecordedOpened, RecordedRecording
  <2> QED
    BY <2>1, <2>2, <2>3, <2>4, <2>6, RecordedOpened
<1> QED
  BY <1>1, <1>2

\* There is no evidence at first.
LEMMA RecordedInit == Init => Recorded
BY DEF Init, StoreInit, Recorded, RecordsFor, OneRecorder, EvidenceOnce, EvidenceNamesLinks,
       EvidenceComes

\* The second transaction of create_incident records what the first one
\* linked, once and for the incident it opened, or a call or the process
\* failed between the two (engine.py:52-63).
THEOREM EvidenceIsComplete == Spec => []EvidenceMatchesIncident
<1>1. Recorded => EvidenceMatchesIncident
  BY DEF Recorded, EvidenceOnce, EvidenceNamesLinks, EvidenceComes, LinksOf,
         EvidenceMatchesIncident
<1> QED
  BY <1>1, RecordedInit, RecordedStep, HandlerInvariant, PTL DEF Spec

-----------------------------------------------------------------------------
(* What the store holds of a request.                                       *)

Origins ==
    /\ \A e \in events : e.body.origin \in 1 .. requests
    /\ \A t, u \in Threads : t # u /\ pc[t] # "idle" /\ pc[u] # "idle"
                                => work[t].origin # work[u].origin

\* The one event a handler may insert: what it says and where it comes from.
Inserted(t, e) ==
    /\ e.id = lastEvent + 1 /\ lastEvent' = lastEvent + 1
    /\ e.body.origin = work[t].origin
    /\ events' = events \cup {e}
    /\ UNCHANGED <<evidence, requests>>
    /\ pc[t] # "idle" /\ pc'[t] # "idle"
    /\ \/ /\ Added(t) /\ e.body = Pattern(work[t].rule, Len(work[t].ids) + 1, work[t].origin)
          /\ e.body.kind = "attempt"
       \/ Imported(t) /\ pc'[t] = "importing" /\ e.body.kind = "flow"
       \/ Imported(t) /\ pc'[t] = "checking" /\ e.body.kind = "alert" /\ e.id \in Own(t)'

\* A step of a handler inserts no other event than this.
LEMMA MovedInserts ==
    ASSUME HandlerInv, NEW t \in Threads, Moved(t)
    PROVE  /\ events' = events \/ \E e : Inserted(t, e)
           /\ Added(t) \/ Imported(t) => \E e : Inserted(t, e)
<1>1. Stage(t) /\ requests \in Nat
  BY Bounds DEF HandlerInv, Typed
<1>2. pc[t] # "idle" => work[t].origin \in 1 .. MaxRequests
  BY <1>1, Bounds DEF HandlerInv, Typed, Stage
<1>3. CASE Added(t)
  <2> DEFINE b == Pattern(work[t].rule, Len(work[t].ids) + 1, work[t].origin)
             e == [id |-> lastEvent + 1, body |-> b, status |-> "open"]
  <2>1. /\ work[t].rule \in AttackTypes /\ Len(work[t].ids) + 1 \in 1 .. Minimum
        /\ work[t].origin \in 1 .. MaxRequests
    BY <1>1, <1>2, <1>3, Bounds DEF Added, Stage, Searching, HandlerInv, Typed, WorkRecords
  <2>2. b.kind = "attempt" /\ b.origin = work[t].origin
    BY <2>1, PatternTyped
  <2>3. e.id = lastEvent + 1 /\ e.body = b
    OBVIOUS
  <2>4. /\ events' = events \cup {e} /\ lastEvent' = lastEvent + 1
        /\ UNCHANGED <<evidence, requests>>
        /\ pc[t] = "adding" /\ pc'[t] \in {"adding", "fetching"}
    BY <1>3 DEF Added, AddEvent, NextEventId
  <2> HIDE DEF e
  <2>5. Inserted(t, e)
    BY <1>3, <2>2, <2>3, <2>4 DEF Inserted
  <2> QED
    BY <2>5
<1>4. ASSUME NEW kind \in {"flow", "alert"}, Imported(t),
             AddEvent(SuricataBody(kind, work[t].origin)),
             \/ kind = "flow" /\ pc'[t] = "importing"
             \/ kind = "alert" /\ pc'[t] = "checking" /\ work'[t].ids = <<lastEvent + 1>>
      PROVE  \E e : Inserted(t, e)
  <2> DEFINE b == SuricataBody(kind, work[t].origin)
             e == [id |-> lastEvent + 1, body |-> b, status |-> "open"]
  <2>1. b.kind = kind /\ b.origin = work[t].origin
    BY <1>2, <1>4, SuricataTyped DEF Imported
  <2>2. e.id = lastEvent + 1 /\ e.body = b
    OBVIOUS
  <2>3. /\ events' = events \cup {e} /\ lastEvent' = lastEvent + 1
        /\ UNCHANGED <<evidence, requests>> /\ pc[t] = "importing"
    BY <1>4 DEF Imported, AddEvent, NextEventId
  <2>4. kind = "alert" => lastEvent + 1 \in Own(t)'
    BY <1>4 DEF Own, ToSet
  <2> HIDE DEF e, b
  <2>5. Inserted(t, e)
    BY <1>4, <2>1, <2>2, <2>3, <2>4 DEF Inserted
  <2> QED
    BY <2>5
<1>5. CASE Imported(t)
  <2>1. CASE AddEvent(SuricataBody("flow", work[t].origin)) /\ pc'[t] = "importing"
    BY <1>4, <1>5, <2>1
  <2>2. CASE /\ AddEvent(SuricataBody("alert", work[t].origin)) /\ pc'[t] = "checking"
             /\ work'[t].ids = <<lastEvent + 1>>
    BY <1>4, <1>5, <2>2
  <2> QED
    BY <1>5, <2>1, <2>2 DEF Imported
<1> QED
  BY <1>3, <1>5 DEF Moved, Started, Fetched, Advanced, Opened, Ended, Recording, Skipped,
                    CreateIncident, AddEvidence, storeVars

\* Every request has an origin of its own.
LEMMA OriginsStep ==
    ASSUME HandlerInv, Origins, Seen \/ Restarted \/ \E t \in Threads : Moved(t)
    PROVE  Origins'
<1>0. requests \in Nat /\ requests' \in Nat /\ requests <= requests'
  BY Growth
<1>1. CASE Seen
  <2>1. \A e \in events' : \E f \in events : f.body = e.body
    BY <1>1, PagesKeepBodies DEF Seen, HandlerInv
  <2> QED
    BY <1>1, <2>1 DEF Seen, Origins
<1>2. CASE Restarted
  BY <1>2 DEF Restarted, Initialize, Origins
<1>3. ASSUME NEW t \in Threads, Moved(t) PROVE Origins'
  <2>1. Frame(t)
    BY <1>3, Zenon DEF Moved, Started, Added, Fetched, Advanced, Opened, Ended,
                Recording, Skipped, Imported, Left, WentOn
  <2>2. \A u \in Threads : pc[u] # "idle" => work[u].origin \in 1 .. requests
    BY DEF HandlerInv, Stage
  <2>3. \/ pc'[t] = "idle"
        \/ pc[t] # "idle" /\ work'[t].origin = work[t].origin
        \/ work'[t].origin = requests + 1
    BY <1>3 DEF Moved, Started, Added, Fetched, Advanced, Opened, Ended, Recording, Skipped,
                Imported, Left, WentOn, Kept
  <2>4. \A u \in Threads \ {t} : pc'[t] # "idle" /\ pc[u] # "idle"
                                     => work'[t].origin # work[u].origin
    BY <1>0, <2>2, <2>3 DEF Origins
  <2>5. \A e \in events' : e.body.origin \in 1 .. requests'
    <3>1. CASE events' = events
      BY <1>0, <3>1 DEF Origins
    <3>2. ASSUME NEW e, Inserted(t, e) PROVE \A f \in events' : f.body.origin \in 1 .. requests'
      BY <2>2, <3>2 DEF Inserted, Origins
    <3> QED
      BY <1>3, <3>1, <3>2, MovedInserts
  <2> QED
    BY <2>1, <2>4, <2>5 DEF Origins, Frame
<1> QED
  BY <1>1, <1>2, <1>3

-----------------------------------------------------------------------------
(* What an upload leaves.                                                   *)

Documented(id) == \E k \in DOMAIN evidence : id \in evidence[k].ids

ReportedBy(t) ==
    pc[t] # "idle" /\ ~ work[t].disturbed =>
        \A e \in events : e.body.kind = "alert" /\ e.body.origin = work[t].origin =>
            \/ Documented(e.id)
            \/ pc[t] \in {"checking", "opening", "recording"} /\ e.id \in Own(t)

\* Every alert of an undisturbed upload is in the evidence of an incident, or
\* it is the one the upload is busy with.
Reported == \A t \in Threads : ReportedBy(t)

\* Evidence is never taken back.
LEMMA DocumentedStays ==
    ASSUME HandlerInv, NEW t \in Threads, Moved(t)
    PROVE  /\ \A id : Documented(id) => Documented(id)'
           /\ Recording(t) => \A id \in Own(t) : Documented(id)'
<1>1. CASE evidence' = evidence /\ ~ Recording(t)
  BY <1>1 DEF Documented
<1>2. CASE Recording(t)
  <2> DEFINE row == [incident |-> work[t].incident, ids |-> Own(t)]
  <2>1. evidence' = Append(evidence, row) /\ evidence \in Seq(Evidence)
    BY <1>2 DEF Recording, AddEvidence, Own, HandlerInv, TablesInv, StoreTypeOK
  <2>2. evidence \in Seq(Evidence \cup {row}) /\ row \in Evidence \cup {row}
    BY <2>1
  <2>3. /\ DOMAIN evidence = 1 .. Len(evidence) /\ Len(evidence) \in Nat
        /\ DOMAIN evidence' = 1 .. Len(evidence) + 1
        /\ \A k \in 1 .. Len(evidence) : evidence'[k] = evidence[k]
        /\ evidence'[Len(evidence) + 1] = row
    BY <2>1, <2>2, AppendFacts
  <2>4. row.ids = Own(t)
    OBVIOUS
  <2> HIDE DEF row
  <2> QED
    BY <2>3, <2>4 DEF Documented
<1>3. Recording(t) \/ evidence' = evidence
  BY DEF Moved, Started, Added, Fetched, Advanced, Opened, Ended, Skipped,
         Imported, AddEvent, CreateIncident, storeVars
<1> QED
  BY <1>1, <1>2, <1>3

\* An alert gets its incident before the upload goes on.
LEMMA ReportedStep ==
    ASSUME HandlerInv, Watched, Origins, Reported,
           Seen \/ Restarted \/ \E t \in Threads : Moved(t)
    PROVE  Reported'
<1>1. CASE Seen
  <2> SUFFICES ASSUME NEW t \in Threads PROVE ReportedBy(t)'
    BY DEF Reported
  <2>1. /\ \A e \in events' : \E f \in events : f.id = e.id /\ f.body = e.body
        /\ evidence' = evidence
    BY <1>1, PagesKeepBodies DEF Seen, HandlerInv
  <2>2. /\ pc'[t] = pc[t] /\ work'[t].origin = work[t].origin
        /\ pc[t] # "idle" => (work[t].disturbed => work'[t].disturbed)
        /\ work'[t].ids = work[t].ids
    BY <1>1 DEF Seen
  <2>3. Own(t)' = Own(t) /\ \A id : Documented(id)' = Documented(id)
    BY <2>1, <2>2 DEF Own, Documented
  <2> QED
    BY <2>1, <2>2, <2>3 DEF Reported, ReportedBy
<1>2. CASE Restarted
  BY <1>2 DEF Restarted, Reported, ReportedBy
<1>3. ASSUME NEW t \in Threads, Moved(t) PROVE Reported'
  <2>1. Frame(t)
    BY <1>3, Zenon DEF Moved, Started, Added, Fetched, Advanced, Opened, Ended,
                Recording, Skipped, Imported, Left, WentOn
  <2>2. /\ \A id : Documented(id) => Documented(id)'
        /\ Recording(t) => \A id \in Own(t) : Documented(id)'
    BY <1>3, DocumentedStays
  <2>3. ASSUME NEW u \in Threads, u # t PROVE ReportedBy(u)'
    <3>1. Own(u)' = Own(u) /\ work'[u] = work[u] /\ pc'[u] = pc[u] /\ ReportedBy(u)
      BY <2>1, <2>3 DEF Frame, Own, Reported
    <3>2. ASSUME NEW e, Inserted(t, e), pc[u] # "idle"
          PROVE  e.body.origin # work[u].origin
      BY <2>3, <3>2 DEF Inserted, Origins
    <3>3. CASE events' = events
      BY <2>2, <3>1, <3>3 DEF ReportedBy
    <3>4. ASSUME NEW e, Inserted(t, e) PROVE ReportedBy(u)'
      <4>1. events' = events \cup {e}
        BY <3>4 DEF Inserted
      <4> QED
        BY <2>2, <3>1, <3>2, <3>4, <4>1 DEF ReportedBy
    <3> QED
      BY <1>3, <3>3, <3>4, MovedInserts
  <2>4. ReportedBy(t)'
    <3>1. CASE Started(t)
      <4>1. requests \in Nat /\ events' = events /\ work'[t].origin = requests + 1
        BY <3>1, Bounds DEF Started, storeVars, HandlerInv, Typed
      <4>2. \A e \in events : e.body.origin # requests + 1
        BY <4>1 DEF Origins
      <4> QED
        BY <4>1, <4>2 DEF ReportedBy
    <3>2. CASE Added(t) \/ Imported(t)
      <4>1. PICK e : Inserted(t, e)
        BY <1>3, <3>2, MovedInserts
      <4>2. events' = events \cup {e} /\ pc[t] \in {"adding", "importing"}
        BY <3>2, <4>1 DEF Inserted, Added, Imported
      <4>3. work'[t].origin = work[t].origin /\ work'[t].disturbed = work[t].disturbed
        BY <3>2 DEF Added, Imported, Kept
      <4>4. e.body.kind = "alert" => pc'[t] = "checking" /\ e.id \in Own(t)'
        BY <4>1 DEF Inserted
      <4> QED
        BY <2>2, <4>2, <4>3, <4>4 DEF Reported, ReportedBy
    <3>3. CASE Fetched(t) \/ Advanced(t) \/ Opened(t) \/ Skipped(t)
      <4>1. /\ events' = events /\ work'[t].ids = work[t].ids
            /\ work'[t].origin = work[t].origin /\ work'[t].disturbed = work[t].disturbed
            /\ pc[t] # "idle"
            /\ pc[t] \in {"checking", "opening", "recording"}
                   => pc'[t] \in {"checking", "opening", "recording"}
        BY <3>3 DEF Fetched, Advanced, Opened, Skipped, Kept, CreateIncident, storeVars
      <4>2. Own(t)' = Own(t)
        BY <4>1 DEF Own
      <4> QED
        BY <2>2, <4>1, <4>2 DEF Reported, ReportedBy
    <3>4. CASE Left(t)
      BY <3>4 DEF Left, ReportedBy
    <3>5. CASE Ended(t) /\ WentOn(t)
      <4>1. work[t].disturbed /\ work'[t].disturbed = work[t].disturbed
        BY <3>5 DEF Ended, WentOn, Left, Kept, Watched, WatchedBy
      <4> QED
        BY <4>1 DEF ReportedBy
    <3>6. CASE Recording(t) /\ WentOn(t)
      <4>1. /\ events' = events /\ work'[t].origin = work[t].origin
            /\ work'[t].disturbed = work[t].disturbed /\ pc[t] # "idle"
        BY <3>6 DEF Recording, AddEvidence, WentOn, Kept
      <4> QED
        BY <2>2, <3>6, <4>1 DEF Reported, ReportedBy
    <3> QED
      BY <1>3, <3>1, <3>2, <3>3, <3>4, <3>5, <3>6 DEF Moved, Ended, Recording
  <2> QED
    BY <2>3, <2>4 DEF Reported
<1> QED
  BY <1>1, <1>2, <1>3

UploadInv == Watched /\ Origins /\ Reported

\* Every step keeps what an upload leaves.
LEMMA UploadStep == HandlerInv /\ UploadInv /\ [Next]_vars => UploadInv'
<1> SUFFICES ASSUME HandlerInv, UploadInv, [Next]_vars PROVE UploadInv'
  OBVIOUS
<1>1. CASE UNCHANGED vars
  BY <1>1 DEF vars, handlerVars, storeVars, UploadInv, Watched, WatchedBy,
              DisabledRulesAreSilent, Origins, Reported, ReportedBy, Documented, Own
<1>2. CASE Next
  <2>1. Seen \/ Restarted \/ \E t \in Threads : Moved(t)
    BY <1>2, NextFacts DEF HandlerInv, TablesInv
  <2> QED
    BY <2>1, WatchedStep, OriginsStep, ReportedStep DEF UploadInv
<1> QED
  BY <1>1, <1>2

\* Nothing was uploaded at first.
LEMMA UploadInit == Init => UploadInv
<1>1. Init => Origins /\ Reported
  BY DEF Init, StoreInit, Origins, Reported, ReportedBy
<1> QED
  BY <1>1, WatchedInit DEF UploadInv

\* The request of a thread is over, and nothing failed in this step.
LEMMA EndOfUpload ==
    UploadInv =>
        \A t \in Threads :
            pc[t] = "importing" /\ pc'[t] = "idle" /\ faults' = faults /\ ~ work[t].disturbed
            => \A e \in events :
                  e.body.kind = "alert" /\ e.body.origin = work[t].origin
                  => \E k \in DOMAIN evidence : e.id \in evidence[k].ids
BY DEF UploadInv, Reported, ReportedBy, Documented

\* Whatever other threads, the analyst and restarts do meanwhile, an upload
\* that ends leaves each of its alerts in the evidence of an incident, unless
\* its rule was off or events were deleted (app/__init__.py:442-474).
THEOREM UploadsAreDocumented == Spec => UploadsLeaveNoLooseEnds
BY EndOfUpload, UploadInit, UploadStep, HandlerInvariant, PTL DEF Spec, UploadsLeaveNoLooseEnds

-----------------------------------------------------------------------------
(* What an attack finds.                                                    *)

\* The events of an undisturbed attack are in the store as they were added,
\* and those read back say what was added.
Remembers(t) ==
    pc[t] \in Searching /\ ~ work[t].disturbed =>
        /\ \A j \in 1 .. Len(work[t].ids) :
              \E e \in events : /\ e.id = work[t].ids[j]
                                /\ e.body = Pattern(work[t].rule, j, work[t].origin)
        /\ Len(work[t].found) = work[t].asked
        /\ \A j \in 1 .. work[t].asked :
              work[t].found[j] = Pattern(work[t].rule, j, work[t].origin)

Remembered == \A t \in Threads : Remembers(t)

\* A page that leaves the ids alone leaves the events of the attack.
LEMMA RemembersSeen ==
    ASSUME HandlerInv, Remembered, Seen, NEW t \in Threads
    PROVE  Remembers(t)'
<1>1. \A e \in events' : \E f \in events : f.id = e.id /\ f.body = e.body
  BY PagesKeepBodies DEF Seen, HandlerInv
<1>2. \A e, f \in events : e.id = f.id => e = f
  BY DEF HandlerInv, TablesInv, EventIdsAreUnique
<1>3. /\ pc'[t] = pc[t] /\ work'[t].origin = work[t].origin /\ work'[t].rule = work[t].rule
      /\ work'[t].ids = work[t].ids /\ work'[t].found = work[t].found
      /\ work'[t].asked = work[t].asked
  BY DEF Seen
<1>4. ASSUME pc[t] # "idle", ~ work'[t].disturbed
      PROVE  ~ work[t].disturbed /\ {e.id : e \in events} = {e.id : e \in events'}
  BY <1>4 DEF Seen
<1>5. ASSUME pc[t] # "idle", ~ work'[t].disturbed, NEW e \in events
      PROVE  \E f \in events' : f.id = e.id /\ f.body = e.body
  <2>1. PICK f \in events' : f.id = e.id
    BY <1>4, <1>5
  <2> QED
    BY <1>1, <1>2, <2>1
<1>6. ASSUME pc'[t] \in Searching, ~ work'[t].disturbed
      PROVE  /\ \A j \in 1 .. Len(work'[t].ids) :
                   \E e \in events' : /\ e.id = work'[t].ids[j]
                                      /\ e.body = Pattern(work'[t].rule, j, work'[t].origin)
             /\ Len(work'[t].found) = work'[t].asked
             /\ \A j \in 1 .. work'[t].asked :
                   work'[t].found[j] = Pattern(work'[t].rule, j, work'[t].origin)
  <2>1. pc[t] # "idle" /\ pc[t] \in Searching /\ ~ work[t].disturbed
    BY <1>3, <1>4, <1>6 DEF Searching
  <2>2. /\ \A j \in 1 .. Len(work[t].ids) :
              \E e \in events : /\ e.id = work[t].ids[j]
                                /\ e.body = Pattern(work[t].rule, j, work[t].origin)
        /\ Len(work[t].found) = work[t].asked
        /\ \A j \in 1 .. work[t].asked :
              work[t].found[j] = Pattern(work[t].rule, j, work[t].origin)
    BY <2>1 DEF Remembered, Remembers
  <2>3. \A e \in events : \E f \in events' : f.id = e.id /\ f.body = e.body
    BY <1>5, <1>6, <2>1
  <2> QED
    BY <1>3, <2>2, <2>3
<1> QED
  BY <1>6 DEF Remembers

\* One more attempt is in the store.
LEMMA RemembersAdded ==
    ASSUME HandlerInv, Remembered, NEW t \in Threads, Added(t)
    PROVE  Remembers(t)'
<1> DEFINE s == work[t].ids
           n == lastEvent + 1
           g == Append(s, n)
<1>1. /\ pc[t] = "adding" /\ work'[t].ids = g
      /\ work'[t].found = work[t].found /\ work'[t].asked = work[t].asked
      /\ work'[t].rule = work[t].rule /\ work'[t].origin = work[t].origin
      /\ work'[t].disturbed = work[t].disturbed
  BY DEF Added, Kept, KeptFinds
<1>2. PICK e : /\ e.id = n /\ events' = events \cup {e}
               /\ e.body = Pattern(work[t].rule, Len(s) + 1, work[t].origin)
  <2>1. \E e : Inserted(t, e)
    BY MovedInserts DEF Moved
  <2>2. pc'[t] # "importing" /\ pc'[t] # "checking"
    BY DEF Added
  <2> QED
    BY <2>1, <2>2 DEF Inserted
<1>3. /\ s \in Seq(Nat) /\ Len(s) \in Nat /\ Len(g) = Len(s) + 1 /\ g[Len(s) + 1] = n
      /\ \A i \in 1 .. Len(s) : g[i] = s[i]
      /\ \A i \in 1 .. Len(g) : i \in 1 .. Len(s) \/ i = Len(s) + 1
  <2>1. s \in Seq(Nat) /\ n \in Nat
    <3>1. lastEvent \in 0 .. MaxEvents
      BY DEF HandlerInv, TablesInv, StoreTypeOK
    <3> QED
      BY <3>1, OwnFacts
  <2> HIDE DEF s, n
  <2> QED
    BY <2>1
<1> HIDE DEF g, n
<1>4. ASSUME ~ work[t].disturbed
      PROVE  /\ \A j \in 1 .. Len(g) :
                   \E f \in events' : /\ f.id = g[j]
                                      /\ f.body = Pattern(work[t].rule, j, work[t].origin)
             /\ Len(work[t].found) = work[t].asked
             /\ \A j \in 1 .. work[t].asked :
                   work[t].found[j] = Pattern(work[t].rule, j, work[t].origin)
  <2>1. /\ \A j \in 1 .. Len(s) :
              \E f \in events : /\ f.id = s[j]
                                /\ f.body = Pattern(work[t].rule, j, work[t].origin)
        /\ Len(work[t].found) = work[t].asked
        /\ \A j \in 1 .. work[t].asked :
              work[t].found[j] = Pattern(work[t].rule, j, work[t].origin)
    BY <1>1, <1>4 DEF Remembered, Remembers, Searching
  <2> HIDE DEF s
  <2> QED
    BY <1>2, <1>3, <2>1
<1> QED
  BY <1>1, <1>4 DEF Remembers

\* One more event of the attack was read back, and it says what was added.
LEMMA RemembersFetched ==
    ASSUME HandlerInv, Remembered, NEW t \in Threads, Fetched(t)
    PROVE  Remembers(t)'
<1> DEFINE k == work[t].asked + 1
           P(j) == Pattern(work[t].rule, j, work[t].origin)
<1>1. /\ pc[t] = "fetching" /\ work'[t].ids = work[t].ids
      /\ work'[t].asked = k /\ events' = events
      /\ work'[t].rule = work[t].rule /\ work'[t].origin = work[t].origin
      /\ work'[t].disturbed = work[t].disturbed
  BY DEF Fetched, Kept, storeVars
<1>2. /\ work[t].asked \in Nat /\ work[t].found \in Seq(Bodies)
      /\ k \in 1 .. Len(work[t].ids)
  <2>1. work[t] \in WorkRecords /\ Stage(t)
    BY DEF HandlerInv, Typed
  <2>2. work[t].asked \in Nat /\ work[t].found \in Seq(Bodies)
    BY <2>1 DEF WorkRecords
  <2> QED
    BY <1>1, <2>1, <2>2, Bounds DEF Stage
<1>3. ASSUME ~ work[t].disturbed
      PROVE  /\ Len(work'[t].found) = k
             /\ \A j \in 1 .. k : work'[t].found[j] = P(j)
  <2>1. /\ \A j \in 1 .. Len(work[t].ids) : \E f \in events : f.id = work[t].ids[j] /\ f.body = P(j)
        /\ Len(work[t].found) = work[t].asked
        /\ \A j \in 1 .. work[t].asked : work[t].found[j] = P(j)
    BY <1>1, <1>3 DEF Remembered, Remembers, Searching
  <2>2. PICK f \in events : f.id = work[t].ids[k] /\ f.body = P(k)
    BY <1>2, <2>1
  <2>3. PICK e \in events : /\ e.id = work[t].ids[k]
                            /\ work'[t].found = Append(work[t].found, e.body)
    BY <2>2 DEF Fetched
  <2>4. e = f
    BY <2>2, <2>3 DEF HandlerInv, TablesInv, EventIdsAreUnique
  <2>5. f.body \in Bodies
    BY DEF HandlerInv, TablesInv, StoreTypeOK, Event
  <2>6. /\ Len(work'[t].found) = Len(work[t].found) + 1
        /\ work'[t].found[Len(work[t].found) + 1] = P(k)
        /\ \A j \in 1 .. Len(work[t].found) : work'[t].found[j] = work[t].found[j]
    BY <1>2, <2>2, <2>3, <2>4, <2>5, AppendFacts
  <2>7. \A j \in 1 .. k : j \in 1 .. work[t].asked \/ j = k
    BY <1>2
  <2>8. Len(work[t].found) + 1 = k
    BY <2>1
  <2> HIDE DEF P, k
  <2>9. \A j \in 1 .. work[t].asked : work'[t].found[j] = P(j)
    BY <2>1, <2>6
  <2>10. Len(work'[t].found) = k /\ work'[t].found[k] = P(k)
    BY <2>6, <2>8
  <2> QED
    BY <2>7, <2>9, <2>10
<1> HIDE DEF k
<1>4. ASSUME ~ work[t].disturbed
      PROVE  \A j \in 1 .. Len(work[t].ids) : \E f \in events : f.id = work[t].ids[j] /\ f.body = P(j)
  BY <1>1, <1>4 DEF Remembered, Remembers, Searching
<1> QED
  BY <1>1, <1>3, <1>4 DEF Remembers

\* Every step keeps what an attack remembers.
LEMMA RememberedStep == HandlerInv /\ Remembered /\ [Next]_vars => Remembered'
<1> SUFFICES ASSUME HandlerInv, Remembered, [Next]_vars PROVE Remembered'
  OBVIOUS
<1>1. CASE UNCHANGED vars
  BY <1>1 DEF vars, handlerVars, storeVars, Remembered, Remembers
<1>2. CASE Next
  <2>1. Seen \/ Restarted \/ \E t \in Threads : Moved(t)
    BY <1>2, NextFacts DEF HandlerInv, TablesInv
  <2>2. CASE Seen
    BY <2>2, RemembersSeen DEF Remembered
  <2>3. CASE Restarted
    BY <2>3 DEF Restarted, Remembered, Remembers, Searching
  <2>4. ASSUME NEW t \in Threads, Moved(t) PROVE Remembered'
    <3>1. Frame(t) /\ events \subseteq events'
      <4>1. Frame(t)
        BY <2>4, Zenon DEF Moved, Started, Added, Fetched, Advanced, Opened, Ended,
                    Recording, Skipped, Imported, Left, WentOn
      <4>2. events \subseteq events'
        BY <2>4, MovedInserts DEF Inserted
      <4> QED
        BY <4>1, <4>2
    <3>2. \A u \in Threads \ {t} : Remembers(u)'
      BY <3>1 DEF Remembered, Remembers, Frame
    <3>3. CASE Started(t)
      <4>1. /\ Len(work'[t].ids) = 0 /\ work'[t].asked = 0 /\ Len(work'[t].found) = 0
        BY <3>3 DEF Started
      <4> QED
        BY <3>2, <4>1 DEF Remembered, Remembers
    <3>4. CASE Added(t)
      BY <3>2, <3>4, RemembersAdded DEF Remembered
    <3>5. CASE Fetched(t)
      BY <3>2, <3>5, RemembersFetched DEF Remembered
    <3>6. CASE pc'[t] \notin Searching
      BY <3>2, <3>6 DEF Remembered, Remembers
    <3> QED
      BY <2>4, <3>3, <3>4, <3>5, <3>6
         DEF Moved, Advanced, Opened, Ended, Recording, Skipped, Imported, Left, WentOn, Searching
  <2> QED
    BY <2>1, <2>2, <2>3, <2>4
<1> QED
  BY <1>1, <1>2

\* No attack runs at first.
LEMMA RememberedInit == Init => Remembered
BY DEF Init, Remembered, Remembers, Searching

\* A whole pattern satisfies the condition of its own rule (engine.py:71-76).
LEMMA PatternMatches ==
    ASSUME NEW attack \in AttackTypes, NEW o, NEW found \in Seq(Bodies), Len(found) = Minimum,
           \A j \in 1 .. Minimum : found[j] = Pattern(attack, j, o)
    PROVE  Matches(attack, found)
<1> DEFINE bodies == ToSet(found)
           sources == {b.source : b \in bodies}
           users == {b.user : b \in bodies}
           prints == {b.print : b \in bodies}
           pairs == {<<b.user, b.print>> : b \in bodies}
<1>1. /\ Minimum \in Nat /\ 1 \in 1 .. Minimum
      /\ \A x : x \in bodies <=> \E j \in 1 .. Minimum : x = Pattern(attack, j, o)
  BY Bounds DEF ToSet
<1>2. Minimum >= Minimum
  BY <1>1
<1>3. \A S : (\E x : S = {x}) => Cardinality(S) = 1
  BY FS_Singleton
<1> HIDE DEF bodies
<1>4. CASE attack = "brute_force"
  <2>1. \A j \in 1 .. Minimum : Pattern(attack, j, o).source = 0 /\ Pattern(attack, j, o).user = 0
    BY <1>4 DEF Pattern, Attempt
  <2>2. sources = {0} /\ users = {0}
    BY <1>1, <2>1
  <2>3. Cardinality(sources) = 1 /\ Cardinality(users) = 1
    BY <1>3, <2>2
  <2> QED
    BY <1>2, <1>4, <2>3 DEF Matches, EnoughEvents, bodies
<1>5. CASE attack = "password_spray"
  <2>1. \A j \in 1 .. Minimum : Pattern(attack, j, o).user = j /\ Pattern(attack, j, o).print = 0
    BY <1>5 DEF Pattern, Attempt
  <2>2. users = 1 .. Minimum /\ prints = {0}
    BY <1>1, <2>1
  <2>3. Cardinality(users) = Minimum /\ Cardinality(prints) = 1
    BY <1>1, <1>3, <2>2, IntervalCounted
  <2> QED
    BY <1>2, <1>5, <2>3 DEF Matches, EnoughEvents, bodies
<1>6. CASE attack = "credential_stuffing"
  <2> DEFINE f == [j \in 1 .. Minimum |-> <<j, j>>]
  <2>1. \A j \in 1 .. Minimum : Pattern(attack, j, o).user = j /\ Pattern(attack, j, o).print = j
    BY <1>6 DEF Pattern, Attempt
  <2>2. \A x : x \in pairs <=> \E j \in 1 .. Minimum : x = <<j, j>>
    BY <1>1, <2>1
  <2>3. /\ f \in [1 .. Minimum -> pairs]
        /\ \A i, j \in 1 .. Minimum : f[i] = f[j] => i = j
        /\ \A x \in pairs : \E j \in 1 .. Minimum : f[j] = x
    BY <2>2
  <2> HIDE DEF f, pairs
  <2>4. Cardinality(pairs) = Minimum
    BY <1>1, <2>3, Counted
  <2> QED
    BY <1>2, <1>6, <2>4 DEF Matches, EnoughEvents, bodies, pairs
<1>7. CASE attack = "distributed"
  <2>1. \A j \in 1 .. Minimum : Pattern(attack, j, o).source = j /\ Pattern(attack, j, o).user = 0
    BY <1>7 DEF Pattern, Attempt
  <2>2. sources = 1 .. Minimum /\ users = {0}
    BY <1>1, <2>1
  <2>3. Cardinality(sources) = Minimum /\ Cardinality(users) = 1
    BY <1>1, <1>3, <2>2, IntervalCounted
  <2> QED
    BY <1>2, <1>7, <2>3 DEF Matches, EnoughEvents, bodies
<1> QED
  BY <1>4, <1>5, <1>6, <1>7, AttackTypesAssumption

\* An attack is answered "no match" only if it was disturbed.
LEMMA NoMatch ==
    ASSUME HandlerInv, Watched, Remembered, Next, NEW t \in Threads,
           answer'[t] = "no match", pc[t] # "idle", pc'[t] = "idle"
    PROVE  work[t].disturbed
<1>1. /\ pc \in [Threads -> Steps] /\ answer \in [Threads -> Answers]
      /\ work[t] \in WorkRecords /\ Stage(t)
  BY DEF HandlerInv, Typed
<1>2. ASSUME NEW text, Answer(t, text) PROVE answer'[t] = text
  BY <1>1, <1>2 DEF Answer
<1>3. ASSUME NEW u \in Threads, u # t, NEW step, Goto(u, step) PROVE FALSE
  BY <1>1, <1>3 DEF Goto
<1>4. ASSUME UNCHANGED pc PROVE FALSE
  BY <1>4
<1>5. ASSUME NEW step, step # "idle", Goto(t, step) PROVE FALSE
  BY <1>1, <1>5 DEF Goto
<1>6. CASE Correlate(t)
  <2>1. pc[t] = "matching" /\ ~ Matches(work[t].rule, work[t].found)
    BY <1>5, <1>6 DEF Correlate
  <2>2. /\ work[t].rule \in AttackTypes /\ work[t].asked = Minimum
        /\ work[t].found \in Seq(Bodies)
    BY <1>1, <2>1 DEF Stage, Searching, WorkRecords
  <2>3. CASE ~ work[t].disturbed
    <3>1. /\ Len(work[t].found) = Minimum
          /\ \A j \in 1 .. Minimum :
                work[t].found[j] = Pattern(work[t].rule, j, work[t].origin)
      BY <2>1, <2>2, <2>3 DEF Remembered, Remembers, Searching
    <3> QED
      BY <2>1, <2>2, <3>1, PatternMatches
  <2> QED
    BY <2>3
<1>7. CASE CheckRule(t)
  <2>1. pc[t] = "checking" /\ ~ enabled[work[t].rule]
    BY <1>5, <1>7 DEF CheckRule, RuleAllows
  <2> QED
    BY <2>1 DEF Watched, WatchedBy
<1>8. ASSUME NEW text, Resume(t, text) PROVE answer'[t] = text
  BY <1>2, <1>5, <1>8 DEF Resume
<1>9. CASE RecordEvidence(t) \/ ImportLine(t) \/ EndUpload(t) \/ CallFails(t)
  BY <1>2, <1>4, <1>5, <1>8, <1>9 DEF RecordEvidence, ImportLine, EndUpload, CallFails
<1>10. CASE AddAttempt(t) \/ FetchEvent(t) \/ OpenIncident(t)
  BY <1>4, <1>5, <1>10 DEF AddAttempt, FetchEvent, OpenIncident
<1>11. ASSUME NEW u \in Threads, u # t, Step(u) \/ CallFails(u) PROVE FALSE
  BY <1>3, <1>4, <1>11 DEF Step, CallFails, AddAttempt, FetchEvent, Correlate, CheckRule,
        OpenIncident, RecordEvidence, ImportLine, EndUpload, Answer, Resume
<1>12. ASSUME NEW u \in Threads, NEW rule, NEW lines, NEW step, Begin(u, rule, lines, step)
       PROVE  FALSE
  <2>1. CASE u # t
    BY <1>3, <1>12, <2>1 DEF Begin
  <2>2. CASE u = t
    BY <1>12, <2>2 DEF Begin
  <2> QED
    BY <2>1, <2>2
<1>13. CASE Analyst
  BY <1>4, <1>13 DEF Analyst
<1>14. CASE Restart
  BY <1>14 DEF Restart
<1> QED
  BY <1>6, <1>7, <1>9, <1>10, <1>11, <1>12, <1>13, <1>14
     DEF Next, Step, StartAttack, StartUpload

\* Left alone, every pattern is found by its own rule: the events are read
\* back as they were added, whatever other threads insert in between
\* (engine.py:66-85).
THEOREM AttacksAreFound == Spec => UndisturbedAttacksAreFound
<1>1. HandlerInv /\ UploadInv /\ Remembered /\ [Next]_vars =>
          [\A t \in Threads : answer'[t] = "no match" /\ pc[t] # "idle" /\ pc'[t] = "idle"
              => work[t].disturbed]_vars
  <2> SUFFICES ASSUME HandlerInv, UploadInv, Remembered, Next, NEW t \in Threads,
                      answer'[t] = "no match", pc[t] # "idle", pc'[t] = "idle"
               PROVE  work[t].disturbed
    OBVIOUS
  <2> QED
    BY NoMatch DEF UploadInv
<1> QED
  BY <1>1, UploadInit, UploadStep, RememberedInit, RememberedStep, HandlerInvariant, PTL
     DEF Spec, UndisturbedAttacksAreFound
=============================================================================
