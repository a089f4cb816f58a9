----------------------------- MODULE EventStore -----------------------------
(* The tables of app/store.py that an investigation lives in, and the       *)
(* methods that change them.  Every method opens a connection, runs its     *)
(* statements and commits once (connect, 91-99), so a method is one atomic  *)
(* step; none holds anything between two calls.                             *)
EXTENDS Naturals, Sequences, FiniteSets

CONSTANTS
    Rules,              \* security/engine.py:12, the rule ids
    Bodies,             \* what an event says: its source and metadata
    EventStatuses,      \* store.py:21, "open" among them
    IncidentStatuses,   \* store.py:324, "open" among them
    MaxEvents,          \* bound: events ever inserted
    MaxIncidents,       \* bound: incidents
    MaxActivity,        \* bound: rows of incident_activity
    MaxEvidence         \* bound: rows of evidence

ASSUME BoundsAssumption == {MaxEvents, MaxIncidents, MaxActivity, MaxEvidence} \subseteq Nat
ASSUME StatusAssumption == /\ "open" \in EventStatuses /\ "open" \in IncidentStatuses
                           /\ {"created", "note"} \cap IncidentStatuses = {}

VARIABLES
    events,      \* the rows of events
    lastEvent,   \* sqlite_sequence of events: the largest id ever given
    enabled,     \* enabled[r]: detection_rules.enabled of rule r
    incidents,   \* the incidents; no code deletes one, so id = position
    links,       \* the rows of incident_events
    activity,    \* the rows of incident_activity, in id order
    evidence,    \* the rows of evidence, in id order
    wanted       \* history variable: what the analyst last asked of a rule

storeVars == <<events, lastEvent, enabled, incidents, links, activity, evidence, wanted>>

Event == [id : 1 .. MaxEvents, body : Bodies, status : EventStatuses]
Incident == [rule : Rules, status : IncidentStatuses]
Activity == [incident : 1 .. MaxIncidents, action : IncidentStatuses \cup {"created", "note"}]
Evidence == [incident : 1 .. MaxIncidents, ids : SUBSET (1 .. MaxEvents)]

\* Mutated form of UpsertRules: the upsert writes the default of every column.
UpsertEveryColumn == enabled' = [r \in Rules |-> TRUE]

\* upsert_rule for all rules (231-242, engine.py:40-41): a rule that is
\* already there keeps its enabled flag.
UpsertRules == enabled' = enabled

StoreInit ==
    /\ events = {}
    /\ lastEvent = 0
    /\ enabled = [r \in Rules |-> TRUE]
    /\ incidents = <<>>
    /\ links = {}
    /\ activity = <<>>
    /\ evidence = <<>>
    /\ wanted = enabled

\* A new process opens the same database.
Initialize ==
    /\ UpsertRules
    /\ UNCHANGED <<events, lastEvent, incidents, links, activity, evidence, wanted>>

\* Mutated form of NextEventId: INTEGER PRIMARY KEY without AUTOINCREMENT.
FreeEventId == 1 + Cardinality(UNION {1 .. e.id : e \in events})

\* INTEGER PRIMARY KEY AUTOINCREMENT (15): deleted ids are not given again.
NextEventId == lastEvent + 1

AddEvent(body) ==
    /\ lastEvent < MaxEvents
    /\ events' = events \cup {[id |-> NextEventId, body |-> body, status |-> "open"]}
    /\ lastEvent' = NextEventId
    /\ UNCHANGED <<enabled, incidents, links, activity, evidence, wanted>>

\* The events of a range of created_at.  A thread reads the time before it
\* inserts (114, 116), so their ids need not be consecutive.
DeleteEvents(ids) ==
    /\ events' = {e \in events : e.id \notin ids}
    /\ UNCHANGED <<lastEvent, enabled, incidents, links, activity, evidence, wanted>>

UpdateEventStatus(id, status) ==
    /\ events' = {IF e.id = id THEN [e EXCEPT !.status = status] ELSE e : e \in events}
    /\ UNCHANGED <<lastEvent, enabled, incidents, links, activity, evidence, wanted>>

SetRuleEnabled(r, value) ==
    /\ enabled' = [enabled EXCEPT ![r] = value]
    /\ wanted' = [wanted EXCEPT ![r] = value]
    /\ UNCHANGED <<events, lastEvent, incidents, links, activity, evidence>>

\* Row, links and first activity in one transaction (263-280).
CreateIncident(rule, ids) ==
    /\ Len(incidents) < MaxIncidents
    /\ Len(activity) < MaxActivity
    /\ incidents' = Append(incidents, [rule |-> rule, status |-> "open"])
    /\ links' = links \cup ({Len(incidents) + 1} \X ids)
    /\ activity' = Append(activity, [incident |-> Len(incidents) + 1, action |-> "created"])
    /\ UNCHANGED <<events, lastEvent, enabled, evidence, wanted>>

AddEvidence(incident, ids) ==
    /\ Len(evidence) < MaxEvidence
    /\ evidence' = Append(evidence, [incident |-> incident, ids |-> ids])
    /\ UNCHANGED <<events, lastEvent, enabled, incidents, links, activity, wanted>>

\* Mutated form of AddActivity: nobody looks whether the incident exists.
AddActivityUnchecked(incident) ==
    /\ Len(activity) < MaxActivity
    /\ activity' = Append(activity, [incident |-> incident, action |-> "note"])
    /\ UNCHANGED <<events, lastEvent, enabled, incidents, links, evidence, wanted>>

\* add_activity does not look whether the incident exists; its only caller
\* does (app/__init__.py:568).
AddActivity(incident) ==
    /\ incident \in DOMAIN incidents
    /\ Len(activity) < MaxActivity
    /\ activity' = Append(activity, [incident |-> incident, action |-> "note"])
    /\ UNCHANGED <<events, lastEvent, enabled, incidents, links, evidence, wanted>>

\* Mutated form of StatusActivity: the row names the status before.
OldStatusActivity(incident, status) ==
    activity' = Append(activity, [incident |-> incident, action |-> incidents[incident].status])

StatusActivity(incident, status) ==
    activity' = Append(activity, [incident |-> incident, action |-> status])

\* The update and its activity row are one transaction (327-336).
UpdateIncidentStatus(incident, status) ==
    /\ incident \in DOMAIN incidents
    /\ Len(activity) < MaxActivity
    /\ incidents' = [incidents EXCEPT ![incident].status = status]
    /\ StatusActivity(incident, status)
    /\ UNCHANGED <<events, lastEvent, enabled, links, evidence, wanted>>

\* What an analyst's pages do with the store, each in one call.  The incident
\* comes from the address of the page, so it may be one that does not exist.
EventPages ==
    \/ \E ids \in SUBSET (1 .. lastEvent) : DeleteEvents(ids)
    \/ \E e \in events, s \in EventStatuses : UpdateEventStatus(e.id, s)

IncidentPages ==
    \/ \E i \in 1 .. MaxIncidents : AddActivity(i)
    \/ \E i \in 1 .. MaxIncidents, s \in IncidentStatuses : UpdateIncidentStatus(i, s)

DetectionPages == \E r \in Rules, b \in BOOLEAN : SetRuleEnabled(r, b)

AnalystStep == EventPages \/ IncidentPages \/ DetectionPages

\* Callers pass event ids the store has returned, and the id of an incident
\* that was created.
StoreNext ==
    \/ Initialize
    \/ \E b \in Bodies : AddEvent(b)
    \/ \E r \in Rules, ids \in SUBSET (1 .. lastEvent) : CreateIncident(r, ids)
    \/ \E i \in DOMAIN incidents, ids \in SUBSET (1 .. lastEvent) : AddEvidence(i, ids)
    \/ AnalystStep

StoreSpec == StoreInit /\ [][StoreNext]_storeVars

-----------------------------------------------------------------------------

StoreTypeOK ==
    /\ events \subseteq Event
    /\ lastEvent \in 0 .. MaxEvents
    /\ {enabled, wanted} \subseteq [Rules -> BOOLEAN]
    /\ incidents \in Seq(Incident) /\ Len(incidents) <= MaxIncidents
    /\ links \subseteq (1 .. MaxIncidents) \X (1 .. MaxEvents)
    /\ activity \in Seq(Activity) /\ Len(activity) <= MaxActivity
    /\ evidence \in Seq(Evidence) /\ Len(evidence) <= MaxEvidence

\* There is one event per id, and every id in use was given out.
EventIdsAreUnique ==
    /\ \A e \in events : e.id <= lastEvent
    /\ \A e, f \in events : e.id = f.id => e = f

\* What the tables say of each other: links, evidence and activity belong to
\* incidents that exist, and a link names an id already given.
TablesAgree ==
    /\ \A l \in links : l[1] \in DOMAIN incidents /\ l[2] <= lastEvent
    /\ \A k \in DOMAIN evidence : evidence[k].incident \in DOMAIN incidents
    /\ \A k \in DOMAIN activity : activity[k].incident \in DOMAIN incidents

\* A link to a deleted event never comes to name another event.
LinksAreNotReused ==
    [][\A e \in events' : (\A f \in events : f.id # e.id) =>
            \A l \in links : l[2] # e.id]_storeVars

\* The rows of incident i that set its status.
StatusRows(i) == {k \in DOMAIN activity :
                     activity[k].incident = i /\ activity[k].action # "note"}

StatusOf(action) == IF action = "created" THEN "open" ELSE action

\* The status of an incident is the one its timeline ends with.
StatusIsExplained ==
    \A i \in DOMAIN incidents :
        \E k \in StatusRows(i) :
            /\ \A m \in StatusRows(i) : m <= k
            /\ incidents[i].status = StatusOf(activity[k].action)

\* A rule is on or off as the analyst last set it, across restarts too.
RulesFollowTheAnalyst == enabled = wanted
=============================================================================
