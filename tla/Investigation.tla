--------------------------- MODULE Investigation ---------------------------
(* The handlers that turn events into incidents, over EventStore:           *)
(* simulate_credential_attack (app/__init__.py:411-440) with                *)
(* DetectionEngine.correlate_credentials, and ingest_suricata (442-474),    *)
(* both of which end in DetectionEngine.create_incident.  Every call of a   *)
(* store method is a step of its own; worker threads interleave, the        *)
(* analyst's pages change the store between the steps, a call may fail on a *)
(* locked database, and the process may die.                                *)
EXTENDS EventStore, SequencesExt

CONSTANTS
    Threads,         \* server.py:15, the waitress workers
    AttackTypes,     \* the keys of patterns (417-422) that are exercised
    Minimum,         \* events in a pattern and needed for a match (5)
    LineKinds,       \* what a line of an uploaded EVE file may be
    MaxUpload,       \* bound: lines of an upload
    MaxRequests,     \* bound: attacks and uploads
    MaxFaults        \* bound: failed calls and restarts

ASSUME MinimumAssumption == Minimum \in Nat \ {0}
ASSUME LineKindsAssumption == LineKinds \subseteq {"not json", "not an object", "flow", "alert"}
ASSUME InvestigationBounds == {MaxUpload, MaxRequests, MaxFaults} \subseteq Nat

VARIABLES
    pc,         \* pc[t]: what thread t does next
    work,       \* work[t]: the locals of its handler
    answer,     \* answer[t]: how its last request ended
    opener,     \* history variable: opener[i], the work that opened incident i
    requests,   \* requests so far
    faults      \* failures so far

handlerVars == <<pc, work, answer, opener, requests, faults>>
vars == <<storeVars, handlerVars>>

-----------------------------------------------------------------------------
\* The attacks.  Source, user and password fingerprint of attempt k: a 0 is
\* the value all attempts of the pattern share.  origin tells the requests
\* apart; the code has no such field.
Attempt(source, user, print, origin) ==
    [kind |-> "attempt", source |-> source, user |-> user, print |-> print,
     origin |-> origin]

Pattern(attack, k, origin) ==
    CASE attack = "brute_force"         -> Attempt(0, 0, k, origin)
      [] attack = "password_spray"      -> Attempt(0, k, 0, origin)
      [] attack = "credential_stuffing" -> Attempt(0, k, k, origin)
      [] attack = "distributed"         -> Attempt(k, 0, k, origin)

\* A record of a Suricata file: an event type and no credentials.
SuricataBody(kind, origin) == [Attempt(0, 0, 0, origin) EXCEPT !.kind = kind]

Suricata == "suricata"

\* The rules: one for each attack, and the one for Suricata alerts.
AllRules == AttackTypes \cup {Suricata}
AllBodies == [kind : {"attempt", "flow", "alert"}, source : 0 .. Minimum,
              user : 0 .. Minimum, print : 0 .. Minimum, origin : 1 .. MaxRequests]

\* The bundled rules (engine.py:12) and their events are among those the store
\* may hold.
ASSUME AttackTypesAssumption ==
    AttackTypes \subseteq {"brute_force", "password_spray", "credential_stuffing", "distributed"}
ASSUME RulesAssumption == AllRules \subseteq Rules
ASSUME BodiesAssumption == AllBodies \subseteq Bodies

\* Mutated form of EnoughEvents: strictly more than the minimum.
MoreThanEnough(found) == Len(found) > Minimum

EnoughEvents(found) == Len(found) >= Minimum

\* The condition of an attack on the events that were found (71-76).
Matches(attack, found) ==
    LET bodies == ToSet(found)
        sources == {b.source : b \in bodies}
        users   == {b.user : b \in bodies}
        prints  == {b.print : b \in bodies}
        pairs   == {<<b.user, b.print>> : b \in bodies}
    IN  /\ EnoughEvents(found)
        /\ CASE attack = "brute_force" -> Cardinality(sources) = 1 /\ Cardinality(users) = 1
             [] attack = "password_spray" -> Cardinality(users) >= Minimum /\ Cardinality(prints) = 1
             [] attack = "credential_stuffing" -> Cardinality(pairs) >= Minimum
             [] attack = "distributed" -> Cardinality(sources) >= Minimum /\ Cardinality(users) = 1

-----------------------------------------------------------------------------
\* The locals of a handler: the rule it will use, the ids it was given by
\* add_event, the events it found again, the lines it has still to import,
\* the incident it opened.  The last three are history variables: which
\* request this is, whether its rule was ever on since it began, and whether
\* anything an analyst did since could have kept the incident from opening.
NoWork == [rule |-> Suricata, ids |-> <<>>, found |-> <<>>, asked |-> 0,
           lines |-> <<>>, incident |-> 0,
           origin |-> 0, sawEnabled |-> FALSE, disturbed |-> FALSE]

Init ==
    /\ StoreInit
    /\ pc = [t \in Threads |-> "idle"]
    /\ work = [t \in Threads |-> NoWork]
    /\ answer = [t \in Threads |-> "none"]
    /\ opener = <<>>
    /\ requests = 0
    /\ faults = 0

Goto(t, step) == pc' = [pc EXCEPT ![t] = step]

Answer(t, text) == /\ Goto(t, "idle")
                   /\ answer' = [answer EXCEPT ![t] = text]
                   /\ work' = [work EXCEPT ![t] = NoWork]

Begin(t, rule, lines, step) ==
    /\ pc[t] = "idle"
    /\ requests < MaxRequests
    /\ requests' = requests + 1
    /\ work' = [work EXCEPT ![t] = [NoWork EXCEPT !.rule = rule, !.lines = lines,
                   !.origin = requests + 1, !.sawEnabled = enabled[rule],
                   !.disturbed = ~ enabled[rule]]]
    /\ Goto(t, step)
    /\ UNCHANGED <<storeVars, answer, opener, faults>>

StartAttack(t, attack) == Begin(t, attack, <<>>, "adding")

StartUpload(t, lines) == Begin(t, Suricata, lines, "importing")

\* 427-436: one event per attempt of the pattern.
AddAttempt(t) ==
    /\ pc[t] = "adding"
    /\ AddEvent(Pattern(work[t].rule, Len(work[t].ids) + 1, work[t].origin))
    /\ work' = [work EXCEPT ![t].ids = Append(@, NextEventId)]
    /\ IF Len(work'[t].ids) = Minimum THEN Goto(t, "fetching") ELSE UNCHANGED pc
    /\ UNCHANGED <<answer, opener, requests, faults>>

\* engine.py:66: the events are read back one by one, as they are now.
FetchEvent(t) ==
    /\ pc[t] = "fetching"
    /\ LET id   == work[t].ids[work[t].asked + 1]
           rows == {e \in events : e.id = id}
       IN  work' = [work EXCEPT
               ![t].asked = @ + 1,
               ![t].found = IF rows = {} THEN @ ELSE Append(@, (CHOOSE e \in rows : TRUE).body)]
    /\ IF work'[t].asked = Len(work[t].ids) THEN Goto(t, "matching") ELSE UNCHANGED pc
    /\ UNCHANGED <<storeVars, answer, opener, requests, faults>>

\* 84-85: no match, or on to create_incident.
Correlate(t) ==
    /\ pc[t] = "matching"
    /\ IF Matches(work[t].rule, work[t].found)
       THEN Goto(t, "checking") /\ UNCHANGED <<work, answer>>
       ELSE Answer(t, "no match")
    /\ UNCHANGED <<storeVars, opener, requests, faults>>

\* What follows create_incident: the attack is answered, the upload goes on.
Resume(t, text) ==
    IF work[t].rule = Suricata
    THEN /\ Goto(t, "importing")
         /\ work' = [work EXCEPT ![t].ids = <<>>, ![t].incident = 0]
         /\ UNCHANGED answer
    ELSE Answer(t, text)

\* Mutated form of RuleAllows: the flag is not looked at.
AnyRule(t) == TRUE

\* engine.py:49-51: a rule that is off yields no incident.
RuleAllows(t) == enabled[work[t].rule]

CheckRule(t) ==
    /\ pc[t] = "checking"
    /\ IF RuleAllows(t)
       THEN Goto(t, "opening") /\ UNCHANGED <<work, answer>>
       ELSE Resume(t, "no match")
    /\ UNCHANGED <<storeVars, opener, requests, faults>>

\* engine.py:52-54: the first of the two transactions of create_incident.
OpenIncident(t) ==
    /\ pc[t] = "opening"
    /\ CreateIncident(work[t].rule, ToSet(work[t].ids))
    /\ work' = [work EXCEPT ![t].incident = Len(incidents')]
    /\ opener' = Append(opener, work[t])
    /\ Goto(t, "recording")
    /\ UNCHANGED <<answer, requests, faults>>

\* Mutated forms of RecordEvidence: it goes to the newest incident, or nowhere.
RecordNewestEvidence(t) ==
    /\ pc[t] = "recording"
    /\ AddEvidence(Len(incidents), ToSet(work[t].ids))
    /\ Resume(t, "match")
    /\ UNCHANGED <<opener, requests, faults>>

RecordNothing(t) ==
    /\ pc[t] = "recording"
    /\ Resume(t, "match")
    /\ UNCHANGED <<storeVars, opener, requests, faults>>

\* engine.py:55-63: the second.
RecordEvidence(t) ==
    /\ pc[t] = "recording"
    /\ AddEvidence(work[t].incident, ToSet(work[t].ids))
    /\ Resume(t, "match")
    /\ UNCHANGED <<opener, requests, faults>>

\* Mutated form of LineIds: one list of ids for the whole upload.
UploadIds(t, line) == Append(work[t].ids, NextEventId)

\* What create_incident is given for a line: the event of this line alone.
LineIds(t, line) == IF line = "alert" THEN <<NextEventId>> ELSE <<>>

\* 454-471: the next line of an upload.  A line that is not JSON is noted
\* and skipped; one that is JSON but no object raises at record.get.
ImportLine(t) ==
    /\ pc[t] = "importing"
    /\ work[t].lines # <<>>
    /\ LET line == Head(work[t].lines) IN
       \/ /\ line = "not json"
          /\ work' = [work EXCEPT ![t].lines = Tail(@)]
          /\ UNCHANGED <<storeVars, pc, answer>>
       \/ /\ line = "not an object"
          /\ Answer(t, "exception")
          /\ UNCHANGED storeVars
       \/ /\ line \in {"flow", "alert"}
          /\ AddEvent(SuricataBody(line, work[t].origin))
          /\ work' = [work EXCEPT ![t].lines = Tail(@), ![t].ids = LineIds(t, line)]
          /\ IF line = "alert" THEN Goto(t, "checking") ELSE UNCHANGED pc
          /\ UNCHANGED answer
    /\ UNCHANGED <<opener, requests, faults>>

EndUpload(t) ==
    /\ pc[t] = "importing"
    /\ work[t].lines = <<>>
    /\ Answer(t, "imported")
    /\ UNCHANGED <<storeVars, opener, requests, faults>>

Fault == faults < MaxFaults /\ faults' = faults + 1

\* A store method gives up on a locked database and the handler with it.
CallFails(t) ==
    /\ Fault
    /\ pc[t] # "idle"
    /\ Answer(t, "exception")
    /\ UNCHANGED <<storeVars, opener, requests>>

\* The process dies and a new one initialises the store and the rules.
Restart ==
    /\ Fault
    /\ Initialize
    /\ pc' = [t \in Threads |-> "idle"]
    /\ work' = [t \in Threads |-> NoWork]
    /\ answer' = [t \in Threads |-> "none"]
    /\ UNCHANGED <<opener, requests>>

\* The analyst's pages, and what they do to the history variables of a
\* request in flight: its rule goes on or off, or its events are deleted.
Analyst ==
    /\ AnalystStep
    /\ work' = [t \in Threads |->
          IF pc[t] = "idle" THEN work[t] ELSE
          [work[t] EXCEPT
              !.sawEnabled = @ \/ enabled'[work[t].rule],
              !.disturbed  = \/ @
                             \/ ~ enabled'[work[t].rule]
                             \/ {e.id : e \in events} # {e.id : e \in events'}]]
    /\ UNCHANGED <<pc, answer, opener, requests, faults>>

Step(t) ==
    \/ AddAttempt(t) \/ FetchEvent(t) \/ Correlate(t) \/ CheckRule(t)
    \/ OpenIncident(t) \/ RecordEvidence(t) \/ ImportLine(t) \/ EndUpload(t)

Uploads == UNION {[1 .. n -> LineKinds] : n \in 1 .. MaxUpload}

Next ==
    \/ Analyst
    \/ Restart
    \/ \E t \in Threads :
          \/ \E attack \in AttackTypes : StartAttack(t, attack)
          \/ \E lines \in Uploads : StartUpload(t, lines)
          \/ Step(t)
          \/ CallFails(t)

Spec == Init /\ [][Next]_vars

-----------------------------------------------------------------------------

HandlerTypeOK ==
    /\ StoreTypeOK
    /\ pc \in [Threads -> {"idle", "adding", "fetching", "matching", "checking",
                           "opening", "recording", "importing"}]
    /\ \A t \in Threads :
          /\ pc[t] = "idle" => work[t] = NoWork
          /\ work[t].rule \in Rules
          /\ ToSet(work[t].ids) \subseteq 1 .. lastEvent
          /\ work[t].asked \in 0 .. Len(work[t].ids)
          /\ work[t].incident \in 0 .. Len(incidents)
    /\ Len(opener) = Len(incidents)
    /\ answer \in [Threads -> {"none", "match", "no match", "imported", "exception"}]
    /\ requests \in 0 .. MaxRequests /\ faults \in 0 .. MaxFaults

\* No event is counted in two incidents, and an incident is opened for a
\* whole pattern or for one alert.
OneIncidentPerEvent ==
    /\ \A l, m \in links : l[2] = m[2] => l = m
    /\ \A i \in DOMAIN incidents :
          Cardinality({l \in links : l[1] = i})
              = IF incidents[i].rule = Suricata THEN 1 ELSE Minimum

\* Evidence is recorded once per incident and names the events it links; an
\* incident without evidence is about to get it, or a call or the process
\* failed.
EvidenceMatchesIncident ==
    /\ \A k, m \in DOMAIN evidence : evidence[k].incident = evidence[m].incident => k = m
    /\ \A k \in DOMAIN evidence : {evidence[k].incident} \X evidence[k].ids
                                      = {l \in links : l[1] = evidence[k].incident}
    /\ \A i \in DOMAIN incidents :
          \/ \E k \in DOMAIN evidence : evidence[k].incident = i
          \/ \E t \in Threads : pc[t] = "recording" /\ work[t].incident = i
          \/ faults > 0

\* No incident comes from a request during which its rule was off all along.
DisabledRulesAreSilent == \A i \in DOMAIN opener : opener[i].sawEnabled

\* An attack that is answered "no match" was disturbed: its rule was off at
\* some moment, or events were deleted.  Left alone, every pattern is found
\* by its own rule.
UndisturbedAttacksAreFound ==
    [][\A t \in Threads : answer'[t] = "no match" /\ pc[t] # "idle" /\ pc'[t] = "idle"
          => work[t].disturbed]_vars

\* An upload that ends, also the one a line that is no object breaks off,
\* leaves every alert it stored in an incident with its evidence, unless the
\* rule was off at some moment or events were deleted.
UploadsLeaveNoLooseEnds ==
    [][\A t \in Threads :
          pc[t] = "importing" /\ pc'[t] = "idle" /\ faults' = faults /\ ~ work[t].disturbed
          => \A e \in events :
                e.body.kind = "alert" /\ e.body.origin = work[t].origin
                => \E k \in DOMAIN evidence : e.id \in evidence[k].ids]_vars
=============================================================================
