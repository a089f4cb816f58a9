---------------------------- MODULE StoreReaders ----------------------------
(* Requests that read the store in several statements while other requests  *)
(* write to it.  A SELECT opens no transaction (sqlite3's default), so      *)
(* every statement of a request sees the tables of its own moment.  Two     *)
(* requests are modelled: the page of events the dashboard polls and the    *)
(* incident an analyst opens or exports.                                    *)
EXTENDS EventStore

CONSTANTS
    PerPage             \* per_page of the dashboard's requests

ASSUME PageAssumption == PerPage \in Nat \ {0}

VARIABLES
    reader,     \* the request: its parts still to read, what it has read
    walk        \* the dashboard's pagination, and what a walk has shown

readerVars == <<storeVars, reader, walk>>

\* Mutated form of ReportOrder: the incident's row is read after its timeline.
RowLast == <<"events", "activity", "evidence", "row">>

\* The statements of incident() in order (292-302), each one autocommitted.
ReportOrder == <<"row", "events", "activity", "evidence">>

\* paginated_events() and then summary(): (155-159, 199-202), called in this
\* order by api_events (app/__init__.py:249-254).
ListingOrder == <<"total", "rows", "counted", "open">>

Ids(es) == {e.id : e \in es}

Request(kind, incident, todo) ==
    [kind |-> kind, incident |-> incident, todo |-> todo, got |-> <<>>, inserted |-> FALSE]

NoRequest == Request("none", 0, <<>>)

Answered == reader.kind # "none" /\ reader.todo = <<>>

\* A row's rank in ORDER BY id DESC, from 0.
Rank(e, es) == Cardinality({f \in es : f.id > e.id})

\* Mutated form of Page: the first row of the page is skipped once more.
PageWithoutMinusOne(es, page) ==
    {e \in es : Rank(e, es) \in page * PerPage .. (page + 1) * PerPage - 1}

\* LIMIT per_page OFFSET (page - 1) * per_page.
Page(es, page) ==
    {e \in es : Rank(e, es) \in (page - 1) * PerPage .. page * PerPage - 1}

\* WHERE severity = ? unless all are asked for (152).
Matching == {e \in events : walk.filter \in {"all", e.body}}

\* What one statement returns; of a timeline, the rows that set the status.
Read(part) ==
    CASE part = "row"      -> incidents[reader.incident].status
      [] part = "events"   -> {e \in events : <<reader.incident, e.id>> \in links}
      [] part = "activity" -> {activity[k].action : k \in StatusRows(reader.incident)}
      [] part = "evidence" -> {k \in DOMAIN evidence : evidence[k].incident = reader.incident}
      [] part = "total"    -> Cardinality(Matching)
      [] part = "rows"     -> Page(Matching, walk.page)
      [] part = "counted"  -> Cardinality(events)
      [] part = "open"     -> Cardinality({e \in events : e.status = "open"})

\* pages = max(1, ceil(total / per_page)) (165).
Pages(total) == IF total = 0 THEN 1 ELSE (total + PerPage - 1) \div PerPage

\* The analyst chooses a severity, or all: the dashboard asks for page 1.
StartWalk ==
    /\ reader = NoRequest
    /\ reader' = Request("listing", 0, ListingOrder)
    /\ \E filter \in Bodies \cup {"all"} :
          walk' = [page |-> 1, pages |-> 1, filter |-> filter, seen |-> {}, torn |-> FALSE,
                   due |-> {e.id : e \in {f \in events : filter \in {"all", f.body}}}]
    /\ UNCHANGED storeVars

\* The timer asks for the same page again; "Next" for the one after it
\* (app/templates/dashboard.html:44-47).
TurnPage ==
    /\ reader = NoRequest /\ walk.page > 0
    /\ \E page \in {walk.page, walk.page + 1} \cap 1 .. walk.pages :
          walk' = [walk EXCEPT !.page = page]
    /\ reader' = Request("listing", 0, ListingOrder)
    /\ UNCHANGED storeVars

\* incident_detail, incident_report: the request ends here when there is no row.
OpenReport ==
    /\ reader = NoRequest
    /\ \E i \in DOMAIN incidents : reader' = Request("report", i, ReportOrder)
    /\ UNCHANGED <<storeVars, walk>>

ReadNext ==
    /\ reader.todo # <<>>
    /\ LET part == Head(reader.todo)
       IN  reader' = [reader EXCEPT !.todo = Tail(@),
                          !.got = [p \in DOMAIN @ \cup {part} |->
                                      IF p = part THEN Read(part) ELSE reader.got[p]]]
    /\ UNCHANGED <<storeVars, walk>>

\* The label is min(page, pages) (166); the dashboard adopts it.
ShowPage ==
    /\ Answered /\ reader.kind = "listing"
    /\ LET pages == Pages(reader.got["total"])
       IN  walk' = [walk EXCEPT !.page = IF @ > pages THEN pages ELSE @,
                                !.pages = pages,
                                !.seen = @ \cup Ids(reader.got["rows"])]
    /\ reader' = NoRequest
    /\ UNCHANGED storeVars

CloseReport ==
    /\ Answered /\ reader.kind = "report"
    /\ reader' = NoRequest
    /\ UNCHANGED <<storeVars, walk>>

\* A write of another request, and what it does to the requests under way: an
\* insertion between COUNT and SELECT, or a deletion, tears the walk.
Inserts == Ids(events') \ Ids(events) # {}
Deletes == Ids(events) \ Ids(events') # {}
BetweenCountAndRows == reader.kind = "listing" /\ reader.todo # <<>> /\ Head(reader.todo) = "rows"

OtherRequest ==
    /\ StoreNext
    /\ reader' = [reader EXCEPT !.inserted = @ \/ (reader # NoRequest /\ Inserts)]
    /\ walk' = [walk EXCEPT !.torn = @ \/ Deletes \/ (Inserts /\ BetweenCountAndRows)]

ReaderInit ==
    /\ StoreInit
    /\ reader = NoRequest
    /\ walk = [page |-> 0, pages |-> 0, filter |-> "all", seen |-> {}, torn |-> FALSE, due |-> {}]

ReaderNext ==
    \/ StartWalk \/ TurnPage \/ OpenReport \/ ReadNext \/ ShowPage \/ CloseReport
    \/ OtherRequest

ReaderSpec == ReaderInit /\ [][ReaderNext]_readerVars

-----------------------------------------------------------------------------

ReaderTypeOK ==
    /\ StoreTypeOK
    /\ DOMAIN reader.got \subseteq {"row", "events", "activity", "evidence",
                                   "total", "rows", "counted", "open"}
    /\ walk.due \cup walk.seen \subseteq 1 .. MaxEvents
    /\ walk.page <= walk.pages \/ reader.kind = "listing"

\* The status an exported incident shows is one that its own timeline, in the
\* same export, gives a reason for, whatever analysts did between the four
\* statements of incident().
ReportIsExplained ==
    Answered /\ reader.kind = "report" =>
        \E action \in reader.got["activity"] : reader.got["row"] = StatusOf(action)

\* An analyst who turns the pages of paginated_events() up to the last one has
\* seen every event that was there at the start and is there still, whatever
\* was inserted in front of them: only a deletion, or an insertion between a
\* page's COUNT and its SELECT, can hide one.
WalkMissesNothing ==
    reader.kind # "listing" /\ ~walk.torn /\ walk.page = walk.pages =>
        walk.due \cap Ids(events) \subseteq walk.seen
=============================================================================
