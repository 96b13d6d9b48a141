------------------------------ MODULE ListPage ------------------------------
(***************************************************************************)
(* The four pages over a list (shipments, alerts, escrow, audits): filter, *)
(* pages, loads that answer in any order, and the actions on the items.    *)
(* The pages are one component written four times; what differs is which   *)
(* actions there are and when the statistics are read.                     *)
(*                                                                         *)
(* In the demo deployment the answers come from the files of Dataset; in a *)
(* live one from a service that ignores page and filter and answers with   *)
(* its whole list.  No service of the repository changes a list on the     *)
(* requests of these pages, so the list a service holds is fixed.  Every   *)
(* request may fail.                                                       *)
(***************************************************************************)
EXTENDS Dataset, Screen

CONSTANTS
    Deployment,  \* the sequences of rows a deployment may hold
    Used,        \* bound: those whose pages are used, not just opened
    MaxCalls     \* bound: loads of the list and actions on its items

ASSUME ListAssumption ==
    /\ \A rows \in Deployment : rows \in Seq(CsvRow)
    /\ Used \subseteq Deployment
    /\ MaxCalls \in Nat \ {0}

VARIABLES
    entity,      \* which of the four pages this is
    site,        \* the rows of the data set, the list behind the page, and its files
    filter,      \* the value the active filter stands for
    page,        \* the page asked for
    result,      \* the answer that is shown, with the marks put on it
    stats,       \* the statistics: not there yet, shown, or the body of an error
    loading,     \* whether the table says "Loading"
    loads,       \* the requests for a page, in the order they were made
    processing,  \* what is being acted on
    acts,        \* the actions, in the order they were made
    menu,        \* the escrow whose menu is open
    selected     \* the shipment that is tracked on the map

listVars == <<entity, live, site, filter, page, result, stats, loading, loads,
              processing, acts, menu, selected>>

-----------------------------------------------------------------------------
(* Types *)

\* The values of FILTER_MAP.  No button asks for the shipments CREATED.
Filters == [shipments |-> {"", "IN_TRANSIT", "DELIVERED", "DELAYED", "CANCELLED"},
            alerts    |-> {"", "CRITICAL", "WARNING"},
            escrows   |-> {"", "HELD", "RELEASED"},
            audits    |-> {"", "Passed", "Warning", "Failed"}]

\* What an action that was answered makes the status of an item; an alert that
\* is ignored leaves the list instead, an audit request marks nothing.
Mark == [acknowledge |-> "Acknowledged", bulk |-> "Acknowledged",
         settle |-> "Settled", dispute |-> "Disputed", release |-> "Released"]

Bulk    == <<"bulk", 0>>
Request == <<"manual-request", 0>>

ItemIds == ({"S", "T", "R", "F", "M", "A"} \X Nat) \cup ({"E"} \X Order)

\* What the filters look at, in the data set.
Keys == {"CREATED", "IN_TRANSIT", "DELAYED", "DELIVERED", "CANCELLED",
         "CRITICAL", "WARNING", "HELD", "RELEASED", "Passed", "Warning", "Failed"}

Item == [id : ItemIds, key : Keys, status : Keys \cup {"OPEN"} \cup {Mark[k] : k \in DOMAIN Mark}]

Page == [data : Seq(Item), total : Nat, page : Nat, totalPages : Nat, pageSize : Nat]

Load == [filter : UNION {Filters[e] : e \in Entity}, page : Nat \ {0}, pc : {"sent", "done"}]

\* met are the items that were loaded while the request was away.
Act == [kind : {"acknowledge", "ignore", "bulk", "settle", "dispute", "release",
                "request"},
        ids : SUBSET (ItemIds \cup {Request}), pc : {"sent", "ok", "failed"}, met : SUBSET ItemIds]

ListTypeOK ==
    /\ entity \in Entity
    /\ live \in BOOLEAN
    /\ site.list \in Seq(Item)
    /\ filter \in Filters[entity]
    /\ page \in Nat \ {0}
    /\ result \in Page
    /\ stats \in {None, "ok", "error"}
    /\ loading \in BOOLEAN
    /\ loads \in Seq(Load)
    /\ processing \in ItemIds \cup {None, Bulk, Request}
    /\ acts \in Seq(Act)
    /\ Len(loads) + Len(acts) \in 1..MaxCalls
    /\ menu \in ItemIds \cup {None}
    /\ selected \in ItemIds \cup {None}

Ids(data) == {data[i].id : i \in DOMAIN data}

-----------------------------------------------------------------------------
(* Loading *)

NewLoad(p, f) == [filter |-> f, page |-> p, pc |-> "sent"]

NoPage == [data |-> <<>>, total |-> 0, page |-> 1, totalPages |-> 1, pageSize |-> 100]

ListInit ==
    /\ entity \in Entity
    /\ live \in BOOLEAN
    /\ \E rows \in Deployment :
          site = [rows |-> rows, list |-> Items(entity, rows),
                  folders |-> paginateAndWrite(entity, rows)]
    /\ filter = "" /\ page = 1
    /\ result = NoPage
    /\ stats = None
    /\ loading = TRUE
    /\ loads = <<NewLoad(1, "")>>
    /\ processing = None
    /\ acts = <<>>
    /\ menu = None
    /\ selected = None

\* The effect over [page, filter]: it runs when one of the two has changed.
Show(p, f) ==
    /\ page' = p /\ filter' = f
    /\ IF p = page /\ f = filter
       THEN UNCHANGED <<loads, loading, selected>>
       ELSE /\ Len(loads) + Len(acts) < MaxCalls
            /\ loads' = Append(loads, NewLoad(p, f))
            /\ loading' = TRUE
            /\ selected' = None
    /\ UNCHANGED <<entity, live, site, result, stats, processing, acts, menu>>

handleFilterChange(f) == Show(1, f)

PageNumbers ==
    LET first == Larger(1, result.page - 2)
        last  == Smaller(result.totalPages, result.page + 2)
    IN  first..last \cup (IF first > 1 THEN {1} ELSE {})
                    \cup (IF last < result.totalPages THEN {result.totalPages} ELSE {})

\* Faulty: the page before, whatever is shown.
PrevAlways == page > 0 /\ Show(page - 1, filter)

Prev == result.page > 1 /\ Show(Larger(1, page - 1), filter)

Next_ == result.page < result.totalPages /\ Show(Smaller(result.totalPages, page + 1), filter)

GoTo(p) == p \in PageNumbers /\ Show(p, filter)

\* fetchShipments, fetchAlerts, fetchEscrows, fetchAudits.
Answers(load) ==
    IF live
    THEN {[data |-> site.list, total |-> Len(site.list), page |-> 1,
           totalPages |-> 1, pageSize |-> Len(site.list)]}
    ELSE staticPage(site.folders, load.filter, load.page)

\* Faulty: loading is reset after the await, without finally.
ListAnsweredNoFinally(n) ==
    /\ n \in DOMAIN loads /\ loads[n].pc = "sent"
    /\ loads' = [loads EXCEPT ![n].pc = "done"]
    /\ \/ \E answer \in Answers(loads[n]) :
            /\ result' = answer
            /\ loading' = FALSE
            /\ acts' = [a \in DOMAIN acts |->
                          IF acts[a].pc = "sent"
                          THEN [acts[a] EXCEPT !.met = @ \cup Ids(answer.data)]
                          ELSE acts[a]]
       \/ UNCHANGED <<result, acts, loading>>
    /\ UNCHANGED <<entity, live, site, filter, page, stats, processing, menu, selected>>

\* An answer is shown whatever has been asked for since.
ListAnswered(n) ==
    /\ n \in DOMAIN loads /\ loads[n].pc = "sent"
    /\ loads' = [loads EXCEPT ![n].pc = "done"]
    /\ loading' = FALSE
    /\ \/ \E answer \in Answers(loads[n]) :
            /\ result' = answer
            /\ acts' = [a \in DOMAIN acts |->
                          IF acts[a].pc = "sent"
                          THEN [acts[a] EXCEPT !.met = @ \cup Ids(answer.data)]
                          ELSE acts[a]]
       \/ UNCHANGED <<result, acts>>                       \* the request failed
    /\ UNCHANGED <<entity, live, site, filter, page, stats, processing, menu, selected>>

\* The statistics are asked for at mount, and by three of the pages with each load
\* again.  A request that fails shows nothing.
StatsAnswered ==
    /\ stats # "error"
    /\ \/ stats = None /\ stats' = "ok"
       \/ live /\ (stats = None \/ entity # "shipments") /\ stats' = "error"
    /\ UNCHANGED <<entity, live, site, filter, page, result, loading, loads,
                   processing, acts, menu, selected>>

\* The page is gone when the body of an error is rendered; the answers to its
\* requests still come.
Rendered == stats # "error"

-----------------------------------------------------------------------------
(* Acting on the items: a row can be used when the table is shown *)

Row(id) == ~loading /\ id \in Ids(result.data)

StatusIs(id, status) ==
    \E i \in DOMAIN result.data : result.data[i].id = id /\ result.data[i].status = status

Send(kind, ids) ==
    /\ Len(loads) + Len(acts) < MaxCalls
    /\ acts' = Append(acts, [kind |-> kind, ids |-> ids, pc |-> "sent", met |-> {}])
    /\ UNCHANGED <<entity, live, site, filter, page, result, stats, loading, loads,
                   menu, selected>>

handleAcknowledge(id) ==
    /\ entity = "alerts" /\ Row(id) /\ StatusIs(id, "OPEN") /\ processing # id
    /\ processing' = id
    /\ Send("acknowledge", {id})

\* The Ignore button is never disabled.
handleIgnore(id) ==
    /\ entity = "alerts" /\ Row(id) /\ StatusIs(id, "OPEN")
    /\ processing' = id
    /\ Send("ignore", {id})

\* Its button is shown while the table is loading, over the rows of before.
handleBulkAcknowledge ==
    LET open == {id \in Ids(result.data) : StatusIs(id, "OPEN")}
    IN  /\ entity = "alerts" /\ processing # Bulk /\ open # {}
        /\ processing' = Bulk
        /\ Send("bulk", open)

handleRequestAudit ==
    /\ entity = "audits" /\ processing = None
    /\ processing' = Request
    /\ Send("request", {Request})

\* handleSettle, handleDispute, handleRelease: the three entries of the menu.
handleEscrow(kind, id) ==
    /\ entity = "escrows" /\ Row(id) /\ StatusIs(id, "HELD") /\ menu = id
    /\ UNCHANGED processing
    /\ Send(kind, {id})

\* Faulty: the answer marks every row that is shown.
MarkedEverywhere(act, data) ==
    IF act.kind = "ignore" THEN Kept(data, {x \in ToSet(data) : x.id \notin act.ids})
    ELSE IF act.kind = "request" THEN data
    ELSE [i \in DOMAIN data |-> [data[i] EXCEPT !.status = Mark[act.kind]]]

\* What an answer does to the rows that are shown now.  A bulk answer marks what
\* is open now, not what was sent.
Marked(act, data) ==
    IF act.kind = "ignore" THEN Kept(data, {x \in ToSet(data) : x.id \notin act.ids})
    ELSE IF act.kind = "request" THEN data
    ELSE [i \in DOMAIN data |->
            IF IF act.kind = "bulk" THEN data[i].status = "OPEN"
                                    ELSE data[i].id \in act.ids
            THEN [data[i] EXCEPT !.status = Mark[act.kind]] ELSE data[i]]

\* Faulty: the alert that is ignored stays in processing.
ActAnsweredKeepsBusy(n) ==
    /\ n \in DOMAIN acts /\ acts[n].pc = "sent"
    /\ acts' = [acts EXCEPT ![n].pc = "ok"]
    /\ result' = [result EXCEPT !.data = Marked(acts[n], @)]
    /\ processing' = IF acts[n].kind = "ignore" THEN processing ELSE None
    /\ menu' = IF entity = "escrows" THEN None ELSE menu
    /\ UNCHANGED <<entity, live, site, filter, page, stats, loading, loads, selected>>

ActAnswered(n) ==
    /\ n \in DOMAIN acts /\ acts[n].pc = "sent"
    /\ acts' = [acts EXCEPT ![n].pc = "ok"]
    /\ result' = [result EXCEPT !.data = Marked(acts[n], @)]
    /\ processing' = None
    /\ menu' = IF entity = "escrows" THEN None ELSE menu
    /\ UNCHANGED <<entity, live, site, filter, page, stats, loading, loads, selected>>

\* The handler ends at its await: nothing after it runs.  The files never fail.
ActFailed(n) ==
    /\ live
    /\ n \in DOMAIN acts /\ acts[n].pc = "sent"
    /\ acts' = [acts EXCEPT ![n].pc = "failed"]
    /\ UNCHANGED <<entity, live, site, filter, page, result, stats, loading, loads,
                   processing, menu, selected>>

ToggleMenu(id) ==
    /\ entity = "escrows" /\ Row(id)
    /\ menu' = IF menu = id THEN None ELSE id
    /\ UNCHANGED <<entity, live, site, filter, page, result, stats, loading, loads,
                   processing, acts, selected>>

handleShipmentClick(id) ==
    /\ entity = "shipments" /\ Row(id)
    /\ selected' = IF selected = id THEN None ELSE id
    /\ UNCHANGED <<entity, live, site, filter, page, result, stats, loading, loads,
                   processing, acts, menu>>

\* The cross of the telemetry card, shown while the shipment is on the page.
onCloseShipment ==
    /\ selected \in Ids(result.data)
    /\ selected' = None
    /\ UNCHANGED <<entity, live, site, filter, page, result, stats, loading, loads,
                   processing, acts, menu>>

-----------------------------------------------------------------------------

UserActs ==
    \/ \E f \in Filters[entity] : handleFilterChange(f)
    \/ Prev
    \/ Next_
    \/ \E p \in PageNumbers : GoTo(p)
    \/ \E id \in Ids(result.data) :
         \/ handleAcknowledge(id)
         \/ handleIgnore(id)
         \/ \E kind \in {"settle", "dispute", "release"} : handleEscrow(kind, id)
         \/ ToggleMenu(id)
         \/ handleShipmentClick(id)
    \/ handleBulkAcknowledge
    \/ handleRequestAudit
    \/ onCloseShipment

ListNext ==
    \/ Rendered /\ site.rows \in Used /\ UserActs
    \/ \E n \in DOMAIN loads : ListAnswered(n)
    \/ StatsAnswered
    \/ \E n \in DOMAIN acts : ActAnswered(n) \/ ActFailed(n)

ListSpec == ListInit /\ [][ListNext]_listVars

\* A request of the browser ends, with an answer or with an error; nobody has to
\* click.
ListFairness ==
    /\ WF_listVars(\E n \in DOMAIN loads : ListAnswered(n))
    /\ WF_listVars(\E n \in DOMAIN acts : ActAnswered(n) \/ ActFailed(n))

FairListSpec == ListSpec /\ ListFairness

-----------------------------------------------------------------------------
(* Properties *)

\* The files of the deployment are the lists of its data set cut into pages, and
\* its statistics are those of its lists (build-dataset.mjs).
DatasetIsWhole == PagesAreTheGroup(site.list, site.folders) /\ StatsMatchLists(site.rows)

\* The rows are, but for the ignored ones, one page of one answer: the page the
\* footer names, of a filter the user chose; "Showing a-b of n" counts its rows.
\* Ids only: the marks change the status.  A service answers with its whole list.
ShownIsOnePage ==
    result # NoPage =>
        \E f \in {loads[n].filter : n \in DOMAIN loads} :
            LET group == IF live THEN site.list
                         ELSE Group(site.list, IF f = "" THEN "all" ELSE f)
                first == (result.page - 1) * result.pageSize + 1
                last  == Smaller(result.page * result.pageSize, result.total)
                ignored == UNION {acts[n].ids : n \in
                                    {m \in DOMAIN acts : acts[m].kind = "ignore"}}
            IN  /\ result.total = Len(group)
                /\ result.page \in 1..result.totalPages
                /\ Ids(result.data) \subseteq Ids(SubSeq(group, first, last))
                /\ Ids(SubSeq(group, first, last)) \ ignored \subseteq Ids(result.data)

\* A status that an action puts on a row was earned: the action was answered, and
\* it was sent for that item, or it is a bulk action and the item came onto the
\* page while it was away.
MarkIsEarned ==
    \A i \in DOMAIN result.data :
        LET x == result.data[i]
        IN  x.status \in {Mark[k] : k \in DOMAIN Mark} =>
              \E n \in DOMAIN acts :
                 /\ acts[n].pc = "ok"
                 /\ acts[n].kind \in DOMAIN Mark /\ Mark[acts[n].kind] = x.status
                 /\ \/ x.id \in acts[n].ids
                    \/ acts[n].kind = "bulk" /\ x.id \in acts[n].met

\* The table does not stay on "Loading", whatever fails; a button that says it is
\* working comes back, unless a request failed.
ListComesBack ==
    /\ loading ~> ~loading
    /\ (processing # None) ~>
          (processing = None \/ \E n \in DOMAIN acts : acts[n].pc = "failed")
=============================================================================
