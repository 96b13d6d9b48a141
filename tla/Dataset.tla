------------------------------ MODULE Dataset ------------------------------
(***************************************************************************)
(* The data of the demo deployment: build-dataset.mjs turns each row of    *)
(* the CSV into a shipment, its alerts, an escrow and an audit, cuts each  *)
(* list and each group of it into page files, and writes the statistics.   *)
(* fetchStaticPage (api.ts) reads them back.                               *)
(*                                                                         *)
(* Of a row, what the classification looks at is kept; a score is kept as  *)
(* the outcome of its comparison.  Of an item its identifier, the value    *)
(* its filter looks at ("key") and the status the page shows are kept.     *)
(***************************************************************************)
EXTENDS Naturals, Sequences, SequencesExt

CONSTANTS
    PageSize,  \* items in a page file
    Order      \* order identifiers: the rows are items of an order

ASSUME PageSizeAssumption == PageSize \in Nat \ {0}

Entity == {"shipments", "alerts", "escrows", "audits"}

STATUS_MAP == [Advance |-> "IN_TRANSIT", Late |-> "DELAYED",
               OnTime |-> "DELIVERED", Canceled |-> "CANCELLED"]

\* "Other" is a delivery status the map does not know.
CsvRow == [delivery : DOMAIN STATUS_MAP \cup {"Other"}, temp : {0, 1},
           humid : {0, 1}, route : {0, 1}, fraud : {0, 1}, origin : {0, 1},
           order : Order]

-----------------------------------------------------------------------------
(* A row of the CSV *)

statusOf(row) ==
    IF row.delivery \in DOMAIN STATUS_MAP THEN STATUS_MAP[row.delivery]
                                          ELSE "CREATED"

ShipmentsOf(row, i) ==
    <<[id |-> <<"S", i>>, key |-> statusOf(row), status |-> statusOf(row)]>>

AlertsOf(row, i) ==
    LET raise(flag, type, severity) ==
          IF flag = 1
          THEN <<[id |-> <<type, i>>, key |-> severity, status |-> "OPEN"]>>
          ELSE <<>>
    IN  raise(row.temp, "T", "CRITICAL") \o raise(row.route, "R", "WARNING") \o
        raise(row.fraud, "F", "CRITICAL") \o raise(row.origin, "M", "CRITICAL")

\* Identified by the order, which several rows may share.
EscrowsOf(row, i) ==
    LET status == IF statusOf(row) \in {"DELIVERED", "CANCELLED"} THEN "RELEASED"
                                                                 ELSE "HELD"
    IN  <<[id |-> <<"E", row.order>>, key |-> status, status |-> status]>>

\* Faulty: fraud alone makes a finding severe, and alone counts as one.
AuditsOfFraudOnly(row, i) ==
    LET status == IF row.fraud = 1 THEN "Failed" ELSE "Passed"
    IN  <<[id |-> <<"A", i>>, key |-> status, status |-> status]>>

AuditsOf(row, i) ==
    LET findings == row.temp + row.humid + row.route + row.fraud + row.origin
        status == IF findings = 0 THEN "Passed"
                  ELSE IF row.fraud = 1 THEN "Failed" ELSE "Warning"
    IN  <<[id |-> <<"A", i>>, key |-> status, status |-> status]>>

OfRow(entity, row, i) ==
    CASE entity = "shipments" -> ShipmentsOf(row, i)
      [] entity = "alerts"    -> AlertsOf(row, i)
      [] entity = "escrows"   -> EscrowsOf(row, i)
      [] OTHER                -> AuditsOf(row, i)

Items(entity, rows) == FlattenSeq([i \in DOMAIN rows |-> OfRow(entity, rows[i], i)])

\* A list less what is not in the set (Array.filter).
Kept(list, set) ==
    LET Keep[n \in 0 .. Len(list)] ==
          IF n = 0 THEN <<>>
          ELSE IF list[n] \in set THEN Append(Keep[n - 1], list[n]) ELSE Keep[n - 1]
    IN  Keep[Len(list)]

Group(items, key) == Kept(items, {x \in ToSet(items) : key = "all" \/ x.key = key})

-----------------------------------------------------------------------------
(* paginateAndWrite *)

\* The loop over a list: the pages written, and the page being filled.
Added(acc, x) ==
    LET page == Append(acc.page, x)
    IN  IF Len(page) = PageSize
        THEN [written |-> Append(acc.written, page), page |-> <<>>]
        ELSE [written |-> acc.written, page |-> page]

Fill(items) ==
    LET Filled[n \in 0 .. Len(items)] ==
          IF n = 0 THEN [written |-> <<>>, page |-> <<>>]
          ELSE Added(Filled[n - 1], items[n])
    IN  Filled[Len(items)]

\* Faulty: the page being filled when the list ends is forgotten.
FolderOfFullPages(items) ==
    LET files == Fill(items).written
    IN  [files |-> files, total |-> Len(items),
         pages |-> IF files = <<>> THEN 1 ELSE Len(files)]

\* A directory of page files and what meta.json says of it.  An empty list has
\* no file, and is said to have one page.
Folder(items) ==
    LET end     == Fill(items)
        files   == IF end.page = <<>> THEN end.written
                                      ELSE Append(end.written, end.page)
        pageNum == Len(end.written) + 1
        pages   == pageNum - (IF end.page = <<>> THEN 1 ELSE 0)
    IN  [files |-> files, total |-> Len(items),
         pages |-> IF pages = 0 THEN 1 ELSE pages]

paginateAndWrite(entity, rows) ==
    LET items == Items(entity, rows)
    IN  [key \in {"all"} \cup {items[i].key : i \in DOMAIN items} |->
            Folder(Group(items, key))]

-----------------------------------------------------------------------------
(* stats.json *)

Count(entity, rows, key) == Len(Group(Items(entity, rows), key))

Flagged(rows, flag) == Len(Kept(rows, {r \in ToSet(rows) : r[flag] = 1}))

Stats(rows) ==
    LET warning == Count("audits", rows, "Warning")
        failed  == Count("audits", rows, "Failed")
        temp    == Flagged(rows, "temp")
        route   == Flagged(rows, "route")
    IN  [totalShipments   |-> Len(rows),
         totalAlerts      |-> Len(Items("alerts", rows)),
         statusCounts     |-> [s \in {statusOf(rows[i]) : i \in DOMAIN rows} |->
                                 Count("shipments", rows, s)],
         fraudCount       |-> Flagged(rows, "fraud"),
         tempViolations   |-> temp,
         routeDeviations  |-> route,
         originMismatches |-> Flagged(rows, "origin"),
         passedAudits     |-> Count("audits", rows, "Passed"),
         failedAudits     |-> failed,
         warningAudits    |-> warning,
         criticalAlerts   |-> Count("alerts", rows, "CRITICAL"),
         warningAlerts    |-> Count("alerts", rows, "WARNING"),
         pendingAudits    |-> warning + failed,
         anomalyCount     |-> temp + route]

-----------------------------------------------------------------------------
(* fetchStaticPage *)

Larger(a, b)  == IF a > b THEN a ELSE b
Smaller(a, b) == IF a < b THEN a ELSE b

\* Faulty: the page asked for is reported, not the one that is read.
staticPageUnclamped(folders, filter, page) ==
    LET key == IF filter = "" THEN "all" ELSE filter
    IN  IF key \notin DOMAIN folders
        THEN {[data |-> <<>>, total |-> 0, page |-> 1, totalPages |-> 1,
               pageSize |-> PageSize]}
        ELSE LET f == folders[key]
                 p == Larger(1, Smaller(page, f.pages))
             IN  {[data |-> f.files[n], total |-> f.total, page |-> page,
                   totalPages |-> f.pages, pageSize |-> PageSize] :
                  n \in {p} \cap DOMAIN f.files}

\* The one answer, or none when the page file does not exist.
staticPage(folders, filter, page) ==
    LET key == IF filter = "" THEN "all" ELSE filter
    IN  IF key \notin DOMAIN folders
        THEN {[data |-> <<>>, total |-> 0, page |-> 1, totalPages |-> 1,
               pageSize |-> PageSize]}
        ELSE LET f == folders[key]
                 p == Larger(1, Smaller(page, f.pages))
             IN  {[data |-> f.files[n], total |-> f.total, page |-> p,
                   totalPages |-> f.pages, pageSize |-> PageSize] :
                  n \in {p} \cap DOMAIN f.files}

-----------------------------------------------------------------------------
(* Properties of a dataset *)

\* Nothing is lost, repeated or moved by the cutting into files: the pages of a
\* folder are the group in its order, all full but the last, and meta.json says
\* how many there are; each item is in the one group of its key.
PagesAreTheGroup(items, folders) ==
    /\ \A key \in DOMAIN folders :
         LET f == folders[key]
         IN  /\ FlattenSeq(f.files) = Group(items, key)
             /\ f.total = Len(Group(items, key))
             /\ \A n \in DOMAIN f.files :
                  IF n < Len(f.files) THEN Len(f.files[n]) = PageSize
                                      ELSE Len(f.files[n]) \in 1..PageSize
             /\ f.pages = Larger(1, Len(f.files))
    /\ \A i \in DOMAIN items : items[i].key \in DOMAIN folders

\* The numbers on the cards are those of the lists under them: alerts by severity
\* and by cause, audits by outcome, one audit a shipment, shipments by status; a
\* shipment with an alert has an audit that did not pass, and fails by fraud only.
StatsMatchLists(rows) ==
    LET s == Stats(rows)
        total(e, key) == Folder(Group(Items(e, rows), key)).total
    IN  /\ s.totalAlerts = total("alerts", "all")
        /\ s.criticalAlerts = s.tempViolations + s.fraudCount + s.originMismatches
        /\ s.warningAlerts = s.routeDeviations
        /\ s.criticalAlerts + s.warningAlerts = s.totalAlerts
        /\ s.passedAudits + s.pendingAudits = total("audits", "all")
        /\ s.totalShipments = total("audits", "all")
        /\ s.failedAudits = s.fraudCount
        /\ \A k \in DOMAIN s.statusCounts : s.statusCounts[k] = total("shipments", k)
        /\ \A i \in DOMAIN rows :
             AlertsOf(rows[i], i) # <<>> => AuditsOf(rows[i], i)[1].status # "Passed"
=============================================================================
