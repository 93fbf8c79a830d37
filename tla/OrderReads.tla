----------------------------- MODULE OrderReads -----------------------------
(***************************************************************************)
(* Reading all orders page by page (bi_api.py, routes/bi.py, order_service *)
(* .py) while events, the CLI import (scripts/import_orders.py) and the    *)
(* reconciliation (scripts/reconcile_orders.py) change them.               *)
(*                                                                         *)
(* A page is one request: version, count and rows come from one snapshot   *)
(* of REPEATABLE READ.  Events are the atomic steps of OrderLedger.  The   *)
(* CLI swaps the table by RENAME, which waits for open transactions on it. *)
(* A reader is a session of the dashboard (streamlit_app.py), which shows  *)
(* what it has read and offers files the API makes of its current orders.  *)
(***************************************************************************)
EXTENDS OrderLedger, Rfm

CONSTANTS
    Readers,
    Listing,       \* all orders by (order_time, id)
    PageSize,
    MaxAttempts,   \* fetch_orders: max_retries
    MaxRows,       \* settings.export_max_rows
    Imports,       \* runs of import_orders.py
    CsvOrders,     \* the orders in the file of each run
    CsvRefunded,   \* those the files mark as refunded
    NoImport,
    RfmViews,      \* what the page of the customers may be set to
    FirstView,     \* what it shows at first
    MaxReads       \* bound on the reads of a reader

ASSUME PagesAssumption ==
    /\ PageSize \in Nat \ {0} /\ MaxAttempts \in Nat \ {0}
    /\ MaxRows \in Nat /\ MaxReads \in Nat
ASSUME ViewsAssumption ==
    /\ RfmViews \subseteq RfmView /\ FirstView \in RfmViews
    /\ \A v \in RfmViews : {v.r, v.f, v.m} \subseteq 1..v.bins
ASSUME ListingAssumption ==
    /\ Listing \in Seq(Orders)
    /\ \A i, j \in DOMAIN Listing : Listing[i] = Listing[j] => i = j
    /\ \A o \in Orders : \E i \in DOMAIN Listing : Listing[i] = o
ASSUME ColumnsAssumption == DayOf \in [Orders -> Int] /\ PaidOf \in [Orders -> Int]
(* One spelling is one name for MySQL and has one mask; what has no name   *)
(* stays without.                                                          *)
ASSUME NamesAssumption ==
    /\ \A o, p \in Orders : UserOf[o] = UserOf[p] =>
           CustomerOf[o] = CustomerOf[p] /\ MaskedOf[o] = MaskedOf[p]
    /\ \A o \in Orders : CustomerOf[o] = NoUser <=> UserOf[o] = NoUser
    /\ \A o \in Orders : MaskedOf[o] = NoUser <=> UserOf[o] = NoUser
ASSUME ImportsAssumption ==
    CsvOrders \in [Imports -> SUBSET Orders] /\ NoImport \notin Imports

VARIABLES
    reader,        \* the readers
    import,        \* the runs of the CLI
    importLock,    \* the run that has the named lock ea_orders_import
    reconciling,   \* candidates of the open transaction of the reconciliation
    reconciled     \* orders in order_status_reconciliation

cli == <<import, importLock>>
reconciliation == <<reconciling, reconciled>>
vars == <<tables, reader, cli, reconciliation>>

(* _ORDER_BASE: every order that is not cancelled.                         *)
Listed(o) == orders[o].status \notin {MISSING, CANCELLED}

CurrentOrders == {o \in Orders : Listed(o)}

(* ORDER BY order_time, id.                                                *)
ListOf[S \in SUBSET Orders] ==
    LET kept[i \in 0..Len(Listing)] ==
          IF i = 0 THEN <<>>
          ELSE IF Listing[i] \in S THEN Append(kept[i - 1], Listing[i]) ELSE kept[i - 1]
    IN  kept[Len(Listing)]

View == ListOf[CurrentOrders]

Lists == {ListOf[S] : S \in SUBSET Orders}

(* total_pages of the API, compared with n.                                *)
HasPage(total, n) == (n - 1) * PageSize < total

(* The rows of a page: ORDER BY order_time, id OFFSET ... LIMIT ...        *)
Page(list, n) ==
    SubSeq(list, (n - 1) * PageSize + 1,
           IF n * PageSize < Len(list) THEN n * PageSize ELSE Len(list))

(* Faulty variant of Signature: a file for other bins counts as the same.  *)
SignatureWithoutBins(view) == [view EXCEPT !.bins = 0]

(* export_signature *)
Signature(view) == view

(* A file the API made of its current orders for a view, and the signature *)
(* it is kept under.                                                       *)
Export == [signature : {Signature(v) : v \in RfmViews}, view : RfmViews, orders : SUBSET Orders]

(* taken and torn are history: the list when the first page was read, and  *)
(* whether the table was swapped since.  offered: the file in the state of *)
(* the session.  masked: the names in the result are masked.               *)
Reader == [pc : {"idle", "first", "next", "assemble", "delivered", "failed"},
           attempt : 0..MaxAttempts, reads : 0..MaxReads, version : Nat,
           total : Nat, page : Nat, rows : Seq(Orders), result : Seq(Orders),
           taken : Seq(Orders), torn : BOOLEAN, view : RfmViews, offered : SUBSET Export,
           masked : BOOLEAN]

Modes == {"bootstrap", "replace"}

(* run: the status in data_import_runs; renamed: the variable of the       *)
(* script.                                                                 *)
Import == [pc : {"idle", "guard", "stage", "recheck", "rename", "bump", "finish", "ended"},
           mode : Modes, run : {"none", "running", "completed", "failed"},
           staging : BOOLEAN, renamed : BOOLEAN]

TypeOK ==
    /\ LedgerTypeOK
    /\ reader \in [Readers -> Reader]
    /\ import \in [Imports -> Import]
    /\ importLock \in Imports \cup {NoImport}
    /\ reconciling \subseteq Orders
    /\ reconciled \subseteq Orders

Init ==
    /\ LedgerInit
    /\ reader = [r \in Readers |->
           [pc |-> "idle", attempt |-> 0, reads |-> 0, version |-> 0, total |-> 0, page |-> 0,
            rows |-> <<>>, result |-> <<>>, taken |-> <<>>, torn |-> FALSE,
            view |-> FirstView, offered |-> {}, masked |-> FALSE]]
    /\ import \in [Imports -> [pc : {"idle"}, mode : Modes, run : {"none"},
                               staging : {FALSE}, renamed : {FALSE}]]
    /\ importLock = NoImport
    /\ reconciling = {}
    /\ reconciled = {}

-----------------------------------------------------------------------------
(* Readers.                                                                *)

(* fetch_orders returns or raises; its variables are gone.                 *)
Leave(r, pc, result, masked) ==
    reader' = [reader EXCEPT ![r] = [@ EXCEPT
        !.pc = pc, !.attempt = 0, !.version = 0, !.total = 0, !.page = 0, !.rows = <<>>,
        !.taken = <<>>, !.torn = FALSE, !.result = result, !.masked = masked]]

Fail(r) == Leave(r, "failed", reader[r].result, reader[r].masked)

(* The script runs and load_data has nothing in its cache: 30 s are over,  *)
(* or there was an error.                                                  *)
BeginRead(r) ==
    /\ reader[r].pc \in {"idle", "delivered", "failed"}
    /\ reader[r].reads < MaxReads
    /\ reader' = [reader EXCEPT ![r] = [@ EXCEPT
           !.pc = "first", !.attempt = 1, !.reads = reader[r].reads + 1]]
    /\ UNCHANGED <<tables, cli, reconciliation>>

(* The button for fresh data: what was generated before goes.              *)
Refresh(r) ==
    /\ reader[r].pc \in {"delivered", "failed"}
    /\ reader[r].reads < MaxReads
    /\ reader' = [reader EXCEPT ![r] = [@ EXCEPT
           !.pc = "first", !.attempt = 1, !.reads = reader[r].reads + 1, !.offered = {}]]
    /\ UNCHANGED <<tables, cli, reconciliation>>

(* The first page fixes version and total; too many orders are refused.    *)
FirstPage(r) ==
    /\ reader[r].pc = "first"
    /\ IF Len(View) > MaxRows
       THEN Fail(r)
       ELSE reader' = [reader EXCEPT ![r] = [@ EXCEPT
                !.pc = IF HasPage(Len(View), 2) THEN "next" ELSE "assemble",
                !.version = dataVersion, !.total = Len(View), !.page = 1,
                !.rows = Page(View, 1), !.taken = View, !.torn = FALSE]]
    /\ UNCHANGED <<tables, cli, reconciliation>>

(* BI_DATA_VERSION_CHANGED, from the server or found by the client.        *)
Conflict(r) ==
    IF reader[r].attempt < MaxAttempts
    THEN reader' = [reader EXCEPT ![r] = [@ EXCEPT
             !.pc = "first", !.attempt = reader[r].attempt + 1, !.version = 0, !.total = 0,
             !.page = 0, !.rows = <<>>, !.taken = <<>>, !.torn = FALSE]]
    ELSE Fail(r)

(* Faulty variant of SamePages: the server does not compare the version.   *)
SameTotal(r) == Len(View) = reader[r].total

(* A later page belongs to the first one: same version, same total.        *)
SamePages(r) == dataVersion = reader[r].version /\ Len(View) = reader[r].total

NextPage(r) ==
    /\ reader[r].pc = "next"
    /\ LET n == reader[r].page + 1
       IN  IF SamePages(r)
           THEN reader' = [reader EXCEPT ![r] = [@ EXCEPT
                    !.pc = IF HasPage(reader[r].total, n + 1) THEN "next" ELSE "assemble",
                    !.page = n, !.rows = reader[r].rows \o Page(View, n)]]
           ELSE Conflict(r)
    /\ UNCHANGED <<tables, cli, reconciliation>>

(* All pages are there.  Their names are masked if the principal they were *)
(* read for lacks data:pii; that may be another one than the session's:    *)
(* load_data keeps what it returned for every session of the dashboard.    *)
Assemble(r) ==
    /\ reader[r].pc = "assemble"
    /\ IF Len(reader[r].rows) = reader[r].total
       THEN \E masked \in BOOLEAN : Leave(r, "delivered", reader[r].rows, masked)
       ELSE Fail(r)
    /\ UNCHANGED <<tables, cli, reconciliation>>

(* The connection breaks, the session ends, the server fails.              *)
RequestFails(r) ==
    /\ reader[r].pc \in {"first", "next"}
    /\ Fail(r)
    /\ UNCHANGED <<tables, cli, reconciliation>>

(* The customers of each order as the page knows them.                     *)
Names(r) == IF reader[r].masked THEN MaskedOf ELSE UserOf

(* The page of the customers, with the days of the orders it shows.        *)
Shown(r) == FrameMeasures(reader[r].result, Names(r), reader[r].view.day)

DaysShown(r) == {DayOf[reader[r].result[i]] : i \in DOMAIN reader[r].result}

Platforms == {PlatformOf[o] : o \in Orders}

HasRfmPage(r) ==
    /\ reader[r].pc = "delivered" /\ reader[r].result # <<>>
    /\ \E d, e \in DaysShown(r) : d <= reader[r].view.day /\ reader[r].view.day <= e

(* Other parameters: a file for the old ones goes.                         *)
ChangeView(r) ==
    /\ HasRfmPage(r)
    /\ \E v \in RfmViews \ {reader[r].view} :
         reader' = [reader EXCEPT ![r] = [@ EXCEPT
             !.view = v, !.offered = {e \in reader[r].offered : e.signature = Signature(v)}]]
    /\ UNCHANGED <<tables, cli, reconciliation>>

(* The button under the table of a segment: the API computes it anew.      *)
GenerateExport(r) ==
    LET view == reader[r].view
    IN  /\ HasRfmPage(r)
        /\ SegmentRows(Shown(r), view) # {}
        /\ reader' = [reader EXCEPT ![r].offered =
               {[signature |-> Signature(view), view |-> view, orders |-> CurrentOrders]}]
        /\ UNCHANGED <<tables, cli, reconciliation>>

-----------------------------------------------------------------------------
(* The CLI import.                                                         *)

CliAt(k, pc) == import' = [import EXCEPT ![k].pc = pc]

(* GET_LOCK waits 5 s.                                                     *)
GetImportLock(k) ==
    /\ import[k].pc = "idle"
    /\ \/ importLock = NoImport /\ importLock' = k /\ CliAt(k, "guard")
       \/ importLock # NoImport /\ CliAt(k, "ended") /\ UNCHANGED importLock
    /\ UNCHANGED <<tables, reader, reconciliation>>

(* updated_at is set by events and by the reconciliation.                  *)
RuntimeOrder(o) ==
    Exists(o) /\ (orders[o].version # 0 \/ orders[o].status # ACTIVE)

Guarded(mode) ==
    /\ ledger = {}
    /\ \A o \in Orders : IF mode = "bootstrap" THEN ~Exists(o) ELSE ~RuntimeOrder(o)

(* The run ends in error: staging goes unless it became the table, the run *)
(* is marked failed whatever happened, the lock is released.               *)
ImportFails(k) ==
    /\ import' = [import EXCEPT ![k] = [@ EXCEPT
           !.pc = "ended", !.staging = import[k].staging /\ import[k].renamed,
           !.run = IF import[k].run = "none" THEN "none" ELSE "failed"]]
    /\ importLock' = NoImport

Guard(k) ==
    /\ import[k].pc = "guard"
    /\ IF Guarded(import[k].mode)
       THEN /\ import' = [import EXCEPT ![k].pc = "stage", ![k].run = "running"]
            /\ UNCHANGED importLock
       ELSE ImportFails(k)
    /\ UNCHANGED <<tables, reader, reconciliation>>

(* CREATE TABLE ... LIKE, the rows in one transaction, the validation.     *)
Stage(k) ==
    /\ import[k].pc = "stage"
    /\ import' = [import EXCEPT ![k] = [@ EXCEPT !.staging = TRUE,
           !.pc = IF import[k].mode = "replace" THEN "recheck" ELSE "rename"]]
    /\ UNCHANGED <<tables, reader, importLock, reconciliation>>

Recheck(k) ==
    /\ import[k].pc = "recheck"
    /\ IF Guarded("replace")
       THEN CliAt(k, "rename") /\ UNCHANGED importLock
       ELSE ImportFails(k)
    /\ UNCHANGED <<tables, reader, reconciliation>>

CsvTable(k) ==
    [o \in Orders |-> IF o \in CsvOrders[k]
                      THEN [status |-> ACTIVE, version |-> 0, refunded |-> o \in CsvRefunded]
                      ELSE NoOrder]

(* RENAME TABLE waits for the open transaction of the reconciliation.      *)
Rename(k) ==
    /\ import[k].pc = "rename"
    /\ reconciling = {}
    /\ orders' = CsvTable(k)
    /\ import' = [import EXCEPT ![k] = [@ EXCEPT
           !.pc = "bump", !.renamed = TRUE, !.staging = FALSE]]
    /\ reader' = [r \in Readers |-> [reader[r] EXCEPT
           !.torn = @ \/ reader[r].pc \in {"next", "assemble"}]]
    /\ UNCHANGED <<ledger, dataVersion, importLock, reconciliation>>

Bump(k) ==
    /\ import[k].pc = "bump"
    /\ dataVersion' = dataVersion + 1
    /\ CliAt(k, "finish")
    /\ UNCHANGED <<ledger, orders, reader, importLock, reconciliation>>

FinishImport(k) ==
    /\ import[k].pc = "finish"
    /\ import' = [import EXCEPT ![k].pc = "ended", ![k].run = "completed"]
    /\ importLock' = NoImport
    /\ UNCHANGED <<tables, reader, reconciliation>>

(* Any statement raises.                                                   *)
ImportRaises(k) ==
    /\ import[k].pc \in {"guard", "stage", "recheck", "rename", "bump", "finish"}
    /\ ImportFails(k)
    /\ UNCHANGED <<tables, reader, reconciliation>>

(* The process dies: MySQL frees the lock, nobody drops the staging table. *)
ImportDies(k) ==
    /\ import[k].pc \in {"guard", "stage", "recheck", "rename", "bump", "finish"}
    /\ CliAt(k, "ended")
    /\ importLock' = NoImport
    /\ UNCHANGED <<tables, reader, reconciliation>>

-----------------------------------------------------------------------------
(* The reconciliation of refunds the CSV knows and no event tells.         *)

Untouched(o) == orders[o].status = ACTIVE /\ orders[o].version = 0

Candidates ==
    {o \in Orders : /\ Untouched(o)
                    /\ orders[o].refunded
                    /\ ~\E row \in ledger : row.event.order = o}

ReconcileSelect ==
    /\ reconciling = {}
    /\ Candidates # {}
    /\ reconciling' = Candidates
    /\ UNCHANGED <<tables, reader, cli, reconciled>>

(* Faulty variant of Changed: the UPDATE does not repeat the conditions.   *)
ChangedBlindly == reconciling

(* The candidates the UPDATE still finds as they were selected.            *)
Changed == {o \in reconciling : Untouched(o)}

ReconcileCommit ==
    /\ reconciling # {}
    /\ orders' = [o \in Orders |-> IF o \in Changed
                                   THEN [orders[o] EXCEPT !.status = REFUNDED] ELSE orders[o]]
    /\ reconciled' = reconciled \cup Changed
    /\ dataVersion' = dataVersion + 1
    /\ reconciling' = {}
    /\ UNCHANGED <<ledger, reader, cli>>

ReconcileAborts ==
    /\ reconciling # {}
    /\ reconciling' = {}
    /\ UNCHANGED <<tables, reader, cli, reconciled>>

-----------------------------------------------------------------------------

EventCommits == LedgerNext /\ UNCHANGED <<reader, cli, reconciliation>>

Next ==
    \/ EventCommits
    \/ \E r \in Readers :
         \/ Refresh(r) \/ ChangeView(r) \/ GenerateExport(r)
         \/ BeginRead(r) \/ FirstPage(r) \/ NextPage(r) \/ Assemble(r) \/ RequestFails(r)
    \/ \E k \in Imports :
         \/ GetImportLock(k) \/ Guard(k) \/ Stage(k) \/ Recheck(k) \/ Rename(k)
         \/ Bump(k) \/ FinishImport(k) \/ ImportRaises(k) \/ ImportDies(k)
    \/ ReconcileSelect \/ ReconcileCommit \/ ReconcileAborts

Spec == Init /\ [][Next]_vars

-----------------------------------------------------------------------------

Phase(pc) ==
    CASE pc = "first" -> "waiting"
      [] pc \in {"next", "assemble"} -> "reading"
      [] OTHER -> pc

Snapshots == INSTANCE OrderSnapshots WITH
    list <- View,
    version <- dataVersion,
    phase <- [r \in Readers |-> Phase(reader[r].pc)],
    taken <- [r \in Readers |-> reader[r].taken],
    torn <- [r \in Readers |-> reader[r].torn],
    result <- [r \in Readers |-> reader[r].result]

(* A dashboard gets the orders of one moment, whatever is committed        *)
(* between its pages, unless the CLI swaps the table in between; and the   *)
(* list of orders changes with the data version only, but for the swap     *)
(* (bi_api.py:128, "the whole read is bound to one data version").         *)
ReadsAreSnapshots == Snapshots!SnapshotSpec

(* What may explain the status of an order.                                *)
ByEvent(o) ==
    \E e \in Events : /\ Row(e, PROCESSED) \in ledger
                      /\ e.order = o
                      /\ e.version = orders[o].version
                      /\ TargetStatus(e.type) = orders[o].status

ByReconciliation(o) ==
    orders[o].version = 0 /\ orders[o].status = REFUNDED /\ o \in reconciled

Explained(o) ==
    orders[o].status \in {REFUNDED, CANCELLED} => ByEvent(o) \/ ByReconciliation(o)

(* The status of every order is explained: by the event in the ledger that *)
(* gave it its watermark, or by an audit row of the reconciliation, which  *)
(* never overwrites what an event did after the candidates were selected   *)
(* (reconcile_orders.py:4-5).                                              *)
StatusesAreExplained == \A o \in Orders : Explained(o)

(* The thresholds of the overview and of the segments of the API, for the  *)
(* bins and the day of a request.                                          *)
ApiView(bins, day) ==
    [bins |-> bins, r |-> DefaultThreshold(bins), f |-> DefaultThreshold(bins),
     m |-> DefaultThreshold(bins), day |-> day]

(* Where the sliders of the page stand at first.                           *)
FirstShown(days) == [bins |-> 5, r |-> 3, f |-> 3, m |-> 3, day |-> F!Max(days)]

(* The page tells the customers of its rows apart as MySQL does: the names *)
(* are not masked, and none of them has two spellings.                     *)
Told(r) ==
    \A i \in DOMAIN reader[r].result :
        Names(r)[reader[r].result[i]] = CustomerOf[reader[r].result[i]]

(* No customer of the current orders has two spellings.                    *)
SpelledOnce == \A o \in CurrentOrders : UserOf[o] = CustomerOf[o]

(* While the page of the sales is up to date, its figures are those of the *)
(* API: for every range of days, and the cards, platforms and products for *)
(* all of them; the API agrees with itself.  Masks can only merge          *)
(* customers, spellings only split them.                                   *)
SalesAgree(r) ==
    LET page      == SalesPage(reader[r].result, Names(r), Platforms, DaysShown(r))
        flagged   == {o \in Orders : orders[o].refunded}
        overview  == SalesOverview(CurrentOrders, flagged)
        behavior  == UserBehavior(CurrentOrders)
        platforms == Categories(CurrentOrders, flagged)
    IN  /\ page.all = overview.all
        /\ Told(r) => page.users = overview.users
        /\ ~reader[r].masked => page.users >= overview.users
        /\ SpelledOnce => page.users <= overview.users
        /\ behavior.all = overview.all /\ behavior.users = overview.users
        /\ page.platforms = [p \in DOMAIN platforms |-> platforms[p].all]
        /\ page.top = TopProducts(CurrentOrders, 10)
        /\ \A from, to \in DaysShown(r) :
             SalesPage(reader[r].result, Names(r), Platforms, from..to).daily
                 = SalesTrend(CurrentOrders, from..to)

(* The cards of the customers against /api/rfm/overview, for the bins and  *)
(* the day of the page, and for the parameters both have at first: the day *)
(* of the API is then that of the latest of all orders, also cancelled     *)
(* ones.  The API has no thresholds to set: where those of the page are    *)
(* not its own, the total is all they share.                               *)
OverviewsAgree(r) ==
    LET view  == reader[r].view
        api   == Overview(SqlMeasures(CurrentOrders, view.day), ApiView(view.bins, view.day))
        page  == Overview(Shown(r), view)
        all   == {DayOf[o] : o \in {p \in Orders : Exists(p)}}
        first == FirstShown(DaysShown(r))
    IN  /\ page.total = api.total
        /\ {view.r, view.f, view.m} = {DefaultThreshold(view.bins)} => page = api
        /\ Overview(FrameMeasures(reader[r].result, Names(r), first.day), first)
               = Overview(SqlMeasures(CurrentOrders, F!Max(all)), ApiView(5, F!Max(all)))

(* "Dashboard, API and export share one definition, so that no two numbers *)
(* appear for high-value customers" (rfm_scoring.py:14-15; the cards,      *)
(* streamlit_app.py:404 and 424), and one for orders, users and sales      *)
(* (analytics_service.py:18-22).  While a page is up to date its sales are *)
(* those of the API; and if it tells customers apart as MySQL does, the    *)
(* overviews agree wherever the thresholds do, and a file that is offered, *)
(* made from the orders the page shows, has the customers, scores and      *)
(* measures of the segment shown now, whatever the thresholds.  Masked     *)
(* names and other thresholds are exceptions the code has, not the text.   *)
ViewsAgree ==
    \A r \in Readers : HasRfmPage(r) =>
        /\ reader[r].result = View => SalesAgree(r)
        /\ reader[r].result = View /\ Told(r) => OverviewsAgree(r)
        /\ Told(r) => \A e \in reader[r].offered :
             ListOf[e.orders] = reader[r].result =>
                 SegmentRows(SqlMeasures(e.orders, e.view.day), e.view)
                     = SegmentRows(Shown(r), reader[r].view)
=============================================================================
