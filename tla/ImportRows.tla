----------------------------- MODULE ImportRows -----------------------------
(***************************************************************************)
(* One data import (data_import_service.py): its file is read (ImportFiles *)
(* says how), its rows are staged in batches with their conflicts, written *)
(* to orders and order_events in chunks and checked against the ledger at  *)
(* the end.  Meanwhile the event service                                   *)
(* goes on; its transactions are the atomic steps of OrderLedger, which    *)
(* OrderEvents implements, and row and gap locks order them with the       *)
(* commit of a chunk.  ImportRuns has the requests around all this.        *)
(***************************************************************************)
EXTENDS OrderLedger, ImportFiles, FiniteSetsExt

CONSTANTS
    Uploads,     \* files that may be uploaded
    MaxRows,     \* data_import_max_rows_csv, data_import_max_rows_xlsx
    BatchSize,   \* rows staged in one transaction
    ChunkSize,   \* rows written in one transaction
    PageSize,    \* data_import_preview_rows
    ExportLimit  \* data_import_error_export_max_rows

(* _ledger_events: a row's creation is version 1 and its refund version 2; *)
(* uuid5 of (file, row number, type) makes their ids deterministic.        *)
ImportEvents(row) ==
    {[id |-> <<row.no, type>>, order |-> row.order, type |-> type,
      version |-> IF type = ORDER_CREATED THEN 1 ELSE 2] :
        type \in {ORDER_CREATED} \cup IF row.refund THEN {ORDER_REFUNDED} ELSE {}}

(* The orders a file stands for.                                           *)
OrdersIn(u) == {row \in {RowOf(u, n) : n \in Lines(u)} : row.ok}

EventsOfFiles ==
    UNION {UNION {ImportEvents(row) : row \in OrdersIn(u)} :
             u \in {v \in Uploads : Refusals(v) = {}}}

ApiEvents == Events \ EventsOfFiles

(* No producer sends an id that is the hash of a file and a line of it.    *)
ASSUME UploadsAssumption ==
    /\ Uploads \subseteq Upload
    /\ EventsOfFiles \subseteq Events
    /\ \A e \in ApiEvents, u \in Uploads :
         \A n \in Lines(u), type \in EventTypes : e.id # <<n, type>>

ASSUME SizesAssumption ==
    /\ {MaxRows, BatchSize, ChunkSize, PageSize, ExportLimit} \subseteq Nat \ {0}
    /\ IsFiniteSet(SnapshotOrders)

VARIABLES
    upload,    \* the uploaded file
    file,      \* what is read of each of its lines, by the number of the line
    policy,    \* conflict_policy
    phase,     \* where the import is
    cancel,    \* cancel_requested
    rows,      \* status of each staged line (data_import_rows)
    existing,  \* what the chunk under way has read of orders
    seqs,      \* primary keys of orders in use
    nextSeq,   \* AUTO_INCREMENT of orders
    count      \* rows_inserted, rows_rejected, rows_skipped of the run

importVars == <<upload, file, policy, phase, cancel, rows, existing, seqs, nextSeq, count>>

vars == <<tables, importVars>>

Executing == {"policy", "check", "insert", "finalize", "finalizeCancelled"}

(* "refused": there is no run; "stuck": it stays validating for ever;      *)
(* "inconsistent": failed with IMPORT_CONSISTENCY_FAILED.                  *)
Ended == {"refused", "stuck", "completed", "cancelled", "failed", "inconsistent"}

RowStatuses == {"valid", "invalid", "conflict", "imported", "failed", "skipped"}

NothingRead == [orders |-> {}, seqs |-> {}]

NoLines == [n \in {} |-> "valid"]

TypeOK ==
    /\ LedgerTypeOK
    /\ upload \in Uploads
    /\ file \in [DOMAIN file -> FileRow]
    /\ policy \in {"reject", "skip"}
    /\ phase \in {"uploading", "staging", "validated"} \cup Executing \cup Ended
    /\ cancel \in BOOLEAN
    /\ rows \in [DOMAIN rows -> RowStatuses] /\ DOMAIN rows \subseteq DOMAIN file
    /\ existing \in [orders : SUBSET Orders, seqs : SUBSET Nat]
    /\ phase # "insert" => existing = NothingRead
    /\ seqs \subseteq Nat \ {0} /\ nextSeq \in Nat
    /\ \A q \in seqs : q < nextSeq
    /\ count \in [inserted : Nat, rejected : Nat, skipped : Nat]

Init ==
    /\ LedgerInit
    /\ upload \in Uploads
    /\ file = NoLines
    /\ policy \in {"reject", "skip"}
    /\ phase = "uploading"
    /\ cancel = FALSE
    /\ rows = NoLines
    /\ existing = NothingRead
    /\ seqs = 1..Cardinality(SnapshotOrders)
    /\ nextSeq = Cardinality(SnapshotOrders) + 1
    /\ count = [inserted |-> 0, rejected |-> 0, skipped |-> 0]

-----------------------------------------------------------------------------

(* The request refuses the file, or begins a run that reads its lines.     *)
ReadUpload ==
    /\ phase = "uploading"
    /\ \/ Refusals(upload) # {} /\ phase' = "refused" /\ UNCHANGED file
       \/ Refusals(upload) = {} /\ phase' = "staging" /\ file' = SourceRows(upload)
    /\ UNCHANGED <<tables, upload, policy, cancel, rows, existing, seqs, nextSeq, count>>

RowsWith(status) == {n \in DOMAIN rows : rows[n] = status}

(* The lines of S in the order of the file: those before line n, the first *)
(* k of them.                                                              *)
Before(n, S) == {m \in S : m < n}

First(k, S) == {n \in S : Cardinality(Before(n, S)) < k}

(* An earlier row with the same order number or the same key; rows that    *)
(* are conflicts themselves count, invalid ones do not.                    *)
DuplicateInFile(n) ==
    \E m \in Before(n, DOMAIN file) :
        /\ file[m].ok
        /\ \/ file[m].order = file[n].order
           \/ file[n].seq # 0 /\ file[m].seq = file[n].seq

Verdict(n) ==
    IF ~file[n].ok THEN "invalid"
    ELSE IF DuplicateInFile(n) \/ Exists(file[n].order) \/ file[n].seq \in seqs
    THEN "conflict" ELSE "valid"

(* _stage_batch, and after the last one _finalize_validation.              *)
StageBatch ==
    LET next   == First(BatchSize, DOMAIN file \ DOMAIN rows)
        staged == DOMAIN rows \cup next
    IN  /\ phase = "staging" /\ next # {} /\ Cardinality(staged) <= MaxRows
        /\ rows' = [n \in staged |-> IF n \in DOMAIN rows THEN rows[n] ELSE Verdict(n)]
        /\ UNCHANGED <<tables, upload, file, policy, phase, cancel, existing, seqs, nextSeq, count>>

FinalizeValidation ==
    /\ phase = "staging" /\ DOMAIN file # {} /\ DOMAIN rows = DOMAIN file
    /\ phase' = "validated"
    /\ UNCHANGED <<tables, upload, file, policy, cancel, rows, existing, seqs, nextSeq, count>>

(* Too many rows or none, a line that cannot be read, a statement that     *)
(* raises: _mark_run_failed removes what was staged, or fails as well.     *)
ValidationFails ==
    /\ phase = "staging"
    /\ \/ phase' = "failed" /\ rows' = NoLines
       \/ phase' = "stuck" /\ UNCHANGED rows
    /\ UNCHANGED <<tables, upload, file, policy, cancel, existing, seqs, nextSeq, count>>

(* The run is confirmed and claimed (ImportRuns).                          *)
Start ==
    /\ phase = "validated"
    /\ phase' = "policy"
    /\ UNCHANGED <<tables, upload, file, policy, cancel, rows, existing, seqs, nextSeq, count>>

RequestCancel ==
    /\ phase \in Executing
    /\ ~cancel
    /\ cancel' = TRUE
    /\ UNCHANGED <<tables, upload, file, policy, phase, rows, existing, seqs, nextSeq, count>>

(* _apply_conflict_policy: conflicts fail, or are skipped.                 *)
ApplyConflictPolicy ==
    LET conflicts == RowsWith("conflict")
    IN  /\ phase = "policy"
        /\ phase' = "check"
        /\ rows' = [n \in DOMAIN rows |->
                      IF n \notin conflicts THEN rows[n]
                      ELSE IF policy = "skip" THEN "skipped" ELSE "failed"]
        /\ count' = IF policy = "skip"
                    THEN [count EXCEPT !.skipped = @ + Cardinality(conflicts)]
                    ELSE [count EXCEPT !.rejected = @ + Cardinality(conflicts)]
        /\ UNCHANGED <<tables, upload, file, policy, cancel, existing, seqs, nextSeq>>

(* _is_cancel_requested, the SELECT of the next chunk and what it needs of *)
(* orders: one snapshot.                                                   *)
SelectChunk ==
    /\ phase = "check"
    /\ \/ cancel /\ phase' = "finalizeCancelled" /\ UNCHANGED existing
       \/ ~cancel /\ RowsWith("valid") = {} /\ phase' = "finalize" /\ UNCHANGED existing
       \/ /\ ~cancel /\ RowsWith("valid") # {}
          /\ phase' = "insert"
          /\ existing' = [orders |-> {o \in Orders : Exists(o)}, seqs |-> seqs]
    /\ UNCHANGED <<tables, upload, file, policy, cancel, rows, seqs, nextSeq, count>>

(* The first ChunkSize valid rows in the order of the file.                *)
Chunk == First(ChunkSize, RowsWith("valid"))

Candidates ==
    {n \in Chunk : file[n].order \notin existing.orders /\ file[n].seq \notin existing.seqs}

(* INSERT of one row: both unique keys are checked against the committed   *)
(* rows and the rows inserted before; an empty key takes AUTO_INCREMENT,   *)
(* which is used up even when the INSERT fails.                            *)
InsertRow(t, n) ==
    LET row == file[n]
        seq == IF row.seq = 0 THEN t.next ELSE row.seq
        use == IF seq >= t.next THEN seq + 1 ELSE t.next
    IN  IF row.order \in t.orders \/ seq \in t.seqs
        THEN IF row.seq = 0 THEN [t EXCEPT !.next = use] ELSE t
        ELSE [orders |-> t.orders \cup {row.order}, seqs |-> t.seqs \cup {seq},
              next |-> use, done |-> t.done \cup {n}]

(* The candidates one after the other; after[n]: up to line n.             *)
InsertAll(next) ==
    LET after[n \in 0..Len(upload.lines)] ==
          IF n = 0
          THEN [orders |-> {o \in Orders : Exists(o)}, seqs |-> seqs, next |-> next, done |-> {}]
          ELSE IF n \in Candidates THEN InsertRow(after[n - 1], n) ELSE after[n - 1]
    IN  after[Len(upload.lines)]

(* Faulty variant of InsertOrdersSafely: a conflict fails the whole chunk. *)
InsertOrdersAtOnce ==
    LET t == InsertAll(nextSeq)
    IN  IF t.done = Candidates THEN {t}
        ELSE {[t EXCEPT !.done = {}, !.seqs = seqs]}

(* _insert_orders_safely: the whole chunk, or row by row from the start    *)
(* when that fails; the failed attempt leaves a gap in AUTO_INCREMENT.     *)
InsertOrdersSafely ==
    LET t     == InsertAll(nextSeq)
        autos == Cardinality({n \in Candidates : file[n].seq = 0})
    IN  IF t.done = Candidates THEN {t}
        ELSE {InsertAll(next) : next \in nextSeq..(nextSeq + autos)}

ImportedOrder(row) ==
    [status   |-> IF row.refund THEN REFUNDED ELSE ACTIVE,
     version  |-> IF row.refund THEN 2 ELSE 1,
     refunded |-> row.refund]

(* Faulty variant of ImportLedger: a refunded row only records its         *)
(* creation.                                                               *)
ImportLedgerOfCreations(done) ==
    ledger \cup {Row(e, PROCESSED) :
        e \in {f \in UNION {ImportEvents(file[n]) : n \in done} : f.type = ORDER_CREATED}}

(* INSERT ... ON DUPLICATE KEY UPDATE: recorded ids keep their row.        *)
ImportLedger(done) ==
    ledger \cup {Row(e, PROCESSED) :
        e \in {f \in UNION {ImportEvents(file[n]) : n \in done} : ~Recorded(f.id)}}

(* Faulty variants of ChunkCount and NextVersion: rows that fail at the    *)
(* INSERT are not counted; the version moves once per row.                 *)
ChunkCountOfCandidates(done) ==
    [count EXCEPT !.inserted = @ + Cardinality(done),
                  !.rejected = @ + Cardinality(Chunk \ Candidates)]

NextVersionPerRow(done) == dataVersion + Cardinality(done)

ChunkCount(done) ==
    [count EXCEPT !.inserted = @ + Cardinality(done),
                  !.rejected = @ + Cardinality(Chunk \ done)]

NextVersion(done) == IF done = {} THEN dataVersion ELSE dataVersion + 1

(* Faulty variant of RowsAfterChunk: every candidate counts as imported.   *)
RowsAfterChunkOfCandidates(done) ==
    [n \in DOMAIN rows |-> IF n \in Candidates THEN "imported"
                           ELSE IF n \in Chunk THEN "failed" ELSE rows[n]]

RowsAfterChunk(done) ==
    [n \in DOMAIN rows |-> IF n \in done THEN "imported"
                           ELSE IF n \in Chunk THEN "failed" ELSE rows[n]]

(* _execute_chunk: orders, ledger, data version, rows and counters in one  *)
(* transaction, which raises when a row does not fit the table.            *)
ExecuteChunk ==
    /\ phase = "insert"
    /\ \A n \in Candidates : Storable(file[n])
    /\ phase' = "check"
    /\ \E t \in InsertOrdersSafely :
         LET done == t.done
             new(o) == {n \in done : file[n].order = o}
         IN  /\ orders' = [o \in Orders |->
                             IF new(o) = {} THEN orders[o]
                             ELSE ImportedOrder(file[CHOOSE n \in new(o) : TRUE])]
             /\ ledger' = ImportLedger(done)
             /\ dataVersion' = NextVersion(done)
             /\ rows' = RowsAfterChunk(done)
             /\ count' = ChunkCount(done)
             /\ seqs' = t.seqs
             /\ nextSeq' = t.next
    /\ existing' = NothingRead
    /\ UNCHANGED <<upload, file, policy, cancel>>

EventsOn(o) == {row.event : row \in {r \in ledger : r.event.order = o}}

(* Faulty variant of Mismatch: only PROCESSED events of the ledger count.  *)
MismatchWithProcessed(o) ==
    ~ \E e \in ProcessedEvents(o) :
        /\ e.version = orders[o].version
        /\ \A f \in ProcessedEvents(o) : f.version <= e.version

(* _consistency_mismatch_count's condition on one imported order.          *)
Mismatch(o) ==
    LET row     == orders[o]
        refunds == {e \in EventsOn(o) : e.type = ORDER_REFUNDED}
    IN  \/ row.version # Max({0} \cup {e.version : e \in EventsOn(o)})
        \/ row.refunded /\ (row.status # REFUNDED \/ row.version # 2 \/ refunds = {})
        \/ ~row.refunded /\ (row.status # ACTIVE \/ row.version # 1 \/ refunds # {})

(* _finalize_execution: the verdict, and the counters from the rows.       *)
Finalize ==
    /\ phase \in {"finalize", "finalizeCancelled"}
    /\ phase' = IF \E n \in RowsWith("imported") : Mismatch(file[n].order)
                THEN "inconsistent"
                ELSE IF phase = "finalize" THEN "completed" ELSE "cancelled"
    /\ count' = [inserted |-> Cardinality(RowsWith("imported")),
                 rejected |-> Cardinality(RowsWith("failed")),
                 skipped  |-> Cardinality(RowsWith("skipped"))]
    /\ UNCHANGED <<tables, upload, file, policy, cancel, rows, existing, seqs, nextSeq>>

(* Faulty variant of ExecutionError: the transaction is left open.         *)
ExecutionErrorWithoutRollback ==
    /\ phase \in Executing
    /\ phase' = "failed"
    /\ UNCHANGED <<tables, upload, file, policy, cancel, rows, existing, seqs, nextSeq, count>>

(* A statement of the execution raises (a deadlock with an event's         *)
(* transaction, say): the chunk rolls back, the run fails.                 *)
ExecutionError ==
    /\ phase \in Executing
    /\ phase' = "failed"
    /\ existing' = NothingRead
    /\ UNCHANGED <<tables, upload, file, policy, cancel, rows, seqs, nextSeq, count>>

-----------------------------------------------------------------------------

(* What is shown of the run: progress in tenths of a percent, at most 99.9 *)
(* while it runs; pages of the rows of a status; the list of what failed.  *)

(* build_run_status *)
Progress ==
    LET done  == count.inserted + count.skipped + count.rejected
        read  == Cardinality(DOMAIN rows)
        share == (2000 * done + read) \div (2 * read)
    IN  IF phase = "completed" THEN 1000
        ELSE IF read = 0 \/ phase \notin Executing \cup {"cancelled"} THEN 0
        ELSE Min({share, IF phase = "cancelled" THEN 1000 ELSE 999})

(* build_row_page *)
RowPage(status, page) ==
    LET found == RowsWith(status)
    IN  First(page * PageSize, found) \ First((page - 1) * PageSize, found)

(* build_preview, before the run is confirmed.                             *)
Preview == [status \in {"valid", "conflict", "invalid"} |-> RowPage(status, 1)]

(* build_execution_result counts the rows itself.                          *)
Result == [failed |-> RowPage("failed", 1), skipped |-> Cardinality(RowsWith("skipped"))]

TotalPages(status) == (Cardinality(RowsWith(status)) + PageSize - 1) \div PageSize

(* export_failure_csv *)
Failures ==
    LET found == RowsWith("invalid") \cup RowsWith("failed")
    IN  [rows |-> First(ExportLimit, found), truncated |-> Cardinality(found) > ExportLimit]

-----------------------------------------------------------------------------

(* One transaction of the event service; a creation takes the next key.    *)
ApplyOrderEvent(e) ==
    /\ \/ (Reject(e) \/ ApplyState(e)) /\ UNCHANGED <<seqs, nextSeq>>
       \/ ApplyCreated(e) /\ seqs' = seqs \cup {nextSeq} /\ nextSeq' = nextSeq + 1
    /\ UNCHANGED <<upload, file, policy, phase, cancel, rows, existing, count>>

Next ==
    \/ ReadUpload
    \/ StageBatch
    \/ FinalizeValidation
    \/ ValidationFails
    \/ Start
    \/ RequestCancel
    \/ ApplyConflictPolicy
    \/ SelectChunk
    \/ ExecuteChunk
    \/ Finalize
    \/ ExecutionError
    \/ \E e \in ApiEvents : ApplyOrderEvent(e)

Spec == Init /\ [][Next]_vars

-----------------------------------------------------------------------------

(* "imported" means what it says, and nothing else was written: a row has  *)
(* that status exactly if its creation is in the ledger, and its order is  *)
(* there; both, or neither, whatever happens between two chunks.           *)
ImportedRowsAreInLedger ==
    \A n \in DOMAIN rows :
        /\ rows[n] = "imported" <=>
             \E e \in ImportEvents(file[n]) :
                 e.type = ORDER_CREATED /\ Row(e, PROCESSED) \in ledger
        /\ rows[n] = "imported" => Exists(file[n].order)

(* "Only the conflicting rows fail" (_insert_orders_safely): a row that    *)
(* was not written repeats an earlier one, or its order or key is taken.   *)
FailedRowsHaveAReason ==
    \A n \in RowsWith("failed") \cup RowsWith("skipped") :
        DuplicateInFile(n) \/ Exists(file[n].order) \/ file[n].seq \in seqs

(* The progress the status page shows, added up chunk by chunk, is that of *)
(* the rows and that of the result page, also when the execution stops     *)
(* half-way and nothing finalizes; a preview on one page hides no row; a   *)
(* completed run accounts for every row of the file: it was inserted or    *)
(* skipped, or it is listed among the failures unless these are truncated. *)
(* A cancelled run shows 100.0 only if what it left is within the rounding.*)
ProgressIsExact ==
    /\ RowsWith("conflict") = {} /\ phase \notin {"uploading", "staging", "validated", "policy"} =>
         /\ count.inserted = Cardinality(RowsWith("imported"))
         /\ count.rejected = Cardinality(RowsWith("failed"))
         /\ count.skipped = Result.skipped
         /\ Cardinality(Result.failed) = Min({PageSize, count.rejected})
    /\ phase = "validated" /\ (\A status \in DOMAIN Preview : TotalPages(status) <= 1) =>
         UNION {Preview[status] : status \in DOMAIN Preview} = DOMAIN file
    /\ phase = "completed" =>
         LET shown == count.inserted + count.skipped + Cardinality(Failures.rows)
             all   == Cardinality(DOMAIN file)
         IN  IF Failures.truncated THEN shown < all ELSE shown = all
    /\ phase = "cancelled" /\ Progress = 1000 =>
         2000 * Cardinality(RowsWith("valid") \cup RowsWith("invalid")) <= Cardinality(DOMAIN rows)
    /\ \A status \in RowStatuses :
         RowsWith(status) = UNION {RowPage(status, p) : p \in 1..TotalPages(status)}

(* "amounts must be positive", "payment_time not before order_time" and    *)
(* the other rules of normalize_row hold of what is written to orders, in  *)
(* cents and in local time: rounding and conversion break none of them,    *)
(* and every value fits its column.                                        *)
ImportedOrdersAreSound ==
    \A n \in RowsWith("imported") :
        /\ file[n].ok
        /\ 0 < file[n].paid /\ file[n].paid <= file[n].ordered
        /\ file[n].at <= file[n].paidAt
        /\ Storable(file[n])

(* A completed import leaves no order ACTIVE whose refund or cancellation  *)
(* was REJECTED before the order arrived: an import replays nothing, but   *)
(* the comparison with the whole ledger finds such an order.               *)
CompletedRunsStrandNothing ==
    phase = "completed" =>
        \A n \in RowsWith("imported") :
            LET o == file[n].order
            IN  orders[o].status = ACTIVE =>
                    \A f \in RejectedStateEvents(o) : f.version <= orders[o].version

(* "Header normalisation: strips BOM and blanks" (_normalize_header): what *)
(* an import takes from a line is what stands under the columns that were  *)
(* mapped to its fields.                                                   *)
MappedColumnsAreRead ==
    \A n \in DOMAIN file :
        LET line == upload.lines[n]
        IN  Uninterpreted(upload, line)
            \/ file[n] = OrderOf(n, [f \in Fields |-> Under(upload, line, f)])
=============================================================================
