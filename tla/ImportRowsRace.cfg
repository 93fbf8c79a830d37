SPECIFICATION Spec
CONSTANTS
    Orders = {"o1", "o2", "o3", "o4"}
    EventIds <- MCEventIds
    Events <- MCEvents
    SnapshotOrders = {"o3"}
    RefundedSnapshot = {}
    Canonical <- MCCanonical
    MaxColumns = 11
    RefusedFrom = 95000
    MaxCents = 8000
    MaxSeq = 8
    Uploads <- MCUploads
    MaxRows = 4
    BatchSize = 2
    ChunkSize = 2
    PageSize = 2
    ExportLimit = 1
INVARIANTS
    TypeOK
    LedgerExplainsOrders
    ImportedRowsAreInLedger
    ImportedOrdersAreSound
    FailedRowsHaveAReason
    ProgressIsExact
    CompletedRunsStrandNothing
PROPERTIES
    VersionMovesWithOrders
CHECK_DEADLOCK FALSE
