SPECIFICATION Spec
CONSTANTS
    Orders = {"o1", "o2", "o3", "o4"}
    EventIds = {"e1", "e2"}
    Events <- MCEvents
    SnapshotOrders = {}
    RefundedSnapshot = {}
    Readers = {"r1"}
    Listing <- MCListing
    PageSize = 1
    MaxAttempts = 2
    MaxRows = 2
    Imports = {"k1", "k2"}
    CsvOrders <- MCCsv
    CsvRefunded = {"o2"}
    NoImport = NoImport
    UserOf <- MCUserOf
    CustomerOf <- MCCustomerOf
    MaskedOf <- MCMaskedOf
    DayOf <- MCDayOf
    PaidOf <- MCPaidOf
    PlatformOf <- MCPlatformOf
    ProductOf <- MCProductOf
    NoUser = NoUser
    RfmViews <- MCRfmViews
    FirstView <- MCFirstView
    MaxReads = 2
INVARIANTS
    ViewsAgree
    StatusesAreExplained
PROPERTIES
    ReadsAreSnapshots
CHECK_DEADLOCK FALSE
