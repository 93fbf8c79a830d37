SPECIFICATION FairSpec
CONSTANTS
    Orders = {"o1", "o2"}
    EventIds = {"e1", "e2", "e3"}
    Events <- RaceEvents
    SnapshotOrders = {"o2"}
    RefundedSnapshot = {"o2"}
    Sessions = {s1, s2}
    NoEvent = NoEvent
    MaxAborts = 1
INVARIANTS
    LedgerExplainsOrders
    OneRowPerEventId
    AnswersAreDurable
PROPERTIES
    LedgerSpec
    OrderNeverRegresses
    EveryEventIsRecorded
