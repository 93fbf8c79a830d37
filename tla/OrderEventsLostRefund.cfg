SPECIFICATION Spec
CONSTANTS
    Orders = {"o1"}
    EventIds = {"e1", "e2"}
    Events <- DuelEvents
    SnapshotOrders = {}
    RefundedSnapshot = {}
    Sessions = {s1, s2}
    NoEvent = NoEvent
    MaxAborts = 1
INVARIANTS
    NoStrandedStateEvent
