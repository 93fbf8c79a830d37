---------------------------- MODULE OrderLedger ----------------------------
(***************************************************************************)
(* What the order event service promises, one atomic step per event: the   *)
(* event ledger (order_events), the read model (orders) and the global     *)
(* data version (data_state) change together or not at all.                *)
(*                                                                         *)
(* The tables are the committed ones.  OrderEvents refines these steps     *)
(* into the transactions of order_event_service.py.                        *)
(***************************************************************************)
EXTENDS Naturals, FiniteSets

CONSTANTS
    Orders,            \* order numbers (orders.order_id, unique)
    EventIds,          \* idempotency keys (order_events.event_id, unique)
    Events,            \* events producers may send
    SnapshotOrders,    \* orders the CSV bootstrap loaded before any event
    RefundedSnapshot   \* those of them the CSV marks as refunded

ORDER_CREATED   == "ORDER_CREATED"
ORDER_REFUNDED  == "ORDER_REFUNDED"
ORDER_CANCELLED == "ORDER_CANCELLED"
StateEventTypes == {ORDER_REFUNDED, ORDER_CANCELLED}
EventTypes      == {ORDER_CREATED} \cup StateEventTypes

(* Two events may carry the same id: a client that reuses an event_id.     *)
OrderEventInput ==
    [id : EventIds, order : Orders, type : EventTypes, version : Nat \ {0}]

ASSUME EventsAssumption == Events \subseteq OrderEventInput

ASSUME SnapshotAssumption ==
    /\ SnapshotOrders \subseteq Orders
    /\ RefundedSnapshot \subseteq SnapshotOrders

MISSING   == "MISSING"    \* no row in orders
ACTIVE    == "ACTIVE"
REFUNDED  == "REFUNDED"
CANCELLED == "CANCELLED"
PROCESSED == "PROCESSED"
REJECTED  == "REJECTED"

OrderRow == [status : {MISSING, ACTIVE, REFUNDED, CANCELLED},
             version : Nat, refunded : BOOLEAN]

LedgerRow == [event : Events, status : {PROCESSED, REJECTED}]

NoOrder == [status |-> MISSING, version |-> 0, refunded |-> FALSE]

(* A bootstrapped order before any event: ACTIVE with watermark 0, even    *)
(* when the CSV says it was refunded.                                      *)
SnapshotRow(o) ==
    [status |-> ACTIVE, version |-> 0, refunded |-> o \in RefundedSnapshot]

VARIABLES
    ledger,       \* set of committed rows of order_events
    orders,       \* committed row of each order number
    dataVersion   \* data_state.data_version

tables == <<ledger, orders, dataVersion>>

LedgerTypeOK ==
    /\ ledger \subseteq LedgerRow
    /\ orders \in [Orders -> OrderRow]
    /\ dataVersion \in Nat

LedgerInit ==
    /\ ledger = {}
    /\ orders = [o \in Orders |->
                   IF o \in SnapshotOrders
                   THEN SnapshotRow(o) ELSE NoOrder]
    /\ dataVersion = 1

-----------------------------------------------------------------------------

Exists(o) == orders[o].status # MISSING

Recorded(id) == \E row \in ledger : row.event.id = id

Row(e, s) == [event |-> e, status |-> s]

(* The status a refund or a cancellation leads to.                         *)
TargetStatus(type) == IF type = ORDER_REFUNDED THEN REFUNDED ELSE CANCELLED

(* _apply_in_transaction's reasons to leave an event REJECTED: a second    *)
(* creation, a state event for no order, one at or below the order's       *)
(* watermark, one for an order that already reached a terminal status.     *)
Rejectable(e) ==
    IF e.type = ORDER_CREATED
    THEN Exists(e.order)
    ELSE orders[e.order].status # ACTIVE \/ e.version <= orders[e.order].version

(* The state events waiting in the ledger for the order e creates.         *)
RejectedStateEvents(o) ==
    {f \in Events : /\ Row(f, REJECTED) \in ledger
                    /\ f.order = o
                    /\ f.type \in StateEventTypes}

NewOrder(e) == [status |-> ACTIVE, version |-> e.version, refunded |-> FALSE]

(* A state event applied to a row; refunding sets the flag, cancelling     *)
(* leaves it as the CSV gave it.                                           *)
Transition(row, e) ==
    [status   |-> TargetStatus(e.type),
     version  |-> e.version,
     refunded |-> row.refunded \/ e.type = ORDER_REFUNDED]

(* The row a creation leaves behind, with at most one replayed event.      *)
CreatedRow(e, replay) ==
    IF replay = {} THEN NewOrder(e)
    ELSE Transition(NewOrder(e), CHOOSE f \in replay : TRUE)

(* Faulty variant of LedgerAfter: the replayed event stays REJECTED.       *)
LedgerAfterForgettingReplay(e, replay) == ledger \cup {Row(e, PROCESSED)}

(* The ledger after e is applied and the events of replay are promoted.    *)
LedgerAfter(e, replay) ==
    (ledger \ {Row(f, REJECTED) : f \in replay})
        \cup {Row(f, PROCESSED) : f \in replay \cup {e}}

-----------------------------------------------------------------------------

Reject(e) ==
    /\ ~Recorded(e.id)
    /\ Rejectable(e)
    /\ ledger' = ledger \cup {Row(e, REJECTED)}
    /\ UNCHANGED <<orders, dataVersion>>

ApplyCreated(e) ==
    /\ ~Recorded(e.id)
    /\ e.type = ORDER_CREATED
    /\ ~Exists(e.order)
    /\ \E replay \in {{}} \cup {{f} : f \in RejectedStateEvents(e.order)} :
         /\ \A f \in replay : f.version > e.version
         /\ ledger' = LedgerAfter(e, replay)
         /\ orders' = [orders EXCEPT ![e.order] = CreatedRow(e, replay)]
    /\ dataVersion' = dataVersion + 1

ApplyState(e) ==
    /\ ~Recorded(e.id)
    /\ e.type \in StateEventTypes
    /\ ~Rejectable(e)
    /\ ledger' = LedgerAfter(e, {})
    /\ orders' = [orders EXCEPT ![e.order] = Transition(orders[e.order], e)]
    /\ dataVersion' = dataVersion + 1

LedgerNext == \E e \in Events : Reject(e) \/ ApplyCreated(e) \/ ApplyState(e)

LedgerSpec == LedgerInit /\ [][LedgerNext]_tables

-----------------------------------------------------------------------------

ProcessedEvents(o) ==
    {f \in Events : Row(f, PROCESSED) \in ledger /\ f.order = o}

(* The ledger explains the read model: an order's status, watermark and    *)
(* refund flag are those its PROCESSED events and the CSV account for, it  *)
(* was created at most once and left ACTIVE at most once.  ("ledger and    *)
(* read model commit in one transaction", order_event_service.py:1-5.)     *)
LedgerExplainsOrder(o) ==
    LET done     == ProcessedEvents(o)
        created  == {f \in done : f.type = ORDER_CREATED}
        finished == {f \in done : f.type \in StateEventTypes}
    IN  /\ Exists(o) <=> o \in SnapshotOrders \/ created # {}
        /\ \A f, g \in created : f = g
        /\ o \in SnapshotOrders => created = {}
        /\ \A f, g \in finished : f = g
        /\ orders[o].status = ACTIVE => finished = {}
        /\ \A f \in finished : orders[o].status = TargetStatus(f.type)
        /\ orders[o].status \in {REFUNDED, CANCELLED} => finished # {}
        /\ \A f \in done : f.version <= orders[o].version
        /\ orders[o].version = 0 \/ \E f \in done : f.version = orders[o].version
        /\ orders[o].refunded <=>
             o \in RefundedSnapshot \/ orders[o].status = REFUNDED

LedgerExplainsOrders == \A o \in Orders : LedgerExplainsOrder(o)

(* The unique key on event_id holds: one row per event_id, so an event is  *)
(* either applied or rejected, never both ("idempotence", models'          *)
(* OrderEvent docstring).                                                  *)
OneRowPerEventId ==
    \A r1, r2 \in ledger : r1.event.id = r2.event.id => r1 = r2

(* What no step may do to an order: move its watermark back or keep it     *)
(* while changing the status, leave a terminal status, or disappear.       *)
OrderNeverRegresses ==
    [][\A o \in Orders : orders'[o] # orders[o] =>
         /\ orders'[o].status # MISSING
         /\ orders'[o].version > orders[o].version
         /\ orders[o].status \in {MISSING, ACTIVE}]_tables

(* The version moves by exactly one with every committed change of the     *)
(* read model and with nothing else: a reader holding version v has seen   *)
(* every order as of v (EVENT_INGESTION.md, "same commit, same rollback"). *)
VersionMovesWithOrders ==
    [][/\ orders' # orders => dataVersion' = dataVersion + 1
       /\ dataVersion' # dataVersion => orders' # orders]_tables

(* A ledger row is final, except that the creation of an order may promote *)
(* one rejected state event of that order to PROCESSED.                    *)
LedgerIsAppendOnly ==
    [][\A row \in ledger : row \in ledger' \/
         /\ row.status = REJECTED
         /\ row.event.type \in StateEventTypes
         /\ Row(row.event, PROCESSED) \in ledger'
         /\ ~Exists(row.event.order)
         /\ orders'[row.event.order].status = TargetStatus(row.event.type)]_tables
=============================================================================
