------------------------- MODULE OrderLedgerProofs -------------------------
(***************************************************************************)
(* What every behaviour of the abstract ledger satisfies, whatever the     *)
(* orders, the events and their versions.                                  *)
(***************************************************************************)
EXTENDS OrderLedger, WellFoundedInduction, TLAPS

USE DEF MISSING, ACTIVE, REFUNDED, CANCELLED, PROCESSED, REJECTED,
        ORDER_CREATED, ORDER_REFUNDED, ORDER_CANCELLED, StateEventTypes

Less == {p \in Nat \X Nat : p[1] < p[2]}

LEMMA LessIsWellFounded == IsWellFoundedOn(Less, Nat)
  <1>1. Less = OpToRel(<, Nat)
    BY DEF Less, OpToRel
  <1> QED
    BY <1>1, NatLessThanWellFounded

(* A set that has 0 and with each number the next has all of them.         *)
LEMMA Induction ==
    ASSUME NEW T, 0 \in T, \A n \in Nat : n \in T => n + 1 \in T
    PROVE  Nat \subseteq T
  <1> DEFINE C == Nat \ T
  <1> SUFFICES ASSUME C # {} PROVE FALSE
    OBVIOUS
  <1>1. PICK x \in C : \A y \in C : <<y, x>> \notin Less
    BY LessIsWellFounded, WFMin
  <1>2. x \in Nat /\ x # 0 /\ x \notin T
    OBVIOUS
  <1>3. x - 1 \in Nat /\ x - 1 + 1 = x
    BY <1>2
  <1>4. x - 1 \notin T
    BY <1>2, <1>3
  <1>5. <<x - 1, x>> \in Less
    BY <1>2, <1>3 DEF Less
  <1> QED
    BY <1>1, <1>3, <1>4, <1>5

(* An event is a record of its four fields.                                *)
LEMMA EventFields ==
    ASSUME NEW e \in Events
    PROVE  /\ e.id \in EventIds
           /\ e.order \in Orders
           /\ e.type \in EventTypes
           /\ e.version \in Nat /\ e.version > 0
  BY EventsAssumption DEF OrderEventInput

(* Rows differ as soon as their event or their status does.                *)
LEMMA RowFields ==
    ASSUME NEW e, NEW s
    PROVE  Row(e, s).event = e /\ Row(e, s).status = s
  BY DEF Row

(* A committed row is the Row of its two fields.                           *)
LEMMA LedgerRowIsRow ==
    ASSUME LedgerTypeOK, NEW row \in ledger
    PROVE  /\ row = Row(row.event, row.status)
           /\ row.event \in Events
           /\ row.status \in {PROCESSED, REJECTED}
  BY DEF LedgerTypeOK, LedgerRow, Row

(* What a state event writes into each field of a row.                     *)
LEMMA TransitionFields ==
    ASSUME NEW row, NEW e
    PROVE  /\ Transition(row, e).status = TargetStatus(e.type)
           /\ Transition(row, e).version = e.version
           /\ Transition(row, e).refunded = (row.refunded \/ e.type = ORDER_REFUNDED)
  BY Zenon DEF Transition

(* The rows that creations and transitions write are rows of orders.       *)
LEMMA RowsWritten ==
    ASSUME NEW e \in Events
    PROVE  /\ NewOrder(e) \in OrderRow
           /\ \A row \in OrderRow : Transition(row, e) \in OrderRow
           /\ \A f \in Events : CreatedRow(e, {f}) = Transition(NewOrder(e), f)
           /\ CreatedRow(e, {}) = NewOrder(e)
  <1>1. e.version \in Nat
    BY EventFields
  <1>2. NewOrder(e) \in OrderRow
    BY <1>1 DEF NewOrder, OrderRow
  <1>3. ASSUME NEW row \in OrderRow PROVE Transition(row, e) \in OrderRow
    BY <1>1, <1>3 DEF Transition, OrderRow, TargetStatus
  <1>4. ASSUME NEW f \in Events
        PROVE  CreatedRow(e, {f}) = Transition(NewOrder(e), f)
    <2>1. (CHOOSE g \in {f} : TRUE) = f
      OBVIOUS
    <2>2. {f} # {}
      OBVIOUS
    <2> QED
      BY <2>1, <2>2 DEF CreatedRow
  <1>5. CreatedRow(e, {}) = NewOrder(e)
    BY DEF CreatedRow
  <1> QED
    BY <1>2, <1>3, <1>4, <1>5

-----------------------------------------------------------------------------

(* Type correctness of the committed tables.                               *)
LEMMA LedgerTypeStep ==
    ASSUME LedgerTypeOK, [LedgerNext]_tables
    PROVE  LedgerTypeOK'
  <1>1. ASSUME NEW e \in Events, Reject(e) PROVE LedgerTypeOK'
    BY <1>1 DEF Reject, LedgerTypeOK, LedgerRow, Row
  <1>2. ASSUME NEW e \in Events, ApplyCreated(e) PROVE LedgerTypeOK'
    <2>1. PICK replay \in {{}} \cup {{f} : f \in RejectedStateEvents(e.order)} :
             /\ ledger' = LedgerAfter(e, replay)
             /\ orders' = [orders EXCEPT ![e.order] = CreatedRow(e, replay)]
      BY <1>2 DEF ApplyCreated
    <2>2. replay \subseteq Events
      BY <2>1 DEF RejectedStateEvents
    <2>3. ledger' \subseteq LedgerRow
      BY <2>1, <2>2 DEF LedgerAfter, LedgerTypeOK, LedgerRow, Row
    <2>4. CreatedRow(e, replay) \in OrderRow
      <3>1. CASE replay = {}
        BY <3>1, RowsWritten
      <3>2. CASE replay # {}
        <4>1. PICK f \in Events : replay = {f}
          BY <2>1, <3>2 DEF RejectedStateEvents
        <4>2. CreatedRow(e, {f}) = Transition(NewOrder(e), f)
          BY RowsWritten
        <4>3. NewOrder(e) \in OrderRow
          BY RowsWritten
        <4>4. \A row \in OrderRow : Transition(row, f) \in OrderRow
          BY RowsWritten
        <4> QED
          BY <4>1, <4>2, <4>3, <4>4
      <3> QED
        BY <3>1, <3>2
    <2>5. orders' \in [Orders -> OrderRow]
      BY <2>1, <2>4 DEF LedgerTypeOK
    <2>6. dataVersion' \in Nat
      BY <1>2 DEF ApplyCreated, LedgerTypeOK
    <2> QED
      BY <2>3, <2>5, <2>6 DEF LedgerTypeOK
  <1>3. ASSUME NEW e \in Events, ApplyState(e) PROVE LedgerTypeOK'
    <2>1. ledger' \subseteq LedgerRow
      BY <1>3 DEF ApplyState, LedgerAfter, LedgerTypeOK, LedgerRow, Row
    <2>2. Transition(orders[e.order], e) \in OrderRow
      BY RowsWritten, EventFields DEF LedgerTypeOK
    <2>3. orders' \in [Orders -> OrderRow]
      BY <1>3, <2>2 DEF ApplyState, LedgerTypeOK
    <2>4. dataVersion' \in Nat
      BY <1>3 DEF ApplyState, LedgerTypeOK
    <2> QED
      BY <2>1, <2>3, <2>4 DEF LedgerTypeOK
  <1>4. CASE UNCHANGED tables
    BY <1>4 DEF LedgerTypeOK, tables
  <1> QED
    BY <1>1, <1>2, <1>3, <1>4 DEF LedgerNext

LEMMA LedgerTypeInit == LedgerInit => LedgerTypeOK
  BY DEF LedgerInit, LedgerTypeOK, NoOrder, SnapshotRow, OrderRow, LedgerRow

(* The committed tables keep their types, the watermark included.          *)
THEOREM LedgerTypeCorrect == LedgerSpec => []LedgerTypeOK
  BY LedgerTypeInit, LedgerTypeStep, PTL DEF LedgerSpec

-----------------------------------------------------------------------------

(* The inductive invariant of the ledger.                                  *)
LedgerInv == LedgerTypeOK /\ OneRowPerEventId /\ LedgerExplainsOrders

(* Applying e with a replay adds exactly those events to the processed     *)
(* ones, and nothing to other orders.                                      *)
LEMMA ProcessedAfterApply ==
    ASSUME NEW e \in Events, NEW replay \in SUBSET Events, NEW o \in Orders,
           ledger' = LedgerAfter(e, replay)
    PROVE  ProcessedEvents(o)' =
             ProcessedEvents(o) \cup {f \in replay \cup {e} : f.order = o}
  <1>1. \A f, g \in Events : Row(f, PROCESSED) # Row(g, REJECTED)
    BY DEF Row
  <1>2. \A f, g \in Events : Row(f, PROCESSED) = Row(g, PROCESSED) => f = g
    BY RowFields
  <1>3. \A f \in Events : Row(f, PROCESSED) \in ledger' <=>
                            Row(f, PROCESSED) \in ledger \/ f \in replay \cup {e}
    BY <1>1, <1>2 DEF LedgerAfter
  <1> QED
    BY <1>3 DEF ProcessedEvents

(* Rejecting adds nothing to them.                                         *)
LEMMA ProcessedAfterReject ==
    ASSUME NEW e \in Events, NEW o \in Orders,
           ledger' = ledger \cup {Row(e, REJECTED)}
    PROVE  ProcessedEvents(o)' = ProcessedEvents(o)
  <1>1. \A f \in Events : Row(f, PROCESSED) # Row(e, REJECTED)
    BY DEF Row
  <1> QED
    BY <1>1 DEF ProcessedEvents

(* A missing order has no processed events.                                *)
LEMMA MissingHasNoEvents ==
    ASSUME LedgerInv, NEW o \in Orders, ~Exists(o)
    PROVE  ProcessedEvents(o) = {}
  <1>1. LedgerExplainsOrder(o)
    BY DEF LedgerInv, LedgerExplainsOrders
  <1>2. ASSUME NEW f \in ProcessedEvents(o) PROVE FALSE
    <2>1. f \in Events
      BY DEF ProcessedEvents
    <2>2. f.type \in EventTypes
      BY <2>1, EventFields
    <2>3. CASE f.type = ORDER_CREATED
      BY <1>1, <2>3 DEF LedgerExplainsOrder
    <2>4. CASE f.type \in StateEventTypes
      BY <1>1, <2>4 DEF LedgerExplainsOrder, TargetStatus, Exists
    <2> QED
      BY <2>2, <2>3, <2>4 DEF EventTypes
  <1> QED
    BY <1>2

(* One row per event_id is kept by every step.                             *)
LEMMA OneRowStep ==
    ASSUME LedgerInv, [LedgerNext]_tables
    PROVE  OneRowPerEventId'
  <1> USE DEF LedgerInv
  <1>1. ASSUME NEW e \in Events, Reject(e) PROVE OneRowPerEventId'
    BY <1>1, RowFields DEF Reject, OneRowPerEventId, Recorded
  <1>2. ASSUME NEW e \in Events, NEW replay \in SUBSET Events, ~Recorded(e.id),
               \A f \in replay : Row(f, REJECTED) \in ledger,
               ledger' = LedgerAfter(e, replay)
        PROVE  OneRowPerEventId'
    <2>1. SUFFICES ASSUME NEW r1 \in ledger', NEW r2 \in ledger',
                          r1.event.id = r2.event.id
                   PROVE  r1 = r2
      BY DEF OneRowPerEventId
    <2>2. \A r \in ledger' :
            \/ r = Row(e, PROCESSED)
            \/ \E f \in replay : r = Row(f, PROCESSED)
            \/ r \in ledger /\ \A f \in replay : r # Row(f, REJECTED)
      BY <1>2 DEF LedgerAfter
    <2>3. \A f \in replay : /\ Row(f, REJECTED).event = f
                            /\ Row(f, PROCESSED).event = f
      BY RowFields
    <2>4. Row(e, PROCESSED).event = e
      BY RowFields
    <2>5. \A r \in ledger : r.event.id # e.id
      BY <1>2 DEF Recorded
    <2>6. \A f \in replay, r \in ledger :
            r.event.id = f.id => r = Row(f, REJECTED)
      BY <1>2, <2>3 DEF OneRowPerEventId
    <2>7. \A f, g \in replay : f.id = g.id => f = g
      <3> SUFFICES ASSUME NEW f \in replay, NEW g \in replay, f.id = g.id
                   PROVE  f = g
        OBVIOUS
      <3>1. Row(f, REJECTED) = Row(g, REJECTED)
        BY <1>2, <2>3, <2>6
      <3> QED
        BY <3>1, <2>3
    <2>8. \A f \in replay : f.id # e.id
      BY <1>2, <2>3, <2>5
    <2>9. CASE r1 = Row(e, PROCESSED)
      BY <2>2, <2>3, <2>4, <2>5, <2>8, <2>9, <2>1
    <2>10. CASE r2 = Row(e, PROCESSED)
      BY <2>2, <2>3, <2>4, <2>5, <2>8, <2>10, <2>1
    <2>11. CASE \E f \in replay : r1 = Row(f, PROCESSED)
      BY <2>1, <2>2, <2>3, <2>4, <2>6, <2>7, <2>8, <2>11
    <2>12. CASE \E f \in replay : r2 = Row(f, PROCESSED)
      BY <2>1, <2>2, <2>3, <2>4, <2>6, <2>7, <2>8, <2>12
    <2>13. CASE r1 \in ledger /\ r2 \in ledger
      BY <2>1, <2>13 DEF OneRowPerEventId
    <2> QED
      BY <2>1, <2>2, <2>9, <2>10, <2>11, <2>12, <2>13
  <1>3. ASSUME NEW e \in Events, ApplyCreated(e) PROVE OneRowPerEventId'
    <2>1. PICK replay \in {{}} \cup {{f} : f \in RejectedStateEvents(e.order)} :
             ledger' = LedgerAfter(e, replay)
      BY <1>3 DEF ApplyCreated
    <2>2. /\ replay \in SUBSET Events
          /\ \A f \in replay : Row(f, REJECTED) \in ledger
      BY <2>1 DEF RejectedStateEvents
    <2> QED
      BY <1>2, <1>3, <2>1, <2>2 DEF ApplyCreated
  <1>4. ASSUME NEW e \in Events, ApplyState(e) PROVE OneRowPerEventId'
    BY <1>2, <1>4 DEF ApplyState
  <1>5. CASE UNCHANGED tables
    BY <1>5 DEF OneRowPerEventId, tables
  <1> QED
    BY <1>1, <1>3, <1>4, <1>5 DEF LedgerNext
(* Another order is explained by the same events before and after.         *)
LEMMA ExplainedElsewhere ==
    ASSUME LedgerExplainsOrders, NEW o \in Orders,
           orders'[o] = orders[o], ProcessedEvents(o)' = ProcessedEvents(o)
    PROVE  LedgerExplainsOrder(o)'
  BY DEF LedgerExplainsOrders, LedgerExplainsOrder, Exists

(* A refund or cancellation moves an ACTIVE order into the one terminal    *)
(* status its event stands for.                                            *)
LEMMA ExplainedAfterState ==
    ASSUME LedgerInv, NEW e \in Events, ApplyState(e)
    PROVE  LedgerExplainsOrder(e.order)'
  <1> DEFINE o == e.order
  <1>0. o \in Orders /\ e.version \in Nat /\ e.version > 0
    BY EventFields
  <1>1. LedgerExplainsOrder(o)
    BY <1>0 DEF LedgerInv, LedgerExplainsOrders
  <1>2. ProcessedEvents(o)' = ProcessedEvents(o) \cup {e}
    <2>1. ProcessedEvents(o)' = ProcessedEvents(o) \cup {f \in {} \cup {e} : f.order = o}
      BY <1>0, ProcessedAfterApply DEF ApplyState
    <2> QED
      BY <2>1
  <1>3. orders'[o] = Transition(orders[o], e)
    BY <1>0 DEF ApplyState, LedgerInv, LedgerTypeOK
  <1>4. /\ orders[o].status = ACTIVE
        /\ e.version > orders[o].version
        /\ orders[o].version \in Nat
        /\ e.type \in StateEventTypes
    BY <1>0 DEF ApplyState, Rejectable, LedgerInv, LedgerTypeOK, OrderRow
  <1>5. /\ orders'[o].status = TargetStatus(e.type)
        /\ orders'[o].version = e.version
        /\ orders'[o].refunded = (orders[o].refunded \/ e.type = ORDER_REFUNDED)
    BY <1>3, TransitionFields
  <1>6. \A f \in ProcessedEvents(o) : f.version \in Nat
    BY EventFields DEF ProcessedEvents
  <1>7. \A f \in ProcessedEvents(o) : f.version <= e.version
    BY <1>0, <1>1, <1>4, <1>6 DEF LedgerExplainsOrder
  <1>8. \A f \in ProcessedEvents(o) : f.type \notin StateEventTypes
    BY <1>1, <1>4 DEF LedgerExplainsOrder
  <1> HIDE DEF o
  <1>9. Exists(o)' /\ Exists(o)
    BY <1>4, <1>5 DEF Exists, TargetStatus
  <1>10. orders'[o].refunded <=> o \in RefundedSnapshot \/ orders'[o].status = REFUNDED
    <2>1. orders[o].refunded <=> o \in RefundedSnapshot
      BY <1>1, <1>4 DEF LedgerExplainsOrder
    <2> QED
      BY <2>1, <1>4, <1>5 DEF TargetStatus
  <1>11. LedgerExplainsOrder(o)'
    BY <1>0, <1>1, <1>2, <1>4, <1>5, <1>7, <1>8, <1>9, <1>10
    DEF LedgerExplainsOrder, TargetStatus
  <1> QED
    BY <1>11 DEF o
(* What a creation writes into each field of the new row.                  *)
LEMMA NewOrderFields ==
    ASSUME NEW e
    PROVE  /\ NewOrder(e).status = ACTIVE
           /\ NewOrder(e).version = e.version
           /\ NewOrder(e).refunded = FALSE
  BY DEF NewOrder

(* A creation leaves an order its events account for, whether it replays   *)
(* a rejected state event or not.                                          *)
LEMMA ExplainedAfterCreated ==
    ASSUME LedgerInv, NEW e \in Events, ApplyCreated(e)
    PROVE  LedgerExplainsOrder(e.order)'
  <1> DEFINE o == e.order
  <1>0. o \in Orders /\ e.version \in Nat /\ e.type = ORDER_CREATED
    BY EventFields DEF ApplyCreated
  <1>1. o \notin SnapshotOrders /\ o \notin RefundedSnapshot
    BY <1>0, SnapshotAssumption
    DEF ApplyCreated, LedgerInv, LedgerExplainsOrders, LedgerExplainsOrder
  <1>2. ProcessedEvents(o) = {}
    BY <1>0, MissingHasNoEvents DEF ApplyCreated
  <1>3. PICK replay \in {{}} \cup {{f} : f \in RejectedStateEvents(o)} :
          /\ \A f \in replay : f.version > e.version
          /\ ledger' = LedgerAfter(e, replay)
          /\ orders' = [orders EXCEPT ![o] = CreatedRow(e, replay)]
    BY DEF ApplyCreated
  <1>4. replay \in SUBSET Events /\ \A f \in replay : f.order = o
    BY <1>3 DEF RejectedStateEvents
  <1>5. ProcessedEvents(o)' = replay \cup {e}
    <2>1. ProcessedEvents(o)' = {} \cup {f \in replay \cup {e} : f.order = o}
      BY <1>0, <1>2, <1>3, <1>4, ProcessedAfterApply
    <2> QED
      BY <2>1, <1>4
  <1>6. orders'[o] = CreatedRow(e, replay)
    BY <1>0, <1>3 DEF LedgerInv, LedgerTypeOK
  <1> HIDE DEF o
  <1>7. ASSUME replay = {} PROVE LedgerExplainsOrder(o)'
    <2>1. /\ orders'[o].status = ACTIVE
          /\ orders'[o].version = e.version
          /\ orders'[o].refunded = FALSE
      BY <1>6, <1>7, NewOrderFields DEF CreatedRow
    <2>2. ProcessedEvents(o)' = {e}
      BY <1>5, <1>7
    <2> QED
      BY <1>0, <1>1, <2>1, <2>2 DEF LedgerExplainsOrder, Exists
  <1>8. ASSUME replay # {} PROVE LedgerExplainsOrder(o)'
    <2>1. PICK f \in RejectedStateEvents(o) : replay = {f}
      BY <1>3, <1>8
    <2>2. f \in Events /\ f.type \in StateEventTypes
      BY <2>1 DEF RejectedStateEvents
    <2>3. f.version \in Nat /\ f.version > e.version
      BY <1>3, <2>1, <2>2, EventFields
    <2>4. orders'[o] = Transition(NewOrder(e), f)
      BY <1>6, <2>1, <2>2, RowsWritten
    <2>5. /\ orders'[o].status = TargetStatus(f.type)
          /\ orders'[o].version = f.version
          /\ orders'[o].refunded = (f.type = ORDER_REFUNDED)
      <3>1. NewOrder(e).refunded = FALSE
        BY NewOrderFields
      <3>2. /\ Transition(NewOrder(e), f).status = TargetStatus(f.type)
            /\ Transition(NewOrder(e), f).version = f.version
            /\ Transition(NewOrder(e), f).refunded
                 = (NewOrder(e).refunded \/ f.type = ORDER_REFUNDED)
        BY TransitionFields, Zenon
      <3> QED
        BY <2>4, <3>1, <3>2
    <2>6. ProcessedEvents(o)' = {e, f}
      BY <1>5, <2>1
    <2>7. orders'[o].refunded <=> o \in RefundedSnapshot \/ orders'[o].status = REFUNDED
      BY <1>1, <2>2, <2>5 DEF TargetStatus
    <2>8. /\ \A g \in ProcessedEvents(o)' : g.version <= orders'[o].version
          /\ \E g \in ProcessedEvents(o)' : g.version = orders'[o].version
      BY <1>0, <2>3, <2>5, <2>6
    <2>9. /\ {g \in ProcessedEvents(o)' : g.type = ORDER_CREATED} = {e}
          /\ {g \in ProcessedEvents(o)' : g.type \in StateEventTypes} = {f}
      BY <1>0, <2>2, <2>6
    <2>10. orders'[o].status \in {REFUNDED, CANCELLED}
      BY <2>5 DEF TargetStatus
    <2> QED
      BY <1>1, <2>5, <2>7, <2>8, <2>9, <2>10
      DEF LedgerExplainsOrder, Exists, TargetStatus
  <1>9. LedgerExplainsOrder(o)'
    BY <1>7, <1>8
  <1> QED
    BY <1>9 DEF o

(* No row written is a missing one.                                        *)
LEMMA WrittenRowsExist ==
    /\ \A row, e : Transition(row, e).status # MISSING
    /\ \A e, replay : CreatedRow(e, replay).status # MISSING
  <1>1. ASSUME NEW row, NEW e PROVE Transition(row, e).status # MISSING
    BY TransitionFields DEF TargetStatus
  <1>2. ASSUME NEW e, NEW replay PROVE CreatedRow(e, replay).status # MISSING
    <2>1. CASE replay = {}
      BY <2>1, NewOrderFields DEF CreatedRow
    <2>2. CASE replay # {}
      BY <2>2, <1>1 DEF CreatedRow
    <2> QED
      BY <2>1, <2>2
  <1> QED
    BY <1>1, <1>2

(* Every step keeps every order explained.                                 *)
LEMMA ExplainedStep ==
    ASSUME LedgerInv, [LedgerNext]_tables
    PROVE  LedgerExplainsOrders'
  <1> SUFFICES ASSUME NEW o \in Orders PROVE LedgerExplainsOrder(o)'
    BY DEF LedgerExplainsOrders
  <1>0. LedgerExplainsOrders
    BY DEF LedgerInv
  <1>1. ASSUME NEW e \in Events, Reject(e) PROVE LedgerExplainsOrder(o)'
    BY <1>0, <1>1, ProcessedAfterReject, ExplainedElsewhere DEF Reject
  <1>2. ASSUME NEW e \in Events, ApplyCreated(e) PROVE LedgerExplainsOrder(o)'
    <2>1. CASE o = e.order
      BY <1>2, <2>1, ExplainedAfterCreated
    <2>2. CASE o # e.order
      <3>1. PICK replay \in {{}} \cup {{f} : f \in RejectedStateEvents(e.order)} :
              /\ ledger' = LedgerAfter(e, replay)
              /\ orders' = [orders EXCEPT ![e.order] = CreatedRow(e, replay)]
        BY <1>2 DEF ApplyCreated
      <3>2. replay \in SUBSET Events /\ \A f \in replay : f.order = e.order
        BY <3>1 DEF RejectedStateEvents
      <3>3. {f \in replay \cup {e} : f.order = o} = {}
        BY <2>2, <3>2
      <3>4. ProcessedEvents(o)' =
              ProcessedEvents(o) \cup {f \in replay \cup {e} : f.order = o}
        BY <3>1, <3>2, ProcessedAfterApply
      <3>5. orders'[o] = orders[o]
        BY <2>2, <3>1 DEF LedgerInv, LedgerTypeOK
      <3> QED
        BY <1>0, <3>3, <3>4, <3>5, ExplainedElsewhere
    <2> QED
      BY <2>1, <2>2
  <1>3. ASSUME NEW e \in Events, ApplyState(e) PROVE LedgerExplainsOrder(o)'
    <2>1. CASE o = e.order
      BY <1>3, <2>1, ExplainedAfterState
    <2>2. CASE o # e.order
      <3>1. ProcessedEvents(o)' = ProcessedEvents(o) \cup {f \in {} \cup {e} : f.order = o}
        BY <1>3, ProcessedAfterApply DEF ApplyState
      <3>2. ProcessedEvents(o)' = ProcessedEvents(o)
        BY <2>2, <3>1
      <3>3. orders'[o] = orders[o]
        BY <1>3, <2>2 DEF ApplyState, LedgerInv, LedgerTypeOK
      <3> QED
        BY <1>0, <3>2, <3>3, ExplainedElsewhere
    <2> QED
      BY <2>1, <2>2
  <1>4. CASE UNCHANGED tables
    <2>1. ProcessedEvents(o)' = ProcessedEvents(o)
      BY <1>4 DEF ProcessedEvents, tables
    <2> QED
      BY <1>0, <1>4, <2>1, ExplainedElsewhere DEF tables
  <1> QED
    BY <1>1, <1>2, <1>3, <1>4 DEF LedgerNext

LEMMA LedgerInvInit == LedgerInit => LedgerInv
  <1> SUFFICES ASSUME LedgerInit PROVE LedgerInv
    OBVIOUS
  <1>1. OneRowPerEventId
    BY DEF LedgerInit, OneRowPerEventId
  <1>2. ASSUME NEW o \in Orders PROVE LedgerExplainsOrder(o)
    <2>1. ProcessedEvents(o) = {}
      BY DEF LedgerInit, ProcessedEvents
    <2>2. CASE o \in SnapshotOrders
      <3>1. orders[o] = SnapshotRow(o)
        BY <2>2 DEF LedgerInit
      <3>2. SnapshotRow(o).status = ACTIVE /\ SnapshotRow(o).version = 0
        BY DEF SnapshotRow
      <3>3. SnapshotRow(o).refunded = (o \in RefundedSnapshot)
        BY Zenon DEF SnapshotRow
      <3> QED
        BY <2>1, <2>2, <3>1, <3>2, <3>3 DEF LedgerExplainsOrder, Exists
    <2>3. CASE o \notin SnapshotOrders
      <3>1. orders[o] = NoOrder
        BY <2>3 DEF LedgerInit
      <3>2. o \notin RefundedSnapshot
        BY <2>3, SnapshotAssumption
      <3> QED
        BY <2>1, <2>3, <3>1, <3>2 DEF LedgerExplainsOrder, Exists, NoOrder
    <2> QED
      BY <2>2, <2>3
  <1> QED
    BY <1>1, <1>2, LedgerTypeInit DEF LedgerInv, LedgerExplainsOrders

(* The inductive invariant holds of every behaviour.                       *)
THEOREM LedgerInvariant == LedgerSpec => []LedgerInv
  <1>1. LedgerInv /\ [LedgerNext]_tables => LedgerInv'
    BY LedgerTypeStep, OneRowStep, ExplainedStep DEF LedgerInv
  <1> QED
    BY <1>1, LedgerInvInit, PTL DEF LedgerSpec
(* The ledger accounts for every order's status, watermark and refund flag *)
(* (the read model and the ledger never fork).                             *)
THEOREM LedgerExplained == LedgerSpec => []LedgerExplainsOrders
  BY LedgerInvariant, PTL DEF LedgerInv

(* An event_id is recorded at most once.                                   *)
THEOREM EventIdsAreUnique == LedgerSpec => []OneRowPerEventId
  BY LedgerInvariant, PTL DEF LedgerInv

-----------------------------------------------------------------------------

(* What the three kinds of steps do to orders and version, order by order. *)
LEMMA StepEffects ==
    ASSUME LedgerInv, LedgerNext
    PROVE  \/ /\ UNCHANGED <<orders, dataVersion>>
              /\ \A row \in ledger : row \in ledger'
           \/ \E e \in Events, replay \in SUBSET Events :
                /\ ledger' = LedgerAfter(e, replay)
                /\ \A f \in replay :
                     /\ f.type \in StateEventTypes
                     /\ ~Exists(f.order)
                     /\ orders'[f.order].status = TargetStatus(f.type)
                /\ \A o \in Orders \ {e.order} : orders'[o] = orders[o]
                /\ orders'[e.order].status # MISSING
                /\ Exists(e.order) => /\ orders'[e.order].version > orders[e.order].version
                                      /\ orders[e.order].status = ACTIVE
                /\ e.order \in Orders
                /\ DOMAIN orders' = Orders
                /\ dataVersion' = dataVersion + 1
  <1> USE DEF LedgerInv
  <1>1. ASSUME NEW e \in Events, Reject(e)
        PROVE  UNCHANGED <<orders, dataVersion>> /\ \A row \in ledger : row \in ledger'
    BY <1>1 DEF Reject
  <1>2. ASSUME NEW e \in Events, ApplyCreated(e)
        PROVE  \E replay \in SUBSET Events :
                /\ ledger' = LedgerAfter(e, replay)
                /\ \A f \in replay :
                     /\ f.type \in StateEventTypes
                     /\ ~Exists(f.order)
                     /\ orders'[f.order].status = TargetStatus(f.type)
                /\ \A o \in Orders \ {e.order} : orders'[o] = orders[o]
                /\ orders'[e.order].status # MISSING
                /\ ~Exists(e.order)
                /\ e.order \in Orders
                /\ DOMAIN orders' = Orders
                /\ dataVersion' = dataVersion + 1
    <2>1. PICK replay \in {{}} \cup {{f} : f \in RejectedStateEvents(e.order)} :
            /\ ledger' = LedgerAfter(e, replay)
            /\ orders' = [orders EXCEPT ![e.order] = CreatedRow(e, replay)]
      BY <1>2 DEF ApplyCreated
    <2>2. /\ replay \in SUBSET Events
          /\ \A f \in replay : f.order = e.order /\ f.type \in StateEventTypes
      BY <2>1 DEF RejectedStateEvents
    <2>3. e.order \in Orders
      BY EventFields
    <2>4. /\ orders'[e.order] = CreatedRow(e, replay)
          /\ \A o \in Orders \ {e.order} : orders'[o] = orders[o]
          /\ DOMAIN orders' = Orders
      BY <2>1, <2>3 DEF LedgerTypeOK
    <2>5. \A f \in replay : CreatedRow(e, replay).status = TargetStatus(f.type)
      <3> SUFFICES ASSUME NEW f \in replay
                   PROVE  CreatedRow(e, replay).status = TargetStatus(f.type)
        OBVIOUS
      <3>1. replay = {f}
        BY <2>1
      <3>2. CreatedRow(e, {f}) = Transition(NewOrder(e), f)
        BY <2>2, RowsWritten
      <3>3. Transition(NewOrder(e), f).status = TargetStatus(f.type)
        BY TransitionFields
      <3> QED
        BY <3>1, <3>2, <3>3
    <2>6. replay = {} => CreatedRow(e, replay).status = ACTIVE
      BY NewOrderFields DEF CreatedRow
    <2>7. CreatedRow(e, replay).status # MISSING
      BY <2>5, <2>6 DEF TargetStatus
    <2> QED
      BY <1>2, <2>1, <2>2, <2>3, <2>4, <2>5, <2>7 DEF ApplyCreated
  <1>3. ASSUME NEW e \in Events, ApplyState(e)
        PROVE   /\ ledger' = LedgerAfter(e, {})
                /\ \A o \in Orders \ {e.order} : orders'[o] = orders[o]
                /\ orders'[e.order].status # MISSING
                /\ orders'[e.order].version > orders[e.order].version
                /\ orders[e.order].status = ACTIVE
                /\ e.order \in Orders
                /\ DOMAIN orders' = Orders
                /\ dataVersion' = dataVersion + 1
    <2>1. e.order \in Orders /\ e.version \in Nat
      BY EventFields
    <2>2. orders'[e.order] = Transition(orders[e.order], e)
      BY <1>3, <2>1 DEF ApplyState, LedgerTypeOK
    <2>3. orders[e.order].version \in Nat
      BY <2>1 DEF LedgerTypeOK, OrderRow
    <2>4. e.version > orders[e.order].version /\ orders[e.order].status = ACTIVE
      BY <1>3, <2>1, <2>3 DEF ApplyState, Rejectable
    <2>5. Transition(orders[e.order], e).status # MISSING
      BY TransitionFields DEF TargetStatus
    <2>6. Transition(orders[e.order], e).version = e.version
      BY TransitionFields
    <2> QED
      BY <1>3, <2>1, <2>2, <2>4, <2>5, <2>6 DEF ApplyState, LedgerTypeOK
  <1> QED
    BY <1>1, <1>2, <1>3 DEF LedgerNext

(* No order regresses: watermarks only grow, terminal statuses are final,  *)
(* no order disappears.                                                    *)
THEOREM OrdersNeverRegress == LedgerSpec => OrderNeverRegresses
  <1> DEFINE A == \A o \in Orders : orders'[o] # orders[o] =>
                    /\ orders'[o].status # MISSING
                    /\ orders'[o].version > orders[o].version
                    /\ orders[o].status \in {MISSING, ACTIVE}
  <1>1. LedgerInv /\ LedgerInv' /\ [LedgerNext]_tables => [A]_tables
    <2> SUFFICES ASSUME LedgerInv, LedgerInv', LedgerNext PROVE A
      OBVIOUS
    <2> SUFFICES ASSUME NEW o \in Orders, orders'[o] # orders[o]
                 PROVE  /\ orders'[o].status # MISSING
                        /\ orders'[o].version > orders[o].version
                        /\ orders[o].status \in {MISSING, ACTIVE}
      OBVIOUS
    <2>1. PICK e \in Events, replay \in SUBSET Events :
            /\ \A p \in Orders \ {e.order} : orders'[p] = orders[p]
            /\ orders'[e.order].status # MISSING
            /\ Exists(e.order) => /\ orders'[e.order].version > orders[e.order].version
                                  /\ orders[e.order].status = ACTIVE
      BY StepEffects
    <2>2. o = e.order
      BY <2>1
    <2>3. CASE Exists(o)
      BY <2>1, <2>2, <2>3
    <2>4. CASE ~Exists(o)
      <3>1. orders[o].status = MISSING
        BY <2>4 DEF Exists
      <3>2. orders[o].version = 0
        <4>1. ProcessedEvents(o) = {}
          BY <2>4, MissingHasNoEvents
        <4>2. LedgerExplainsOrder(o)
          BY DEF LedgerInv, LedgerExplainsOrders
        <4> QED
          BY <4>1, <4>2 DEF LedgerExplainsOrder
      <3>3. orders'[o].version \in Nat /\ orders'[o].version # 0
        <4>1. orders'[o].version \in Nat
          BY DEF LedgerInv, LedgerTypeOK, OrderRow
        <4>2. LedgerExplainsOrder(o)'
          BY DEF LedgerInv, LedgerExplainsOrders
        <4>3. PICK f \in ProcessedEvents(o)' : TRUE
          <5>1. o \notin SnapshotOrders
            BY <2>4 DEF LedgerInv, LedgerExplainsOrders, LedgerExplainsOrder
          <5>2. Exists(o)'
            BY <2>1, <2>2 DEF Exists
          <5> QED
            BY <4>2, <5>1, <5>2 DEF LedgerExplainsOrder
        <4>4. f \in Events
          BY <4>3 DEF ProcessedEvents
        <4>5. f.version \in Nat /\ f.version > 0
          BY <4>4, EventFields
        <4>6. f.version <= orders'[o].version
          BY <4>2, <4>3 DEF LedgerExplainsOrder
        <4> QED
          BY <4>1, <4>5, <4>6
      <3> QED
        BY <2>1, <2>2, <3>1, <3>2, <3>3
    <2> QED
      BY <2>3, <2>4
  <1>2. LedgerSpec => [][A]_tables
    BY <1>1, LedgerInvariant, PTL DEF LedgerSpec
  <1> QED
    BY <1>2 DEF OrderNeverRegresses

(* An order that changes takes the version along, and nothing else does.   *)
LEMMA LedgerMovesVersion ==
    ASSUME LedgerInv, [LedgerNext]_tables
    PROVE  /\ orders' # orders => dataVersion' = dataVersion + 1
           /\ dataVersion' # dataVersion => orders' # orders
  <1>1. CASE UNCHANGED <<orders, dataVersion>>
    BY <1>1
  <1>2. CASE ~UNCHANGED <<orders, dataVersion>>
    <2>1. PICK e \in Events, replay \in SUBSET Events :
            /\ orders'[e.order].status # MISSING
            /\ Exists(e.order) => /\ orders'[e.order].version > orders[e.order].version
                                  /\ orders[e.order].status = ACTIVE
            /\ e.order \in Orders
            /\ dataVersion' = dataVersion + 1
      BY <1>2, StepEffects DEF tables
    <2>2. orders[e.order].version \in Nat
      BY <2>1 DEF LedgerInv, LedgerTypeOK, OrderRow
    <2>3. orders' # orders
      BY <2>1, <2>2 DEF Exists
    <2> QED
      BY <2>1, <2>3
  <1> QED
    BY <1>1, <1>2

(* data_version moves by one with every change of orders and with nothing  *)
(* else.                                                                   *)
THEOREM VersionFollowsOrders == LedgerSpec => VersionMovesWithOrders
  <1> DEFINE A == /\ orders' # orders => dataVersion' = dataVersion + 1
                  /\ dataVersion' # dataVersion => orders' # orders
  <1>1. LedgerInv /\ [LedgerNext]_tables => [A]_tables
    BY LedgerMovesVersion
  <1>2. LedgerSpec => [][A]_tables
    BY <1>1, LedgerInvariant, PTL DEF LedgerSpec
  <1> QED
    BY <1>2 DEF VersionMovesWithOrders

(* Ledger rows are final but for the promotion of a replayed event.        *)
THEOREM LedgerRowsAreFinal == LedgerSpec => LedgerIsAppendOnly
  <1> DEFINE A == \A row \in ledger : row \in ledger' \/
                    /\ row.status = REJECTED
                    /\ row.event.type \in StateEventTypes
                    /\ Row(row.event, PROCESSED) \in ledger'
                    /\ ~Exists(row.event.order)
                    /\ orders'[row.event.order].status = TargetStatus(row.event.type)
  <1>1. LedgerInv /\ [LedgerNext]_tables => [A]_tables
    <2> SUFFICES ASSUME LedgerInv, LedgerNext PROVE A
      OBVIOUS
    <2> SUFFICES ASSUME NEW row \in ledger, row \notin ledger'
                 PROVE  /\ row.status = REJECTED
                        /\ row.event.type \in StateEventTypes
                        /\ Row(row.event, PROCESSED) \in ledger'
                        /\ ~Exists(row.event.order)
                        /\ orders'[row.event.order].status = TargetStatus(row.event.type)
      OBVIOUS
    <2>1. PICK e \in Events, replay \in SUBSET Events :
            /\ ledger' = LedgerAfter(e, replay)
            /\ \A f \in replay :
                 /\ f.type \in StateEventTypes
                 /\ ~Exists(f.order)
                 /\ orders'[f.order].status = TargetStatus(f.type)
      BY StepEffects
    <2>2. PICK f \in replay : row = Row(f, REJECTED)
      BY <2>1 DEF LedgerAfter
    <2>3. row.event = f /\ row.status = REJECTED
      BY <2>2, RowFields
    <2>4. Row(f, PROCESSED) \in ledger'
      BY <2>1 DEF LedgerAfter
    <2> QED
      BY <2>1, <2>3, <2>4
  <1>2. LedgerSpec => [][A]_tables
    BY <1>1, LedgerInvariant, PTL DEF LedgerSpec
  <1> QED
    BY <1>2 DEF LedgerIsAppendOnly
=============================================================================
