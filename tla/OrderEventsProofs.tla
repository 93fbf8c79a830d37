------------------------- MODULE OrderEventsProofs -------------------------
(***************************************************************************)
(* The transactions of OrderEvents implement the atomic ledger of          *)
(* OrderLedger, for any number of sessions, orders and events.             *)
(***************************************************************************)
EXTENDS OrderEvents, OrderLedgerProofs

USE DEF Statements, Answers

(* Past its order's lock: its INSERT or its FOR UPDATE succeeded and it    *)
(* will change the order.                                                  *)
Writing(s) == pc[s] \in {"bump", "commitApplied"}

(* Two transactions never hold the same ledger row uncommitted, and what   *)
(* one holds is not committed.                                             *)
LedgerLocksInv ==
    /\ \A s \in Sessions : HoldsLedgerRow(s) => ~Recorded(event[s].id)
    /\ \A s, t \in Sessions :
         HoldsLedgerRow(s) /\ HoldsLedgerRow(t) /\ event[s].id = event[t].id => s = t

(* The decision a transaction is about to commit is still right when it    *)
(* commits, because nobody else can change the order it has locked.        *)
DecisionInv ==
    \A s \in Sessions :
        /\ pc[s] = "insertOrder" => event[s].type = ORDER_CREATED
        /\ pc[s] = "commitRejected" => Rejectable(event[s])
        /\ Writing(s) =>
             IF event[s].type = ORDER_CREATED THEN ~Exists(event[s].order)
                                              ELSE ~Rejectable(event[s])

(* Row locks on an order are exclusive, and exclude gap locks.             *)
OrderLocksInv ==
    \A s, t \in Sessions :
        /\ Writing(s) /\ Writing(t) /\ event[s].order = event[t].order => s = t
        /\ Writing(s) => /\ ~HoldsOrderGap(t, event[s].order)
                         /\ HoldsOrderRow(t, event[s].order) => s = t

(* What a snapshot saw of an order may be old but was true, and the        *)
(* rejected events it saw are rejected until somebody creates the order.   *)
SnapshotInv ==
    \A s \in Sessions : pc[s] \in Statements =>
        /\ seen[s].exists => Exists(event[s].order)
        /\ \A f \in seen[s].rejected :
             /\ f.order = event[s].order
             /\ f.type \in StateEventTypes
             /\ Row(f, REJECTED) \in ledger \/ Exists(event[s].order)

(* A creation replays nothing, or one rejected event above its version.    *)
ReplayInv ==
    \A s \in Sessions :
        /\ pc[s] \in {"idle", "insertLedger", "readOrder", "insertOrder"} => replay[s] = {}
        /\ Writing(s) =>
             \/ replay[s] = {}
             \/ /\ event[s].type = ORDER_CREATED
                /\ \E f \in RejectedStateEvents(event[s].order) :
                     replay[s] = {f} /\ f.version > event[s].version

(* The data version about to be committed is the next one, and one         *)
(* transaction at a time has it.                                           *)
VersionInv ==
    /\ \A s \in Sessions : pc[s] = "commitApplied" => version[s] = dataVersion + 1
    /\ \A s, t \in Sessions :
         pc[s] = "commitApplied" /\ pc[t] = "commitApplied" => s = t

IInv == /\ TypeOK /\ LedgerLocksInv /\ DecisionInv /\ OrderLocksInv
        /\ SnapshotInv /\ ReplayInv /\ VersionInv

-----------------------------------------------------------------------------

(* A session that runs has an event with the fields of one.                *)
LEMMA BusyEvent ==
    ASSUME TypeOK, NEW s \in Sessions, pc[s] # "idle"
    PROVE  /\ event[s] \in Events /\ event[s] # NoEvent
           /\ event[s].order \in Orders
           /\ event[s].type \in EventTypes
  BY EventFields, NoEventAssumption DEF TypeOK

(* A state event that is not rejectable finds an ACTIVE order.             *)
LEMMA LiveOrderExists ==
    ASSUME NEW e, e.type # ORDER_CREATED, ~Rejectable(e)
    PROVE  Exists(e.order)
  <1>1. orders[e.order].status # ACTIVE => Rejectable(e)
    BY DEF Rejectable
  <1> QED
    BY <1>1 DEF Exists, ACTIVE, MISSING

LEMMA InitIInv == Init => IInv
  BY LedgerTypeInit
  DEF Init, IInv, TypeOK, LedgerLocksInv, DecisionInv, OrderLocksInv, SnapshotInv,
      ReplayInv, VersionInv, HoldsLedgerRow, HoldsOrderRow, Writing,
      Snapshot, NoSnapshot
-----------------------------------------------------------------------------

(* The committed effect of a transaction is one step of the ledger.        *)
LEMMA CommitAppliedRefines ==
    ASSUME IInv, NEW s \in Sessions, CommitApplied(s)
    PROVE  ApplyCreated(event[s]) \/ ApplyState(event[s])
  <1> USE DEF IInv
  <1>1. pc[s] = "commitApplied" /\ pc[s] # "idle" /\ Writing(s)
    BY DEF CommitApplied, Writing
  <1>2. /\ event[s] \in Events
        /\ event[s].order \in Orders
        /\ event[s].type \in EventTypes
    BY <1>1, BusyEvent
  <1>3. ~Recorded(event[s].id)
    BY <1>1 DEF LedgerLocksInv, HoldsLedgerRow
  <1>4. dataVersion' = dataVersion + 1
    BY <1>1 DEF CommitApplied, VersionInv
  <1>5. CASE event[s].type = ORDER_CREATED
    <2>1. ~Exists(event[s].order)
      BY <1>1, <1>5 DEF DecisionInv
    <2>2. /\ replay[s] \in {{}} \cup {{f} : f \in RejectedStateEvents(event[s].order)}
          /\ \A f \in replay[s] : f.version > event[s].version
      BY <1>1 DEF ReplayInv
    <2>3. /\ ledger' = LedgerAfter(event[s], replay[s])
          /\ orders' = [orders EXCEPT ![event[s].order] = CreatedRow(event[s], replay[s])]
      BY <1>5 DEF CommitApplied
    <2> QED
      BY <1>3, <1>4, <1>5, <2>1, <2>2, <2>3 DEF ApplyCreated
  <1>6. CASE event[s].type # ORDER_CREATED
    <2>1. event[s].type \in StateEventTypes
      BY <1>2, <1>6 DEF EventTypes
    <2>2. ~Rejectable(event[s])
      BY <1>1, <1>6 DEF DecisionInv
    <2>3. replay[s] = {}
      BY <1>1, <1>6 DEF ReplayInv
    <2>4. /\ ledger' = LedgerAfter(event[s], replay[s])
          /\ orders' = [orders EXCEPT ![event[s].order] = Transition(orders[event[s].order], event[s])]
      BY <1>6 DEF CommitApplied
    <2> QED
      BY <1>3, <1>4, <2>1, <2>2, <2>3, <2>4 DEF ApplyState
  <1> QED
    BY <1>5, <1>6

LEMMA CommitRejectedRefines ==
    ASSUME IInv, NEW s \in Sessions, CommitRejected(s)
    PROVE  Reject(event[s]) /\ event[s] \in Events
  <1>1. pc[s] = "commitRejected" /\ pc[s] # "idle" /\ HoldsLedgerRow(s)
    BY DEF CommitRejected, HoldsLedgerRow
  <1> QED
    BY <1>1, BusyEvent DEF IInv, LedgerLocksInv, DecisionInv, CommitRejected, Reject

(* The steps that commit nothing.                                          *)
Quiet(s) ==
    \/ \E e \in Events : LookUpEvent(s, e)
    \/ InsertLedger(s)
    \/ ReadOrder(s)
    \/ LockOrder(s)
    \/ InsertOrder(s)
    \/ BumpDataVersion(s)
    \/ Respond(s)
    \/ Abort(s)

LEMMA QuietUnchanged ==
    ASSUME NEW s \in Sessions, Quiet(s)
    PROVE  UNCHANGED tables
  BY DEF Quiet, LookUpEvent, InsertLedger, ReadOrder, LockOrder, InsertOrder,
         BumpDataVersion, Respond, Abort, tables

LEMMA NextCases ==
    ASSUME Next
    PROVE  \E s \in Sessions : Quiet(s) \/ CommitApplied(s) \/ CommitRejected(s)
  BY DEF Next, Work, Quiet

LEMMA StepRefines ==
    ASSUME IInv, [Next]_vars
    PROVE  [LedgerNext]_tables
  <1>1. CASE UNCHANGED vars
    BY <1>1 DEF vars, tables
  <1>2. CASE Next
    <2>1. PICK s \in Sessions : Quiet(s) \/ CommitApplied(s) \/ CommitRejected(s)
      BY <1>2, NextCases
    <2>2. CASE Quiet(s)
      BY <2>2, QuietUnchanged
    <2>3. CASE CommitApplied(s)
      <3>1. event[s] \in Events
        BY <2>3, BusyEvent DEF CommitApplied, IInv
      <3> QED
        BY <2>3, <3>1, CommitAppliedRefines DEF LedgerNext
    <2>4. CASE CommitRejected(s)
      BY <2>4, CommitRejectedRefines DEF LedgerNext
    <2> QED
      BY <2>1, <2>2, <2>3, <2>4
  <1> QED
    BY <1>1, <1>2

-----------------------------------------------------------------------------

(* Types are kept: the tables by refinement, the sessions step by step.    *)
LEMMA TypeStep ==
    ASSUME IInv, NEW s \in Sessions,
           Quiet(s) \/ CommitApplied(s) \/ CommitRejected(s), LedgerTypeOK'
    PROVE  TypeOK'
  <1> USE DEF IInv, TypeOK, Goto, Answer, sessionVars
  <1>1. ASSUME NEW e \in Events, LookUpEvent(s, e) PROVE TypeOK'
    <2>1. [exists |-> Exists(e.order), rejected |-> RejectedStateEvents(e.order)] \in Snapshot
      BY DEF Snapshot, Exists, RejectedStateEvents
    <2> QED
      BY <1>1, <2>1, NoEventAssumption DEF LookUpEvent
  <1>2. CASE InsertLedger(s)
    BY <1>2 DEF InsertLedger
  <1>3. CASE ReadOrder(s)
    BY <1>3 DEF ReadOrder
  <1>4. CASE LockOrder(s)
    BY <1>4 DEF LockOrder
  <1>5. CASE InsertOrder(s)
    <2>1. \A f \in Replayed(event[s], seen[s].rejected) : f \in SUBSET Events
      BY DEF Replayed, Snapshot
    <2> QED
      BY <1>5, <2>1 DEF InsertOrder
  <1>6. CASE BumpDataVersion(s)
    BY <1>6 DEF BumpDataVersion, LedgerTypeOK
  <1>7. CASE Respond(s)
    BY <1>7 DEF Respond, NoSnapshot, Snapshot
  <1>8. CASE Abort(s)
    BY <1>8 DEF Abort
  <1>9. CASE CommitApplied(s)
    BY <1>9 DEF CommitApplied
  <1>10. CASE CommitRejected(s)
    BY <1>10 DEF CommitRejected
  <1> QED
    BY <1>1, <1>2, <1>3, <1>4, <1>5, <1>6, <1>7, <1>8, <1>9, <1>10 DEF Quiet
(* A step of s leaves what the other sessions hold alone.                  *)
LEMMA OthersUnchanged ==
    ASSUME TypeOK, NEW s \in Sessions, NEW t \in Sessions, t # s,
           Quiet(s) \/ CommitApplied(s) \/ CommitRejected(s)
    PROVE  /\ pc'[t] = pc[t] /\ event'[t] = event[t] /\ seen'[t] = seen[t]
           /\ replay'[t] = replay[t] /\ version'[t] = version[t]
  BY DEF TypeOK, Quiet, LookUpEvent, InsertLedger, ReadOrder, LockOrder, InsertOrder,
         BumpDataVersion, Respond, Abort, CommitApplied, CommitRejected, Goto, Answer, sessionVars

(* As long as the tables stand still, so does what is read off them.       *)
LEMMA SameTables ==
    ASSUME UNCHANGED tables
    PROVE  /\ \A id : Recorded(id)' = Recorded(id)
           /\ \A o : Exists(o)' = Exists(o)
           /\ \A e : Rejectable(e)' = Rejectable(e)
           /\ \A o : RejectedStateEvents(o)' = RejectedStateEvents(o)
           /\ \A e : (Row(e, REJECTED) \in ledger)' = (Row(e, REJECTED) \in ledger)
  BY DEF tables, Recorded, Exists, Rejectable, RejectedStateEvents

(* What a commit changes for the other transactions.                       *)
LEMMA AfterCommitApplied ==
    ASSUME IInv, NEW s \in Sessions, CommitApplied(s)
    PROVE  /\ event[s].order \in Orders
           /\ Writing(s) /\ HoldsLedgerRow(s)
           /\ Exists(event[s].order)'
           /\ \A o \in Orders : o # event[s].order => orders'[o] = orders[o]
           /\ \A id : Recorded(id)' => Recorded(id) \/ id = event[s].id
           /\ \A f \in Events : f.order # event[s].order /\ Row(f, REJECTED) \in ledger
                                  => Row(f, REJECTED) \in ledger'
  <1> USE DEF IInv
  <1>1. pc[s] = "commitApplied" /\ pc[s] # "idle" /\ Writing(s) /\ HoldsLedgerRow(s)
    BY DEF CommitApplied, Writing, HoldsLedgerRow
  <1>2. event[s] \in Events /\ event[s].order \in Orders
    BY <1>1, BusyEvent
  <1>3. \A o \in Orders : o # event[s].order => orders'[o] = orders[o]
    BY DEF CommitApplied, TypeOK, LedgerTypeOK
  <1>4. ledger' = LedgerAfter(event[s], replay[s])
    BY DEF CommitApplied
  <1>5. \A f \in replay[s] : /\ f \in Events
                             /\ f.order = event[s].order
                             /\ Row(f, REJECTED) \in ledger
    BY <1>1 DEF ReplayInv, RejectedStateEvents
  <1>6. \A id : Recorded(id)' => Recorded(id) \/ id = event[s].id
    <2> SUFFICES ASSUME NEW id, Recorded(id)' PROVE Recorded(id) \/ id = event[s].id
      OBVIOUS
    <2>1. PICK row \in ledger' : row.event.id = id
      BY DEF Recorded
    <2>2. CASE row \in ledger
      BY <2>1, <2>2 DEF Recorded
    <2>3. CASE \E f \in replay[s] : row = Row(f, PROCESSED)
      <3>1. PICK f \in replay[s] : row = Row(f, PROCESSED)
        BY <2>3
      <3>2. row.event = f /\ Row(f, REJECTED).event = f
        BY <3>1, RowFields
      <3> QED
        BY <1>5, <2>1, <3>2 DEF Recorded
    <2>4. CASE row = Row(event[s], PROCESSED)
      BY <2>1, <2>4, RowFields
    <2> QED
      BY <1>4, <2>1, <2>2, <2>3, <2>4 DEF LedgerAfter
  <1>7. ASSUME NEW f \in Events, f.order # event[s].order, Row(f, REJECTED) \in ledger
        PROVE  Row(f, REJECTED) \in ledger'
    <2>1. \A g \in replay[s] : Row(f, REJECTED) # Row(g, REJECTED)
      BY <1>5, <1>7, RowFields
    <2> QED
      BY <1>4, <1>7, <2>1 DEF LedgerAfter
  <1>8. orders'[event[s].order].status # MISSING
    <2>1. CASE ApplyCreated(event[s])
      <3>1. PICK rp \in {{}} \cup {{f} : f \in RejectedStateEvents(event[s].order)} :
              orders' = [orders EXCEPT ![event[s].order] = CreatedRow(event[s], rp)]
        BY <2>1 DEF ApplyCreated
      <3>2. orders'[event[s].order] = CreatedRow(event[s], rp)
        BY <1>2, <3>1 DEF TypeOK, LedgerTypeOK
      <3> QED
        BY <3>2, WrittenRowsExist
    <2>2. CASE ApplyState(event[s])
      <3>1. orders'[event[s].order] = Transition(orders[event[s].order], event[s])
        BY <1>2, <2>2 DEF ApplyState, TypeOK, LedgerTypeOK
      <3> QED
        BY <3>1, WrittenRowsExist
    <2> QED
      BY <2>1, <2>2, CommitAppliedRefines
  <1>9. event' = event
    BY DEF CommitApplied, sessionVars
  <1> QED
    BY <1>1, <1>2, <1>3, <1>6, <1>7, <1>8, <1>9 DEF Exists

LEMMA AfterCommitRejected ==
    ASSUME IInv, NEW s \in Sessions, CommitRejected(s)
    PROVE  /\ HoldsLedgerRow(s)
           /\ orders' = orders /\ dataVersion' = dataVersion
           /\ \A o : Exists(o)' = Exists(o)
           /\ \A e : Rejectable(e)' = Rejectable(e)
           /\ \A id : Recorded(id)' => Recorded(id) \/ id = event[s].id
           /\ \A row \in ledger : row \in ledger'
           /\ \A f : Row(f, REJECTED) \in ledger => Row(f, REJECTED) \in ledger'
  BY RowFields
  DEF CommitRejected, HoldsLedgerRow, Exists, Rejectable, Recorded
-----------------------------------------------------------------------------

LEMMA LedgerLocksStep ==
    ASSUME IInv, NEW s \in Sessions,
           Quiet(s) \/ CommitApplied(s) \/ CommitRejected(s)
    PROVE  LedgerLocksInv'
  <1> USE DEF IInv, HoldsLedgerRow
  <1>0. \A t \in Sessions : t # s => pc'[t] = pc[t] /\ event'[t] = event[t]
    BY OthersUnchanged
  <1>1. ASSUME Quiet(s), ~InsertLedger(s)
        PROVE  HoldsLedgerRow(s)' => HoldsLedgerRow(s) /\ event'[s] = event[s]
    BY <1>1
    DEF Quiet, LookUpEvent, ReadOrder, LockOrder, InsertOrder, BumpDataVersion,
        Respond, Abort, Goto, sessionVars, TypeOK
  <1>2. ASSUME CommitApplied(s) \/ CommitRejected(s) PROVE ~HoldsLedgerRow(s)'
    BY <1>2 DEF CommitApplied, CommitRejected, Goto, Answer, TypeOK
  <1>3. CASE InsertLedger(s)
    <2>1. event' = event /\ UNCHANGED tables
      BY <1>3 DEF InsertLedger, sessionVars
    <2>2. HoldsLedgerRow(s)' =>
            /\ ~Recorded(event[s].id)
            /\ \A t \in Sessions \ {s} : HoldsLedgerRow(t) => event[t].id # event[s].id
      BY <1>3 DEF InsertLedger, EventIdLocked, Goto, TypeOK
    <2> QED
      BY <1>0, <2>1, <2>2, SameTables DEF LedgerLocksInv
  <1>4. CASE Quiet(s) /\ ~InsertLedger(s)
    <2>1. UNCHANGED tables
      BY <1>4, QuietUnchanged
    <2> QED
      BY <1>0, <1>1, <1>4, <2>1, SameTables DEF LedgerLocksInv
  <1>5. CASE CommitApplied(s) \/ CommitRejected(s)
    <2>1. HoldsLedgerRow(s) /\ \A id : Recorded(id)' => Recorded(id) \/ id = event[s].id
      BY <1>5, AfterCommitApplied, AfterCommitRejected
    <2> QED
      BY <1>0, <1>2, <1>5, <2>1 DEF LedgerLocksInv
  <1> QED
    BY <1>3, <1>4, <1>5

(* Whoever starts to write has taken the order's row from nobody.          *)
LEMMA OrderLocksStep ==
    ASSUME IInv, NEW s \in Sessions,
           Quiet(s) \/ CommitApplied(s) \/ CommitRejected(s)
    PROVE  OrderLocksInv'
  <1> USE DEF IInv
  <1>0. \A t \in Sessions : t # s => pc'[t] = pc[t] /\ event'[t] = event[t]
    BY OthersUnchanged
  <1>1. CASE UNCHANGED <<tables, event>> /\ Writing(s)' = Writing(s)
              /\ (pc'[s] = "commitRejected" => pc[s] = "commitRejected")
    BY <1>0, <1>1 DEF OrderLocksInv, HoldsOrderGap, HoldsOrderRow, Writing, Exists, tables
  <1>2. ASSUME NEW e \in Events, LookUpEvent(s, e) PROVE OrderLocksInv'
    <2>1. /\ pc'[s] \notin {"bump", "commitApplied", "commitRejected"}
          /\ UNCHANGED tables
      BY <1>2 DEF LookUpEvent, Goto, TypeOK
    <2> QED
      BY <1>0, <2>1 DEF OrderLocksInv, HoldsOrderGap, HoldsOrderRow, Writing, Exists, tables
  <1>3. CASE InsertLedger(s)
    BY <1>1, <1>3 DEF InsertLedger, Goto, TypeOK, sessionVars, Writing
  <1>4. CASE ReadOrder(s)
    <2>1. /\ UNCHANGED <<tables, event>>
          /\ event[s].type = ORDER_CREATED
          /\ pc'[s] \in {"commitRejected", "insertOrder"}
      BY <1>4 DEF ReadOrder, Goto, TypeOK, sessionVars
    <2> QED
      BY <1>0, <2>1 DEF OrderLocksInv, HoldsOrderGap, HoldsOrderRow, Writing, Exists, tables
  <1>5. CASE LockOrder(s)
    <2>1. /\ UNCHANGED <<tables, event>>
          /\ event[s].type # ORDER_CREATED
          /\ pc[s] = "readOrder"
          /\ pc'[s] = IF Rejectable(event[s]) THEN "commitRejected" ELSE "bump"
          /\ \A t \in Sessions : t # s => ~HoldsOrderRow(t, event[s].order)
      <3>1. UNCHANGED <<tables, event>> /\ event[s].type # ORDER_CREATED
        <4>1. UNCHANGED <<tables, event>>
          BY <1>5 DEF LockOrder, sessionVars
        <4>2. event[s].type # ORDER_CREATED
          BY <1>5 DEF LockOrder, StateEventTypes, ORDER_CREATED, ORDER_REFUNDED, ORDER_CANCELLED
        <4> QED
          BY <4>1, <4>2
      <3>2. /\ pc[s] = "readOrder"
            /\ pc' = [pc EXCEPT ![s] = IF Rejectable(event[s]) THEN "commitRejected"
                                                               ELSE "bump"]
        BY <1>5 DEF LockOrder, Goto
      <3>3. pc'[s] = IF Rejectable(event[s]) THEN "commitRejected" ELSE "bump"
        BY <3>2 DEF TypeOK
      <3>4. \A t \in Sessions : t # s => ~HoldsOrderRow(t, event[s].order)
        BY <1>5 DEF LockOrder, OrderRowLocked
      <3> QED
        BY <3>1, <3>2, <3>3, <3>4
    <2>2. ~Rejectable(event[s]) => Exists(event[s].order)
      BY <2>1, LiveOrderExists
    <2>3. event[s] # NoEvent
      BY <2>1, BusyEvent
    <2>4. \A t \in Sessions : Writing(t) => event[t] # NoEvent /\ HoldsOrderRow(t, event[t].order)
      BY BusyEvent DEF Writing, HoldsOrderRow
    <2>5. \A t \in Sessions : /\ HoldsOrderRow(t, event[s].order)' => t = s
                              /\ Writing(t)' /\ event[t].order = event[s].order => t = s
      BY <1>0, <2>1, <2>4 DEF HoldsOrderRow, Writing, Exists, tables
    <2>6. CASE Rejectable(event[s])
      BY <1>0, <2>1, <2>4, <2>5, <2>6
      DEF OrderLocksInv, HoldsOrderGap, HoldsOrderRow, Writing, Exists, tables
    <2>7. CASE ~Rejectable(event[s])
      BY <1>0, <2>1, <2>2, <2>4, <2>5, <2>7
      DEF OrderLocksInv, HoldsOrderGap, HoldsOrderRow, Writing, Exists, tables
    <2> QED
      BY <2>6, <2>7
  <1>6. CASE InsertOrder(s)
    <2>1. /\ UNCHANGED <<tables, event>>
          /\ pc[s] = "insertOrder"
          /\ pc'[s] \in {"failed", "bump"}
          /\ \A t \in Sessions : t # s => /\ ~HoldsOrderRow(t, event[s].order)
                                          /\ ~HoldsOrderGap(t, event[s].order)
      BY <1>6 DEF InsertOrder, Goto, TypeOK, OrderRowLocked, OrderGapLocked
    <2>2. \A t \in Sessions : Writing(t) => event[t] # NoEvent /\ HoldsOrderRow(t, event[t].order)
      BY BusyEvent DEF Writing, HoldsOrderRow
    <2> QED
      BY <1>0, <2>1, <2>2
      DEF OrderLocksInv, HoldsOrderGap, HoldsOrderRow, Writing, Exists, tables
  <1>7. CASE BumpDataVersion(s)
    BY <1>1, <1>7 DEF BumpDataVersion, Goto, TypeOK, Writing
  <1>8. CASE Respond(s)
    <2>1. UNCHANGED tables /\ pc'[s] = "idle"
      BY <1>8 DEF Respond, Goto, TypeOK
    <2> QED
      BY <1>0, <2>1 DEF OrderLocksInv, HoldsOrderGap, HoldsOrderRow, Writing, Exists, tables
  <1>9. CASE Abort(s)
    <2>1. UNCHANGED <<tables, event>> /\ pc'[s] = "failed"
      BY <1>9 DEF Abort, Goto, TypeOK, sessionVars
    <2> QED
      BY <1>0, <2>1 DEF OrderLocksInv, HoldsOrderGap, HoldsOrderRow, Writing, Exists, tables
  <1>10. CASE CommitRejected(s)
    <2>1. event' = event /\ pc'[s] \in {"rejected", "failed"} /\ \A o : Exists(o)' = Exists(o)
      BY <1>10, AfterCommitRejected DEF CommitRejected, Goto, Answer, TypeOK, sessionVars
    <2> QED
      BY <1>0, <2>1 DEF OrderLocksInv, HoldsOrderGap, HoldsOrderRow, Writing
  <1>11. CASE CommitApplied(s)
    <2>1. event' = event /\ pc'[s] \in {"processed", "failed"}
      BY <1>11 DEF CommitApplied, Goto, Answer, TypeOK, sessionVars
    <2>2. /\ Writing(s) /\ Exists(event[s].order)'
          /\ \A o \in Orders : o # event[s].order => orders'[o] = orders[o]
      BY <1>11, <2>1, AfterCommitApplied DEF Exists
    <2>3. \A t \in Sessions : t # s => ~Writing(t) \/ event[t].order # event[s].order
      BY <2>2 DEF OrderLocksInv
    <2>4. \A t \in Sessions : Writing(t) => event[t].order \in Orders
      BY BusyEvent DEF Writing
    <2>5. \A o \in Orders : o # event[s].order => Exists(o)' = Exists(o)
      BY <2>2 DEF Exists
    <2> QED
      BY <1>0, <2>1, <2>3, <2>4, <2>5 DEF OrderLocksInv, HoldsOrderGap, HoldsOrderRow, Writing
  <1> QED
    BY <1>2, <1>3, <1>4, <1>5, <1>6, <1>7, <1>8, <1>9, <1>10, <1>11 DEF Quiet

(* The other sessions' decisions survive a commit: they are about other    *)
(* orders, or their locks would have kept s from writing.                  *)
LEMMA DecisionStep ==
    ASSUME IInv, NEW s \in Sessions,
           Quiet(s) \/ CommitApplied(s) \/ CommitRejected(s)
    PROVE  DecisionInv'
  <1> USE DEF IInv
  <1>0. \A t \in Sessions : t # s => pc'[t] = pc[t] /\ event'[t] = event[t]
    BY OthersUnchanged
  <1>1. ASSUME Quiet(s) PROVE DecisionInv'
    <2>1. UNCHANGED tables
      BY <1>1, QuietUnchanged
    <2>2. \A t \in Sessions : t # s =>
            /\ pc'[t] = "insertOrder" => event'[t].type = ORDER_CREATED
            /\ pc'[t] = "commitRejected" => Rejectable(event'[t])
            /\ Writing(t)' =>
                 IF event'[t].type = ORDER_CREATED THEN ~Exists(event'[t].order)
                                                   ELSE ~Rejectable(event'[t])
      BY <1>0 DEF DecisionInv, Writing
    <2>3. /\ pc'[s] = "insertOrder" => event'[s].type = ORDER_CREATED
          /\ pc'[s] = "commitRejected" => Rejectable(event'[s])
          /\ Writing(s)' =>
               IF event'[s].type = ORDER_CREATED THEN ~Exists(event'[s].order)
                                                 ELSE ~Rejectable(event'[s])
      <3> USE DEF Goto, TypeOK, Writing
      <3>1. ASSUME NEW e \in Events, LookUpEvent(s, e)
            PROVE  pc'[s] \notin {"insertOrder", "commitRejected", "bump", "commitApplied"}
        BY <3>1 DEF LookUpEvent
      <3>2. ASSUME InsertLedger(s) \/ Respond(s) \/ Abort(s)
            PROVE  pc'[s] \notin {"insertOrder", "commitRejected", "bump", "commitApplied"}
        BY <3>2 DEF InsertLedger, Respond, Abort
      <3>3. CASE ReadOrder(s)
        <4>1. /\ event' = event /\ event[s].type = ORDER_CREATED
              /\ pc[s] = "readOrder"
              /\ pc'[s] = IF seen[s].exists THEN "commitRejected" ELSE "insertOrder"
          BY <3>3 DEF ReadOrder, sessionVars
        <4>2. seen[s].exists => Exists(event[s].order)
          BY <4>1 DEF SnapshotInv
        <4> QED
          BY <4>1, <4>2 DEF Rejectable
      <3>4. CASE LockOrder(s)
        <4>1. /\ event' = event
              /\ pc' = [pc EXCEPT ![s] = IF Rejectable(event[s]) THEN "commitRejected"
                                                                 ELSE "bump"]
          BY <3>4 DEF LockOrder, sessionVars
        <4>2. event[s].type # ORDER_CREATED
          BY <3>4
          DEF LockOrder, StateEventTypes, ORDER_CREATED, ORDER_REFUNDED, ORDER_CANCELLED
        <4>3. pc'[s] = IF Rejectable(event[s]) THEN "commitRejected" ELSE "bump"
          BY <4>1
        <4> QED
          BY <4>1, <4>2, <4>3
      <3>5. CASE InsertOrder(s)
        <4>1. /\ event' = event /\ pc[s] = "insertOrder"
              /\ pc'[s] = "failed" \/ (pc'[s] = "bump" /\ ~Exists(event[s].order))
          BY <3>5 DEF InsertOrder
        <4> QED
          BY <4>1 DEF DecisionInv
      <3>6. CASE BumpDataVersion(s)
        <4>1. event' = event /\ pc[s] = "bump" /\ pc'[s] = "commitApplied"
          BY <3>6 DEF BumpDataVersion
        <4> QED
          BY <4>1 DEF DecisionInv
      <3> QED
        BY <1>1, <3>1, <3>2, <3>3, <3>4, <3>5, <3>6 DEF Quiet
    <2>4. \A t \in Sessions :
            /\ pc'[t] = "insertOrder" => event'[t].type = ORDER_CREATED
            /\ pc'[t] = "commitRejected" => Rejectable(event'[t])
            /\ Writing(t)' =>
                 IF event'[t].type = ORDER_CREATED THEN ~Exists(event'[t].order)
                                                   ELSE ~Rejectable(event'[t])
      BY <2>2, <2>3
    <2> QED
      BY <2>1, <2>4 DEF DecisionInv, Exists, Rejectable, tables
  <1>2. ASSUME CommitRejected(s) PROVE DecisionInv'
    <2>1. /\ event' = event /\ pc'[s] \in {"rejected", "failed"}
          /\ orders' = orders
      BY <1>2 DEF CommitRejected, Goto, Answer, TypeOK, sessionVars
    <2> QED
      BY <1>0, <2>1 DEF DecisionInv, Writing, Exists, Rejectable
  <1>3. ASSUME CommitApplied(s) PROVE DecisionInv'
    <2>1. event' = event /\ pc'[s] \in {"processed", "failed"}
      BY <1>3 DEF CommitApplied, Goto, Answer, TypeOK, sessionVars
    <2>2. /\ Writing(s)
          /\ orders'[event[s].order].status # MISSING
          /\ \A o \in Orders : o # event[s].order => orders'[o] = orders[o]
      BY <1>3, <2>1, AfterCommitApplied DEF Exists
    <2>3. ASSUME NEW t \in Sessions, t # s, Writing(t)
          PROVE  orders'[event[t].order] = orders[event[t].order]
      BY <2>2, <2>3, BusyEvent DEF OrderLocksInv, Writing
    <2>4. ASSUME NEW t \in Sessions, t # s, pc[t] = "commitRejected"
          PROVE  Rejectable(event[t])'
      <3>1. event[t] # NoEvent /\ event[t].order \in Orders
        BY <2>4, BusyEvent
      <3>2. CASE event[t].order # event[s].order
        BY <2>1, <2>2, <2>4, <3>1, <3>2 DEF DecisionInv, Rejectable, Exists
      <3>3. CASE event[t].order = event[s].order
        <4>1. event[t].type = ORDER_CREATED
          BY <2>2, <2>4, <3>1, <3>3 DEF OrderLocksInv, HoldsOrderRow, HoldsOrderGap
        <4> QED
          BY <2>1, <2>2, <3>3, <4>1 DEF Rejectable, Exists
      <3> QED
        BY <3>2, <3>3
    <2> QED
      BY <1>0, <2>1, <2>3, <2>4 DEF DecisionInv, Writing, Rejectable, Exists
  <1> QED
    BY <1>1, <1>2, <1>3

(* Orders only appear and rejected events only wait for theirs, so what a  *)
(* snapshot saw stays true.                                                *)
LEMMA SnapshotStep ==
    ASSUME IInv, NEW s \in Sessions,
           Quiet(s) \/ CommitApplied(s) \/ CommitRejected(s)
    PROVE  SnapshotInv'
  <1> USE DEF IInv
  <1>0. \A t \in Sessions : t # s => /\ pc'[t] = pc[t] /\ event'[t] = event[t]
                                     /\ seen'[t] = seen[t]
    BY OthersUnchanged
  <1>1. ASSUME NEW e \in Events, LookUpEvent(s, e) PROVE SnapshotInv'
    <2>1. UNCHANGED tables
      BY <1>1 DEF LookUpEvent
    <2>2. /\ event'[s] = e
          /\ seen'[s].exists = Exists(e.order)
          /\ seen'[s].rejected = RejectedStateEvents(e.order)
      BY <1>1 DEF LookUpEvent, TypeOK
    <2>3. \A f \in seen'[s].rejected :
             /\ f.order = e.order
             /\ f.type \in StateEventTypes
             /\ Row(f, REJECTED) \in ledger
      BY <2>2 DEF RejectedStateEvents
    <2>4. seen'[s].exists => orders[e.order].status # MISSING
      BY <2>2 DEF Exists
    <2> QED
      BY <1>0, <2>1, <2>2, <2>3, <2>4 DEF SnapshotInv, Exists, tables
  <1>2. ASSUME Quiet(s), pc'[s] \in Statements, pc[s] # "idle"
        PROVE  pc[s] \in Statements /\ event'[s] = event[s] /\ seen'[s] = seen[s]
    BY <1>2
    DEF Quiet, LookUpEvent, InsertLedger, ReadOrder, LockOrder, InsertOrder,
        BumpDataVersion, Respond, Abort, Goto, sessionVars, TypeOK
  <1>3. ASSUME Quiet(s), \A e \in Events : ~LookUpEvent(s, e) PROVE SnapshotInv'
    <2>1. UNCHANGED tables
      BY <1>3, QuietUnchanged
    <2>2. pc[s] # "idle"
      BY <1>3
      DEF Quiet, InsertLedger, ReadOrder, LockOrder, InsertOrder,
          BumpDataVersion, Respond, Abort
    <2> QED
      BY <1>0, <1>2, <1>3, <2>1, <2>2 DEF SnapshotInv, Exists, tables
  <1>4. ASSUME CommitRejected(s) PROVE SnapshotInv'
    <2>1. pc'[s] \in {"rejected", "failed"} /\ orders' = orders
      BY <1>4 DEF CommitRejected, Goto, Answer, TypeOK
    <2>2. \A f : Row(f, REJECTED) \in ledger => Row(f, REJECTED) \in ledger'
      BY <1>4, AfterCommitRejected
    <2> QED
      BY <1>0, <2>1, <2>2 DEF SnapshotInv, Exists
  <1>5. ASSUME CommitApplied(s) PROVE SnapshotInv'
    <2>1. event' = event /\ pc'[s] \in {"processed", "failed"}
      BY <1>5 DEF CommitApplied, Goto, Answer, TypeOK, sessionVars
    <2>2. /\ orders'[event[s].order].status # MISSING
          /\ \A o \in Orders : o # event[s].order => orders'[o] = orders[o]
          /\ \A f \in Events : f.order # event[s].order /\ Row(f, REJECTED) \in ledger
                                 => Row(f, REJECTED) \in ledger'
      BY <1>5, <2>1, AfterCommitApplied DEF Exists
    <2>3. ASSUME NEW t \in Sessions, t # s, pc[t] \in Statements
          PROVE  /\ seen[t].exists => Exists(event[t].order)'
                 /\ \A f \in seen[t].rejected :
                      /\ f.order = event[t].order
                      /\ f.type \in StateEventTypes
                      /\ Row(f, REJECTED) \in ledger' \/ Exists(event[t].order)'
      <3>1. event[t].order \in Orders /\ seen[t].rejected \subseteq Events
        BY <2>3, BusyEvent DEF TypeOK, Snapshot
      <3> QED
        BY <2>1, <2>2, <2>3, <3>1 DEF SnapshotInv, Exists
    <2> QED
      BY <1>0, <2>1, <2>3 DEF SnapshotInv, Exists
  <1> QED
    BY <1>1, <1>3, <1>4, <1>5

(* A creation's replay stays due: until it commits nobody else can promote *)
(* the event, because only the creation of the order could.                *)
LEMMA ReplayStep ==
    ASSUME IInv, NEW s \in Sessions,
           Quiet(s) \/ CommitApplied(s) \/ CommitRejected(s)
    PROVE  ReplayInv'
  <1> USE DEF IInv
  <1> DEFINE Fresh(x) == x \in {"idle", "insertLedger", "readOrder", "insertOrder"}
             Due(e, r) ==
               \/ r = {}
               \/ /\ e.type = ORDER_CREATED
                  /\ \E f \in RejectedStateEvents(e.order) :
                       r = {f} /\ f.version > e.version
             Good(t) == /\ Fresh(pc[t]) => replay[t] = {}
                        /\ Writing(t) => Due(event[t], replay[t])
  <1>a. ReplayInv <=> \A t \in Sessions : Good(t)
    BY DEF ReplayInv
  <1>b. (\A t \in Sessions : Good(t)') => ReplayInv'
    BY DEF ReplayInv
  <1>0. \A t \in Sessions : t # s => /\ pc'[t] = pc[t] /\ event'[t] = event[t]
                                     /\ replay'[t] = replay[t]
    BY OthersUnchanged
  <1>1. ASSUME NEW t \in Sessions, t # s PROVE Good(t)'
    <2>1. Good(t) /\ pc'[t] = pc[t] /\ event'[t] = event[t] /\ replay'[t] = replay[t]
      BY <1>a, <1>0, <1>1
    <2>2. ASSUME Writing(t), NEW f \in RejectedStateEvents(event[t].order)
          PROVE  f \in RejectedStateEvents(event[t].order)'
      <3>1. f \in Events /\ f.order = event[t].order /\ f.type \in StateEventTypes
            /\ Row(f, REJECTED) \in ledger
        BY <2>2 DEF RejectedStateEvents
      <3>2. Row(f, REJECTED) \in ledger'
        <4>1. CASE Quiet(s)
          BY <3>1, <4>1, QuietUnchanged DEF tables
        <4>2. CASE CommitRejected(s)
          BY <3>1, <4>2, AfterCommitRejected
        <4>3. CASE CommitApplied(s)
          <5>1. event[t].order # event[s].order
            BY <1>1, <2>2, <4>3, AfterCommitApplied DEF OrderLocksInv
          <5> QED
            BY <3>1, <4>3, <5>1, AfterCommitApplied
        <4> QED
          BY <4>1, <4>2, <4>3
      <3> QED
        BY <2>1, <3>1, <3>2 DEF RejectedStateEvents
    <2>3. Writing(t)' => Writing(t)
      BY <2>1 DEF Writing
    <2> QED
      BY <2>1, <2>2, <2>3
  <1>2. Good(s)'
    <2>1. ASSUME NEW e \in Events, LookUpEvent(s, e) PROVE Good(s)'
      <3>1. pc'[s] \in {"insertLedger", "duplicate"} /\ replay'[s] = replay[s] /\ pc[s] = "idle"
        BY <2>1 DEF LookUpEvent, Goto, TypeOK
      <3> QED
        BY <1>a, <3>1 DEF Writing
    <2>2. CASE InsertLedger(s) \/ ReadOrder(s)
      <3>1. /\ pc[s] \in {"insertLedger", "readOrder"} /\ replay'[s] = replay[s]
            /\ pc'[s] \in {"readOrder", "duplicate", "insertOrder", "commitRejected"}
        BY <2>2 DEF InsertLedger, ReadOrder, Goto, TypeOK, sessionVars
      <3> QED
        BY <1>a, <3>1 DEF Writing
    <2>3. CASE LockOrder(s)
      <3>1. pc[s] = "readOrder" /\ replay'[s] = replay[s]
        BY <2>3 DEF LockOrder, sessionVars
      <3> QED
        BY <1>a, <3>1
    <2>4. CASE InsertOrder(s)
      <3>1. /\ pc[s] = "insertOrder" /\ event' = event /\ UNCHANGED tables
            /\ \/ pc'[s] = "failed"
               \/ /\ pc'[s] = "bump" /\ ~Exists(event[s].order)
                  /\ \/ replay'[s] = {}
                     \/ \E f \in Replayed(event[s], seen[s].rejected) : replay'[s] = f
        BY <2>4 DEF InsertOrder, Goto, TypeOK
      <3>2. event[s].type = ORDER_CREATED
        BY <3>1 DEF DecisionInv
      <3>3. CASE pc'[s] = "bump"
        <4>1. CASE replay'[s] = {}
          BY <3>3, <4>1
        <4>2. CASE \E f \in Replayed(event[s], seen[s].rejected) : replay'[s] = f
          <5>1. PICK f \in seen[s].rejected : replay'[s] = {f} /\ f.version > event[s].version
            BY <4>2 DEF Replayed
          <5>2. f \in Events /\ f.order = event[s].order /\ f.type \in StateEventTypes
                /\ Row(f, REJECTED) \in ledger
            BY <3>1, <3>3, <5>1 DEF SnapshotInv, TypeOK, Snapshot
          <5>3. f \in RejectedStateEvents(event[s].order)'
            BY <3>1, <5>2 DEF RejectedStateEvents, tables
          <5>4. Due(event[s], replay[s])'
            BY <3>1, <3>2, <5>1, <5>3
          <5> QED
            BY <3>3, <5>4
        <4> QED
          BY <3>1, <3>3, <4>1, <4>2
      <3> QED
        BY <3>1, <3>3 DEF Writing
    <2>5. CASE BumpDataVersion(s)
      <3>1. /\ pc[s] = "bump" /\ pc'[s] = "commitApplied" /\ UNCHANGED tables
            /\ event' = event /\ replay'[s] = replay[s]
        BY <2>5 DEF BumpDataVersion, Goto, TypeOK
      <3>2. Due(event[s], replay[s]) /\ RejectedStateEvents(event[s].order)' = RejectedStateEvents(event[s].order)
        BY <1>a, <3>1 DEF Writing, RejectedStateEvents, tables
      <3> QED
        BY <3>1, <3>2
    <2>6. CASE Respond(s)
      BY <2>6 DEF Respond, Goto, TypeOK, Writing
    <2>7. CASE Abort(s) \/ CommitApplied(s) \/ CommitRejected(s)
      <3>1. pc'[s] \in {"failed", "processed", "rejected"}
        BY <2>7 DEF Abort, CommitApplied, CommitRejected, Goto, Answer, TypeOK
      <3> QED
        BY <3>1 DEF Writing
    <2> QED
      BY <2>1, <2>2, <2>3, <2>4, <2>5, <2>6, <2>7 DEF Quiet
  <1> QED
    BY <1>b, <1>1, <1>2

(* The row of data_state hands the version from one writer to the next.    *)
LEMMA VersionStep ==
    ASSUME IInv, NEW s \in Sessions,
           Quiet(s) \/ CommitApplied(s) \/ CommitRejected(s)
    PROVE  VersionInv'
  <1> USE DEF IInv
  <1>0. \A t \in Sessions : t # s => pc'[t] = pc[t] /\ version'[t] = version[t]
    BY OthersUnchanged
  <1>1. CASE BumpDataVersion(s)
    <2>1. /\ version'[s] = dataVersion + 1 /\ dataVersion' = dataVersion
          /\ \A t \in Sessions : t # s => pc[t] # "commitApplied"
      BY <1>1 DEF BumpDataVersion, DataStateLocked, tables, TypeOK
    <2> QED
      BY <1>0, <2>1 DEF VersionInv
  <1>2. CASE CommitRejected(s)
    <2>1. pc'[s] \in {"rejected", "failed"} /\ dataVersion' = dataVersion
      BY <1>2 DEF CommitRejected, Goto, Answer, TypeOK
    <2> QED
      BY <1>0, <2>1 DEF VersionInv
  <1>3. CASE CommitApplied(s)
    <2>1. pc[s] = "commitApplied" /\ pc'[s] \in {"processed", "failed"}
      BY <1>3 DEF CommitApplied, Goto, Answer, TypeOK
    <2> QED
      BY <1>0, <2>1 DEF VersionInv
  <1>4. CASE Quiet(s) /\ ~BumpDataVersion(s)
    <2>1. dataVersion' = dataVersion
      BY <1>4, QuietUnchanged DEF tables
    <2>2. pc'[s] # "commitApplied"
      BY <1>4
      DEF Quiet, LookUpEvent, InsertLedger, ReadOrder, LockOrder, InsertOrder,
          Respond, Abort, Goto, TypeOK
    <2> QED
      BY <1>0, <2>1, <2>2 DEF VersionInv
  <1> QED
    BY <1>1, <1>2, <1>3, <1>4

-----------------------------------------------------------------------------

LEMMA IInvStep ==
    ASSUME IInv, [Next]_vars
    PROVE  IInv'
  <1>1. CASE UNCHANGED vars
    BY <1>1
    DEF vars, IInv, TypeOK, LedgerTypeOK, LedgerLocksInv, DecisionInv, OrderLocksInv,
        SnapshotInv, ReplayInv, VersionInv, HoldsLedgerRow, HoldsOrderRow,
        HoldsOrderGap, Writing, Recorded, Exists, Rejectable, RejectedStateEvents
  <1>2. CASE Next
    <2>1. PICK s \in Sessions : Quiet(s) \/ CommitApplied(s) \/ CommitRejected(s)
      BY <1>2, NextCases
    <2>2. LedgerTypeOK'
      BY StepRefines, LedgerTypeStep DEF IInv, TypeOK
    <2> QED
      BY <2>1, <2>2, TypeStep, LedgerLocksStep, DecisionStep, OrderLocksStep,
         SnapshotStep, ReplayStep, VersionStep
      DEF IInv
  <1> QED
    BY <1>1, <1>2

(* The lock discipline of order_event_service.py, with everything it rests *)
(* on, is inductive: decisions taken under a lock are still right when the *)
(* transaction commits, whatever the other sessions do.                    *)
THEOREM LockDiscipline == Spec => []IInv
  <1>1. Init => IInv
    BY InitIInv
  <1>2. IInv /\ [Next]_vars => IInv'
    BY IInvStep
  <1> QED
    BY <1>1, <1>2, PTL DEF Spec

(* Every variable keeps its type, for any number of sessions and events.   *)
THEOREM TypeCorrect == Spec => []TypeOK
  <1>1. IInv => TypeOK
    BY DEF IInv
  <1> QED
    BY <1>1, LockDiscipline, PTL

(* The concurrent transactions implement the atomic ledger: each commit is *)
(* one of its steps and nothing else touches the tables.                   *)
THEOREM Refinement == Spec => LedgerSpec
  <1>1. Init => LedgerInit
    BY DEF Init
  <1>2. IInv /\ [Next]_vars => [LedgerNext]_tables
    BY StepRefines
  <1> QED
    BY <1>1, <1>2, LockDiscipline, PTL DEF Spec, LedgerSpec

(* What the atomic ledger guarantees therefore holds of the transactions.  *)
THEOREM TransactionsExplained == Spec => []LedgerExplainsOrders
  BY Refinement, LedgerExplained, PTL

(* The unique key on event_id holds among racing transactions.             *)
THEOREM TransactionsIdempotent == Spec => []OneRowPerEventId
  BY Refinement, EventIdsAreUnique, PTL

(* No interleaving moves an order's watermark back or revives it.          *)
THEOREM TransactionsNeverRegress == Spec => OrderNeverRegresses
  BY Refinement, OrdersNeverRegress, PTL

(* No interleaving loses or repeats an increment of the data version.      *)
THEOREM TransactionsMoveVersion == Spec => VersionMovesWithOrders
  BY Refinement, VersionFollowsOrders, PTL

(* No interleaving rewrites the ledger, replays of creations aside.        *)
THEOREM TransactionsAppendOnly == Spec => LedgerIsAppendOnly
  BY Refinement, LedgerRowsAreFinal, PTL

-----------------------------------------------------------------------------

(* No step takes an event_id or a PROCESSED row out of the ledger.         *)
LEMMA LedgerKeeps ==
    ASSUME IInv, NEW s \in Sessions,
           Quiet(s) \/ CommitApplied(s) \/ CommitRejected(s)
    PROVE  /\ \A id : Recorded(id) => Recorded(id)'
           /\ \A f : Row(f, PROCESSED) \in ledger => Row(f, PROCESSED) \in ledger'
  <1>1. CASE Quiet(s)
    BY <1>1, QuietUnchanged, SameTables DEF tables
  <1>2. CASE CommitRejected(s)
    BY <1>2 DEF CommitRejected, Recorded
  <1>3. CASE CommitApplied(s)
    <2>1. ledger' = LedgerAfter(event[s], replay[s])
      BY <1>3 DEF CommitApplied
    <2>2. \A f, g : Row(f, PROCESSED) # Row(g, REJECTED)
      BY DEF Row, PROCESSED, REJECTED
    <2>3. \A f : Row(f, PROCESSED) \in ledger => Row(f, PROCESSED) \in ledger'
      BY <2>1, <2>2 DEF LedgerAfter
    <2>4. ASSUME NEW id, Recorded(id) PROVE Recorded(id)'
      <3>1. PICK row \in ledger : row.event.id = id
        BY <2>4 DEF Recorded
      <3>2. CASE row \in ledger'
        BY <3>1, <3>2 DEF Recorded
      <3>3. CASE \E f \in replay[s] : row = Row(f, REJECTED)
        <4>1. PICK f \in replay[s] : row = Row(f, REJECTED)
          BY <3>3
        <4>2. row.event = f /\ Row(f, PROCESSED).event = f
          BY <4>1, RowFields
        <4>3. Row(f, PROCESSED) \in ledger'
          BY <2>1 DEF LedgerAfter
        <4> QED
          BY <3>1, <4>2, <4>3 DEF Recorded
      <3> QED
        BY <2>1, <3>1, <3>2, <3>3 DEF LedgerAfter
    <2> QED
      BY <2>3, <2>4
  <1> QED
    BY <1>1, <1>2, <1>3

LEMMA AnswersStep ==
    ASSUME IInv, AnswersAreDurable, [Next]_vars
    PROVE  AnswersAreDurable'
  <1> DEFINE Kept(t) == /\ pc[t] = "processed" => Row(event[t], PROCESSED) \in ledger
                        /\ pc[t] = "rejected"  => Recorded(event[t].id)
                        /\ pc[t] = "duplicate" => Recorded(event[t].id)
  <1>a. \A t \in Sessions : Kept(t)
    BY DEF AnswersAreDurable
  <1>b. (\A t \in Sessions : Kept(t)') => AnswersAreDurable'
    BY DEF AnswersAreDurable
  <1>1. CASE UNCHANGED vars
    BY <1>1 DEF vars, AnswersAreDurable, Recorded
  <1>2. CASE Next
    <2>0. PICK s \in Sessions : Quiet(s) \/ CommitApplied(s) \/ CommitRejected(s)
      BY <1>2, NextCases
    <2>1. ASSUME NEW t \in Sessions,
                 (pc'[t] = pc[t] /\ event'[t] = event[t])
                   \/ pc'[t] \notin {"processed", "rejected", "duplicate"}
          PROVE  Kept(t)'
      <3>1. /\ \A id : Recorded(id) => Recorded(id)'
            /\ \A f : Row(f, PROCESSED) \in ledger => Row(f, PROCESSED) \in ledger'
        BY <2>0, LedgerKeeps
      <3>2. CASE pc'[t] = pc[t] /\ event'[t] = event[t]
        BY <1>a, <3>1, <3>2 DEF Recorded
      <3> QED
        BY <2>1, <3>2
    <2>2. \A t \in Sessions : t # s => Kept(t)'
      BY <2>0, <2>1, OthersUnchanged DEF IInv
    <2>3. Kept(s)'
      <3> USE DEF IInv, Goto, Answer, TypeOK, sessionVars
      <3>1. ASSUME NEW e \in Events, LookUpEvent(s, e) PROVE Kept(s)'
        <4>1. /\ event'[s] = e /\ UNCHANGED tables
              /\ pc'[s] = IF Recorded(e.id) THEN "duplicate" ELSE "insertLedger"
          BY <3>1 DEF LookUpEvent
        <4> QED
          BY <4>1 DEF Recorded, tables
      <3>2. CASE InsertLedger(s)
        <4>1. /\ event' = event /\ UNCHANGED tables
              /\ pc'[s] = IF Recorded(event[s].id) THEN "duplicate" ELSE "readOrder"
          BY <3>2 DEF InsertLedger
        <4> QED
          BY <4>1 DEF Recorded, tables
      <3>3. CASE CommitApplied(s)
        <4>1. event' = event /\ pc'[s] \in {"processed", "failed"}
          BY <3>3 DEF CommitApplied
        <4>2. Row(event[s], PROCESSED) \in ledger'
          BY <3>3 DEF CommitApplied, LedgerAfter
        <4> QED
          BY <4>1, <4>2
      <3>4. CASE CommitRejected(s)
        <4>1. event' = event /\ pc'[s] \in {"rejected", "failed"}
          BY <3>4 DEF CommitRejected
        <4>2. Row(event[s], REJECTED) \in ledger' /\ Row(event[s], REJECTED).event = event[s]
          BY <3>4, RowFields DEF CommitRejected
        <4> QED
          BY <4>1, <4>2 DEF Recorded
      <3>5. CASE ReadOrder(s) \/ LockOrder(s) \/ InsertOrder(s) \/ BumpDataVersion(s)
                   \/ Respond(s) \/ Abort(s)
        <4>1. pc'[s] \notin {"processed", "rejected", "duplicate"}
          BY <3>5 DEF ReadOrder, LockOrder, InsertOrder, BumpDataVersion, Respond, Abort
        <4> QED
          BY <2>1, <4>1
      <3> QED
        BY <2>0, <3>1, <3>2, <3>3, <3>4, <3>5 DEF Quiet
    <2> QED
      BY <1>b, <2>2, <2>3
  <1> QED
    BY <1>1, <1>2

(* A client that hears "processed", "rejected" or "duplicate" can stop     *)
(* sending the event: its row is committed and stays.                      *)
THEOREM AnswersHold == Spec => []AnswersAreDurable
  <1>1. Init => AnswersAreDurable
    BY DEF Init, AnswersAreDurable
  <1>2. IInv /\ AnswersAreDurable /\ [Next]_vars => AnswersAreDurable'
    BY AnswersStep
  <1> QED
    BY <1>1, <1>2, LockDiscipline, PTL DEF Spec
=============================================================================
