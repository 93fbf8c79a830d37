---------------------------- MODULE OrderEvents ----------------------------
(***************************************************************************)
(* POST /api/order-events: concurrent MySQL transactions applying order    *)
(* events (src/backend/services/order_event_service.py).                   *)
(*                                                                         *)
(* A session is one request's database session working on one event.  Its  *)
(* transaction runs under REPEATABLE READ: plain SELECTs read the snapshot *)
(* taken by the first one; INSERT, UPDATE and SELECT ... FOR UPDATE work   *)
(* on the latest committed rows and hold InnoDB locks until the end.       *)
(* Nothing is visible to others before COMMIT.  A transaction may end at   *)
(* any point without effect (5 s timeout, lock wait timeout, lost          *)
(* connection, crashed process), and an answer may be lost; clients may    *)
(* send any event again at any time.                                       *)
(***************************************************************************)
EXTENDS OrderLedger

CONSTANTS
    Sessions,      \* concurrent database sessions of the event engine
    NoEvent,       \* a session with no request
    MaxAborts      \* bound on failed transactions, for model checking

ASSUME NoEventAssumption == NoEvent \notin Events
ASSUME MaxAbortsAssumption == MaxAborts \in Nat

VARIABLES
    pc,       \* where each session is in apply_order_event
    event,    \* the event it is applying
    seen,     \* what its snapshot holds of the event's order
    replay,   \* the rejected event its creation replays, if any
    version,  \* the data version its UPDATE produced
    aborts    \* failed transactions so far

vars == <<ledger, orders, dataVersion, pc, event, seen, replay, version, aborts>>

sessionVars == <<event, seen, replay, version>>

(* The statement each session executes next, or the answer it has to give. *)
Statements == {"insertLedger", "readOrder", "insertOrder", "bump",
               "commitApplied", "commitRejected"}
Answers    == {"processed", "rejected", "duplicate", "failed"}

Snapshot == [exists : BOOLEAN, rejected : SUBSET Events]

NoSnapshot == [exists |-> FALSE, rejected |-> {}]

TypeOK ==
    /\ LedgerTypeOK
    /\ pc \in [Sessions -> {"idle"} \cup Statements \cup Answers]
    /\ event \in [Sessions -> Events \cup {NoEvent}]
    /\ \A s \in Sessions : event[s] = NoEvent <=> pc[s] = "idle"
    /\ seen \in [Sessions -> Snapshot]
    /\ replay \in [Sessions -> SUBSET Events]
    /\ version \in [Sessions -> Nat]
    /\ aborts \in Nat

Init ==
    /\ LedgerInit
    /\ pc = [s \in Sessions |-> "idle"]
    /\ event = [s \in Sessions |-> NoEvent]
    /\ seen = [s \in Sessions |-> NoSnapshot]
    /\ replay = [s \in Sessions |-> {}]
    /\ version = [s \in Sessions |-> 0]
    /\ aborts = 0

-----------------------------------------------------------------------------
(* Locks follow from where the transactions are.                           *)

(* An uncommitted order_events row: the ledger INSERT of t succeeded.      *)
HoldsLedgerRow(t) ==
    pc[t] \in {"readOrder", "insertOrder", "bump", "commitApplied", "commitRejected"}

(* Faulty variant of EventIdLocked: no unique key on event_id.             *)
NoUniqueKey(s) == FALSE

EventIdLocked(s) ==
    \E t \in Sessions \ {s} : HoldsLedgerRow(t) /\ event[t].id = event[s].id

(* An exclusive lock on o's row: inserted by a creation, or read FOR       *)
(* UPDATE by a state event that found the row.                             *)
HoldsOrderRow(t, o) ==
    /\ event[t] # NoEvent /\ event[t].order = o
    /\ \/ pc[t] \in {"bump", "commitApplied"}
       \/ pc[t] = "commitRejected" /\ event[t].type # ORDER_CREATED /\ Exists(o)

(* FOR UPDATE on a missing order locks the gap: others may lock it too,    *)
(* but nobody can insert the order.                                        *)
HoldsOrderGap(t, o) ==
    /\ event[t] # NoEvent /\ event[t].order = o
    /\ pc[t] = "commitRejected" /\ event[t].type # ORDER_CREATED /\ ~Exists(o)

(* Faulty variant of OrderRowLocked and OrderGapLocked: SELECT without FOR *)
(* UPDATE.                                                                 *)
NoOrderLock(s, o) == FALSE

OrderRowLocked(s, o) == \E t \in Sessions \ {s} : HoldsOrderRow(t, o)

OrderGapLocked(s, o) == \E t \in Sessions \ {s} : HoldsOrderGap(t, o)

(* Faulty variant of DataStateLocked: the row is locked while a session    *)
(* only waits for it.                                                      *)
VersionLockedByWaiters(s) ==
    \E t \in Sessions \ {s} : pc[t] \in {"bump", "commitApplied"}

(* UPDATE data_state: its single row stays locked until the commit.        *)
DataStateLocked(s) == \E t \in Sessions \ {s} : pc[t] = "commitApplied"

-----------------------------------------------------------------------------

Goto(s, where) == pc' = [pc EXCEPT ![s] = where]

(* A request arrives: the transaction begins with SELECT ... WHERE         *)
(* event_id, which also takes the snapshot of everything it reads later.   *)
LookUpEvent(s, e) ==
    /\ pc[s] = "idle"
    /\ Goto(s, IF Recorded(e.id) THEN "duplicate" ELSE "insertLedger")
    /\ event' = [event EXCEPT ![s] = e]
    /\ seen' = [seen EXCEPT ![s] = [exists   |-> Exists(e.order),
                                    rejected |-> RejectedStateEvents(e.order)]]
    /\ UNCHANGED <<tables, replay, version, aborts>>

(* Faulty variant of InsertLedger: another session's uncommitted row is    *)
(* answered "duplicate" at once, as an in-process lock would.              *)
InsertLedgerWithoutWaiting(s) ==
    /\ pc[s] = "insertLedger"
    /\ Goto(s, IF EventIdLocked(s) \/ Recorded(event[s].id)
               THEN "duplicate" ELSE "readOrder")
    /\ UNCHANGED <<tables, sessionVars, aborts>>

(* INSERT in a savepoint.  It waits for another session's uncommitted row; *)
(* a committed one is an IntegrityError, answered "duplicate".             *)
InsertLedger(s) ==
    /\ pc[s] = "insertLedger"
    /\ ~EventIdLocked(s)
    /\ Goto(s, IF Recorded(event[s].id) THEN "duplicate" ELSE "readOrder")
    /\ UNCHANGED <<tables, sessionVars, aborts>>

(* A creation reads the order without a lock, from its snapshot.           *)
ReadOrder(s) ==
    /\ pc[s] = "readOrder"
    /\ event[s].type = ORDER_CREATED
    /\ Goto(s, IF seen[s].exists THEN "commitRejected" ELSE "insertOrder")
    /\ UNCHANGED <<tables, sessionVars, aborts>>

(* A state event reads it FOR UPDATE, and decides on the committed row.    *)
LockOrder(s) ==
    /\ pc[s] = "readOrder"
    /\ event[s].type \in StateEventTypes
    /\ ~OrderRowLocked(s, event[s].order)
    /\ Goto(s, IF Rejectable(event[s]) THEN "commitRejected" ELSE "bump")
    /\ UNCHANGED <<tables, sessionVars, aborts>>

(* _replay_rejected_state_events: of the rejected events in the snapshot   *)
(* above the new watermark the one with the lowest version; rows that tie  *)
(* are ordered by their row id, which is not modelled.                     *)
Replayed(e, rejected) ==
    LET above == {f \in rejected : f.version > e.version}
    IN  {{f} : f \in {g \in above : \A h \in above : g.version <= h.version}}

(* The creation's INSERT, flushed by the replay's SELECT.  It waits for    *)
(* row and gap locks; an order committed since the snapshot violates the   *)
(* unique key and rolls the whole transaction back (503).                  *)
InsertOrder(s) ==
    LET e     == event[s]
        found == Replayed(e, seen[s].rejected)
    IN  /\ pc[s] = "insertOrder"
        /\ ~OrderRowLocked(s, e.order)
        /\ ~OrderGapLocked(s, e.order)
        /\ IF Exists(e.order)
           THEN Goto(s, "failed") /\ UNCHANGED replay
           ELSE /\ Goto(s, "bump")
                /\ \E f \in IF found = {} THEN {{}} ELSE found :
                     replay' = [replay EXCEPT ![s] = f]
        /\ UNCHANGED <<tables, event, seen, version, aborts>>

(* UPDATE data_state SET data_version = data_version + 1 WHERE id = 1.     *)
BumpDataVersion(s) ==
    /\ pc[s] = "bump"
    /\ ~DataStateLocked(s)
    /\ version' = [version EXCEPT ![s] = dataVersion + 1]
    /\ Goto(s, "commitApplied")
    /\ UNCHANGED <<tables, event, seen, replay, aborts>>

(* The answer after a COMMIT; the timeout or the connection may still turn *)
(* it into an error, which undoes nothing.                                 *)
Answer(s, answer) == \E a \in {answer, "failed"} : Goto(s, a)

(* COMMIT of an applied event: ledger, order and version become visible.   *)
CommitApplied(s) ==
    LET e == event[s]
    IN  /\ pc[s] = "commitApplied"
        /\ ledger' = LedgerAfter(e, replay[s])
        /\ orders' = [orders EXCEPT ![e.order] =
                        IF e.type = ORDER_CREATED
                        THEN CreatedRow(e, replay[s])
                        ELSE Transition(orders[e.order], e)]
        /\ dataVersion' = version[s]
        /\ Answer(s, "processed")
        /\ UNCHANGED <<sessionVars, aborts>>

(* COMMIT of a rejected event: only its ledger row becomes visible.        *)
CommitRejected(s) ==
    /\ pc[s] = "commitRejected"
    /\ ledger' = ledger \cup {Row(event[s], REJECTED)}
    /\ Answer(s, "rejected")
    /\ UNCHANGED <<orders, dataVersion, sessionVars, aborts>>

(* The transaction ends without a trace: timeout, lock wait timeout, lost  *)
(* connection, crash.                                                      *)
Abort(s) ==
    /\ pc[s] \in Statements
    /\ aborts < MaxAborts
    /\ aborts' = aborts + 1
    /\ Goto(s, "failed")
    /\ UNCHANGED <<tables, sessionVars>>

(* The answer goes to the client, or is lost on the way; either way the    *)
(* session is free, and the client may send the event again.               *)
Respond(s) ==
    /\ pc[s] \in Answers
    /\ Goto(s, "idle")
    /\ event' = [event EXCEPT ![s] = NoEvent]
    /\ seen' = [seen EXCEPT ![s] = NoSnapshot]
    /\ replay' = [replay EXCEPT ![s] = {}]
    /\ version' = [version EXCEPT ![s] = 0]
    /\ UNCHANGED <<tables, aborts>>

Work(s) ==
    \/ InsertLedger(s)
    \/ ReadOrder(s)
    \/ LockOrder(s)
    \/ InsertOrder(s)
    \/ BumpDataVersion(s)
    \/ CommitApplied(s)
    \/ CommitRejected(s)
    \/ Respond(s)

Next ==
    \E s \in Sessions :
        \/ \E e \in Events : LookUpEvent(s, e)
        \/ Work(s)
        \/ Abort(s)

Spec == Init /\ [][Next]_vars

(* A transaction that can go on does (the event loop and InnoDB schedule   *)
(* every waiter); a producer sends its event until it is answered, and the *)
(* server takes up every request in the end although other requests may    *)
(* keep finding the sessions busy first (strong fairness).                 *)
FairSpec ==
    /\ Spec
    /\ \A s \in Sessions : WF_vars(Work(s))
    /\ \A e \in Events : SF_vars(\E s \in Sessions : LookUpEvent(s, e))

-----------------------------------------------------------------------------

(* An answer is never a promise the database did not keep: "processed" and *)
(* "rejected" name the committed row, and "duplicate" is only said of an   *)
(* event_id whose row is committed, never of one whose transaction may     *)
(* still roll back (_insert_ledger_or_duplicate).                          *)
AnswersAreDurable ==
    \A s \in Sessions :
        /\ pc[s] = "processed" => Row(event[s], PROCESSED) \in ledger
        /\ pc[s] = "rejected"  => Recorded(event[s].id)
        /\ pc[s] = "duplicate" => Recorded(event[s].id)

(* Every event a producer keeps sending ends up in the ledger: no lock     *)
(* cycle between ledger, order and data_state, no event refused for ever.  *)
EveryEventIsRecorded == \A e \in Events : <>Recorded(e.id)

(* "If a refund or cancellation arrives before the creation it is REJECTED *)
(* in the ledger; the creation replays it at once in the same transaction, *)
(* so that ledger and read model do not fork for ever"                     *)
(* (order_event_service.py:237-238): no ACTIVE order has a REJECTED state  *)
(* event above its watermark.                                              *)
NoStrandedStateEvent ==
    \A o \in Orders : \A f \in RejectedStateEvents(o) :
        orders[o].status = ACTIVE => f.version <= orders[o].version
=============================================================================
