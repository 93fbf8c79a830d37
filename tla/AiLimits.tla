------------------------------ MODULE AiLimits ------------------------------
(***************************************************************************)
(* The limits around calls of the model (services/ai_limits.py): a daily   *)
(* quota counted in the audit table, queries in flight per principal, and  *)
(* a semaphore of asyncio for all of them.  A released slot is handed to   *)
(* the first waiter, which takes it up later (granted); its wait may time  *)
(* out in between, and the slot goes on to the next one.                   *)
(***************************************************************************)
EXTENDS Naturals, Sequences, SequencesExt, FiniteSets

CONSTANTS
    Requests,
    Principals,
    PrincipalOf,      \* who sends each request
    MaxConcurrency,   \* ai_max_concurrency
    MaxInflight,      \* ai_max_inflight_per_user
    DailyLimit        \* ai_daily_request_limit

ASSUME PrincipalsAssumption ==
    IsFiniteSet(Requests) /\ PrincipalOf \in [Requests -> Principals]
ASSUME LimitsAssumption ==
    MaxConcurrency \in Nat \ {0} /\ MaxInflight \in Nat \ {0} /\ DailyLimit \in Nat

VARIABLES
    slot,       \* what each request has of the limits
    queue,      \* waiters of the semaphore
    free,       \* value of the semaphore
    inflight,   \* _user_inflight
    used        \* rows of today in ai_query_audit that are not denials

limitVars == <<slot, queue, free, inflight>>

LimitsTypeOK ==
    /\ slot \in [Requests -> {"out", "waiting", "granted", "held", "released"}]
    /\ queue \in Seq(Requests)
    /\ free \in 0..MaxConcurrency
    /\ inflight \in [Principals -> Nat]
    /\ used \in [Principals -> Nat]

LimitsInit ==
    /\ slot = [r \in Requests |-> "out"]
    /\ queue = <<>>
    /\ free = MaxConcurrency
    /\ inflight = [p \in Principals |-> 0]
    /\ used = [p \in Principals |-> 0]

(* A waiter that was granted a slot is still in the deque of the semaphore *)
(* until it runs, and makes newcomers wait.                                *)
Locked == free = 0 \/ queue # <<>> \/ \E r \in Requests : slot[r] = "granted"

(* _enter_inflight and the first step of semaphore.acquire.                *)
Enter(r) ==
    LET p == PrincipalOf[r]
    IN  /\ inflight[p] < MaxInflight
        /\ inflight' = [inflight EXCEPT ![p] = @ + 1]
        /\ IF Locked
           THEN /\ slot' = [slot EXCEPT ![r] = "waiting"]
                /\ queue' = Append(queue, r)
                /\ UNCHANGED free
           ELSE /\ slot' = [slot EXCEPT ![r] = "held"]
                /\ free' = free - 1
                /\ UNCHANGED queue

(* The first n waiters are granted a slot; own is what r has afterwards.   *)
Wake(r, own, waiters, n) ==
    LET woken == {waiters[i] : i \in 1..n}
    IN  /\ slot' = [q \in Requests |-> IF q = r THEN own
                                       ELSE IF q \in woken THEN "granted" ELSE slot[q]]
        /\ queue' = SubSeq(waiters, n + 1, Len(waiters))

Least(m, n) == IF m < n THEN m ELSE n

(* A waiter that leaves the semaphore wakes as many as there are slots.    *)
WakeAll(r, own, waiters, slots) ==
    /\ Wake(r, own, waiters, Least(slots, Len(waiters)))
    /\ free' = slots - Least(slots, Len(waiters))

TakeUp(r) ==
    /\ slot[r] = "granted"
    /\ WakeAll(r, "held", queue, free)
    /\ UNCHANGED inflight

Leave(r) == inflight' = [inflight EXCEPT ![PrincipalOf[r]] = IF @ <= 1 THEN 0 ELSE @ - 1]

(* AISlot.release: one slot more, for one waiter.                          *)
Release(r) ==
    LET n == Least(1, Len(queue))
    IN  /\ slot[r] = "held"
        /\ Wake(r, "released", queue, n)
        /\ free' = free + 1 - n
        /\ Leave(r)

(* The waiters without r (deque.remove).                                   *)
Others(r) ==
    IF \A i \in DOMAIN queue : queue[i] # r THEN queue
    ELSE RemoveAt(queue, CHOOSE i \in DOMAIN queue : queue[i] = r)

(* Faulty variant of QueueTimeout: a slot granted just now is lost.        *)
QueueTimeoutLosingGrant(r) ==
    /\ slot[r] \in {"waiting", "granted"}
    /\ WakeAll(r, "released", Others(r), free)
    /\ Leave(r)

(* Faulty variant of QueueTimeout: it gives back a slot it never had.      *)
QueueTimeoutAsRelease(r) ==
    /\ slot[r] \in {"waiting", "granted"}
    /\ WakeAll(r, "released", Others(r), free + 1)
    /\ Leave(r)

(* wait_for gives up; a slot granted just now goes back.                   *)
QueueTimeout(r) ==
    /\ slot[r] \in {"waiting", "granted"}
    /\ WakeAll(r, "released", Others(r),
               free + (IF slot[r] = "granted" THEN 1 ELSE 0))
    /\ Leave(r)

Has(r) == slot[r] \in {"granted", "held"}

(* No slot is lost or made, however requests end: what is not free belongs *)
(* to a request, and the count of a principal is the number of its         *)
(* requests that wait or run (ai_limits.py, AISlot).                       *)
SlotsAreConserved ==
    /\ free + Cardinality({r \in Requests : Has(r)}) = MaxConcurrency
    /\ \A p \in Principals :
         inflight[p] = Cardinality({r \in Requests :
                         PrincipalOf[r] = p /\ slot[r] \in {"waiting", "granted", "held"}})
=============================================================================
