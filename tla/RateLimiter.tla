----------------------------- MODULE RateLimiter -----------------------------
(***************************************************************************)
(* The counters of the process (utils/rate_limiter.py): sliding windows of *)
(* requests per bucket (an address and a path, or a principal and a group  *)
(* of paths) and failed logins per name typed and address, with their      *)
(* locks.  Each function holds _rate_lock: one step.  Time is counted in   *)
(* ticks.                                                                  *)
(***************************************************************************)
EXTENDS Naturals, Sequences, FiniteSets

CONSTANTS
    Buckets,         \* keys of _rate_store
    LimitOf,         \* requests per window, by bucket
    WindowOf,        \* length of the window, by bucket
    Keys,            \* keys of _login_failures and _login_locks
    FailureLimit,    \* LOGIN_FAILURE_LIMIT
    FailureWindow,   \* LOGIN_FAILURE_WINDOW
    LockSeconds,     \* LOGIN_LOCK_SECONDS
    MaxStore,        \* _MAX_STORE_SIZE
    MaxNow           \* bound on time

ASSUME RatesAssumption ==
    /\ LimitOf \in [Buckets -> Nat \ {0}] /\ WindowOf \in [Buckets -> Nat \ {0}]
    /\ MaxStore \in Nat /\ MaxNow \in Nat \ {0}
ASSUME LocksAssumption ==
    /\ FailureLimit \in Nat \ {0} /\ FailureWindow \in Nat \ {0} /\ LockSeconds \in Nat
    /\ FailureWindow <= LockSeconds

VARIABLES
    now,
    rates,      \* times of the requests in each bucket
    failures,   \* times of the failed logins of each key
    locks       \* until when each key is locked; 0 without a lock

rateVars == <<now, rates, failures, locks>>

InOrder(times) == \A i, j \in DOMAIN times : i <= j => times[i] <= times[j]

RatesTypeOK ==
    /\ now \in 1..MaxNow
    /\ rates \in [Buckets -> Seq(1..now)]
    /\ failures \in [Keys -> Seq(1..now)]
    /\ \A k \in Keys : InOrder(failures[k])
    /\ locks \in [Keys -> 0..(MaxNow + LockSeconds)]
    /\ \A k \in Keys : Len(failures[k]) < FailureLimit

RatesInit ==
    /\ rates = [b \in Buckets |-> <<>>]
    /\ failures = [k \in Keys |-> <<>>]
    /\ locks = [k \in Keys |-> 0]

(* All of it is memory of the process: the next one starts without.        *)
RatesForgotten ==
    /\ rates' = [b \in Buckets |-> <<>>]
    /\ failures' = [k \in Keys |-> <<>>]
    /\ locks' = [k \in Keys |-> 0]
    /\ UNCHANGED now

(* Times are appended in order, so the recent ones are the last.           *)
Recent(times, window) ==
    LET old == {i \in DOMAIN times : now - times[i] >= window}
    IN  SubSeq(times, Cardinality(old) + 1, Len(times))

RateAllows(b) == Len(Recent(rates[b], WindowOf[b])) < LimitOf[b]

(* check_rate_limit and check_principal_rate_limit: a refused request is   *)
(* not counted.                                                            *)
CountRequest(b) ==
    rates' = [rates EXCEPT ![b] =
                LET recent == Recent(@, WindowOf[b])
                IN  IF RateAllows(b) THEN Append(recent, now) ELSE recent]

Locked(k) == locks[k] > now

(* check_login_lock drops a lock whose time is over.                       *)
CheckLoginLock(k) == locks' = IF Locked(k) THEN locks ELSE [locks EXCEPT ![k] = 0]

(* Faulty variant of RecordLoginFailure: more than the limit, not as many. *)
RecordLoginFailureLate(k) ==
    LET attempts == Append(Recent(failures[k], FailureWindow), now)
    IN  IF Len(attempts) > FailureLimit
        THEN /\ locks' = [locks EXCEPT ![k] = now + LockSeconds]
             /\ failures' = [failures EXCEPT ![k] = <<>>]
        ELSE /\ failures' = [failures EXCEPT ![k] = attempts]
             /\ UNCHANGED locks

RecordLoginFailure(k) ==
    LET attempts == Append(Recent(failures[k], FailureWindow), now)
    IN  IF Len(attempts) >= FailureLimit
        THEN /\ locks' = [locks EXCEPT ![k] = now + LockSeconds]
             /\ failures' = [failures EXCEPT ![k] = <<>>]
        ELSE /\ failures' = [failures EXCEPT ![k] = attempts]
             /\ UNCHANGED locks

ClearLoginFailures(k) ==
    /\ failures' = [failures EXCEPT ![k] = <<>>]
    /\ locks' = [locks EXCEPT ![k] = 0]

(* Of more than MaxStore keys those of highest rank are kept.              *)
Kept(rank) ==
    {kept \in SUBSET DOMAIN rank :
        /\ Cardinality(kept) =
             IF Cardinality(DOMAIN rank) > MaxStore THEN MaxStore ELSE Cardinality(DOMAIN rank)
        /\ \A k \in kept, g \in DOMAIN rank \ kept : rank[g] <= rank[k]}

LongestWindow == CHOOSE w \in {WindowOf[b] : b \in Buckets} : \A b \in Buckets : WindowOf[b] <= w

(* _periodic_cleanup, in its thread: the requests of the buckets with the  *)
(* most of them, the keys with the latest failures.                        *)
Cleanup ==
    LET young   == [b \in Buckets |-> Recent(rates[b], LongestWindow)]
        recent  == [k \in Keys |-> Recent(failures[k], FailureWindow)]
        asked   == {b \in Buckets : young[b] # <<>>}
        failing == {k \in Keys : recent[k] # <<>>}
    IN  \E inUse \in Kept([b \in asked |-> Len(young[b])]),
           counted \in Kept([k \in failing |-> recent[k][Len(recent[k])]]) :
            /\ rates' = [b \in Buckets |-> IF b \in inUse THEN young[b] ELSE <<>>]
            /\ failures' = [k \in Keys |-> IF k \in counted THEN recent[k] ELSE <<>>]
            /\ locks' = [k \in Keys |-> IF Locked(k) THEN locks[k] ELSE 0]
            /\ UNCHANGED now

(* Keys that a cleanup drops for want of room.                             *)
Dropped == {k \in Keys : Recent(failures[k], FailureWindow) # <<>> /\ failures'[k] = <<>>}

Tick == now < MaxNow /\ now' = now + 1 /\ UNCHANGED <<rates, failures, locks>>
=============================================================================
