--------------------------- MODULE AnalyticsCache ---------------------------
(***************************************************************************)
(* Cached reads of the dashboard: the @cached decorator with versioned     *)
(* keys and one rebuilder per key (backend/utils/cache.py) and, below the  *)
(* RFM functions, the snapshot cache they share (services/rfm_service.py). *)
(*                                                                         *)
(* A request is a coroutine: what it does between two awaits is one step,  *)
(* and so are an answer of Redis or MySQL and what the request makes of it.*)
(* The content of the orders table is named by the data version it was     *)
(* committed with (OrderLedger's VersionMovesWithOrders), and a cached     *)
(* value by the content it was computed from.                              *)
(***************************************************************************)
EXTENDS Naturals, FiniteSets

CONSTANTS
    Requests,
    Functions,      \* cached functions, with their arguments
    RfmFunctions,   \* those that read the shared snapshot
    Locks,          \* identities of lock objects
    MaxVersion,     \* bound on the data version
    MaxFaults       \* bound on outages of Redis, failed reads and exceptions

ASSUME FunctionsAssumption == Functions # {} /\ RfmFunctions \subseteq Functions
ASSUME LocksAssumption == Locks \subseteq Nat \ {0} /\ Locks # {}
ASSUME BoundsAssumption == MaxVersion \in Nat \ {0} /\ MaxFaults \in Nat

(* The version in a key when data_state could not be read.                 *)
Unversioned == 0

Versions == 1..MaxVersion

Keys == Functions \X (Versions \cup {Unversioned})

(* No cached value, no lock object, no session snapshot yet.               *)
None   == 0
NoLock == 0

VARIABLES
    version,        \* committed data_state.data_version
    redis,          \* "up", "down", or "off": not configured
    faults,
    remote,         \* values in Redis, by key
    memory,         \* _memory_cache
    cacheLocks,     \* _cache_locks
    snapshots,      \* _snapshot_cache, by version (one reference date)
    snapshotLocks,  \* _snapshot_locks
    req             \* the requests

caches == <<remote, memory, cacheLocks, snapshots, snapshotLocks>>

vars == <<version, redis, faults, caches, req>>

(* asked: the version the wrapper read, kept for the properties; seen: the *)
(* snapshot of the session; inner: the version in the key of the RFM       *)
(* snapshot.                                                               *)
Idle == [pc |-> "idle", fn |-> CHOOSE f \in Functions : TRUE, asked |-> None,
         key |-> Unversioned, seen |-> None, lock |-> NoLock, inner |-> Unversioned,
         innerLock |-> NoLock, value |-> None]

Request == [pc : {"idle", "get", "wait", "contains", "getAgain", "compute", "snapshot",
                  "waitSnapshot", "build", "set", "answer"},
            fn : Functions, asked : Versions \cup {None},
            key : Versions \cup {Unversioned}, seen : Versions \cup {None}, lock : Locks \cup {NoLock},
            inner : Versions \cup {Unversioned}, innerLock : Locks \cup {NoLock},
            value : Versions \cup {None}]

TypeOK ==
    /\ version \in Versions
    /\ redis \in {"up", "down", "off"}
    /\ faults \in 0..MaxFaults
    /\ remote \in [Keys -> Versions \cup {None}]
    /\ memory \in [Keys -> Versions \cup {None}]
    /\ cacheLocks \in [Keys -> Locks \cup {NoLock}]
    /\ snapshots \in [Versions \cup {Unversioned} -> Versions \cup {None}]
    /\ snapshotLocks \in [Versions \cup {Unversioned} -> Locks \cup {NoLock}]
    /\ req \in [Requests -> Request]

Init ==
    /\ version = 1
    /\ redis \in {"up", "off"}
    /\ faults = 0
    /\ remote = [k \in Keys |-> None]
    /\ memory = [k \in Keys |-> None]
    /\ cacheLocks = [k \in Keys |-> NoLock]
    /\ snapshots = [v \in Versions \cup {Unversioned} |-> None]
    /\ snapshotLocks = [v \in Versions \cup {Unversioned} |-> NoLock]
    /\ req = [c \in Requests |-> Idle]

-----------------------------------------------------------------------------
(* Lock objects count their users: from the moment a request takes one out *)
(* of the dictionary until it leaves, waiting or not (_RefLock.refs).      *)

Key(c) == <<req[c].fn, req[c].key>>

Users(k) == {c \in Requests : Key(c) = k /\ req[c].lock # NoLock}

Holds(c) == req[c].pc \in {"contains", "getAgain", "compute", "snapshot", "waitSnapshot",
                          "build", "set"}

InnerUsers(v) == {c \in Requests : req[c].inner = v /\ req[c].innerLock # NoLock}

InnerHolds(c) == req[c].pc = "build"

(* The lock in the dictionary, or a new object nobody uses.                *)
LockFor(lock, users) ==
    IF lock # NoLock THEN lock ELSE CHOOSE l \in Locks : l \notin users

(* Faulty variant of IdleLocks: a lock that nobody holds is idle, although *)
(* requests still wait for it.                                             *)
LocksNotHeld ==
    {k \in Keys : memory[k] = None /\ ~\E c \in Users(k) : Holds(c)}

(* Locks cleanup_memory_cache may drop.                                    *)
IdleLocks == {k \in Keys : memory[k] = None /\ Users(k) = {}}

(* Faulty variant of IdleSnapshotLocks: clearing drops every lock.         *)
AllSnapshotLocks == Versions \cup {Unversioned}

(* _reclaim_idle_snapshot_locks.                                           *)
IdleSnapshotLocks ==
    {v \in Versions \cup {Unversioned} : snapshots'[v] = None /\ InnerUsers(v) = {}}

Reclaimed ==
    [v \in DOMAIN snapshotLocks |->
        IF v \in IdleSnapshotLocks THEN NoLock ELSE snapshotLocks[v]]

(* What the session of c reads of orders: REPEATABLE READ fixes it with    *)
(* the first successful SELECT.                                            *)
Content(c) == IF req[c].seen = None THEN version ELSE req[c].seen

(* get(): Redis while it answers, the memory of the process otherwise.     *)
Cached(k) == IF redis = "up" THEN remote[k] ELSE memory[k]

(* _cache_contains: an error of Redis counts as absent.                    *)
Contains(k) == redis # "down" /\ Cached(k) # None

Fault == faults < MaxFaults /\ faults' = faults + 1

(* A read of data_state that succeeds or fails.                            *)
Reads(read) == IF read THEN UNCHANGED faults ELSE Fault

Goto(c, pc) == req' = [req EXCEPT ![c].pc = pc]

Answer(c, value) ==
    req' = [req EXCEPT ![c] = [Idle EXCEPT !.pc = "answer", !.fn = req[c].fn,
                                           !.asked = req[c].asked,
                                           !.key = req[c].key, !.value = value]]

(* The function has its result; the session is not used again.             *)
Return(c, value) ==
    req' = [req EXCEPT ![c] = [@ EXCEPT !.pc = "set", !.value = value, !.seen = None,
                                        !.inner = Unversioned, !.innerLock = NoLock]]

-----------------------------------------------------------------------------

(* Faulty variant of KeyVersion: no version in the key.                    *)
NoKeyVersion(read) == Unversioned

KeyVersion(read) == IF read THEN version ELSE Unversioned

(* The wrapper reads the version in the session the query will use; if     *)
(* that fails it goes on without one.                                      *)
Arrive(c, f) ==
    /\ req[c].pc = "idle"
    /\ \E read \in BOOLEAN :
         /\ Reads(read)
         /\ req' = [req EXCEPT ![c] = [Idle EXCEPT
                    !.pc = "get", !.fn = f, !.key = KeyVersion(read),
                    !.asked = IF read THEN version ELSE None,
                    !.seen = IF read THEN version ELSE None]]
    /\ UNCHANGED <<version, redis, caches>>

(* A hit answers; a miss takes the lock of the key, and counts as a user.  *)
Get(c) ==
    LET k == Key(c)
        l == LockFor(cacheLocks[k], {req[d].lock : d \in Users(k)})
    IN  /\ req[c].pc = "get"
        /\ \/ Cached(k) # None /\ Answer(c, Cached(k)) /\ UNCHANGED cacheLocks
           \/ /\ Cached(k) = None
              /\ cacheLocks' = [cacheLocks EXCEPT ![k] = l]
              /\ req' = [req EXCEPT ![c].pc = "wait", ![c].lock = l]
        /\ UNCHANGED <<version, redis, faults, remote, memory, snapshots, snapshotLocks>>

Acquire(c) ==
    /\ req[c].pc = "wait"
    /\ \A d \in Users(Key(c)) : Holds(d) => req[d].lock # req[c].lock
    /\ Goto(c, "contains")
    /\ UNCHANGED <<version, redis, faults, caches>>

(* The second look, under the lock.                                        *)
CheckAgain(c) ==
    /\ req[c].pc = "contains"
    /\ Goto(c, IF Contains(Key(c)) THEN "getAgain"
               ELSE IF req[c].fn \in RfmFunctions THEN "snapshot" ELSE "compute")
    /\ UNCHANGED <<version, redis, faults, caches>>

(* The entry found a moment ago may be gone: then the answer is None.      *)
GetAgain(c) ==
    /\ req[c].pc = "getAgain"
    /\ Answer(c, Cached(Key(c)))
    /\ UNCHANGED <<version, redis, faults, caches>>

Compute(c) ==
    /\ req[c].pc = "compute"
    /\ Return(c, Content(c))
    /\ UNCHANGED <<version, redis, faults, caches>>

(* Faulty variant of InnerVersion: the version of another session.         *)
LatestVersion(c, read) == IF read THEN version ELSE Unversioned

InnerVersion(c, read) == IF read THEN Content(c) ELSE Unversioned

(* _get_rfm_snapshot reads the version once more, in the same session.     *)
LookUpSnapshot(c) ==
    /\ req[c].pc = "snapshot"
    /\ \E read \in BOOLEAN :
         LET v    == InnerVersion(c, read)
             l    == LockFor(snapshotLocks[v], {req[d].innerLock : d \in InnerUsers(v)})
             seen == IF read THEN Content(c) ELSE req[c].seen
         IN  /\ Reads(read)
             /\ IF snapshots[v] # None
                THEN Return(c, snapshots[v]) /\ UNCHANGED snapshotLocks
                ELSE /\ req' = [req EXCEPT ![c].pc = "waitSnapshot", ![c].inner = v,
                                           ![c].seen = seen, ![c].innerLock = l]
                     /\ snapshotLocks' = [snapshotLocks EXCEPT ![v] = l]
    /\ UNCHANGED <<version, redis, remote, memory, cacheLocks, snapshots>>

(* Faulty variant of WithoutLockOf: nobody drops it.                       *)
AllLocksWithLockOf(c, locks) == locks

(* The last user of a snapshot lock drops it, if it is still the one in    *)
(* the dictionary.                                                         *)
WithoutLockOf(c, locks) ==
    LET v == req[c].inner
    IN  IF (\A d \in InnerUsers(v) \ {c} : req[d].innerLock # req[c].innerLock)
           /\ locks[v] = req[c].innerLock
        THEN [locks EXCEPT ![v] = NoLock] ELSE locks

AcquireSnapshot(c) ==
    LET v == req[c].inner
    IN  /\ req[c].pc = "waitSnapshot"
        /\ \A d \in InnerUsers(v) : InnerHolds(d) => req[d].innerLock # req[c].innerLock
        /\ IF snapshots[v] = None
           THEN Goto(c, "build") /\ UNCHANGED snapshotLocks
           ELSE /\ Return(c, snapshots[v])
                /\ snapshotLocks' = WithoutLockOf(c, snapshotLocks)
        /\ UNCHANGED <<version, redis, faults, remote, memory, cacheLocks, snapshots>>

BuildSnapshot(c) ==
    LET v == req[c].inner
    IN  /\ req[c].pc = "build"
        /\ snapshots' = [snapshots EXCEPT ![v] = Content(c)]
        /\ Return(c, Content(c))
        /\ snapshotLocks' = WithoutLockOf(c, Reclaimed)
        /\ UNCHANGED <<version, redis, faults, remote, memory, cacheLocks>>

(* The function raises: nothing is cached, the locks are left.             *)
Fail(c) ==
    /\ req[c].pc \in {"compute", "build"}
    /\ Fault
    /\ Answer(c, None)
    /\ snapshotLocks' = IF req[c].pc = "build" THEN WithoutLockOf(c, snapshotLocks)
                        ELSE snapshotLocks
    /\ UNCHANGED <<version, redis, remote, memory, cacheLocks, snapshots>>

(* set() and the tags; the lock is left.                                   *)
Set(c) ==
    LET k == Key(c)
    IN  /\ req[c].pc = "set"
        /\ IF redis = "up"
           THEN remote' = [remote EXCEPT ![k] = req[c].value] /\ UNCHANGED memory
           ELSE memory' = [memory EXCEPT ![k] = req[c].value] /\ UNCHANGED remote
        /\ Answer(c, req[c].value)
        /\ UNCHANGED <<version, redis, faults, cacheLocks, snapshots, snapshotLocks>>

-----------------------------------------------------------------------------

(* An event or an import commits.                                          *)
Commit ==
    /\ version < MaxVersion
    /\ version' = version + 1
    /\ UNCHANGED <<redis, faults, caches, req>>

(* clear_rfm_snapshot_cache after a commit.                                *)
ClearSnapshots ==
    /\ version > 1
    /\ snapshots' = [v \in DOMAIN snapshots |-> None]
    /\ snapshotLocks' = Reclaimed
    /\ UNCHANGED <<version, redis, faults, remote, memory, cacheLocks, req>>

(* An entry goes: its time to live ends, a full cache drops it, or tags    *)
(* are invalidated; a lock nobody uses goes with an entry in memory.       *)
Evict ==
    /\ \/ \E k \in Keys : /\ remote[k] # None
                          /\ remote' = [remote EXCEPT ![k] = None]
                          /\ UNCHANGED <<memory, cacheLocks, snapshots>>
       \/ \E k \in Keys : /\ memory[k] # None
                          /\ memory' = [memory EXCEPT ![k] = None]
                          /\ cacheLocks' = [cacheLocks EXCEPT
                                              ![k] = IF Users(k) = {} THEN NoLock ELSE @]
                          /\ UNCHANGED <<remote, snapshots>>
       \/ \E v \in DOMAIN snapshots : /\ snapshots[v] # None
                                      /\ snapshots' = [snapshots EXCEPT ![v] = None]
                                      /\ UNCHANGED <<remote, memory, cacheLocks>>
    /\ UNCHANGED <<version, redis, faults, snapshotLocks, req>>

(* cleanup_memory_cache, a periodic task.                                  *)
Cleanup ==
    /\ cacheLocks' = [k \in Keys |-> IF k \in IdleLocks THEN NoLock ELSE cacheLocks[k]]
    /\ UNCHANGED <<version, redis, faults, remote, memory, snapshots, snapshotLocks, req>>

RedisFails ==
    /\ redis = "up"
    /\ redis' = "down"
    /\ Fault
    /\ UNCHANGED <<version, caches, req>>

RedisReturns ==
    /\ redis = "down"
    /\ redis' = "up"
    /\ UNCHANGED <<version, faults, caches, req>>

Work(c) ==
    \/ Get(c)
    \/ Acquire(c)
    \/ CheckAgain(c)
    \/ GetAgain(c)
    \/ Compute(c)
    \/ LookUpSnapshot(c)
    \/ AcquireSnapshot(c)
    \/ BuildSnapshot(c)
    \/ Fail(c)
    \/ Set(c)

Next ==
    \/ \E c \in Requests : (\E f \in Functions : Arrive(c, f)) \/ Work(c)
    \/ Commit
    \/ ClearSnapshots
    \/ Evict
    \/ Cleanup
    \/ RedisFails
    \/ RedisReturns

Spec == Init /\ [][Next]_vars

-----------------------------------------------------------------------------

(* "One lock per key, only one rebuilder" (RESILIENCE.md:8), for cached    *)
(* functions and for the snapshot below them, whatever is cleaned up or    *)
(* invalidated while requests wait.                                        *)
OneRebuilder ==
    \A c, d \in Requests : c # d =>
        /\ Holds(c) /\ Holds(d) => Key(c) # Key(d)
        /\ InnerHolds(c) /\ InnerHolds(d) => req[c].inner # req[d].inner

(* A snapshot stored under a version is the content of that version, so is *)
(* what functions without a snapshot below them cache.                     *)
VersionedEntriesHold ==
    /\ \A v \in Versions : snapshots[v] \in {None, v}
    /\ \A f \in Functions \ RfmFunctions, v \in Versions :
         remote[<<f, v>>] \in {None, v} /\ memory[<<f, v>>] \in {None, v}

(* A request whose session read version v is answered with the content of  *)
(* v, not with what was cached before a commit; no invalidation is needed. *)
AnswersAreFresh ==
    \A c \in Requests :
        req[c].pc = "answer" /\ req[c].asked # None /\ req[c].fn \notin RfmFunctions
            => req[c].value \in {None, req[c].asked}

(* The dictionary of snapshot locks has only locks in use: it cannot grow  *)
(* with the reference dates asked for (_SnapshotLock's docstring).         *)
SnapshotLocksAreInUse ==
    \A v \in DOMAIN snapshotLocks : snapshotLocks[v] # NoLock => InnerUsers(v) # {}
=============================================================================
