------------------------ MODULE AnalyticsCacheProofs ------------------------
(* Proofs about AnalyticsCache.  The inductive invariant relates each lock *)
(* dictionary to its users: whoever has taken a lock out finds it in the   *)
(* dictionary until it leaves, so a new object is made only when there is  *)
(* no user.                                                                *)
EXTENDS AnalyticsCache, TLAPS

Holding == {"contains", "getAgain", "compute", "snapshot", "waitSnapshot", "build", "set"}

(* A request that waits for or holds the lock of its key has the one in    *)
(* the dictionary.                                                         *)
LockOK(c) ==
    /\ req[c].pc \in {"wait"} \cup Holding <=> req[c].lock # NoLock
    /\ req[c].lock # NoLock => cacheLocks[Key(c)] = req[c].lock

SnapshotLockOK(c) ==
    /\ req[c].pc \in {"waitSnapshot", "build"} <=> req[c].innerLock # NoLock
    /\ req[c].innerLock # NoLock => snapshotLocks[req[c].inner] = req[c].innerLock

Locking ==
    /\ \A c \in Requests : LockOK(c) /\ SnapshotLockOK(c)
    /\ OneRebuilder
    /\ SnapshotLocksAreInUse

(* The version in a key is the snapshot of the session that reads; what is *)
(* on its way into the cache is the content of that version.               *)
VersionOK(c) ==
    /\ IF req[c].asked = None THEN req[c].key = Unversioned
                              ELSE req[c].key = req[c].asked
    /\ req[c].pc \notin {"idle", "set", "answer"} /\ req[c].key # Unversioned
         => req[c].seen = req[c].key
    /\ req[c].innerLock # NoLock /\ req[c].inner # Unversioned
         => req[c].seen = req[c].inner
    /\ req[c].pc = "compute" => req[c].fn \notin RfmFunctions
    /\ req[c].pc \in {"snapshot", "waitSnapshot", "build"} => req[c].fn \in RfmFunctions
    /\ req[c].pc \in {"set", "answer"} /\ req[c].key # Unversioned
         /\ req[c].fn \notin RfmFunctions
         => req[c].value \in {None, req[c].key}

Versioning ==
    /\ \A c \in Requests : VersionOK(c)
    /\ VersionedEntriesHold

IInv == TypeOK /\ Locking /\ Versioning

-----------------------------------------------------------------------------

USE DEF Unversioned, None, NoLock

LEMMA IdleType == Idle \in Request
  BY FunctionsAssumption DEF Idle, Request

(* The lock a request takes is a lock: a new one is made for no user.      *)
LEMMA LockForType ==
  ASSUME IInv
  PROVE  /\ \A k \in Keys : LockFor(cacheLocks[k], {req[d].lock : d \in Users(k)}) \in Locks
         /\ \A v \in Versions \cup {Unversioned} :
              LockFor(snapshotLocks[v], {req[d].innerLock : d \in InnerUsers(v)}) \in Locks
<1>1. ASSUME NEW lock \in Locks \cup {NoLock}, NEW users, lock = NoLock => users = {}
      PROVE  LockFor(lock, users) \in Locks
  BY <1>1, LocksAssumption DEF LockFor
<1>2. ASSUME NEW k \in Keys
      PROVE  LockFor(cacheLocks[k], {req[d].lock : d \in Users(k)}) \in Locks
  <2>1. cacheLocks[k] = NoLock => Users(k) = {}
    BY DEF IInv, Locking, LockOK, Users, TypeOK
  <2> QED  BY <2>1, <1>1 DEF IInv, TypeOK
<1>3. ASSUME NEW v \in Versions \cup {Unversioned}
      PROVE  LockFor(snapshotLocks[v], {req[d].innerLock : d \in InnerUsers(v)}) \in Locks
  <2>1. snapshotLocks[v] = NoLock => InnerUsers(v) = {}
    BY DEF IInv, Locking, SnapshotLockOK, InnerUsers, TypeOK
  <2> QED  BY <2>1, <1>1 DEF IInv, TypeOK
<1> QED  BY <1>2, <1>3

LEMMA TypeStep ==
  ASSUME IInv, [Next]_vars
  PROVE  TypeOK'
<1> USE DEF TypeOK, IInv
<1>1. ASSUME NEW c \in Requests, NEW f \in Functions, Arrive(c, f) PROVE TypeOK'
  <2>1. PICK read \in BOOLEAN : Arrive(c, f)!2!(read)
    BY <1>1 DEF Arrive
  <2>2. faults' \in 0..MaxFaults
    BY <2>1, BoundsAssumption DEF Reads, Fault
  <2> DEFINE r == [Idle EXCEPT !.pc = "get", !.fn = f, !.key = KeyVersion(read),
                              !.asked = IF read THEN version ELSE None,
                              !.seen = IF read THEN version ELSE None]
  <2>3. KeyVersion(read) \in Versions \cup {Unversioned}
    BY DEF KeyVersion
  <2>4. r \in Request
    BY <2>3, IdleType DEF Request
  <2> HIDE DEF r
  <2>5. req' = [req EXCEPT ![c] = r]
    BY <2>1 DEF r
  <2> QED  BY <1>1, <2>2, <2>4, <2>5 DEF Arrive, caches
<1>2. ASSUME NEW c \in Requests PROVE Key(c) \in Keys /\ Cached(Key(c)) \in Versions \cup {None}
  BY DEF Key, Keys, Request, Cached
<1>3. ASSUME NEW c \in Requests, NEW value \in Versions \cup {None}, Answer(c, value)
      PROVE  req' \in [Requests -> Request]
  BY <1>3, IdleType DEF Answer, Request
<1>4. ASSUME NEW c \in Requests, NEW value \in Versions \cup {None}, Return(c, value)
      PROVE  req' \in [Requests -> Request]
  <2> DEFINE r == [req[c] EXCEPT !.pc = "set", !.value = value, !.seen = None,
                                 !.inner = Unversioned, !.innerLock = NoLock]
  <2>1. req[c] \in Request
    OBVIOUS
  <2>2. r \in Request
    BY <2>1 DEF Request
  <2> HIDE DEF r
  <2>3. req' = [req EXCEPT ![c] = r]
    BY <1>4 DEF Return, r
  <2> QED  BY <2>2, <2>3
<1>5. ASSUME NEW c \in Requests, Get(c) PROVE TypeOK'
  BY <1>5, <1>2, <1>3, LockForType DEF Get, Request
<1>6. ASSUME NEW c \in Requests, Acquire(c) PROVE TypeOK'
  BY <1>6 DEF Acquire, Goto, Request, caches
<1>7. ASSUME NEW c \in Requests, CheckAgain(c) PROVE TypeOK'
  BY <1>7 DEF CheckAgain, Goto, Request, caches
<1>8. ASSUME NEW c \in Requests, GetAgain(c) PROVE TypeOK'
  BY <1>8, <1>2, <1>3 DEF GetAgain, caches
<1>9. ASSUME NEW c \in Requests PROVE Content(c) \in Versions
  BY DEF Content, Request
<1>10. ASSUME NEW c \in Requests, Compute(c) PROVE TypeOK'
  BY <1>10, <1>4, <1>9 DEF Compute, caches
<1>11. ASSUME NEW c \in Requests, LookUpSnapshot(c) PROVE TypeOK'
  <2>1. PICK read \in BOOLEAN :
          LookUpSnapshot(c)!2!(read)
    BY <1>11 DEF LookUpSnapshot
  <2> DEFINE v == InnerVersion(c, read)
             l == LockFor(snapshotLocks[v], {req[d].innerLock : d \in InnerUsers(v)})
  <2>2. v \in Versions \cup {Unversioned} /\ l \in Locks
    BY <1>9, LockForType DEF InnerVersion
  <2>3. faults' \in 0..MaxFaults
    BY <2>1, BoundsAssumption DEF Reads, Fault
  <2>4. CASE snapshots[v] # None
    BY <2>1, <2>2, <2>3, <2>4, <1>4, <1>11 DEF LookUpSnapshot
  <2>5. CASE snapshots[v] = None
    BY <2>1, <2>2, <2>3, <2>5, <1>9, <1>11 DEF LookUpSnapshot, Request
  <2> QED  BY <2>4, <2>5
<1>12. ASSUME NEW c \in Requests,
              NEW locks \in [Versions \cup {Unversioned} -> Locks \cup {NoLock}]
       PROVE  WithoutLockOf(c, locks) \in [Versions \cup {Unversioned} -> Locks \cup {NoLock}]
  BY DEF WithoutLockOf
<1>13. Reclaimed \in [Versions \cup {Unversioned} -> Locks \cup {NoLock}]
  BY DEF Reclaimed
<1>14. ASSUME NEW c \in Requests, AcquireSnapshot(c) PROVE TypeOK'
  <2>1. req[c].inner \in Versions \cup {Unversioned}
    BY DEF Request
  <2>2. CASE snapshots[req[c].inner] = None
    BY <1>14, <2>2 DEF AcquireSnapshot, Goto, Request
  <2>3. CASE snapshots[req[c].inner] # None
    BY <1>14, <1>4, <1>12, <2>1, <2>3 DEF AcquireSnapshot
  <2> QED  BY <2>2, <2>3
<1>15. ASSUME NEW c \in Requests, BuildSnapshot(c) PROVE TypeOK'
  <2>1. snapshots' \in [Versions \cup {Unversioned} -> Versions \cup {None}]
    BY <1>15, <1>9 DEF BuildSnapshot
  <2>2. snapshotLocks' \in [Versions \cup {Unversioned} -> Locks \cup {NoLock}]
    BY <1>15, <1>12, <1>13 DEF BuildSnapshot
  <2>3. req' \in [Requests -> Request]
    BY <1>15, <1>4, <1>9 DEF BuildSnapshot
  <2> QED  BY <1>15, <2>1, <2>2, <2>3 DEF BuildSnapshot
<1>16. ASSUME NEW c \in Requests, Fail(c) PROVE TypeOK'
  <2>1. faults' \in 0..MaxFaults
    BY <1>16, BoundsAssumption DEF Fail, Fault
  <2>2. req' \in [Requests -> Request]
    BY <1>16, <1>3 DEF Fail
  <2>3. snapshotLocks' \in [Versions \cup {Unversioned} -> Locks \cup {NoLock}]
    BY <1>16, <1>12 DEF Fail
  <2> QED  BY <1>16, <2>1, <2>2, <2>3 DEF Fail
<1>17. ASSUME NEW c \in Requests, Set(c) PROVE TypeOK'
  BY <1>17, <1>2, <1>3 DEF Set, Request
<1>18. CASE Commit
  BY <1>18, BoundsAssumption DEF Commit, caches, Versions
<1>19. CASE ClearSnapshots
  BY <1>19, <1>13 DEF ClearSnapshots
<1>20. CASE Evict
  BY <1>20 DEF Evict
<1>21. CASE Cleanup
  BY <1>21 DEF Cleanup
<1>22. CASE RedisFails \/ RedisReturns
  BY <1>22, BoundsAssumption DEF RedisFails, RedisReturns, Fault, caches
<1>23. CASE UNCHANGED vars
  BY <1>23 DEF vars, caches
<1> QED
  BY <1>1, <1>5, <1>6, <1>7, <1>8, <1>10, <1>11, <1>14, <1>15, <1>16, <1>17, <1>18, <1>19,
     <1>20, <1>21, <1>22, <1>23 DEF Next, Work

-----------------------------------------------------------------------------
(* What the helpers of the actions do to the requests.                     *)

Others(c) == \A d \in Requests \ {c} : req'[d] = req[d]

LEMMA AnswerEffect ==
  ASSUME TypeOK, NEW c \in Requests, NEW value, Answer(c, value)
  PROVE  /\ Others(c)
         /\ req'[c].pc = "answer" /\ req'[c].fn = req[c].fn /\ req'[c].key = req[c].key
         /\ req'[c].asked = req[c].asked /\ req'[c].value = value
         /\ req'[c].lock = NoLock /\ req'[c].innerLock = NoLock
  BY DEF TypeOK, Answer, Idle, Others

LEMMA ReturnEffect ==
  ASSUME TypeOK, NEW c \in Requests, NEW value, Return(c, value)
  PROVE  /\ Others(c)
         /\ req'[c].pc = "set" /\ req'[c].fn = req[c].fn /\ req'[c].key = req[c].key
         /\ req'[c].asked = req[c].asked /\ req'[c].value = value
         /\ req'[c].lock = req[c].lock /\ req'[c].innerLock = NoLock
<1>1. req[c] \in Request
  BY DEF TypeOK
<1> QED  BY <1>1 DEF TypeOK, Return, Request, Others

LEMMA GotoEffect ==
  ASSUME TypeOK, NEW c \in Requests, NEW place, Goto(c, place)
  PROVE  /\ Others(c)
         /\ req'[c].pc = place /\ req'[c].fn = req[c].fn /\ req'[c].key = req[c].key
         /\ req'[c].asked = req[c].asked /\ req'[c].seen = req[c].seen
         /\ req'[c].lock = req[c].lock /\ req'[c].inner = req[c].inner
         /\ req'[c].innerLock = req[c].innerLock
<1>1. req[c] \in Request
  BY DEF TypeOK
<1> QED  BY <1>1 DEF TypeOK, Goto, Request, Others

LEMMA ArriveEffect ==
  ASSUME TypeOK, NEW c \in Requests, NEW f \in Functions, Arrive(c, f)
  PROVE  /\ Others(c)
         /\ req[c].pc = "idle"
         /\ req'[c].pc = "get" /\ req'[c].fn = f
         /\ req'[c].lock = NoLock /\ req'[c].innerLock = NoLock
         /\ \/ req'[c].key = Unversioned /\ req'[c].asked = None
            \/ req'[c].key = version /\ req'[c].asked = version /\ req'[c].seen = version
<1>1. PICK read \in BOOLEAN : Arrive(c, f)!2!(read)
  BY DEF Arrive
<1> QED  BY <1>1 DEF TypeOK, Arrive, KeyVersion, Idle, Others

-----------------------------------------------------------------------------
(* The locks of the keys.                                                  *)

OneHolder ==
    \A c, d \in Requests : c # d /\ Holds(c) /\ Holds(d) => Key(c) # Key(d)

KeyLocking == (\A c \in Requests : LockOK(c)) /\ OneHolder

(* It is enough that a step keeps the locks of the other users, and that   *)
(* no other request holds the lock this one gets.                          *)
LEMMA KeyLockStep ==
  ASSUME KeyLocking, NEW c \in Requests, Others(c),
         \A d \in Requests \ {c} :
           req[d].lock # NoLock => cacheLocks'[Key(d)] = cacheLocks[Key(d)],
         LockOK(c)',
         Holds(c)' => \A d \in Requests \ {c} : Key(d) = Key(c)' => ~Holds(d)
  PROVE  KeyLocking'
<1>1. \A d \in Requests \ {c} : Key(d)' = Key(d) /\ Holds(d)' = Holds(d)
  BY DEF Others, Key, Holds
<1>2. ASSUME NEW d \in Requests PROVE LockOK(d)'
  BY <1>1 DEF KeyLocking, LockOK, Others
<1>3. OneHolder'
  BY <1>1 DEF KeyLocking, OneHolder
<1> QED  BY <1>2, <1>3 DEF KeyLocking

(* A request without a lock does not disturb the others, ...               *)
LEMMA KeyLockLeave ==
  ASSUME KeyLocking, NEW c \in Requests, Others(c), UNCHANGED cacheLocks,
         req'[c].lock = NoLock, req'[c].pc \in {"get", "answer"}
  PROVE  KeyLocking'
  BY KeyLockStep DEF LockOK, Holds, Holding

(* ... nor does one that goes on under its lock.                           *)
LEMMA KeyLockKeep ==
  ASSUME KeyLocking, NEW c \in Requests, Others(c), UNCHANGED cacheLocks,
         Holds(c), Holds(c)', req'[c].lock = req[c].lock,
         req'[c].fn = req[c].fn, req'[c].key = req[c].key
  PROVE  KeyLocking'
<1>1. Key(c)' = Key(c)
  BY DEF Key
<1>2. LockOK(c)'
  BY <1>1 DEF KeyLocking, LockOK, Holds, Holding
<1>3. \A d \in Requests \ {c} : Key(d) = Key(c)' => ~Holds(d)
  BY <1>1 DEF KeyLocking, OneHolder
<1> QED  BY <1>2, <1>3, KeyLockStep

LEMMA KeyLocksAreKept ==
  ASSUME IInv, [Next]_vars
  PROVE  KeyLocking'
<1>1. TypeOK /\ KeyLocking
  BY DEF IInv, Locking, KeyLocking, OneRebuilder, OneHolder
<1> USE <1>1
<1>2. ASSUME NEW c \in Requests, NEW f \in Functions, Arrive(c, f) PROVE KeyLocking'
  BY <1>2, ArriveEffect, KeyLockLeave DEF Arrive, caches
<1>3. ASSUME NEW c \in Requests, Get(c) PROVE KeyLocking'
  <2> DEFINE k == Key(c)
             l == LockFor(cacheLocks[k], {req[d].lock : d \in Users(k)})
  <2>1. CASE Answer(c, Cached(k)) /\ UNCHANGED cacheLocks
    BY <2>1, AnswerEffect, KeyLockLeave
  <2>2. CASE /\ cacheLocks' = [cacheLocks EXCEPT ![k] = l]
             /\ req' = [req EXCEPT ![c].pc = "wait", ![c].lock = l]
    <3>1. k \in Keys /\ l \in Locks /\ l # NoLock /\ req[c] \in Request
      BY LockForType, LocksAssumption DEF Key, Keys, TypeOK, Request
    <3>2. Others(c) /\ req'[c].pc = "wait" /\ req'[c].lock = l /\ Key(c)' = k
      BY <2>2, <3>1 DEF Others, Key, TypeOK, Request
    <3>3. LockOK(c)' /\ ~Holds(c)'
      BY <2>2, <3>1, <3>2 DEF LockOK, Holds, Holding, TypeOK
    <3>4. ASSUME NEW d \in Requests \ {c}, req[d].lock # NoLock
          PROVE  cacheLocks'[Key(d)] = cacheLocks[Key(d)]
      <4>1. Key(d) \in Keys /\ cacheLocks[Key(d)] # NoLock
        BY <3>4 DEF KeyLocking, LockOK, Key, Keys, TypeOK, Request
      <4>2. Key(d) = k => l = cacheLocks[k]
        BY <4>1 DEF LockFor
      <4> QED  BY <2>2, <3>1, <4>1, <4>2 DEF TypeOK
    <3> QED  BY <3>2, <3>3, <3>4, KeyLockStep
  <2> QED  BY <1>3, <2>1, <2>2 DEF Get
<1>4. ASSUME NEW c \in Requests, Acquire(c) PROVE KeyLocking'
  <2>1. /\ Others(c) /\ req'[c].pc = "contains" /\ req'[c].lock = req[c].lock
        /\ Key(c)' = Key(c) /\ UNCHANGED cacheLocks
    BY <1>4, GotoEffect DEF Acquire, Key, caches
  <2>2. LockOK(c)'
    BY <1>4, <2>1 DEF Acquire, KeyLocking, LockOK, Holding
  <2>3. ASSUME NEW d \in Requests \ {c}, Key(d) = Key(c), Holds(d) PROVE FALSE
    <3>1. req[d].lock # NoLock /\ req[d].lock = req[c].lock
      BY <1>4, <2>3 DEF Acquire, KeyLocking, LockOK, Holds, Holding
    <3> QED  BY <1>4, <2>3, <3>1 DEF Acquire, Users
  <2> QED  BY <2>1, <2>2, <2>3, KeyLockStep
<1>5. ASSUME NEW c \in Requests, CheckAgain(c) PROVE KeyLocking'
  BY <1>5, GotoEffect, KeyLockKeep DEF CheckAgain, Holds, caches
<1>6. ASSUME NEW c \in Requests, GetAgain(c) PROVE KeyLocking'
  BY <1>6, AnswerEffect, KeyLockLeave DEF GetAgain, caches
<1>7. ASSUME NEW c \in Requests, Compute(c) PROVE KeyLocking'
  BY <1>7, ReturnEffect, KeyLockKeep DEF Compute, Holds, caches
<1>8. ASSUME NEW c \in Requests, LookUpSnapshot(c) PROVE KeyLocking'
  <2>1. PICK read \in BOOLEAN : LookUpSnapshot(c)!2!(read)
    BY <1>8 DEF LookUpSnapshot
  <2> DEFINE v == InnerVersion(c, read)
  <2>2. CASE snapshots[v] # None
    BY <1>8, <2>1, <2>2, ReturnEffect, KeyLockKeep DEF LookUpSnapshot, Holds
  <2>3. CASE snapshots[v] = None
    <3>1. /\ Others(c) /\ req'[c].pc = "waitSnapshot" /\ req'[c].lock = req[c].lock
          /\ req'[c].fn = req[c].fn /\ req'[c].key = req[c].key
      BY <2>1, <2>3 DEF Others, TypeOK, Request
    <3> QED  BY <1>8, <3>1, KeyLockKeep DEF LookUpSnapshot, Holds
  <2> QED  BY <2>2, <2>3
<1>9. ASSUME NEW c \in Requests, AcquireSnapshot(c) PROVE KeyLocking'
  BY <1>9, GotoEffect, ReturnEffect, KeyLockKeep DEF AcquireSnapshot, Holds
<1>10. ASSUME NEW c \in Requests, BuildSnapshot(c) PROVE KeyLocking'
  BY <1>10, ReturnEffect, KeyLockKeep DEF BuildSnapshot, Holds
<1>11. ASSUME NEW c \in Requests, Fail(c) PROVE KeyLocking'
  BY <1>11, AnswerEffect, KeyLockLeave DEF Fail
<1>12. ASSUME NEW c \in Requests, Set(c) PROVE KeyLocking'
  BY <1>12, AnswerEffect, KeyLockLeave DEF Set
<1>13. ASSUME UNCHANGED <<cacheLocks, req>> PROVE KeyLocking'
  BY <1>13 DEF KeyLocking, LockOK, OneHolder, Holds, Key
<1>14. CASE Commit \/ ClearSnapshots \/ RedisFails \/ RedisReturns \/ UNCHANGED vars
  BY <1>13, <1>14 DEF Commit, ClearSnapshots, RedisFails, RedisReturns, vars, caches
<1>15. ASSUME UNCHANGED req,
              \A k \in Keys : cacheLocks'[k] = cacheLocks[k] \/ Users(k) = {}
       PROVE  KeyLocking'
  <2>1. ASSUME NEW d \in Requests, req[d].lock # NoLock
        PROVE  cacheLocks'[Key(d)] = cacheLocks[Key(d)]
    BY <1>15, <2>1 DEF Users, Key, Keys, TypeOK, Request
  <2> QED  BY <1>15, <2>1 DEF KeyLocking, LockOK, OneHolder, Holds, Key
<1>16. CASE Evict
  BY <1>15, <1>16 DEF Evict, TypeOK
<1>17. CASE Cleanup
  BY <1>15, <1>17 DEF Cleanup, IdleLocks
<1> QED
  BY <1>2, <1>3, <1>4, <1>5, <1>6, <1>7, <1>8, <1>9, <1>10, <1>11, <1>12, <1>14, <1>16, <1>17
     DEF Next, Work

-----------------------------------------------------------------------------
(* The locks of the snapshots.                                             *)

OneBuilder ==
    \A c, d \in Requests :
        c # d /\ InnerHolds(c) /\ InnerHolds(d) => req[c].inner # req[d].inner

SnapshotLocking ==
    (\A c \in Requests : SnapshotLockOK(c)) /\ OneBuilder /\ SnapshotLocksAreInUse

LEMMA SnapshotLockStep ==
  ASSUME SnapshotLocking, NEW c \in Requests, Others(c),
         \A d \in Requests \ {c} :
           req[d].innerLock # NoLock =>
             snapshotLocks'[req[d].inner] = snapshotLocks[req[d].inner],
         SnapshotLockOK(c)',
         InnerHolds(c)' => \A d \in Requests \ {c} :
                             req[d].inner = req'[c].inner => ~InnerHolds(d),
         SnapshotLocksAreInUse'
  PROVE  SnapshotLocking'
<1>1. \A d \in Requests \ {c} : InnerHolds(d)' = InnerHolds(d)
  BY DEF Others, InnerHolds
<1>2. ASSUME NEW d \in Requests PROVE SnapshotLockOK(d)'
  BY DEF SnapshotLocking, SnapshotLockOK, Others
<1>3. OneBuilder'
  BY <1>1 DEF SnapshotLocking, OneBuilder, Others
<1> QED  BY <1>2, <1>3 DEF SnapshotLocking

(* Requests outside the snapshot cache do not disturb those in it.         *)
LEMMA SnapshotLockQuiet ==
  ASSUME SnapshotLocking, NEW c \in Requests, Others(c), UNCHANGED snapshotLocks,
         req[c].pc \notin {"waitSnapshot", "build"},
         req'[c].pc \notin {"waitSnapshot", "build"}, req'[c].innerLock = NoLock
  PROVE  SnapshotLocking'
<1>1. \A v : InnerUsers(v)' = InnerUsers(v)
  BY DEF SnapshotLocking, SnapshotLockOK, InnerUsers, Others
<1>2. SnapshotLocksAreInUse'
  BY <1>1 DEF SnapshotLocking, SnapshotLocksAreInUse
<1>3. SnapshotLockOK(c)' /\ ~InnerHolds(c)'
  BY DEF SnapshotLockOK, InnerHolds
<1> QED  BY <1>2, <1>3, SnapshotLockStep

(* A user that leaves drops the lock exactly when it was the last one.     *)
LEMMA SnapshotLockLeave ==
  ASSUME TypeOK, SnapshotLocking, NEW c \in Requests, Others(c),
         req[c].innerLock # NoLock, req'[c].innerLock = NoLock,
         req'[c].pc \notin {"waitSnapshot", "build"},
         NEW locks \in [Versions \cup {Unversioned} -> Locks \cup {NoLock}],
         snapshotLocks' = WithoutLockOf(c, locks),
         \A d \in Requests : req[d].innerLock # NoLock =>
           locks[req[d].inner] = snapshotLocks[req[d].inner],
         \A v \in Versions \cup {Unversioned} : locks[v] # NoLock => snapshotLocks[v] # NoLock
  PROVE  SnapshotLocking'
<1> DEFINE v == req[c].inner
<1>1. /\ v \in Versions \cup {Unversioned} /\ locks[v] = req[c].innerLock
      /\ \A d \in Requests : req[d].inner \in Versions \cup {Unversioned}
  BY DEF SnapshotLocking, SnapshotLockOK, TypeOK, Request
<1>2. ASSUME NEW d \in Requests \ {c}, req[d].innerLock # NoLock
      PROVE  snapshotLocks'[req[d].inner] = snapshotLocks[req[d].inner]
  <2>1. CASE req[d].inner = v
    <3>1. d \in InnerUsers(v) \ {c} /\ req[d].innerLock = req[c].innerLock
      BY <1>2, <2>1 DEF InnerUsers, SnapshotLocking, SnapshotLockOK
    <3> QED  BY <1>2, <3>1 DEF WithoutLockOf
  <2>2. CASE req[d].inner # v
    BY <1>1, <1>2, <2>2 DEF WithoutLockOf
  <2> QED  BY <2>1, <2>2
<1>3. ASSUME NEW w \in Versions \cup {Unversioned}, snapshotLocks'[w] # NoLock
      PROVE  InnerUsers(w)' # {}
  <2>1. CASE w = v
    <3>1. PICK d \in InnerUsers(v) \ {c} : req[d].innerLock = req[c].innerLock
      BY <1>1, <1>3, <2>1 DEF WithoutLockOf
    <3> QED  BY <2>1, <3>1 DEF InnerUsers, Others
  <2>2. CASE w # v
    <3>1. snapshotLocks[w] # NoLock
      BY <1>1, <1>3, <2>2 DEF WithoutLockOf
    <3>2. PICK d \in InnerUsers(w) : TRUE
      BY <3>1 DEF SnapshotLocking, SnapshotLocksAreInUse, TypeOK
    <3> QED  BY <2>2, <3>2 DEF InnerUsers, Others
  <2> QED  BY <2>1, <2>2
<1>4. SnapshotLocksAreInUse'
  BY <1>3 DEF SnapshotLocksAreInUse, WithoutLockOf
<1>5. SnapshotLockOK(c)' /\ ~InnerHolds(c)'
  BY DEF SnapshotLockOK, InnerHolds
<1> QED  BY <1>2, <1>4, <1>5, SnapshotLockStep

LEMMA SnapshotLocksAreKept ==
  ASSUME IInv, [Next]_vars
  PROVE  SnapshotLocking'
<1>1. TypeOK /\ SnapshotLocking
  BY DEF IInv, Locking, SnapshotLocking, OneRebuilder, OneBuilder
<1> USE <1>1
<1>2. ASSUME NEW c \in Requests, NEW f \in Functions, Arrive(c, f) PROVE SnapshotLocking'
  BY <1>2, ArriveEffect, SnapshotLockQuiet DEF Arrive, caches
<1>3. ASSUME NEW c \in Requests, Get(c) PROVE SnapshotLocking'
  <2> DEFINE k == Key(c)
             l == LockFor(cacheLocks[k], {req[d].lock : d \in Users(k)})
  <2>1. CASE Answer(c, Cached(k))
    BY <1>3, <2>1, AnswerEffect, SnapshotLockQuiet DEF Get
  <2>2. CASE req' = [req EXCEPT ![c].pc = "wait", ![c].lock = l]
    <3>1. req[c].innerLock = NoLock /\ req[c] \in Request
      BY <1>3 DEF Get, SnapshotLocking, SnapshotLockOK, TypeOK
    <3>2. Others(c) /\ req'[c].pc = "wait" /\ req'[c].innerLock = NoLock
      BY <2>2, <3>1 DEF Others, TypeOK, Request
    <3> QED  BY <1>3, <3>2, SnapshotLockQuiet DEF Get
  <2> QED  BY <1>3, <2>1, <2>2 DEF Get
<1>4. ASSUME NEW c \in Requests, Acquire(c) \/ CheckAgain(c) PROVE SnapshotLocking'
  <2>1. /\ req[c].pc \in {"wait", "contains"} /\ req[c].innerLock = NoLock
        /\ UNCHANGED snapshotLocks
    BY <1>4 DEF Acquire, CheckAgain, SnapshotLocking, SnapshotLockOK, caches
  <2>2. PICK place \in {"contains", "getAgain", "snapshot", "compute"} : Goto(c, place)
    BY <1>4 DEF Acquire, CheckAgain
  <2> QED  BY <2>1, <2>2, GotoEffect, SnapshotLockQuiet
<1>5. ASSUME NEW c \in Requests, GetAgain(c) PROVE SnapshotLocking'
  BY <1>5, AnswerEffect, SnapshotLockQuiet DEF GetAgain, caches
<1>6. ASSUME NEW c \in Requests, Compute(c) PROVE SnapshotLocking'
  BY <1>6, ReturnEffect, SnapshotLockQuiet DEF Compute, caches
<1>7. ASSUME NEW c \in Requests, LookUpSnapshot(c) PROVE SnapshotLocking'
  <2>1. PICK read \in BOOLEAN : LookUpSnapshot(c)!2!(read)
    BY <1>7 DEF LookUpSnapshot
  <2> DEFINE v == InnerVersion(c, read)
             l == LockFor(snapshotLocks[v], {req[d].innerLock : d \in InnerUsers(v)})
  <2>2. CASE snapshots[v] # None
    BY <1>7, <2>1, <2>2, ReturnEffect, SnapshotLockQuiet DEF LookUpSnapshot
  <2>3. CASE snapshots[v] = None
    <3>1. v \in Versions \cup {Unversioned} /\ req[c] \in Request
      BY DEF InnerVersion, Content, TypeOK, Request
    <3>2. l \in Locks /\ l # NoLock
      BY <3>1, LockForType, LocksAssumption
    <3> HIDE DEF v, l
    <3>3. /\ Others(c) /\ req'[c].pc = "waitSnapshot" /\ req'[c].inner = v
          /\ req'[c].innerLock = l
          /\ snapshotLocks' = [snapshotLocks EXCEPT ![v] = l]
      BY <2>1, <2>3, <3>1 DEF Others, TypeOK, Request, v, l
    <3>4. SnapshotLockOK(c)' /\ ~InnerHolds(c)'
      BY <3>1, <3>2, <3>3 DEF SnapshotLockOK, InnerHolds, TypeOK
    <3>5. ASSUME NEW d \in Requests \ {c}, req[d].innerLock # NoLock
          PROVE  snapshotLocks'[req[d].inner] = snapshotLocks[req[d].inner]
      <4>1. /\ req[d].inner \in Versions \cup {Unversioned}
            /\ snapshotLocks[req[d].inner] # NoLock
        BY <3>5 DEF SnapshotLocking, SnapshotLockOK, TypeOK, Request
      <4>2. req[d].inner = v => l = snapshotLocks[v]
        BY <4>1 DEF LockFor, l
      <4> QED  BY <3>1, <3>3, <4>1, <4>2 DEF TypeOK
    <3>6. ASSUME NEW w \in Versions \cup {Unversioned}, snapshotLocks'[w] # NoLock
          PROVE  InnerUsers(w)' # {}
      <4>1. CASE w = v
        BY <3>2, <3>3, <4>1 DEF InnerUsers
      <4>2. CASE w # v
        <5>1. PICK d \in InnerUsers(w) : TRUE
          BY <3>3, <3>6, <4>2 DEF SnapshotLocking, SnapshotLocksAreInUse, TypeOK
        <5>2. d # c
          BY <1>7, <5>1 DEF LookUpSnapshot, SnapshotLocking, SnapshotLockOK, InnerUsers
        <5> QED  BY <3>3, <5>1, <5>2 DEF InnerUsers, Others
      <4> QED  BY <4>1, <4>2
    <3>7. SnapshotLocksAreInUse'
      BY <3>3, <3>6 DEF SnapshotLocksAreInUse, TypeOK
    <3> QED  BY <3>3, <3>4, <3>5, <3>7, SnapshotLockStep
  <2> QED  BY <2>2, <2>3
<1>8. ASSUME NEW c \in Requests, AcquireSnapshot(c) PROVE SnapshotLocking'
  <2>1. req[c].innerLock # NoLock
    BY <1>8 DEF AcquireSnapshot, SnapshotLocking, SnapshotLockOK
  <2>2. CASE snapshots[req[c].inner] # None
    <3>1. /\ Return(c, snapshots[req[c].inner])
          /\ snapshotLocks' = WithoutLockOf(c, snapshotLocks)
          /\ snapshotLocks \in [Versions \cup {Unversioned} -> Locks \cup {NoLock}]
      BY <1>8, <2>2 DEF AcquireSnapshot, TypeOK
    <3> QED  BY <2>1, <3>1, ReturnEffect, SnapshotLockLeave
  <2>3. CASE snapshots[req[c].inner] = None
    <3>1. /\ Others(c) /\ req'[c].pc = "build" /\ req'[c].inner = req[c].inner
          /\ req'[c].innerLock = req[c].innerLock /\ UNCHANGED snapshotLocks
      BY <1>8, <2>3, GotoEffect DEF AcquireSnapshot
    <3>2. SnapshotLockOK(c)'
      BY <2>1, <3>1 DEF SnapshotLocking, SnapshotLockOK
    <3>3. ASSUME NEW d \in Requests \ {c}, req[d].inner = req[c].inner, InnerHolds(d)
          PROVE  FALSE
      <4>1. req[d].innerLock # NoLock /\ req[d].innerLock = req[c].innerLock
        BY <2>1, <3>3 DEF SnapshotLocking, SnapshotLockOK, InnerHolds
      <4> QED  BY <1>8, <3>3, <4>1 DEF AcquireSnapshot, InnerUsers
    <3>4. \A w : InnerUsers(w)' = InnerUsers(w)
      BY <3>1 DEF InnerUsers, Others
    <3>5. SnapshotLocksAreInUse'
      BY <3>1, <3>4 DEF SnapshotLocking, SnapshotLocksAreInUse
    <3> QED  BY <3>1, <3>2, <3>3, <3>5, SnapshotLockStep
  <2> QED  BY <2>2, <2>3
<1>9. /\ Reclaimed \in [Versions \cup {Unversioned} -> Locks \cup {NoLock}]
      /\ \A d \in Requests : req[d].innerLock # NoLock =>
           Reclaimed[req[d].inner] = snapshotLocks[req[d].inner]
      /\ \A v \in Versions \cup {Unversioned} : Reclaimed[v] # NoLock => snapshotLocks[v] # NoLock
  BY DEF Reclaimed, IdleSnapshotLocks, InnerUsers, TypeOK, Request
<1>10. ASSUME NEW c \in Requests, BuildSnapshot(c) PROVE SnapshotLocking'
  <2>1. /\ req[c].innerLock # NoLock /\ Return(c, Content(c))
        /\ snapshotLocks' = WithoutLockOf(c, Reclaimed)
    BY <1>10 DEF BuildSnapshot, SnapshotLocking, SnapshotLockOK
  <2> HIDE DEF Reclaimed
  <2> QED  BY <1>9, <2>1, ReturnEffect, SnapshotLockLeave
<1>11. ASSUME NEW c \in Requests, Fail(c) PROVE SnapshotLocking'
  <2>1. CASE req[c].pc = "build"
    <3>1. /\ req[c].innerLock # NoLock /\ Answer(c, None)
          /\ snapshotLocks' = WithoutLockOf(c, snapshotLocks)
          /\ snapshotLocks \in [Versions \cup {Unversioned} -> Locks \cup {NoLock}]
      BY <1>11, <2>1 DEF Fail, SnapshotLocking, SnapshotLockOK, TypeOK
    <3> QED  BY <3>1, AnswerEffect, SnapshotLockLeave
  <2>2. CASE req[c].pc = "compute"
    BY <1>11, <2>2, AnswerEffect, SnapshotLockQuiet DEF Fail
  <2> QED  BY <1>11, <2>1, <2>2 DEF Fail
<1>12. ASSUME NEW c \in Requests, Set(c) PROVE SnapshotLocking'
  BY <1>12, AnswerEffect, SnapshotLockQuiet DEF Set
<1>13. ASSUME UNCHANGED <<snapshotLocks, req>> PROVE SnapshotLocking'
  BY <1>13 DEF SnapshotLocking, SnapshotLockOK, OneBuilder, InnerHolds, SnapshotLocksAreInUse,
               InnerUsers
<1>14. CASE Commit \/ Evict \/ Cleanup \/ RedisFails \/ RedisReturns \/ UNCHANGED vars
  BY <1>13, <1>14 DEF Commit, Evict, Cleanup, RedisFails, RedisReturns, vars, caches
<1>15. CASE ClearSnapshots
  <2>1. UNCHANGED req /\ snapshotLocks' = Reclaimed
    BY <1>15 DEF ClearSnapshots
  <2>2. \A w : InnerUsers(w)' = InnerUsers(w)
    BY <2>1 DEF InnerUsers
  <2>3. SnapshotLocksAreInUse'
    BY <1>9, <2>1, <2>2 DEF SnapshotLocking, SnapshotLocksAreInUse, TypeOK
  <2> QED  BY <1>9, <2>1, <2>3 DEF SnapshotLocking, SnapshotLockOK, OneBuilder, InnerHolds
<1> QED
  BY <1>2, <1>3, <1>4, <1>5, <1>6, <1>7, <1>8, <1>10, <1>11, <1>12, <1>14, <1>15
     DEF Next, Work

-----------------------------------------------------------------------------
(* Versions.                                                               *)

AllVersionOK == \A c \in Requests : VersionOK(c)

LEMMA OneVersionStep ==
  ASSUME AllVersionOK, NEW c \in Requests, Others(c), VersionOK(c)'
  PROVE  AllVersionOK'
  BY DEF AllVersionOK, VersionOK, Others

(* What a request finds in either store is the content of its version.     *)
LEMMA CachedIsVersioned ==
  ASSUME TypeOK, VersionedEntriesHold, NEW c \in Requests,
         req[c].key # Unversioned, req[c].fn \notin RfmFunctions
  PROVE  Cached(Key(c)) \in {None, req[c].key}
  BY DEF TypeOK, Request, VersionedEntriesHold, Cached, Key

LEMMA ContentIsVersioned ==
  ASSUME TypeOK, NEW c \in Requests, NEW v \in Versions, req[c].seen = v
  PROVE  Content(c) = v
  BY LocksAssumption DEF Content, Versions

LEMMA VersionsAreKept ==
  ASSUME IInv, [Next]_vars
  PROVE  AllVersionOK'
<1>1. TypeOK /\ AllVersionOK /\ VersionedEntriesHold
  BY DEF IInv, Versioning, AllVersionOK
<1>2. /\ \A v \in Versions : v # 0
      /\ \A c \in Requests : /\ req[c].key # Unversioned => req[c].key \in Versions
                             /\ req[c] \in Request
  BY <1>1 DEF Versions, TypeOK, Request
<1> USE <1>1
<1>3. ASSUME NEW c \in Requests, NEW f \in Functions, Arrive(c, f) PROVE AllVersionOK'
  <2>1. VersionOK(c)'
    BY <1>2, <1>3, ArriveEffect DEF VersionOK, TypeOK
  <2> QED  BY <1>3, <2>1, ArriveEffect, OneVersionStep
<1>4. ASSUME NEW c \in Requests, NEW value, Answer(c, value),
             req[c].key # Unversioned /\ req[c].fn \notin RfmFunctions
               => value \in {None, req[c].key}
      PROVE  AllVersionOK'
  <2>1. VersionOK(c)'
    BY <1>4, AnswerEffect DEF AllVersionOK, VersionOK
  <2> QED  BY <1>4, <2>1, AnswerEffect, OneVersionStep
<1>5. ASSUME NEW c \in Requests, NEW value, Return(c, value),
             req[c].key # Unversioned /\ req[c].fn \notin RfmFunctions
               => value \in {None, req[c].key}
      PROVE  AllVersionOK'
  <2>1. VersionOK(c)'
    BY <1>5, ReturnEffect DEF AllVersionOK, VersionOK
  <2> QED  BY <1>5, <2>1, ReturnEffect, OneVersionStep
<1>6. ASSUME NEW c \in Requests, Get(c) PROVE AllVersionOK'
  <2> DEFINE k == Key(c)
             l == LockFor(cacheLocks[k], {req[d].lock : d \in Users(k)})
  <2>1. CASE Answer(c, Cached(k))
    BY <2>1, <1>4, CachedIsVersioned
  <2>2. CASE req' = [req EXCEPT ![c].pc = "wait", ![c].lock = l]
    <3>1. /\ Others(c) /\ req'[c].pc = "wait" /\ req'[c].fn = req[c].fn
          /\ req'[c].key = req[c].key /\ req'[c].asked = req[c].asked
          /\ req'[c].seen = req[c].seen /\ req'[c].inner = req[c].inner
          /\ req'[c].innerLock = req[c].innerLock
      BY <1>2, <2>2 DEF Others, TypeOK, Request
    <3>2. VersionOK(c)'
      BY <1>6, <3>1 DEF Get, AllVersionOK, VersionOK
    <3> QED  BY <3>1, <3>2, OneVersionStep
  <2> QED  BY <1>6, <2>1, <2>2 DEF Get
<1>7. ASSUME NEW c \in Requests, Acquire(c) PROVE AllVersionOK'
  <2>1. VersionOK(c)'
    BY <1>7, GotoEffect DEF Acquire, AllVersionOK, VersionOK
  <2> QED  BY <1>7, <2>1, GotoEffect, OneVersionStep DEF Acquire
<1>8. ASSUME NEW c \in Requests, CheckAgain(c) PROVE AllVersionOK'
  <2>1. VersionOK(c)'
    BY <1>8, GotoEffect DEF CheckAgain, AllVersionOK, VersionOK
  <2> QED  BY <1>8, <2>1, GotoEffect, OneVersionStep DEF CheckAgain
<1>9. ASSUME NEW c \in Requests, GetAgain(c) PROVE AllVersionOK'
  BY <1>9, <1>4, CachedIsVersioned DEF GetAgain
<1>10. ASSUME NEW c \in Requests, Compute(c) PROVE AllVersionOK'
  <2>1. req[c].key # Unversioned => Content(c) = req[c].key
    BY <1>2, <1>10, ContentIsVersioned DEF Compute, AllVersionOK, VersionOK
  <2> QED  BY <1>10, <2>1, <1>5 DEF Compute
<1>11. ASSUME NEW c \in Requests, LookUpSnapshot(c) PROVE AllVersionOK'
  <2>1. PICK read \in BOOLEAN : LookUpSnapshot(c)!2!(read)
    BY <1>11 DEF LookUpSnapshot
  <2>2. req[c].fn \in RfmFunctions
    BY <1>11 DEF LookUpSnapshot, AllVersionOK, VersionOK
  <2> DEFINE v == InnerVersion(c, read)
             l == LockFor(snapshotLocks[v], {req[d].innerLock : d \in InnerUsers(v)})
             seen == IF read THEN Content(c) ELSE req[c].seen
  <2>3. CASE snapshots[v] # None
    BY <2>1, <2>2, <2>3, <1>5
  <2>4. CASE snapshots[v] = None
    <3> HIDE DEF v, l, seen
    <3>1. req' = [req EXCEPT ![c].pc = "waitSnapshot", ![c].inner = v,
                             ![c].seen = seen, ![c].innerLock = l]
      BY <2>1, <2>4 DEF v, l, seen
    <3>2. /\ Others(c) /\ req'[c].pc = "waitSnapshot" /\ req'[c].fn = req[c].fn
          /\ req'[c].key = req[c].key /\ req'[c].asked = req[c].asked
          /\ req'[c].seen = seen /\ req'[c].inner = v
      BY <1>2, <3>1 DEF Others, TypeOK, Request
    <3>3. v # Unversioned => seen = v
      BY DEF v, seen, InnerVersion
    <3>4. req[c].key # Unversioned => seen = req[c].key
      BY <1>2, <1>11, ContentIsVersioned DEF seen, LookUpSnapshot, AllVersionOK, VersionOK
    <3>5. VersionOK(c)'
      BY <1>11, <2>2, <3>2, <3>3, <3>4 DEF LookUpSnapshot, AllVersionOK, VersionOK
    <3> QED  BY <3>2, <3>5, OneVersionStep
  <2> QED  BY <2>3, <2>4
<1>12. ASSUME NEW c \in Requests, AcquireSnapshot(c) PROVE AllVersionOK'
  <2>1. req[c].fn \in RfmFunctions
    BY <1>12 DEF AcquireSnapshot, AllVersionOK, VersionOK
  <2>2. CASE Goto(c, "build")
    <3>1. VersionOK(c)'
      BY <1>12, <2>2, GotoEffect DEF AcquireSnapshot, AllVersionOK, VersionOK
    <3> QED  BY <2>2, <3>1, GotoEffect, OneVersionStep
  <2> QED  BY <1>12, <1>5, <2>1, <2>2 DEF AcquireSnapshot
<1>13. ASSUME NEW c \in Requests, BuildSnapshot(c) PROVE AllVersionOK'
  BY <1>13, <1>5 DEF BuildSnapshot, AllVersionOK, VersionOK
<1>14. ASSUME NEW c \in Requests, Fail(c) PROVE AllVersionOK'
  BY <1>14, <1>4 DEF Fail
<1>15. ASSUME NEW c \in Requests, Set(c) PROVE AllVersionOK'
  BY <1>15, <1>4 DEF Set, AllVersionOK, VersionOK
<1>16. CASE UNCHANGED req
  BY <1>16 DEF AllVersionOK, VersionOK
<1>17. CASE Commit \/ ClearSnapshots \/ Evict \/ Cleanup \/ RedisFails \/ RedisReturns \/ UNCHANGED vars
  BY <1>16, <1>17 DEF Commit, ClearSnapshots, Evict, Cleanup, RedisFails, RedisReturns, vars
<1> QED
  BY <1>3, <1>6, <1>7, <1>8, <1>9, <1>10, <1>11, <1>12, <1>13, <1>14, <1>15, <1>17
     DEF Next, Work

LEMMA EntriesAreKept ==
  ASSUME IInv, [Next]_vars
  PROVE  VersionedEntriesHold'
<1>1. TypeOK /\ VersionedEntriesHold /\ \A c \in Requests : VersionOK(c)
  BY DEF IInv, Versioning
<1> USE <1>1
<1>2. ASSUME NEW c \in Requests, BuildSnapshot(c) PROVE VersionedEntriesHold'
  <2>1. /\ req[c].inner \in Versions \cup {Unversioned} /\ req[c].innerLock # NoLock
    BY <1>2 DEF BuildSnapshot, TypeOK, Request, IInv, Locking, SnapshotLockOK
  <2>2. req[c].inner \in Versions => Content(c) = req[c].inner
    BY <2>1, ContentIsVersioned DEF VersionOK, Versions
  <2>3. /\ snapshots' = [snapshots EXCEPT ![req[c].inner] = Content(c)]
        /\ UNCHANGED <<remote, memory>>
    BY <1>2 DEF BuildSnapshot
  <2> QED  BY <2>1, <2>2, <2>3 DEF TypeOK, VersionedEntriesHold
<1>3. ASSUME NEW c \in Requests, Set(c) PROVE VersionedEntriesHold'
  <2>1. /\ Key(c) \in Keys /\ Key(c)[1] = req[c].fn /\ Key(c)[2] = req[c].key
        /\ \A f \in Functions, v \in Versions : <<f, v>> \in Keys
    BY DEF Key, Keys, TypeOK, Request
  <2>2. ASSUME NEW f \in Functions \ RfmFunctions, NEW v \in Versions, <<f, v>> = Key(c)
        PROVE  req[c].value \in {None, v}
    BY <1>3, <2>2 DEF Set, VersionOK, Key, Versions
  <2>3. UNCHANGED snapshots
    BY <1>3 DEF Set
  <2>4. /\ remote' \in {remote, [remote EXCEPT ![Key(c)] = req[c].value]}
        /\ memory' \in {memory, [memory EXCEPT ![Key(c)] = req[c].value]}
    BY <1>3 DEF Set
  <2>5. ASSUME NEW f \in Functions \ RfmFunctions, NEW v \in Versions
        PROVE  remote'[<<f, v>>] \in {None, v} /\ memory'[<<f, v>>] \in {None, v}
    BY <2>1, <2>2, <2>4 DEF TypeOK, VersionedEntriesHold
  <2> QED  BY <2>3, <2>5 DEF VersionedEntriesHold
<1>4. CASE Evict
  <2>1. /\ \A k \in Keys : remote'[k] \in {remote[k], None} /\ memory'[k] \in {memory[k], None}
        /\ \A v \in Versions : snapshots'[v] \in {snapshots[v], None}
    BY <1>4 DEF Evict, TypeOK
  <2>2. \A f \in Functions, v \in Versions : <<f, v>> \in Keys
    BY DEF Keys
  <2> QED  BY <2>1, <2>2 DEF VersionedEntriesHold
<1>5. CASE ClearSnapshots
  BY <1>5 DEF ClearSnapshots, TypeOK, VersionedEntriesHold
<1>6. CASE UNCHANGED <<remote, memory, snapshots>>
  BY <1>6 DEF VersionedEntriesHold
<1>7. ASSUME NEW c \in Requests, NEW f \in Functions,
             \/ Arrive(c, f) \/ Get(c) \/ Acquire(c) \/ CheckAgain(c) \/ GetAgain(c)
             \/ Compute(c) \/ LookUpSnapshot(c) \/ AcquireSnapshot(c) \/ Fail(c)
      PROVE  VersionedEntriesHold'
  BY <1>6, <1>7 DEF Arrive, Get, Acquire, CheckAgain, GetAgain, Compute, LookUpSnapshot,
                    AcquireSnapshot, Fail, caches
<1>8. CASE Commit \/ Cleanup \/ RedisFails \/ RedisReturns \/ UNCHANGED vars
  BY <1>6, <1>8 DEF Commit, Cleanup, RedisFails, RedisReturns, vars, caches
<1> QED
  BY <1>2, <1>3, <1>4, <1>5, <1>7, <1>8, FunctionsAssumption DEF Next, Work


-----------------------------------------------------------------------------

LEMMA Initially == Init => IInv
<1> SUFFICES ASSUME Init PROVE IInv
  OBVIOUS
<1>1. TypeOK
  BY IdleType, BoundsAssumption DEF Init, TypeOK, Versions
<1>2. \A c \in Requests : req[c] = Idle
  BY DEF Init
<1>3. /\ Idle.pc = "idle" /\ Idle.lock = NoLock /\ Idle.innerLock = NoLock
      /\ Idle.key = Unversioned /\ Idle.asked = None
  BY DEF Idle
<1>4. Locking
  BY <1>2, <1>3 DEF Init, Locking, LockOK, SnapshotLockOK, OneRebuilder, SnapshotLocksAreInUse,
                    Holds, InnerHolds, Holding
<1>5. VersionedEntriesHold
  BY DEF Init, VersionedEntriesHold, Keys
<1>6. Versioning
  BY <1>2, <1>3, <1>5 DEF Versioning, VersionOK
<1> QED  BY <1>1, <1>4, <1>6 DEF IInv

LEMMA InductiveStep == IInv /\ [Next]_vars => IInv'
<1> SUFFICES ASSUME IInv, [Next]_vars PROVE IInv'
  OBVIOUS
<1>1. Locking'
  BY KeyLocksAreKept, SnapshotLocksAreKept
     DEF KeyLocking, SnapshotLocking, Locking, OneRebuilder, OneHolder, OneBuilder
<1>2. Versioning'
  BY VersionsAreKept, EntriesAreKept DEF Versioning, AllVersionOK
<1> QED  BY <1>1, <1>2, TypeStep DEF IInv

(* The inductive invariant: every user of a lock finds it in its           *)
(* dictionary until it leaves, and whatever is on its way from a session   *)
(* into a cache is the content of the version in its key.                  *)
THEOREM CacheInvariant == Spec => []IInv
  BY Initially, InductiveStep, PTL DEF Spec

(* Every variable keeps its type, for any number of requests, functions,   *)
(* lock objects, commits and faults.                                       *)
THEOREM TypeCorrect == Spec => []TypeOK
<1>1. IInv => TypeOK
  BY DEF IInv
<1> QED  BY <1>1, CacheInvariant, PTL

(* Single flight: two requests never compute the value of one key, nor     *)
(* build the snapshot of one version, at the same time, although idle      *)
(* locks are dropped and snapshots cleared at any time.                    *)
THEOREM RebuildersAreAlone == Spec => []OneRebuilder
<1>1. IInv => OneRebuilder
  BY DEF IInv, Locking
<1> QED  BY <1>1, CacheInvariant, PTL

(* No snapshot lock outlives its last user.                                *)
THEOREM SnapshotLocksDoNotPileUp == Spec => []SnapshotLocksAreInUse
<1>1. IInv => SnapshotLocksAreInUse
  BY DEF IInv, Locking
<1> QED  BY <1>1, CacheInvariant, PTL

(* A versioned snapshot, and a versioned entry of a function without one,  *)
(* hold the content of their version and no other.                         *)
THEOREM EntriesMatchTheirVersion == Spec => []VersionedEntriesHold
<1>1. IInv => VersionedEntriesHold
  BY DEF IInv, Versioning
<1> QED  BY <1>1, CacheInvariant, PTL

(* A request is never answered with what was cached before a commit that   *)
(* its session had seen.                                                   *)
THEOREM AnswersMatchTheSession == Spec => []AnswersAreFresh
<1>1. IInv => AnswersAreFresh
  BY LocksAssumption DEF IInv, Versioning, VersionOK, AnswersAreFresh
<1> QED  BY <1>1, CacheInvariant, PTL
=============================================================================
