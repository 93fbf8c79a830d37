-------------------------- MODULE AiRequestsProofs --------------------------
(***************************************************************************)
(* Proofs about AI requests, for any number of requests, principals and    *)
(* threads: the conversation stores implement the log of turns they        *)
(* promise, no slot is lost or made, an answer rests on its evidence and   *)
(* knows the turn before it, and what is forgotten stays so.  All this is  *)
(* shown a second time for the requests of the page, with one thing more:  *)
(* what the page has cleared or replaced is in no later context.           *)
(***************************************************************************)
EXTENDS Assistant, FiniteSetTheorems, SequenceTheorems, TLAPS

(***************************************************************************)
(* The stores.  A transaction that nobody has disturbed still finds what   *)
(* it has read, and what it read is worth a write.                         *)
(***************************************************************************)

Undisturbed(c) ==
    /\ call[c].seen = redis[ThreadOf[c]]
    /\ Writes(c, call[c].seen)

StoreInv ==
    /\ redis \in [Threads -> Seq(Saves)]
    /\ memory \in [Threads -> Seq(Saves)]
    /\ call \in [Callers -> Call]
    /\ \A c \in Callers : call[c].at = "exec" /\ ~call[c].dirty => Undisturbed(c)

(* What a step means for the list of a thread.                             *)
LogStep(old, new) ==
    \/ new = old
    \/ \E turn \in Saves : new = LastTurns(Append(old, turn))
    \/ old # <<>> /\ new = SubSeq(old, 1, Len(old) - 1)
    \/ new = <<>>

LEMMA IdleIsACall == Idle \in Call /\ \A b \in BOOLEAN : \A c \in Callers : Done(c, b) \in Call
  <1>1. <<>> \in Seq(Saves)
    OBVIOUS
  <1>2. 0 \in 0..Attempts
    BY StoresAssumption
  <1> QED
    BY <1>1, <1>2 DEF Idle, Done, Call

(* A write is a step of the log.                                           *)
LEMMA UpdatedIsAStep ==
    ASSUME NEW c \in Callers, NEW turns \in Seq(Saves), Writes(c, turns)
    PROVE  Updated(c, turns) \in Seq(Saves) /\ LogStep(turns, Updated(c, turns))
  <1>1. CASE c \in Saves
    <2>1. Append(turns, c) \in Seq(Saves) /\ Len(Append(turns, c)) \in Nat
      BY <1>1
    <2>2. LastTurns(Append(turns, c)) \in Seq(Saves)
      <3> DEFINE all == Append(turns, c)
      <3>1. CASE Len(all) > MaxTurns
        <4>1. Len(all) - MaxTurns + 1 \in 1..(Len(all) + 1)
          BY <2>1, <3>1, StoresAssumption
        <4> HIDE DEF all
        <4>2. SubSeq(all, Len(all) - MaxTurns + 1, Len(all)) \in Seq(Saves)
          BY <2>1, <3>1, <4>1, SubSeqProperties DEF all
        <4> QED
          BY <3>1, <4>2 DEF LastTurns, all
      <3>2. CASE ~(Len(all) > MaxTurns)
        BY <2>1, <3>2 DEF LastTurns
      <3> QED
        BY <3>1, <3>2
    <2> QED
      BY <1>1, <2>2 DEF Updated, LogStep
  <1>2. CASE c \notin Saves
    <2>1. turns # <<>> /\ Len(turns) \in Nat
      BY <1>2 DEF Writes, Matches
    <2>2. SubSeq(turns, 1, Len(turns) - 1) \in Seq(Saves)
      BY <2>1, SubSeqProperties
    <2> QED
      BY <1>2, <2>1, <2>2 DEF Updated, LogStep
  <1> QED
    BY <1>1, <1>2

(* The two logs in terms of LogStep.                                       *)
LEMMA RedisIsALog ==
    ASSUME redis' \in [Threads -> Seq(Saves)],
           \A t \in Threads : LogStep(redis[t], redis'[t])
    PROVE  RedisLog!LogNext
  <1>1. \A t \in Threads : \A new : LogStep(redis[t], new) <=>
          \/ new = redis[t] \/ new = <<>>
          \/ \E turn \in Saves : new = RedisLog!LastTurns(Append(redis[t], turn))
          \/ redis[t] # <<>> /\ new = SubSeq(redis[t], 1, Len(redis[t]) - 1)
    BY DEF LogStep, LastTurns, RedisLog!LastTurns
  <1> QED
    BY <1>1 DEF RedisLog!LogNext, RedisLog!Keep, RedisLog!Add, RedisLog!TakeBack, RedisLog!Forget

LEMMA MemoryIsALog ==
    ASSUME memory' \in [Threads -> Seq(Saves)],
           \A t \in Threads : LogStep(memory[t], memory'[t])
    PROVE  MemoryLog!LogNext
  <1>1. \A t \in Threads : \A new : LogStep(memory[t], new) <=>
          \/ new = memory[t] \/ new = <<>>
          \/ \E turn \in Saves : new = MemoryLog!LastTurns(Append(memory[t], turn))
          \/ memory[t] # <<>> /\ new = SubSeq(memory[t], 1, Len(memory[t]) - 1)
    BY DEF LogStep, LastTurns, MemoryLog!LastTurns
  <1> QED
    BY <1>1 DEF MemoryLog!LogNext, MemoryLog!Keep, MemoryLog!Add, MemoryLog!TakeBack, MemoryLog!Forget
-----------------------------------------------------------------------------

RedisSteps ==
    redis' \in [Threads -> Seq(Saves)] /\ \A t \in Threads : LogStep(redis[t], redis'[t])

MemorySteps ==
    memory' \in [Threads -> Seq(Saves)] /\ \A t \in Threads : LogStep(memory[t], memory'[t])

CallsKeepUp ==
    /\ call' \in [Callers -> Call]
    /\ \A c \in Callers : call'[c].at = "exec" /\ ~call'[c].dirty => Undisturbed(c)'

(* A call moves on without a write to Redis.                               *)
LEMMA CallMoves ==
    ASSUME StoreInv, UNCHANGED redis, NEW c \in Callers, NEW next \in Call,
           next.at = "exec" => next.seen = redis[ThreadOf[c]] /\ Writes(c, next.seen),
           call' = [call EXCEPT ![c] = next]
    PROVE  RedisSteps /\ CallsKeepUp
  <1>1. RedisSteps
    BY DEF StoreInv, RedisSteps, LogStep
  <1>2. call' \in [Callers -> Call] /\ call'[c] = next
    BY DEF StoreInv
  <1>3. \A d \in Callers \ {c} : call'[d] = call[d]
    BY DEF StoreInv
  <1>4. ASSUME NEW d \in Callers, call'[d].at = "exec", ~call'[d].dirty PROVE Undisturbed(d)'
    BY <1>2, <1>3, <1>4 DEF StoreInv, Undisturbed, Writes, Matches
  <1> QED
    BY <1>1, <1>2, <1>4 DEF CallsKeepUp

(* EXEC of a call that nobody disturbed: whoever watches the key is        *)
(* disturbed by it.                                                        *)
LEMMA CallWrites ==
    ASSUME StoreInv, NEW c \in Callers, NEW next \in Call, next.at = "done",
           call[c].at = "exec", ~call[c].dirty,
           redis' = [redis EXCEPT ![ThreadOf[c]] = Updated(c, call[c].seen)],
           call' = Touch(ThreadOf[c], c, next)
    PROVE  RedisSteps /\ CallsKeepUp
  <1>1. /\ ThreadOf[c] \in Threads
        /\ call[c].seen = redis[ThreadOf[c]]
        /\ redis[ThreadOf[c]] \in Seq(Saves)
        /\ Writes(c, redis[ThreadOf[c]])
    BY CallersAssumption DEF StoreInv, Undisturbed
  <1>2. /\ Updated(c, redis[ThreadOf[c]]) \in Seq(Saves)
        /\ LogStep(redis[ThreadOf[c]], Updated(c, redis[ThreadOf[c]]))
    BY <1>1, UpdatedIsAStep
  <1>3. RedisSteps
    BY <1>1, <1>2 DEF StoreInv, RedisSteps, LogStep
  <1>4. ASSUME NEW d \in Callers
        PROVE  /\ call'[d] \in Call
               /\ call'[d].at = "exec" /\ ~call'[d].dirty => Undisturbed(d)'
    <2>1. CASE d = c
      BY <2>1 DEF Touch, Call
    <2>2. CASE d # c /\ call[d].at = "exec" /\ ThreadOf[d] = ThreadOf[c]
      <3>1. call'[d] = [call[d] EXCEPT !.dirty = TRUE] /\ call[d] \in Call
        BY <2>2 DEF Touch, StoreInv
      <3> QED
        BY <3>1 DEF Call
    <2>3. CASE d # c /\ ~(call[d].at = "exec" /\ ThreadOf[d] = ThreadOf[c])
      <3>1. call'[d] = call[d] /\ call[d] \in Call
        BY <2>3 DEF Touch, StoreInv
      <3>2. ThreadOf[d] \in Threads
        BY CallersAssumption
      <3>3. call[d].at = "exec" => redis'[ThreadOf[d]] = redis[ThreadOf[d]]
        BY <2>3, <3>2 DEF StoreInv
      <3> QED
        BY <3>1, <3>3 DEF StoreInv, Undisturbed, Writes, Matches
    <2> QED
      BY <2>1, <2>2, <2>3
  <1>5. call' \in [Callers -> Call]
    BY <1>4 DEF Touch
  <1> QED
    BY <1>3, <1>4, <1>5 DEF CallsKeepUp

LEMMA MemoryKeeps ==
    ASSUME StoreInv, UNCHANGED memory PROVE MemorySteps
  BY DEF StoreInv, MemorySteps, LogStep

(* The memory takes over: the turn is added, or the last one goes.         *)
LEMMA FallbackIsAStep ==
    ASSUME StoreInv, NEW c \in Callers, Fallback(c, ThreadOf[c])
    PROVE  MemorySteps
  <1> DEFINE t == ThreadOf[c]
  <1>1. t \in Threads /\ memory[t] \in Seq(Saves) /\ <<>> \in Seq(Saves)
    BY CallersAssumption DEF StoreInv
  <1>2. Writes(c, memory[t]) => /\ Updated(c, memory[t]) \in Seq(Saves)
                                /\ LogStep(memory[t], Updated(c, memory[t]))
    BY <1>1, UpdatedIsAStep
  <1>3. CASE c \in Saves
    <2>1. Writes(c, memory[t])
      BY <1>3 DEF Writes
    <2>2. PICK out : memory' = [u \in Threads |->
                        IF u = t THEN Updated(c, memory[t])
                        ELSE IF u \in out THEN <<>> ELSE memory[u]]
      BY <1>3 DEF Fallback, MemorySave
    <2>3. ASSUME NEW u \in Threads
          PROVE  memory'[u] \in Seq(Saves) /\ LogStep(memory[u], memory'[u])
      <3>1. CASE u = t
        BY <1>2, <2>1, <2>2, <3>1
      <3>2. CASE u # t /\ u \in out
        BY <1>1, <2>2, <3>2 DEF LogStep
      <3>3. CASE u # t /\ u \notin out
        BY <2>2, <3>3 DEF LogStep, StoreInv
      <3> QED
        BY <3>1, <3>2, <3>3
    <2> QED
      BY <2>2, <2>3 DEF MemorySteps
  <1>4. CASE c \notin Saves /\ Matches(c, memory[t])
    <2>1. memory' = [memory EXCEPT ![t] = Updated(c, memory[t])]
      BY <1>4 DEF Fallback, MemoryPop, StoreInv
    <2>2. Writes(c, memory[t])
      BY <1>4 DEF Writes
    <2> QED
      BY <1>1, <1>2, <2>1, <2>2 DEF MemorySteps, StoreInv, LogStep
  <1>5. CASE c \notin Saves /\ ~Matches(c, memory[t])
    BY <1>5, MemoryKeeps DEF Fallback, MemoryPop
  <1> QED
    BY <1>3, <1>4, <1>5

LEMMA StepsKeepInv ==
    ASSUME StoreInv, RedisSteps, MemorySteps, CallsKeepUp
    PROVE  StoreInv' /\ RedisLog!LogNext /\ MemoryLog!LogNext
  BY RedisIsALog, MemoryIsALog DEF RedisSteps, MemorySteps, CallsKeepUp, StoreInv
(* The steps of a call.                                                    *)
LEMMA WatchSteps ==
    ASSUME StoreInv, NEW c \in Callers, Watch(c)
    PROVE  RedisSteps /\ MemorySteps /\ CallsKeepUp
  <1> DEFINE t == ThreadOf[c]
             next == IF Writes(c, redis[t])
                     THEN [call[c] EXCEPT !.at = "exec", !.seen = redis[t], !.dirty = FALSE]
                     ELSE Done(c, FALSE)
  <1>1. t \in Threads /\ redis[t] \in Seq(Saves) /\ call[c] \in Call
    BY CallersAssumption DEF StoreInv
  <1>2. next \in Call /\ (next.at = "exec" => next.seen = redis[t] /\ Writes(c, next.seen))
    <2>1. CASE Writes(c, redis[t])
      BY <1>1, <2>1 DEF Call
    <2>2. CASE ~Writes(c, redis[t])
      BY <2>2, IdleIsACall DEF Done, Idle
    <2> QED
      BY <2>1, <2>2
  <1>3. call' = [call EXCEPT ![c] = next] /\ UNCHANGED <<redis, memory>>
    BY DEF Watch, StoreInv
  <1> HIDE DEF next
  <1> QED
    BY <1>2, <1>3, CallMoves, MemoryKeeps

LEMMA ExecSteps ==
    ASSUME StoreInv, NEW c \in Callers, Exec(c)
    PROVE  RedisSteps /\ MemorySteps /\ CallsKeepUp
  <1> DEFINE next == Done(c, c \notin Saves)
  <1>1. next \in Call /\ next.at = "done"
    BY IdleIsACall DEF Done, Idle
  <1>2. /\ call[c].at = "exec" /\ ~call[c].dirty
        /\ redis' = [redis EXCEPT ![ThreadOf[c]] = Updated(c, call[c].seen)]
        /\ call' = Touch(ThreadOf[c], c, next)
        /\ UNCHANGED memory
    BY DEF Exec
  <1> HIDE DEF next
  <1> QED
    BY <1>1, <1>2, CallWrites, MemoryKeeps

LEMMA ExecConflictsSteps ==
    ASSUME StoreInv, NEW c \in Callers, ExecConflicts(c)
    PROVE  RedisSteps /\ MemorySteps /\ CallsKeepUp
  <1>1. call[c] \in Call /\ UNCHANGED redis
    BY DEF StoreInv, ExecConflicts
  <1>2. CASE call[c].tries + 1 < Attempts
    <2> DEFINE next == [Idle EXCEPT !.at = "watch", !.tries = call[c].tries + 1]
    <2>0. call[c].tries + 1 \in 0..Attempts
      <3>1. call[c].tries \in 0..Attempts
        BY <1>1 DEF Call
      <3> QED
        BY <1>2, <3>1, StoresAssumption
    <2>1. next \in Call /\ next.at # "exec"
      <3> DEFINE tries == call[c].tries + 1
      <3>1. tries \in 0..Attempts
        BY <2>0
      <3> HIDE DEF tries
      <3>2. [Idle EXCEPT !.at = "watch", !.tries = tries] \in Call
        BY <3>1, IdleIsACall DEF Idle, Call
      <3> QED
        BY <3>2 DEF Idle, tries
    <2>2. call' = [call EXCEPT ![c] = next] /\ UNCHANGED memory
      BY <1>2 DEF ExecConflicts
    <2> HIDE DEF next
    <2> QED
      BY <1>1, <2>1, <2>2, CallMoves, MemoryKeeps
  <1>3. CASE ~(call[c].tries + 1 < Attempts)
    <2> DEFINE next == Done(c, MemoryResult(c, ThreadOf[c]))
    <2>1. next \in Call /\ next.at # "exec"
      BY IdleIsACall DEF Done, Idle, MemoryResult
    <2>2. call' = [call EXCEPT ![c] = next] /\ Fallback(c, ThreadOf[c])
      BY <1>3 DEF ExecConflicts
    <2> HIDE DEF next
    <2> QED
      BY <1>1, <2>1, <2>2, CallMoves, FallbackIsAStep
  <1> QED
    BY <1>2, <1>3

LEMMA RedisFailsSteps ==
    ASSUME StoreInv, NEW c \in Callers, RedisFails(c)
    PROVE  RedisSteps /\ MemorySteps /\ CallsKeepUp
  <1> DEFINE next == Done(c, MemoryResult(c, ThreadOf[c]))
  <1>1. next \in Call /\ next.at = "done"
    BY IdleIsACall DEF Done, Idle, MemoryResult
  <1>2. /\ Fallback(c, ThreadOf[c])
        /\ \/ UNCHANGED redis /\ call' = [call EXCEPT ![c] = next]
           \/ /\ call[c].at = "exec" /\ ~call[c].dirty
              /\ redis' = [redis EXCEPT ![ThreadOf[c]] = Updated(c, call[c].seen)]
              /\ call' = Touch(ThreadOf[c], c, next)
    BY DEF RedisFails
  <1> HIDE DEF next
  <1>3. MemorySteps
    BY <1>2, FallbackIsAStep
  <1>4. RedisSteps /\ CallsKeepUp
    BY <1>1, <1>2, CallMoves, CallWrites
  <1> QED
    BY <1>3, <1>4

LEMMA AbandonSteps ==
    ASSUME StoreInv, NEW c \in Callers, Abandon(c), UNCHANGED memory
    PROVE  RedisSteps /\ MemorySteps /\ CallsKeepUp
  <1> DEFINE next == Done(c, FALSE)
  <1>1. next \in Call /\ next.at = "done"
    BY IdleIsACall DEF Done, Idle
  <1>2. \/ UNCHANGED redis /\ call' = [call EXCEPT ![c] = next]
        \/ /\ call[c].at = "exec" /\ ~call[c].dirty
           /\ redis' = [redis EXCEPT ![ThreadOf[c]] = Updated(c, call[c].seen)]
           /\ call' = Touch(ThreadOf[c], c, next)
    BY DEF Abandon
  <1> HIDE DEF next
  <1> QED
    BY <1>1, <1>2, CallMoves, CallWrites, MemoryKeeps

LEMMA NothingSteps ==
    ASSUME StoreInv, UNCHANGED <<redis, memory, call>>
    PROVE  RedisSteps /\ MemorySteps /\ CallsKeepUp
  BY MemoryKeeps DEF StoreInv, RedisSteps, LogStep, CallsKeepUp, Undisturbed, Writes, Matches

LEMMA GetSteps ==
    ASSUME StoreInv, NEW c \in Callers, NEW history, Get(c, history)
    PROVE  RedisSteps /\ MemorySteps /\ CallsKeepUp
  <1>1. CASE UNCHANGED storeVars
    BY <1>1, NothingSteps DEF storeVars
  <1>2. CASE MemoryGet(ThreadOf[c]) /\ UNCHANGED <<redis, call>>
    <2>1. RedisSteps /\ CallsKeepUp
      BY <1>2 DEF StoreInv, RedisSteps, LogStep, CallsKeepUp, Undisturbed, Writes, Matches
    <2>2. <<>> \in Seq(Saves)
      OBVIOUS
    <2>3. MemorySteps
      BY <1>2, <2>2 DEF StoreInv, MemoryGet, MemorySteps, LogStep
    <2> QED
      BY <2>1, <2>3
  <1> QED
    BY <1>1, <1>2 DEF Get

LEMMA ExpirySteps ==
    ASSUME StoreInv, Expiry
    PROVE  RedisSteps /\ MemorySteps /\ CallsKeepUp
  <1>1. PICK t \in Threads : RedisForgets(t) \/ MemoryExpires(t)
    BY CallersAssumption DEF Expiry
  <1>2. CASE MemoryExpires(t)
    BY <1>2, NothingSteps DEF MemoryExpires
  <1>3. CASE RedisForgets(t)
    <2>1. MemorySteps /\ <<>> \in Seq(Saves)
      BY <1>3, MemoryKeeps DEF RedisForgets
    <2>2. RedisSteps
      BY <1>3, <2>1 DEF RedisForgets, StoreInv, RedisSteps, LogStep
    <2>3. ASSUME NEW d \in Callers
          PROVE  /\ call'[d] \in Call
                 /\ call'[d].at = "exec" /\ ~call'[d].dirty => Undisturbed(d)'
      <3>1. CASE call[d].at = "exec" /\ ThreadOf[d] = t
        <4>1. call'[d] = [call[d] EXCEPT !.dirty = TRUE] /\ call[d] \in Call
          BY <1>3, <3>1 DEF RedisForgets, StoreInv
        <4> QED
          BY <4>1 DEF Call
      <3>2. CASE ~(call[d].at = "exec" /\ ThreadOf[d] = t)
        <4>1. call'[d] = call[d] /\ call[d] \in Call
          BY <1>3, <3>2 DEF RedisForgets, StoreInv
        <4>2. call[d].at = "exec" => redis'[ThreadOf[d]] = redis[ThreadOf[d]]
          BY <1>3, <3>2, CallersAssumption DEF RedisForgets, StoreInv
        <4> QED
          BY <4>1, <4>2 DEF StoreInv, Undisturbed, Writes, Matches
      <3> QED
        BY <3>1, <3>2
    <2>4. call' \in [Callers -> Call]
      BY <1>3, <2>3 DEF RedisForgets
    <2> QED
      BY <2>1, <2>2, <2>3, <2>4 DEF CallsKeepUp
  <1> QED
    BY <1>1, <1>2, <1>3

-----------------------------------------------------------------------------

(* What the requests do with the stores.                                   *)
LEMMA StoreStepSteps ==
    ASSUME StoreInv, NEW c \in Callers, StoreStep(c)
    PROVE  RedisSteps /\ MemorySteps /\ CallsKeepUp
  BY WatchSteps, ExecSteps, ExecConflictsSteps, RedisFailsSteps DEF StoreStep

LEMMA BeginSteps ==
    ASSUME StoreInv, NEW c \in Callers, Begin(c), UNCHANGED <<redis, memory>>
    PROVE  RedisSteps /\ MemorySteps /\ CallsKeepUp
  <1> DEFINE next == [Idle EXCEPT !.at = "watch"]
  <1>1. next \in Call /\ next.at # "exec"
    BY IdleIsACall DEF Idle, Call
  <1>2. call' = [call EXCEPT ![c] = next]
    BY DEF Begin
  <1> HIDE DEF next
  <1> QED
    BY <1>1, <1>2, CallMoves, MemoryKeeps

LEMMA SaveSessionSteps ==
    ASSUME StoreInv, NEW r \in Requests, SaveSession(r)
    PROVE  RedisSteps /\ MemorySteps /\ CallsKeepUp
  <1>0. r \in Callers
    BY RequestsAssumption
  <1>1. CASE Begin(r) /\ UNCHANGED <<redis, memory>>
    BY <1>0, <1>1, BeginSteps
  <1>2. CASE StoreStep(r)
    BY <1>0, <1>2, StoreStepSteps
  <1>3. CASE call' = [call EXCEPT ![r] = Idle] /\ UNCHANGED <<redis, memory>>
    <2>1. Idle \in Call /\ Idle.at # "exec"
      BY IdleIsACall DEF Idle
    <2> QED
      BY <1>0, <1>3, <2>1, CallMoves, MemoryKeeps
  <1> QED
    BY <1>1, <1>2, <1>3 DEF SaveSession

LEMMA CancelRunSteps ==
    ASSUME StoreInv, NEW r \in Requests, CancelRun(r)
    PROVE  RedisSteps /\ MemorySteps /\ CallsKeepUp
  <1>0. r \in Callers
    BY RequestsAssumption
  <1>1. CASE call[r].at \in {"watch", "exec"}
    BY <1>0, <1>1, AbandonSteps DEF CancelRun
  <1>2. CASE call[r].at \notin {"watch", "exec"}
    BY <1>2, NothingSteps DEF CancelRun, storeVars
  <1> QED
    BY <1>1, <1>2

LEMMA HandlerSteps ==
    ASSUME StoreInv, NEW r \in Requests, Handler(r)
    PROVE  RedisSteps /\ MemorySteps /\ CallsKeepUp
  <1>0. r \in Callers
    BY RequestsAssumption
  <1>1. CASE UNCHANGED storeVars
    BY <1>1, NothingSteps DEF storeVars
  <1>2. CASE LoadHistory(r)
    BY <1>0, <1>2, GetSteps DEF LoadHistory
  <1>3. CASE SaveSession(r)
    BY <1>3, SaveSessionSteps
  <1>4. CASE BreakOff(r)
    BY <1>1, <1>4, CancelRunSteps DEF BreakOff
  <1>5. CASE TestEnds(r) \/ Succeed(r) \/ WriteAudit(r) \/ Deny(r) \/ GiveUpQueue(r) \/ Resume(r)
    BY <1>1, <1>5 DEF TestEnds, Succeed, WriteAudit, Deny, GiveUpQueue, Resume
  <1>6. CASE Authenticate(r) \/ AcquireSlot(r) \/ Node(r)
    BY <1>1, <1>6 DEF Authenticate, AcquireSlot, Node
  <1> QED
    BY <1>2, <1>3, <1>4, <1>5, <1>6 DEF Handler

LEMMA NextSteps ==
    ASSUME StoreInv, [Next]_vars
    PROVE  RedisSteps /\ MemorySteps /\ CallsKeepUp
  <1>1. CASE UNCHANGED storeVars
    BY <1>1, NothingSteps DEF storeVars
  <1>2. ASSUME NEW r \in Requests, Step(r)
        PROVE  RedisSteps /\ MemorySteps /\ CallsKeepUp
    BY <1>1, <1>2, HandlerSteps DEF Step, MemoryNode
  <1>3. ASSUME NEW r \in Requests, Disconnect(r)
        PROVE  RedisSteps /\ MemorySteps /\ CallsKeepUp
    BY <1>1, <1>3, CancelRunSteps DEF Disconnect
  <1>4. ASSUME NEW c \in Pops, Pop(c)
        PROVE  RedisSteps /\ MemorySteps /\ CallsKeepUp
    <2>1. c \in Callers
      BY RequestsAssumption
    <2> QED
      BY <1>4, <2>1, BeginSteps, StoreStepSteps DEF Pop
  <1>5. CASE StoresForget
    BY <1>5, ExpirySteps DEF StoresForget
  <1> QED
    BY <1>1, <1>2, <1>3, <1>4, <1>5 DEF Next, vars

LEMMA InitStore ==
    ASSUME Init
    PROVE  StoreInv /\ RedisLog!LogInit /\ MemoryLog!LogInit
  <1>1. redis = [t \in Threads |-> <<>>] /\ memory = [t \in Threads |-> <<>>] /\ <<>> \in Seq(Saves)
    BY DEF Init, StoreInit
  <1>2. PICK coming : call = [c \in Callers |-> IF c \in coming THEN Idle ELSE Done(c, FALSE)]
    BY DEF Init
  <1>3. \A c \in Callers : call[c] \in Call /\ call[c].at # "exec"
    BY <1>2, IdleIsACall DEF Done, Idle
  <1>4. call \in [Callers -> Call]
    BY <1>2, <1>3
  <1> QED
    BY <1>1, <1>3, <1>4 DEF StoreInv, RedisLog!LogInit, MemoryLog!LogInit

(* Redis and the memory of the process are logs of turns, whoever appends, *)
(* takes back, fails, is cancelled or expires meanwhile.                   *)
THEOREM StoresImplementLogs == Spec => StoresAreLogs
  <1>1. Init => StoreInv /\ RedisLog!LogInit /\ MemoryLog!LogInit
    BY InitStore
  <1>2. StoreInv /\ [Next]_vars => StoreInv' /\ RedisLog!LogNext /\ MemoryLog!LogNext
    BY NextSteps, StepsKeepInv
  <1> QED
    BY <1>1, <1>2, PTL DEF Spec, StoresAreLogs, RedisLog!LogSpec, MemoryLog!LogSpec
-----------------------------------------------------------------------------
(***************************************************************************)
(* The slots.  The count of the semaphore is right only if the deque has   *)
(* each waiter once, nobody else, and no request enters twice.             *)
(***************************************************************************)

Entered(p) ==
    {r \in Requests : PrincipalOf[r] = p /\ slot[r] \in {"waiting", "granted", "held"}}

Holders == {r \in Requests : Has(r)}

Slots == {"out", "waiting", "granted", "held", "released"}

Waiters(list) ==
    /\ list \in Seq(Requests)
    /\ \A i \in 1..Len(list) : slot[list[i]] = "waiting"
    /\ \A i, j \in 1..Len(list) : list[i] = list[j] => i = j

SlotInv ==
    /\ slot \in [Requests -> Slots]
    /\ Waiters(queue)
    /\ free \in Nat
    /\ inflight \in [Principals -> Nat]
    /\ DOMAIN pc = Requests
    /\ \A r \in Requests : pc[r] \in {"new", "limits"} => slot[r] = "out"
    /\ SlotsAreConserved

LEMMA SetsAreFinite ==
    /\ IsFiniteSet(Holders) /\ Cardinality(Holders) \in Nat
    /\ \A p : IsFiniteSet(Entered(p)) /\ Cardinality(Entered(p)) \in Nat
  <1>1. Holders \in SUBSET Requests /\ \A p : Entered(p) \in SUBSET Requests
    BY DEF Holders, Entered
  <1> QED
    BY <1>1, PrincipalsAssumption, FS_Subset, FS_CardinalityType

(* As many waiters as are woken.                                           *)
LEMMA FirstWaiters ==
    ASSUME NEW list \in Seq(Requests), NEW n \in 0..Len(list),
           \A i, j \in 1..Len(list) : list[i] = list[j] => i = j
    PROVE  /\ IsFiniteSet({list[i] : i \in 1..n})
           /\ Cardinality({list[i] : i \in 1..n}) = n
  <1> DEFINE W == {list[i] : i \in 1..n}
             f == [i \in 1..n |-> list[i]]
  <1>1. n \in Nat /\ 1..n \subseteq 1..Len(list)
    OBVIOUS
  <1>2. f \in [1..n -> W]
    OBVIOUS
  <1>3. \A a, b \in 1..n : f[a] = f[b] => a = b
    BY <1>1
  <1>4. \A w \in W : \E a \in 1..n : f[a] = w
    OBVIOUS
  <1>5. f \in Bijection(1..n, W)
    BY <1>2, <1>3, <1>4 DEF Bijection, Injection, Surjection, IsInjective
  <1>6. ExistsBijection(1..n, W)
    BY <1>5 DEF ExistsBijection
  <1> HIDE DEF W
  <1>7. Cardinality(W) = n
    BY <1>1, <1>6, FS_CountingElements
  <1>8. IsFiniteSet(W)
    BY <1>1, <1>6, FS_NatBijection
  <1> QED
    BY <1>7, <1>8 DEF W

(* Wake in terms of sets: who holds a slot, who waits or runs.             *)
LEMMA WakeMoves ==
    ASSUME SlotInv, NEW r \in Requests, NEW own \in {"held", "released"},
           NEW list, Waiters(list), \A i \in 1..Len(list) : list[i] # r,
           NEW n \in 0..Len(list), Wake(r, own, list, n)
    PROVE  /\ slot' \in [Requests -> Slots]
           /\ Waiters(queue)'
           /\ Cardinality(Holders') =
                Cardinality(Holders \ {r}) + n + (IF own = "held" THEN 1 ELSE 0)
           /\ \A p \in Principals :
                Entered(p)' = IF own = "held" /\ PrincipalOf[r] = p THEN Entered(p) \cup {r}
                              ELSE Entered(p) \ {r}
           /\ \A q \in Requests \ {r} : slot[q] = "out" => slot'[q] = "out"
  <1> DEFINE W == {list[i] : i \in 1..n}
  <1>0. list \in Seq(Requests) /\ Len(list) \in Nat /\ n \in Nat
    BY DEF Waiters
  <1>1. /\ slot' = [q \in Requests |-> IF q = r THEN own
                                       ELSE IF q \in W THEN "granted" ELSE slot[q]]
        /\ queue' = SubSeq(list, n + 1, Len(list))
    BY DEF Wake
  <1>2. W \subseteq Requests /\ r \notin W /\ \A q \in W : slot[q] = "waiting"
    BY <1>0 DEF Waiters
  <1>3. slot' \in [Requests -> Slots]
    BY <1>1 DEF SlotInv, Slots
  <1>4. Waiters(queue)'
    <2>1. \A i \in (n + 1)..Len(list) : list[i] \in Requests
      BY <1>0
    <2>2. /\ queue' \in Seq(Requests)
          /\ Len(queue') = Len(list) - n
          /\ \A i \in 1..(Len(list) - n) : queue'[i] = list[n + i]
      <3>1. SubSeq(list, n + 1, Len(list)) \in Seq(Requests)
        BY <1>0, <2>1, SubSeqProperties
      <3>2. Len(SubSeq(list, n + 1, Len(list))) = Len(list) - n
        BY <1>0, <2>1, SubSeqProperties
      <3>3. \A i \in 1..(Len(list) - (n + 1) + 1) :
               SubSeq(list, n + 1, Len(list))[i] = list[(n + 1) + i - 1]
        BY <1>0, <2>1, SubSeqProperties
      <3>4. \A i \in 1..(Len(list) - n) : SubSeq(list, n + 1, Len(list))[i] = list[n + i]
        BY <1>0, <3>3
      <3> QED
        BY <1>1, <3>1, <3>2, <3>4
    <2>3. \A i \in 1..Len(queue') : slot'[queue'[i]] = "waiting"
      <3> SUFFICES ASSUME NEW i \in 1..Len(queue') PROVE slot'[queue'[i]] = "waiting"
        OBVIOUS
      <3>1. queue'[i] = list[n + i] /\ n + i \in 1..Len(list) /\ n + i \notin 1..n
        BY <1>0, <2>2
      <3>2. list[n + i] \in Requests /\ list[n + i] # r /\ slot[list[n + i]] = "waiting"
        BY <1>0, <3>1 DEF Waiters
      <3>3. list[n + i] \notin W
        BY <1>0, <3>1 DEF Waiters
      <3> HIDE DEF W
      <3> QED
        BY <1>1, <3>1, <3>2, <3>3
    <2>4. \A i, j \in 1..Len(queue') : queue'[i] = queue'[j] => i = j
      <3> SUFFICES ASSUME NEW i \in 1..Len(queue'), NEW j \in 1..Len(queue'), queue'[i] = queue'[j]
                   PROVE  i = j
        OBVIOUS
      <3>1. /\ queue'[i] = list[n + i] /\ n + i \in 1..Len(list)
            /\ queue'[j] = list[n + j] /\ n + j \in 1..Len(list)
        BY <1>0, <2>2
      <3>2. n + i = n + j
        BY <3>1 DEF Waiters
      <3> QED
        BY <1>0, <3>2
    <2> QED
      BY <2>2, <2>3, <2>4 DEF Waiters
  <1>5. Cardinality(Holders') = Cardinality(Holders \ {r}) + n + (IF own = "held" THEN 1 ELSE 0)
    <2> DEFINE rest == Holders \ {r}
    <2>1. IsFiniteSet(rest) /\ Cardinality(rest) \in Nat
      BY SetsAreFinite, FS_RemoveElement, FS_CardinalityType
    <2>2. IsFiniteSet(W) /\ Cardinality(W) = n
      BY <1>0, FirstWaiters DEF Waiters
    <2>3. rest \cap W = {}
      BY <1>2 DEF Holders, Has
    <2>4. Holders' = IF own = "held" THEN (rest \cup W) \cup {r} ELSE rest \cup W
      <3> HIDE DEF W
      <3>1. \A q \in Requests : slot'[q] = IF q = r THEN own ELSE IF q \in W THEN "granted" ELSE slot[q]
        BY <1>1
      <3> QED
        BY <1>2, <3>1 DEF Holders, Has
    <2> HIDE DEF W, rest
    <2>5. Cardinality(rest \cup W) = Cardinality(rest) + n /\ IsFiniteSet(rest \cup W)
      <3>1. Cardinality(rest \cap W) = 0
        BY <2>3, FS_EmptySet
      <3>2. /\ IsFiniteSet(rest \cup W)
            /\ Cardinality(rest \cup W) =
                  Cardinality(rest) + Cardinality(W) - Cardinality(rest \cap W)
        BY <2>1, <2>2, FS_Union
      <3> QED
        BY <1>0, <2>1, <2>2, <3>1, <3>2
    <2>6. r \notin rest \cup W
      BY <1>2 DEF rest
    <2>7. Cardinality((rest \cup W) \cup {r}) = Cardinality(rest) + n + 1
      BY <2>5, <2>6, FS_AddElement
    <2>8. CASE own = "held"
      BY <2>4, <2>7, <2>8 DEF rest
    <2>9. CASE own # "held"
      BY <2>1, <2>4, <2>5, <2>9, <1>0 DEF rest
    <2> QED
      BY <2>8, <2>9
  <1>6. ASSUME NEW p \in Principals
        PROVE  Entered(p)' = IF own = "held" /\ PrincipalOf[r] = p THEN Entered(p) \cup {r}
                             ELSE Entered(p) \ {r}
    <2> HIDE DEF W
    <2>1. \A q \in Requests : slot'[q] = IF q = r THEN own ELSE IF q \in W THEN "granted" ELSE slot[q]
      BY <1>1
    <2> QED
      BY <1>2, <2>1 DEF Entered
  <1>7. \A q \in Requests \ {r} : slot[q] = "out" => slot'[q] = "out"
    <2> HIDE DEF W
    <2> QED
      BY <1>1, <1>2
  <1> QED
    BY <1>3, <1>4, <1>5, <1>6, <1>7

(* deque.remove: the others wait as before.                                *)
LEMMA OthersWait ==
    ASSUME SlotInv, NEW r \in Requests
    PROVE  Waiters(Others(r)) /\ \A i \in 1..Len(Others(r)) : Others(r)[i] # r
  <1>0. queue \in Seq(Requests) /\ DOMAIN queue = 1..Len(queue) /\ Len(queue) \in Nat
    BY DEF SlotInv, Waiters
  <1>1. CASE \A i \in DOMAIN queue : queue[i] # r
    BY <1>0, <1>1 DEF Others, SlotInv
  <1>2. CASE \E i \in DOMAIN queue : queue[i] = r
    <2> DEFINE k == CHOOSE i \in DOMAIN queue : queue[i] = r
               a == SubSeq(queue, 1, k - 1)
               b == SubSeq(queue, k + 1, Len(queue))
    <2>1. k \in 1..Len(queue) /\ queue[k] = r
      BY <1>0, <1>2
    <2>2. Others(r) = a \o b
      BY <1>2 DEF Others, RemoveAt
    <2> HIDE DEF k
    <2>3. \A i \in 1..Len(queue) : queue[i] \in Requests
      BY <1>0
    <2>4. /\ a \in Seq(Requests) /\ Len(a) = k - 1
          /\ \A i \in 1..(k - 1) : a[i] = queue[i]
      <3>1. \A i \in 1..(k - 1) : queue[i] \in Requests
        BY <1>0, <2>1, <2>3
      <3>2. /\ a \in Seq(Requests)
            /\ Len(a) = IF 1 <= k - 1 THEN (k - 1) - 1 + 1 ELSE 0
            /\ \A i \in 1..((k - 1) - 1 + 1) : a[i] = queue[1 + i - 1]
        BY <1>0, <2>1, <3>1, SubSeqProperties
      <3> HIDE DEF a
      <3> QED
        BY <1>0, <2>1, <3>2
    <2>5. /\ b \in Seq(Requests) /\ Len(b) = Len(queue) - k
          /\ \A i \in 1..(Len(queue) - k) : b[i] = queue[k + i]
      <3>1. \A i \in (k + 1)..Len(queue) : queue[i] \in Requests
        BY <1>0, <2>1, <2>3
      <3>2. /\ b \in Seq(Requests)
            /\ Len(b) = IF k + 1 <= Len(queue) THEN Len(queue) - (k + 1) + 1 ELSE 0
            /\ \A i \in 1..(Len(queue) - (k + 1) + 1) : b[i] = queue[(k + 1) + i - 1]
        BY <1>0, <2>1, <3>1, SubSeqProperties
      <3> HIDE DEF b
      <3>3. Len(b) = Len(queue) - k
        <4>1. k \in Nat /\ Len(queue) \in Nat /\ k <= Len(queue)
          BY <1>0, <2>1
        <4>2. CASE k + 1 <= Len(queue)
          <5>1. Len(b) = Len(queue) - (k + 1) + 1
            BY <3>2, <4>2
          <5> QED
            BY <4>1, <5>1
        <4>3. CASE ~(k + 1 <= Len(queue))
          <5>1. Len(b) = 0
            BY <3>2, <4>3
          <5> QED
            BY <4>1, <4>3, <5>1
        <4> QED
          BY <4>2, <4>3
      <3>4. ASSUME NEW i \in 1..(Len(queue) - k) PROVE b[i] = queue[k + i]
        <4>1. i \in 1..(Len(queue) - (k + 1) + 1) /\ (k + 1) + i - 1 = k + i
          BY <1>0, <2>1
        <4>2. b[i] = queue[(k + 1) + i - 1]
          BY <4>1, <3>2
        <4> QED
          BY <4>1, <4>2
      <3> QED
        BY <3>2, <3>3, <3>4
    <2> HIDE DEF a, b
    <2> DEFINE c == a \o b
               at(i) == IF i < k THEN i ELSE i + 1
    <2>6. /\ c \in Seq(Requests) /\ Len(c) = Len(queue) - 1
          /\ \A i \in 1..Len(c) : at(i) \in 1..Len(queue) /\ at(i) # k /\ c[i] = queue[at(i)]
      <3>1. /\ c \in Seq(Requests) /\ Len(c) = Len(a) + Len(b)
            /\ \A i \in 1..Len(a) + Len(b) : c[i] = IF i <= Len(a) THEN a[i] ELSE b[i - Len(a)]
        BY <2>4, <2>5, ConcatProperties
      <3> HIDE DEF c
      <3>2. c \in Seq(Requests) /\ Len(c) = Len(queue) - 1
        BY <1>0, <2>1, <2>4, <2>5, <3>1
      <3>3. ASSUME NEW i \in 1..Len(c)
            PROVE  at(i) \in 1..Len(queue) /\ at(i) # k /\ c[i] = queue[at(i)]
        <4>0. i \in Nat /\ i >= 1 /\ i <= Len(queue) - 1 /\ k \in Nat
          BY <1>0, <2>1, <3>2
        <4>1. CASE i < k
          <5>1. i \in 1..(k - 1) /\ i <= Len(a) /\ i \in 1..Len(a) + Len(b)
            BY <4>0, <4>1, <1>0, <2>1, <2>4, <2>5
          <5> QED
            BY <4>0, <4>1, <5>1, <1>0, <2>1, <2>4, <3>1
        <4>2. CASE i >= k
          <5>1. i - (k - 1) \in 1..(Len(queue) - k) /\ ~(i <= Len(a)) /\ i \in 1..Len(a) + Len(b)
            BY <4>0, <4>2, <1>0, <2>1, <2>4, <2>5
          <5>2. c[i] = b[i - (k - 1)] /\ b[i - (k - 1)] = queue[k + (i - (k - 1))]
            BY <5>1, <2>4, <2>5, <3>1
          <5>3. k + (i - (k - 1)) = i + 1
            BY <4>0
          <5> QED
            BY <4>0, <4>2, <5>2, <5>3, <1>0
        <4> QED
          BY <4>0, <4>1, <4>2
      <3> QED
        BY <3>2, <3>3
    <2> HIDE DEF c
    <2>7. \A i \in 1..Len(c) : slot[c[i]] = "waiting" /\ c[i] # r
      <3> SUFFICES ASSUME NEW i \in 1..Len(c) PROVE slot[c[i]] = "waiting" /\ c[i] # r
        OBVIOUS
      <3>1. at(i) \in 1..Len(queue) /\ at(i) # k /\ c[i] = queue[at(i)]
        BY <2>6
      <3> HIDE DEF at
      <3> QED
        BY <3>1, <2>1 DEF SlotInv, Waiters
    <2>8. \A i, j \in 1..Len(c) : c[i] = c[j] => i = j
      <3> SUFFICES ASSUME NEW i \in 1..Len(c), NEW j \in 1..Len(c), c[i] = c[j] PROVE i = j
        OBVIOUS
      <3>1. at(i) = at(j)
        <4>1. /\ at(i) \in 1..Len(queue) /\ c[i] = queue[at(i)]
              /\ at(j) \in 1..Len(queue) /\ c[j] = queue[at(j)]
          BY <2>6
        <4> HIDE DEF at
        <4> QED
          BY <4>1 DEF SlotInv, Waiters
      <3> QED
        BY <3>1, <2>1, <2>6, <1>0
    <2> QED
      BY <2>2, <2>6, <2>7, <2>8 DEF Waiters, c
  <1> QED
    BY <1>1, <1>2

(* A request that waits or runs gets on, or ends: the slot it had goes to  *)
(* a waiter or is free again.                                              *)
LEMMA MovesKeepSlots ==
    ASSUME SlotInv, NEW r \in Requests, slot[r] \in {"waiting", "granted", "held"},
           NEW own \in {"held", "released"},
           NEW list, Waiters(list), \A i \in 1..Len(list) : list[i] # r,
           NEW n \in 0..Len(list), Wake(r, own, list, n),
           own = "held" => Has(r) /\ UNCHANGED inflight,
           own = "released" => Leave(r),
           free' \in Nat,
           free' = free + (IF Has(r) THEN 1 ELSE 0) - (IF own = "held" THEN 1 ELSE 0) - n,
           DOMAIN pc' = Requests,
           \A q \in Requests : pc'[q] \in {"new", "limits"} => pc[q] \in {"new", "limits"}
    PROVE  SlotInv'
  <1>1. /\ slot' \in [Requests -> Slots]
        /\ Waiters(queue)'
        /\ Cardinality(Holders') =
             Cardinality(Holders \ {r}) + n + (IF own = "held" THEN 1 ELSE 0)
        /\ \A p \in Principals :
             Entered(p)' = IF own = "held" /\ PrincipalOf[r] = p THEN Entered(p) \cup {r}
                           ELSE Entered(p) \ {r}
        /\ \A q \in Requests \ {r} : slot[q] = "out" => slot'[q] = "out"
    BY WakeMoves
  <1>2. Cardinality(Holders \ {r}) = Cardinality(Holders) - (IF Has(r) THEN 1 ELSE 0)
    <2>1. r \in Holders <=> Has(r)
      BY DEF Holders
    <2>2. IsFiniteSet(Holders) /\ Cardinality(Holders) \in Nat
      BY SetsAreFinite
    <2>3. Cardinality(Holders \ {r}) = IF r \in Holders THEN Cardinality(Holders) - 1 ELSE Cardinality(Holders)
      BY <2>2, FS_RemoveElement
    <2> QED
      BY <2>1, <2>2, <2>3
  <1>3. free' + Cardinality(Holders') = MaxConcurrency
    <2>1. free + Cardinality(Holders) = MaxConcurrency /\ free \in Nat
      BY DEF SlotInv, SlotsAreConserved, Holders
    <2>2. Cardinality(Holders) \in Nat /\ n \in Nat
      <3>1. Len(list) \in Nat
        BY DEF Waiters
      <3> QED
        BY <3>1, SetsAreFinite
    <2> QED
      BY <1>1, <1>2, <2>1, <2>2
  <1>4. /\ inflight' \in [Principals -> Nat]
        /\ \A p \in Principals : inflight'[p] = Cardinality(Entered(p)')
    <2>0. /\ PrincipalOf[r] \in Principals
          /\ inflight \in [Principals -> Nat]
          /\ \A p \in Principals : inflight[p] = Cardinality(Entered(p))
          /\ \A p \in Principals : r \in Entered(p) <=> PrincipalOf[r] = p
      BY PrincipalsAssumption DEF SlotInv, SlotsAreConserved, Entered
    <2>1. CASE own = "held"
      <3>1. ASSUME NEW p \in Principals PROVE Entered(p)' = Entered(p)
        <4>1. CASE PrincipalOf[r] = p
          <5>1. Entered(p)' = Entered(p) \cup {r} /\ r \in Entered(p)
            BY <4>1, <1>1, <2>0, <2>1
          <5> QED
            BY <5>1 DEF Entered
        <4>2. CASE PrincipalOf[r] # p
          <5>1. Entered(p)' = Entered(p) \ {r} /\ r \notin Entered(p)
            BY <4>2, <1>1, <2>0, <2>1
          <5> QED
            BY <5>1 DEF Entered
        <4> QED
          BY <4>1, <4>2
      <3> QED
        BY <2>0, <2>1, <3>1
    <2>2. CASE own = "released"
      <3> DEFINE me == PrincipalOf[r]
      <3>1. inflight' = [inflight EXCEPT ![me] = IF @ <= 1 THEN 0 ELSE @ - 1]
        BY <2>2 DEF Leave
      <3>2. \A p \in Principals : Entered(p)' = Entered(p) \ {r}
        BY <1>1, <2>2
      <3>3. \A p \in Principals : IsFiniteSet(Entered(p)) /\ Cardinality(Entered(p)) \in Nat
        BY SetsAreFinite
      <3>4. ASSUME NEW p \in Principals
            PROVE  Cardinality(Entered(p) \ {r}) =
                     IF p = me THEN Cardinality(Entered(p)) - 1 ELSE Cardinality(Entered(p))
        BY <2>0, <3>3, FS_RemoveElement
      <3>5. Cardinality(Entered(me)) >= 1
        <4>1. Entered(me) # {}
          BY <2>0
        <4>2. Cardinality(Entered(me)) # 0
          BY <4>1, <3>3, <2>0, FS_EmptySet
        <4> QED
          BY <4>2, <3>3, <2>0
      <3> HIDE DEF me
      <3>6. me \in Principals
        BY <2>0 DEF me
      <3>7. ASSUME NEW p \in Principals
            PROVE  inflight'[p] \in Nat /\ inflight'[p] = Cardinality(Entered(p)')
        <4>1. CASE p = me
          BY <4>1, <2>0, <3>1, <3>2, <3>3, <3>4, <3>5, <3>6
        <4>2. CASE p # me
          BY <4>2, <2>0, <3>1, <3>2, <3>3, <3>4, <3>6
        <4> QED
          BY <4>1, <4>2
      <3>8. inflight' \in [Principals -> Nat]
        BY <2>0, <3>1, <3>7
      <3> QED
        BY <3>7, <3>8
    <2> QED
      BY <2>1, <2>2
  <1>5. \A q \in Requests : pc'[q] \in {"new", "limits"} => slot'[q] = "out"
    BY <1>1 DEF SlotInv
  <1> QED
    BY <1>1, <1>3, <1>4, <1>5 DEF SlotInv, SlotsAreConserved, Holders, Entered, Has

(* A request enters the limits: it gets a slot or waits for one.           *)
LEMMA EnterKeepsSlots ==
    ASSUME SlotInv, NEW r \in Requests, pc[r] = "limits", Enter(r),
           DOMAIN pc' = Requests, pc'[r] \notin {"new", "limits"},
           \A q \in Requests : pc'[q] \in {"new", "limits"} => pc[q] \in {"new", "limits"}
    PROVE  SlotInv'
  <1>0. /\ slot[r] = "out" /\ slot \in [Requests -> Slots]
        /\ PrincipalOf[r] \in Principals
        /\ free \in Nat /\ queue \in Seq(Requests) /\ Len(queue) \in Nat
        /\ inflight \in [Principals -> Nat]
        /\ free + Cardinality(Holders) = MaxConcurrency
        /\ \A p \in Principals : inflight[p] = Cardinality(Entered(p))
    BY PrincipalsAssumption DEF SlotInv, SlotsAreConserved, Waiters, Entered, Holders
  <1>1. /\ IsFiniteSet(Holders) /\ Cardinality(Holders) \in Nat
        /\ \A p : IsFiniteSet(Entered(p)) /\ Cardinality(Entered(p)) \in Nat
    BY SetsAreFinite
  <1>2. inflight' = [inflight EXCEPT ![PrincipalOf[r]] = @ + 1]
    BY DEF Enter
  <1>3. \A i \in 1..Len(queue) : queue[i] # r
    BY <1>0 DEF SlotInv, Waiters
  <1>4. \E own \in {"waiting", "held"} : slot' = [slot EXCEPT ![r] = own]
    BY DEF Enter
  <1>5. /\ inflight' \in [Principals -> Nat]
        /\ \A p \in Principals : inflight'[p] = Cardinality(Entered(p)')
    <2>1. ASSUME NEW p \in Principals
          PROVE  inflight'[p] \in Nat /\ inflight'[p] = Cardinality(Entered(p)')
      <3>1. CASE p = PrincipalOf[r]
        <4>1. Entered(p)' = Entered(p) \cup {r} /\ r \notin Entered(p)
          BY <3>1, <1>0, <1>4 DEF Entered
        <4>2. Cardinality(Entered(p) \cup {r}) = Cardinality(Entered(p)) + 1
          BY <4>1, <1>1, FS_AddElement
        <4> QED
          BY <4>1, <4>2, <3>1, <1>0, <1>1, <1>2
      <3>2. CASE p # PrincipalOf[r]
        <4>1. Entered(p)' = Entered(p)
          BY <3>2, <1>0, <1>4 DEF Entered
        <4> QED
          BY <4>1, <3>2, <1>0, <1>1, <1>2
      <3> QED
        BY <3>1, <3>2
    <2>2. inflight' \in [Principals -> Nat]
      BY <2>1, <1>0, <1>2
    <2> QED
      BY <2>1, <2>2
  <1>6. slot' \in [Requests -> Slots] /\ \A q \in Requests \ {r} : slot'[q] = slot[q]
    BY <1>0, <1>4 DEF Slots
  <1>7. \A q \in Requests : pc'[q] \in {"new", "limits"} => slot'[q] = "out"
    BY <1>6 DEF SlotInv
  <1>8. CASE Locked
    <2>1. slot' = [slot EXCEPT ![r] = "waiting"] /\ queue' = Append(queue, r) /\ free' = free
      BY <1>8 DEF Enter
    <2>2. Holders' = Holders
      BY <1>0, <2>1 DEF Holders, Has
    <2>3. free' + Cardinality(Holders') = MaxConcurrency
      BY <1>0, <2>1, <2>2
    <2>4. /\ queue' \in Seq(Requests) /\ Len(queue') = Len(queue) + 1
          /\ \A i \in 1..Len(queue) : queue'[i] = queue[i]
          /\ queue'[Len(queue) + 1] = r
      BY <1>0, <2>1, AppendProperties
    <2>5. slot'[r] = "waiting"
      BY <1>0, <2>1
    <2>6. \A i \in 1..Len(queue') : slot'[queue'[i]] = "waiting"
      <3> SUFFICES ASSUME NEW i \in 1..Len(queue') PROVE slot'[queue'[i]] = "waiting"
        OBVIOUS
      <3>1. CASE i = Len(queue) + 1
        BY <3>1, <2>4, <2>5
      <3>2. CASE i # Len(queue) + 1
        <4>1. i \in 1..Len(queue)
          BY <3>2, <2>4, <1>0
        <4>2. queue[i] \in Requests /\ slot[queue[i]] = "waiting" /\ queue[i] # r
          BY <4>1, <1>0, <1>3 DEF SlotInv, Waiters
        <4> QED
          BY <4>1, <4>2, <2>4, <1>6
      <3> QED
        BY <3>1, <3>2
    <2>7. \A i, j \in 1..Len(queue') : queue'[i] = queue'[j] => i = j
      <3> SUFFICES ASSUME NEW i \in 1..Len(queue'), NEW j \in 1..Len(queue'), queue'[i] = queue'[j]
                   PROVE  i = j
        OBVIOUS
      <3>1. /\ i \in 1..Len(queue) \/ i = Len(queue) + 1
            /\ j \in 1..Len(queue) \/ j = Len(queue) + 1
        BY <2>4, <1>0
      <3> QED
        BY <3>1, <2>4, <1>3 DEF SlotInv, Waiters
    <2> QED
      BY <1>5, <1>6, <1>7, <2>1, <2>3, <2>4, <2>6, <2>7, <1>0
      DEF SlotInv, SlotsAreConserved, Waiters, Holders, Entered, Has
  <1>9. CASE ~Locked
    <2>1. slot' = [slot EXCEPT ![r] = "held"] /\ queue' = queue /\ free' = free - 1
      BY <1>9 DEF Enter
    <2>2. free # 0 /\ queue = <<>> /\ Len(queue) = 0
      BY <1>9 DEF Locked
    <2>3. Holders' = Holders \cup {r} /\ r \notin Holders
      BY <1>0, <2>1 DEF Holders, Has
    <2>4. Cardinality(Holders \cup {r}) = Cardinality(Holders) + 1
      BY <2>3, <1>1, FS_AddElement
    <2>5. free' \in Nat /\ free' + Cardinality(Holders') = MaxConcurrency
      BY <1>0, <1>1, <2>1, <2>2, <2>3, <2>4
    <2>6. Waiters(queue)'
      BY <1>0, <2>1, <2>2 DEF Waiters
    <2> QED
      BY <1>5, <1>6, <1>7, <2>5, <2>6
      DEF SlotInv, SlotsAreConserved, Holders, Entered, Has
  <1> QED
    BY <1>8, <1>9

LEMMA UnmovedSlots ==
    ASSUME SlotInv, UNCHANGED limitVars, DOMAIN pc' = Requests,
           \A q \in Requests : pc'[q] \in {"new", "limits"} => pc[q] \in {"new", "limits"}
    PROVE  SlotInv'
  BY DEF SlotInv, limitVars, SlotsAreConserved, Waiters, Has

LEMMA TakeUpKeepsSlots ==
    ASSUME SlotInv, NEW r \in Requests, TakeUp(r), DOMAIN pc' = Requests,
           \A q \in Requests : pc'[q] \in {"new", "limits"} => pc[q] \in {"new", "limits"}
    PROVE  SlotInv'
  <1> DEFINE n == Least(free, Len(queue))
  <1>1. /\ slot[r] = "granted" /\ UNCHANGED inflight
        /\ Wake(r, "held", queue, n) /\ free' = free - n
    BY DEF TakeUp, WakeAll
  <1>2. Waiters(queue) /\ free \in Nat /\ Len(queue) \in Nat
    BY DEF SlotInv, Waiters
  <1>3. \A i \in 1..Len(queue) : queue[i] # r
    BY <1>1, <1>2 DEF Waiters
  <1>4. n \in 0..Len(queue) /\ n <= free
    BY <1>2 DEF Least
  <1>5. Has(r)
    BY <1>1 DEF Has
  <1> HIDE DEF n
  <1>6. free' \in Nat /\ free' = free + 1 - 1 - n
    BY <1>1, <1>2, <1>4
  <1> QED
    BY <1>1, <1>2, <1>3, <1>4, <1>5, <1>6, MovesKeepSlots

LEMMA ReleaseKeepsSlots ==
    ASSUME SlotInv, NEW r \in Requests, Release(r), DOMAIN pc' = Requests,
           \A q \in Requests : pc'[q] \in {"new", "limits"} => pc[q] \in {"new", "limits"}
    PROVE  SlotInv'
  <1> DEFINE n == Least(1, Len(queue))
  <1>1. /\ slot[r] = "held" /\ Leave(r)
        /\ Wake(r, "released", queue, n) /\ free' = free + 1 - n
    BY DEF Release
  <1>2. Waiters(queue) /\ free \in Nat /\ Len(queue) \in Nat
    BY DEF SlotInv, Waiters
  <1>3. \A i \in 1..Len(queue) : queue[i] # r
    BY <1>1, <1>2 DEF Waiters
  <1>4. n \in 0..Len(queue) /\ n <= 1
    BY <1>2 DEF Least
  <1>5. Has(r)
    BY <1>1 DEF Has
  <1> HIDE DEF n
  <1>6. free' \in Nat /\ free' = free + 1 - 0 - n
    BY <1>1, <1>2, <1>4
  <1> QED
    BY <1>1, <1>2, <1>3, <1>4, <1>5, <1>6, MovesKeepSlots

LEMMA QueueTimeoutKeepsSlots ==
    ASSUME SlotInv, NEW r \in Requests, QueueTimeout(r), DOMAIN pc' = Requests,
           \A q \in Requests : pc'[q] \in {"new", "limits"} => pc[q] \in {"new", "limits"}
    PROVE  SlotInv'
  <1>1. PICK slots : /\ slots = free + (IF slot[r] = "granted" THEN 1 ELSE 0)
                     /\ WakeAll(r, "released", Others(r), slots)
    BY Zenon DEF QueueTimeout
  <1>2. slot[r] \in {"waiting", "granted"} /\ Leave(r)
    BY DEF QueueTimeout
  <1>3. PICK list : list = Others(r)
    OBVIOUS
  <1>4. Waiters(list) /\ \A i \in 1..Len(list) : list[i] # r
    BY <1>3, OthersWait
  <1>5. free \in Nat /\ Len(list) \in Nat
    BY <1>4 DEF SlotInv, Waiters
  <1>6. slots = free + (IF Has(r) THEN 1 ELSE 0)
    BY <1>1, <1>2 DEF Has
  <1>7. PICK n : n = Least(slots, Len(list))
    OBVIOUS
  <1>8. Wake(r, "released", list, n) /\ free' = slots - n
    BY Zenon, <1>1, <1>3, <1>7 DEF WakeAll
  <1>9. slots \in Nat /\ n \in 0..Len(list) /\ n <= slots
    BY <1>1, <1>5, <1>7 DEF Least
  <1>10. free' \in Nat /\ free' = free + (IF Has(r) THEN 1 ELSE 0) - 0 - n
    BY <1>5, <1>6, <1>8, <1>9
  <1> QED
    BY <1>2, <1>4, <1>8, <1>9, <1>10, MovesKeepSlots

LEMMA EndsKeepsSlots ==
    ASSUME SlotInv, NEW r \in Requests, NEW how, Ends(r, how)
    PROVE  SlotInv'
  <1>1. DOMAIN pc' = Requests
    BY DEF Ends, Goto, SlotInv
  <1>2. \A q \in Requests : pc'[q] \in {"new", "limits"} => pc[q] \in {"new", "limits"}
    BY DEF Ends, Goto, SlotInv
  <1> QED
    BY <1>1, <1>2, UnmovedSlots, ReleaseKeepsSlots DEF Ends

LEMMA HandlerKeepsSlots ==
    ASSUME SlotInv, NEW r \in Requests, Handler(r)
    PROVE  SlotInv'
  <1> DEFINE Moves == \A q \in Requests : pc'[q] \in {"new", "limits"} => pc[q] \in {"new", "limits"}
  <1>0. DOMAIN pc = Requests
    BY DEF SlotInv
  <1>1. CASE Authenticate(r)
    <2>1. Goto(r, "limits") \/ Goto(r, "done")
      BY <1>1 DEF Authenticate
    <2>2. pc[r] = "new" /\ UNCHANGED limitVars
      BY <1>1 DEF Authenticate
    <2> QED
      BY <1>0, <2>1, <2>2, UnmovedSlots DEF Goto
  <1>2. CASE AcquireSlot(r)
    <2>1. pc[r] = "limits"
      BY <1>2 DEF AcquireSlot
    <2>2. CASE Goto(r, "denied") /\ UNCHANGED limitVars
      BY <1>0, <2>2, UnmovedSlots DEF Goto
    <2>3. CASE Enter(r) /\ (Goto(r, "queue") \/ Run(r))
      BY <1>0, <2>1, <2>3, EnterKeepsSlots DEF Goto, Run
    <2> QED
      BY <1>2, <2>2, <2>3 DEF AcquireSlot
  <1>3. CASE Resume(r)
    BY <1>0, <1>3, TakeUpKeepsSlots DEF Resume, Run, Goto
  <1>4. CASE GiveUpQueue(r)
    BY <1>0, <1>4, QueueTimeoutKeepsSlots DEF GiveUpQueue, Goto
  <1>5. CASE Deny(r)
    BY <1>0, <1>5, UnmovedSlots DEF Deny, Goto
  <1>6. CASE Node(r) \/ LoadHistory(r) \/ SaveSession(r)
    <2>1. UNCHANGED <<pc, limitVars>>
      BY <1>6 DEF Node, LoadHistory, SaveSession
    <2> QED
      BY <1>0, <2>1, UnmovedSlots
  <1>7. CASE Succeed(r) \/ BreakOff(r) \/ TestEnds(r)
    <2>1. Ends(r, "success") \/ Ends(r, "error") \/ Ends(r, "timeout")
      BY <1>7 DEF Succeed, BreakOff, TestEnds
    <2> QED
      BY <2>1, EndsKeepsSlots
  <1>8. CASE WriteAudit(r)
    <2>1. Goto(r, "done") /\ (Release(r) \/ UNCHANGED limitVars)
      BY <1>8 DEF WriteAudit
    <2> QED
      BY <1>0, <2>1, UnmovedSlots, ReleaseKeepsSlots DEF Goto
  <1> QED
    BY <1>1, <1>2, <1>3, <1>4, <1>5, <1>6, <1>7, <1>8 DEF Handler

LEMMA NextKeepsSlots ==
    ASSUME SlotInv, [Next]_vars
    PROVE  SlotInv'
  <1>0. DOMAIN pc = Requests
    BY DEF SlotInv
  <1>1. CASE UNCHANGED <<pc, limitVars>>
    BY <1>0, <1>1, UnmovedSlots
  <1>2. ASSUME NEW r \in Requests, Step(r)
        PROVE  SlotInv'
    BY <1>1, <1>2, HandlerKeepsSlots DEF Step, MemoryNode
  <1>3. ASSUME NEW r \in Requests, Disconnect(r)
        PROVE  SlotInv'
    BY <1>1, <1>3, EndsKeepsSlots DEF Disconnect
  <1>4. ASSUME NEW c \in Pops, Pop(c)
        PROVE  SlotInv'
    BY <1>1, <1>4 DEF Pop
  <1>5. CASE StoresForget
    BY <1>1, <1>5 DEF StoresForget
  <1> QED
    BY <1>1, <1>2, <1>3, <1>4, <1>5 DEF Next, vars

LEMMA InitSlots ==
    ASSUME Init
    PROVE  SlotInv
  <1>1. /\ slot = [r \in Requests |-> "out"] /\ queue = <<>> /\ free = MaxConcurrency
        /\ inflight = [p \in Principals |-> 0] /\ DOMAIN pc = Requests
    BY DEF Init, LimitsInit
  <1>2. Waiters(queue)
    BY <1>1 DEF Waiters
  <1>3. Holders = {} /\ \A p \in Principals : Entered(p) = {}
    BY <1>1 DEF Holders, Entered, Has
  <1>4. Cardinality(Holders) = 0 /\ \A p \in Principals : Cardinality(Entered(p)) = 0
    BY <1>3, FS_EmptySet
  <1>5. SlotsAreConserved
    BY <1>1, <1>4, LimitsAssumption DEF SlotsAreConserved, Holders, Entered
  <1> QED
    BY <1>1, <1>2, <1>5, LimitsAssumption DEF SlotInv, Slots

(* However many requests of however many principals come, wait, time out,  *)
(* end and are cancelled, no slot is lost or made, and the count of a      *)
(* principal is the number of its requests that wait or run.               *)
THEOREM SlotsConserved == Spec => []SlotsAreConserved
  <1>1. Init => SlotInv
    BY InitSlots
  <1>2. SlotInv /\ [Next]_vars => SlotInv'
    BY NextKeepsSlots
  <1>3. SlotInv => SlotsAreConserved
    BY DEF SlotInv
  <1> QED
    BY <1>1, <1>2, <1>3, PTL DEF Spec

-----------------------------------------------------------------------------
(***************************************************************************)
(* The graph.  What is true at each node of a run, for the bounds and the  *)
(* evidence of its answer.                                                 *)
(***************************************************************************)

(* How many tools have been used.                                          *)
Used(tools) ==
    (IF "overall" \in tools THEN 1 ELSE 0) + (IF "platform" \in tools THEN 1 ELSE 0)
        + (IF "product" \in tools THEN 1 ELSE 0)

Fresh(s) ==
    /\ ~s.sqlError /\ ~s.analysisError /\ ~s.note /\ s.answer = "none"
    /\ s.retries = 0 /\ s.calls = 0 /\ s.evidence = {}
    /\ s.generated = NoSql /\ s.sql = NoSql /\ s.rows = NoSql

Generating(s) ==
    /\ ~s.analysisError /\ ~s.note /\ s.answer = "none"
    /\ s.retries <= 1 /\ s.rows = NoSql /\ s.evidence = {}

Analysing(s) ==
    /\ ~s.sqlError /\ ~s.analysisError /\ ~s.note /\ s.answer = "none"
    /\ s.rows = s.sql
    /\ IF s.evidence = {} THEN s.rows = NoSql
       ELSE "overall" \in s.evidence /\ s.rows \in s.evidence

Grounded(s) ==
    \/ s.intent \notin {"data", "hybrid"}
    \/ s.rows \in Candidates /\ s.rows = s.generated
    \/ s.rows \in Tools /\ s.rows \in s.evidence /\ "overall" \in s.evidence

Answered(s, n) == s.calls <= 3 /\ s.nodes <= n /\ RestsOnEvidence(s)

OnItsWay(s) ==
    /\ s \in RuntimeState
    /\ s.node = "input_safety" => Fresh(s) /\ s.nodes = 0
    /\ s.node = "load_history" => Fresh(s) /\ s.nodes <= 1
    /\ s.node = "load_memory" => Fresh(s) /\ s.nodes <= 2
    /\ s.node = "route" => Fresh(s) /\ s.nodes <= 3
    /\ s.node = "safe_response" => Fresh(s) /\ s.nodes <= 4
    /\ s.node = "retrieve" => Fresh(s) /\ s.nodes <= 4 /\ s.intent \in {"knowledge", "hybrid"}
    /\ s.node = "load_schema" => Fresh(s) /\ s.nodes <= 5
    /\ s.node = "generate_sql" =>
         Generating(s) /\ s.calls <= s.retries /\ s.nodes <= 6 + 3 * s.retries
    /\ s.node = "validate_sql" =>
         /\ Generating(s) /\ s.calls <= s.retries + 1 /\ s.nodes <= 7 + 3 * s.retries
         /\ s.generated \in Candidates
    /\ s.node = "execute_sql" =>
         /\ Generating(s) /\ s.calls <= s.retries + 1 /\ s.nodes <= 8 + 3 * s.retries
         /\ s.generated \in Candidates /\ s.sql = s.generated
    /\ s.node = "analysis_plan" =>
         /\ Analysing(s) /\ s.nodes <= 6 + 2 * Used(s.evidence)
         /\ s.calls <= (IF s.evidence = {} THEN 0 ELSE Used(s.evidence) - 1)
    /\ s.node = "analysis_execute" =>
         /\ Analysing(s) /\ s.nodes <= 7 + 2 * Used(s.evidence)
         /\ s.calls <= Used(s.evidence)
         /\ s.action \in Tools \ s.evidence
         /\ s.evidence = {} <=> s.action = "overall"
    /\ s.node = "synthesize" =>
         /\ s.answer = "none" /\ s.calls <= 2 /\ s.nodes <= 13
         /\ s.rows # NoSql => s.rows = s.sql
         /\ ~s.sqlError => Grounded(s)
         /\ s.sqlError /\ ~s.analysisError => s.rows = NoSql
    /\ s.node = "save_session" => Answered(s, 14)
    /\ s.node = "save_memory" => Answered(s, 15)
    /\ s.node = "save_episode" => Answered(s, 16)
    /\ s.node = "finalize" => Answered(s, 17)
    /\ s.node = "end" => Answered(s, 18)

Fields == {"node", "intent", "analysis", "sqlError", "retries", "generated", "sql", "rows",
           "evidence", "compared", "action", "analysisError", "note", "answer", "calls", "nodes"}

(* t differs from s in nothing but some fields.                            *)
Alike(s, t, fields) == \A x \in Fields \ fields : t[x] = s[x]

HasFields(s) == DOMAIN s = Fields /\ s = [x \in Fields |-> s[x]]

LEMMA StateFields == \A s \in RuntimeState : HasFields(s)
  BY DEF RuntimeState, Fields, HasFields

LEMMA StateType ==
    ASSUME NEW s, HasFields(s), s.node \in Nodes,
           s.intent \in Intents, s.analysis \in BOOLEAN, s.sqlError \in BOOLEAN, s.retries \in 0..2,
           s.generated \in Candidates \cup {NoSql}, s.sql \in Candidates \cup Tools \cup {NoSql},
           s.rows \in Candidates \cup Tools \cup {NoSql}, s.evidence \in SUBSET Tools,
           s.compared \in {"nothing", "falling", "rising"}, s.action \in Tools \cup {NoSql},
           s.analysisError \in BOOLEAN, s.note \in BOOLEAN, s.answer \in Answers,
           s.calls \in Nat, s.nodes \in Nat
    PROVE  s \in RuntimeState
  BY DEF RuntimeState, HasFields, Fields

LEMMA ToStep ==
    ASSUME NEW s, HasFields(s), NEW n
    PROVE  /\ HasFields(To(s, n))
           /\ Alike(s, To(s, n), {"node", "nodes"})
           /\ To(s, n).node = n /\ To(s, n).nodes = s.nodes + 1
  BY DEF To, Alike, HasFields, Fields

LEMMA CalledStep ==
    ASSUME NEW s, HasFields(s)
    PROVE  /\ HasFields(Called(s))
           /\ Alike(s, Called(s), {"calls"}) /\ Called(s).calls = s.calls + 1
  BY DEF Called, Alike, HasFields, Fields

LEMMA SqlFailedStep ==
    ASSUME NEW s, HasFields(s), NEW t, t = SqlFailed(s)
    PROVE  /\ HasFields(t)
           /\ Alike(s, t, {"node", "nodes", "sqlError", "retries"})
           /\ t.sqlError = TRUE /\ t.sqlError \in BOOLEAN /\ t.retries = s.retries + 1 /\ t.nodes = s.nodes + 1
           /\ t.node = IF s.retries + 1 <= 1 THEN "generate_sql" ELSE "synthesize"
  <1> DEFINE n == IF s.retries + 1 <= 1 THEN "generate_sql" ELSE "synthesize"
  <1>1. t = To([s EXCEPT !.sqlError = TRUE, !.retries = @ + 1], n)
    BY DEF SqlFailed
  <1> HIDE DEF n
  <1>2. /\ HasFields(t)
        /\ Alike(s, t, {"node", "nodes", "sqlError", "retries"})
        /\ t.sqlError = TRUE /\ t.sqlError \in BOOLEAN /\ t.retries = s.retries + 1 /\ t.nodes = s.nodes + 1 /\ t.node = n
    <2> DEFINE u == [s EXCEPT !.sqlError = TRUE, !.retries = @ + 1]
    <2>1. /\ HasFields(u) /\ Alike(s, u, {"sqlError", "retries"})
          /\ u.sqlError = TRUE /\ u.sqlError \in BOOLEAN /\ u.retries = s.retries + 1
      BY DEF HasFields, Fields, Alike
    <2>2. t = To(u, n)
      BY <1>1
    <2> HIDE DEF u
    <2> QED
      BY <2>1, <2>2, ToStep DEF Alike, Fields
  <1> QED
    BY <1>2 DEF n

(* A failure of the statement, whichever node it comes from.               *)
LEMMA FailureIsOnItsWay ==
    ASSUME NEW s \in RuntimeState, Generating(s), s.calls <= s.retries + 1,
           s.nodes <= 8 + 3 * s.retries, NEW t, t = SqlFailed(s)
    PROVE  OnItsWay(t)
  <1>1. HasFields(s)
    BY StateFields
  <1>2. /\ HasFields(t)
        /\ Alike(s, t, {"node", "nodes", "sqlError", "retries"})
        /\ t.sqlError = TRUE /\ t.sqlError \in BOOLEAN /\ t.retries = s.retries + 1 /\ t.nodes = s.nodes + 1
        /\ t.node = IF s.retries + 1 <= 1 THEN "generate_sql" ELSE "synthesize"
    BY <1>1, SqlFailedStep
  <1>3. s.retries \in {0, 1} /\ s.calls \in Nat /\ s.nodes \in Nat
    BY DEF Generating, RuntimeState
  <1>4. t \in RuntimeState
    BY <1>1, <1>2, <1>3, StateType DEF Alike, Fields, RuntimeState, Nodes, Answers
  <1>5. CASE s.retries = 0
    <2>1. t.node = "generate_sql" /\ Generating(t) /\ t.calls <= t.retries /\ t.nodes <= 6 + 3 * t.retries
      BY <1>2, <1>3, <1>5 DEF Alike, Fields, Generating
    <2> QED
      BY <1>4, <2>1 DEF OnItsWay
  <1>6. CASE s.retries = 1
    <2>1. /\ t.node = "synthesize" /\ t.sqlError /\ t.answer = "none" /\ t.calls <= 2 /\ t.nodes <= 13
          /\ t.rows = NoSql
      BY <1>2, <1>3, <1>6 DEF Alike, Fields, Generating
    <2> QED
      BY <1>4, <2>1 DEF OnItsWay
  <1> QED
    BY <1>3, <1>5, <1>6

LEMMA FirstNodes ==
    ASSUME NEW s, OnItsWay(s), NEW t,
           \/ s.node = "input_safety" /\ t \in InputSafety(s)
           \/ s.node = "load_history" /\ t = To(s, "load_memory")
           \/ s.node = "load_memory" /\ t = To(s, "route")
           \/ s.node = "route" /\ t \in Route(s)
           \/ s.node = "retrieve" /\ t \in Retrieve(s)
    PROVE  OnItsWay(t)
  <1>1. s \in RuntimeState /\ HasFields(s) /\ Fresh(s)
    BY StateFields DEF OnItsWay
  <1>2. PICK n : t = To(s, n)
    BY DEF InputSafety, Route, Retrieve
  <1>3. /\ Alike(s, t, {"node", "nodes"}) /\ HasFields(t)
        /\ t.node = n /\ t.nodes = s.nodes + 1
    BY <1>1, <1>2, ToStep
  <1>4. /\ Fresh(t) /\ t.intent = s.intent /\ s.nodes \in Nat /\ s.intent \in Intents
    BY <1>1, <1>3 DEF Alike, Fields, Fresh, RuntimeState
  <1>5. /\ t.node \in Nodes => t \in RuntimeState
    BY <1>1, <1>3, StateType DEF Alike, Fields, RuntimeState
  <1>6. CASE s.node = "input_safety" /\ t \in InputSafety(s)
    <2>1. t.node = "load_history" /\ s.nodes = 0
      BY <1>1, <1>6, ToStep DEF InputSafety, OnItsWay
    <2> QED
      BY <1>3, <1>4, <1>5, <2>1 DEF OnItsWay, Nodes
  <1>7. CASE s.node = "load_history" /\ t = To(s, "load_memory")
    <2>1. t.node = "load_memory" /\ s.nodes <= 1
      BY <1>1, <1>7, ToStep DEF OnItsWay
    <2> QED
      BY <1>3, <1>4, <1>5, <2>1 DEF OnItsWay, Nodes
  <1>8. CASE s.node = "load_memory" /\ t = To(s, "route")
    <2>1. t.node = "route" /\ s.nodes <= 2
      BY <1>1, <1>8, ToStep DEF OnItsWay
    <2> QED
      BY <1>3, <1>4, <1>5, <2>1 DEF OnItsWay, Nodes
  <1>9. CASE s.node = "route" /\ t \in Route(s)
    <2>1. s.nodes <= 3
      BY <1>9 DEF OnItsWay
    <2>2. \/ t = To(s, "safe_response")
          \/ t = To(s, "retrieve") /\ s.intent \in {"knowledge", "hybrid"}
          \/ t = To(s, "load_schema")
      BY <1>9 DEF Route
    <2>3. \/ t.node = "safe_response"
          \/ t.node = "retrieve" /\ s.intent \in {"knowledge", "hybrid"}
          \/ t.node = "load_schema"
      BY <1>1, <2>2, ToStep
    <2> QED
      BY <1>3, <1>4, <1>5, <2>1, <2>3 DEF OnItsWay, Nodes
  <1>10. CASE s.node = "retrieve" /\ t \in Retrieve(s)
    <2>1. s.nodes <= 4 /\ s.intent \in {"knowledge", "hybrid"}
      BY <1>10 DEF OnItsWay
    <2>2. \/ t = To(s, "load_schema")
          \/ t = To(s, "synthesize") /\ s.intent # "hybrid"
      BY <1>10 DEF Retrieve
    <2>3. \/ t.node = "load_schema"
          \/ t.node = "synthesize" /\ s.intent = "knowledge"
      BY <1>1, <2>1, <2>2, ToStep
    <2>4. CASE t.node = "load_schema"
      BY <1>3, <1>4, <1>5, <2>1, <2>4 DEF OnItsWay, Nodes
    <2>5. CASE t.node = "synthesize" /\ t.intent = "knowledge"
      <3>1. /\ t.answer = "none" /\ t.calls <= 2 /\ t.nodes <= 13 /\ t.rows = NoSql
            /\ Grounded(t)
        BY <1>3, <1>4, <2>1, <2>5 DEF Fresh, Grounded
      <3> QED
        BY <1>5, <2>5, <3>1 DEF OnItsWay, Nodes
    <2> QED
      BY <1>4, <2>3, <2>4, <2>5
  <1> QED
    BY <1>6, <1>7, <1>8, <1>9, <1>10

LEMMA SafeResponseIsOnItsWay ==
    ASSUME NEW s, OnItsWay(s), s.node = "safe_response", NEW t \in SafeResponse(s)
    PROVE  OnItsWay(t)
  <1>1. s \in RuntimeState /\ HasFields(s)
    BY StateFields DEF OnItsWay
  <1>2. /\ Alike(s, t, {"node", "nodes", "answer"}) /\ HasFields(t)
        /\ t.node = "save_session" /\ t.nodes = s.nodes + 1 /\ t.answer = "safe"
    BY <1>1 DEF SafeResponse, To, HasFields, Fields, Alike
  <1>3. t \in RuntimeState
    BY <1>1, <1>2, StateType DEF Alike, Fields, RuntimeState, Nodes, Answers
  <1>4. Answered(t, 14)
    BY <1>1, <1>2
    DEF Alike, Fields, RuntimeState, OnItsWay, Answered, RestsOnEvidence, Fresh, NoSql, Candidates, Tools
  <1> QED
    BY <1>2, <1>3, <1>4 DEF OnItsWay

LEMMA LoadSchemaIsOnItsWay ==
    ASSUME NEW s, OnItsWay(s), s.node = "load_schema", NEW t \in LoadSchema(s)
    PROVE  OnItsWay(t)
  <1>1. /\ s \in RuntimeState /\ HasFields(s) /\ Fresh(s) /\ s.nodes <= 5
        /\ s.nodes \in Nat
    BY StateFields DEF OnItsWay, RuntimeState
  <1>2. CASE \E n \in {"analysis_plan", "generate_sql"} : t = To(s, n)
    <2>1. PICK n \in {"analysis_plan", "generate_sql"} : t = To(s, n)
      BY <1>2
    <2>2. /\ Alike(s, t, {"node", "nodes"}) /\ HasFields(t)
          /\ t.node = n /\ t.nodes = s.nodes + 1
      BY <1>1, <2>1, ToStep
    <2>3. t \in RuntimeState
      BY <1>1, <2>2, StateType DEF Alike, Fields, RuntimeState, Nodes
    <2>4. Fresh(t) /\ t.nodes <= 6
      BY <1>1, <2>2 DEF Alike, Fields, Fresh
    <2>5. CASE n = "generate_sql"
      <3>1. Generating(t) /\ t.calls <= t.retries /\ t.nodes <= 6 + 3 * t.retries
        BY <2>4 DEF Fresh, Generating
      <3> QED
        BY <2>2, <2>3, <2>5, <3>1 DEF OnItsWay
    <2>6. CASE n = "analysis_plan"
      <3>1. Analysing(t) /\ t.calls = 0 /\ t.evidence = {}
        BY <2>4 DEF Fresh, Analysing
      <3>2. Used({}) = 0
        BY DEF Used
      <3> QED
        BY <2>2, <2>3, <2>4, <2>6, <3>1, <3>2 DEF OnItsWay
    <2> QED
      BY <2>5, <2>6
  <1>3. CASE t = To([s EXCEPT !.sqlError = TRUE], "synthesize")
    <2>1. /\ Alike(s, t, {"node", "nodes", "sqlError"}) /\ HasFields(t)
          /\ t.node = "synthesize" /\ t.nodes = s.nodes + 1 /\ t.sqlError = TRUE /\ t.sqlError \in BOOLEAN
      BY <1>1, <1>3 DEF To, HasFields, Fields, Alike
    <2>2. t \in RuntimeState
      BY <1>1, <2>1, StateType DEF Alike, Fields, RuntimeState, Nodes
    <2>3. t.answer = "none" /\ t.calls <= 2 /\ t.nodes <= 13 /\ t.rows = NoSql
      BY <1>1, <2>1 DEF Alike, Fields, Fresh
    <2> QED
      BY <2>1, <2>2, <2>3 DEF OnItsWay
  <1> QED
    BY <1>2, <1>3 DEF LoadSchema

LEMMA StatementsAreOnTheirWay ==
    ASSUME NEW s, OnItsWay(s), NEW t,
           \/ s.node = "generate_sql" /\ t \in GenerateSql(s)
           \/ s.node = "validate_sql" /\ t \in ValidateSql(s)
           \/ s.node = "execute_sql" /\ t \in ExecuteSql(s)
    PROVE  OnItsWay(t)
  <1>1. /\ s \in RuntimeState /\ HasFields(s) /\ Generating(s)
        /\ s.retries \in {0, 1} /\ s.nodes \in Nat /\ s.calls \in Nat
    BY StateFields DEF OnItsWay, RuntimeState, Generating
  <1>2. CASE s.node = "generate_sql" /\ t \in GenerateSql(s)
    <2> DEFINE u == Called(s)
    <2>1. HasFields(u) /\ Alike(s, u, {"calls"}) /\ u.calls = s.calls + 1
      BY <1>1, CalledStep
    <2>2. s.calls <= s.retries /\ s.nodes <= 6 + 3 * s.retries
      BY <1>2 DEF OnItsWay
    <2>3. \/ \E g \in Candidates : t = To([u EXCEPT !.generated = g, !.sqlError = FALSE], "validate_sql")
          \/ t = SqlFailed([u EXCEPT !.generated = NoSql])
      BY <1>2 DEF GenerateSql, Candidates
    <2> HIDE DEF u
    <2>4. ASSUME NEW g \in Candidates,
                 t = To([u EXCEPT !.generated = g, !.sqlError = FALSE], "validate_sql")
          PROVE  OnItsWay(t)
      <3>1. /\ HasFields(t) /\ Alike(u, t, {"node", "nodes", "generated", "sqlError"})
            /\ t.node = "validate_sql" /\ t.nodes = u.nodes + 1 /\ t.generated = g /\ t.sqlError = FALSE /\ t.sqlError \in BOOLEAN
        BY <2>1, <2>4 DEF To, HasFields, Fields, Alike
      <3>2. t \in RuntimeState
        BY <1>1, <2>1, <3>1, StateType DEF Alike, Fields, RuntimeState, Nodes
      <3>3. /\ Generating(t) /\ t.calls <= t.retries + 1 /\ t.nodes <= 7 + 3 * t.retries
            /\ t.generated \in Candidates
        BY <1>1, <2>1, <2>2, <3>1 DEF Alike, Fields, Generating
      <3> QED
        BY <3>1, <3>2, <3>3 DEF OnItsWay
    <2>5. CASE t = SqlFailed([u EXCEPT !.generated = NoSql])
      <3> DEFINE v == [u EXCEPT !.generated = NoSql]
      <3>1. HasFields(v) /\ Alike(u, v, {"generated"}) /\ v.generated = NoSql
        BY <2>1 DEF HasFields, Fields, Alike
      <3>2. t = SqlFailed(v)
        BY <2>5
      <3> HIDE DEF v
      <3>3. v \in RuntimeState
        BY <1>1, <2>1, <3>1, StateType DEF Alike, Fields, RuntimeState
      <3>4. Generating(v) /\ v.calls <= v.retries + 1 /\ v.nodes <= 8 + 3 * v.retries
        BY <1>1, <2>1, <2>2, <3>1 DEF Alike, Fields, Generating
      <3> QED
        BY <3>2, <3>3, <3>4, FailureIsOnItsWay
    <2> QED
      BY <2>3, <2>4, <2>5
  <1>3. CASE s.node = "validate_sql" /\ t \in ValidateSql(s)
    <2>1. s.calls <= s.retries + 1 /\ s.nodes <= 7 + 3 * s.retries /\ s.generated \in Candidates
      BY <1>3 DEF OnItsWay
    <2>2. CASE t = SqlFailed(s)
      BY <1>1, <2>1, <2>2, FailureIsOnItsWay
    <2>3. CASE t = To([s EXCEPT !.sql = s.generated], "execute_sql")
      <3>1. /\ HasFields(t) /\ Alike(s, t, {"node", "nodes", "sql"})
            /\ t.node = "execute_sql" /\ t.nodes = s.nodes + 1 /\ t.sql = s.generated
        BY <1>1, <2>3 DEF To, HasFields, Fields, Alike
      <3>2. t \in RuntimeState
        BY <1>1, <2>1, <3>1, StateType DEF Alike, Fields, RuntimeState, Nodes
      <3>3. /\ Generating(t) /\ t.calls <= t.retries + 1 /\ t.nodes <= 8 + 3 * t.retries
            /\ t.generated \in Candidates /\ t.sql = t.generated
        BY <1>1, <2>1, <3>1 DEF Alike, Fields, Generating
      <3> QED
        BY <3>1, <3>2, <3>3 DEF OnItsWay
    <2> QED
      BY <1>3, <2>2, <2>3 DEF ValidateSql
  <1>4. CASE s.node = "execute_sql" /\ t \in ExecuteSql(s)
    <2>1. /\ s.calls <= s.retries + 1 /\ s.nodes <= 8 + 3 * s.retries
          /\ s.generated \in Candidates /\ s.sql = s.generated
      BY <1>4 DEF OnItsWay
    <2>2. CASE t = SqlFailed(s)
      BY <1>1, <2>1, <2>2, FailureIsOnItsWay
    <2>3. CASE t = To([s EXCEPT !.rows = s.sql, !.sqlError = FALSE], "synthesize")
      <3>1. /\ HasFields(t) /\ Alike(s, t, {"node", "nodes", "rows", "sqlError"})
            /\ t.node = "synthesize" /\ t.nodes = s.nodes + 1 /\ t.rows = s.sql /\ t.sqlError = FALSE /\ t.sqlError \in BOOLEAN
        BY <1>1, <2>3 DEF To, HasFields, Fields, Alike
      <3>2. t \in RuntimeState
        BY <1>1, <2>1, <3>1, StateType DEF Alike, Fields, RuntimeState, Nodes
      <3>3. /\ t.answer = "none" /\ t.calls <= 2 /\ t.nodes <= 13 /\ t.rows = t.sql
            /\ Grounded(t) /\ ~t.sqlError
        BY <1>1, <2>1, <3>1 DEF Alike, Fields, Generating, Grounded
      <3> QED
        BY <3>1, <3>2, <3>3 DEF OnItsWay
    <2> QED
      BY <1>4, <2>2, <2>3 DEF ExecuteSql
  <1> QED
    BY <1>2, <1>3, <1>4

(* Three tools at most.                                                    *)
LEMMA UsedIsCardinality ==
    ASSUME NEW E \in SUBSET Tools
    PROVE  /\ Cardinality(E) = Used(E) /\ Used(E) \in 0..3
           /\ E # {} => Used(E) >= 1
           /\ \A x \in Tools \ E : Used(E \cup {x}) = Used(E) + 1
  <1> DEFINE A == E \cap {"overall"}
             B == E \cap {"overall", "platform"}
  <1>1. Cardinality({}) = 0 /\ IsFiniteSet({})
    BY FS_EmptySet
  <1>2. ASSUME NEW S, IsFiniteSet(S), NEW x, x \notin S, NEW T,
               T = IF x \in E THEN S \cup {x} ELSE S
        PROVE  IsFiniteSet(T) /\ Cardinality(T) = Cardinality(S) + IF x \in E THEN 1 ELSE 0
    <2>1. IsFiniteSet(S \cup {x}) /\ Cardinality(S \cup {x}) = Cardinality(S) + 1
      BY <1>2, FS_AddElement
    <2>2. Cardinality(S) \in Nat
      BY <1>2, FS_CardinalityType
    <2> QED
      BY <1>2, <2>1, <2>2
  <1>3. /\ A = (IF "overall" \in E THEN {} \cup {"overall"} ELSE {}) /\ "overall" \notin {}
        /\ B = (IF "platform" \in E THEN A \cup {"platform"} ELSE A) /\ "platform" \notin A
        /\ E = (IF "product" \in E THEN B \cup {"product"} ELSE B) /\ "product" \notin B
    BY DEF Tools
  <1> HIDE DEF A, B
  <1>4. /\ IsFiniteSet(A) /\ Cardinality(A) = Cardinality({}) + IF "overall" \in E THEN 1 ELSE 0
        /\ IsFiniteSet(B) /\ Cardinality(B) = Cardinality(A) + IF "platform" \in E THEN 1 ELSE 0
        /\ Cardinality(E) = Cardinality(B) + IF "product" \in E THEN 1 ELSE 0
    <2>1. IsFiniteSet(A) /\ Cardinality(A) = Cardinality({}) + IF "overall" \in E THEN 1 ELSE 0
      BY <1>1, <1>2, <1>3
    <2>2. IsFiniteSet(B) /\ Cardinality(B) = Cardinality(A) + IF "platform" \in E THEN 1 ELSE 0
      BY <1>2, <1>3, <2>1
    <2>3. Cardinality(E) = Cardinality(B) + IF "product" \in E THEN 1 ELSE 0
      BY <1>2, <1>3, <2>2
    <2> QED
      BY <2>1, <2>2, <2>3
  <1>5. Cardinality(E) = Used(E) /\ Used(E) \in 0..3
    <2> DEFINE a == IF "overall" \in E THEN 1 ELSE 0
               b == IF "platform" \in E THEN 1 ELSE 0
               c == IF "product" \in E THEN 1 ELSE 0
    <2>1. a \in 0..1 /\ b \in 0..1 /\ c \in 0..1 /\ Used(E) = a + b + c
      BY DEF Used
    <2>2. /\ Cardinality(A) = Cardinality({}) + a /\ Cardinality(B) = Cardinality(A) + b
          /\ Cardinality(E) = Cardinality(B) + c
      BY <1>4
    <2> HIDE DEF a, b, c
    <2> QED
      BY <1>1, <2>1, <2>2
  <1>6. E # {} => Used(E) >= 1
    <2>1. E # {} => "overall" \in E \/ "platform" \in E \/ "product" \in E
      BY DEF Tools
    <2> QED
      BY <2>1 DEF Used
  <1>7. ASSUME NEW x \in Tools \ E PROVE Used(E \cup {x}) = Used(E) + 1
    <2>1. x \in {"overall", "platform", "product"}
      BY DEF Tools
    <2>2. CASE x = "overall"
      BY <2>2 DEF Used
    <2>3. CASE x = "platform"
      BY <2>3 DEF Used
    <2>4. CASE x = "product"
      BY <2>4 DEF Used
    <2> QED
      BY <2>1, <2>2, <2>3, <2>4
  <1> QED
    BY <1>5, <1>6, <1>7

LEMMA AnalysisPlanIsOnItsWay ==
    ASSUME NEW s, OnItsWay(s), s.node = "analysis_plan", NEW t \in AnalysisPlan(s)
    PROVE  OnItsWay(t)
  <1>1. /\ s \in RuntimeState /\ HasFields(s) /\ Analysing(s) /\ s.evidence \in SUBSET Tools
        /\ s.nodes <= 6 + 2 * Used(s.evidence)
        /\ s.calls <= (IF s.evidence = {} THEN 0 ELSE Used(s.evidence) - 1)
        /\ s.nodes \in Nat /\ s.calls \in Nat
    BY StateFields DEF OnItsWay, RuntimeState
  <1>2. /\ Cardinality(s.evidence) = Used(s.evidence) /\ Used(s.evidence) \in 0..3
        /\ s.evidence # {} => Used(s.evidence) >= 1
    BY <1>1, UsedIsCardinality
  <1>3. ASSUME NEW u, HasFields(u), Alike(s, u, {"calls"}), u.calls \in Nat, u.calls <= Used(s.evidence),
               NEW tool \in Tools \ s.evidence, t = Planned(u, tool),
               s.evidence = {} <=> tool = "overall"
        PROVE  OnItsWay(t)
    <2>1. /\ HasFields(t) /\ Alike(u, t, {"node", "nodes", "action"})
          /\ t.node = "analysis_execute" /\ t.nodes = u.nodes + 1 /\ t.action = tool
      BY <1>3 DEF Planned, To, HasFields, Fields, Alike
    <2>2. t \in RuntimeState
      BY <1>1, <1>3, <2>1, StateType DEF Alike, Fields, RuntimeState, Nodes
    <2>3. /\ t.evidence = s.evidence /\ t.calls = u.calls /\ t.nodes = s.nodes + 1
          /\ Analysing(t)
      BY <1>1, <1>3, <2>1 DEF Alike, Fields, Analysing
    <2>4. /\ t.nodes <= 7 + 2 * Used(t.evidence) /\ t.calls <= Used(t.evidence)
          /\ t.action \in Tools \ t.evidence /\ (t.evidence = {} <=> t.action = "overall")
      BY <1>1, <1>2, <1>3, <2>1, <2>3
    <2> QED
      BY <2>1, <2>2, <2>3, <2>4 DEF OnItsWay
  <1>4. ASSUME NEW u, HasFields(u), Alike(s, u, {"calls"}), u.calls \in Nat, u.calls <= 2,
               s.evidence # {},
               \/ t = Finished(u) \/ t = [Finished(u) EXCEPT !.note = TRUE]
               \/ t = [Finished(u) EXCEPT !.sqlError = TRUE, !.analysisError = TRUE]
        PROVE  OnItsWay(t)
    <2> DEFINE v == Finished(u)
    <2>1. /\ HasFields(v) /\ Alike(u, v, {"node", "nodes", "action"})
          /\ v.node = "synthesize" /\ v.nodes = u.nodes + 1 /\ v.action = NoSql
      BY <1>4 DEF Finished, To, HasFields, Fields, Alike
    <2>2. t = v \/ t = [v EXCEPT !.note = TRUE] \/ t = [v EXCEPT !.sqlError = TRUE, !.analysisError = TRUE]
      BY <1>4
    <2> HIDE DEF v
    <2>3. /\ HasFields(t) /\ Alike(v, t, {"note", "sqlError", "analysisError"})
          /\ \/ t.note = v.note /\ t.sqlError = v.sqlError /\ t.analysisError = v.analysisError
             \/ t.note /\ t.note \in BOOLEAN /\ t.sqlError = v.sqlError /\ t.analysisError = v.analysisError
             \/ t.note = v.note /\ t.sqlError /\ t.analysisError /\ {t.sqlError, t.analysisError} \subseteq BOOLEAN
      <3>1. CASE t = v
        BY <2>1, <3>1 DEF Alike
      <3>2. CASE t = [v EXCEPT !.note = TRUE]
        BY <2>1, <3>2 DEF Alike, HasFields, Fields
      <3>3. CASE t = [v EXCEPT !.sqlError = TRUE, !.analysisError = TRUE]
        BY <2>1, <3>3 DEF Alike, HasFields, Fields
      <3> QED
        BY <2>2, <3>1, <3>2, <3>3
    <2>4. /\ v.note = s.note /\ v.sqlError = s.sqlError /\ v.analysisError = s.analysisError
          /\ {s.note, s.sqlError, s.analysisError} \subseteq BOOLEAN
      BY <1>1, <1>4, <2>1 DEF Alike, Fields, RuntimeState
    <2>5. t.note \in BOOLEAN /\ t.sqlError \in BOOLEAN /\ t.analysisError \in BOOLEAN
      BY <2>3, <2>4
    <2>6. t \in RuntimeState
      BY <1>1, <1>4, <2>1, <2>3, <2>5, StateType DEF Alike, Fields, RuntimeState, Nodes
    <2>7. /\ t.node = "synthesize" /\ t.answer = "none" /\ t.calls <= 2 /\ t.nodes <= 13
          /\ t.rows = t.sql /\ t.evidence = s.evidence /\ t.rows = s.rows
      BY <1>1, <1>2, <1>4, <2>1, <2>3 DEF Alike, Fields, Analysing
    <2>8. Grounded(t)
      BY <1>1, <1>4, <2>7 DEF Analysing, Grounded
    <2>9. t.sqlError => t.analysisError
      BY <1>1, <2>3, <2>4 DEF Analysing
    <2> QED
      BY <2>6, <2>7, <2>8, <2>9 DEF OnItsWay
  <1>5. Alike(s, s, {"calls"})
    BY DEF Alike
  <1>6. HasFields(Called(s)) /\ Alike(s, Called(s), {"calls"}) /\ Called(s).calls = s.calls + 1
    BY <1>1, CalledStep
  <1>7. CASE s.evidence = {}
    <2>1. t = Planned(s, "overall")
      BY <1>7 DEF AnalysisPlan
    <2> QED
      BY <1>1, <1>2, <1>3, <1>5, <1>7, <2>1 DEF Tools
  <1>8. CASE s.evidence # {} /\ s.calls <= 2 /\ (t = Finished(s) \/ t = [Finished(s) EXCEPT !.note = TRUE])
    BY <1>1, <1>4, <1>5, <1>8
  <1>9. CASE s.evidence # {} /\ ~(Cardinality(s.evidence) >= 3) /\ t \in
               {Finished(Called(s)),
                [Finished(Called(s)) EXCEPT !.sqlError = TRUE, !.analysisError = TRUE]}
    <2>1. Called(s).calls \in Nat /\ Called(s).calls <= 2
      BY <1>1, <1>2, <1>6, <1>9
    <2> QED
      BY <1>4, <1>6, <1>9, <2>1
  <1>10. ASSUME s.evidence # {}, NEW tool \in {"platform", "product"} \ s.evidence,
                t = Planned(Called(s), tool)
         PROVE  OnItsWay(t)
    <2>1. Called(s).calls \in Nat /\ Called(s).calls <= Used(s.evidence)
      BY <1>1, <1>2, <1>6, <1>10
    <2> QED
      BY <1>3, <1>6, <1>10, <2>1 DEF Tools
  <1>11. s.calls <= 2
    BY <1>1, <1>2
  <1> QED
    BY <1>7, <1>8, <1>9, <1>10, <1>11 DEF AnalysisPlan

LEMMA AnalysisExecuteIsOnItsWay ==
    ASSUME NEW s, OnItsWay(s), s.node = "analysis_execute", NEW t \in AnalysisExecute(s)
    PROVE  OnItsWay(t)
  <1>1. /\ s \in RuntimeState /\ HasFields(s) /\ Analysing(s) /\ s.evidence \in SUBSET Tools
        /\ s.nodes <= 7 + 2 * Used(s.evidence) /\ s.calls <= Used(s.evidence)
        /\ s.action \in Tools \ s.evidence /\ (s.evidence = {} <=> s.action = "overall")
        /\ s.nodes \in Nat /\ s.calls \in Nat
    BY StateFields DEF OnItsWay, RuntimeState
  <1>2. Used(s.evidence) \in 0..3 /\ Used(s.evidence \cup {s.action}) = Used(s.evidence) + 1
    BY <1>1, UsedIsCardinality
  <1>3. Used(s.evidence \cup {s.action}) \in 0..3
    BY <1>1, UsedIsCardinality
  <1>4. CASE t = To([s EXCEPT !.sqlError = TRUE, !.analysisError = TRUE], "synthesize")
    <2>1. /\ HasFields(t) /\ Alike(s, t, {"node", "nodes", "sqlError", "analysisError"})
          /\ t.node = "synthesize" /\ t.nodes = s.nodes + 1
          /\ t.sqlError = TRUE /\ t.analysisError = TRUE
            /\ t.sqlError \in BOOLEAN /\ t.analysisError \in BOOLEAN
      <3> DEFINE u == [s EXCEPT !.sqlError = TRUE, !.analysisError = TRUE]
      <3>1. /\ HasFields(u) /\ Alike(s, u, {"sqlError", "analysisError"})
            /\ u.sqlError = TRUE /\ u.analysisError = TRUE
            /\ u.sqlError \in BOOLEAN /\ u.analysisError \in BOOLEAN
        BY <1>1 DEF HasFields, Fields, Alike
      <3>2. t = To(u, "synthesize")
        BY <1>4
      <3> HIDE DEF u
      <3> QED
        BY <3>1, <3>2, ToStep DEF Alike, Fields
    <2>2. t \in RuntimeState
      BY <1>1, <2>1, StateType DEF Alike, Fields, RuntimeState, Nodes
    <2>3. t.answer = "none" /\ t.calls <= 2 /\ t.nodes <= 13 /\ t.rows = t.sql
      BY <1>1, <1>2, <1>3, <2>1 DEF Alike, Fields, Analysing
    <2> QED
      BY <2>1, <2>2, <2>3 DEF OnItsWay
  <1>5. ASSUME NEW c \in {"falling", "rising", s.compared},
               t = To([s EXCEPT !.sql = s.action, !.rows = s.action, !.sqlError = FALSE,
                                !.evidence = @ \cup {s.action}, !.compared = c], "analysis_plan")
        PROVE  OnItsWay(t)
    <2>1. /\ HasFields(t) /\ Alike(s, t, {"node", "nodes", "sql", "rows", "sqlError", "evidence", "compared"})
          /\ t.node = "analysis_plan" /\ t.nodes = s.nodes + 1
          /\ t.sql = s.action /\ t.rows = s.action /\ ~t.sqlError /\ t.sqlError \in BOOLEAN
          /\ t.evidence = s.evidence \cup {s.action} /\ t.compared = c
      <3> DEFINE u == [s EXCEPT !.sql = s.action, !.rows = s.action, !.sqlError = FALSE,
                                !.evidence = @ \cup {s.action}, !.compared = c]
      <3>1. /\ HasFields(u) /\ Alike(s, u, {"sql", "rows", "sqlError", "evidence", "compared"})
            /\ u.sql = s.action /\ u.rows = s.action /\ ~u.sqlError /\ u.sqlError \in BOOLEAN
            /\ u.evidence = s.evidence \cup {s.action} /\ u.compared = c
        BY <1>1 DEF HasFields, Fields, Alike
      <3>2. t = To(u, "analysis_plan")
        BY <1>5
      <3> HIDE DEF u
      <3> QED
        BY <3>1, <3>2, ToStep DEF Alike, Fields
    <2>2. t.compared \in {"nothing", "falling", "rising"} /\ t.evidence \in SUBSET Tools
      BY <1>1, <1>5, <2>1 DEF RuntimeState
    <2>3. t \in RuntimeState
      BY <1>1, <2>1, <2>2, StateType DEF Alike, Fields, RuntimeState, Nodes
    <2>4. /\ Analysing(t) /\ t.evidence # {} /\ t.calls = s.calls
      BY <1>1, <2>1 DEF Alike, Fields, Analysing
    <2>5. Used(t.evidence) = Used(s.evidence) + 1 /\ Used(t.evidence) \in Nat
      BY <1>2, <2>1
    <2>6. t.nodes <= 6 + 2 * Used(t.evidence) /\ t.calls <= Used(t.evidence) - 1
      BY <1>1, <1>2, <2>1, <2>4, <2>5
    <2> QED
      BY <2>1, <2>3, <2>4, <2>6 DEF OnItsWay
  <1>6. \/ t = To([s EXCEPT !.sqlError = TRUE, !.analysisError = TRUE], "synthesize")
        \/ \E c \in {"falling", "rising", s.compared} :
             t = To([s EXCEPT !.sql = s.action, !.rows = s.action, !.sqlError = FALSE,
                              !.evidence = @ \cup {s.action}, !.compared = c], "analysis_plan")
    BY DEF AnalysisExecute
  <1> QED
    BY <1>4, <1>5, <1>6

LEMMA SynthesizeIsOnItsWay ==
    ASSUME NEW s, OnItsWay(s), s.node = "synthesize", NEW t \in Synthesize(s)
    PROVE  OnItsWay(t)
  <1>1. /\ s \in RuntimeState /\ HasFields(s) /\ s.calls \in Nat /\ s.nodes \in Nat
        /\ s.answer = "none" /\ s.calls <= 2 /\ s.nodes <= 13
        /\ s.rows # NoSql => s.rows = s.sql
        /\ ~s.sqlError => Grounded(s)
        /\ s.sqlError /\ ~s.analysisError => s.rows = NoSql
    BY StateFields DEF OnItsWay, RuntimeState
  <1>2. ASSUME NEW u, HasFields(u), Alike(s, u, {"calls"}), u.calls \in Nat, u.calls <= 3,
               NEW a \in Answers, t = To([u EXCEPT !.answer = a], "save_session"),
               a \in {"answer", "unavailable", "note"} => ~s.sqlError,
               a = "failed" => s.sqlError /\ ~s.analysisError
        PROVE  OnItsWay(t)
    <2>1. /\ HasFields(t) /\ Alike(u, t, {"node", "nodes", "answer"})
          /\ t.node = "save_session" /\ t.nodes = u.nodes + 1 /\ t.answer = a
      BY <1>2 DEF To, HasFields, Fields, Alike
    <2>2. t \in RuntimeState
      BY <1>1, <1>2, <2>1, StateType DEF Alike, Fields, RuntimeState, Nodes
    <2>3. /\ t.calls <= 3 /\ t.nodes <= 14 /\ t.rows = s.rows /\ t.sql = s.sql
          /\ t.sqlError = s.sqlError /\ t.generated = s.generated /\ t.intent = s.intent
          /\ t.evidence = s.evidence
      BY <1>1, <1>2, <2>1 DEF Alike, Fields
    <2>4. Answered(t, 14)
      BY <1>1, <1>2, <2>1, <2>3 DEF Answered, RestsOnEvidence, Grounded
    <2> QED
      BY <2>1, <2>2, <2>4 DEF OnItsWay
  <1>3. Alike(s, s, {"calls"})
    BY DEF Alike
  <1>4. HasFields(Called(s)) /\ Alike(s, Called(s), {"calls"}) /\ Called(s).calls = s.calls + 1
    BY <1>1, CalledStep
  <1>5. CASE s.sqlError
    <2>1. PICK a : a = IF s.analysisError THEN "interrupted" ELSE "failed"
      OBVIOUS
    <2>2. t = To([s EXCEPT !.answer = a], "save_session") /\ a \in Answers
      BY <1>5, <2>1 DEF Synthesize, Answers
    <2> QED
      BY <1>1, <1>2, <1>3, <1>5, <2>1, <2>2
  <1>6. CASE ~s.sqlError /\ s.note
    <2>1. t = To([s EXCEPT !.answer = "note"], "save_session") /\ "note" \in Answers
      BY <1>6 DEF Synthesize, Answers
    <2> QED
      BY <1>1, <1>2, <1>3, <1>6, <2>1
  <1>7. CASE ~s.sqlError /\ ~s.note
    <2>1. PICK a \in {"answer", "unavailable"} : t = To([Called(s) EXCEPT !.answer = a], "save_session")
      BY <1>7 DEF Synthesize
    <2>2. a \in Answers /\ Called(s).calls \in Nat /\ Called(s).calls <= 3
      BY <1>1, <1>4 DEF Answers
    <2> QED
      BY <1>2, <1>4, <1>7, <2>1, <2>2
  <1> QED
    BY <1>5, <1>6, <1>7

(* After the answer only the place in the graph changes.                   *)
LEMMA LastNodes ==
    ASSUME NEW s, OnItsWay(s), NEW t,
           \/ s.node = "save_session" /\ t = To(s, "save_memory")
           \/ s.node = "save_memory" /\ t = To(s, "save_episode")
           \/ s.node = "save_episode" /\ t = To(s, "finalize")
           \/ s.node = "finalize" /\ t \in Finalize(s)
    PROVE  OnItsWay(t)
  <1>1. s \in RuntimeState /\ HasFields(s) /\ s.nodes \in Nat
    BY StateFields DEF OnItsWay, RuntimeState
  <1>2. ASSUME NEW n \in {14, 15, 16, 17}, Answered(s, n), NEW m \in Nodes, t = To(s, m)
        PROVE  Answered(t, n + 1) /\ t \in RuntimeState /\ t.node = m
    <2>1. /\ HasFields(t) /\ Alike(s, t, {"node", "nodes"}) /\ t.node = m /\ t.nodes = s.nodes + 1
      BY <1>1, <1>2, ToStep
    <2>2. t \in RuntimeState
      BY <1>1, <1>2, <2>1, StateType DEF Alike, Fields, RuntimeState
    <2>3. Answered(t, n + 1)
      <3>1. /\ t.nodes <= n + 1 /\ t.calls = s.calls /\ t.rows = s.rows /\ t.sql = s.sql
            /\ t.sqlError = s.sqlError /\ t.generated = s.generated /\ t.intent = s.intent
            /\ t.evidence = s.evidence /\ t.answer = s.answer
        BY <1>1, <1>2, <2>1 DEF Alike, Fields, Answered
      <3> QED
        BY <1>2, <3>1 DEF Answered, RestsOnEvidence
    <2> QED
      BY <2>1, <2>2, <2>3
  <1>3. CASE s.node = "save_session" /\ t = To(s, "save_memory")
    <2>1. Answered(s, 14) /\ "save_memory" \in Nodes
      BY <1>3 DEF OnItsWay, Nodes
    <2>2. Answered(t, 14 + 1) /\ t \in RuntimeState /\ t.node = "save_memory"
      BY <1>2, <1>3, <2>1
    <2> QED
      BY <2>2 DEF OnItsWay
  <1>4. CASE s.node = "save_memory" /\ t = To(s, "save_episode")
    <2>1. Answered(s, 15) /\ "save_episode" \in Nodes
      BY <1>4 DEF OnItsWay, Nodes
    <2>2. Answered(t, 15 + 1) /\ t \in RuntimeState /\ t.node = "save_episode"
      BY <1>2, <1>4, <2>1
    <2> QED
      BY <2>2 DEF OnItsWay
  <1>5. CASE s.node = "save_episode" /\ t = To(s, "finalize")
    <2>1. Answered(s, 16) /\ "finalize" \in Nodes
      BY <1>5 DEF OnItsWay, Nodes
    <2>2. Answered(t, 16 + 1) /\ t \in RuntimeState /\ t.node = "finalize"
      BY <1>2, <1>5, <2>1
    <2> QED
      BY <2>2 DEF OnItsWay
  <1>6. CASE s.node = "finalize" /\ t \in Finalize(s)
    <2>1. Answered(s, 17) /\ "end" \in Nodes /\ t = To(s, "end")
      BY <1>6 DEF OnItsWay, Nodes, Finalize
    <2>2. Answered(t, 17 + 1) /\ t \in RuntimeState /\ t.node = "end"
      BY <1>2, <2>1
    <2> QED
      BY <2>2 DEF OnItsWay
  <1> QED
    BY <1>3, <1>4, <1>5, <1>6

LEMMA ResultsAreOnTheirWay ==
    ASSUME NEW s, OnItsWay(s), NEW t \in Results(s)
    PROVE  OnItsWay(t)
  <1>1. CASE s.node \in {"input_safety", "route", "retrieve"}
    BY <1>1, FirstNodes DEF Results
  <1>2. CASE s.node = "safe_response"
    BY <1>2, SafeResponseIsOnItsWay DEF Results
  <1>3. CASE s.node = "load_schema"
    BY <1>3, LoadSchemaIsOnItsWay DEF Results
  <1>4. CASE s.node \in {"generate_sql", "validate_sql", "execute_sql"}
    BY <1>4, StatementsAreOnTheirWay DEF Results
  <1>5. CASE s.node = "analysis_plan"
    BY <1>5, AnalysisPlanIsOnItsWay DEF Results
  <1>6. CASE s.node = "analysis_execute"
    BY <1>6, AnalysisExecuteIsOnItsWay DEF Results
  <1>7. CASE s.node = "synthesize"
    BY <1>7, SynthesizeIsOnItsWay DEF Results
  <1>8. CASE s.node = "finalize"
    BY <1>8, LastNodes DEF Results
  <1>9. CASE s.node \in {"load_history", "load_memory", "save_session", "save_memory", "save_episode", "end"}
    BY <1>9 DEF Results
  <1>10. s.node \in Nodes
    BY DEF OnItsWay, RuntimeState
  <1> QED
    BY <1>1, <1>2, <1>3, <1>4, <1>5, <1>6, <1>7, <1>8, <1>9, <1>10 DEF Nodes

(* Where it is, a question rests on its evidence.                          *)
LEMMA OnItsWayIsGood ==
    ASSUME NEW s, OnItsWay(s)
    PROVE  Bounded(s) /\ RestsOnEvidence(s)
  <1>1. /\ s \in RuntimeState /\ s.nodes \in Nat /\ s.calls \in Nat /\ s.retries \in 0..2
        /\ s.evidence \in SUBSET Tools /\ s.node \in Nodes
    BY DEF OnItsWay, RuntimeState
  <1>2. Used(s.evidence) \in 0..3
    BY <1>1, UsedIsCardinality
  <1>3. CASE Fresh(s) /\ s.nodes <= 5
    BY <1>1, <1>3 DEF Fresh, Bounded, RestsOnEvidence
  <1>4. CASE Generating(s) /\ s.calls <= s.retries + 1 /\ s.nodes <= 8 + 3 * s.retries
    BY <1>1, <1>4 DEF Generating, Bounded, RestsOnEvidence
  <1>5. CASE Analysing(s) /\ s.nodes <= 7 + 2 * Used(s.evidence) /\ s.calls <= Used(s.evidence)
    BY <1>1, <1>2, <1>5 DEF Analysing, Bounded, RestsOnEvidence
  <1>6. CASE s.node = "synthesize"
    BY <1>1, <1>6 DEF OnItsWay, Bounded, RestsOnEvidence
  <1>7. CASE s.node \in {"save_session", "save_memory", "save_episode", "finalize", "end"}
    BY <1>1, <1>7 DEF OnItsWay, Answered, Bounded
  <1>8. CASE s.node \in {"input_safety", "load_history", "load_memory", "route", "safe_response",
                         "retrieve", "load_schema"}
    <2>1. Fresh(s) /\ s.nodes <= 5
      BY <1>1, <1>8 DEF OnItsWay
    <2> QED
      BY <1>3, <2>1
  <1>9. CASE s.node \in {"generate_sql", "validate_sql", "execute_sql"}
    <2>1. Generating(s) /\ s.calls <= s.retries + 1 /\ s.nodes <= 8 + 3 * s.retries
      BY <1>1, <1>9 DEF OnItsWay
    <2> QED
      BY <1>4, <2>1
  <1>10. CASE s.node \in {"analysis_plan", "analysis_execute"}
    <2>1. Analysing(s) /\ s.nodes <= 7 + 2 * Used(s.evidence) /\ s.calls <= Used(s.evidence)
      BY <1>1, <1>2, <1>10 DEF OnItsWay
    <2> QED
      BY <1>5, <2>1
  <1> QED
    BY <1>1, <1>6, <1>7, <1>8, <1>9, <1>10 DEF Nodes

RunInv == run \in [Requests -> RuntimeState] /\ \A r \in Requests : OnItsWay(run[r])

LEMMA StartIsOnItsWay ==
    ASSUME NEW q \in Question PROVE OnItsWay(Start(q))
  <1>1. /\ Start(q) \in RuntimeState /\ Start(q).node = "input_safety" /\ Start(q).nodes = 0
        /\ Fresh(Start(q))
    BY DEF Start, Question, RuntimeState, Nodes, Candidates, Tools, Answers, Fresh
  <1> QED
    BY <1>1 DEF OnItsWay

LEMMA NoRunIsOnItsWay == OnItsWay(NoRun)
  <1>1. /\ NoRun \in RuntimeState /\ NoRun.node = "end" /\ NoRun.nodes = 0 /\ NoRun.calls = 0
        /\ NoRun.rows = NoSql /\ NoRun.answer = "none"
    <2> DEFINE s == Start([intent |-> "blocked", analysis |-> FALSE])
    <2>1. [intent |-> "blocked", analysis |-> FALSE] \in Question
      BY DEF Question, Intents
    <2>2. s \in RuntimeState /\ s.node = "input_safety"
      BY <2>1, StartIsOnItsWay DEF OnItsWay, Start
    <2>3. HasFields(s) /\ Fresh(s) /\ s.nodes = 0
      BY <2>1, <2>2, StartIsOnItsWay, StateFields DEF OnItsWay
    <2>4. NoRun = [s EXCEPT !.node = "end"]
      BY DEF NoRun
    <2> HIDE DEF s
    <2>5. HasFields(NoRun) /\ Alike(s, NoRun, {"node"}) /\ NoRun.node = "end"
      BY <2>3, <2>4 DEF HasFields, Fields, Alike
    <2>6. NoRun \in RuntimeState
      BY <2>2, <2>3, <2>5, StateType DEF Alike, Fields, RuntimeState, Nodes
    <2> QED
      BY <2>3, <2>5, <2>6 DEF Alike, Fields, Fresh
  <1>2. Answered(NoRun, 18)
    BY <1>1 DEF Answered, RestsOnEvidence
  <1> QED
    BY <1>1, <1>2 DEF OnItsWay

LEMMA OneRunMoves ==
    ASSUME RunInv, NEW r \in Requests, NEW s, OnItsWay(s), run' = [run EXCEPT ![r] = s]
    PROVE  RunInv'
  <1>1. s \in RuntimeState
    BY DEF OnItsWay
  <1> QED
    BY <1>1 DEF RunInv

LEMMA NextKeepsRuns ==
    ASSUME RunInv, [Next]_vars
    PROVE  RunInv'
  <1>1. CASE UNCHANGED run
    BY <1>1 DEF RunInv
  <1>2. ASSUME NEW r \in Requests, Run(r)
        PROVE  RunInv'
    <2>1. CASE \E q \in Asks[r] : run' = [run EXCEPT ![r] = Start(q)]
      <3>1. PICK q \in Asks[r] : run' = [run EXCEPT ![r] = Start(q)]
        BY <2>1
      <3>2. q \in Question
        BY RequestsAssumption
      <3> QED
        BY <3>1, <3>2, StartIsOnItsWay, OneRunMoves
    <2> QED
      BY <1>1, <1>2, <2>1 DEF Run
  <1>3. ASSUME NEW r \in Requests, NEW how, Ends(r, how)
        PROVE  RunInv'
    BY <1>3, NoRunIsOnItsWay, OneRunMoves DEF Ends
  <1>4. ASSUME NEW r \in Requests, Node(r)
        PROVE  RunInv'
    <2>1. PICK s \in Results(run[r]) : run' = [run EXCEPT ![r] = s]
      BY <1>4 DEF Node
    <2>2. OnItsWay(s)
      BY ResultsAreOnTheirWay DEF RunInv
    <2> QED
      BY <2>1, <2>2, OneRunMoves
  <1>5. ASSUME NEW r \in Requests, LoadHistory(r)
        PROVE  RunInv'
    <2>1. run[r].node = "load_history" /\ run' = [run EXCEPT ![r] = To(run[r], "load_memory")]
      BY <1>5 DEF LoadHistory
    <2> QED
      BY <2>1, FirstNodes, OneRunMoves DEF RunInv
  <1>6. ASSUME NEW r \in Requests, SaveSession(r)
        PROVE  RunInv'
    <2>1. \/ UNCHANGED run
          \/ run[r].node = "save_session" /\ run' = [run EXCEPT ![r] = To(run[r], "save_memory")]
      BY <1>6, Zenon DEF SaveSession
    <2> QED
      BY <1>1, <2>1, LastNodes, OneRunMoves DEF RunInv
  <1>7. ASSUME NEW r \in Requests, MemoryNode(r)
        PROVE  RunInv'
    <2>1. \/ run[r].node = "load_memory" /\ run' = [run EXCEPT ![r] = To(run[r], "route")]
          \/ run[r].node = "save_memory" /\ run' = [run EXCEPT ![r] = To(run[r], "save_episode")]
          \/ run[r].node = "save_episode" /\ run' = [run EXCEPT ![r] = To(run[r], "finalize")]
      BY <1>7 DEF MemoryNode
    <2> QED
      BY <2>1, FirstNodes, LastNodes, OneRunMoves DEF RunInv
  <1>8. ASSUME NEW r \in Requests, Handler(r)
        PROVE  RunInv'
    <2>1. CASE Authenticate(r) \/ GiveUpQueue(r) \/ Deny(r) \/ WriteAudit(r)
      BY <1>1, <2>1 DEF Authenticate, GiveUpQueue, Deny, WriteAudit
    <2>2. CASE AcquireSlot(r) \/ Resume(r)
      BY <1>1, <1>2, <2>2 DEF AcquireSlot, Resume
    <2>3. CASE Succeed(r) \/ BreakOff(r) \/ TestEnds(r)
      BY <1>3, <2>3 DEF Succeed, BreakOff, TestEnds
    <2> QED
      BY <1>4, <1>5, <1>6, <1>8, <2>1, <2>2, <2>3 DEF Handler
  <1>9. ASSUME NEW r \in Requests, Disconnect(r)
        PROVE  RunInv'
    BY <1>1, <1>3, <1>9 DEF Disconnect
  <1> QED
    BY <1>1, <1>7, <1>8, <1>9 DEF Next, Step, Pop, StoresForget, vars

LEMMA InitRuns ==
    ASSUME Init
    PROVE  RunInv
  BY NoRunIsOnItsWay DEF Init, RunInv, OnItsWay

(* Whatever the model, the database and the tools answer or raise: no path *)
(* through the graph asks the model more than three times, and what is     *)
(* answered rests on the rows of the statement reported with it.           *)
THEOREM AnswersAreGrounded == Spec => []AnswersRestOnEvidence
  <1>1. Init => RunInv
    BY InitRuns
  <1>2. RunInv /\ [Next]_vars => RunInv'
    BY NextKeepsRuns
  <1>3. RunInv => AnswersRestOnEvidence
    BY OnItsWayIsGood DEF RunInv, AnswersRestOnEvidence
  <1> QED
    BY <1>1, <1>2, <1>3, PTL DEF Spec

-----------------------------------------------------------------------------
(***************************************************************************)
(* Places.  A request that works holds a slot; with one slot per principal *)
(* no two requests of a principal are on their way.                        *)
(***************************************************************************)

Active == {"waiting", "granted", "held"}

PlaceInv ==
    /\ \A r \in Requests : pc[r] = "running" => slot[r] = "held"
    /\ \A r \in Requests : pc[r] = "queue" <=> slot[r] \in {"waiting", "granted"}
    /\ MaxInflight = 1 =>
         \A q, r \in Requests :
             slot[q] \in Active /\ slot[r] \in Active /\ PrincipalOf[q] = PrincipalOf[r] => q = r

(* Waiters may be granted a slot by somebody else's step, and that is all. *)
OthersKeepSlots(r) ==
    \A q \in Requests \ {r} : slot'[q] = slot[q] \/ (slot[q] = "waiting" /\ slot'[q] = "granted")

LEMMA WakeElsewhere ==
    ASSUME SlotInv, NEW r \in Requests, NEW own, NEW list, Waiters(list), NEW n \in 0..Len(list),
           Wake(r, own, list, n)
    PROVE  slot'[r] = own /\ OthersKeepSlots(r)
  <1> DEFINE W == {list[i] : i \in 1..n}
  <1>1. slot' = [q \in Requests |-> IF q = r THEN own ELSE IF q \in W THEN "granted" ELSE slot[q]]
    BY DEF Wake
  <1>2. \A q \in W : slot[q] = "waiting"
    BY DEF Waiters
  <1> HIDE DEF W
  <1> QED
    BY <1>1, <1>2 DEF OthersKeepSlots

LEMMA TakeUpElsewhere ==
    ASSUME SlotInv, NEW r \in Requests, TakeUp(r)
    PROVE  slot[r] = "granted" /\ slot'[r] = "held" /\ OthersKeepSlots(r)
  <1> DEFINE n == Least(free, Len(queue))
  <1>1. slot[r] = "granted" /\ Wake(r, "held", queue, n)
    BY DEF TakeUp, WakeAll
  <1>2. Waiters(queue) /\ free \in Nat /\ Len(queue) \in Nat
    BY DEF SlotInv, Waiters
  <1>3. n \in 0..Len(queue)
    BY <1>2 DEF Least
  <1> HIDE DEF n
  <1> QED
    BY <1>1, <1>2, <1>3, WakeElsewhere

LEMMA ReleaseElsewhere ==
    ASSUME SlotInv, NEW r \in Requests, Release(r)
    PROVE  slot[r] = "held" /\ slot'[r] = "released" /\ OthersKeepSlots(r)
  <1> DEFINE n == Least(1, Len(queue))
  <1>1. slot[r] = "held" /\ Wake(r, "released", queue, n)
    BY DEF Release
  <1>2. Waiters(queue) /\ Len(queue) \in Nat
    BY DEF SlotInv, Waiters
  <1>3. n \in 0..Len(queue)
    BY <1>2 DEF Least
  <1> HIDE DEF n
  <1> QED
    BY <1>1, <1>2, <1>3, WakeElsewhere

LEMMA QueueTimeoutElsewhere ==
    ASSUME SlotInv, NEW r \in Requests, QueueTimeout(r)
    PROVE  slot[r] \in {"waiting", "granted"} /\ slot'[r] = "released" /\ OthersKeepSlots(r)
  <1>1. PICK slots : /\ slots = free + (IF slot[r] = "granted" THEN 1 ELSE 0)
                     /\ WakeAll(r, "released", Others(r), slots)
    BY Zenon DEF QueueTimeout
  <1>2. slot[r] \in {"waiting", "granted"}
    BY DEF QueueTimeout
  <1>3. PICK list : list = Others(r)
    OBVIOUS
  <1>4. Waiters(list)
    BY <1>3, OthersWait
  <1>5. free \in Nat /\ Len(list) \in Nat
    BY <1>4 DEF SlotInv, Waiters
  <1>6. PICK n : n = Least(slots, Len(list))
    OBVIOUS
  <1>7. Wake(r, "released", list, n)
    BY Zenon, <1>1, <1>3, <1>6 DEF WakeAll
  <1>8. n \in 0..Len(list)
    BY <1>1, <1>5, <1>6 DEF Least
  <1> QED
    BY <1>2, <1>4, <1>7, <1>8, WakeElsewhere

(* A step of the limits on behalf of r, which goes where the slot says.    *)
LEMMA PlacesKeep ==
    ASSUME SlotInv, PlaceInv, NEW r \in Requests, OthersKeepSlots(r),
           DOMAIN pc' = Requests, \A q \in Requests \ {r} : pc'[q] = pc[q],
           pc'[r] = "running" => slot'[r] = "held",
           pc'[r] = "queue" <=> slot'[r] \in {"waiting", "granted"},
           slot'[r] \in Active => \/ slot[r] \in Active
                                  \/ /\ MaxInflight = 1 => \A q \in Requests \ {r} :
                                          PrincipalOf[q] = PrincipalOf[r] => slot[q] \notin Active
    PROVE  PlaceInv'
  <1>1. \A q \in Requests \ {r} : slot'[q] \in Active => slot[q] \in Active
    BY DEF OthersKeepSlots, Active
  <1>2. \A q \in Requests \ {r} : pc'[q] = "running" => slot'[q] = "held"
    BY DEF OthersKeepSlots, PlaceInv
  <1>3. \A q \in Requests \ {r} : pc'[q] = "queue" <=> slot'[q] \in {"waiting", "granted"}
    BY DEF OthersKeepSlots, PlaceInv
  <1>4. ASSUME MaxInflight = 1, NEW p \in Requests, NEW q \in Requests, slot'[p] \in Active,
               slot'[q] \in Active, PrincipalOf[p] = PrincipalOf[q]
        PROVE  p = q
    <2>1. CASE p = r /\ q # r
      BY <1>1, <1>4, <2>1 DEF PlaceInv
    <2>2. CASE p # r /\ q = r
      BY <1>1, <1>4, <2>2 DEF PlaceInv
    <2>3. CASE p # r /\ q # r
      BY <1>1, <1>4, <2>3 DEF PlaceInv
    <2> QED
      BY <2>1, <2>2, <2>3
  <1> QED
    BY <1>2, <1>3, <1>4 DEF PlaceInv

LEMMA PlacesUnmoved ==
    ASSUME SlotInv, PlaceInv, UNCHANGED limitVars, NEW r \in Requests,
           NEW where \in {"limits", "denied", "audit", "done"},
           pc[r] \notin {"queue"}, Goto(r, where)
    PROVE  PlaceInv'
  BY DEF SlotInv, PlaceInv, limitVars, Goto, Active

LEMMA EndsKeepsPlaces ==
    ASSUME SlotInv, PlaceInv, NEW r \in Requests, pc[r] = "running", NEW how, Ends(r, how)
    PROVE  PlaceInv'
  <1>1. Goto(r, "audit")
    BY DEF Ends
  <1>2. CASE UNCHANGED limitVars
    BY <1>1, <1>2, PlacesUnmoved
  <1>3. CASE Release(r)
    BY <1>1, <1>3, ReleaseElsewhere, PlacesKeep DEF Goto, SlotInv, Active
  <1> QED
    BY <1>2, <1>3 DEF Ends

LEMMA HandlerKeepsPlaces ==
    ASSUME SlotInv, PlaceInv, NEW r \in Requests, Handler(r)
    PROVE  PlaceInv'
  <1>0. DOMAIN pc = Requests
    BY DEF SlotInv
  <1>1. CASE Authenticate(r)
    BY <1>1, PlacesUnmoved DEF Authenticate
  <1>2. CASE AcquireSlot(r)
    <2>1. pc[r] = "limits"
      BY <1>2 DEF AcquireSlot
    <2>2. CASE Goto(r, "denied") /\ UNCHANGED limitVars
      BY <2>1, <2>2, PlacesUnmoved
    <2>3. CASE Enter(r) /\ (IF Locked THEN Goto(r, "queue") /\ UNCHANGED run ELSE Run(r))
      <3>1. inflight[PrincipalOf[r]] < MaxInflight
        BY <2>3 DEF Enter
      <3>2. IF Locked THEN slot' = [slot EXCEPT ![r] = "waiting"] ELSE slot' = [slot EXCEPT ![r] = "held"]
        BY <2>3 DEF Enter
      <3>3. IF Locked THEN Goto(r, "queue") ELSE Goto(r, "running")
        BY <2>3 DEF Run
      <3>4. slot \in [Requests -> Slots] /\ PrincipalOf[r] \in Principals
        BY PrincipalsAssumption DEF SlotInv
      <3>5. OthersKeepSlots(r)
        BY <3>2, <3>4 DEF OthersKeepSlots
      <3>6. MaxInflight = 1 => \A q \in Requests \ {r} :
                PrincipalOf[q] = PrincipalOf[r] => slot[q] \notin Active
        <4> SUFFICES ASSUME MaxInflight = 1, NEW q \in Requests \ {r},
                            PrincipalOf[q] = PrincipalOf[r], slot[q] \in Active
                     PROVE  FALSE
          OBVIOUS
        <4>1. q \in Entered(PrincipalOf[r])
          BY DEF Entered, Active
        <4>2. Cardinality(Entered(PrincipalOf[r])) # 0
          BY <4>1, SetsAreFinite, FS_EmptySet
        <4>3. inflight[PrincipalOf[r]] = Cardinality(Entered(PrincipalOf[r]))
              /\ inflight[PrincipalOf[r]] \in Nat
          BY <3>4 DEF SlotInv, SlotsAreConserved, Entered
        <4> QED
          BY <3>1, <4>2, <4>3
      <3>7. CASE Locked
        BY <1>0, <3>2, <3>3, <3>4, <3>5, <3>6, <3>7, PlacesKeep DEF Goto, Active
      <3>8. CASE ~Locked
        BY <1>0, <3>2, <3>3, <3>4, <3>5, <3>6, <3>8, PlacesKeep DEF Goto, Active
      <3> QED
        BY <3>7, <3>8
    <2> QED
      BY <1>2, <2>2, <2>3 DEF AcquireSlot
  <1>3. CASE Resume(r)
    <2>1. TakeUp(r) /\ Goto(r, "running")
      BY <1>3 DEF Resume, Run
    <2> QED
      BY <1>0, <2>1, TakeUpElsewhere, PlacesKeep DEF Goto, Active
  <1>4. CASE GiveUpQueue(r)
    <2>1. QueueTimeout(r) /\ Goto(r, "denied")
      BY <1>4 DEF GiveUpQueue
    <2> QED
      BY <1>0, <2>1, QueueTimeoutElsewhere, PlacesKeep DEF Goto, Active
  <1>5. CASE Deny(r)
    BY <1>5, PlacesUnmoved DEF Deny
  <1>6. CASE Node(r) \/ LoadHistory(r) \/ SaveSession(r)
    <2>1. UNCHANGED <<pc, limitVars>>
      BY <1>6 DEF Node, LoadHistory, SaveSession
    <2> QED
      BY <2>1 DEF PlaceInv, limitVars
  <1>7. CASE Succeed(r) \/ BreakOff(r) \/ TestEnds(r)
    <2>1. pc[r] = "running" /\ (Ends(r, "success") \/ Ends(r, "error") \/ Ends(r, "timeout"))
      BY <1>7 DEF Succeed, BreakOff, TestEnds, Working
    <2> QED
      BY <2>1, EndsKeepsPlaces
  <1>8. CASE WriteAudit(r)
    <2>1. pc[r] = "audit" /\ Goto(r, "done") /\ (Release(r) \/ UNCHANGED limitVars)
      BY <1>8 DEF WriteAudit
    <2>2. CASE UNCHANGED limitVars
      BY <2>1, <2>2, PlacesUnmoved
    <2>3. CASE Release(r)
      BY <1>0, <2>1, <2>3, ReleaseElsewhere, PlacesKeep DEF Goto, Active
    <2> QED
      BY <2>1, <2>2, <2>3
  <1> QED
    BY <1>1, <1>2, <1>3, <1>4, <1>5, <1>6, <1>7, <1>8 DEF Handler

LEMMA NextKeepsPlaces ==
    ASSUME SlotInv, PlaceInv, [Next]_vars
    PROVE  PlaceInv'
  <1>1. CASE UNCHANGED <<pc, limitVars>>
    BY <1>1 DEF PlaceInv, limitVars
  <1>2. ASSUME NEW r \in Requests, Step(r)
        PROVE  PlaceInv'
    BY <1>1, <1>2, HandlerKeepsPlaces DEF Step, MemoryNode
  <1>3. ASSUME NEW r \in Requests, Disconnect(r)
        PROVE  PlaceInv'
    BY <1>1, <1>3, EndsKeepsPlaces DEF Disconnect, Working
  <1>4. ASSUME NEW c \in Pops, Pop(c)
        PROVE  PlaceInv'
    BY <1>1, <1>4 DEF Pop
  <1>5. CASE StoresForget
    BY <1>1, <1>5 DEF StoresForget
  <1> QED
    BY <1>1, <1>2, <1>3, <1>4, <1>5 DEF Next, vars

-----------------------------------------------------------------------------
(***************************************************************************)
(* The context.  While a request has its slot nobody else adds to its      *)
(* thread, so what it has read, less what is taken back, is what it adds   *)
(* its turn to.                                                            *)
(***************************************************************************)

InContext(q, r) == \E j \in DOMAIN context[q] : context[q][j] = r

(* The turn of r may be in the store of its thread.                        *)
Saved(r) ==
    \/ pc[r] \in {"audit", "done"}
    \/ Working(r) /\ run[r].node \in {"save_memory", "save_episode", "finalize", "end"}
    \/ Working(r) /\ run[r].node = "save_session" /\ call[r].at = "done"

Saving(r) == Working(r) /\ run[r].node = "save_session"

(* r has read the history of its thread.                                   *)
Loaded(r) == Working(r) /\ run[r].node \notin {"input_safety", "load_history"}

Known(r, turns) == \A i \in DOMAIN turns : turns[i] = r \/ InContext(r, turns[i])

Chained(turns) == \A i \in 2..Len(turns) : InContext(turns[i], turns[i - 1])

ContextInv ==
    /\ context \in [Requests -> Seq(Requests)] /\ faults \in Nat
    /\ \A r \in Requests : call[r].at \in {"watch", "exec"} => Saving(r)
    /\ \A t \in Threads : \A i \in DOMAIN redis[t] : Saved(redis[t][i])
    /\ MaxInflight = 1 /\ faults = 0 =>
         /\ \A r \in Requests : Loaded(r) => Known(r, redis[ThreadOf[r]])
         /\ \A t \in Threads : Chained(redis[t])

(* part is turns from some place on.                                       *)
Piece(part, turns) ==
    /\ part \in Seq(Requests)
    /\ \E k \in Nat : Len(part) + k <= Len(turns) /\ \A i \in 1..Len(part) : part[i] = turns[i + k]

LEMMA SubSeqIsAPiece ==
    ASSUME NEW turns \in Seq(Requests), NEW k \in 0..Len(turns), NEW n \in k..Len(turns)
    PROVE  Piece(SubSeq(turns, k + 1, n), turns)
  <1> DEFINE m == k + 1
  <1>1. Len(turns) \in Nat /\ k \in Nat /\ n \in Nat /\ k <= n /\ n <= Len(turns)
    OBVIOUS
  <1>2. m \in Int /\ n \in Int /\ \A i \in m..n : turns[i] \in Requests
    BY <1>1
  <1> HIDE DEF m
  <1>3. PICK part : part = SubSeq(turns, m, n)
    OBVIOUS
  <1>4. /\ part \in Seq(Requests)
        /\ Len(part) = IF m <= n THEN n - m + 1 ELSE 0
        /\ \A i \in 1..(n - m + 1) : part[i] = turns[m + i - 1]
    BY <1>2, <1>3, SubSeqProperties
  <1>5. Len(part) = n - k /\ \A i \in 1..(n - k) : part[i] = turns[i + k]
    <2>1. m = k + 1
      BY DEF m
    <2>2. n - m + 1 = n - k /\ \A i \in Nat : m + i - 1 = i + k
      BY <1>1, <2>1
    <2>3. Len(part) = n - k
      BY <1>1, <1>4, <2>1, <2>2
    <2>4. ASSUME NEW i \in 1..(n - k)
          PROVE  part[i] = turns[i + k]
      <3>1. part[i] = turns[m + i - 1] /\ m + i - 1 = i + k
        BY <1>4, <2>2
      <3> QED
        BY <3>1
    <2> QED
      BY <2>3, <2>4
  <1>6. Len(part) + k <= Len(turns) /\ \A i \in 1..Len(part) : part[i] = turns[i + k]
    <2>1. PICK l \in Nat : l = Len(part)
      BY <1>1, <1>5
    <2>2. l = n - k
      BY <1>5, <2>1
    <2>3. l + k <= Len(turns)
      BY <1>1, <2>2
    <2> QED
      BY <1>5, <2>1, <2>2, <2>3
  <1>7. Piece(part, turns)
    BY <1>1, <1>4, <1>6 DEF Piece
  <1> QED
    BY <1>3, <1>7 DEF m

LEMMA UpdatedIsAPiece ==
    ASSUME NEW c, NEW turns \in Seq(Requests), c \in Saves => c \in Requests
    PROVE  Piece(Updated(c, turns), IF c \in Saves THEN Append(turns, c) ELSE turns)
  <1>1. CASE c \notin Saves
    <2>1. CASE turns = <<>>
      <3>1. PICK part : part = SubSeq(turns, 1, Len(turns) - 1)
        OBVIOUS
      <3>2. Len(turns) = 0 /\ Len(turns) - 1 \in Int /\ Len(turns) - 1 < 1
        BY <2>1
      <3>3. part = <<>>
        BY <3>1, <3>2, SubSeqEmpty
      <3>4. part \in Seq(Requests) /\ Len(part) = 0 /\ Len(part) + 0 <= Len(turns)
        BY <3>2, <3>3
      <3>5. Piece(part, turns)
        BY <3>4 DEF Piece
      <3> QED
        BY <1>1, <3>1, <3>5 DEF Updated
    <2>2. CASE turns # <<>>
      <3>1. 0 \in 0..Len(turns) /\ Len(turns) - 1 \in 0..Len(turns)
        BY <2>2
      <3>2. Piece(SubSeq(turns, 0 + 1, Len(turns) - 1), turns)
        BY <3>1, SubSeqIsAPiece
      <3> QED
        BY <1>1, <3>2 DEF Updated
    <2> QED
      BY <2>1, <2>2
  <1>2. CASE c \in Saves
    <2>0. Append(turns, c) \in Seq(Requests)
      BY <1>2
    <2>1. PICK all \in Seq(Requests) : all = Append(turns, c)
      BY <2>0
    <2>2. Len(all) \in Nat /\ Len(all) - 0 = Len(all)
      BY <2>1
    <2>3. CASE Len(all) > MaxTurns
      <3>1. Len(all) - MaxTurns \in 0..Len(all) /\ Len(all) \in (Len(all) - MaxTurns)..Len(all)
        BY <2>2, <2>3, StoresAssumption
      <3>2. Piece(SubSeq(all, Len(all) - MaxTurns + 1, Len(all)), all)
        BY <3>1, SubSeqIsAPiece
      <3> QED
        BY <1>2, <2>1, <2>3, <3>2 DEF Updated, LastTurns
    <2>4. CASE ~(Len(all) > MaxTurns)
      <3>1. Len(all) + 0 <= Len(all) /\ \A i \in 1..Len(all) : all[i] = all[i + 0]
        BY <2>2
      <3>2. Piece(all, all)
        BY <3>1 DEF Piece
      <3> QED
        BY <1>2, <2>1, <2>4, <3>2 DEF Updated, LastTurns
    <2> QED
      BY <2>3, <2>4
  <1> QED
    BY <1>1, <1>2

(* What is in the list after a write was there, or is what is written.     *)
LEMMA UpdatedHolds ==
    ASSUME NEW c, NEW turns \in Seq(Requests), c \in Saves => c \in Requests,
           NEW i \in DOMAIN Updated(c, turns)
    PROVE  \/ c \in Saves /\ Updated(c, turns)[i] = c
           \/ \E j \in DOMAIN turns : Updated(c, turns)[i] = turns[j]
  <1> DEFINE part == Updated(c, turns)
             all == IF c \in Saves THEN Append(turns, c) ELSE turns
  <1>1. Piece(part, all)
    BY UpdatedIsAPiece
  <1>2. all \in Seq(Requests)
    OBVIOUS
  <1>3. PICK k \in Nat : Len(part) + k <= Len(all) /\ \A j \in 1..Len(part) : part[j] = all[j + k]
    BY <1>1 DEF Piece
  <1>4. i \in 1..Len(part) /\ Len(part) \in Nat
    BY <1>1 DEF Piece
  <1>5. part[i] = all[i + k] /\ i + k \in 1..Len(all)
    <2> HIDE DEF part, all
    <2> QED
      BY <1>2, <1>3, <1>4
  <1>6. CASE c \notin Saves
    BY <1>5, <1>6
  <1>7. CASE c \in Saves
    <2>1. Len(all) = Len(turns) + 1 /\ all[Len(turns) + 1] = c
          /\ \A j \in 1..Len(turns) : all[j] = turns[j]
      BY <1>7
    <2>2. Len(turns) \in Nat /\ DOMAIN turns = 1..Len(turns)
      OBVIOUS
    <2> HIDE DEF part, all
    <2>3. i + k = Len(turns) + 1 \/ i + k \in 1..Len(turns)
      BY <1>5, <2>1, <2>2
    <2>4. part[i] = c \/ \E j \in DOMAIN turns : part[i] = turns[j]
      BY <1>5, <2>1, <2>2, <2>3
    <2> QED
      BY <1>7, <2>4 DEF part
  <1> QED
    BY <1>6, <1>7

LEMMA UpdatedIsChained ==
    ASSUME NEW c, NEW turns \in Seq(Requests), c \in Saves => c \in Requests,
           Chained(turns), c \in Saves => \A i \in DOMAIN turns : InContext(c, turns[i])
    PROVE  Chained(Updated(c, turns))
  <1> DEFINE part == Updated(c, turns)
             all == IF c \in Saves THEN Append(turns, c) ELSE turns
  <1>1. Piece(part, all)
    BY UpdatedIsAPiece
  <1>2. all \in Seq(Requests)
    OBVIOUS
  <1>3. Chained(all)
    <2>1. CASE c \notin Saves
      BY <2>1
    <2>2. CASE c \in Saves
      <3>1. Len(all) = Len(turns) + 1 /\ all[Len(turns) + 1] = c
            /\ \A j \in 1..Len(turns) : all[j] = turns[j]
        BY <2>2
      <3> HIDE DEF all
      <3>2. ASSUME NEW i \in 2..Len(all)
            PROVE  InContext(all[i], all[i - 1])
        <4>1. CASE i = Len(turns) + 1
          <5>1. i - 1 \in DOMAIN turns /\ all[i - 1] = turns[i - 1] /\ all[i] = c
            BY <3>1, <3>2, <4>1
          <5> QED
            BY <2>2, <5>1
        <4>2. CASE i # Len(turns) + 1
          <5>1. i \in 2..Len(turns) /\ all[i - 1] = turns[i - 1] /\ all[i] = turns[i]
            BY <3>1, <3>2, <4>2
          <5> QED
            BY <5>1 DEF Chained
        <4> QED
          BY <4>1, <4>2
      <3> QED
        BY <3>2 DEF Chained
    <2> QED
      BY <2>1, <2>2
  <1> HIDE DEF part, all
  <1>4. PICK k \in Nat : Len(part) + k <= Len(all) /\ \A j \in 1..Len(part) : part[j] = all[j + k]
    BY <1>1 DEF Piece
  <1>5. ASSUME NEW i \in 2..Len(part)
        PROVE  InContext(part[i], part[i - 1])
    <2>1. /\ i + k \in 2..Len(all) /\ (i - 1) + k = (i + k) - 1
          /\ i \in 1..Len(part) /\ i - 1 \in 1..Len(part)
      BY <1>1, <1>2, <1>4, <1>5 DEF Piece
    <2>2. part[i] = all[i + k] /\ part[i - 1] = all[(i + k) - 1]
      BY <1>4, <2>1
    <2> QED
      BY <1>3, <2>1, <2>2 DEF Chained
  <1> QED
    BY <1>5 DEF Chained, part

-----------------------------------------------------------------------------

(* A write of c to the list of its thread.                                 *)
Commits(c) ==
    /\ redis' = [redis EXCEPT ![ThreadOf[c]] = Updated(c, redis[ThreadOf[c]])]
    /\ c \in Requests => Saving(c) /\ call[c].at # "done" /\ Saved(c)'

Lists ==
    \/ UNCHANGED redis
    \/ \E t \in Threads : redis' = [redis EXCEPT ![t] = <<>>]
    \/ \E c \in Callers : Commits(c)

Progress ==
    /\ \A r \in Requests : Saved(r) => Saved(r)'
    /\ \A r \in Requests : call'[r].at \in {"watch", "exec"} => Saving(r)'
    /\ \A r \in Requests : Loaded(r)' => Loaded(r)
    /\ faults' \in Nat /\ (faults' = 0 => faults = 0)

(* Of two requests of one thread, only one has a slot.                     *)
LEMMA OneOfAThread ==
    ASSUME PlaceInv, MaxInflight = 1, NEW q \in Requests, NEW r \in Requests,
           Working(q), Working(r), ThreadOf[q] = ThreadOf[r]
    PROVE  q = r
  BY ThreadsAssumption DEF PlaceInv, Working, Active

LEMMA ProgressKeepsContext ==
    ASSUME StoreInv, StoreInv', PlaceInv, ContextInv, UNCHANGED context, Progress, Lists
    PROVE  ContextInv'
  <1>0. redis \in [Threads -> Seq(Requests)] /\ redis' \in [Threads -> Seq(Requests)]
        /\ ThreadOf \in [Callers -> Threads] /\ Requests \subseteq Callers /\ Saves = Requests
    BY CallersAssumption, RequestsAssumption DEF StoreInv
  <1>1. ASSUME NEW t \in Threads, NEW x \in Requests, NEW i \in DOMAIN redis'[t], x = redis'[t][i]
        PROVE  Saved(x)'
    <2>3. ASSUME NEW j \in DOMAIN redis[t], x = redis[t][j]
          PROVE  Saved(x)'
      BY <2>3 DEF ContextInv, Progress
    <2>4. CASE redis'[t] = redis[t]
      BY <1>1, <2>3, <2>4
    <2>5. CASE redis'[t] = <<>>
      BY <1>1, <2>5
    <2>6. ASSUME NEW c \in Callers, Commits(c), t = ThreadOf[c]
          PROVE  Saved(x)'
      <3>1. redis'[t] = Updated(c, redis[t])
        BY <1>0, <2>6 DEF Commits
      <3>2. \/ c \in Saves /\ x = c
            \/ \E j \in DOMAIN redis[t] : x = redis[t][j]
        BY <1>0, <1>1, <3>1, UpdatedHolds
      <3> QED
        BY <1>0, <2>3, <2>6, <3>2 DEF Commits
    <2> QED
      BY <1>0, <2>4, <2>5, <2>6 DEF Lists, Commits
  <1>2. ASSUME MaxInflight = 1, faults' = 0
        PROVE  /\ \A r \in Requests : Loaded(r)' => Known(r, redis[ThreadOf[r]])'
               /\ \A t \in Threads : Chained(redis[t])'
    <2>1. faults = 0
      BY <1>2 DEF Progress
    <2>2. \A r \in Requests : Loaded(r)' => Known(r, redis[ThreadOf[r]])
      BY <1>2, <2>1 DEF ContextInv, Progress
    <2>3. \A t \in Threads : Chained(redis[t])
      BY <1>2, <2>1 DEF ContextInv
    <2>4. CASE UNCHANGED redis
      BY <2>2, <2>3, <2>4 DEF Known, InContext, Chained
    <2>5. CASE \E t \in Threads : redis' = [redis EXCEPT ![t] = <<>>]
      <3>1. \A t \in Threads : redis'[t] = redis[t] \/ redis'[t] = <<>>
        BY <1>0, <2>5
      <3>2. \A r \in Requests : Loaded(r)' => Known(r, redis[ThreadOf[r]])'
        <4>1. ASSUME NEW r \in Requests, Loaded(r)'
              PROVE  Known(r, redis'[ThreadOf[r]])
          <5>1. Known(r, redis[ThreadOf[r]]) /\ ThreadOf[r] \in Threads
            BY <1>0, <2>2, <4>1
          <5>2. redis'[ThreadOf[r]] = redis[ThreadOf[r]] \/ redis'[ThreadOf[r]] = <<>>
            BY <3>1, <5>1
          <5> QED
            BY <5>1, <5>2 DEF Known
        <4> QED
          BY <4>1 DEF Known, InContext
      <3>3. \A t \in Threads : Chained(redis[t])'
        <4>1. Chained(<<>>)
          BY DEF Chained
        <4>2. \A t \in Threads : Chained(redis'[t])
          BY <2>3, <3>1, <4>1
        <4> QED
          BY <4>2 DEF Chained, InContext
      <3> QED
        BY <3>2, <3>3
    <2>6. ASSUME NEW c \in Callers, Commits(c)
          PROVE  /\ \A r \in Requests : Loaded(r)' => Known(r, redis[ThreadOf[r]])'
                 /\ \A t \in Threads : Chained(redis[t])'
      <3> DEFINE u == ThreadOf[c]
      <3>1. u \in Threads /\ redis[u] \in Seq(Requests) /\ redis'[u] = Updated(c, redis[u])
            /\ \A t \in Threads \ {u} : redis'[t] = redis[t]
        BY <1>0, <2>6 DEF Commits
      <3>2. c \in Saves => /\ c \in Requests /\ Working(c)
                           /\ \A i \in DOMAIN redis[u] : InContext(c, redis[u][i])
        <4> SUFFICES ASSUME c \in Requests
                     PROVE  Working(c) /\ \A i \in DOMAIN redis[u] : InContext(c, redis[u][i])
          BY <1>0
        <4>1. Saving(c) /\ call[c].at # "done"
          BY <2>6 DEF Commits
        <4>2. ~Saved(c) /\ Loaded(c) /\ Working(c)
          BY <4>1 DEF Saving, Saved, Loaded, Working
        <4>3. Known(c, redis[u])
          BY <1>2, <2>1, <4>2 DEF ContextInv
        <4> QED
          BY <3>1, <4>2, <4>3 DEF Known, ContextInv
      <3>3. Chained(redis'[u])
        BY <2>3, <3>1, <3>2, UpdatedIsChained
      <3>4. \A t \in Threads : Chained(redis'[t])
        BY <2>3, <3>1, <3>3
      <3>5. ASSUME NEW r \in Requests, Loaded(r)'
            PROVE  Known(r, redis'[ThreadOf[r]])
        <4>1. Known(r, redis[ThreadOf[r]]) /\ ThreadOf[r] \in Threads
          BY <1>0, <2>2, <3>5
        <4>2. CASE ThreadOf[r] # u
          BY <3>1, <4>1, <4>2
        <4>3. CASE ThreadOf[r] = u
          <5>1. c \in Saves => c = r
            BY <1>2, <3>2, <3>5, <4>3, OneOfAThread DEF Progress, Loaded
          <5>2. ASSUME NEW i \in DOMAIN redis'[u]
                PROVE  redis'[u][i] = r \/ InContext(r, redis'[u][i])
            <6>1. \/ c \in Saves /\ redis'[u][i] = c
                  \/ \E j \in DOMAIN redis[u] : redis'[u][i] = redis[u][j]
              BY <3>1, <3>2, <5>2, UpdatedHolds
            <6> QED
              BY <4>1, <4>3, <5>1, <6>1 DEF Known
          <5> QED
            BY <4>3, <5>2 DEF Known
        <4> QED
          BY <4>2, <4>3
      <3> QED
        BY <3>4, <3>5 DEF Known, Chained, InContext
    <2> QED
      BY <2>4, <2>5, <2>6 DEF Lists
  <1>3. (\A t \in Threads : \A i \in DOMAIN redis[t] : Saved(redis[t][i]))'
    <2>1. \A t \in Threads : \A i \in DOMAIN redis'[t] : redis'[t][i] \in Requests
      BY <1>0
    <2> QED
      BY <1>1, <2>1 DEF Saved, Working
  <1> QED
    BY <1>2, <1>3 DEF ContextInv, Progress

-----------------------------------------------------------------------------

(* A step of the store for c: the calls of the others stay where they are. *)
Moves(c) ==
    /\ \A d \in Callers \ {c} : call'[d].at = call[d].at
    /\ faults' \in Nat /\ (faults' = 0 => faults = 0)
    /\ \/ UNCHANGED redis
       \/ /\ call[c].at = "exec" /\ call'[c].at = "done"
          /\ redis' = [redis EXCEPT ![ThreadOf[c]] = Updated(c, redis[ThreadOf[c]])]

LEMMA SetCallMoves ==
    ASSUME StoreInv, NEW c \in Callers, NEW next, call' = [call EXCEPT ![c] = next],
           UNCHANGED redis, faults' \in Nat, faults' = 0 => faults = 0
    PROVE  Moves(c) /\ call'[c] = next
  BY DEF StoreInv, Moves

LEMMA TouchMoves ==
    ASSUME StoreInv, NEW c \in Callers, NEW next, next.at = "done",
           call[c].at = "exec", ~call[c].dirty,
           redis' = [redis EXCEPT ![ThreadOf[c]] = Updated(c, call[c].seen)],
           call' = Touch(ThreadOf[c], c, next), faults' \in Nat, faults' = 0 => faults = 0
    PROVE  Moves(c) /\ call'[c].at = "done"
  <1>1. call[c].seen = redis[ThreadOf[c]]
    BY DEF StoreInv, Undisturbed
  <1>2. call'[c].at = "done"
    BY DEF Touch
  <1>3. ASSUME NEW d \in Callers \ {c}
        PROVE  call'[d].at = call[d].at
    <2>1. call[d] \in Call
      BY DEF StoreInv
    <2>2. [call[d] EXCEPT !.dirty = TRUE].at = call[d].at
      BY <2>1 DEF Call
    <2> QED
      BY <2>2 DEF Touch
  <1> QED
    BY <1>1, <1>2, <1>3 DEF Moves

LEMMA FaultCounts ==
    ASSUME faults \in Nat, NEW c, Fault(c)
    PROVE  faults' \in Nat /\ (faults' = 0 => faults = 0)
  BY DEF Fault

LEMMA StoreStepMoves ==
    ASSUME StoreInv, faults \in Nat, NEW c \in Callers, StoreStep(c)
    PROVE  /\ Moves(c) /\ call[c].at \in {"watch", "exec"}
           /\ call'[c].at \in {"watch", "exec", "done"}
  <1>1. CASE Watch(c)
    <2>1. call[c] \in Call
      BY DEF StoreInv
    <2>2. PICK next : /\ call' = [call EXCEPT ![c] = next]
                      /\ next.at \in {"exec", "done"}
      <3> DEFINE t == ThreadOf[c]
                 next == IF Writes(c, redis[t])
                         THEN [call[c] EXCEPT !.at = "exec", !.seen = redis[t], !.dirty = FALSE]
                         ELSE Done(c, FALSE)
      <3>1. next.at \in {"exec", "done"}
        BY <2>1 DEF Call, Done, Idle
      <3>2. call' = [call EXCEPT ![c] = next]
        BY <1>1 DEF Watch, StoreInv
      <3> HIDE DEF next
      <3> QED
        BY <3>1, <3>2
    <2>3. call[c].at = "watch" /\ UNCHANGED <<redis, faults>>
      BY <1>1 DEF Watch
    <2> QED
      BY <2>2, <2>3, SetCallMoves
  <1>2. CASE Exec(c)
    <2>1. PICK next : next = Done(c, c \notin Saves)
      OBVIOUS
    <2>2. next.at = "done"
      BY <2>1 DEF Done, Idle
    <2>3. /\ call[c].at = "exec" /\ ~call[c].dirty /\ UNCHANGED faults
          /\ redis' = [redis EXCEPT ![ThreadOf[c]] = Updated(c, call[c].seen)]
          /\ call' = Touch(ThreadOf[c], c, next)
      BY <1>2, <2>1 DEF Exec
    <2> QED
      BY <2>2, <2>3, TouchMoves
  <1>3. CASE ExecConflicts(c)
    <2>1. PICK next : /\ call' = [call EXCEPT ![c] = next]
                      /\ next.at \in {"watch", "done"}
      <3>1. CASE call[c].tries + 1 < Attempts
        <4>1. PICK tries : tries = call[c].tries + 1
          OBVIOUS
        <4>2. call' = [call EXCEPT ![c] = [Idle EXCEPT !.at = "watch", !.tries = tries]]
          BY <1>3, <3>1, <4>1 DEF ExecConflicts
        <4>3. [Idle EXCEPT !.at = "watch", !.tries = tries].at = "watch"
          BY DEF Idle
        <4> QED
          BY <4>2, <4>3
      <3>2. CASE ~(call[c].tries + 1 < Attempts)
        <4>1. PICK removed : removed = MemoryResult(c, ThreadOf[c])
          OBVIOUS
        <4>2. call' = [call EXCEPT ![c] = Done(c, removed)]
          BY <1>3, <3>2, <4>1 DEF ExecConflicts
        <4>3. Done(c, removed).at = "done"
          BY DEF Done, Idle
        <4> QED
          BY <4>2, <4>3
      <3> QED
        BY <3>1, <3>2
    <2>2. call[c].at = "exec" /\ UNCHANGED <<redis, faults>>
      BY <1>3 DEF ExecConflicts
    <2> QED
      BY <2>1, <2>2, SetCallMoves
  <1>4. CASE RedisFails(c)
    <2>1. PICK next : next = Done(c, MemoryResult(c, ThreadOf[c]))
      OBVIOUS
    <2>2. next.at = "done"
      BY <2>1 DEF Done, Idle
    <2>3. /\ call[c].at \in {"watch", "exec"} /\ Fault(c)
          /\ \/ UNCHANGED redis /\ call' = [call EXCEPT ![c] = next]
             \/ /\ call[c].at = "exec" /\ ~call[c].dirty
                /\ redis' = [redis EXCEPT ![ThreadOf[c]] = Updated(c, call[c].seen)]
                /\ call' = Touch(ThreadOf[c], c, next)
      BY <1>4, <2>1 DEF RedisFails
    <2>4. faults' \in Nat /\ (faults' = 0 => faults = 0)
      BY <2>3, FaultCounts
    <2> QED
      BY <2>2, <2>3, <2>4, SetCallMoves, TouchMoves
  <1> QED
    BY <1>1, <1>2, <1>3, <1>4 DEF StoreStep

LEMMA AbandonMoves ==
    ASSUME StoreInv, faults \in Nat, NEW c \in Callers, Abandon(c), UNCHANGED faults
    PROVE  Moves(c) /\ call'[c].at = "done"
  <1>1. PICK next : next = Done(c, FALSE)
    OBVIOUS
  <1>2. next.at = "done"
    BY <1>1 DEF Done, Idle
  <1>3. \/ UNCHANGED redis /\ call' = [call EXCEPT ![c] = next]
        \/ /\ call[c].at = "exec" /\ ~call[c].dirty
           /\ redis' = [redis EXCEPT ![ThreadOf[c]] = Updated(c, call[c].seen)]
           /\ call' = Touch(ThreadOf[c], c, next)
    BY <1>1 DEF Abandon
  <1> QED
    BY <1>2, <1>3, SetCallMoves, TouchMoves

-----------------------------------------------------------------------------
LEMMA ToNode ==
    ASSUME NEW s, "node" \in DOMAIN s, NEW n
    PROVE  To(s, n).node = n
  BY DEF To

(* No node leads back to the history; the last one ends the run.           *)
LEMMA ResultNodes ==
    ASSUME NEW s \in RuntimeState, NEW t \in Results(s)
    PROVE  /\ t.node \in {"input_safety", "load_history"} => s.node = "input_safety"
           /\ s.node \notin {"save_session", "save_memory", "save_episode", "end"}
           /\ s.node = "finalize" => t.node = "end"
  <1>1. "node" \in DOMAIN s /\ s.node \in Nodes
    BY DEF RuntimeState
  <1>2. CASE s.node = "input_safety"
    BY <1>2 DEF Results
  <1>3. CASE s.node = "route"
    <2>1. \E n \in {"safe_response", "retrieve", "load_schema"} : t = To(s, n)
      BY <1>3 DEF Results, Route
    <2> QED
      BY <1>1, <1>3, <2>1, ToNode
  <1>4. CASE s.node = "safe_response"
    <2>1. t = To([s EXCEPT !.answer = "safe"], "save_session")
      BY <1>4 DEF Results, SafeResponse
    <2>2. "node" \in DOMAIN [s EXCEPT !.answer = "safe"]
      BY <1>1
    <2> QED
      BY <1>4, <2>1, <2>2, ToNode
  <1>5. CASE s.node = "retrieve"
    <2>1. \E n \in {"synthesize", "load_schema"} : t = To(s, n)
      BY <1>5 DEF Results, Retrieve
    <2> QED
      BY <1>1, <1>5, <2>1, ToNode
  <1>6. CASE s.node = "load_schema"
    <2>1. \/ \E n \in {"analysis_plan", "generate_sql"} : t = To(s, n)
          \/ t = To([s EXCEPT !.sqlError = TRUE], "synthesize")
      BY <1>6 DEF Results, LoadSchema
    <2>2. "node" \in DOMAIN [s EXCEPT !.sqlError = TRUE]
      BY <1>1
    <2> QED
      BY <1>1, <1>6, <2>1, <2>2, ToNode
  <1>7. ASSUME NEW u, "node" \in DOMAIN u, t = SqlFailed(u)
        PROVE  t.node \in {"generate_sql", "synthesize"}
    <2>1. PICK n \in {"generate_sql", "synthesize"} :
              t = To([u EXCEPT !.sqlError = TRUE, !.retries = @ + 1], n)
      BY <1>7 DEF SqlFailed
    <2>2. "node" \in DOMAIN [u EXCEPT !.sqlError = TRUE, !.retries = @ + 1]
      BY <1>7
    <2> QED
      BY <2>1, <2>2, ToNode
  <1>8. CASE s.node = "generate_sql"
    <2>1. PICK c : c = Called(s)
      OBVIOUS
    <2>2. "node" \in DOMAIN c
      BY <1>1, <2>1 DEF Called
    <2>3. PICK g : g = IF s.retries = 0 THEN "sql1" ELSE "sql2"
      OBVIOUS
    <2>4. \/ t = To([c EXCEPT !.generated = g, !.sqlError = FALSE], "validate_sql")
          \/ t = SqlFailed([c EXCEPT !.generated = NoSql])
      BY <1>8, <2>1, <2>3 DEF Results, GenerateSql
    <2>5. /\ "node" \in DOMAIN [c EXCEPT !.generated = g, !.sqlError = FALSE]
          /\ "node" \in DOMAIN [c EXCEPT !.generated = NoSql]
      BY <2>2
    <2> QED
      BY <1>7, <1>8, <2>4, <2>5, ToNode
  <1>9. CASE s.node = "validate_sql"
    <2>1. t = To([s EXCEPT !.sql = s.generated], "execute_sql") \/ t = SqlFailed(s)
      BY <1>9 DEF Results, ValidateSql
    <2>2. "node" \in DOMAIN [s EXCEPT !.sql = s.generated]
      BY <1>1
    <2> QED
      BY <1>1, <1>7, <1>9, <2>1, <2>2, ToNode
  <1>10. CASE s.node = "execute_sql"
    <2>1. t = To([s EXCEPT !.rows = s.sql, !.sqlError = FALSE], "synthesize") \/ t = SqlFailed(s)
      BY <1>10 DEF Results, ExecuteSql
    <2>2. "node" \in DOMAIN [s EXCEPT !.rows = s.sql, !.sqlError = FALSE]
      BY <1>1
    <2> QED
      BY <1>1, <1>7, <1>10, <2>1, <2>2, ToNode
  <1>11. ASSUME NEW u, "node" \in DOMAIN u
         PROVE  /\ \A tool : Planned(u, tool).node = "analysis_execute"
                /\ "node" \in DOMAIN Finished(u) /\ Finished(u).node = "synthesize"
    <2>1. ASSUME NEW tool
          PROVE  "node" \in DOMAIN [u EXCEPT !.action = tool]
      BY <1>11
    <2>2. "node" \in DOMAIN Finished(u)
      BY <1>11 DEF Finished, To
    <2> QED
      BY <2>1, <2>2, ToNode DEF Planned, Finished
  <1>12. CASE s.node = "analysis_plan"
    <2>1. PICK c : c = Called(s)
      OBVIOUS
    <2>2. "node" \in DOMAIN c
      BY <1>1, <2>1 DEF Called
    <2>3. \/ \E tool : t = Planned(s, tool) \/ t = Planned(c, tool)
          \/ t = Finished(s) \/ t = [Finished(s) EXCEPT !.note = TRUE]
          \/ t = Finished(c) \/ t = [Finished(c) EXCEPT !.sqlError = TRUE, !.analysisError = TRUE]
      BY <1>12, <2>1 DEF Results, AnalysisPlan
    <2>4. ASSUME NEW u, "node" \in DOMAIN u
          PROVE  /\ [u EXCEPT !.note = TRUE].node = u.node
                 /\ [u EXCEPT !.sqlError = TRUE, !.analysisError = TRUE].node = u.node
      BY <2>4
    <2>5. \A tool : Planned(s, tool).node = "analysis_execute" /\ Planned(c, tool).node = "analysis_execute"
      BY <1>1, <1>11, <2>2
    <2>6. /\ "node" \in DOMAIN Finished(s) /\ Finished(s).node = "synthesize"
          /\ "node" \in DOMAIN Finished(c) /\ Finished(c).node = "synthesize"
      BY <1>1, <1>11, <2>2
    <2>7. t.node \in {"analysis_execute", "synthesize"}
      <3>1. CASE \E tool : t = Planned(s, tool) \/ t = Planned(c, tool)
        BY <2>5, <3>1
      <3>2. CASE t = Finished(s) \/ t = Finished(c)
        BY <2>6, <3>2
      <3>3. CASE t = [Finished(s) EXCEPT !.note = TRUE]
        BY <2>4, <2>6, <3>3
      <3>4. CASE t = [Finished(c) EXCEPT !.sqlError = TRUE, !.analysisError = TRUE]
        BY <2>4, <2>6, <3>4
      <3> QED
        BY <2>3, <3>1, <3>2, <3>3, <3>4
    <2> QED
      BY <1>12, <2>7
  <1>13. CASE s.node = "analysis_execute"
    <2>1. \/ t = To([s EXCEPT !.sqlError = TRUE, !.analysisError = TRUE], "synthesize")
          \/ \E c : t = To([s EXCEPT !.sql = s.action, !.rows = s.action, !.sqlError = FALSE,
                                     !.evidence = @ \cup {s.action}, !.compared = c], "analysis_plan")
      BY <1>13 DEF Results, AnalysisExecute
    <2>2. /\ "node" \in DOMAIN [s EXCEPT !.sqlError = TRUE, !.analysisError = TRUE]
          /\ \A c : "node" \in DOMAIN [s EXCEPT !.sql = s.action, !.rows = s.action, !.sqlError = FALSE,
                                                !.evidence = @ \cup {s.action}, !.compared = c]
      BY <1>1
    <2> QED
      BY <1>13, <2>1, <2>2, ToNode
  <1>14. CASE s.node = "synthesize"
    <2>1. PICK c : c = Called(s)
      OBVIOUS
    <2>2. "node" \in DOMAIN c
      BY <1>1, <2>1 DEF Called
    <2>3. \E a : \/ t = To([s EXCEPT !.answer = a], "save_session")
                 \/ t = To([c EXCEPT !.answer = a], "save_session")
      BY <1>14, <2>1 DEF Results, Synthesize
    <2>4. \A a : "node" \in DOMAIN [s EXCEPT !.answer = a] /\ "node" \in DOMAIN [c EXCEPT !.answer = a]
      BY <1>1, <2>2
    <2> QED
      BY <1>14, <2>3, <2>4, ToNode
  <1>15. CASE s.node = "finalize"
    <2>1. t = To(s, "end")
      BY <1>15 DEF Results, Finalize
    <2> QED
      BY <1>1, <1>15, <2>1, ToNode
  <1>16. CASE s.node \in {"load_history", "load_memory", "save_session", "save_memory",
                          "save_episode", "end"}
    <2>1. Results(s) = {}
      BY <1>16 DEF Results
    <2> QED
      BY <2>1
  <1> QED
    BY <1>1, <1>2, <1>3, <1>4, <1>5, <1>6, <1>8, <1>9, <1>10, <1>12, <1>13, <1>14, <1>15, <1>16 DEF Nodes

-----------------------------------------------------------------------------

(* A step of r that leaves the others where they are.                      *)
LEMMA OwnProgress ==
    ASSUME ContextInv, NEW r \in Requests,
           \A q \in Requests \ {r} : pc'[q] = pc[q] /\ run'[q] = run[q] /\ call'[q].at = call[q].at,
           Saved(r) => Saved(r)',
           call'[r].at \in {"watch", "exec"} => Saving(r)',
           Loaded(r)' => Loaded(r),
           faults' \in Nat, faults' = 0 => faults = 0
    PROVE  Progress
  <1>1. ASSUME NEW q \in Requests \ {r}
        PROVE  /\ Saved(q) => Saved(q)'
               /\ call'[q].at \in {"watch", "exec"} => Saving(q)'
               /\ Loaded(q)' => Loaded(q)
    BY DEF Saved, Saving, Loaded, Working, ContextInv
  <1> QED
    BY <1>1 DEF Progress

(* Where the request leaves the graph or has not begun its work.           *)
LEMMA OutsideKeepsContext ==
    ASSUME StoreInv, StoreInv', PlaceInv, ContextInv, NEW r \in Requests,
           \A q \in Requests \ {r} : pc'[q] = pc[q] /\ run'[q] = run[q],
           pc'[r] # "running" \/ Kind[r] = "test" \/ run'[r].node = "input_safety",
           pc'[r] \in {"audit", "done"} \/ ~Saved(r),
           ~Saving(r), UNCHANGED <<context, redis, call, faults>>
    PROVE  ContextInv'
  <1>1. Progress
    BY OwnProgress DEF ContextInv, Saved, Saving, Loaded, Working
  <1> QED
    BY <1>1, ProgressKeepsContext DEF Lists

(* Another node, within the graph.                                         *)
LEMMA InsideKeepsContext ==
    ASSUME StoreInv, StoreInv', PlaceInv, ContextInv, NEW r \in Requests, Working(r), ~Saving(r),
           UNCHANGED <<pc, context, redis, call, faults>>,
           \A q \in Requests \ {r} : run'[q] = run[q],
           run'[r].node \in {"input_safety", "load_history"} \/ Loaded(r),
           Saved(r) => run'[r].node \in {"save_memory", "save_episode", "finalize", "end"}
    PROVE  ContextInv'
  <1>1. Progress
    BY OwnProgress DEF ContextInv, Saved, Saving, Loaded, Working
  <1> QED
    BY <1>1, ProgressKeepsContext DEF Lists

(* The work of r is over: what it does with Redis is done or abandoned.    *)
LEMMA EndKeepsContext ==
    ASSUME StoreInv, StoreInv', SlotInv, PlaceInv, RunInv, ContextInv,
           NEW r \in Requests, pc[r] = "running", NEW how, Ends(r, how), UNCHANGED context,
           \/ UNCHANGED storeVars /\ call[r].at \notin {"watch", "exec"}
           \/ CancelRun(r)
    PROVE  ContextInv'
  <1>0. /\ r \in Callers /\ faults \in Nat /\ DOMAIN pc = Requests /\ DOMAIN run = Requests
        /\ \A q \in Requests : q \in Callers
    BY RequestsAssumption DEF ContextInv, SlotInv, RunInv
  <1>1. /\ pc'[r] = "audit"
        /\ \A q \in Requests \ {r} : pc'[q] = pc[q] /\ run'[q] = run[q]
    BY <1>0 DEF Ends, Goto
  <1>2. CASE UNCHANGED storeVars /\ call[r].at \notin {"watch", "exec"}
    <2>1. Progress
      BY <1>1, <1>2, OwnProgress DEF ContextInv, Saved, Saving, Loaded, Working, storeVars
    <2> QED
      BY <1>2, <2>1, ProgressKeepsContext DEF Lists, storeVars
  <1>3. CASE call[r].at \in {"watch", "exec"} /\ Abandon(r) /\ UNCHANGED faults
    <2>1. Moves(r) /\ call'[r].at = "done"
      BY <1>0, <1>3, AbandonMoves
    <2>2. Progress
      BY <1>0, <1>1, <2>1, OwnProgress DEF Saved, Saving, Loaded, Working, Moves
    <2>3. Lists
      <3>1. Saving(r) /\ call[r].at # "done" /\ Saved(r)'
        BY <1>1, <1>3 DEF ContextInv, Saved
      <3> QED
        BY <1>0, <2>1, <3>1 DEF Lists, Commits, Moves
    <2> QED
      BY <2>2, <2>3, ProgressKeepsContext
  <1>4. CASE call[r].at \notin {"watch", "exec"} /\ UNCHANGED storeVars
    BY <1>2, <1>4
  <1> QED
    BY <1>2, <1>3, <1>4 DEF CancelRun

LEMMA SaveSessionKeepsContext ==
    ASSUME StoreInv, StoreInv', SlotInv, PlaceInv, RunInv, ContextInv,
           NEW r \in Requests, SaveSession(r)
    PROVE  ContextInv'
  <1>0. /\ r \in Callers /\ faults \in Nat /\ Saving(r) /\ Working(r) /\ UNCHANGED <<pc, context>>
        /\ \A q \in Requests : q \in Callers
    BY RequestsAssumption DEF ContextInv, SaveSession, Saving
  <1>1. CASE Begin(r) /\ call[r].at = "idle" /\ UNCHANGED <<run, redis, faults>>
    <2>1. PICK next : next = [Idle EXCEPT !.at = "watch"]
      OBVIOUS
    <2>2. next.at = "watch"
      BY <2>1 DEF Idle
    <2>3. Moves(r) /\ call'[r] = next
      BY <1>0, <1>1, <2>1, SetCallMoves DEF Begin
    <2>4. Progress
      BY <1>0, <1>1, <2>2, <2>3, OwnProgress DEF Saved, Saving, Loaded, Working, Moves
    <2> QED
      BY <1>0, <1>1, <2>4, ProgressKeepsContext DEF Lists
  <1>2. CASE StoreStep(r) /\ UNCHANGED run
    <2>1. /\ Moves(r) /\ call[r].at \in {"watch", "exec"}
          /\ call'[r].at \in {"watch", "exec", "done"}
      BY <1>0, <1>2, StoreStepMoves
    <2>2. Progress
      BY <1>0, <1>2, <2>1, OwnProgress DEF Saved, Saving, Loaded, Working, Moves
    <2>3. Lists
      <3>1. call'[r].at = "done" => Saved(r)'
        BY <1>0, <1>2 DEF Saved, Saving, Working
      <3> QED
        BY <1>0, <2>1, <3>1 DEF Lists, Commits, Moves
    <2> QED
      BY <1>0, <2>2, <2>3, ProgressKeepsContext
  <1>3. CASE /\ call[r].at = "done" /\ call' = [call EXCEPT ![r] = Idle]
             /\ run' = [run EXCEPT ![r] = To(run[r], "save_memory")] /\ UNCHANGED <<redis, faults>>
    <2>1. Moves(r) /\ call'[r] = Idle /\ Idle.at = "idle"
      BY <1>0, <1>3, SetCallMoves DEF Idle
    <2>2. /\ run'[r].node = "save_memory"
          /\ \A q \in Requests \ {r} : run'[q] = run[q]
      <3>1. "node" \in DOMAIN run[r] /\ DOMAIN run = Requests
        BY DEF RunInv, RuntimeState
      <3> QED
        BY <1>3, <3>1, ToNode
    <2>3. Progress
      BY <1>0, <1>3, <2>1, <2>2, OwnProgress DEF Saved, Saving, Loaded, Working, Moves
    <2> QED
      BY <1>0, <1>3, <2>3, ProgressKeepsContext DEF Lists
  <1> QED
    BY <1>1, <1>2, <1>3, Zenon DEF SaveSession

LEMMA PopKeepsContext ==
    ASSUME StoreInv, StoreInv', PlaceInv, ContextInv, NEW c \in Pops, Pop(c)
    PROVE  ContextInv'
  <1>0. /\ c \in Callers /\ c \notin Requests /\ faults \in Nat /\ UNCHANGED <<pc, run, context>>
        /\ \A q \in Requests : q \in Callers \ {c}
    BY RequestsAssumption DEF ContextInv, Pop
  <1>1. Moves(c)
    <2>1. CASE Begin(c) /\ UNCHANGED <<redis, faults>>
      BY <1>0, <2>1, SetCallMoves DEF Begin
    <2>2. CASE StoreStep(c)
      BY <1>0, <2>2, StoreStepMoves
    <2> QED
      BY <2>1, <2>2 DEF Pop
  <1>2. Progress
    BY <1>0, <1>1 DEF Progress, Saved, Saving, Loaded, Working, Moves, ContextInv
  <1>3. Lists
    BY <1>0, <1>1 DEF Lists, Commits, Moves
  <1> QED
    BY <1>0, <1>2, <1>3, ProgressKeepsContext

LEMMA ExpiryKeepsContext ==
    ASSUME StoreInv, StoreInv', PlaceInv, ContextInv, StoresForget
    PROVE  ContextInv'
  <1>0. faults \in Nat /\ UNCHANGED <<pc, run, context>> /\ Expiry
    BY DEF ContextInv, StoresForget
  <1>1. PICK t \in Threads : RedisForgets(t) \/ MemoryExpires(t)
    BY <1>0, CallersAssumption DEF Expiry
  <1>2. \A d \in Requests : call'[d].at = call[d].at
    <2> SUFFICES ASSUME NEW d \in Requests
                 PROVE  call'[d].at = call[d].at
      OBVIOUS
    <2>1. d \in Callers /\ call[d] \in Call
      BY RequestsAssumption DEF StoreInv
    <2>2. [call[d] EXCEPT !.dirty = TRUE].at = call[d].at
      BY <2>1 DEF Call
    <2> QED
      BY <1>1, <2>1, <2>2 DEF RedisForgets, MemoryExpires
  <1>3. UNCHANGED faults /\ Lists
    BY <1>1 DEF RedisForgets, MemoryExpires, Lists
  <1>4. Progress
    BY <1>0, <1>2, <1>3 DEF Progress, Saved, Saving, Loaded, Working, ContextInv
  <1> QED
    BY <1>0, <1>3, <1>4, ProgressKeepsContext

LEMMA LoadHistoryKeepsContext ==
    ASSUME StoreInv, StoreInv', SlotInv, PlaceInv, RunInv, ContextInv,
           NEW r \in Requests, LoadHistory(r)
    PROVE  ContextInv'
  <1> DEFINE t == ThreadOf[r]
  <1>0. /\ r \in Callers /\ t \in Threads /\ faults \in Nat
        /\ redis[t] \in Seq(Requests) /\ memory[t] \in Seq(Requests)
        /\ redis \in [Threads -> Seq(Requests)]
    BY RequestsAssumption, CallersAssumption DEF ContextInv, StoreInv
  <1>1. PICK history \in {redis[t], MemoryHistory(t)} :
            /\ Get(r, history)
            /\ run' = [run EXCEPT ![r] = To(@, "load_memory")]
            /\ context' = [context EXCEPT ![r] = history]
    BY DEF LoadHistory
  <1>2. /\ Working(r) /\ run[r].node = "load_history" /\ UNCHANGED pc
    BY DEF LoadHistory
  <1>3. /\ UNCHANGED <<redis, call>> /\ faults' \in Nat /\ (faults' = 0 => faults = 0)
        /\ faults' = 0 => history = redis[t]
    <2>1. CASE UNCHANGED storeVars /\ history = redis[t]
      BY <1>0, <2>1 DEF storeVars
    <2>2. CASE Fault(r) /\ UNCHANGED <<redis, call>>
      BY <1>0, <2>2 DEF Fault
    <2> QED
      BY <1>1, <2>1, <2>2 DEF Get
  <1>4. history \in Seq(Requests)
    <2>1. <<>> \in Seq(Requests)
      OBVIOUS
    <2> QED
      BY <1>0, <1>1, <2>1 DEF MemoryHistory
  <1>5. /\ context' \in [Requests -> Seq(Requests)] /\ context'[r] = history
        /\ \A q \in Requests \ {r} : context'[q] = context[q]
    BY <1>1, <1>4 DEF ContextInv
  <1>6. /\ run'[r].node = "load_memory"
        /\ \A q \in Requests \ {r} : run'[q] = run[q]
    <2>1. "node" \in DOMAIN run[r] /\ DOMAIN run = Requests
      BY DEF RunInv, RuntimeState
    <2> QED
      BY <1>1, <2>1, ToNode
  <1>7. ~Saved(r) /\ ~Saving(r)
    BY <1>2 DEF Saved, Saving, Working
  <1>8. \A q \in Requests : call'[q].at \in {"watch", "exec"} => Saving(q)'
    BY <1>2, <1>3, <1>6, <1>7 DEF ContextInv, Saving, Working
  <1>9. \A u \in Threads : \A i \in DOMAIN redis[u] : redis[u][i] \in Requests \ {r} /\ Saved(redis[u][i])
    BY <1>0, <1>7 DEF ContextInv
  <1>10. \A q \in Requests \ {r} : Saved(q) => Saved(q)'
    BY <1>2, <1>3, <1>6 DEF Saved, Working
  <1>11. (\A u \in Threads : \A i \in DOMAIN redis[u] : Saved(redis[u][i]))'
    <2>1. \A u \in Threads : \A i \in DOMAIN redis[u] : redis[u][i] \in Requests /\ redis[u][i] # r
      BY <1>9
    <2> QED
      BY <1>3, <1>9, <1>10, <2>1 DEF Saved, Working
  <1>12. ASSUME MaxInflight = 1, faults' = 0
         PROVE  /\ \A q \in Requests : Loaded(q)' => Known(q, redis[ThreadOf[q]])'
                /\ \A u \in Threads : Chained(redis[u])'
    <2>1. history = redis[t] /\ UNCHANGED redis
      BY <1>3, <1>12
    <2>2. ASSUME NEW q \in Requests, Loaded(q)'
          PROVE  Known(q, redis[ThreadOf[q]])'
      <3>1. CASE q = r
        <4>1. context'[r] = redis[t] /\ redis' = redis
          BY <1>5, <2>1
        <4> QED
          BY <3>1, <4>1 DEF Known, InContext
      <3>2. CASE q # r
        <4>1. Loaded(q)
          BY <1>2, <1>6, <2>2, <3>2 DEF Loaded, Working
        <4>2. Known(q, redis[ThreadOf[q]])
          BY <1>3, <1>12, <4>1 DEF ContextInv
        <4> QED
          BY <1>5, <2>1, <3>2, <4>2 DEF Known, InContext
      <3> QED
        BY <3>1, <3>2
    <2>3. ASSUME NEW u \in Threads
          PROVE  Chained(redis[u])'
      <3>1. Chained(redis[u])
        BY <1>3, <1>12 DEF ContextInv
      <3>2. PICK turns : turns = redis[u] /\ turns = redis'[u]
        BY <2>1
      <3>3. turns \in Seq(Requests) /\ \A i \in DOMAIN turns : turns[i] \in Requests \ {r}
        BY <1>0, <1>9, <3>2
      <3>4. \A i \in 2..Len(turns) : i \in DOMAIN turns
        BY <3>3
      <3>5. \A i \in 2..Len(turns) : context'[turns[i]] = context[turns[i]]
        BY <1>5, <3>3, <3>4
      <3> QED
        BY <3>1, <3>2, <3>5 DEF Chained, InContext
    <2> QED
      BY <2>2, <2>3
  <1> QED
    BY <1>3, <1>5, <1>8, <1>11, <1>12 DEF ContextInv

LEMMA HandlerKeepsContext ==
    ASSUME StoreInv, StoreInv', SlotInv, PlaceInv, RunInv, ContextInv,
           NEW r \in Requests, Handler(r)
    PROVE  ContextInv'
  <1>0. DOMAIN pc = Requests /\ DOMAIN run = Requests
    BY DEF SlotInv, RunInv
  <1>1. CASE Authenticate(r)
    <2>1. /\ pc[r] = "new" /\ UNCHANGED <<run, context, storeVars>>
          /\ \E where \in {"limits", "done"} : Goto(r, where)
      BY <1>1 DEF Authenticate
    <2> QED
      BY <1>0, <2>1, OutsideKeepsContext DEF Goto, Saved, Saving, Working, storeVars
  <1>2. ASSUME Run(r)
        PROVE  /\ pc'[r] = "running" /\ (Kind[r] = "test" \/ run'[r].node = "input_safety")
               /\ \A q \in Requests \ {r} : pc'[q] = pc[q] /\ run'[q] = run[q]
    <2>1. \A question : Start(question).node = "input_safety"
      BY DEF Start
    <2> QED
      BY <1>0, <1>2, <2>1 DEF Run, Goto
  <1>3. CASE AcquireSlot(r)
    <2>1. pc[r] = "limits" /\ UNCHANGED <<context, storeVars>>
      BY <1>3 DEF AcquireSlot
    <2>2. CASE Run(r)
      BY <1>2, <2>1, <2>2, OutsideKeepsContext DEF Saved, Saving, Working, storeVars
    <2>3. CASE UNCHANGED run /\ \E where \in {"denied", "queue"} : Goto(r, where)
      BY <1>0, <2>1, <2>3, OutsideKeepsContext DEF Goto, Saved, Saving, Working, storeVars
    <2> QED
      BY <1>3, <2>2, <2>3 DEF AcquireSlot
  <1>4. CASE Resume(r)
    <2>1. Run(r) /\ UNCHANGED <<context, storeVars>> /\ pc[r] = "queue"
      BY <1>4, TakeUpElsewhere DEF Resume, PlaceInv
    <2> QED
      BY <1>2, <2>1, OutsideKeepsContext DEF Saved, Saving, Working, storeVars
  <1>5. CASE GiveUpQueue(r)
    <2>1. Goto(r, "denied") /\ UNCHANGED <<run, context, storeVars>> /\ pc[r] = "queue"
      BY <1>5, QueueTimeoutElsewhere DEF GiveUpQueue, PlaceInv
    <2> QED
      BY <1>0, <2>1, OutsideKeepsContext DEF Goto, Saved, Saving, Working, storeVars
  <1>6. CASE Deny(r) \/ WriteAudit(r)
    <2>1. Goto(r, "done") /\ UNCHANGED <<run, context, storeVars>> /\ pc[r] # "running"
      BY <1>6 DEF Deny, WriteAudit
    <2> QED
      BY <1>0, <2>1, OutsideKeepsContext DEF Goto, Saving, Working, storeVars
  <1>7. CASE Node(r)
    <2>1. PICK s \in Results(run[r]) : run' = [run EXCEPT ![r] = s]
      BY <1>7 DEF Node
    <2>2. Working(r) /\ UNCHANGED <<pc, context, storeVars>> /\ run[r] \in RuntimeState
      BY <1>7 DEF Node, RunInv
    <2>3. /\ s.node \in {"input_safety", "load_history"} => run[r].node = "input_safety"
          /\ run[r].node \notin {"save_session", "save_memory", "save_episode", "end"}
          /\ run[r].node = "finalize" => s.node = "end"
      BY <2>2, ResultNodes
    <2>4. ~Saving(r) /\ (Saved(r) => run[r].node = "finalize")
      BY <2>2, <2>3 DEF Saved, Saving, Working
    <2>5. run[r].node = "load_history" => FALSE
      BY <2>1 DEF Results
    <2>6. run'[r] = s /\ \A q \in Requests \ {r} : run'[q] = run[q]
      BY <1>0, <2>1
    <2>7. s.node \in {"input_safety", "load_history"} \/ Loaded(r)
      <3>1. CASE run[r].node = "input_safety"
        <4>1. s = To(run[r], "load_history") /\ "node" \in DOMAIN run[r]
          BY <2>1, <2>2, <3>1 DEF Results, InputSafety, RuntimeState
        <4> QED
          BY <4>1, ToNode
      <3>2. CASE run[r].node # "input_safety"
        BY <2>2, <2>5, <3>2 DEF Loaded
      <3> QED
        BY <3>1, <3>2
    <2> QED
      BY <2>2, <2>3, <2>4, <2>6, <2>7, InsideKeepsContext DEF storeVars
  <1>8. CASE LoadHistory(r)
    BY <1>8, LoadHistoryKeepsContext
  <1>9. CASE SaveSession(r)
    BY <1>9, SaveSessionKeepsContext
  <1>10. CASE Succeed(r) \/ TestEnds(r)
    <2>1. /\ pc[r] = "running" /\ ~Saving(r) /\ UNCHANGED <<context, storeVars>>
          /\ Ends(r, "success") \/ Ends(r, "error")
      BY <1>10 DEF Succeed, TestEnds, Working, Saving
    <2>2. call[r].at \notin {"watch", "exec"}
      BY <2>1 DEF ContextInv
    <2> QED
      BY <2>1, <2>2, EndKeepsContext
  <1>11. CASE BreakOff(r)
    <2>1. CASE Ends(r, "timeout") /\ CancelRun(r)
      BY <1>11, <2>1, EndKeepsContext DEF BreakOff, Working
    <2>2. CASE call[r].at \in {"idle", "done"} /\ Ends(r, "error") /\ UNCHANGED storeVars
      <3>1. call[r].at \notin {"watch", "exec"}
        BY <2>2
      <3> QED
        BY <1>11, <2>2, <3>1, EndKeepsContext DEF BreakOff, Working
    <2> QED
      BY <1>11, <2>1, <2>2 DEF BreakOff
  <1> QED
    BY <1>1, <1>3, <1>4, <1>5, <1>6, <1>7, <1>8, <1>9, <1>10, <1>11 DEF Handler

LEMMA NextKeepsContext ==
    ASSUME StoreInv, StoreInv', SlotInv, PlaceInv, RunInv, ContextInv, [Next]_vars
    PROVE  ContextInv'
  <1>1. CASE UNCHANGED <<pc, run, context, storeVars>>
    <2>1. Progress /\ Lists
      BY <1>1 DEF Progress, Lists, ContextInv, Saved, Saving, Loaded, Working, storeVars
    <2> QED
      BY <1>1, <2>1, ProgressKeepsContext
  <1>2. ASSUME NEW r \in Requests, MemoryNode(r)
        PROVE  ContextInv'
    <2>1. /\ Working(r) /\ UNCHANGED <<pc, context, storeVars>>
          /\ "node" \in DOMAIN run[r] /\ DOMAIN run = Requests
      BY <1>2 DEF MemoryNode, RunInv, RuntimeState
    <2>2. PICK n : /\ run' = [run EXCEPT ![r] = To(@, n)]
                   /\ <<run[r].node, n>> \in {<<"load_memory", "route">>, <<"save_memory", "save_episode">>,
                                             <<"save_episode", "finalize">>}
      BY <1>2 DEF MemoryNode
    <2>3. run'[r].node = n /\ \A q \in Requests \ {r} : run'[q] = run[q]
      BY <2>1, <2>2, ToNode
    <2>4. ~Saving(r) /\ Loaded(r)
      BY <2>1, <2>2 DEF Saving, Loaded
    <2>5. Saved(r) => n \in {"save_episode", "finalize"}
      BY <2>1, <2>2 DEF Saved, Working
    <2> QED
      BY <2>1, <2>3, <2>4, <2>5, InsideKeepsContext DEF storeVars
  <1>3. ASSUME NEW r \in Requests, Step(r)
        PROVE  ContextInv'
    BY <1>2, <1>3, HandlerKeepsContext DEF Step
  <1>4. ASSUME NEW r \in Requests, Disconnect(r)
        PROVE  ContextInv'
    <2>1. CASE Ends(r, "cancelled") /\ CancelRun(r) /\ Working(r)
      BY <1>4, <2>1, EndKeepsContext DEF Disconnect, Working
    <2>2. CASE UNCHANGED <<pc, run, storeVars>>
      BY <1>1, <1>4, <2>2 DEF Disconnect
    <2> QED
      BY <1>4, <2>1, <2>2 DEF Disconnect
  <1>5. ASSUME NEW c \in Pops, Pop(c)
        PROVE  ContextInv'
    BY <1>5, PopKeepsContext
  <1>6. CASE StoresForget
    BY <1>6, ExpiryKeepsContext
  <1> QED
    BY <1>1, <1>3, <1>4, <1>5, <1>6 DEF Next, vars

LEMMA InitContext ==
    ASSUME Init
    PROVE  PlaceInv /\ ContextInv
  <1>1. /\ slot = [r \in Requests |-> "out"] /\ redis = [t \in Threads |-> <<>>] /\ faults = 0
        /\ \A r \in Requests : pc[r] \in {"new", "done"}
        /\ context = [r \in Requests |-> <<>>]
    BY DEF Init, LimitsInit, StoreInit
  <1>2. \A r \in Requests : call[r].at \notin {"watch", "exec"}
    BY RequestsAssumption DEF Init, Idle, Done
  <1>3. PlaceInv
    BY <1>1 DEF PlaceInv, Active
  <1>4. \A r \in Requests : ~Loaded(r)
    BY <1>1 DEF Loaded, Working
  <1>5. \A t \in Threads : redis[t] = <<>>
    BY <1>1
  <1>6. Chained(<<>>) /\ DOMAIN <<>> = {}
    BY DEF Chained
  <1>7. \A t \in Threads : Chained(redis[t])
    BY <1>5, <1>6
  <1>8. context \in [Requests -> Seq(Requests)]
    BY <1>1
  <1> QED
    BY <1>1, <1>2, <1>3, <1>4, <1>5, <1>6, <1>7, <1>8 DEF ContextInv

LEMMA ChainsAreComplete ==
    ASSUME StoreInv, ContextInv
    PROVE  ContextIsComplete
  BY DEF ContextInv, ContextIsComplete, Chained, InContext

(* With one slot per principal and a Redis that answers, a question is     *)
(* answered with the turn before it in its context, whoever asks, undoes,  *)
(* leaves, times out or expires meanwhile.                                 *)
THEOREM ContextsAreComplete == Spec => []ContextIsComplete
  <1>1. Init => StoreInv /\ SlotInv /\ PlaceInv /\ RunInv /\ ContextInv
    BY InitContext, InitStore, InitSlots, InitRuns
  <1>2. StoreInv /\ SlotInv /\ PlaceInv /\ RunInv /\ ContextInv /\ [Next]_vars
        => (StoreInv /\ SlotInv /\ PlaceInv /\ RunInv /\ ContextInv)'
    BY NextSteps, StepsKeepInv, NextKeepsSlots, NextKeepsPlaces, NextKeepsRuns, NextKeepsContext
  <1>3. StoreInv /\ ContextInv => ContextIsComplete
    BY ChainsAreComplete
  <1> QED
    BY <1>1, <1>2, <1>3, PTL DEF Spec

-----------------------------------------------------------------------------
(***************************************************************************)
(* The memories.  A row is written once, by its turn, and is not written   *)
(* again after it was deleted.                                             *)
(***************************************************************************)

(* The turn of s has stated its preferences, has its summary.              *)
Told(s) ==
    \/ pc[s] \in {"audit", "done"}
    \/ Working(s) /\ run[s].node \in {"save_episode", "finalize", "end"}

Filed(s) ==
    \/ pc[s] \in {"audit", "done"}
    \/ Working(s) /\ run[s].node \in {"finalize", "end"}

MemoryInv ==
    /\ facts \in [Owners -> [MemoryKeys -> Sources \cup {Unstated}]]
    /\ episodes \in [Owners -> SUBSET Sources]
    /\ recalled \in [Sources -> SUBSET Item]
    /\ \A o \in Owners : \A k \in MemoryKeys : \A s \in Sources : facts[o][k] = s =>
         OwnerOf[s] = o /\ Told(s) /\ <<k, s>> \notin deleted
    /\ \A o \in Owners : \A s \in Sources : s \in episodes[o] =>
         OwnerOf[s] = o /\ Filed(s) /\ <<"episode", s>> \notin deleted
    /\ \A s \in Sources :
         /\ \A k \in MemoryKeys : <<k, s>> \in deleted => Told(s)
         /\ <<"episode", s>> \in deleted => Filed(s)

(* What is there has not been deleted.                                     *)
LEMMA RowsAreNotDeleted ==
    ASSUME MemoryInv, NEW o \in Owners
    PROVE  /\ Facts(o) \cap deleted = {} /\ Facts(o) \subseteq Item
           /\ Episodes(episodes[o]) \cap deleted = {} /\ Episodes(episodes[o]) \subseteq Item
  <1>1. \A k \in MemoryKeys : facts[o][k] \in Sources \cup {Unstated}
    BY DEF MemoryInv
  <1>2. Facts(o) \cap deleted = {} /\ Facts(o) \subseteq Item
    BY <1>1 DEF MemoryInv, Facts, Item
  <1>3. Episodes(episodes[o]) \cap deleted = {} /\ Episodes(episodes[o]) \subseteq Item
    BY DEF MemoryInv, Episodes, Item
  <1> QED
    BY <1>2, <1>3

LEMMA RecallFinds ==
    ASSUME MemoryInv, NEW s \in Sources, Recall(s)
    PROVE  /\ recalled' \in [Sources -> SUBSET Item]
           /\ \A r \in Sources : (recalled'[r] \ recalled[r]) \cap (deleted \cup expired) = {}
  <1> DEFINE o == OwnerOf[s]
  <1>1. o \in Owners
    BY MemoriesAssumption
  <1>2. PICK known \in {{}, Facts(o) \ expired}, found \in Similar(s) :
            recalled' = [recalled EXCEPT ![s] = known \cup found]
    BY DEF Recall
  <1>3. known \subseteq Facts(o) \ expired /\ found \subseteq Episodes(episodes[o]) \ expired
    BY <1>2 DEF Similar
  <1>4. known \cup found \subseteq Item /\ (known \cup found) \cap (deleted \cup expired) = {}
    BY <1>1, <1>3, RowsAreNotDeleted
  <1> QED
    BY <1>2, <1>4 DEF MemoryInv

-----------------------------------------------------------------------------

TellsOn ==
    \A s \in Sources : (Told(s) => Told(s)') /\ (Filed(s) => Filed(s)')

(* Rows are written by turns that have not written them before, and what   *)
(* is deleted has been there and is there no more.                         *)
LEMMA RowsMove ==
    ASSUME MemoryInv, TellsOn, recalled' \in [Sources -> SUBSET Item],
           facts' \in [Owners -> [MemoryKeys -> Sources \cup {Unstated}]],
           episodes' \in [Owners -> SUBSET Sources],
           \A o \in Owners : \A k \in MemoryKeys : \A s \in Sources : facts'[o][k] = s =>
               facts[o][k] = s \/ (OwnerOf[s] = o /\ ~Told(s) /\ Told(s)'),
           \A o \in Owners : \A s \in Sources : s \in episodes'[o] =>
               s \in episodes[o] \/ (OwnerOf[s] = o /\ ~Filed(s) /\ Filed(s)'),
           \A item \in deleted' : item \in deleted \/ \E o \in Owners : \E s \in Sources :
               \/ \E k \in MemoryKeys : item = <<k, s>> /\ facts[o][k] = s /\ facts'[o][k] # s
               \/ item = <<"episode", s>> /\ s \in episodes[o] /\ s \notin episodes'[o]
    PROVE  MemoryInv'
  <1>1. "episode" \notin MemoryKeys
    BY MemoriesAssumption
  <1>2. ASSUME NEW k \in MemoryKeys, NEW s \in Sources, <<k, s>> \in deleted', <<k, s>> \notin deleted
        PROVE  \E o \in Owners : facts[o][k] = s /\ facts'[o][k] # s
    <2>1. PICK o \in Owners, q \in Sources :
              \/ \E m \in MemoryKeys : <<k, s>> = <<m, q>> /\ facts[o][m] = q /\ facts'[o][m] # q
              \/ <<k, s>> = <<"episode", q>> /\ q \in episodes[o] /\ q \notin episodes'[o]
      BY <1>2
    <2> QED
      BY <1>1, <2>1
  <1>3. ASSUME NEW s \in Sources, <<"episode", s>> \in deleted', <<"episode", s>> \notin deleted
        PROVE  \E o \in Owners : s \in episodes[o] /\ s \notin episodes'[o]
    <2>1. PICK o \in Owners, q \in Sources :
              \/ \E m \in MemoryKeys : <<"episode", s>> = <<m, q>> /\ facts[o][m] = q /\ facts'[o][m] # q
              \/ <<"episode", s>> = <<"episode", q>> /\ q \in episodes[o] /\ q \notin episodes'[o]
      BY <1>3
    <2> QED
      BY <1>1, <2>1
  <1>4. ASSUME NEW o \in Owners, NEW k \in MemoryKeys, NEW s \in Sources, facts'[o][k] = s
        PROVE  OwnerOf[s] = o /\ Told(s)' /\ <<k, s>> \notin deleted'
    <2>1. CASE facts[o][k] = s
      <3>1. OwnerOf[s] = o /\ Told(s)' /\ <<k, s>> \notin deleted
        BY <2>1 DEF MemoryInv, TellsOn
      <3>2. ASSUME NEW u \in Owners, facts[u][k] = s
            PROVE  u = o
        BY <3>1, <3>2 DEF MemoryInv
      <3> QED
        BY <1>2, <1>4, <3>1, <3>2
    <2>2. CASE OwnerOf[s] = o /\ ~Told(s) /\ Told(s)'
      <3>1. <<k, s>> \notin deleted
        BY <2>2 DEF MemoryInv
      <3>2. ASSUME NEW u \in Owners, facts[u][k] = s
            PROVE  FALSE
        BY <2>2, <3>2 DEF MemoryInv
      <3> QED
        BY <1>2, <2>2, <3>1, <3>2
    <2> QED
      BY <1>4, <2>1, <2>2
  <1>5. ASSUME NEW o \in Owners, NEW s \in Sources, s \in episodes'[o]
        PROVE  OwnerOf[s] = o /\ Filed(s)' /\ <<"episode", s>> \notin deleted'
    <2>1. CASE s \in episodes[o]
      <3>1. OwnerOf[s] = o /\ Filed(s)' /\ <<"episode", s>> \notin deleted
        BY <2>1 DEF MemoryInv, TellsOn
      <3>2. ASSUME NEW u \in Owners, s \in episodes[u]
            PROVE  u = o
        BY <3>1, <3>2 DEF MemoryInv
      <3> QED
        BY <1>3, <1>5, <3>1, <3>2
    <2>2. CASE OwnerOf[s] = o /\ ~Filed(s) /\ Filed(s)'
      <3>1. <<"episode", s>> \notin deleted /\ \A u \in Owners : s \notin episodes[u]
        BY <2>2 DEF MemoryInv
      <3> QED
        BY <1>3, <2>2, <3>1
    <2> QED
      BY <1>5, <2>1, <2>2
  <1>6. ASSUME NEW s \in Sources
        PROVE  /\ \A k \in MemoryKeys : <<k, s>> \in deleted' => Told(s)'
               /\ <<"episode", s>> \in deleted' => Filed(s)'
    BY <1>2, <1>3 DEF MemoryInv, TellsOn
  <1> QED
    BY <1>4, <1>5, <1>6 DEF MemoryInv

LEMMA RowsStay ==
    ASSUME MemoryInv, TellsOn, UNCHANGED <<facts, episodes, deleted>>,
           recalled' \in [Sources -> SUBSET Item]
    PROVE  MemoryInv'
  BY RowsMove DEF MemoryInv

LEMMA RememberTurnKeepsMemories ==
    ASSUME MemoryInv, TellsOn, NEW s \in Sources, ~Told(s), Told(s)', RememberTurn(s)
    PROVE  MemoryInv'
  <1> DEFINE o == OwnerOf[s]
             new == [k \in MemoryKeys |-> IF k \in States[s] THEN s ELSE facts[o][k]]
  <1>1. o \in Owners
    BY MemoriesAssumption
  <1>2. new \in [MemoryKeys -> Sources \cup {Unstated}]
    BY <1>1 DEF MemoryInv
  <1>3. facts' = [facts EXCEPT ![o] = new]
    BY <1>1 DEF RememberTurn, MemoryInv
  <1>4. /\ facts' \in [Owners -> [MemoryKeys -> Sources \cup {Unstated}]]
        /\ facts'[o] = new /\ \A u \in Owners \ {o} : facts'[u] = facts[u]
    <2> HIDE DEF new
    <2> QED
      BY <1>1, <1>2, <1>3 DEF MemoryInv
  <1>5. \A u \in Owners : \A k \in MemoryKeys : \A q \in Sources : facts'[u][k] = q =>
            facts[u][k] = q \/ (OwnerOf[q] = u /\ ~Told(q) /\ Told(q)')
    <2> SUFFICES ASSUME NEW u \in Owners, NEW k \in MemoryKeys, NEW q \in Sources,
                        facts'[u][k] = q, facts[u][k] # q
                 PROVE  OwnerOf[q] = u /\ ~Told(q) /\ Told(q)'
      OBVIOUS
    <2>1. q = s /\ u = o
      BY <1>4
    <2> QED
      BY <2>1
  <1>6. ASSUME NEW item \in deleted', item \notin deleted
        PROVE  \E q \in Sources : \E k \in MemoryKeys :
                   item = <<k, q>> /\ facts[o][k] = q /\ facts'[o][k] # q
    <2>1. item \in Restated(s)
      BY <1>6 DEF RememberTurn
    <2>2. PICK k \in States[s] : facts[o][k] # Unstated /\ item = <<k, facts[o][k]>>
      BY <2>1 DEF Restated
    <2>3. k \in MemoryKeys
      BY MemoriesAssumption
    <2>4. facts[o][k] \in Sources /\ facts'[o][k] = s
      BY <1>1, <1>4, <2>2, <2>3 DEF MemoryInv
    <2>5. facts[o][k] # s
      BY <1>1, <2>3 DEF MemoryInv
    <2> QED
      BY <2>2, <2>3, <2>4, <2>5
  <1>7. UNCHANGED <<episodes, recalled>> /\ deleted \subseteq deleted'
    BY DEF RememberTurn
  <1> HIDE DEF o, new
  <1> QED
    BY <1>1, <1>4, <1>5, <1>6, <1>7, RowsMove DEF MemoryInv

LEMMA RememberKeepsMemories ==
    ASSUME MemoryInv, TellsOn, NEW s \in Sources, ~Filed(s), Filed(s)', Remember(s)
    PROVE  MemoryInv'
  <1> DEFINE o == OwnerOf[s]
  <1>1. o \in Owners
    BY MemoriesAssumption
  <1>2. PICK spared : /\ spared \subseteq episodes[o] \cup {s}
                    /\ episodes' = [episodes EXCEPT ![o] = spared]
                    /\ deleted' = deleted \cup (Episodes(episodes[o]) \ Episodes(spared))
    <2> DEFINE id == [ids EXCEPT ![s] = 1 + Cardinality({q \in Sources : ids[q] # 0})]
               alive == {e \in episodes[o] \cup {s} : <<"episode", e>> \notin expired}
               spared == {e \in alive : Cardinality({q \in alive : id[q] > id[e]}) < MaxEpisodes}
    <2>1. spared \subseteq episodes[o] \cup {s}
      OBVIOUS
    <2>2. /\ episodes' = [episodes EXCEPT ![o] = spared]
          /\ deleted' = deleted \cup (Episodes(episodes[o]) \ Episodes(spared))
      BY DEF Remember
    <2> HIDE DEF spared
    <2> QED
      BY <2>1, <2>2
  <1>3. UNCHANGED <<facts, recalled>>
    BY DEF Remember
  <1>4. spared \in SUBSET Sources
    BY <1>1, <1>2 DEF MemoryInv
  <1>5. /\ episodes' \in [Owners -> SUBSET Sources]
        /\ episodes'[o] = spared /\ \A u \in Owners \ {o} : episodes'[u] = episodes[u]
    BY <1>1, <1>2, <1>4 DEF MemoryInv
  <1>6. \A u \in Owners : \A q \in Sources : q \in episodes'[u] =>
            q \in episodes[u] \/ (OwnerOf[q] = u /\ ~Filed(q) /\ Filed(q)')
    <2> SUFFICES ASSUME NEW u \in Owners, NEW q \in Sources, q \in episodes'[u], q \notin episodes[u]
                 PROVE  OwnerOf[q] = u /\ ~Filed(q) /\ Filed(q)'
      OBVIOUS
    <2>1. q = s /\ u = o
      BY <1>2, <1>5
    <2> QED
      BY <2>1
  <1>7. ASSUME NEW item \in deleted', item \notin deleted
        PROVE  \E q \in Sources : item = <<"episode", q>> /\ q \in episodes[o] /\ q \notin episodes'[o]
    <2>1. item \in Episodes(episodes[o]) /\ item \notin Episodes(spared)
      BY <1>2, <1>7
    <2>2. PICK q \in episodes[o] : item = <<"episode", q>>
      BY <2>1 DEF Episodes
    <2>3. q \notin spared /\ q \in Sources
      BY <1>1, <2>1, <2>2 DEF Episodes, MemoryInv
    <2> QED
      BY <1>5, <2>2, <2>3
  <1> HIDE DEF o
  <1> QED
    BY <1>1, <1>3, <1>5, <1>6, <1>7, RowsMove DEF MemoryInv

LEMMA MemoryStepKeepsMemories ==
    ASSUME MemoryInv, TellsOn, MemoryStep
    PROVE  MemoryInv' /\ UNCHANGED recalled
  <1>0. UNCHANGED recalled /\ recalled \in [Sources -> SUBSET Item]
    BY DEF MemoryStep, EmbedEpisode, DeleteMemory, DeleteEpisode, Expires, MemoryInv
  <1>1. ASSUME NEW s \in Sources, EmbedEpisode(s)
        PROVE  MemoryInv'
    BY <1>0, <1>1, RowsStay DEF EmbedEpisode
  <1>2. ASSUME NEW o \in Owners, NEW k \in MemoryKeys, DeleteMemory(o, k)
        PROVE  MemoryInv'
    <2>1. /\ facts[o][k] # Unstated /\ facts' = [facts EXCEPT ![o][k] = Unstated]
          /\ deleted' = deleted \cup {<<k, facts[o][k]>>} /\ UNCHANGED episodes
      BY <1>2 DEF DeleteMemory
    <2>2. facts[o] \in [MemoryKeys -> Sources \cup {Unstated}]
      BY DEF MemoryInv
    <2>3. /\ facts' \in [Owners -> [MemoryKeys -> Sources \cup {Unstated}]]
          /\ facts'[o][k] = Unstated
          /\ \A u \in Owners, m \in MemoryKeys : facts'[u][m] \in {facts[u][m], Unstated}
      BY <2>1, <2>2 DEF MemoryInv
    <2>4. Unstated \notin Sources /\ facts[o][k] \in Sources
      BY <2>1, <2>2, MemoriesAssumption
    <2>5. \A item \in deleted' : item \in deleted \/ item = <<k, facts[o][k]>>
      BY <2>1
    <2> QED
      BY <1>0, <2>1, <2>3, <2>4, <2>5, RowsMove DEF MemoryInv
  <1>3. ASSUME NEW o \in Owners, NEW s \in Sources, DeleteEpisode(o, s)
        PROVE  MemoryInv'
    <2>1. /\ s \in episodes[o] /\ episodes' = [episodes EXCEPT ![o] = @ \ {s}]
          /\ deleted' = deleted \cup {<<"episode", s>>} /\ UNCHANGED facts
      BY <1>3 DEF DeleteEpisode
    <2>2. /\ episodes' \in [Owners -> SUBSET Sources]
          /\ s \notin episodes'[o] /\ \A u \in Owners : episodes'[u] \subseteq episodes[u]
      BY <2>1 DEF MemoryInv
    <2>3. \A item \in deleted' : item \in deleted \/ item = <<"episode", s>>
      BY <2>1
    <2> QED
      BY <1>0, <2>1, <2>2, <2>3, RowsMove DEF MemoryInv
  <1>4. ASSUME NEW o \in Owners, Expires(o)
        PROVE  MemoryInv'
    BY <1>0, <1>4, RowsStay DEF Expires
  <1> QED
    BY <1>0, <1>1, <1>2, <1>3, <1>4 DEF MemoryStep

-----------------------------------------------------------------------------

(* A turn goes on: what it has told and filed stays so.                    *)
LEMMA OwnTelling ==
    ASSUME NEW r \in Requests,
           \A q \in Requests \ {r} : pc'[q] = pc[q] /\ run'[q] = run[q],
           Told(r) => Told(r)', Filed(r) => Filed(r)'
    PROVE  TellsOn
  BY RequestsAssumption DEF TellsOn, Told, Filed, Working

LEMMA NextTellsOn ==
    ASSUME SlotInv, PlaceInv, RunInv, [Next]_vars
    PROVE  TellsOn
  <1>0. DOMAIN pc = Requests /\ DOMAIN run = Requests
    BY DEF SlotInv, RunInv
  <1>1. CASE UNCHANGED <<pc, run>>
    BY <1>1 DEF TellsOn, Told, Filed, Working
  <1>2. ASSUME NEW r \in Requests, NEW where, Goto(r, where), pc[r] \notin {"running", "audit", "done"},
               UNCHANGED run \/ Run(r)
        PROVE  TellsOn
    BY <1>0, <1>2, OwnTelling DEF Goto, Run, Told, Filed, Working
  <1>3. ASSUME NEW r \in Requests, NEW how, Ends(r, how)
        PROVE  TellsOn
    BY <1>0, <1>3, OwnTelling DEF Ends, Goto, Told, Filed
  <1>4. ASSUME NEW r \in Requests, Goto(r, "done"), UNCHANGED run
        PROVE  TellsOn
    BY <1>0, <1>4, OwnTelling DEF Goto, Told, Filed
  <1>5. ASSUME NEW r \in Requests, NEW s, Working(r), UNCHANGED pc, run' = [run EXCEPT ![r] = s],
               run[r].node \in {"save_episode", "finalize", "end"} => s.node \in {"finalize", "end"},
               run[r].node \in {"finalize", "end"} => s.node = "end"
        PROVE  TellsOn
    BY <1>0, <1>5, OwnTelling DEF Told, Filed, Working
  <1>6. ASSUME NEW r \in Requests, NEW n, Working(r), UNCHANGED pc, run' = [run EXCEPT ![r] = To(@, n)],
               <<run[r].node, n>> \in {<<"load_history", "load_memory">>, <<"load_memory", "route">>,
                   <<"save_session", "save_memory">>, <<"save_memory", "save_episode">>,
                   <<"save_episode", "finalize">>}
        PROVE  TellsOn
    <2>1. "node" \in DOMAIN run[r]
      BY DEF RunInv, RuntimeState
    <2>2. PICK s : s = To(run[r], n)
      OBVIOUS
    <2>3. s.node = n /\ run' = [run EXCEPT ![r] = s]
      BY <1>6, <2>1, <2>2, ToNode
    <2> QED
      BY <1>5, <1>6, <2>3
  <1>7. ASSUME NEW r \in Requests, Handler(r)
        PROVE  TellsOn
    <2>1. CASE Authenticate(r)
      BY <1>2, <2>1 DEF Authenticate
    <2>2. CASE AcquireSlot(r)
      <3>1. pc[r] = "limits"
        BY <2>2 DEF AcquireSlot
      <3>2. CASE Run(r)
        BY <1>2, <3>1, <3>2 DEF Run
      <3>3. CASE UNCHANGED run /\ \E where \in {"denied", "queue"} : Goto(r, where)
        BY <1>2, <3>1, <3>3
      <3> QED
        BY <2>2, <3>2, <3>3 DEF AcquireSlot
    <2>3. CASE Resume(r)
      <3>1. Run(r) /\ pc[r] = "queue"
        BY <2>3, TakeUpElsewhere DEF Resume, PlaceInv
      <3> QED
        BY <1>2, <3>1 DEF Run
    <2>4. CASE GiveUpQueue(r)
      <3>1. Goto(r, "denied") /\ UNCHANGED run /\ pc[r] = "queue"
        BY <2>4, QueueTimeoutElsewhere DEF GiveUpQueue, PlaceInv
      <3> QED
        BY <1>2, <3>1
    <2>5. CASE Deny(r) \/ WriteAudit(r)
      BY <1>4, <2>5 DEF Deny, WriteAudit
    <2>6. CASE Node(r)
      <3>1. PICK s \in Results(run[r]) : run' = [run EXCEPT ![r] = s]
        BY <2>6 DEF Node
      <3>2. /\ run[r].node \notin {"save_session", "save_memory", "save_episode", "end"}
            /\ run[r].node = "finalize" => s.node = "end"
        BY <3>1, ResultNodes DEF RunInv
      <3>3. Working(r) /\ UNCHANGED pc
        BY <2>6 DEF Node
      <3> QED
        BY <1>5, <3>1, <3>2, <3>3
    <2>7. CASE LoadHistory(r)
      BY <1>6, <2>7 DEF LoadHistory
    <2>8. CASE SaveSession(r)
      <3>1. \/ UNCHANGED <<pc, run>>
            \/ /\ Working(r) /\ UNCHANGED pc /\ run[r].node = "save_session"
               /\ run' = [run EXCEPT ![r] = To(@, "save_memory")]
        BY <2>8, Zenon DEF SaveSession
      <3> QED
        BY <1>1, <1>6, <3>1
    <2>9. CASE Succeed(r) \/ BreakOff(r) \/ TestEnds(r)
      BY <1>3, <2>9 DEF Succeed, BreakOff, TestEnds
    <2> QED
      BY <1>7, <2>1, <2>2, <2>3, <2>4, <2>5, <2>6, <2>7, <2>8, <2>9 DEF Handler
  <1>8. ASSUME NEW r \in Requests, MemoryNode(r)
        PROVE  TellsOn
    BY <1>6, <1>8 DEF MemoryNode
  <1>9. ASSUME NEW r \in Requests, Disconnect(r)
        PROVE  TellsOn
    BY <1>1, <1>3, <1>9 DEF Disconnect
  <1> QED
    BY <1>1, <1>7, <1>8, <1>9 DEF Next, Step, Pop, StoresForget, vars

LEMMA NextKeepsMemories ==
    ASSUME SlotInv, PlaceInv, RunInv, MemoryInv, [Next]_vars
    PROVE  /\ MemoryInv'
           /\ \A r \in Requests : (recalled'[r] \ recalled[r]) \cap (deleted \cup expired) = {}
  <1>0. TellsOn /\ Requests = Sources /\ recalled \in [Sources -> SUBSET Item]
    BY NextTellsOn, RequestsAssumption DEF MemoryInv
  <1>1. CASE UNCHANGED memoryVars
    BY <1>0, <1>1, RowsStay DEF memoryVars
  <1>2. CASE MemoryStep
    BY <1>0, <1>2, MemoryStepKeepsMemories
  <1>3. ASSUME NEW r \in Requests, MemoryNode(r)
        PROVE  /\ MemoryInv'
               /\ \A q \in Requests : (recalled'[q] \ recalled[q]) \cap (deleted \cup expired) = {}
    <2>1. Working(r) /\ UNCHANGED pc /\ "node" \in DOMAIN run[r] /\ DOMAIN run = Requests
      BY <1>3 DEF MemoryNode, RunInv, RuntimeState
    <2>2. CASE Recall(r)
      <3>1. UNCHANGED <<facts, episodes, deleted>>
        BY <2>2 DEF Recall
      <3> QED
        BY <1>0, <2>2, <3>1, RecallFinds, RowsStay
    <2>3. CASE /\ run[r].node = "save_memory" /\ RememberTurn(r)
               /\ run' = [run EXCEPT ![r] = To(@, "save_episode")]
      <3>1. run'[r].node = "save_episode"
        BY <2>1, <2>3, ToNode
      <3>2. ~Told(r) /\ Told(r)' /\ UNCHANGED recalled
        BY <2>1, <2>3, <3>1 DEF Told, Working, RememberTurn
      <3> QED
        BY <1>0, <2>3, <3>2, RememberTurnKeepsMemories
    <2>4. CASE /\ run[r].node = "save_episode" /\ Remember(r)
               /\ run' = [run EXCEPT ![r] = To(@, "finalize")]
      <3>1. run'[r].node = "finalize"
        BY <2>1, <2>4, ToNode
      <3>2. ~Filed(r) /\ Filed(r)' /\ UNCHANGED recalled
        BY <2>1, <2>4, <3>1 DEF Filed, Working, Remember
      <3> QED
        BY <1>0, <2>4, <3>2, RememberKeepsMemories
    <2> QED
      BY <1>1, <1>3, <2>2, <2>3, <2>4 DEF MemoryNode
  <1> QED
    BY <1>1, <1>2, <1>3 DEF Next, Step, vars

LEMMA InitMemories ==
    ASSUME Init
    PROVE  MemoryInv
  <1>1. /\ facts = [o \in Owners |-> [k \in MemoryKeys |-> Unstated]] /\ deleted = {}
        /\ episodes = [o \in Owners |-> {}] /\ recalled = [s \in Sources |-> {}]
    BY DEF Init, MemoriesInit
  <1> QED
    BY <1>1, MemoriesAssumption DEF MemoryInv

(* What its owner deleted, what was replaced, pruned or is over, is in no  *)
(* later answer, whatever is said, recalled, embedded and deleted          *)
(* meanwhile.                                                              *)
THEOREM ForgottenIsForgotten == Spec => ForgottenStaysForgotten
  <1>1. Init => SlotInv /\ PlaceInv /\ RunInv /\ MemoryInv
    BY InitSlots, InitContext, InitRuns, InitMemories
  <1>2. SlotInv /\ PlaceInv /\ RunInv /\ MemoryInv /\ [Next]_vars
        => (SlotInv /\ PlaceInv /\ RunInv /\ MemoryInv)'
    BY NextKeepsSlots, NextKeepsPlaces, NextKeepsRuns, NextKeepsMemories
  <1>3. SlotInv /\ PlaceInv /\ RunInv /\ MemoryInv /\ [Next]_vars
        => [\A r \in Requests : (recalled'[r] \ recalled[r]) \cap (deleted \cup expired) = {}]_vars
    BY NextKeepsMemories
  <1> QED
    BY <1>1, <1>2, <1>3, PTL DEF Spec, ForgottenStaysForgotten

-----------------------------------------------------------------------------
(***************************************************************************)
(* The turns of the stores.  Each was saved once, in Redis or in the       *)
(* memory of the process, and is there under its own thread.               *)
(***************************************************************************)

Within(u, turns) == \E i \in DOMAIN turns : turns[i] = u

Once(turns) == \A i, j \in DOMAIN turns : turns[i] = turns[j] => i = j

Homely(lists) == \A t \in Threads : \A i \in DOMAIN lists[t] : ThreadOf[lists[t][i]] = t

Apart(u) == \A t \in Threads : ~(Within(u, redis[t]) /\ Within(u, memory[t]))

TurnsInv ==
    /\ \A t \in Threads : \A u \in Requests : Within(u, redis[t]) \/ Within(u, memory[t]) => Saved(u)
    /\ Homely(redis) /\ Homely(memory)
    /\ faults = 0 =>
         /\ \A t \in Threads : Once(redis[t]) /\ Once(memory[t])
         /\ \A u \in Requests : Apart(u)

(* What a step may do with the lists of a store: some are dropped, and c   *)
(* writes to its own.                                                      *)
Shrinks(old, new) == \A t \in Threads : new[t] = old[t] \/ new[t] = <<>>

Puts(c, old, new) ==
    /\ new[ThreadOf[c]] = Updated(c, old[ThreadOf[c]])
    /\ \A t \in Threads \ {ThreadOf[c]} : new[t] = old[t] \/ new[t] = <<>>

(* A request writes when it saves, and never again.                        *)
Writer(c) == c \in Requests => ~Saved(c) /\ Saved(c)'

Turns(old, new) == Shrinks(old, new) \/ \E c \in Callers : Writer(c) /\ Puts(c, old, new)

TurnsStep ==
    /\ Turns(redis, redis') /\ Turns(memory, memory')
    /\ faults' = 0 => faults = 0 /\ (UNCHANGED redis \/ Shrinks(memory, memory'))
    /\ faults' = 0 => UNCHANGED memory \/ Shrinks(redis, redis')
    /\ \A r \in Requests : Saved(r) => Saved(r)'

LEMMA UpdatedIsOnce ==
    ASSUME NEW c, NEW turns \in Seq(Requests), c \in Saves => c \in Requests, Once(turns),
           c \in Saves => ~Within(c, turns)
    PROVE  Once(Updated(c, turns))
  <1> DEFINE part == Updated(c, turns)
             all == IF c \in Saves THEN Append(turns, c) ELSE turns
  <1>1. Piece(part, all)
    BY UpdatedIsAPiece
  <1>2. all \in Seq(Requests)
    OBVIOUS
  <1>3. Once(all)
    <2>1. CASE c \notin Saves
      BY <2>1
    <2>2. CASE c \in Saves
      <3>1. Len(all) = Len(turns) + 1 /\ all[Len(turns) + 1] = c
            /\ \A j \in 1..Len(turns) : all[j] = turns[j]
        BY <2>2
      <3> HIDE DEF all
      <3>2. Len(turns) \in Nat /\ DOMAIN turns = 1..Len(turns) /\ DOMAIN all = 1..Len(all)
        BY <1>2
      <3>3. ASSUME NEW i \in DOMAIN all, i # Len(turns) + 1
            PROVE  i \in DOMAIN turns /\ all[i] = turns[i] /\ all[i] # c
        <4>1. i \in DOMAIN turns
          BY <3>1, <3>2, <3>3
        <4> QED
          BY <2>2, <3>1, <3>2, <4>1 DEF Within
      <3>4. ASSUME NEW i \in DOMAIN all, NEW j \in DOMAIN all, all[i] = all[j]
            PROVE  i = j
        <4>1. CASE i = Len(turns) + 1
          BY <3>1, <3>3, <3>4, <4>1
        <4>2. CASE j = Len(turns) + 1
          BY <3>1, <3>3, <3>4, <4>2
        <4>3. CASE i # Len(turns) + 1 /\ j # Len(turns) + 1
          BY <3>3, <3>4, <4>3 DEF Once
        <4> QED
          BY <4>1, <4>2, <4>3
      <3> QED
        BY <3>4 DEF Once
    <2> QED
      BY <2>1, <2>2
  <1> HIDE DEF part, all
  <1>4. PICK k \in Nat : Len(part) + k <= Len(all) /\ \A j \in 1..Len(part) : part[j] = all[j + k]
    BY <1>1 DEF Piece
  <1>5. DOMAIN part = 1..Len(part) /\ Len(part) \in Nat /\ DOMAIN all = 1..Len(all) /\ Len(all) \in Nat
    BY <1>1, <1>2 DEF Piece
  <1>6. ASSUME NEW i \in DOMAIN part, NEW j \in DOMAIN part, part[i] = part[j]
        PROVE  i = j
    <2>1. i + k \in DOMAIN all /\ j + k \in DOMAIN all
      BY <1>4, <1>5
    <2>2. all[i + k] = all[j + k]
      BY <1>4, <1>5, <1>6
    <2>3. i + k = j + k
      BY <1>3, <2>1, <2>2 DEF Once
    <2> QED
      BY <1>5, <2>3
  <1> QED
    BY <1>6 DEF Once, part

(* The turn that is taken back is the last one, and there only once.       *)
LEMMA TakenBackIsGone ==
    ASSUME NEW c, c \notin Saves, NEW turns \in Seq(Requests), turns # <<>>, Once(turns)
    PROVE  /\ turns[Len(turns)] \in Requests /\ Within(turns[Len(turns)], turns)
           /\ ~Within(turns[Len(turns)], Updated(c, turns))
  <1> DEFINE n == Len(turns)
  <1>1. n \in Nat \ {0} /\ n \in DOMAIN turns /\ DOMAIN turns = 1..n /\ turns[n] \in Requests
    OBVIOUS
  <1> HIDE DEF n
  <1>2. 0 \in 0..n /\ n - 1 \in 0..n
    BY <1>1
  <1>3. PICK part : part = SubSeq(turns, 1, n - 1)
    OBVIOUS
  <1>4. \A i \in 1..(n - 1) : turns[i] \in Requests
    BY <1>1
  <1>5. Len(part) = n - 1 /\ part \in Seq(Requests) /\ \A i \in 1..(n - 1) : part[i] = turns[i]
    <2>1. 1 \in Int /\ n - 1 \in Int
      BY <1>1
    <2>2. /\ part \in Seq(Requests)
          /\ Len(part) = IF 1 <= n - 1 THEN (n - 1) - 1 + 1 ELSE 0
          /\ \A i \in 1..((n - 1) - 1 + 1) : part[i] = turns[1 + i - 1]
      BY <1>3, <1>4, <2>1, SubSeqProperties
    <2>3. (n - 1) - 1 + 1 = n - 1 /\ \A i \in 1..(n - 1) : 1 + i - 1 = i
      BY <1>1
    <2>4. Len(part) = n - 1
      BY <1>1, <2>2, <2>3
    <2>5. ASSUME NEW i \in 1..(n - 1)
          PROVE  part[i] = turns[i]
      <3>1. part[i] = turns[1 + i - 1] /\ 1 + i - 1 = i
        BY <2>2, <2>3
      <3> QED
        BY <3>1
    <2> QED
      BY <2>2, <2>4, <2>5
  <1>6. ~Within(turns[n], part)
    <2> SUFFICES ASSUME NEW i \in DOMAIN part, part[i] = turns[n]
                 PROVE  FALSE
      BY DEF Within
    <2>1. i \in 1..(n - 1)
      BY <1>5
    <2>2. i \in DOMAIN turns /\ i # n /\ turns[i] = turns[n]
      BY <1>1, <1>5, <2>1
    <2> QED
      BY <1>1, <2>2 DEF Once
  <1>7. Updated(c, turns) = part
    BY <1>3 DEF Updated, n
  <1> QED
    BY <1>1, <1>6, <1>7 DEF Within, n

(* Where the turns of a list come from.                                    *)
LEMMA TurnsHold ==
    ASSUME NEW old \in [Threads -> Seq(Requests)], NEW new, Turns(old, new), NEW t \in Threads,
           NEW u, Within(u, new[t])
    PROVE  \/ Within(u, old[t])
           \/ u \in Requests /\ ~Saved(u) /\ Saved(u)' /\ ThreadOf[u] = t
  <1>1. CASE new[t] = old[t] \/ new[t] = <<>>
    <2>1. DOMAIN <<>> = {}
      OBVIOUS
    <2> QED
      BY <1>1, <2>1 DEF Within
  <1>2. ASSUME NEW c \in Callers, Writer(c), new[t] = Updated(c, old[t]), ThreadOf[c] = t
        PROVE  \/ Within(u, old[t])
               \/ u \in Requests /\ ~Saved(u) /\ Saved(u)' /\ ThreadOf[u] = t
    <2>1. PICK i \in DOMAIN Updated(c, old[t]) : Updated(c, old[t])[i] = u
      BY <1>2 DEF Within
    <2>2. old[t] \in Seq(Requests) /\ (c \in Saves => c \in Requests)
      BY RequestsAssumption
    <2>3. \/ c \in Saves /\ u = c
          \/ \E j \in DOMAIN old[t] : u = old[t][j]
      BY <2>1, <2>2, UpdatedHolds
    <2> QED
      BY <1>2, <2>2, <2>3 DEF Writer, Within
  <1> QED
    BY <1>1, <1>2 DEF Turns, Shrinks, Puts

LEMMA TurnsKept ==
    ASSUME StoreInv, StoreInv', TurnsInv, TurnsStep
    PROVE  TurnsInv'
  <1>0. /\ redis \in [Threads -> Seq(Requests)] /\ redis' \in [Threads -> Seq(Requests)]
        /\ memory \in [Threads -> Seq(Requests)] /\ memory' \in [Threads -> Seq(Requests)]
        /\ \A c \in Callers : ThreadOf[c] \in Threads /\ (c \in Saves => c \in Requests)
    BY CallersAssumption, RequestsAssumption DEF StoreInv
  <1>1. Turns(redis, redis') /\ Turns(memory, memory')
    BY DEF TurnsStep
  <1>2. ASSUME NEW t \in Threads, NEW u \in Requests, Within(u, redis'[t]) \/ Within(u, memory'[t])
        PROVE  Saved(u)' /\ ThreadOf[u] = t
    <2>1. Within(u, redis[t]) \/ Within(u, memory[t]) => Saved(u)
      BY DEF TurnsInv
    <2>2. Homely(redis) /\ Homely(memory)
      BY DEF TurnsInv
    <2>3. Within(u, redis[t]) \/ Within(u, memory[t]) => ThreadOf[u] = t
      BY <2>2 DEF Homely, Within
    <2>4. Saved(u) => Saved(u)'
      BY DEF TurnsStep
    <2>5. CASE Within(u, redis'[t])
      <3>1. CASE Within(u, redis[t])
        BY <2>1, <2>3, <2>4, <3>1
      <3>2. CASE ~Within(u, redis[t])
        <4>1. redis \in [Threads -> Seq(Requests)] /\ Turns(redis, redis')
          BY <1>0, <1>1
        <4>2. ~Saved(u) /\ Saved(u)' /\ ThreadOf[u] = t
          BY <2>5, <3>2, <4>1, TurnsHold
        <4> QED
          BY <4>2
      <3> QED
        BY <3>1, <3>2
    <2>6. CASE Within(u, memory'[t])
      <3>1. CASE Within(u, memory[t])
        BY <2>1, <2>3, <2>4, <3>1
      <3>2. CASE ~Within(u, memory[t])
        <4>1. memory \in [Threads -> Seq(Requests)] /\ Turns(memory, memory')
          BY <1>0, <1>1
        <4>2. ~Saved(u) /\ Saved(u)' /\ ThreadOf[u] = t
          BY <2>6, <3>2, <4>1, TurnsHold
        <4> QED
          BY <4>2
      <3> QED
        BY <3>1, <3>2
    <2> QED
      BY <1>2, <2>5, <2>6
  <1>3. ASSUME NEW lists \in [Threads -> Seq(Requests)],
               \A t \in Threads : \A u \in Requests : Within(u, lists[t]) => ThreadOf[u] = t
        PROVE  Homely(lists)
    <2>1. \A t \in Threads : \A i \in DOMAIN lists[t] : lists[t][i] \in Requests /\ Within(lists[t][i], lists[t])
      BY <1>3 DEF Within
    <2> QED
      BY <1>3, <2>1 DEF Homely
  <1>4. Homely(redis') /\ Homely(memory')
    BY <1>0, <1>2, <1>3
  <1>5. ASSUME faults' = 0
        PROVE  /\ \A t \in Threads : Once(redis'[t]) /\ Once(memory'[t])
               /\ \A t \in Threads : \A u \in Requests : ~(Within(u, redis'[t]) /\ Within(u, memory'[t]))
    <2>1. /\ faults = 0 /\ (UNCHANGED redis \/ Shrinks(memory, memory'))
          /\ UNCHANGED memory \/ Shrinks(redis, redis')
      BY <1>5 DEF TurnsStep
    <2>2. /\ \A t \in Threads : Once(redis[t]) /\ Once(memory[t])
          /\ \A u \in Requests : \A t \in Threads : ~(Within(u, redis[t]) /\ Within(u, memory[t]))
      BY <2>1 DEF TurnsInv, Apart
    <2>3. DOMAIN <<>> = {}
      OBVIOUS
    <2>4. Once(<<>>) /\ \A u : ~Within(u, <<>>)
      BY <2>3 DEF Once, Within
    <2>5. ASSUME NEW old \in [Threads -> Seq(Requests)], NEW new, Turns(old, new), NEW t \in Threads,
                 Once(old[t]), \A u \in Requests : Within(u, old[t]) => Saved(u)
          PROVE  Once(new[t])
      <3>1. CASE new[t] = old[t] \/ new[t] = <<>>
        BY <2>4, <2>5, <3>1
      <3>2. ASSUME NEW c \in Callers, Writer(c), new[t] = Updated(c, old[t])
            PROVE  Once(new[t])
        <4>1. c \in Saves => c \in Requests /\ ~Within(c, old[t])
          BY <1>0, <2>5, <3>2 DEF Writer
        <4> QED
          BY <2>5, <3>2, <4>1, UpdatedIsOnce
      <3> QED
        BY <2>5, <3>1, <3>2 DEF Turns, Shrinks, Puts
    <2>6. \A t \in Threads : Once(redis'[t]) /\ Once(memory'[t])
      BY <1>0, <1>1, <2>2, <2>5 DEF TurnsInv
    <2>7. ASSUME NEW t \in Threads, NEW u \in Requests, Within(u, redis'[t]), Within(u, memory'[t])
          PROVE  FALSE
      <3>1. CASE Within(u, redis[t])
        <4>1. Saved(u)
          BY <3>1 DEF TurnsInv
        <4>2. Within(u, memory[t])
          BY <1>0, <1>1, <2>7, <4>1, TurnsHold
        <4> QED
          BY <2>2, <3>1, <4>2
      <3>2. CASE Within(u, memory[t])
        <4>1. Saved(u)
          BY <3>2 DEF TurnsInv
        <4>2. Within(u, redis[t])
          BY <1>0, <1>1, <2>7, <4>1, TurnsHold
        <4> QED
          BY <2>2, <3>2, <4>2
      <3>3. CASE ~Within(u, redis[t]) /\ ~Within(u, memory[t])
        <4>1. CASE UNCHANGED redis \/ Shrinks(redis, redis')
          BY <2>4, <2>7, <3>3, <4>1 DEF Shrinks
        <4>2. CASE UNCHANGED memory
          BY <2>7, <3>3, <4>2
        <4> QED
          BY <2>1, <4>1, <4>2
      <3> QED
        BY <3>1, <3>2, <3>3
    <2> QED
      BY <2>6, <2>7
  <1>6. \A t \in Threads : \A u \in Requests : (Within(u, redis[t]) \/ Within(u, memory[t]) => Saved(u))'
    BY <1>2 DEF Within
  <1>7. Homely(redis)' /\ Homely(memory)'
    BY <1>4 DEF Homely
  <1>8. (faults = 0 => /\ \A t \in Threads : Once(redis[t]) /\ Once(memory[t])
                       /\ \A u \in Requests : Apart(u))'
    BY <1>5 DEF Once, Apart, Within
  <1> QED
    BY <1>6, <1>7, <1>8 DEF TurnsInv

-----------------------------------------------------------------------------

(* A call of pop takes the last turn of one store, if the turn answers its *)
(* question.                                                               *)
TakesFrom(c, old, new) ==
    /\ Matches(c, old[ThreadOf[c]])
    /\ new[ThreadOf[c]] = Updated(c, old[ThreadOf[c]])
    /\ \A t \in Threads \ {ThreadOf[c]} : new[t] = old[t] \/ new[t] = <<>>

Takes(c) ==
    \/ TakesFrom(c, redis, redis') /\ UNCHANGED memory
    \/ TakesFrom(c, memory, memory') /\ UNCHANGED redis

(* A step of the store for c, with what it does to the memory.             *)
StoreMoves(c) ==
    /\ Moves(c)
    /\ \A d \in Callers \ {c} : call'[d].removed = call[d].removed
    /\ \/ UNCHANGED memory
       \/ /\ call[c].at \in {"watch", "exec"} /\ call'[c].at = "done"
          /\ Puts(c, memory, memory')
    /\ faults' = 0 => UNCHANGED redis \/ UNCHANGED memory
    /\ c \notin Saves /\ faults' = 0 /\ call'[c].removed => call[c].removed \/ Takes(c)

LEMMA FallbackPuts ==
    ASSUME StoreInv, NEW c \in Callers, Fallback(c, ThreadOf[c])
    PROVE  /\ UNCHANGED memory \/ Puts(c, memory, memory')
           /\ c \notin Saves /\ Matches(c, memory[ThreadOf[c]]) => TakesFrom(c, memory, memory')
  <1> DEFINE t == ThreadOf[c]
  <1>1. t \in Threads /\ DOMAIN memory = Threads
    BY CallersAssumption DEF StoreInv
  <1>2. CASE c \in Saves
    <2>1. PICK out : memory' = [u \in Threads |->
                        IF u = t THEN Updated(c, memory[t])
                        ELSE IF u \in out THEN <<>> ELSE memory[u]]
      BY <1>2 DEF Fallback, MemorySave
    <2> QED
      BY <1>1, <1>2, <2>1 DEF Puts
  <1>3. CASE c \notin Saves /\ Matches(c, memory[t])
    <2>1. memory' = [memory EXCEPT ![t] = Updated(c, memory[t])]
      BY <1>3 DEF Fallback, MemoryPop, StoreInv
    <2> QED
      BY <1>1, <1>3, <2>1 DEF Puts, TakesFrom
  <1>4. CASE c \notin Saves /\ ~Matches(c, memory[t])
    BY <1>4 DEF Fallback, MemoryPop
  <1> QED
    BY <1>2, <1>3, <1>4

LEMMA TouchKeepsRemoved ==
    ASSUME StoreInv, NEW c \in Callers, NEW t, NEW next, call' = Touch(t, c, next)
    PROVE  call'[c] = next /\ \A d \in Callers \ {c} : call'[d].removed = call[d].removed
  <1>1. call'[c] = next
    BY DEF Touch
  <1>2. ASSUME NEW d \in Callers \ {c}
        PROVE  call'[d].removed = call[d].removed
    <2>1. call[d] \in Call
      BY DEF StoreInv
    <2>2. [call[d] EXCEPT !.dirty = TRUE].removed = call[d].removed
      BY <2>1 DEF Call
    <2> QED
      BY <2>2 DEF Touch
  <1> QED
    BY <1>1, <1>2

LEMMA StoreStepMovesTurns ==
    ASSUME StoreInv, faults \in Nat, NEW c \in Callers, StoreStep(c)
    PROVE  StoreMoves(c) /\ call[c].at \in {"watch", "exec"} /\ call'[c].at \in {"watch", "exec", "done"}
  <1>0. /\ Moves(c) /\ call[c].at \in {"watch", "exec"} /\ call'[c].at \in {"watch", "exec", "done"}
        /\ call[c] \in Call /\ DOMAIN call = Callers /\ ThreadOf[c] \in Threads
        /\ DOMAIN redis = Threads
    BY StoreStepMoves, CallersAssumption DEF StoreInv
  <1>1. CASE Watch(c)
    <2>1. PICK next : /\ call' = [call EXCEPT ![c] = next]
                      /\ next.removed => call[c].removed
      <3> DEFINE t == ThreadOf[c]
                 next == IF Writes(c, redis[t])
                         THEN [call[c] EXCEPT !.at = "exec", !.seen = redis[t], !.dirty = FALSE]
                         ELSE Done(c, FALSE)
      <3>1. next.removed => call[c].removed
        BY <1>0 DEF Call, Done, Idle
      <3>2. call' = [call EXCEPT ![c] = next]
        BY <1>1 DEF Watch, StoreInv
      <3> HIDE DEF next
      <3> QED
        BY <3>1, <3>2
    <2>2. UNCHANGED <<redis, memory>>
      BY <1>1 DEF Watch
    <2> QED
      BY <1>0, <2>1, <2>2 DEF StoreMoves
  <1>2. CASE Exec(c)
    <2>1. PICK next : next = Done(c, c \notin Saves)
      OBVIOUS
    <2>2. /\ call[c].at = "exec" /\ ~call[c].dirty /\ UNCHANGED memory
          /\ redis' = [redis EXCEPT ![ThreadOf[c]] = Updated(c, call[c].seen)]
          /\ call' = Touch(ThreadOf[c], c, next)
      BY <1>2, <2>1 DEF Exec
    <2>3. call[c].seen = redis[ThreadOf[c]] /\ Writes(c, redis[ThreadOf[c]])
      BY <2>2 DEF StoreInv, Undisturbed
    <2>4. c \notin Saves => TakesFrom(c, redis, redis')
      BY <1>0, <2>2, <2>3 DEF TakesFrom, Writes
    <2>5. \A d \in Callers \ {c} : call'[d].removed = call[d].removed
      BY <2>2, TouchKeepsRemoved
    <2> QED
      BY <1>0, <2>2, <2>4, <2>5 DEF StoreMoves, Takes
  <1>3. CASE ExecConflicts(c)
    <2>1. CASE call[c].tries + 1 < Attempts
      <3>1. PICK tries : tries = call[c].tries + 1
        OBVIOUS
      <3>2. call' = [call EXCEPT ![c] = [Idle EXCEPT !.at = "watch", !.tries = tries]]
            /\ UNCHANGED <<redis, memory>>
        BY <1>3, <2>1, <3>1 DEF ExecConflicts
      <3>3. [Idle EXCEPT !.at = "watch", !.tries = tries].removed = FALSE
        BY DEF Idle
      <3> QED
        BY <1>0, <3>2, <3>3 DEF StoreMoves
    <2>2. CASE ~(call[c].tries + 1 < Attempts)
      <3>1. PICK removed : removed = MemoryResult(c, ThreadOf[c])
        OBVIOUS
      <3>2. /\ call' = [call EXCEPT ![c] = Done(c, removed)]
            /\ Fallback(c, ThreadOf[c]) /\ UNCHANGED redis
        BY <1>3, <2>2, <3>1 DEF ExecConflicts
      <3>3. Done(c, removed).removed = removed /\ Done(c, removed).at = "done"
        BY DEF Done, Idle
      <3>4. /\ call'[c].removed = removed /\ call'[c].at = "done"
            /\ \A d \in Callers \ {c} : call'[d].removed = call[d].removed
        BY <1>0, <3>2, <3>3
      <3>5. c \notin Saves /\ removed => TakesFrom(c, memory, memory')
        BY <3>1, <3>2, FallbackPuts DEF MemoryResult
      <3>6. UNCHANGED memory \/ Puts(c, memory, memory')
        BY <3>2, FallbackPuts
      <3> QED
        BY <1>0, <3>2, <3>4, <3>5, <3>6 DEF StoreMoves, Takes
    <2> QED
      BY <2>1, <2>2
  <1>4. CASE RedisFails(c)
    <2>1. PICK next : next = Done(c, MemoryResult(c, ThreadOf[c]))
      OBVIOUS
    <2>2. next.at = "done"
      BY <2>1 DEF Done, Idle
    <2>3. /\ Fault(c) /\ Fallback(c, ThreadOf[c])
          /\ \/ call' = [call EXCEPT ![c] = next]
             \/ call' = Touch(ThreadOf[c], c, next)
      BY <1>4, <2>1 DEF RedisFails
    <2>4. call'[c] = next /\ \A d \in Callers \ {c} : call'[d].removed = call[d].removed
      BY <1>0, <2>3, TouchKeepsRemoved
    <2>5. faults' # 0
      BY <2>3 DEF Fault
    <2>6. UNCHANGED memory \/ Puts(c, memory, memory')
      BY <2>3, FallbackPuts
    <2> QED
      BY <1>0, <2>2, <2>4, <2>5, <2>6 DEF StoreMoves
  <1> QED
    BY <1>1, <1>2, <1>3, <1>4 DEF StoreStep

LEMMA AbandonMovesTurns ==
    ASSUME StoreInv, faults \in Nat, NEW c \in Requests, Abandon(c), UNCHANGED <<memory, faults>>
    PROVE  StoreMoves(c) /\ call'[c].at = "done"
  <1>0. c \in Callers /\ c \in Saves /\ DOMAIN call = Callers
    BY RequestsAssumption DEF StoreInv
  <1>1. Moves(c) /\ call'[c].at = "done"
    BY <1>0, AbandonMoves
  <1>2. PICK next : next = Done(c, FALSE)
    OBVIOUS
  <1>3. call' = [call EXCEPT ![c] = next] \/ call' = Touch(ThreadOf[c], c, next)
    BY <1>2 DEF Abandon
  <1>4. \A d \in Callers \ {c} : call'[d].removed = call[d].removed
    BY <1>0, <1>3, TouchKeepsRemoved
  <1> QED
    BY <1>0, <1>1, <1>4 DEF StoreMoves

-----------------------------------------------------------------------------

(* Calls of pop that have taken a turn back, so long as Redis answers.     *)
Removals ==
    faults' = 0 => \A c \in Pops : call'[c].removed => call[c].removed \/ Takes(c)

LEMMA StandingTurns ==
    ASSUME ContextInv, UNCHANGED <<pc, run, call, redis, memory, faults>>
    PROVE  TurnsStep /\ Removals
  BY DEF TurnsStep, Turns, Shrinks, Removals, Saved, Working, ContextInv

(* A step of r that leaves the stores alone.                               *)
LEMMA OutsideTurns ==
    ASSUME NEW r \in Requests, UNCHANGED <<redis, memory, call, faults>>,
           \A q \in Requests \ {r} : pc'[q] = pc[q] /\ run'[q] = run[q],
           Saved(r) => Saved(r)'
    PROVE  TurnsStep /\ Removals
  <1>1. \A q \in Requests \ {r} : Saved(q) => Saved(q)'
    BY DEF Saved, Working
  <1> QED
    BY <1>1 DEF TurnsStep, Turns, Shrinks, Removals

(* A step of the store on behalf of r.                                     *)
LEMMA StoreTurns ==
    ASSUME StoreInv, ContextInv, NEW r \in Requests, StoreMoves(r),
           call[r].at \in {"watch", "exec"},
           \A q \in Requests \ {r} : pc'[q] = pc[q] /\ run'[q] = run[q],
           call'[r].at = "done" => Saved(r)'
    PROVE  TurnsStep /\ Removals
  <1>0. r \in Callers /\ Pops \subseteq Callers \ {r} /\ DOMAIN redis = Threads
        /\ \A q \in Requests \ {r} : q \in Callers \ {r}
    BY RequestsAssumption DEF StoreInv
  <1>1. Saving(r) /\ ~Saved(r)
    BY DEF ContextInv, Saving, Saved, Working
  <1>2. \A q \in Requests \ {r} : Saved(q) => Saved(q)'
    BY <1>0 DEF Saved, Working, StoreMoves, Moves
  <1>3. Removals
    BY <1>0 DEF Removals, StoreMoves
  <1>4. ASSUME UNCHANGED redis \/ (Puts(r, redis, redis') /\ call'[r].at = "done"),
               UNCHANGED memory \/ (Puts(r, memory, memory') /\ call'[r].at = "done")
        PROVE  Turns(redis, redis') /\ Turns(memory, memory')
    BY <1>0, <1>1, <1>4 DEF Turns, Shrinks, Writer
  <1>5. UNCHANGED redis \/ (Puts(r, redis, redis') /\ call'[r].at = "done")
    <2>1. ThreadOf[r] \in Threads
      BY <1>0, CallersAssumption
    <2> QED
      BY <1>0, <2>1 DEF StoreMoves, Moves, Puts
  <1>6. UNCHANGED memory \/ (Puts(r, memory, memory') /\ call'[r].at = "done")
    BY DEF StoreMoves
  <1>7. faults' = 0 => faults = 0 /\ (UNCHANGED redis \/ UNCHANGED memory)
    BY DEF StoreMoves, Moves
  <1>8. faults' = 0 => /\ faults = 0 /\ (UNCHANGED redis \/ Shrinks(memory, memory'))
                       /\ UNCHANGED memory \/ Shrinks(redis, redis')
    BY <1>7 DEF Shrinks
  <1> QED
    BY <1>1, <1>2, <1>3, <1>4, <1>5, <1>6, <1>8 DEF TurnsStep

LEMMA PopTurns ==
    ASSUME StoreInv, ContextInv, NEW c \in Pops, Pop(c)
    PROVE  TurnsStep /\ Removals
  <1>0. /\ c \in Callers /\ c \notin Requests /\ c \notin Saves /\ faults \in Nat
        /\ UNCHANGED <<pc, run>> /\ DOMAIN redis = Threads /\ DOMAIN call = Callers
        /\ \A d \in Pops \cup Requests : d \in Callers
        /\ ThreadOf[c] \in Threads
    BY RequestsAssumption, CallersAssumption DEF ContextInv, Pop, StoreInv
  <1>1. CASE Begin(c) /\ UNCHANGED <<redis, memory, faults>>
    <2>1. PICK next : next = [Idle EXCEPT !.at = "watch"]
      OBVIOUS
    <2>2. call' = [call EXCEPT ![c] = next] /\ next.removed = FALSE
      BY <1>1, <2>1 DEF Begin, Idle
    <2>3. \A r \in Requests : Saved(r) => Saved(r)'
      BY <1>0, <2>2 DEF Saved, Working
    <2>4. Removals
      BY <1>0, <2>2 DEF Removals
    <2> QED
      BY <1>1, <2>3, <2>4 DEF TurnsStep, Turns, Shrinks
  <1>2. CASE StoreStep(c)
    <2>1. StoreMoves(c)
      BY <1>0, <1>2, StoreStepMovesTurns
    <2>2. \A r \in Requests : Saved(r) => Saved(r)'
      BY <1>0, <2>1 DEF Saved, Working, StoreMoves, Moves
    <2>3. Removals
      BY <1>0, <2>1 DEF Removals, StoreMoves
    <2>4. (UNCHANGED redis \/ Puts(c, redis, redis')) /\ (UNCHANGED memory \/ Puts(c, memory, memory'))
      BY <1>0, <2>1 DEF StoreMoves, Moves, Puts
    <2>5. Turns(redis, redis') /\ Turns(memory, memory')
      BY <1>0, <2>4 DEF Turns, Shrinks, Writer
    <2>6. faults' = 0 => faults = 0 /\ (UNCHANGED redis \/ UNCHANGED memory)
      BY <2>1 DEF StoreMoves, Moves
    <2> QED
      BY <2>2, <2>3, <2>5, <2>6 DEF TurnsStep, Shrinks
  <1> QED
    BY <1>1, <1>2 DEF Pop

LEMMA ExpiryTurns ==
    ASSUME StoreInv, ContextInv, StoresForget
    PROVE  TurnsStep /\ Removals
  <1>0. faults \in Nat /\ UNCHANGED <<pc, run>> /\ Expiry /\ Pops \cup Requests \subseteq Callers
    BY RequestsAssumption DEF ContextInv, StoresForget
  <1>1. PICK t \in Threads : RedisForgets(t) \/ MemoryExpires(t)
    BY <1>0, CallersAssumption DEF Expiry
  <1>2. \A d \in Callers : call'[d].at = call[d].at /\ call'[d].removed = call[d].removed
    <2> SUFFICES ASSUME NEW d \in Callers
                 PROVE  call'[d].at = call[d].at /\ call'[d].removed = call[d].removed
      OBVIOUS
    <2>1. call[d] \in Call
      BY DEF StoreInv
    <2>2. /\ [call[d] EXCEPT !.dirty = TRUE].at = call[d].at
          /\ [call[d] EXCEPT !.dirty = TRUE].removed = call[d].removed
      BY <2>1 DEF Call
    <2> QED
      BY <1>1, <2>1, <2>2 DEF RedisForgets, MemoryExpires
  <1>3. UNCHANGED <<memory, faults>> /\ Shrinks(redis, redis')
    BY <1>1 DEF RedisForgets, MemoryExpires, Shrinks, StoreInv
  <1>4. \A r \in Requests : Saved(r) => Saved(r)'
    BY <1>0, <1>2 DEF Saved, Working
  <1>5. Removals
    BY <1>0, <1>2 DEF Removals
  <1> QED
    BY <1>3, <1>4, <1>5 DEF TurnsStep, Turns, Shrinks

LEMMA EndTurns ==
    ASSUME StoreInv, SlotInv, RunInv, ContextInv, NEW r \in Requests, NEW how, Ends(r, how),
           UNCHANGED storeVars \/ CancelRun(r)
    PROVE  TurnsStep /\ Removals
  <1>0. DOMAIN pc = Requests /\ DOMAIN run = Requests /\ faults \in Nat
    BY DEF SlotInv, RunInv, ContextInv
  <1>1. /\ pc'[r] = "audit"
        /\ \A q \in Requests \ {r} : pc'[q] = pc[q] /\ run'[q] = run[q]
    BY <1>0 DEF Ends, Goto
  <1>2. CASE UNCHANGED storeVars
    BY <1>1, <1>2, OutsideTurns DEF storeVars, Saved
  <1>3. CASE call[r].at \in {"watch", "exec"} /\ Abandon(r) /\ UNCHANGED <<memory, faults>>
    <2>1. StoreMoves(r)
      BY <1>0, <1>3, AbandonMovesTurns
    <2> QED
      BY <1>1, <1>3, <2>1, StoreTurns DEF Saved
  <1> QED
    BY <1>2, <1>3 DEF CancelRun

LEMMA SaveSessionTurns ==
    ASSUME StoreInv, SlotInv, RunInv, ContextInv, NEW r \in Requests, SaveSession(r)
    PROVE  TurnsStep /\ Removals
  <1>0. /\ r \in Callers /\ r \in Saves /\ faults \in Nat /\ Working(r) /\ run[r].node = "save_session"
        /\ UNCHANGED pc /\ DOMAIN call = Callers /\ r \notin Pops
        /\ \A d \in Pops \cup Requests : d \in Callers
    BY RequestsAssumption DEF ContextInv, SaveSession, StoreInv
  <1>1. ASSUME NEW next, call' = [call EXCEPT ![r] = next], UNCHANGED <<redis, memory, faults>>,
               \A q \in Requests \ {r} : run'[q] = run[q], Saved(r) => Saved(r)'
        PROVE  TurnsStep /\ Removals
    <2>1. \A q \in Requests \ {r} : Saved(q) => Saved(q)'
      BY <1>0, <1>1 DEF Saved, Working
    <2>2. Removals
      BY <1>0, <1>1 DEF Removals
    <2> QED
      BY <1>1, <2>1, <2>2 DEF TurnsStep, Turns, Shrinks
  <1>2. CASE call[r].at = "idle" /\ Begin(r) /\ UNCHANGED <<run, redis, memory, faults>>
    <2>1. ~Saved(r)
      BY <1>0, <1>2 DEF Saved, Working
    <2> QED
      BY <1>1, <1>2, <2>1 DEF Begin
  <1>3. CASE StoreStep(r) /\ UNCHANGED run
    <2>1. StoreMoves(r) /\ call[r].at \in {"watch", "exec"}
      BY <1>0, <1>3, StoreStepMovesTurns
    <2>2. call'[r].at = "done" => Saved(r)'
      BY <1>0, <1>3 DEF Saved, Working
    <2> QED
      BY <1>0, <1>3, <2>1, <2>2, StoreTurns
  <1>4. CASE /\ call' = [call EXCEPT ![r] = Idle] /\ run' = [run EXCEPT ![r] = To(run[r], "save_memory")]
             /\ UNCHANGED <<redis, memory, faults>>
    <2>1. "node" \in DOMAIN run[r] /\ DOMAIN run = Requests
      BY DEF RunInv, RuntimeState
    <2>2. run'[r].node = "save_memory" /\ \A q \in Requests \ {r} : run'[q] = run[q]
      BY <1>4, <2>1, ToNode
    <2>3. Saved(r)'
      BY <1>0, <2>2 DEF Saved, Working
    <2> QED
      BY <1>1, <1>4, <2>2, <2>3
  <1> QED
    BY <1>2, <1>3, <1>4, Zenon DEF SaveSession

LEMMA LoadHistoryTurns ==
    ASSUME StoreInv, SlotInv, RunInv, ContextInv, NEW r \in Requests, LoadHistory(r)
    PROVE  TurnsStep /\ Removals
  <1>0. Working(r) /\ run[r].node = "load_history" /\ UNCHANGED pc
    BY DEF LoadHistory
  <1>1. "node" \in DOMAIN run[r] /\ DOMAIN run = Requests
    BY DEF RunInv, RuntimeState
  <1>2. PICK history : Get(r, history) /\ run' = [run EXCEPT ![r] = To(@, "load_memory")]
    BY DEF LoadHistory
  <1>3. \A q \in Requests \ {r} : run'[q] = run[q]
    BY <1>1, <1>2
  <1>4. ~Saved(r)
    BY <1>0 DEF Saved, Working
  <1>5. CASE UNCHANGED storeVars
    BY <1>0, <1>3, <1>4, <1>5, OutsideTurns DEF storeVars
  <1>6. CASE Fault(r) /\ MemoryGet(ThreadOf[r]) /\ UNCHANGED <<redis, call>>
    <2>1. faults' # 0
      BY <1>6 DEF Fault, ContextInv
    <2>2. Shrinks(redis, redis') /\ Shrinks(memory, memory')
      BY <1>6 DEF MemoryGet, Shrinks, StoreInv
    <2>3. \A q \in Requests : Saved(q) => Saved(q)'
      BY <1>0, <1>3, <1>4, <1>6 DEF Saved, Working
    <2> QED
      BY <2>1, <2>2, <2>3 DEF TurnsStep, Turns, Removals
  <1> QED
    BY <1>2, <1>5, <1>6 DEF Get

LEMMA HandlerTurns ==
    ASSUME StoreInv, SlotInv, PlaceInv, RunInv, ContextInv, NEW r \in Requests, Handler(r)
    PROVE  TurnsStep /\ Removals
  <1>0. DOMAIN pc = Requests /\ DOMAIN run = Requests
    BY DEF SlotInv, RunInv
  <1>1. ASSUME NEW where, Goto(r, where), UNCHANGED run \/ Run(r), UNCHANGED storeVars,
               pc[r] # "running", where = "done" \/ pc[r] \notin {"audit", "done"}
        PROVE  TurnsStep /\ Removals
    <2>1. \A q \in Requests \ {r} : pc'[q] = pc[q] /\ run'[q] = run[q]
      BY <1>0, <1>1 DEF Goto, Run
    <2>2. Saved(r) => Saved(r)'
      BY <1>0, <1>1 DEF Goto, Saved, Working
    <2> QED
      BY <1>1, <2>1, <2>2, OutsideTurns DEF storeVars
  <1>2. CASE Authenticate(r)
    BY <1>1, <1>2 DEF Authenticate
  <1>3. CASE AcquireSlot(r)
    <2>1. pc[r] = "limits" /\ UNCHANGED storeVars
      BY <1>3 DEF AcquireSlot
    <2>2. CASE Run(r)
      BY <1>1, <2>1, <2>2 DEF Run
    <2>3. CASE UNCHANGED run /\ \E where \in {"denied", "queue"} : Goto(r, where)
      BY <1>1, <2>1, <2>3
    <2> QED
      BY <1>3, <2>2, <2>3 DEF AcquireSlot
  <1>4. CASE Resume(r)
    <2>1. Run(r) /\ UNCHANGED storeVars /\ pc[r] = "queue"
      BY <1>4, TakeUpElsewhere DEF Resume, PlaceInv
    <2> QED
      BY <1>1, <2>1 DEF Run
  <1>5. CASE GiveUpQueue(r)
    <2>1. Goto(r, "denied") /\ UNCHANGED <<run, storeVars>> /\ pc[r] = "queue"
      BY <1>5, QueueTimeoutElsewhere DEF GiveUpQueue, PlaceInv
    <2> QED
      BY <1>1, <2>1
  <1>6. CASE Deny(r) \/ WriteAudit(r)
    BY <1>1, <1>6 DEF Deny, WriteAudit
  <1>7. CASE Node(r)
    <2>1. PICK s \in Results(run[r]) : run' = [run EXCEPT ![r] = s]
      BY <1>7 DEF Node
    <2>2. Working(r) /\ UNCHANGED <<pc, storeVars>> /\ run[r] \in RuntimeState
      BY <1>7 DEF Node, RunInv
    <2>3. /\ run[r].node \notin {"save_session", "save_memory", "save_episode", "end"}
          /\ run[r].node = "finalize" => s.node = "end"
      BY <2>2, ResultNodes
    <2>4. run'[r] = s /\ \A q \in Requests \ {r} : pc'[q] = pc[q] /\ run'[q] = run[q]
      BY <1>0, <2>1, <2>2
    <2>5. Saved(r) => Saved(r)'
      BY <2>2, <2>3, <2>4 DEF Saved, Working
    <2> QED
      BY <2>2, <2>4, <2>5, OutsideTurns DEF storeVars
  <1>8. CASE LoadHistory(r)
    BY <1>8, LoadHistoryTurns
  <1>9. CASE SaveSession(r)
    BY <1>9, SaveSessionTurns
  <1>10. CASE Succeed(r) \/ TestEnds(r)
    BY <1>10, EndTurns DEF Succeed, TestEnds
  <1>11. CASE BreakOff(r)
    BY <1>11, EndTurns DEF BreakOff
  <1> QED
    BY <1>2, <1>3, <1>4, <1>5, <1>6, <1>7, <1>8, <1>9, <1>10, <1>11 DEF Handler

(* Every step of the backend moves the turns like that.                    *)
LEMMA NextTurns ==
    ASSUME StoreInv, SlotInv, PlaceInv, RunInv, ContextInv, [Next]_vars
    PROVE  TurnsStep /\ Removals
  <1>1. CASE UNCHANGED <<pc, run, storeVars>>
    BY <1>1, StandingTurns DEF storeVars
  <1>2. ASSUME NEW r \in Requests, MemoryNode(r)
        PROVE  TurnsStep /\ Removals
    <2>1. /\ Working(r) /\ UNCHANGED <<pc, storeVars>>
          /\ "node" \in DOMAIN run[r] /\ DOMAIN run = Requests
      BY <1>2 DEF MemoryNode, RunInv, RuntimeState
    <2>2. PICK n : /\ run' = [run EXCEPT ![r] = To(@, n)]
                   /\ <<run[r].node, n>> \in {<<"load_memory", "route">>, <<"save_memory", "save_episode">>,
                                             <<"save_episode", "finalize">>}
      BY <1>2 DEF MemoryNode
    <2>3. run'[r].node = n /\ \A q \in Requests \ {r} : pc'[q] = pc[q] /\ run'[q] = run[q]
      BY <2>1, <2>2, ToNode
    <2>4. Saved(r) => Saved(r)'
      BY <2>1, <2>2, <2>3 DEF Saved, Working
    <2> QED
      BY <2>1, <2>3, <2>4, OutsideTurns DEF storeVars
  <1>3. ASSUME NEW r \in Requests, Disconnect(r)
        PROVE  TurnsStep /\ Removals
    <2>1. CASE Ends(r, "cancelled") /\ CancelRun(r)
      BY <2>1, EndTurns
    <2>2. CASE UNCHANGED <<pc, run, storeVars>>
      BY <1>1, <2>2
    <2> QED
      BY <1>3, <2>1, <2>2 DEF Disconnect
  <1> QED
    BY <1>1, <1>2, <1>3, HandlerTurns, PopTurns, ExpiryTurns DEF Next, Step, vars

LEMMA InitTurns ==
    ASSUME Init
    PROVE  TurnsInv
  <1>1. \A t \in Threads : redis[t] = <<>> /\ memory[t] = <<>>
    BY DEF Init, StoreInit
  <1>2. DOMAIN <<>> = {}
    OBVIOUS
  <1>3. Once(<<>>) /\ \A u : ~Within(u, <<>>)
    BY <1>2 DEF Once, Within
  <1>4. Homely(redis) /\ Homely(memory)
    BY <1>1, <1>2 DEF Homely
  <1>5. \A t \in Threads : \A u \in Requests : ~Within(u, redis[t]) /\ ~Within(u, memory[t])
    BY <1>1, <1>3
  <1>6. \A u \in Requests : Apart(u)
    BY <1>5 DEF Apart
  <1> QED
    BY <1>1, <1>3, <1>4, <1>5, <1>6 DEF TurnsInv

-----------------------------------------------------------------------------

(* A request that has not come, or is over without a trace.                *)
Rests(r) == pc[r] = "done" /\ slot[r] = "out" /\ call[r].at = "done"

Asleep(r) ==
    /\ Rests(r) /\ context[r] = <<>>
    /\ \A t \in Threads : ~Within(r, redis[t]) /\ ~Within(r, memory[t])

(* Steps on behalf of r.                                                   *)
Stays(q) ==
    /\ pc'[q] = pc[q] /\ call'[q].at = call[q].at /\ context'[q] = context[q]
    /\ slot[q] = "out" => slot'[q] = "out"

Elsewhere(r) == \A q \in Requests \ {r} : Stays(q)

LEMMA SlotsElsewhere ==
    ASSUME SlotInv, NEW r \in Requests, UNCHANGED limitVars \/ OthersKeepSlots(r)
    PROVE  \A q \in Requests \ {r} : slot[q] = "out" => slot'[q] = "out"
  BY DEF limitVars, OthersKeepSlots

LEMMA EndsElsewhere ==
    ASSUME StoreInv, SlotInv, ContextInv, NEW r \in Requests, NEW how, Ends(r, how),
           UNCHANGED storeVars \/ CancelRun(r), UNCHANGED context
    PROVE  Elsewhere(r)
  <1>0. DOMAIN pc = Requests /\ faults \in Nat /\ \A q \in Requests : q \in Callers
    BY RequestsAssumption DEF SlotInv, ContextInv
  <1>1. \A q \in Requests \ {r} : pc'[q] = pc[q]
    BY <1>0 DEF Ends, Goto
  <1>2. UNCHANGED limitVars \/ OthersKeepSlots(r)
    BY ReleaseElsewhere DEF Ends
  <1>3. CASE UNCHANGED storeVars
    BY <1>1, <1>2, <1>3, SlotsElsewhere DEF Elsewhere, Stays, storeVars
  <1>4. CASE Abandon(r) /\ UNCHANGED <<memory, stale, recent, faults>>
    <2>1. Moves(r)
      BY <1>0, <1>4, AbandonMoves
    <2>2. \A q \in Requests \ {r} : call'[q].at = call[q].at
      BY <1>0, <2>1 DEF Moves
    <2> QED
      BY <1>1, <1>2, <2>2, SlotsElsewhere DEF Elsewhere, Stays
  <1> QED
    BY <1>3, <1>4 DEF CancelRun

LEMMA HandlerElsewhere ==
    ASSUME StoreInv, SlotInv, PlaceInv, ContextInv, NEW r \in Requests, Handler(r)
    PROVE  Elsewhere(r) /\ ~Rests(r)
  <1>0. /\ DOMAIN pc = Requests /\ faults \in Nat /\ \A q \in Requests : q \in Callers
        /\ DOMAIN call = Callers /\ DOMAIN context = Requests /\ DOMAIN slot = Requests
    BY RequestsAssumption DEF SlotInv, ContextInv, StoreInv
  <1>1. ASSUME NEW where, Goto(r, where), UNCHANGED <<context, storeVars>>,
               UNCHANGED limitVars \/ OthersKeepSlots(r)
        PROVE  Elsewhere(r)
    <2>1. \A q \in Requests \ {r} : pc'[q] = pc[q]
      BY <1>0, <1>1 DEF Goto
    <2> QED
      BY <1>1, <2>1, SlotsElsewhere DEF Elsewhere, Stays, storeVars
  <1>2. CASE Authenticate(r)
    BY <1>1, <1>2 DEF Authenticate, Rests
  <1>3. CASE AcquireSlot(r)
    <2>1. pc[r] = "limits" /\ UNCHANGED <<context, storeVars>>
      BY <1>3 DEF AcquireSlot
    <2>2. UNCHANGED limitVars \/ Enter(r)
      BY <1>3 DEF AcquireSlot
    <2>3. UNCHANGED limitVars \/ OthersKeepSlots(r)
      BY <1>0, <2>2 DEF Enter, OthersKeepSlots
    <2>4. \E where \in {"denied", "queue", "running"} : Goto(r, where)
      BY <1>3 DEF AcquireSlot, Run
    <2> QED
      BY <1>1, <2>1, <2>3, <2>4 DEF Rests
  <1>4. CASE Resume(r)
    BY <1>1, <1>4, TakeUpElsewhere DEF Resume, Run, Rests
  <1>5. CASE GiveUpQueue(r)
    BY <1>1, <1>5, QueueTimeoutElsewhere DEF GiveUpQueue, Rests
  <1>6. CASE Deny(r)
    BY <1>1, <1>6 DEF Deny, Rests
  <1>7. CASE WriteAudit(r)
    BY <1>1, <1>7, ReleaseElsewhere DEF WriteAudit, Rests
  <1>8. CASE Node(r)
    BY <1>8 DEF Node, Working, Rests, Elsewhere, Stays, limitVars, storeVars
  <1>9. CASE LoadHistory(r)
    <2>1. Working(r) /\ UNCHANGED <<pc, limitVars>>
      BY <1>9 DEF LoadHistory
    <2>2. PICK history : Get(r, history) /\ context' = [context EXCEPT ![r] = history]
      BY <1>9 DEF LoadHistory
    <2>3. UNCHANGED call
      BY <2>2 DEF Get, storeVars
    <2> QED
      BY <1>0, <2>1, <2>2, <2>3 DEF Working, Rests, Elsewhere, Stays, limitVars
  <1>10. CASE SaveSession(r)
    <2>1. Working(r) /\ UNCHANGED <<pc, limitVars, context>>
      BY <1>10 DEF SaveSession
    <2>2. Begin(r) \/ StoreStep(r) \/ call' = [call EXCEPT ![r] = Idle]
      BY <1>10 DEF SaveSession
    <2>3. StoreStep(r) => Moves(r)
      BY <1>0, StoreStepMoves
    <2>4. \A q \in Requests \ {r} : call'[q].at = call[q].at
      BY <1>0, <2>2, <2>3 DEF Begin, Moves
    <2> QED
      BY <2>1, <2>4 DEF Working, Rests, Elsewhere, Stays, limitVars
  <1>11. CASE Succeed(r) \/ BreakOff(r) \/ TestEnds(r)
    <2>1. /\ pc[r] = "running" /\ UNCHANGED context /\ (UNCHANGED storeVars \/ CancelRun(r))
          /\ \E how \in {"success", "error", "timeout"} : Ends(r, how)
      BY <1>11 DEF Succeed, BreakOff, TestEnds, Working
    <2> QED
      BY <2>1, EndsElsewhere DEF Rests
  <1> QED
    BY <1>2, <1>3, <1>4, <1>5, <1>6, <1>7, <1>8, <1>9, <1>10, <1>11 DEF Handler

(* Whoever rests stays as it is.                                           *)
LEMMA NextElsewhere ==
    ASSUME StoreInv, SlotInv, PlaceInv, ContextInv, [Next]_vars
    PROVE  \A q \in Requests : Rests(q) => Stays(q)
  <1>0. faults \in Nat /\ \A q \in Requests : q \in Callers
    BY RequestsAssumption DEF ContextInv
  <1>1. CASE UNCHANGED <<pc, call, context, limitVars>>
    BY <1>1 DEF Stays, limitVars
  <1>2. ASSUME NEW r \in Requests, Elsewhere(r) /\ ~Rests(r)
        PROVE  \A q \in Requests : Rests(q) => Stays(q)
    BY <1>2 DEF Elsewhere
  <1>3. ASSUME NEW r \in Requests, MemoryNode(r)
        PROVE  \A q \in Requests : Rests(q) => Stays(q)
    BY <1>1, <1>3 DEF MemoryNode, storeVars
  <1>4. ASSUME NEW r \in Requests, Disconnect(r)
        PROVE  \A q \in Requests : Rests(q) => Stays(q)
    <2>1. CASE Ends(r, "cancelled") /\ CancelRun(r) /\ Working(r)
      BY <1>2, <1>4, <2>1, EndsElsewhere DEF Disconnect, Working, Rests
    <2>2. CASE UNCHANGED <<pc, limitVars, storeVars>> /\ pc[r] = "audit"
      BY <1>1, <1>4, <2>2 DEF Disconnect, storeVars
    <2> QED
      BY <1>4, <2>1, <2>2 DEF Disconnect
  <1>5. ASSUME NEW c \in Pops, Pop(c)
        PROVE  \A q \in Requests : Stays(q)
    <2>1. c \in Callers /\ c \notin Requests /\ UNCHANGED <<pc, context, limitVars>>
      BY <1>5, RequestsAssumption DEF Pop
    <2>2. StoreStep(c) => Moves(c)
      BY <1>0, <2>1, StoreStepMoves
    <2>3. \A q \in Requests : call'[q].at = call[q].at
      BY <1>0, <1>5, <2>1, <2>2 DEF Pop, Begin, Moves, StoreInv
    <2> QED
      BY <2>1, <2>3 DEF Stays, limitVars
  <1>6. CASE StoresForget
    <2>1. PICK t \in Volatile : RedisForgets(t) \/ MemoryExpires(t)
      BY <1>6 DEF StoresForget, Expiry
    <2>2. ASSUME NEW q \in Requests
          PROVE  call'[q].at = call[q].at
      <3>1. call[q] \in Call
        BY <1>0 DEF StoreInv
      <3>2. [call[q] EXCEPT !.dirty = TRUE].at = call[q].at
        BY <3>1 DEF Call
      <3> QED
        BY <1>0, <2>1, <3>2 DEF RedisForgets, MemoryExpires
    <2> QED
      BY <1>6, <2>2 DEF StoresForget, Stays, limitVars
  <1>7. CASE UNCHANGED vars
    BY <1>1, <1>7 DEF vars, storeVars
  <1>8. CASE MemoryStep /\ UNCHANGED <<pc, counted, run, context, outcome, limitVars, used, storeVars>>
    BY <1>1, <1>8 DEF storeVars
  <1> QED
    BY <1>2, <1>3, <1>4, <1>5, <1>6, <1>7, <1>8, HandlerElsewhere DEF Next, Step

LEMMA SleepersSleep ==
    ASSUME StoreInv, SlotInv, PlaceInv, RunInv, ContextInv, [Next]_vars, NEW q \in Requests, Asleep(q)
    PROVE  Asleep(q)'
  <1>0. redis \in [Threads -> Seq(Requests)] /\ memory \in [Threads -> Seq(Requests)]
    BY RequestsAssumption DEF StoreInv
  <1>1. Rests(q) /\ Saved(q)
    BY DEF Asleep, Rests, Saved
  <1>2. /\ pc'[q] = pc[q] /\ call'[q].at = call[q].at /\ context'[q] = context[q]
        /\ slot[q] = "out" => slot'[q] = "out"
    BY <1>1, NextElsewhere DEF Stays
  <1>3. Turns(redis, redis') /\ Turns(memory, memory')
    BY NextTurns DEF TurnsStep
  <1>4. ASSUME NEW t \in Threads
        PROVE  ~Within(q, redis'[t]) /\ ~Within(q, memory'[t])
    BY <1>0, <1>1, <1>3, TurnsHold DEF Asleep
  <1>5. Rests(q)' /\ (context[q] = <<>>)'
    BY <1>1, <1>2 DEF Asleep, Rests
  <1> QED
    BY <1>4, <1>5 DEF Asleep, Within

-----------------------------------------------------------------------------
(***************************************************************************)
(* The page.  A turn that was taken back never comes back to its thread,   *)
(* and a pop that removed a turn removed one that the page had asked.      *)
(***************************************************************************)

Taken(u) == Saved(u) /\ ~Within(u, redis[ThreadOf[u]]) /\ ~Within(u, memory[ThreadOf[u]])

(* u was asked in a thread the page has left.                              *)
Left(u) == \E i \in 1..(thread - 1) : ThreadOf[u] = PageThreads[i]

AsksAs(u, c) == ThreadOf[u] = ThreadOf[c] /\ QuestionOf[u] = QuestionOf[c]

OpenInv ==
    /\ \A r \in Requests \ asked : Asleep(r)
    /\ \A u \in asked : \E i \in 1..thread : ThreadOf[u] = PageThreads[i]
    /\ faults = 0 =>
         /\ \A c \in Pops : call[c].removed => \E u \in asked : AsksAs(u, c) /\ Taken(u)
         /\ \A u \in gone \ kept : Taken(u) \/ Left(u)
         /\ \A r \in PageAsks : \A u \in without[r] \ kept : Taken(u) \/ ThreadOf[u] # ThreadOf[r]
         /\ \A r \in PageAsks : \A i \in DOMAIN context[r] :
                 context[r][i] \in without[r] => context[r][i] \in kept /\ ThreadOf[context[r][i]] = ThreadOf[r]

BookInv ==
    /\ page \in {"closed", "ready", "streaming", "popping"}
    /\ thread \in DOMAIN PageThreads
    /\ asked \subseteq PageAsks /\ gone \subseteq asked /\ kept \subseteq gone
    /\ without \in [PageAsks -> SUBSET asked]
    /\ page = "streaming" => current \in PageAsks
    /\ page = "popping" => current \in PagePops
    /\ page = "closed" => asked = {}
    /\ page # "closed" => OpenInv

LEMMA TakenStays ==
    ASSUME StoreInv, TurnsStep, NEW u \in Requests, Taken(u)
    PROVE  Taken(u)'
  <1>1. /\ redis \in [Threads -> Seq(Requests)] /\ memory \in [Threads -> Seq(Requests)]
        /\ ThreadOf[u] \in Threads
    BY RequestsAssumption, CallersAssumption DEF StoreInv
  <1>2. PICK t \in Threads : t = ThreadOf[u]
    BY <1>1
  <1>3. Saved(u) /\ ~Within(u, redis[t]) /\ ~Within(u, memory[t])
    BY <1>2 DEF Taken
  <1>4. Turns(redis, redis') /\ Turns(memory, memory')
    BY DEF TurnsStep
  <1>5. ~Within(u, redis'[t]) /\ ~Within(u, memory'[t])
    BY <1>1, <1>3, <1>4, TurnsHold
  <1>6. Saved(u)'
    BY <1>3 DEF TurnsStep
  <1> QED
    BY <1>2, <1>5, <1>6 DEF Taken, Within

(* A pop takes back one turn, and it is gone from both stores.             *)
LEMMA TakesTakes ==
    ASSUME StoreInv, TurnsInv, TurnsStep, faults = 0, NEW c \in Pops, Takes(c)
    PROVE  \E u \in Requests : AsksAs(u, c) /\ ~Asleep(u) /\ Taken(u)'
  <1>0. /\ redis \in [Threads -> Seq(Requests)] /\ memory \in [Threads -> Seq(Requests)]
        /\ ThreadOf[c] \in Threads /\ c \notin Saves
    BY RequestsAssumption, CallersAssumption DEF StoreInv
  <1>1. PICK t \in Threads : t = ThreadOf[c]
    BY <1>0
  <1>2. ASSUME NEW old \in [Threads -> Seq(Requests)], NEW new, TakesFrom(c, old, new), Once(old[t]),
               Homely(old)
        PROVE  \E u \in Requests : AsksAs(u, c) /\ Within(u, old[t]) /\ ~Within(u, new[t])
    <2>1. /\ old[t] \in Seq(Requests) /\ old[t] # <<>> /\ new[t] = Updated(c, old[t])
          /\ QuestionOf[old[t][Len(old[t])]] = QuestionOf[c]
      BY <1>1, <1>2 DEF TakesFrom, Matches
    <2>2. PICK u : u = old[t][Len(old[t])]
      OBVIOUS
    <2>3. u \in Requests /\ Within(u, old[t]) /\ ~Within(u, Updated(c, old[t]))
      BY <1>0, <1>2, <2>1, <2>2, TakenBackIsGone
    <2>4. ThreadOf[u] = t
      BY <1>2, <2>3 DEF Homely, Within
    <2> QED
      BY <1>1, <2>1, <2>2, <2>3, <2>4 DEF AsksAs
  <1>3. /\ Once(redis[t]) /\ Once(memory[t]) /\ Homely(redis) /\ Homely(memory)
        /\ \A u \in Requests : ~(Within(u, redis[t]) /\ Within(u, memory[t]))
        /\ \A u \in Requests : Within(u, redis[t]) \/ Within(u, memory[t]) => Saved(u)
    BY DEF TurnsInv, Apart
  <1>4. PICK u \in Requests : /\ AsksAs(u, c)
                              /\ \/ Within(u, redis[t]) /\ ~Within(u, redis'[t]) /\ UNCHANGED memory
                                 \/ Within(u, memory[t]) /\ ~Within(u, memory'[t]) /\ UNCHANGED redis
    BY <1>0, <1>2, <1>3 DEF Takes
  <1>5. ~Within(u, redis'[t]) /\ ~Within(u, memory'[t])
    BY <1>3, <1>4
  <1>6. Saved(u)'
    BY <1>3, <1>4 DEF TurnsStep
  <1>7. ~Asleep(u)
    BY <1>4 DEF Asleep
  <1>8. ThreadOf[u] = t
    BY <1>1, <1>4 DEF AsksAs
  <1> QED
    BY <1>4, <1>5, <1>6, <1>7, <1>8 DEF Taken, Within

(* Where the context of a request comes from, so long as Redis answers.    *)
LEMMA ContextComes ==
    ASSUME SlotInv, ContextInv, [Next]_vars, NEW r \in Requests, faults' = 0
    PROVE  context'[r] = context[r] \/ context'[r] = redis[ThreadOf[r]]
  <1>1. CASE UNCHANGED context
    BY <1>1
  <1>2. ASSUME NEW q \in Requests, LoadHistory(q)
        PROVE  context'[r] = context[r] \/ context'[r] = redis[ThreadOf[r]]
    <2>1. PICK history : Get(q, history) /\ context' = [context EXCEPT ![q] = history]
      BY <1>2 DEF LoadHistory
    <2>2. ~Fault(q)
      BY DEF Fault, ContextInv
    <2>3. history = redis[ThreadOf[q]]
      BY <2>1, <2>2 DEF Get
    <2> QED
      BY <2>1, <2>3 DEF ContextInv
  <1>3. ASSUME NEW q \in Requests, Handler(q)
        PROVE  LoadHistory(q) \/ UNCHANGED context
    BY <1>3 DEF Handler, Authenticate, AcquireSlot, Resume, GiveUpQueue, Deny, Node, SaveSession,
                Succeed, BreakOff, TestEnds, WriteAudit
  <1> QED
    BY <1>1, <1>2, <1>3 DEF Next, Step, MemoryNode, Disconnect, Pop, StoresForget, vars

LEMMA NextKeepsPage ==
    ASSUME StoreInv, SlotInv, PlaceInv, RunInv, ContextInv, TurnsInv, BookInv, [Next]_vars,
           UNCHANGED <<page, thread, current, asked, gone, kept, without>>
    PROVE  BookInv'
  <1>0. TurnsStep /\ Removals
    BY NextTurns
  <1>1. asked \subseteq Requests /\ gone \subseteq Requests /\ PageAsks \subseteq Requests
        /\ \A r \in PageAsks : without[r] \subseteq Requests
    BY PageAssumption DEF BookInv
  <1>2. ASSUME page # "closed"
        PROVE  OpenInv'
    <2>0. OpenInv
      BY <1>2 DEF BookInv
    <2>1. \A r \in Requests \ asked : Asleep(r)'
      BY <2>0, SleepersSleep DEF OpenInv
    <2>2. \A u \in asked : \E i \in 1..thread : ThreadOf[u] = PageThreads[i]
      BY <2>0 DEF OpenInv
    <2>3. ASSUME faults' = 0
          PROVE  /\ \A c \in Pops : call'[c].removed => \E u \in asked : AsksAs(u, c) /\ Taken(u)'
                 /\ \A u \in gone \ kept : Taken(u)' \/ Left(u)
                 /\ \A r \in PageAsks : \A u \in without[r] \ kept : Taken(u)' \/ ThreadOf[u] # ThreadOf[r]
                 /\ \A r \in PageAsks : \A i \in DOMAIN context'[r] :
                         context'[r][i] \in without[r] => context'[r][i] \in kept /\ ThreadOf[context'[r][i]] = ThreadOf[r]
      <3>0. /\ faults = 0
            /\ \A c \in Pops : call[c].removed => \E u \in asked : AsksAs(u, c) /\ Taken(u)
            /\ \A u \in gone \ kept : Taken(u) \/ Left(u)
            /\ \A r \in PageAsks : \A u \in without[r] \ kept : Taken(u) \/ ThreadOf[u] # ThreadOf[r]
            /\ \A r \in PageAsks : \A i \in DOMAIN context[r] :
                    context[r][i] \in without[r] => context[r][i] \in kept /\ ThreadOf[context[r][i]] = ThreadOf[r]
        BY <1>0, <2>0, <2>3 DEF TurnsStep, OpenInv
      <3>1. \A u \in Requests : Taken(u) => Taken(u)'
        BY <1>0, TakenStays
      <3>2. ASSUME NEW c \in Pops, call'[c].removed
            PROVE  \E u \in asked : AsksAs(u, c) /\ Taken(u)'
        <4>1. CASE call[c].removed
          BY <1>1, <3>0, <3>1, <4>1
        <4>2. CASE Takes(c)
          <5>1. PICK u \in Requests : AsksAs(u, c) /\ ~Asleep(u) /\ Taken(u)'
            BY <1>0, <3>0, <4>2, TakesTakes
          <5>2. u \in asked
            BY <2>0, <5>1 DEF OpenInv
          <5> QED
            BY <5>1, <5>2
        <4> QED
          BY <1>0, <2>3, <3>2, <4>1, <4>2 DEF Removals
      <3>3. \A u \in gone \ kept : Taken(u)' \/ Left(u)
        BY <1>1, <3>0, <3>1
      <3>4. \A r \in PageAsks : \A u \in without[r] \ kept : Taken(u)' \/ ThreadOf[u] # ThreadOf[r]
        BY <1>1, <3>0, <3>1
      <3>5. ASSUME NEW r \in PageAsks, NEW i \in DOMAIN context'[r]
            PROVE  context'[r][i] \in without[r] => context'[r][i] \in kept /\ ThreadOf[context'[r][i]] = ThreadOf[r]
        <4>1. CASE context'[r] = context[r]
          BY <3>0, <3>5, <4>1
        <4>2. CASE context'[r] = redis[ThreadOf[r]]
          <5>1. PICK u : u = context'[r][i]
            OBVIOUS
          <5>2. ThreadOf[r] \in Threads /\ Within(u, redis[ThreadOf[r]])
            BY <1>1, <3>5, <4>2, <5>1, CallersAssumption, RequestsAssumption DEF Within
          <5>3. ThreadOf[u] = ThreadOf[r]
            BY <5>2 DEF TurnsInv, Homely, Within
          <5>4. ~Taken(u)
            BY <5>2, <5>3 DEF Taken
          <5> QED
            BY <3>0, <5>1, <5>3, <5>4
        <4> QED
          BY <1>1, <2>3, <4>1, <4>2, ContextComes
      <3> QED
        BY <3>2, <3>3, <3>4, <3>5
    <2>4. \A r \in Requests \ asked' : Asleep(r)'
      BY <2>1
    <2>5. (faults = 0 =>
             /\ \A c \in Pops : call[c].removed => \E u \in asked : AsksAs(u, c) /\ Taken(u)
             /\ \A u \in gone \ kept : Taken(u) \/ Left(u)
             /\ \A r \in PageAsks : \A u \in without[r] \ kept : Taken(u) \/ ThreadOf[u] # ThreadOf[r]
             /\ \A r \in PageAsks : \A i \in DOMAIN context[r] :
                     context[r][i] \in without[r] => context[r][i] \in kept /\ ThreadOf[context[r][i]] = ThreadOf[r])'
      BY <2>3 DEF AsksAs, Taken, Left, Saved, Working, Within
    <2> QED
      BY <2>2, <2>4, <2>5 DEF OpenInv, Asleep, Rests, Within
  <1> QED
    BY <1>2 DEF BookInv

-----------------------------------------------------------------------------

ServerInv == StoreInv /\ SlotInv /\ PlaceInv /\ RunInv /\ ContextInv /\ TurnsInv

LEMMA InitServer ==
    ASSUME Init
    PROVE  ServerInv
  BY InitStore, InitSlots, InitContext, InitRuns, InitTurns DEF ServerInv

LEMMA NextKeepsServer ==
    ASSUME ServerInv, [Next]_vars
    PROVE  ServerInv'
  <1>1. StoreInv'
    BY NextSteps, StepsKeepInv DEF ServerInv
  <1>2. SlotInv' /\ PlaceInv' /\ RunInv' /\ ContextInv'
    BY <1>1, NextKeepsSlots, NextKeepsPlaces, NextKeepsRuns, NextKeepsContext DEF ServerInv
  <1>3. TurnsInv'
    BY <1>1, NextTurns, TurnsKept DEF ServerInv
  <1> QED
    BY <1>1, <1>2, <1>3 DEF ServerInv

(* A call that is over begins anew, and with it a request that has not     *)
(* come before.                                                            *)
LEMMA RecallKeepsStore ==
    ASSUME StoreInv, NEW c \in Callers, call' = [call EXCEPT ![c] = Idle], UNCHANGED <<redis, memory>>
    PROVE  StoreInv'
  <1>1. Idle \in Call /\ Idle.at = "idle"
    BY IdleIsACall DEF Idle
  <1>2. PICK next : next = Idle
    OBVIOUS
  <1>3. RedisSteps /\ CallsKeepUp
    BY <1>1, <1>2, CallMoves
  <1> QED
    BY <1>3, MemoryKeeps, StepsKeepInv

LEMMA AskKeepsServer ==
    ASSUME ServerInv, NEW r \in Requests, Asleep(r),
           pc' = [pc EXCEPT ![r] = "new"], call' = [call EXCEPT ![r] = Idle],
           UNCHANGED <<run, context, limitVars, redis, memory, faults>>
    PROVE  ServerInv'
  <1>0. /\ StoreInv /\ SlotInv /\ PlaceInv /\ RunInv /\ ContextInv /\ TurnsInv
        /\ pc[r] = "done" /\ slot[r] = "out" /\ call[r].at = "done"
        /\ DOMAIN pc = Requests /\ DOMAIN call = Callers /\ r \in Callers
        /\ \A q \in Requests : q \in Callers
        /\ redis \in [Threads -> Seq(Requests)]
    BY RequestsAssumption DEF ServerInv, Asleep, Rests, SlotInv, StoreInv
  <1>1. /\ pc'[r] = "new" /\ call'[r] = Idle /\ Idle.at = "idle"
        /\ \A q \in Requests \ {r} : pc'[q] = pc[q] /\ call'[q] = call[q]
    BY <1>0 DEF Idle
  <1>2. StoreInv'
    BY <1>0, RecallKeepsStore
  <1>3. SlotInv'
    <2>1. Waiters(queue)' /\ SlotsAreConserved'
      BY <1>0 DEF SlotInv, Waiters, SlotsAreConserved, Has, limitVars
    <2> QED
      BY <1>0, <1>1, <2>1 DEF SlotInv, limitVars
  <1>4. PlaceInv'
    BY <1>0, <1>1 DEF PlaceInv, limitVars
  <1>5. RunInv'
    BY <1>0 DEF RunInv
  <1>6. /\ \A q \in Requests \ {r} : (Saved(q) <=> Saved(q)') /\ (Saving(q) <=> Saving(q)')
        /\ \A q \in Requests : Loaded(q)' => Loaded(q)
    BY <1>1 DEF Saved, Saving, Loaded, Working
  <1>7. \A t \in Threads : ~Within(r, redis[t]) /\ ~Within(r, memory[t])
    BY DEF Asleep
  <1>8. ContextInv'
    <2>1. \A q \in Requests : call'[q].at \in {"watch", "exec"} => Saving(q)'
      BY <1>0, <1>1, <1>6 DEF ContextInv
    <2>2. ASSUME NEW t \in Threads, NEW i \in DOMAIN redis[t], NEW x \in Requests, x = redis[t][i]
          PROVE  Saved(x)'
      <3>1. x # r /\ Saved(x)
        BY <1>0, <1>7, <2>2 DEF Within, ContextInv
      <3> QED
        BY <1>6, <3>1
    <2>3. (\A t \in Threads : \A i \in DOMAIN redis[t] : Saved(redis[t][i]))'
      <3>1. \A t \in Threads : \A i \in DOMAIN redis[t] : redis[t][i] \in Requests
        BY <1>0
      <3> QED
        BY <2>2, <3>1 DEF Saved, Working
    <2>4. (\A q \in Requests : call[q].at \in {"watch", "exec"} => Saving(q))'
      BY <2>1 DEF Saving, Working
    <2>5. (MaxInflight = 1 /\ faults = 0 =>
             /\ \A q \in Requests : Loaded(q) => Known(q, redis[ThreadOf[q]])
             /\ \A t \in Threads : Chained(redis[t]))'
      BY <1>0, <1>6 DEF ContextInv, Known, Chained, InContext
    <2> QED
      BY <1>0, <2>3, <2>4, <2>5 DEF ContextInv
  <1>9. TurnsInv'
    <2>1. ASSUME NEW t \in Threads, NEW u \in Requests, Within(u, redis[t]) \/ Within(u, memory[t])
          PROVE  Saved(u)'
      BY <1>0, <1>6, <1>7, <2>1 DEF TurnsInv
    <2>2. (\A t \in Threads : \A u \in Requests : Within(u, redis[t]) \/ Within(u, memory[t]) => Saved(u))'
      BY <2>1 DEF Within, Saved, Working
    <2> QED
      BY <1>0, <2>2 DEF TurnsInv, Homely, Once, Apart, Within
  <1> QED
    BY <1>2, <1>3, <1>4, <1>5, <1>8, <1>9 DEF ServerInv

LEMMA RegenerateKeepsServer ==
    ASSUME ServerInv, NEW c \in Pops, call' = [call EXCEPT ![c] = Idle],
           UNCHANGED <<pc, run, context, limitVars, redis, memory, faults>>
    PROVE  ServerInv'
  <1>0. /\ StoreInv /\ SlotInv /\ PlaceInv /\ RunInv /\ ContextInv /\ TurnsInv
        /\ DOMAIN call = Callers /\ c \in Callers /\ c \notin Requests
        /\ \A q \in Requests : q \in Callers
    BY RequestsAssumption DEF ServerInv, StoreInv
  <1>1. \A q \in Requests : call'[q] = call[q]
    BY <1>0
  <1>2. StoreInv'
    BY <1>0, RecallKeepsStore
  <1>3. SlotInv'
    BY <1>0 DEF SlotInv, Waiters, SlotsAreConserved, Has, limitVars
  <1>4. PlaceInv' /\ RunInv'
    BY <1>0 DEF PlaceInv, RunInv, limitVars
  <1>5. \A q \in Requests : (Saved(q) <=> Saved(q)') /\ (Saving(q) <=> Saving(q)') /\ (Loaded(q) <=> Loaded(q)')
    BY <1>1 DEF Saved, Saving, Loaded, Working
  <1>6. Progress /\ Lists
    BY <1>0, <1>1, <1>5 DEF Progress, Lists, ContextInv
  <1>7. ContextInv'
    BY <1>0, <1>2, <1>6, ProgressKeepsContext
  <1>8. TurnsStep
    BY <1>5 DEF TurnsStep, Turns, Shrinks
  <1>9. TurnsInv'
    BY <1>0, <1>2, <1>8, TurnsKept
  <1> QED
    BY <1>2, <1>3, <1>4, <1>7, <1>9 DEF ServerInv

-----------------------------------------------------------------------------
(***************************************************************************)
(* What the page shows is of turns it has asked.                           *)
(***************************************************************************)

Kinds == {"question", "answer", "failure", "local"}

Shown ==
    /\ messages \in Seq([turn : asked, is : Kinds])
    /\ page = "streaming" => current \in asked

LEMMA RemoveAtIsASequence ==
    ASSUME NEW S, NEW seq \in Seq(S), NEW i \in 1..Len(seq)
    PROVE  RemoveAt(seq, i) \in Seq(S) /\ Len(RemoveAt(seq, i)) = Len(seq) - 1
  <1>1. Len(seq) \in Nat /\ i \in Nat \ {0} /\ i <= Len(seq)
    OBVIOUS
  <1>2. PICK a, b : a = SubSeq(seq, 1, i - 1) /\ b = SubSeq(seq, i + 1, Len(seq))
    OBVIOUS
  <1>3. a \in Seq(S) /\ Len(a) = i - 1
    <2>1. \A j \in 1..(i - 1) : seq[j] \in S
      BY <1>1
    <2>2. a \in Seq(S) /\ Len(a) = IF 1 <= i - 1 THEN i - 1 - 1 + 1 ELSE 0
      BY <1>1, <1>2, <2>1, SubSeqProperties
    <2> QED
      BY <1>1, <2>2
  <1>4. b \in Seq(S) /\ Len(b) = Len(seq) - i
    <2>1. \A j \in (i + 1)..Len(seq) : seq[j] \in S
      BY <1>1
    <2>2. b \in Seq(S) /\ Len(b) = IF i + 1 <= Len(seq) THEN Len(seq) - (i + 1) + 1 ELSE 0
      BY <1>1, <1>2, <2>1, SubSeqProperties
    <2> QED
      BY <1>1, <2>2
  <1>5. RemoveAt(seq, i) = a \o b
    BY <1>2 DEF RemoveAt
  <1>6. a \o b \in Seq(S) /\ Len(a \o b) = Len(a) + Len(b)
    BY <1>3, <1>4
  <1> QED
    BY <1>1, <1>3, <1>4, <1>5, <1>6

LEMMA ItemsAreIn ==
    ASSUME NEW S, NEW seq \in Seq(S), NEW i \in DOMAIN seq
    PROVE  seq[i] \in S
  OBVIOUS

LEMMA SequencesGrow ==
    ASSUME NEW S, NEW T, S \subseteq T, NEW seq \in Seq(S)
    PROVE  seq \in Seq(T)
  <1>1. \A i \in 1..Len(seq) : seq[i] \in T
    OBVIOUS
  <1> QED
    BY <1>1

LEMMA MoreToShow ==
    ASSUME NEW S, NEW T, S \subseteq T, NEW seq \in Seq([turn : S, is : Kinds])
    PROVE  seq \in Seq([turn : T, is : Kinds])
  <1>1. [turn : S, is : Kinds] \subseteq [turn : T, is : Kinds]
    OBVIOUS
  <1> QED
    BY <1>1, SequencesGrow

LEMMA WhatIsSaid ==
    ASSUME NEW S, NEW r \in S, NEW what \in Kinds
    PROVE  Says(r, what) \in [turn : S, is : Kinds]
  BY DEF Says

LEMMA TheAnswerGoes ==
    ASSUME NEW S, messages \in Seq(S), NEW i \in DOMAIN messages, Replace(i)
    PROVE  messages' \in Seq(S)
  <1>1. PICK one : one = RemoveAt(messages, i)
    OBVIOUS
  <1>2. Len(messages) \in Nat /\ i \in 1..Len(messages)
    OBVIOUS
  <1>3. one \in Seq(S) /\ Len(one) = Len(messages) - 1
    BY <1>1, <1>2, RemoveAtIsASequence
  <1>4. CASE i > 1 /\ messages' = RemoveAt(one, i - 1)
    <2>1. i - 1 \in 1..Len(one)
      BY <1>2, <1>3, <1>4
    <2> QED
      BY <1>3, <1>4, <2>1, RemoveAtIsASequence
  <1>5. CASE messages' = one
    BY <1>3, <1>5
  <1>6. (i > 1 /\ messages' = RemoveAt(one, i - 1)) \/ messages' = one
    BY <1>1 DEF Replace
  <1> QED
    BY <1>4, <1>5, <1>6

LEMMA PageStepKeepsShown ==
    ASSUME Shown, PageStep
    PROVE  Shown'
  <1> DEFINE S == [turn : asked, is : Kinds]
  <1>0. messages \in Seq(S) /\ {"question", "answer", "failure", "local"} \subseteq Kinds
    BY DEF Shown, Kinds
  <1>1. ASSUME asked' = asked, messages' \in Seq(S), page' # "streaming"
        PROVE  Shown'
    BY <1>1 DEF Shown
  <1>2. ASSUME NEW r \in PageAsks, TakesTheQuestion(r)
        PROVE  /\ messages \in Seq([turn : asked', is : Kinds]) /\ r \in asked'
               /\ Says(r, "question") \in [turn : asked', is : Kinds]
               /\ Says(r, "local") \in [turn : asked', is : Kinds]
    <2>1. asked \subseteq asked' /\ r \in asked'
      BY <1>2 DEF TakesTheQuestion
    <2> QED
      BY <1>0, <2>1, MoreToShow, WhatIsSaid
  <1>3. ASSUME NEW r \in PageAsks, Ask(r)
        PROVE  Shown'
    <2>1. /\ messages \in Seq([turn : asked', is : Kinds]) /\ r \in asked'
          /\ Says(r, "question") \in [turn : asked', is : Kinds]
      BY <1>2, <1>3 DEF Ask
    <2>2. messages' = Append(messages, Says(r, "question")) /\ current' = r
      BY <1>3 DEF Ask
    <2>3. messages' \in Seq([turn : asked', is : Kinds])
      BY <2>1, <2>2
    <2> QED
      BY <2>1, <2>2, <2>3 DEF Shown
  <1>4. ASSUME NEW r \in PageAsks, AnswerLocally(r)
        PROVE  Shown'
    <2>1. PICK a, b : a = Says(r, "question") /\ b = Says(r, "local")
      OBVIOUS
    <2>2. /\ messages \in Seq([turn : asked', is : Kinds])
          /\ a \in [turn : asked', is : Kinds] /\ b \in [turn : asked', is : Kinds]
      BY <1>2, <1>4, <2>1 DEF AnswerLocally
    <2>3. messages' = messages \o <<a, b>> /\ page' = "ready"
      BY <1>4, <2>1 DEF AnswerLocally, TakesTheQuestion, MayAsk
    <2>4. <<a, b>> \in Seq([turn : asked', is : Kinds])
      BY <2>2
    <2>5. messages' \in Seq([turn : asked', is : Kinds])
      BY <2>2, <2>3, <2>4
    <2> QED
      BY <2>3, <2>5 DEF Shown
  <1>5. ASSUME NEW r \in PageAsks, Show(r)
        PROVE  Shown'
    <2>1. r \in asked /\ asked' = asked /\ page' = "ready"
      BY <1>5 DEF Show, Shown
    <2>2. Says(r, "answer") \in S /\ Says(r, "failure") \in S
      BY <1>0, <2>1, WhatIsSaid
    <2>3. messages' \in {messages, Append(messages, Says(r, "answer")), Append(messages, Says(r, "failure"))}
      BY <1>5 DEF Show
    <2> HIDE DEF S
    <2>4. messages' \in Seq(S)
      BY <1>0, <2>2, <2>3
    <2> QED
      BY <1>1, <2>1, <2>4
  <1>6. CASE StreamBreaks
    <2>1. /\ current \in asked /\ asked' = asked /\ page' = "ready"
          /\ messages' = Append(messages, Says(current, "failure"))
      BY <1>6 DEF StreamBreaks, Shown
    <2>2. Says(current, "failure") \in S
      BY <1>0, <2>1, WhatIsSaid
    <2> HIDE DEF S
    <2>3. messages' \in Seq(S)
      BY <1>0, <2>1, <2>2
    <2> QED
      BY <1>1, <2>1, <2>3
  <1>7. CASE Interrupt
    <2>1. asked' = asked /\ messages' = messages /\ page' = "ready"
      BY <1>7 DEF Interrupt
    <2> QED
      BY <1>0, <1>1, <2>1
  <1>8. CASE Clear
    <2>1. asked' = asked /\ messages' = <<>> /\ page' = "ready"
      BY <1>8 DEF Clear
    <2>2. messages' \in Seq(S)
      BY <2>1
    <2> QED
      BY <1>1, <2>1, <2>2
  <1>9. ASSUME NEW i \in DOMAIN messages, Rate(i)
        PROVE  Shown'
    <2>1. asked' = asked /\ messages' = messages /\ page' = "ready"
      BY <1>9 DEF Rate
    <2> QED
      BY <1>0, <1>1, <2>1
  <1>10. ASSUME NEW i \in DOMAIN messages, Replace(i)
        PROVE  Shown'
    <2>1. asked' = asked /\ page' = "ready"
      BY <1>10 DEF Replace
    <2> HIDE DEF S
    <2>2. messages' \in Seq(S)
      BY <1>0, <1>10, TheAnswerGoes
    <2> QED
      BY <1>1, <2>1, <2>2
  <1>11. ASSUME NEW i \in DOMAIN messages, NEW c \in PagePops, Regenerate(i, c)
        PROVE  Shown'
    <2>1. asked' = asked /\ messages' = messages /\ page' = "popping"
      BY <1>11 DEF Regenerate
    <2> QED
      BY <1>0, <1>1, <2>1
  <1> QED
    BY <1>3, <1>4, <1>5, <1>6, <1>7, <1>8, <1>9, <1>10, <1>11 DEF PageStep

-----------------------------------------------------------------------------

(* What the page does without the backend.                                 *)
LEMMA PageAlone ==
    ASSUME BookInv, page # "closed", UNCHANGED <<vars, without>>,
           page' \in {"ready", "streaming", "popping"},
           thread' \in DOMAIN PageThreads, thread' >= thread,
           asked \subseteq asked', asked' \subseteq PageAsks, gone' \subseteq asked',
           kept \subseteq kept', kept' \subseteq gone',
           page' = "streaming" => current' \in PageAsks,
           page' = "popping" => current' \in PagePops,
           \A u \in asked' \ asked : ThreadOf[u] = PageThreads[thread],
           faults = 0 => \A u \in gone' \ (gone \cup kept') :
               Taken(u) \/ \E i \in 1..(thread' - 1) : ThreadOf[u] = PageThreads[i]
    PROVE  BookInv'
  <1>0. /\ OpenInv /\ asked \subseteq PageAsks /\ PageAsks \subseteq Requests
        /\ thread \in Nat \ {0} /\ thread' \in Nat \ {0}
        /\ UNCHANGED <<pc, call, slot, context, redis, memory, run, faults>>
    BY PageAssumption DEF BookInv, vars, limitVars, storeVars
  <1>1. 1..thread \subseteq 1..thread' /\ 1..(thread - 1) \subseteq 1..(thread' - 1) /\ thread \in 1..thread'
    BY <1>0
  <1>2. \A r \in Requests \ asked' : Asleep(r)'
    BY <1>0 DEF OpenInv, Asleep, Rests, Within
  <1>3. \A u \in asked' : \E i \in 1..thread' : ThreadOf[u] = PageThreads[i]
    BY <1>0, <1>1 DEF OpenInv
  <1>4. \A u \in Requests : Taken(u) => Taken(u)'
    BY <1>0 DEF Taken, Saved, Working, Within
  <1>5. ASSUME faults' = 0
        PROVE  /\ \A c \in Pops : call'[c].removed => \E u \in asked' : AsksAs(u, c) /\ Taken(u)'
               /\ \A u \in gone' \ kept' : Taken(u)' \/ Left(u)'
               /\ \A r \in PageAsks : \A u \in without'[r] \ kept' : Taken(u)' \/ ThreadOf[u] # ThreadOf[r]
               /\ \A r \in PageAsks : \A i \in DOMAIN context'[r] :
                       context'[r][i] \in without'[r] => context'[r][i] \in kept' /\ ThreadOf[context'[r][i]] = ThreadOf[r]
    <2>1. /\ \A c \in Pops : call[c].removed => \E u \in asked : AsksAs(u, c) /\ Taken(u)
          /\ \A u \in gone \ kept : Taken(u) \/ Left(u)
          /\ \A r \in PageAsks : \A u \in without[r] \ kept : Taken(u) \/ ThreadOf[u] # ThreadOf[r]
          /\ \A r \in PageAsks : \A i \in DOMAIN context[r] :
                  context[r][i] \in without[r] => context[r][i] \in kept /\ ThreadOf[context[r][i]] = ThreadOf[r]
      BY <1>0, <1>5 DEF OpenInv
    <2>2. \A u \in gone \ kept : Taken(u) \/ \E i \in 1..(thread' - 1) : ThreadOf[u] = PageThreads[i]
      BY <1>1, <2>1 DEF Left
    <2>3. \A u \in gone' \ kept' : Taken(u) \/ \E i \in 1..(thread' - 1) : ThreadOf[u] = PageThreads[i]
      BY <1>0, <1>5, <2>2
    <2>4. \A u \in gone' \ kept' : Taken(u)' \/ Left(u)'
      BY <1>0, <1>4, <2>3 DEF Left
    <2>5. \A r \in PageAsks : \A u \in without[r] : u \in Requests
      BY <1>0 DEF BookInv
    <2> QED
      BY <1>0, <1>4, <2>1, <2>4, <2>5
  <1>6. (faults = 0 =>
           /\ \A c \in Pops : call[c].removed => \E u \in asked : AsksAs(u, c) /\ Taken(u)
           /\ \A u \in gone \ kept : Taken(u) \/ Left(u)
           /\ \A r \in PageAsks : \A u \in without[r] \ kept : Taken(u) \/ ThreadOf[u] # ThreadOf[r]
           /\ \A r \in PageAsks : \A i \in DOMAIN context[r] :
                   context[r][i] \in without[r] => context[r][i] \in kept /\ ThreadOf[context[r][i]] = ThreadOf[r])'
    BY <1>5 DEF AsksAs, Taken, Left, Saved, Working, Within
  <1>7. OpenInv'
    BY <1>2, <1>3, <1>6 DEF OpenInv, Asleep, Rests, Within
  <1>8. without' \in [PageAsks -> SUBSET asked']
    BY DEF BookInv
  <1> QED
    BY <1>7, <1>8 DEF BookInv

LEMMA AskKeepsPage ==
    ASSUME BookInv, NEW r \in PageAsks, Ask(r)
    PROVE  BookInv' /\ Asleep(r)
  <1>0. /\ page = "ready" /\ r \in PageAsks \ asked /\ ThreadOf[r] = PageThreads[thread]
        /\ OpenInv /\ asked \subseteq PageAsks /\ PageAsks \subseteq Requests /\ r \in Requests
        /\ thread \in DOMAIN PageThreads /\ thread \in Nat \ {0}
        /\ gone \subseteq asked /\ without \in [PageAsks -> SUBSET asked]
    BY PageAssumption DEF BookInv, Ask, TakesTheQuestion, MayAsk
  <1>1. /\ asked' = asked \cup {r} /\ page' = "streaming" /\ current' = r
        /\ without' = [without EXCEPT ![r] = gone]
        /\ pc' = [pc EXCEPT ![r] = "new"] /\ call' = [call EXCEPT ![r] = Idle]
        /\ UNCHANGED <<thread, gone, kept, run, context, slot, redis, memory, faults>>
    BY DEF Ask, TakesTheQuestion, limitVars
  <1>2. Asleep(r)
    BY <1>0 DEF OpenInv
  <1>3. \A q \in Requests : q \in Callers
    BY RequestsAssumption
  <1>4. /\ \A q \in Requests \ {r} : pc'[q] = pc[q]
        /\ \A q \in Callers \ {r} : call'[q] = call[q]
    BY <1>1
  <1>5. \A q \in Requests \ asked' : Asleep(q)'
    BY <1>0, <1>1, <1>3, <1>4 DEF OpenInv, Asleep, Rests, Within
  <1>6. \A u \in asked' : \E i \in 1..thread : ThreadOf[u] = PageThreads[i]
    <2>1. thread \in 1..thread
      BY <1>0
    <2> QED
      BY <1>0, <1>1, <2>1 DEF OpenInv
  <1>7. \A u \in Requests \ {r} : Taken(u) => Taken(u)'
    BY <1>1, <1>3, <1>4 DEF Taken, Saved, Working, Within
  <1>8. ASSUME faults' = 0
        PROVE  /\ \A c \in Pops : call'[c].removed => \E u \in asked' : AsksAs(u, c) /\ Taken(u)'
               /\ \A u \in gone \ kept : Taken(u)' \/ Left(u)
               /\ \A q \in PageAsks : \A u \in without'[q] \ kept : Taken(u)' \/ ThreadOf[u] # ThreadOf[q]
               /\ \A q \in PageAsks : \A i \in DOMAIN context[q] :
                       context[q][i] \in without'[q] => context[q][i] \in kept /\ ThreadOf[context[q][i]] = ThreadOf[q]
    <2>1. /\ \A c \in Pops : call[c].removed => \E u \in asked : AsksAs(u, c) /\ Taken(u)
          /\ \A u \in gone \ kept : Taken(u) \/ Left(u)
          /\ \A q \in PageAsks : \A u \in without[q] \ kept : Taken(u) \/ ThreadOf[u] # ThreadOf[q]
          /\ \A q \in PageAsks : \A i \in DOMAIN context[q] :
                  context[q][i] \in without[q] => context[q][i] \in kept /\ ThreadOf[context[q][i]] = ThreadOf[q]
      BY <1>0, <1>1, <1>8 DEF OpenInv
    <2>2. \A u \in asked : u \in Requests \ {r}
      BY <1>0
    <2>3. \A c \in Pops : c \in Callers \ {r}
      BY <1>0, RequestsAssumption
    <2>4. \A c \in Pops : call'[c].removed => \E u \in asked' : AsksAs(u, c) /\ Taken(u)'
      BY <1>1, <1>4, <1>7, <2>1, <2>2, <2>3
    <2>5. \A u \in gone \ kept : Taken(u)' \/ Left(u)
      BY <1>0, <1>7, <2>1, <2>2
    <2>6. ASSUME NEW u \in Requests, Left(u)
          PROVE  ThreadOf[u] # ThreadOf[r]
      <3>1. PICK i \in 1..(thread - 1) : ThreadOf[u] = PageThreads[i]
        BY <2>6 DEF Left
      <3>2. i \in DOMAIN PageThreads /\ i # thread
        <4>1. DOMAIN PageThreads = 1..Len(PageThreads) /\ Len(PageThreads) \in Nat
          BY PageAssumption
        <4> QED
          BY <1>0, <4>1
      <3> QED
        BY <1>0, <3>1, <3>2, PageAssumption DEF IsInjective
    <2>7. ASSUME NEW q \in PageAsks, NEW u \in without'[q] \ kept
          PROVE  Taken(u)' \/ ThreadOf[u] # ThreadOf[q]
      <3>1. CASE q = r
        <4>1. u \in gone \ kept /\ u \in Requests
          BY <1>0, <1>1, <2>7, <3>1
        <4> QED
          BY <2>5, <2>6, <3>1, <4>1
      <3>2. CASE q # r
        <4>1. u \in without[q] \ kept /\ u \in asked
          BY <1>0, <1>1, <2>7, <3>2
        <4> QED
          BY <1>7, <2>1, <2>2, <4>1
      <3> QED
        BY <3>1, <3>2
    <2>8. ASSUME NEW q \in PageAsks, NEW i \in DOMAIN context[q]
          PROVE  context[q][i] \in without'[q] => context[q][i] \in kept /\ ThreadOf[context[q][i]] = ThreadOf[q]
      <3>1. CASE q = r
        <4>1. context[q] = <<>> /\ DOMAIN <<>> = {}
          BY <1>2, <3>1 DEF Asleep
        <4> QED
          BY <2>8, <4>1
      <3>2. CASE q # r
        BY <1>0, <1>1, <2>1, <2>8, <3>2
      <3> QED
        BY <3>1, <3>2
    <2> QED
      BY <2>4, <2>5, <2>7, <2>8
  <1>9. (faults = 0 =>
           /\ \A c \in Pops : call[c].removed => \E u \in asked : AsksAs(u, c) /\ Taken(u)
           /\ \A u \in gone \ kept : Taken(u) \/ Left(u)
           /\ \A q \in PageAsks : \A u \in without[q] \ kept : Taken(u) \/ ThreadOf[u] # ThreadOf[q]
           /\ \A q \in PageAsks : \A i \in DOMAIN context[q] :
                   context[q][i] \in without[q] => context[q][i] \in kept /\ ThreadOf[context[q][i]] = ThreadOf[q])'
    BY <1>1, <1>8 DEF AsksAs, Taken, Left, Saved, Working, Within
  <1>10. OpenInv'
    BY <1>1, <1>5, <1>6, <1>9 DEF OpenInv, Asleep, Rests, Within
  <1>11. without' \in [PageAsks -> SUBSET asked']
    BY <1>0, <1>1
  <1> QED
    BY <1>0, <1>1, <1>2, <1>10, <1>11 DEF BookInv

LEMMA RegenerateKeepsPage ==
    ASSUME BookInv, NEW i, NEW c \in PagePops, Regenerate(i, c)
    PROVE  BookInv'
  <1>0. /\ page = "ready" /\ OpenInv /\ c \in Pops /\ c \notin Requests
        /\ asked \subseteq Requests /\ gone \subseteq Requests
        /\ \A r \in PageAsks : without[r] \subseteq Requests
        /\ \A q \in Requests : q \in Callers
    BY PageAssumption, RequestsAssumption DEF BookInv, Regenerate
  <1>1. /\ page' = "popping" /\ current' = c /\ call' = [call EXCEPT ![c] = Idle]
        /\ UNCHANGED <<thread, asked, gone, kept, without, pc, run, context, slot, redis, memory, faults>>
    BY DEF Regenerate, limitVars
  <1>2. /\ \A q \in Requests : call'[q] = call[q]
        /\ \A d \in Pops : call'[d].removed => call[d].removed
    BY <1>0, <1>1, RequestsAssumption DEF Idle
  <1>3. \A q \in Requests \ asked : Asleep(q)'
    BY <1>0, <1>1, <1>2 DEF OpenInv, Asleep, Rests, Within
  <1>4. \A u \in Requests : Taken(u) => Taken(u)'
    BY <1>1, <1>2 DEF Taken, Saved, Working, Within
  <1>5. ASSUME faults = 0
        PROVE  /\ \A d \in Pops : call'[d].removed => \E u \in asked : AsksAs(u, d) /\ Taken(u)'
               /\ \A u \in gone \ kept : Taken(u)' \/ Left(u)
               /\ \A r \in PageAsks : \A u \in without[r] \ kept : Taken(u)' \/ ThreadOf[u] # ThreadOf[r]
               /\ \A r \in PageAsks : \A j \in DOMAIN context[r] :
                       context[r][j] \in without[r] => context[r][j] \in kept /\ ThreadOf[context[r][j]] = ThreadOf[r]
    BY <1>0, <1>2, <1>4, <1>5 DEF OpenInv
  <1>6. (faults = 0 =>
           /\ \A d \in Pops : call[d].removed => \E u \in asked : AsksAs(u, d) /\ Taken(u)
           /\ \A u \in gone \ kept : Taken(u) \/ Left(u)
           /\ \A r \in PageAsks : \A u \in without[r] \ kept : Taken(u) \/ ThreadOf[u] # ThreadOf[r]
           /\ \A r \in PageAsks : \A j \in DOMAIN context[r] :
                   context[r][j] \in without[r] => context[r][j] \in kept /\ ThreadOf[context[r][j]] = ThreadOf[r])'
    BY <1>1, <1>5 DEF AsksAs, Taken, Left, Saved, Working, Within
  <1>7. OpenInv'
    BY <1>0, <1>1, <1>3, <1>6 DEF OpenInv, Asleep, Rests, Within
  <1> QED
    BY <1>1, <1>7 DEF BookInv

LEMMA ReplaceKeepsPage ==
    ASSUME BookInv, NEW i \in DOMAIN messages, messages[i].turn \in asked, Replace(i)
    PROVE  BookInv'
  <1>0. /\ page = "popping" /\ page' = "ready" /\ current \in Pops /\ OpenInv
        /\ UNCHANGED <<vars, thread, asked, without>> /\ thread \in Nat
        /\ gone \subseteq asked /\ kept \subseteq gone
    BY PageAssumption DEF BookInv, Replace
  <1>1. PICK u \in asked : u = messages[i].turn
    OBVIOUS
  <1>2. /\ gone' = gone \cup {u}
        /\ kept' = IF TakenBack(u, current) THEN kept ELSE kept \cup {u}
    BY <1>1 DEF Replace
  <1>3. ASSUME faults = 0, TakenBack(u, current)
        PROVE  Taken(u)
    <2>1. PICK w \in asked : AsksAs(w, current) /\ Taken(w)
      BY <1>0, <1>3 DEF OpenInv, TakenBack
    <2>2. w \in Answering(current)
      BY <2>1 DEF Answering, AsksAs
    <2> QED
      BY <1>3, <2>1, <2>2 DEF TakenBack
  <1>4. faults = 0 => \A x \in gone' \ (gone \cup kept') : Taken(x)
    BY <1>2, <1>3
  <1>5. gone' \subseteq asked /\ kept \subseteq kept' /\ kept' \subseteq gone'
    BY <1>0, <1>2
  <1> QED
    BY <1>0, <1>4, <1>5, PageAlone DEF BookInv

LEMMA PageStepKeepsBook ==
    ASSUME ServerInv, BookInv, Shown, PageStep
    PROVE  ServerInv' /\ BookInv'
  <1>0. /\ thread \in Nat /\ thread \in DOMAIN PageThreads /\ DOMAIN PageThreads = 1..Len(PageThreads)
        /\ Len(PageThreads) \in Nat
    BY PageAssumption DEF BookInv
  <1>1. ASSUME UNCHANGED vars PROVE ServerInv'
    BY <1>1, NextKeepsServer
  <1>2. ASSUME NEW r \in PageAsks, Ask(r)
        PROVE  ServerInv' /\ BookInv'
    <2>1. r \in Requests
      BY PageAssumption
    <2>2. Asleep(r) /\ BookInv'
      BY <1>2, AskKeepsPage
    <2>3. /\ pc' = [pc EXCEPT ![r] = "new"] /\ call' = [call EXCEPT ![r] = Idle]
          /\ UNCHANGED <<run, context, limitVars, redis, memory, faults>>
      BY <1>2 DEF Ask
    <2> QED
      BY <2>1, <2>2, <2>3, AskKeepsServer
  <1>3. ASSUME NEW r \in PageAsks, AnswerLocally(r)
        PROVE  ServerInv' /\ BookInv'
    <2>1. /\ page = "ready" /\ asked' = asked \cup {r} /\ ThreadOf[r] = PageThreads[thread]
          /\ UNCHANGED <<page, thread, gone, kept, without, vars>>
      BY <1>3 DEF AnswerLocally, TakesTheQuestion, MayAsk
    <2>2. /\ asked \subseteq asked' /\ asked' \subseteq PageAsks /\ gone' \subseteq asked'
          /\ kept \subseteq kept' /\ kept' \subseteq gone'
      BY <2>1 DEF BookInv
    <2> QED
      BY <1>0, <1>1, <2>1, <2>2, PageAlone
  <1>4. ASSUME NEW r \in PageAsks, Show(r)
        PROVE  ServerInv' /\ BookInv'
    <2>1. page = "streaming" /\ page' = "ready" /\ UNCHANGED <<thread, asked, gone, kept, without, vars>>
      BY <1>4 DEF Show
    <2> QED
      BY <1>0, <1>1, <2>1, PageAlone DEF BookInv
  <1>5. CASE StreamBreaks \/ Interrupt
    <2>1. /\ page \in {"streaming", "popping"} /\ page' = "ready"
          /\ UNCHANGED <<thread, asked, gone, kept, without, vars>>
      BY <1>5 DEF StreamBreaks, Interrupt
    <2> QED
      BY <1>0, <1>1, <2>1, PageAlone DEF BookInv
  <1>6. CASE Clear
    <2>1. /\ page = "ready" /\ page' = "ready" /\ thread < Len(PageThreads) /\ thread' = thread + 1
          /\ gone' = asked /\ UNCHANGED <<asked, kept, without, vars>>
      BY <1>6 DEF Clear
    <2>2. thread' \in DOMAIN PageThreads /\ thread' >= thread /\ thread' - 1 = thread
      BY <1>0, <2>1
    <2>3. \A u \in asked : \E i \in 1..(thread' - 1) : ThreadOf[u] = PageThreads[i]
      BY <2>1, <2>2 DEF BookInv, OpenInv
    <2> QED
      BY <1>1, <2>1, <2>2, <2>3, PageAlone DEF BookInv
  <1>7. ASSUME NEW i, Rate(i)
        PROVE  ServerInv' /\ BookInv'
    <2>1. page = "ready" /\ UNCHANGED <<page, thread, asked, gone, kept, without, vars>>
      BY <1>7 DEF Rate
    <2> QED
      BY <1>0, <1>1, <2>1, PageAlone DEF BookInv
  <1>8. ASSUME NEW i \in DOMAIN messages, Replace(i)
        PROVE  ServerInv' /\ BookInv'
    <2>1. messages[i] \in [turn : asked, is : Kinds]
      BY <1>8, ItemsAreIn DEF Shown
    <2>2. messages[i].turn \in asked
      BY <2>1
    <2> QED
      BY <1>1, <1>8, <2>2, ReplaceKeepsPage DEF Replace
  <1>9. ASSUME NEW i, NEW c \in PagePops, Regenerate(i, c)
        PROVE  ServerInv' /\ BookInv'
    <2>1. c \in Pops
      BY PageAssumption
    <2>2. /\ call' = [call EXCEPT ![c] = Idle]
          /\ UNCHANGED <<pc, run, context, limitVars, redis, memory, faults>>
      BY <1>9 DEF Regenerate
    <2> QED
      BY <1>9, <2>1, <2>2, RegenerateKeepsServer, RegenerateKeepsPage
  <1> QED
    BY <1>2, <1>3, <1>4, <1>5, <1>6, <1>7, <1>8, <1>9 DEF PageStep

PageInv == BookInv /\ Shown

LEMMA PageStepKeepsPage ==
    ASSUME ServerInv, PageInv, PageStep
    PROVE  ServerInv' /\ PageInv'
  <1>1. BookInv /\ Shown
    BY DEF PageInv
  <1>2. ServerInv' /\ BookInv'
    BY <1>1, PageStepKeepsBook
  <1>3. Shown'
    BY <1>1, PageStepKeepsShown
  <1> QED
    BY <1>2, <1>3 DEF PageInv

LEMMA PageNextKeepsPage ==
    ASSUME ServerInv, PageInv, [PageNext]_allVars
    PROVE  ServerInv' /\ PageInv'
  <1>1. CASE Next /\ Hear
    <2>1. UNCHANGED <<page, thread, messages, current, asked, gone, kept, without>>
      BY <1>1 DEF Hear
    <2>2. Shown'
      BY <2>1 DEF PageInv, Shown
    <2> QED
      BY <1>1, <2>1, <2>2, NextKeepsServer, NextKeepsPage DEF ServerInv, PageInv
  <1>2. CASE UNCHANGED allVars
    <2>1. Shown'
      BY <1>2 DEF PageInv, Shown, allVars, pageVars
    <2> QED
      BY <1>2, <2>1, NextKeepsServer, NextKeepsPage DEF ServerInv, PageInv, allVars, pageVars
  <1> QED
    BY <1>1, <1>2, PageStepKeepsPage DEF PageNext

LEMMA InitPage ==
    ASSUME PageInit
    PROVE  ServerInv /\ PageInv
  <1>1. /\ Init /\ page = IF \A r \in Requests : pc[r] = "done" THEN "ready" ELSE "closed"
        /\ thread = 1 /\ asked = {} /\ gone = {} /\ kept = {} /\ without = [r \in PageAsks |-> {}]
    BY DEF PageInit
  <1>2. /\ slot = [r \in Requests |-> "out"] /\ context = [r \in Requests |-> <<>>]
        /\ \A t \in Threads : redis[t] = <<>> /\ memory[t] = <<>>
    BY <1>1 DEF Init, LimitsInit, StoreInit
  <1>3. 1 \in DOMAIN PageThreads
    <2>1. DOMAIN PageThreads = 1..Len(PageThreads) /\ Len(PageThreads) \in Nat \ {0}
      BY PageAssumption
    <2> QED
      BY <2>1
  <1>4. PICK coming \in Arrivals :
            /\ pc = [r \in Requests |-> IF r \in coming THEN "new" ELSE "done"]
            /\ call = [c \in Callers |-> IF c \in coming THEN Idle ELSE Done(c, FALSE)]
    BY <1>1 DEF Init
  <1>5. \A c \in Callers : ~call[c].removed
    BY <1>4 DEF Idle, Done
  <1>6. ASSUME NEW r \in Requests, pc[r] = "done"
        PROVE  Asleep(r)
    <2>1. call[r].at = "done"
      BY <1>4, <1>6, RequestsAssumption DEF Done, Idle
    <2>2. DOMAIN <<>> = {}
      OBVIOUS
    <2> QED
      BY <1>2, <1>6, <2>1, <2>2 DEF Asleep, Rests, Within
  <1>7. page # "closed" => OpenInv
    <2>1. DOMAIN <<>> = {} /\ \A c \in Pops : c \in Callers
      BY RequestsAssumption
    <2> QED
      BY <1>1, <1>2, <1>5, <1>6, <2>1, PageAssumption DEF OpenInv
  <1>8. Shown
    BY DEF PageInit, Shown
  <1>9. BookInv
    BY <1>1, <1>3, <1>7 DEF BookInv
  <1> QED
    BY <1>1, <1>8, <1>9, InitServer DEF PageInv

LEMMA PageIsFollowed ==
    ASSUME PageInv
    PROVE  PromptsFollowThePage
  <1>1. CASE page = "closed"
    BY <1>1 DEF PageInv, BookInv, PromptsFollowThePage
  <1>2. CASE page # "closed"
    BY <1>2 DEF PageInv, BookInv, OpenInv, PromptsFollowThePage, Range
  <1> QED
    BY <1>1, <1>2

(* However often the page is cleared, its answers are replaced and its     *)
(* streams and calls are interrupted: as long as Redis answers, no later   *)
(* answer has a turn in its context that the user has cleared, nor a       *)
(* replaced one of which the backend said it took it back (the only one of *)
(* its question in the thread).                                            *)
THEOREM PromptsFollow == PageSpec => []PromptsFollowThePage
  <1>1. PageInit => ServerInv /\ PageInv
    BY InitPage
  <1>2. ServerInv /\ PageInv /\ [PageNext]_allVars => (ServerInv /\ PageInv)'
    BY PageNextKeepsPage
  <1>3. PageInv => PromptsFollowThePage
    BY PageIsFollowed
  <1> QED
    BY <1>1, <1>2, <1>3, PTL DEF PageSpec

-----------------------------------------------------------------------------
(***************************************************************************)
(* The types.                                                              *)
(***************************************************************************)

StoresType == stale \subseteq Threads /\ recent \in Seq(Threads) /\ faults \in 0..MaxFaults

LEMMA WithoutIsASequence ==
    ASSUME recent \in Seq(Threads), NEW t \in Threads
    PROVE  Without(t) \in Seq(Threads)
  <1>1. CASE \A i \in DOMAIN recent : recent[i] # t
    BY <1>1 DEF Without
  <1>2. CASE \E i \in DOMAIN recent : recent[i] = t
    <2>1. PICK k : k = CHOOSE i \in DOMAIN recent : recent[i] = t
      OBVIOUS
    <2>2. k \in 1..Len(recent)
      BY <1>2, <2>1
    <2>3. Without(t) = RemoveAt(recent, k)
      BY <1>2, <2>1 DEF Without
    <2> QED
      BY <2>2, <2>3, RemoveAtIsASequence
  <1> QED
    BY <1>1, <1>2

LEMMA FaultIsBounded ==
    ASSUME StoresType, NEW c, Fault(c)
    PROVE  faults' \in 0..MaxFaults
  BY StoresAssumption DEF StoresType, Fault

LEMMA FallbackKeepsType ==
    ASSUME StoresType, NEW c \in Callers, Fallback(c, ThreadOf[c])
    PROVE  stale' \subseteq Threads /\ recent' \in Seq(Threads)
  <1>1. PICK t \in Threads : t = ThreadOf[c]
    BY CallersAssumption
  <1>2. PICK rest : rest = Without(t)
    OBVIOUS
  <1>3. rest \in Seq(Threads) /\ recent \in Seq(Threads) /\ stale \subseteq Threads
    BY <1>2, WithoutIsASequence DEF StoresType
  <1>4. CASE c \in Saves
    <2>1. PICK all : all = Append(rest, t)
      OBVIOUS
    <2>2. all \in Seq(Threads) /\ all # <<>>
      BY <1>3, <2>1
    <2>3. Tail(all) \in Seq(Threads)
      BY <2>2
    <2>4. stale' \subseteq stale /\ recent' \in {all, Tail(all)}
      BY <1>1, <1>2, <1>4, <2>1 DEF Fallback, MemorySave
    <2> QED
      BY <1>3, <2>2, <2>3, <2>4
  <1>5. CASE c \notin Saves
    BY <1>1, <1>2, <1>3, <1>5 DEF Fallback, MemoryPop
  <1> QED
    BY <1>4, <1>5

LEMMA StoreStepKeepsType ==
    ASSUME StoresType, NEW c \in Callers, StoreStep(c)
    PROVE  StoresType'
  <1>1. CASE UNCHANGED <<stale, recent, faults>>
    BY <1>1 DEF StoresType
  <1>2. CASE Fallback(c, ThreadOf[c]) /\ UNCHANGED faults
    BY <1>2, FallbackKeepsType DEF StoresType
  <1>3. CASE RedisFails(c)
    BY <1>3, FallbackKeepsType, FaultIsBounded DEF RedisFails, StoresType
  <1>4. ExecConflicts(c) =>
            UNCHANGED <<stale, recent, faults>> \/ (Fallback(c, ThreadOf[c]) /\ UNCHANGED faults)
    BY DEF ExecConflicts
  <1> QED
    BY <1>1, <1>2, <1>3, <1>4 DEF StoreStep, Watch, Exec

LEMMA NextKeepsStoresType ==
    ASSUME StoresType, [Next]_vars
    PROVE  StoresType'
  <1>0. \A r \in Requests \cup Pops : r \in Callers /\ ThreadOf[r] \in Threads
    BY RequestsAssumption, CallersAssumption
  <1>1. CASE UNCHANGED <<stale, recent, faults>>
    BY <1>1 DEF StoresType
  <1>2. ASSUME NEW r \in Requests, LoadHistory(r)
        PROVE  StoresType'
    <2>1. PICK history : Get(r, history)
      BY <1>2 DEF LoadHistory
    <2>2. CASE UNCHANGED storeVars
      BY <1>1, <2>2 DEF storeVars
    <2>3. CASE Fault(r) /\ MemoryGet(ThreadOf[r])
      <3>1. PICK t \in Threads : t = ThreadOf[r]
        BY <1>0
      <3>2. PICK rest : rest = Without(t)
        OBVIOUS
      <3>3. rest \in Seq(Threads) /\ recent \in Seq(Threads) /\ Append(rest, t) \in Seq(Threads)
        BY <3>2, WithoutIsASequence DEF StoresType
      <3>4. recent' \in {recent, rest, Append(rest, t)} /\ stale' \subseteq stale
        BY <2>3, <3>1, <3>2 DEF MemoryGet
      <3> QED
        BY <2>3, <3>3, <3>4, FaultIsBounded DEF StoresType
    <2> QED
      BY <2>1, <2>2, <2>3 DEF Get
  <1>3. ASSUME NEW r \in Requests, SaveSession(r)
        PROVE  StoresType'
    BY <1>0, <1>1, <1>3, StoreStepKeepsType DEF SaveSession
  <1>4. ASSUME NEW r \in Requests, CancelRun(r)
        PROVE  StoresType'
    BY <1>1, <1>4 DEF CancelRun, storeVars
  <1>5. ASSUME NEW r \in Requests, Handler(r)
        PROVE  LoadHistory(r) \/ SaveSession(r) \/ CancelRun(r) \/ UNCHANGED storeVars
    BY <1>5 DEF Handler, Authenticate, AcquireSlot, Resume, GiveUpQueue, Deny, Node, Succeed,
                BreakOff, TestEnds, WriteAudit
  <1>6. ASSUME NEW r \in Requests, Disconnect(r)
        PROVE  CancelRun(r) \/ UNCHANGED storeVars
    BY <1>6 DEF Disconnect
  <1>7. ASSUME NEW c \in Pops, Pop(c)
        PROVE  StoresType'
    BY <1>0, <1>1, <1>7, StoreStepKeepsType DEF Pop
  <1>8. CASE StoresForget
    <2>1. PICK t \in Threads : RedisForgets(t) \/ MemoryExpires(t)
      BY <1>8, CallersAssumption DEF StoresForget, Expiry
    <2> QED
      BY <2>1 DEF RedisForgets, MemoryExpires, StoresType
  <1>9. CASE UNCHANGED storeVars
    BY <1>1, <1>9 DEF storeVars
  <1> QED
    BY <1>2, <1>3, <1>4, <1>5, <1>6, <1>7, <1>8, <1>9 DEF Next, Step, MemoryNode, vars

LEMMA RowsAreItems ==
    ASSUME MemoriesTypeOK, NEW o \in Owners
    PROVE  Facts(o) \subseteq Item /\ Episodes(episodes[o]) \subseteq Item
  <1>1. \A k \in MemoryKeys : facts[o][k] \in Sources \cup {Unstated}
    BY DEF MemoriesTypeOK
  <1>2. Facts(o) \subseteq Item
    BY <1>1 DEF Facts, Item
  <1>3. Episodes(episodes[o]) \subseteq Item
    BY DEF MemoriesTypeOK, Episodes, Item
  <1> QED
    BY <1>2, <1>3

LEMMA NodesKeepMemoriesType ==
    ASSUME MemoriesTypeOK, NEW s \in Sources, Recall(s) \/ RememberTurn(s) \/ Remember(s)
    PROVE  MemoriesTypeOK'
  <1>0. OwnerOf[s] \in Owners
    BY MemoriesAssumption
  <1>1. PICK o \in Owners : o = OwnerOf[s]
    BY <1>0
  <1>2. CASE Recall(s)
    <2>1. PICK known \in {{}, Facts(o) \ expired}, found \in Similar(s) :
              recalled' = [recalled EXCEPT ![s] = known \cup found]
      BY <1>1, <1>2 DEF Recall
    <2>2. known \cup found \subseteq Item
      BY <1>1, <2>1, RowsAreItems DEF Similar
    <2>3. UNCHANGED <<facts, episodes, ids, expired, embedding, deleted>>
      BY <1>2 DEF Recall
    <2> QED
      BY <2>1, <2>2, <2>3 DEF MemoriesTypeOK, Item
  <1>3. CASE RememberTurn(s)
    <2>1. PICK new : new = [k \in MemoryKeys |-> IF k \in States[s] THEN s ELSE facts[o][k]]
      OBVIOUS
    <2>2. new \in [MemoryKeys -> Sources \cup {Unstated}]
      BY <2>1 DEF MemoriesTypeOK
    <2>3. facts' = [facts EXCEPT ![o] = new]
      BY <1>1, <1>3, <2>1 DEF RememberTurn, MemoriesTypeOK
    <2>4. facts' \in [Owners -> [MemoryKeys -> Sources \cup {Unstated}]]
      BY <2>2, <2>3 DEF MemoriesTypeOK
    <2>5. Restated(s) \subseteq Facts(o)
      BY <1>1, MemoriesAssumption DEF Restated, Facts
    <2>6. /\ expired' \subseteq expired /\ deleted' = deleted \cup Restated(s)
          /\ UNCHANGED <<episodes, ids, embedding, recalled>>
      BY <1>3 DEF RememberTurn
    <2> QED
      BY <2>4, <2>5, <2>6, RowsAreItems DEF MemoriesTypeOK, Item
  <1>4. CASE Remember(s)
    <2>1. PICK n : /\ n = Cardinality({q \in Sources : ids[q] # 0})
                   /\ ids' = [ids EXCEPT ![s] = 1 + n]
      BY <1>4 DEF Remember
    <2>2. n \in Nat
      <3>1. IsFiniteSet(Sources) /\ {q \in Sources : ids[q] # 0} \subseteq Sources
        BY PrincipalsAssumption, RequestsAssumption
      <3> QED
        BY <2>1, <3>1, FS_Subset, FS_CardinalityType
    <2>3. PICK spared : /\ spared \subseteq episodes[o] \cup {s}
                      /\ episodes' = [episodes EXCEPT ![o] = spared]
                      /\ deleted' \subseteq deleted \cup Episodes(episodes[o])
      <3> DEFINE id == [ids EXCEPT ![s] = 1 + Cardinality({q \in Sources : ids[q] # 0})]
                 alive == {e \in episodes[o] \cup {s} : <<"episode", e>> \notin expired}
                 spared == {e \in alive : Cardinality({q \in alive : id[q] > id[e]}) < MaxEpisodes}
      <3>1. spared \subseteq episodes[o] \cup {s}
        OBVIOUS
      <3>2. /\ episodes' = [episodes EXCEPT ![o] = spared]
            /\ deleted' = deleted \cup (Episodes(episodes[o]) \ Episodes(spared))
        BY <1>1, <1>4 DEF Remember
      <3> HIDE DEF spared
      <3> QED
        BY <3>1, <3>2
    <2>4. spared \subseteq Sources
      BY <2>3 DEF MemoriesTypeOK
    <2>5. /\ expired' \subseteq expired /\ embedding' \subseteq embedding \cup {s}
          /\ UNCHANGED <<facts, recalled>>
      BY <1>4 DEF Remember
    <2>6. ids' \in [Sources -> Nat]
      BY <2>1, <2>2 DEF MemoriesTypeOK
    <2>7. episodes' \in [Owners -> SUBSET Sources]
      BY <2>3, <2>4 DEF MemoriesTypeOK
    <2>8. deleted' \subseteq Item
      BY <2>3, RowsAreItems DEF MemoriesTypeOK
    <2> QED
      BY <2>5, <2>6, <2>7, <2>8 DEF MemoriesTypeOK
  <1> QED
    BY <1>2, <1>3, <1>4

LEMMA MemoryStepKeepsMemoriesType ==
    ASSUME MemoriesTypeOK, MemoryStep
    PROVE  MemoriesTypeOK'
  <1>1. ASSUME NEW s \in Sources, EmbedEpisode(s)
        PROVE  MemoriesTypeOK'
    BY <1>1 DEF EmbedEpisode, MemoriesTypeOK
  <1>2. ASSUME NEW o \in Owners, NEW k \in MemoryKeys, DeleteMemory(o, k)
        PROVE  MemoriesTypeOK'
    <2>1. <<k, facts[o][k]>> \in Item
      BY <1>2 DEF DeleteMemory, MemoriesTypeOK, Item
    <2>2. facts' \in [Owners -> [MemoryKeys -> Sources \cup {Unstated}]]
      BY <1>2 DEF DeleteMemory, MemoriesTypeOK
    <2> QED
      BY <1>2, <2>1, <2>2 DEF DeleteMemory, MemoriesTypeOK
  <1>3. ASSUME NEW o \in Owners, NEW s \in Sources, DeleteEpisode(o, s)
        PROVE  MemoriesTypeOK'
    <2>1. <<"episode", s>> \in Item
      BY DEF Item
    <2>2. episodes' \in [Owners -> SUBSET Sources]
      BY <1>3 DEF DeleteEpisode, MemoriesTypeOK
    <2> QED
      BY <1>3, <2>1, <2>2 DEF DeleteEpisode, MemoriesTypeOK
  <1>4. ASSUME NEW o \in Owners, Expires(o)
        PROVE  MemoriesTypeOK'
    <2>1. PICK item \in Facts(o) \cup Episodes(episodes[o]) : expired' = expired \cup {item}
      BY <1>4 DEF Expires
    <2>2. item \in Item
      BY <2>1, RowsAreItems
    <2> QED
      BY <1>4, <2>1, <2>2 DEF Expires, MemoriesTypeOK
  <1> QED
    BY <1>1, <1>2, <1>3, <1>4 DEF MemoryStep

LEMMA NextKeepsMemoriesType ==
    ASSUME MemoriesTypeOK, [Next]_vars
    PROVE  MemoriesTypeOK'
  <1>1. CASE UNCHANGED memoryVars
    BY <1>1 DEF memoryVars, MemoriesTypeOK
  <1>2. ASSUME NEW r \in Requests, MemoryNode(r)
        PROVE  MemoriesTypeOK'
    BY <1>1, <1>2, NodesKeepMemoriesType, RequestsAssumption DEF MemoryNode
  <1> QED
    BY <1>1, <1>2, MemoryStepKeepsMemoriesType DEF Next, Step, vars

-----------------------------------------------------------------------------

RequestsType ==
    /\ pc \in [Requests -> {"new", "limits", "queue", "running", "denied", "audit", "done"}]
    /\ counted \in [Requests -> Nat] /\ used \in [Principals -> Nat]
    /\ outcome \in [Requests -> {"none", "success", "error", "timeout", "cancelled"}]

LEMMA NextKeepsRequestsType ==
    ASSUME RequestsType, [Next]_vars
    PROVE  RequestsType'
  <1>0. \A r \in Requests : PrincipalOf[r] \in Principals
    BY PrincipalsAssumption
  <1>1. CASE UNCHANGED <<pc, counted, used, outcome>>
    BY <1>1 DEF RequestsType
  <1>2. ASSUME NEW r \in Requests,
               NEW where \in {"limits", "queue", "running", "denied", "done"}, Goto(r, where),
               counted' \in [Requests -> Nat], UNCHANGED <<outcome, used>>
        PROVE  RequestsType'
    BY <1>2 DEF Goto, RequestsType
  <1>3. ASSUME NEW r \in Requests, NEW how \in {"success", "error", "timeout", "cancelled"}, Ends(r, how),
               UNCHANGED <<counted, used>>
        PROVE  RequestsType'
    BY <1>3 DEF Ends, Goto, RequestsType
  <1>4. ASSUME NEW r \in Requests, Authenticate(r)
        PROVE  RequestsType'
    <2>1. counted' \in [Requests -> Nat]
      BY <1>0, <1>4 DEF Authenticate, RequestsType
    <2> QED
      BY <1>2, <1>4, <2>1 DEF Authenticate
  <1>5. ASSUME NEW r \in Requests, AcquireSlot(r)
        PROVE  RequestsType'
    <2>1. counted' \in [Requests -> Nat]
      BY <1>5 DEF AcquireSlot, RequestsType
    <2>2. \E where \in {"denied", "queue", "running"} : Goto(r, where)
      BY <1>5 DEF AcquireSlot, Run
    <2> QED
      BY <1>2, <1>5, <2>1, <2>2 DEF AcquireSlot
  <1>6. ASSUME NEW r \in Requests, Resume(r) \/ GiveUpQueue(r) \/ Deny(r)
        PROVE  RequestsType'
    <2>1. UNCHANGED <<counted, outcome, used>> /\ counted \in [Requests -> Nat]
      BY <1>6 DEF Resume, GiveUpQueue, Deny, RequestsType
    <2>2. \E where \in {"denied", "running", "done"} : Goto(r, where)
      BY <1>6 DEF Resume, GiveUpQueue, Deny, Run
    <2> QED
      BY <1>2, <2>1, <2>2
  <1>7. ASSUME NEW r \in Requests, Audited(r)
        PROVE  used' \in [Principals -> Nat]
    BY <1>0, <1>7 DEF Audited, RequestsType
  <1>8. ASSUME NEW r \in Requests, WriteAudit(r)
        PROVE  RequestsType'
    <2>1. /\ pc' = [pc EXCEPT ![r] = "done"] /\ outcome' = [outcome EXCEPT ![r] = "none"]
          /\ UNCHANGED counted /\ Audited(r)
      BY <1>8 DEF WriteAudit, Goto
    <2> QED
      BY <1>7, <2>1 DEF RequestsType
  <1>9. ASSUME NEW r \in Requests, Disconnect(r)
        PROVE  RequestsType'
    <2>1. CASE Ends(r, "cancelled") /\ UNCHANGED used
      BY <1>3, <1>9, <2>1 DEF Disconnect
    <2>2. CASE Audited(r) /\ outcome' = [outcome EXCEPT ![r] = "cancelled"] /\ UNCHANGED <<pc, counted>>
      BY <1>7, <2>2 DEF RequestsType
    <2> QED
      BY <1>9, <2>1, <2>2 DEF Disconnect
  <1>10. ASSUME NEW r \in Requests, Succeed(r) \/ BreakOff(r) \/ TestEnds(r)
         PROVE  RequestsType'
    <2>1. UNCHANGED <<counted, used>> /\ \E how \in {"success", "error", "timeout"} : Ends(r, how)
      BY <1>10 DEF Succeed, BreakOff, TestEnds
    <2> QED
      BY <1>3, <2>1
  <1>11. ASSUME NEW r \in Requests, Handler(r)
         PROVE  RequestsType'
    <2>1. CASE Node(r) \/ LoadHistory(r) \/ SaveSession(r)
      BY <1>1, <2>1 DEF Node, LoadHistory, SaveSession
    <2> QED
      BY <1>4, <1>5, <1>6, <1>8, <1>10, <1>11, <2>1 DEF Handler
  <1> QED
    BY <1>1, <1>9, <1>11 DEF Next, Step, MemoryNode, Pop, StoresForget, vars

-----------------------------------------------------------------------------

ScreenType ==
    /\ pending \in Questions \cup {Nothing} /\ rated \subseteq PageAsks
    /\ current \in PageAsks \cup PagePops \cup {Nothing}
    /\ heard \in {"none", "success", "error", "timeout", "cancelled"}

LEMMA PageStepKeepsScreen ==
    ASSUME PageInv, ScreenType, PageStep
    PROVE  ScreenType'
  <1>1. ASSUME NEW r \in PageAsks, Ask(r) \/ AnswerLocally(r) \/ Show(r)
        PROVE  ScreenType'
    BY <1>1 DEF Ask, AnswerLocally, Show, TakesTheQuestion, ScreenType
  <1>2. CASE StreamBreaks \/ Interrupt \/ Clear
    BY <1>2 DEF StreamBreaks, Interrupt, Clear, ScreenType
  <1>3. ASSUME NEW i \in DOMAIN messages, Rate(i)
        PROVE  ScreenType'
    <2>1. messages[i] \in [turn : asked, is : Kinds] /\ asked \subseteq PageAsks
      BY <1>3, ItemsAreIn DEF PageInv, BookInv, Shown
    <2> QED
      BY <1>3, <2>1 DEF Rate, ScreenType
  <1>4. ASSUME NEW i \in DOMAIN messages, Replace(i)
        PROVE  ScreenType'
    BY <1>4 DEF Replace, ScreenType
  <1>5. ASSUME NEW i \in DOMAIN messages, NEW c \in PagePops, Regenerate(i, c)
        PROVE  ScreenType'
    <2>1. QuestionOf[c] \in Questions
      BY PageAssumption, RequestsAssumption, CallersAssumption
    <2> QED
      BY <1>5, <2>1 DEF Regenerate, ScreenType
  <1> QED
    BY <1>1, <1>2, <1>3, <1>4, <1>5 DEF PageStep

TypesInv == StoresType /\ MemoriesTypeOK /\ RequestsType

LEMMA NextKeepsTypes ==
    ASSUME TypesInv, [Next]_vars
    PROVE  TypesInv'
  BY NextKeepsStoresType, NextKeepsMemoriesType, NextKeepsRequestsType DEF TypesInv

LEMMA PageNextKeepsTypes ==
    ASSUME PageInv, TypesInv, ScreenType, [PageNext]_allVars
    PROVE  TypesInv' /\ ScreenType'
  <1>1. CASE UNCHANGED allVars
    <2>1. ScreenType'
      BY <1>1 DEF ScreenType, allVars, pageVars
    <2> QED
      BY <1>1, <2>1, NextKeepsTypes DEF allVars
  <1>2. CASE Next /\ Hear
    <2>1. RequestsType'
      BY <1>2, NextKeepsTypes DEF TypesInv
    <2>2. page = "streaming" => current \in Requests
      BY PageAssumption DEF PageInv, BookInv
    <2>3. heard' \in {"none", "success", "error", "timeout", "cancelled"}
      BY <1>2, <2>1, <2>2 DEF Hear, ScreenType, RequestsType
    <2>4. ScreenType'
      BY <1>2, <2>3 DEF Hear, ScreenType
    <2> QED
      BY <1>2, <2>4, NextKeepsTypes
  <1>3. CASE PageStep
    <2>1. ScreenType'
      BY <1>3, PageStepKeepsScreen
    <2>2. CASE UNCHANGED vars
      BY <2>1, <2>2, NextKeepsTypes
    <2>3. ASSUME NEW r \in PageAsks, Ask(r)
          PROVE  TypesInv'
      BY <2>3 DEF Ask, TypesInv, StoresType, MemoriesTypeOK, RequestsType, memoryVars, limitVars
    <2>4. ASSUME NEW i, NEW c \in PagePops, Regenerate(i, c)
          PROVE  TypesInv'
      BY <2>4 DEF Regenerate, TypesInv, StoresType, MemoriesTypeOK, RequestsType, memoryVars, limitVars
    <2>5. \/ UNCHANGED vars
          \/ \E r \in PageAsks : Ask(r)
          \/ \E i \in DOMAIN messages : \E c \in PagePops : Regenerate(i, c)
      BY <1>3 DEF PageStep, AnswerLocally, Show, StreamBreaks, Interrupt, Clear, Rate, Replace
    <2> QED
      BY <2>1, <2>2, <2>3, <2>4, <2>5
  <1> QED
    BY <1>1, <1>2, <1>3 DEF PageNext

LEMMA InitTypes ==
    ASSUME Init
    PROVE  TypesInv
  <1>1. MemoriesTypeOK
    BY DEF Init, MemoriesInit, MemoriesTypeOK
  <1>2. StoresType
    <2>1. 0 \in 0..MaxFaults /\ <<>> \in Seq(Threads)
      BY StoresAssumption
    <2> QED
      BY <2>1 DEF Init, StoreInit, StoresType
  <1>3. RequestsType
    BY DEF Init, LimitsInit, RequestsType
  <1> QED
    BY <1>1, <1>2, <1>3 DEF TypesInv

LEMMA TypesAreRight ==
    ASSUME ServerInv, TypesInv
    PROVE  TypeOK
  <1>1. free \in 0..MaxConcurrency
    <2>1. PICK n : n = Cardinality({r \in Requests : Has(r)})
      OBVIOUS
    <2>2. n \in Nat
      BY <2>1, SetsAreFinite DEF Holders
    <2>3. free + n = MaxConcurrency /\ free \in Nat
      BY <2>1 DEF ServerInv, SlotInv, SlotsAreConserved
    <2> QED
      BY <2>2, <2>3, LimitsAssumption
  <1>2. LimitsTypeOK
    BY <1>1 DEF ServerInv, SlotInv, Slots, Waiters, TypesInv, RequestsType, LimitsTypeOK
  <1>3. StoreTypeOK
    BY DEF ServerInv, StoreInv, TypesInv, StoresType, StoreTypeOK
  <1> QED
    BY <1>2, <1>3 DEF TypeOK, TypesInv, RequestsType, ServerInv, RunInv, ContextInv

(* Every variable of the requests and of the page has its type.            *)
THEOREM PageTypeCorrect == PageSpec => []PageTypeOK
  <1>1. PageInit => ServerInv /\ PageInv /\ TypesInv /\ ScreenType
    <2>1. ASSUME PageInit
          PROVE  ServerInv /\ PageInv /\ TypesInv
      BY <2>1, InitPage, InitTypes DEF PageInit
    <2>2. PageInit => ScreenType
      BY DEF PageInit, ScreenType
    <2> QED
      BY <2>1, <2>2
  <1>2. ServerInv /\ PageInv /\ TypesInv /\ ScreenType /\ [PageNext]_allVars
        => (ServerInv /\ PageInv /\ TypesInv /\ ScreenType)'
    BY PageNextKeepsPage, PageNextKeepsTypes
  <1>3. ServerInv /\ PageInv /\ TypesInv /\ ScreenType => PageTypeOK
    <2>1. ASSUME PageInv
          PROVE  /\ without \in [PageAsks -> SUBSET PageAsks] /\ gone \subseteq PageAsks
                 /\ messages \in Seq(Message)
      <3>1. without \in [PageAsks -> SUBSET PageAsks] /\ gone \subseteq PageAsks /\ asked \subseteq PageAsks
        BY <2>1 DEF PageInv, BookInv
      <3>2. messages \in Seq([turn : PageAsks, is : Kinds])
        BY <2>1, <3>1, MoreToShow DEF PageInv, Shown
      <3> QED
        BY <3>1, <3>2 DEF Message, Kinds
    <2> QED
      BY <2>1, TypesAreRight DEF PageTypeOK, PageInv, BookInv, ScreenType
  <1> QED
    BY <1>1, <1>2, <1>3, PTL DEF PageSpec

(* The requests keep what they promise under the page too, which asks a    *)
(* turn anew in the place of one that has not come.                        *)
THEOREM PageKeepsPromises ==
    PageSpec => [](SlotsAreConserved /\ AnswersRestOnEvidence /\ ContextIsComplete)
  <1>1. PageInit => ServerInv /\ PageInv
    BY InitPage
  <1>2. ServerInv /\ PageInv /\ [PageNext]_allVars => (ServerInv /\ PageInv)'
    BY PageNextKeepsPage
  <1>3. ServerInv => SlotsAreConserved /\ AnswersRestOnEvidence /\ ContextIsComplete
    BY ChainsAreComplete, OnItsWayIsGood DEF ServerInv, SlotInv, RunInv, AnswersRestOnEvidence
  <1> QED
    BY <1>1, <1>2, <1>3, PTL DEF PageSpec

(* The page's calls leave both stores logs of turns.                       *)
THEOREM PageKeepsLogs == PageSpec => StoresAreLogs
  <1>1. PageInit => ServerInv /\ PageInv /\ RedisLog!LogInit /\ MemoryLog!LogInit
    BY InitPage, InitStore DEF PageInit
  <1>2. ServerInv /\ PageInv /\ [PageNext]_allVars => (ServerInv /\ PageInv)'
    BY PageNextKeepsPage
  <1>3. ServerInv /\ [PageNext]_allVars => [RedisLog!LogNext]_redis /\ [MemoryLog!LogNext]_memory
    <2>1. ASSUME ServerInv, [Next]_vars PROVE RedisLog!LogNext /\ MemoryLog!LogNext
      BY <2>1, NextSteps, StepsKeepInv DEF ServerInv
    <2>2. ASSUME PageStep PROVE UNCHANGED <<redis, memory>>
      BY <2>2 DEF PageStep, Ask, AnswerLocally, Show, StreamBreaks, Interrupt, Clear, Rate, Replace,
                  Regenerate, vars, storeVars
    <2> QED
      BY <2>1, <2>2 DEF PageNext, allVars
  <1> QED
    BY <1>1, <1>2, <1>3, PTL DEF PageSpec, StoresAreLogs, RedisLog!LogSpec, MemoryLog!LogSpec

-----------------------------------------------------------------------------
(***************************************************************************)
(* The memories under the page: a turn that has not come has no rows.      *)
(***************************************************************************)

Unwritten(q) ==
    /\ \A o \in Owners : q \notin episodes[o] /\ \A k \in MemoryKeys : facts[o][k] # q
    /\ <<"episode", q>> \notin deleted /\ \A k \in MemoryKeys : <<k, q>> \notin deleted

LEMMA NodesWriteTheirOwn ==
    ASSUME MemoriesTypeOK, NEW q \in Sources, Unwritten(q), NEW s \in Sources, s # q,
           RememberTurn(s) \/ Remember(s)
    PROVE  Unwritten(q)'
  <1>0. "episode" \notin MemoryKeys /\ OwnerOf[s] \in Owners /\ States[s] \subseteq MemoryKeys
    BY MemoriesAssumption
  <1>1. PICK o \in Owners : o = OwnerOf[s]
    BY <1>0
  <1>2. CASE RememberTurn(s)
    <2>1. PICK new : new = [k \in MemoryKeys |-> IF k \in States[s] THEN s ELSE facts[o][k]]
      OBVIOUS
    <2>2. facts' = [facts EXCEPT ![o] = new]
      BY <1>1, <1>2, <2>1 DEF RememberTurn, MemoriesTypeOK
    <2>3. \A k \in MemoryKeys : new[k] # q
      BY <2>1 DEF Unwritten
    <2>4. \A u \in Owners : \A k \in MemoryKeys : facts'[u][k] # q
      BY <2>2, <2>3 DEF Unwritten, MemoriesTypeOK
    <2>5. deleted' = deleted \cup Restated(s) /\ UNCHANGED episodes
      BY <1>2 DEF RememberTurn
    <2>6. <<"episode", q>> \notin Restated(s) /\ \A k \in MemoryKeys : <<k, q>> \notin Restated(s)
      BY <1>0, <1>1 DEF Restated, Unwritten
    <2> QED
      BY <2>4, <2>5, <2>6 DEF Unwritten
  <1>3. CASE Remember(s)
    <2>1. PICK held : /\ held \subseteq episodes[o] \cup {s}
                      /\ episodes' = [episodes EXCEPT ![o] = held]
                      /\ deleted' \subseteq deleted \cup Episodes(episodes[o])
      <3> DEFINE id == [ids EXCEPT ![s] = 1 + Cardinality({e \in Sources : ids[e] # 0})]
                 alive == {e \in episodes[o] \cup {s} : <<"episode", e>> \notin expired}
                 held == {e \in alive : Cardinality({a \in alive : id[a] > id[e]}) < MaxEpisodes}
      <3>1. held \subseteq episodes[o] \cup {s}
        OBVIOUS
      <3>2. /\ episodes' = [episodes EXCEPT ![o] = held]
            /\ deleted' = deleted \cup (Episodes(episodes[o]) \ Episodes(held))
        BY <1>1, <1>3 DEF Remember
      <3> HIDE DEF held
      <3> QED
        BY <3>1, <3>2
    <2>2. \A u \in Owners : q \notin episodes'[u]
      BY <2>1 DEF Unwritten, MemoriesTypeOK
    <2>3. /\ <<"episode", q>> \notin Episodes(episodes[o])
          /\ \A k \in MemoryKeys : <<k, q>> \notin Episodes(episodes[o])
      BY <1>0 DEF Episodes, Unwritten
    <2>4. UNCHANGED facts
      BY <1>3 DEF Remember
    <2> QED
      BY <2>1, <2>2, <2>3, <2>4 DEF Unwritten
  <1> QED
    BY <1>2, <1>3

LEMMA StepsWriteNothing ==
    ASSUME MemoriesTypeOK, NEW q \in Sources, Unwritten(q), MemoryStep
    PROVE  Unwritten(q)'
  <1>0. "episode" \notin MemoryKeys /\ Unstated \notin Sources
    BY MemoriesAssumption
  <1>1. CASE UNCHANGED <<facts, episodes, deleted>>
    BY <1>1 DEF Unwritten
  <1>2. ASSUME NEW o \in Owners, NEW k \in MemoryKeys, DeleteMemory(o, k)
        PROVE  Unwritten(q)'
    <2>1. /\ facts' = [facts EXCEPT ![o][k] = Unstated] /\ UNCHANGED episodes
          /\ deleted' = deleted \cup {<<k, facts[o][k]>>}
      BY <1>2 DEF DeleteMemory
    <2>2. \A u \in Owners : \A m \in MemoryKeys : facts'[u][m] # q
      BY <1>0, <2>1 DEF Unwritten, MemoriesTypeOK
    <2> QED
      BY <1>0, <2>1, <2>2 DEF Unwritten
  <1>3. ASSUME NEW o \in Owners, NEW s \in Sources, DeleteEpisode(o, s)
        PROVE  Unwritten(q)'
    <2>1. /\ s \in episodes[o] /\ episodes' = [episodes EXCEPT ![o] = @ \ {s}] /\ UNCHANGED facts
          /\ deleted' = deleted \cup {<<"episode", s>>}
      BY <1>3 DEF DeleteEpisode
    <2>2. \A u \in Owners : q \notin episodes'[u]
      BY <2>1 DEF Unwritten, MemoriesTypeOK
    <2> QED
      BY <1>0, <2>1, <2>2 DEF Unwritten
  <1> QED
    BY <1>1, <1>2, <1>3 DEF MemoryStep, EmbedEpisode, Expires

LEMMA SleepersWriteNothing ==
    ASSUME MemoriesTypeOK, [Next]_vars, NEW q \in Requests, Asleep(q), Unwritten(q)
    PROVE  Unwritten(q)'
  <1>0. Requests = Sources
    BY RequestsAssumption
  <1>1. CASE UNCHANGED memoryVars
    BY <1>1 DEF Unwritten, memoryVars
  <1>2. ASSUME NEW r \in Requests, MemoryNode(r)
        PROVE  Unwritten(q)'
    <2>1. r # q
      BY <1>2 DEF MemoryNode, Working, Asleep, Rests
    <2>2. CASE Recall(r)
      BY <2>2 DEF Recall, Unwritten
    <2> QED
      BY <1>0, <1>1, <1>2, <2>1, <2>2, NodesWriteTheirOwn DEF MemoryNode
  <1> QED
    BY <1>0, <1>1, <1>2, StepsWriteNothing DEF Next, Step, vars

PageMemoryInv ==
    MemoryInv /\ (page # "closed" => \A r \in Requests \ asked : Unwritten(r))

LEMMA AskKeepsMemories ==
    ASSUME MemoryInv, NEW r \in Requests, Unwritten(r), pc' = [pc EXCEPT ![r] = "new"],
           UNCHANGED <<run, facts, episodes, deleted, recalled>>
    PROVE  MemoryInv'
  <1>0. Requests = Sources
    BY RequestsAssumption
  <1>1. \A s \in Sources \ {r} : (Told(s) => Told(s)') /\ (Filed(s) => Filed(s)')
    BY <1>0 DEF Told, Filed, Working
  <1>2. ASSUME NEW o \in Owners, NEW k \in MemoryKeys, NEW s \in Sources, facts[o][k] = s
        PROVE  OwnerOf[s] = o /\ Told(s)' /\ <<k, s>> \notin deleted
    BY <1>1, <1>2 DEF MemoryInv, Unwritten
  <1>3. ASSUME NEW o \in Owners, NEW s \in Sources, s \in episodes[o]
        PROVE  OwnerOf[s] = o /\ Filed(s)' /\ <<"episode", s>> \notin deleted
    BY <1>1, <1>3 DEF MemoryInv, Unwritten
  <1>4. ASSUME NEW s \in Sources
        PROVE  /\ \A k \in MemoryKeys : <<k, s>> \in deleted => Told(s)'
               /\ <<"episode", s>> \in deleted => Filed(s)'
    BY <1>1 DEF MemoryInv, Unwritten
  <1> QED
    BY <1>2, <1>3, <1>4 DEF MemoryInv, Told, Filed, Working

LEMMA PageNextForgets ==
    ASSUME ServerInv, PageInv, MemoriesTypeOK, PageMemoryInv, [PageNext]_allVars
    PROVE  /\ PageMemoryInv'
           /\ \A r \in Requests : (recalled'[r] \ recalled[r]) \cap (deleted \cup expired) = {}
  <1>1. ASSUME [Next]_vars, UNCHANGED <<page, asked>>
        PROVE  /\ PageMemoryInv'
               /\ \A r \in Requests : (recalled'[r] \ recalled[r]) \cap (deleted \cup expired) = {}
    <2>1. /\ MemoryInv'
          /\ \A r \in Requests : (recalled'[r] \ recalled[r]) \cap (deleted \cup expired) = {}
      BY <1>1, NextKeepsMemories DEF ServerInv, PageMemoryInv
    <2>2. page # "closed" => \A r \in Requests \ asked : Asleep(r) /\ Unwritten(r)
      BY DEF PageInv, BookInv, OpenInv, PageMemoryInv
    <2>3. page # "closed" => \A r \in Requests \ asked : Unwritten(r)'
      BY <1>1, <2>2, SleepersWriteNothing
    <2> QED
      BY <1>1, <2>1, <2>3 DEF PageMemoryInv, Unwritten
  <1>2. CASE PageStep
    <2>1. recalled' = recalled
      BY <1>2 DEF PageStep, Ask, AnswerLocally, Show, StreamBreaks, Interrupt, Clear, Rate, Replace,
                  Regenerate, vars, memoryVars
    <2>2. page # "closed" /\ asked \subseteq asked'
      BY <1>2 DEF PageStep, Ask, AnswerLocally, Show, StreamBreaks, Interrupt, Clear, Rate, Replace,
                  Regenerate, TakesTheQuestion, MayAsk
    <2>3. UNCHANGED <<facts, episodes, deleted>>
      BY <1>2 DEF PageStep, Ask, AnswerLocally, Show, StreamBreaks, Interrupt, Clear, Rate, Replace,
                  Regenerate, vars, memoryVars
    <2>4. \A r \in Requests \ asked' : Unwritten(r)'
      BY <2>2, <2>3 DEF PageMemoryInv, Unwritten
    <2>5. MemoryInv'
      <3>1. CASE UNCHANGED vars
        BY <3>1, NextKeepsMemories DEF ServerInv, PageMemoryInv
      <3>2. ASSUME NEW r \in PageAsks, Ask(r)
            PROVE  MemoryInv'
        <4>1. r \in Requests \ asked
          BY <3>2, PageAssumption DEF Ask, TakesTheQuestion, MayAsk
        <4>2. Unwritten(r) /\ MemoryInv
          BY <2>2, <4>1 DEF PageMemoryInv
        <4>3. pc' = [pc EXCEPT ![r] = "new"] /\ UNCHANGED run
          BY <3>2 DEF Ask
        <4> QED
          BY <2>1, <2>3, <4>1, <4>2, <4>3, AskKeepsMemories
      <3>3. ASSUME NEW i, NEW c \in PagePops, Regenerate(i, c)
            PROVE  MemoryInv'
        <4>1. UNCHANGED <<pc, run>>
          BY <3>3 DEF Regenerate
        <4> QED
          BY <2>1, <2>3, <4>1 DEF PageMemoryInv, MemoryInv, Told, Filed, Working
      <3>4. \/ UNCHANGED vars
            \/ \E r \in PageAsks : Ask(r)
            \/ \E i \in DOMAIN messages : \E c \in PagePops : Regenerate(i, c)
        BY <1>2 DEF PageStep, AnswerLocally, Show, StreamBreaks, Interrupt, Clear, Rate, Replace
      <3> QED
        BY <3>1, <3>2, <3>3, <3>4
    <2>6. (\A r \in Requests \ asked : Unwritten(r))'
      BY <2>4 DEF Unwritten
    <2> QED
      BY <2>1, <2>5, <2>6 DEF PageMemoryInv
  <1>3. CASE Next /\ Hear
    BY <1>1, <1>3 DEF Hear
  <1>4. CASE UNCHANGED allVars
    BY <1>1, <1>4 DEF allVars, pageVars
  <1> QED
    BY <1>2, <1>3, <1>4 DEF PageNext

LEMMA InitUnwritten ==
    ASSUME PageInit
    PROVE  MemoriesTypeOK /\ PageMemoryInv
  <1>1. /\ facts = [o \in Owners |-> [k \in MemoryKeys |-> Unstated]] /\ deleted = {}
        /\ episodes = [o \in Owners |-> {}]
    BY DEF PageInit, Init, MemoriesInit
  <1>2. \A r \in Requests : Unwritten(r)
    BY <1>1, MemoriesAssumption, RequestsAssumption DEF Unwritten
  <1> QED
    BY <1>2, InitMemories, InitTypes DEF PageInit, PageMemoryInv, TypesInv

(* What is forgotten stays so for the answers of the page as well.         *)
THEOREM PageForgets == PageSpec => ForgottenStaysForgotten
  <1> DEFINE Inv == ServerInv /\ PageInv /\ TypesInv /\ ScreenType /\ PageMemoryInv
  <1>1. PageInit => Inv
    BY InitPage, InitUnwritten, InitTypes DEF PageInit, ScreenType
  <1>2. Inv /\ [PageNext]_allVars => Inv'
    BY PageNextKeepsPage, PageNextKeepsTypes, PageNextForgets DEF TypesInv
  <1>3. Inv /\ [PageNext]_allVars
        => [\A r \in Requests : (recalled'[r] \ recalled[r]) \cap (deleted \cup expired) = {}]_vars
    BY PageNextForgets DEF TypesInv
  <1> QED
    BY <1>1, <1>2, <1>3, PTL DEF PageSpec, ForgottenStaysForgotten

=============================================================================
