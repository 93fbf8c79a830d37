--------------------------- MODULE Conversations ---------------------------
(***************************************************************************)
(* The conversation store (agent_core/session.py): Redis, read and written *)
(* under WATCH / MULTI with three attempts, and the memory of the process, *)
(* which takes over whenever a call to Redis raises (FallbackConversation- *)
(* Store).  A call that raises may have had its effect.                    *)
(***************************************************************************)
EXTENDS Naturals, Sequences, SequencesExt

CONSTANTS
    Callers,      \* calls of save_turn and of pop_last_turn
    Saves,        \* those of save_turn: the turn is named like its call
    Threads,      \* owner and thread_id
    ThreadOf,     \* the thread of each call
    Questions,
    QuestionOf,   \* the question of each call
    MaxTurns,     \* agent_session_max_turns
    MaxSessions,  \* agent_session_max_sessions
    Attempts,     \* 3: of a transaction, before the memory takes over
    Faulty,       \* calls that Redis may fail: a bound
    MaxFaults,    \* bound on calls to Redis that raise
    Volatile      \* threads that may expire: a bound

ASSUME CallersAssumption ==
    /\ Saves \subseteq Callers
    /\ ThreadOf \in [Callers -> Threads]
    /\ QuestionOf \in [Callers -> Questions]
    /\ Faulty \subseteq Callers /\ Volatile \subseteq Threads
ASSUME StoresAssumption ==
    /\ MaxTurns \in Nat \ {0} /\ MaxSessions \in Nat \ {0}
    /\ Attempts \in Nat \ {0} /\ MaxFaults \in Nat

VARIABLES
    redis,    \* the turns under each key; a missing key has none
    memory,   \* the turns of _items of the process
    stale,    \* threads whose entry in memory is past its expiry
    recent,   \* the threads in memory, the least recently used first
    call,     \* calls under way: attempt, what was read, whether it changed since
    faults

storeVars == <<redis, memory, stale, recent, call, faults>>

Call == [at : {"idle", "watch", "exec", "done"}, tries : 0..Attempts,
         seen : Seq(Saves), dirty : BOOLEAN, removed : BOOLEAN]

Idle == [at |-> "idle", tries |-> 0, seen |-> <<>>, dirty |-> FALSE, removed |-> FALSE]

StoreTypeOK ==
    /\ redis \in [Threads -> Seq(Saves)]
    /\ memory \in [Threads -> Seq(Saves)]
    /\ stale \subseteq Threads
    /\ recent \in Seq(Threads)
    /\ call \in [Callers -> Call]
    /\ faults \in 0..MaxFaults

StoreInit ==
    /\ redis = [t \in Threads |-> <<>>]
    /\ memory = [t \in Threads |-> <<>>]
    /\ stale = {}
    /\ recent = <<>>
    /\ faults = 0

-----------------------------------------------------------------------------

LastTurns(turns) ==
    IF Len(turns) > MaxTurns THEN SubSeq(turns, Len(turns) - MaxTurns + 1, Len(turns)) ELSE turns

(* _turn_matches: the last turn answers the question of the call.          *)
Matches(c, turns) == turns # <<>> /\ QuestionOf[turns[Len(turns)]] = QuestionOf[c]

(* append_turn and remove_tail; a pop that does not match writes nothing.  *)
Writes(c, turns) == c \in Saves \/ Matches(c, turns)

Updated(c, turns) ==
    IF c \in Saves THEN LastTurns(Append(turns, c)) ELSE SubSeq(turns, 1, Len(turns) - 1)

(* popitem and move_to_end take the entry of t out of the order.           *)
Without(t) ==
    IF \A i \in DOMAIN recent : recent[i] # t THEN recent
    ELSE RemoveAt(recent, CHOOSE i \in DOMAIN recent : recent[i] = t)

Done(c, removed) == [Idle EXCEPT !.at = "done", !.removed = removed]

(* Faulty variant of Touch: the transaction does not WATCH its key.        *)
TouchNobody(t, c, next) == [call EXCEPT ![c] = next]

(* Whoever watches the key of t learns at EXEC that it changed.            *)
Touch(t, c, next) ==
    [d \in Callers |-> IF d = c THEN next
                       ELSE IF call[d].at = "exec" /\ ThreadOf[d] = t
                       THEN [call[d] EXCEPT !.dirty = TRUE] ELSE call[d]]

Fault(c) == c \in Faulty /\ faults < MaxFaults /\ faults' = faults + 1

-----------------------------------------------------------------------------
(* MemoryConversationStore: its lock makes each operation one step.        *)

(* An expired entry is dropped, another one becomes the latest used.       *)
MemoryGet(t) ==
    /\ memory' = IF t \in stale THEN [memory EXCEPT ![t] = <<>>] ELSE memory
    /\ recent' = IF memory[t] = <<>> THEN recent
                 ELSE IF t \in stale THEN Without(t) ELSE Append(Without(t), t)
    /\ stale' = stale \ {t}

MemoryHistory(t) == IF t \in stale THEN <<>> ELSE memory[t]

(* The turn joins what the entry holds, expired or not; beyond max_sessions*)
(* the least recently used entry goes.                                     *)
MemorySave(c, t) ==
    LET used == Append(Without(t), t)
        gone == IF Len(used) > MaxSessions THEN {used[1]} ELSE {}
    IN  /\ memory' = [u \in Threads |->
                        IF u = t THEN Updated(c, memory[t])
                        ELSE IF u \in gone THEN <<>> ELSE memory[u]]
        /\ recent' = IF gone = {} THEN used ELSE Tail(used)
        /\ stale' = stale \ ({t} \cup gone)

(* The expiry stays as it is, and is not looked at.                        *)
MemoryPop(c, t) ==
    IF Matches(c, memory[t])
    THEN /\ memory' = [memory EXCEPT ![t] = Updated(c, @)]
         /\ recent' = IF Len(memory[t]) = 1 THEN Without(t) ELSE recent
         /\ stale' = IF Len(memory[t]) = 1 THEN stale \ {t} ELSE stale
    ELSE UNCHANGED <<memory, recent, stale>>

Fallback(c, t) == IF c \in Saves THEN MemorySave(c, t) ELSE MemoryPop(c, t)

MemoryResult(c, t) == c \notin Saves /\ Matches(c, memory[t])

-----------------------------------------------------------------------------

Begin(c) == call' = [call EXCEPT ![c] = [Idle EXCEPT !.at = "watch"]]

(* WATCH and GET.                                                          *)
Watch(c) ==
    LET t == ThreadOf[c]
    IN  /\ call[c].at = "watch"
        /\ call' = [call EXCEPT ![c] =
                      IF Writes(c, redis[t])
                      THEN [@ EXCEPT !.at = "exec", !.seen = redis[t], !.dirty = FALSE]
                      ELSE Done(c, FALSE)]
        /\ UNCHANGED <<redis, memory, stale, recent, faults>>

(* EXEC succeeds when nobody changed the key.                              *)
Exec(c) ==
    LET t == ThreadOf[c]
    IN  /\ call[c].at = "exec" /\ ~call[c].dirty
        /\ redis' = [redis EXCEPT ![t] = Updated(c, call[c].seen)]
        /\ call' = Touch(t, c, Done(c, c \notin Saves))
        /\ UNCHANGED <<memory, stale, recent, faults>>

(* WatchError: again, and after three attempts the memory takes over.      *)
ExecConflicts(c) ==
    LET t == ThreadOf[c]
    IN  /\ call[c].at = "exec" /\ call[c].dirty
        /\ IF call[c].tries + 1 < Attempts
           THEN /\ call' = [call EXCEPT ![c] = [Idle EXCEPT !.at = "watch", !.tries = call[c].tries + 1]]
                /\ UNCHANGED <<memory, stale, recent>>
           ELSE /\ call' = [call EXCEPT ![c] = Done(c, MemoryResult(c, t))]
                /\ Fallback(c, t)
        /\ UNCHANGED <<redis, faults>>

(* A command raises; EXEC may have been executed all the same.             *)
RedisFails(c) ==
    LET t == ThreadOf[c]
        failed == Done(c, MemoryResult(c, t))
    IN  /\ call[c].at \in {"watch", "exec"}
        /\ Fault(c)
        /\ \/ UNCHANGED redis /\ call' = [call EXCEPT ![c] = failed]
           \/ /\ call[c].at = "exec" /\ ~call[c].dirty
              /\ redis' = [redis EXCEPT ![t] = Updated(c, call[c].seen)]
              /\ call' = Touch(t, c, failed)
        /\ Fallback(c, t)

(* The caller is cancelled; EXEC may have been executed.                   *)
Abandon(c) ==
    LET t == ThreadOf[c]
    IN  \/ UNCHANGED redis /\ call' = [call EXCEPT ![c] = Done(c, FALSE)]
        \/ /\ call[c].at = "exec" /\ ~call[c].dirty
           /\ redis' = [redis EXCEPT ![t] = Updated(c, call[c].seen)]
           /\ call' = Touch(t, c, Done(c, FALSE))

(* GET, or the memory when it raises: the history the caller works with.   *)
Get(c, history) ==
    LET t == ThreadOf[c]
    IN  \/ history = redis[t] /\ UNCHANGED storeVars
        \/ Fault(c) /\ history = MemoryHistory(t) /\ MemoryGet(t) /\ UNCHANGED <<redis, call>>

(* The key expires or is evicted; an entry of the process expires.         *)
RedisForgets(t) ==
    /\ redis[t] # <<>>
    /\ redis' = [redis EXCEPT ![t] = <<>>]
    /\ call' = [d \in Callers |-> IF call[d].at = "exec" /\ ThreadOf[d] = t
                                  THEN [call[d] EXCEPT !.dirty = TRUE] ELSE call[d]]
    /\ UNCHANGED <<memory, stale, recent, faults>>

MemoryExpires(t) ==
    /\ memory[t] # <<>> /\ t \notin stale
    /\ stale' = stale \cup {t}
    /\ UNCHANGED <<redis, memory, recent, call, faults>>

StoreStep(c) == Watch(c) \/ Exec(c) \/ ExecConflicts(c) \/ RedisFails(c)

Expiry == \E t \in Volatile : RedisForgets(t) \/ MemoryExpires(t)

-----------------------------------------------------------------------------

RedisLog == INSTANCE TurnLog WITH log <- redis, Turns <- Saves
MemoryLog == INSTANCE TurnLog WITH log <- memory, Turns <- Saves

(* Both stores are logs of turns: concurrent appends do not overwrite each *)
(* other, an undone turn is the last one (docs/AUTH_AND_SESSION.md).       *)
StoresAreLogs == RedisLog!LogSpec /\ MemoryLog!LogSpec
=============================================================================
