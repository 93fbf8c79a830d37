------------------------------- MODULE TurnLog -------------------------------
(***************************************************************************)
(* What a store of conversations promises (agent_core/session.py): per     *)
(* thread a list of the last turns.  A turn is added to the list as it is, *)
(* or the last turn is taken away, or the whole list is forgotten;         *)
(* concurrent callers never overwrite each other's turns.                  *)
(***************************************************************************)
EXTENDS Naturals, Sequences

CONSTANTS Threads, Turns, MaxTurns

VARIABLE log   \* the turns of each thread

LogTypeOK == log \in [Threads -> Seq(Turns)]

(* messages[-max_messages:]                                                *)
LastTurns(turns) ==
    IF Len(turns) > MaxTurns THEN SubSeq(turns, Len(turns) - MaxTurns + 1, Len(turns)) ELSE turns

Add(t) == \E turn \in Turns : log'[t] = LastTurns(Append(log[t], turn))

TakeBack(t) == log[t] # <<>> /\ log'[t] = SubSeq(log[t], 1, Len(log[t]) - 1)

Forget(t) == log'[t] = <<>>

Keep(t) == log'[t] = log[t]

LogNext ==
    /\ log' \in [Threads -> Seq(Turns)]
    /\ \A t \in Threads : Keep(t) \/ Add(t) \/ TakeBack(t) \/ Forget(t)

LogInit == log = [t \in Threads |-> <<>>]

LogSpec == LogInit /\ [][LogNext]_log
=============================================================================
