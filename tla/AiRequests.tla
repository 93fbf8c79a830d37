----------------------------- MODULE AiRequests -----------------------------
(***************************************************************************)
(* POST /api/ai/query, /stream, /test and /pop-last-turn (routes/ai.py):   *)
(* a request passes the limits, works through the graph of the agent with  *)
(* the conversation store and the memories, and leaves an audit row.  A    *)
(* query and a test give their slot back before they write it, a stream    *)
(* after.  Requests time out, clients leave their stream, audit rows are   *)
(* lost; GET and DELETE of memories and episodes are MemoryStep.           *)
(***************************************************************************)
EXTENDS AgentGraph, AiLimits, Conversations, Memories

CONSTANTS
    Kind,      \* "query", "stream" or "test", per request
    Asks,      \* what each question may be about
    Pops,      \* calls of /pop-last-turn
    Arrivals   \* the sets of calls that come in one behaviour: a bound

ASSUME RequestsAssumption ==
    /\ Kind \in [Requests -> {"query", "stream", "test"}]
    /\ Asks \in [Requests -> SUBSET Question]
    /\ Saves = Requests /\ Sources = Requests
    /\ Owners = Principals /\ OwnerOf = PrincipalOf
    /\ Callers = Requests \cup Pops /\ Pops \cap Requests = {}
    /\ Arrivals \subseteq SUBSET Callers

(* The keys of both stores hold the owner of a thread besides its name; a  *)
(* test has none.                                                          *)
ASSUME ThreadsAssumption ==
    \A q, r \in Requests :
        "test" \notin {Kind[q], Kind[r]} /\ ThreadOf[q] = ThreadOf[r] =>
            PrincipalOf[q] = PrincipalOf[r]

VARIABLES
    pc,       \* where each request is in its handler
    counted,  \* the rows of today its session sees for its principal
    run,      \* the state of its graph
    context,  \* the history it was answered with
    outcome   \* how its work ended, until its row is written

vars == <<pc, counted, run, context, outcome, limitVars, used, storeVars, memoryVars>>

TypeOK ==
    /\ LimitsTypeOK
    /\ StoreTypeOK
    /\ MemoriesTypeOK
    /\ pc \in [Requests -> {"new", "limits", "queue", "running", "denied", "audit", "done"}]
    /\ counted \in [Requests -> Nat]
    /\ run \in [Requests -> RuntimeState]
    /\ context \in [Requests -> Seq(Requests)]
    /\ outcome \in [Requests -> {"none", "success", "error", "timeout", "cancelled"}]

NoRun == [Start([intent |-> "blocked", analysis |-> FALSE]) EXCEPT !.node = "end"]

Init ==
    /\ LimitsInit
    /\ StoreInit
    /\ MemoriesInit
    /\ \E coming \in Arrivals :
         /\ pc = [r \in Requests |-> IF r \in coming THEN "new" ELSE "done"]
         /\ call = [c \in Callers |-> IF c \in coming THEN Idle ELSE Done(c, FALSE)]
    /\ counted = [r \in Requests |-> 0]
    /\ run = [r \in Requests |-> NoRun]
    /\ context = [r \in Requests |-> <<>>]
    /\ outcome = [r \in Requests |-> "none"]

Goto(r, where) == pc' = [pc EXCEPT ![r] = where]

-----------------------------------------------------------------------------
(* Before the work.                                                        *)

(* get_principal opens the snapshot that ensure_quota counts in; headers   *)
(* with a model the deployment does not allow are refused.                 *)
Authenticate(r) ==
    /\ pc[r] = "new"
    /\ \/ /\ Goto(r, "limits")
          /\ counted' = [counted EXCEPT ![r] = used[PrincipalOf[r]]]
       \/ Goto(r, "done") /\ UNCHANGED counted
    /\ UNCHANGED <<run, context, outcome, limitVars, used, storeVars>>

(* The work begins.                                                        *)
Run(r) ==
    /\ Goto(r, "running")
    /\ IF Kind[r] = "test" THEN UNCHANGED run
       ELSE \E question \in Asks[r] : run' = [run EXCEPT ![r] = Start(question)]

AcquireSlot(r) ==
    /\ pc[r] = "limits"
    /\ \/ /\ counted[r] >= DailyLimit \/ inflight[PrincipalOf[r]] >= MaxInflight
          /\ Goto(r, "denied")
          /\ UNCHANGED <<run, limitVars>>
       \/ /\ counted[r] < DailyLimit
          /\ Enter(r)
          /\ IF Locked THEN Goto(r, "queue") /\ UNCHANGED run ELSE Run(r)
    /\ counted' = [counted EXCEPT ![r] = 0]
    /\ UNCHANGED <<context, outcome, used, storeVars>>

Resume(r) ==
    /\ TakeUp(r)
    /\ Run(r)
    /\ UNCHANGED <<counted, context, outcome, used, storeVars>>

GiveUpQueue(r) ==
    /\ QueueTimeout(r)
    /\ Goto(r, "denied")
    /\ UNCHANGED <<counted, run, context, outcome, used, storeVars>>

(* A denial leaves a row that does not count.                              *)
Deny(r) ==
    /\ pc[r] = "denied"
    /\ Goto(r, "done")
    /\ UNCHANGED <<counted, run, context, outcome, limitVars, used, storeVars>>

-----------------------------------------------------------------------------
(* The work of a query or a stream.                                        *)

Working(r) == pc[r] = "running" /\ Kind[r] # "test"

Node(r) ==
    /\ Working(r)
    /\ \E s \in Results(run[r]) : run' = [run EXCEPT ![r] = s]
    /\ UNCHANGED <<pc, counted, context, outcome, limitVars, used, storeVars>>

LoadHistory(r) ==
    /\ Working(r)
    /\ run[r].node = "load_history"
    /\ \E history \in {redis[ThreadOf[r]], MemoryHistory(ThreadOf[r])} :
         /\ Get(r, history)
         /\ run' = [run EXCEPT ![r] = To(@, "load_memory")]
         /\ context' = [context EXCEPT ![r] = history]
    /\ UNCHANGED <<pc, counted, outcome, limitVars, used>>

SaveSession(r) ==
    /\ Working(r)
    /\ run[r].node = "save_session"
    /\ \/ call[r].at = "idle" /\ Begin(r)
          /\ UNCHANGED <<run, redis, memory, stale, recent, faults>>
       \/ StoreStep(r) /\ UNCHANGED run
       \/ /\ call[r].at = "done"
          /\ run' = [run EXCEPT ![r] = To(@, "save_memory")]
          /\ call' = [call EXCEPT ![r] = Idle]
          /\ UNCHANGED <<redis, memory, stale, recent, faults>>
    /\ UNCHANGED <<pc, counted, context, outcome, limitVars, used>>

(* The memories of the principal: errors of them are ignored; there is no  *)
(* summary of an answer that is none.                                      *)
MemoryNode(r) ==
    /\ Working(r)
    /\ \/ /\ run[r].node = "load_memory"
          /\ Recall(r)
          /\ run' = [run EXCEPT ![r] = To(@, "route")]
       \/ /\ run[r].node = "save_memory"
          /\ \/ run[r].intent # "blocked" /\ RememberTurn(r)
             \/ UNCHANGED memoryVars
          /\ run' = [run EXCEPT ![r] = To(@, "save_episode")]
       \/ /\ run[r].node = "save_episode"
          /\ \/ Worth(run[r]) /\ Remember(r)
             \/ UNCHANGED memoryVars
          /\ run' = [run EXCEPT ![r] = To(@, "finalize")]
    /\ UNCHANGED <<pc, counted, context, outcome, limitVars, used, storeVars>>

(* What is under way is cancelled where it waits.                          *)
CancelRun(r) ==
    IF call[r].at \in {"watch", "exec"}
    THEN Abandon(r) /\ UNCHANGED <<memory, stale, recent, faults>>
    ELSE UNCHANGED storeVars

(* The state of the graph is gone with its answer; a stream still has its  *)
(* slot.                                                                   *)
Ends(r, how) ==
    /\ Goto(r, "audit")
    /\ run' = [run EXCEPT ![r] = NoRun]
    /\ outcome' = [outcome EXCEPT ![r] = how]
    /\ IF Kind[r] = "stream" THEN UNCHANGED limitVars ELSE Release(r)

Succeed(r) ==
    /\ Working(r)
    /\ run[r].node = "end"
    /\ Ends(r, "success")
    /\ UNCHANGED <<counted, context, used, storeVars>>

(* No runtime for this configuration, or an error that its node does not   *)
(* catch (the stores catch theirs), or its wait_for gives up.              *)
BreakOff(r) ==
    /\ Working(r)
    /\ \/ call[r].at \in {"idle", "done"} /\ Ends(r, "error") /\ UNCHANGED storeVars
       \/ Ends(r, "timeout") /\ CancelRun(r)
    /\ UNCHANGED <<counted, context, used>>

(* test_model_connection: no graph, and a timeout is an error.             *)
TestEnds(r) ==
    /\ pc[r] = "running" /\ Kind[r] = "test"
    /\ Ends(r, "success") \/ Ends(r, "error")
    /\ UNCHANGED <<counted, context, used, storeVars>>

-----------------------------------------------------------------------------
(* After the work.                                                         *)

(* audit_ai_query swallows its own errors.                                 *)
Audited(r) ==
    \/ used' = [used EXCEPT ![PrincipalOf[r]] = @ + 1]
    \/ UNCHANGED used

(* Faulty variant of WriteAudit: the slot of a stream goes with the row.   *)
WriteAuditOrKeepSlot(r) ==
    /\ pc[r] = "audit"
    /\ IF Kind[r] = "stream"
       THEN \/ used' = [used EXCEPT ![PrincipalOf[r]] = @ + 1] /\ Release(r)
            \/ UNCHANGED <<used, limitVars>>
       ELSE Audited(r) /\ UNCHANGED limitVars
    /\ Goto(r, "done")
    /\ outcome' = [outcome EXCEPT ![r] = "none"]
    /\ UNCHANGED <<counted, run, context, storeVars>>

WriteAudit(r) ==
    /\ pc[r] = "audit"
    /\ Audited(r)
    /\ IF Kind[r] = "stream" THEN Release(r) ELSE UNCHANGED limitVars
    /\ Goto(r, "done")
    /\ outcome' = [outcome EXCEPT ![r] = "none"]
    /\ UNCHANGED <<counted, run, context, storeVars>>

(* Faulty variant of Disconnect: the slot is free before the producer is.  *)
DisconnectAndRelease(r) ==
    /\ Working(r) /\ Kind[r] = "stream"
    /\ Release(r)
    /\ UNCHANGED <<pc, counted, run, context, outcome, used, storeVars>>

(* The client leaves its stream: the producer is cancelled, in its work or *)
(* while it writes its row.                                                *)
Disconnect(r) ==
    /\ Kind[r] = "stream"
    /\ \/ /\ Working(r)
          /\ Ends(r, "cancelled") /\ CancelRun(r)
          /\ UNCHANGED used
       \/ /\ pc[r] = "audit" /\ outcome[r] = "success"
          /\ Audited(r)
          /\ outcome' = [outcome EXCEPT ![r] = "cancelled"]
          /\ UNCHANGED <<pc, run, limitVars, storeVars>>
    /\ UNCHANGED <<counted, context>>

(* /pop-last-turn, outside of the limits.                                  *)
Pop(c) ==
    /\ \/ call[c].at = "idle" /\ Begin(c)
          /\ UNCHANGED <<redis, memory, stale, recent, faults>>
       \/ StoreStep(c)
    /\ UNCHANGED <<pc, counted, run, context, outcome, limitVars, used>>

StoresForget ==
    /\ Expiry
    /\ UNCHANGED <<pc, counted, run, context, outcome, limitVars, used>>

Handler(r) ==
    \/ Authenticate(r) \/ AcquireSlot(r) \/ Resume(r) \/ GiveUpQueue(r) \/ Deny(r)
    \/ Node(r) \/ LoadHistory(r) \/ SaveSession(r) \/ Succeed(r) \/ BreakOff(r)
    \/ TestEnds(r) \/ WriteAudit(r)

Step(r) == (Handler(r) /\ UNCHANGED memoryVars) \/ MemoryNode(r)

Next ==
    \/ \E r \in Requests : Step(r)
    \/ \E r \in Requests : Disconnect(r) /\ UNCHANGED memoryVars
    \/ \E c \in Pops : Pop(c) /\ UNCHANGED memoryVars
    \/ StoresForget /\ UNCHANGED memoryVars
    \/ MemoryStep /\ UNCHANGED <<pc, counted, run, context, outcome, limitVars, used, storeVars>>

Spec == Init /\ [][Next]_vars

(* The event loop runs someone who can go on; waits for a slot and for an  *)
(* answer end by their timeouts.                                           *)
FairSpec == Spec /\ WF_vars(\E r \in Requests : Step(r))

-----------------------------------------------------------------------------

(* The answer of every query rests on its own evidence, and no path asks   *)
(* the model without end (runtime.py, the three conditional edges that     *)
(* share retry_count).                                                     *)
AnswersRestOnEvidence ==
    \A r \in Requests : Bounded(run[r]) /\ RestsOnEvidence(run[r])

(* A question that follows another one in a thread was answered with the   *)
(* other one in its context: one query per principal runs at a time, to    *)
(* the end of its store operations, so long as Redis answers (ai_limits.py *)
(* with session.py).                                                       *)
ContextIsComplete ==
    MaxInflight = 1 /\ faults = 0 =>
        \A t \in Threads : \A i \in 2..Len(redis[t]) :
            \E j \in DOMAIN context[redis[t][i]] : context[redis[t][i]][j] = redis[t][i - 1]

(* What its owner deleted, what was replaced, pruned or is over, never     *)
(* comes back into an answer, although summaries are embedded long after   *)
(* their turn (episode_memory_service.py, _embed_episode).                 *)
ForgottenStaysForgotten ==
    [][\A r \in Requests : (recalled'[r] \ recalled[r]) \cap (deleted \cup expired) = {}]_vars

(* Every slot comes back, whatever becomes of its request and its audit:   *)
(* the calls of a behaviour are bounded, so again and again none is held.  *)
SlotsComeBack == []<>(\A r \in Requests : slot[r] \in {"out", "released"})
=============================================================================
