------------------------------ MODULE Assistant ------------------------------
(***************************************************************************)
(* The page of the assistant (ai-ecommerce-assistant/app.py), one browser  *)
(* session on top of AiRequests.  The script runs from top to bottom for   *)
(* every click; a click while it streams an answer or takes one back ends  *)
(* that run where it is.  What the session remembers survives: messages,   *)
(* thread_id, pending_question and the ratings.  A run that finds the      *)
(* login expired does nothing (verify_session).                            *)
(***************************************************************************)
EXTENDS AiRequests

CONSTANTS
    PageAsks,      \* requests the page may send
    PagePops,      \* calls of /pop-last-turn it may send
    PageThreads,   \* thread_ids it generates, in this order: a bound
    MaxAsks,       \* turns of one session: a bound
    Nothing

(* A thread_id is a fresh uuid4, so no two threads of a page are the same. *)
ASSUME PageAssumption ==
    /\ PageAsks \subseteq Requests /\ PagePops \subseteq Pops
    /\ PageThreads \in Seq(Threads) /\ PageThreads # <<>> /\ IsInjective(PageThreads)
    /\ MaxAsks \in Nat
    /\ Nothing \notin Requests \cup Questions

VARIABLES
    page,       \* what the script is doing
    thread,     \* the place of its thread_id in PageThreads
    messages,   \* question, answer, failure or local answer of a turn
    pending,    \* pending_question
    rated,      \* answers rated "needs improvement"
    current,    \* the turn, or the call of pop, the script waits for
    heard,      \* the last event of its stream
    asked,      \* turns the page has made: history
    gone,       \* turns the user has cleared or replaced: history
    kept,       \* those replaced that were not taken back: history
    without     \* gone when each turn was asked: history

pageVars == <<page, thread, messages, pending, rated, current, heard, asked, gone, kept, without>>
allVars == <<vars, pageVars>>

Message == [turn : PageAsks, is : {"question", "answer", "failure", "local"}]

PageTypeOK ==
    /\ TypeOK
    /\ page \in {"closed", "ready", "streaming", "popping"}
    /\ thread \in DOMAIN PageThreads
    /\ messages \in Seq(Message)
    /\ pending \in Questions \cup {Nothing}
    /\ rated \subseteq PageAsks
    /\ current \in PageAsks \cup PagePops \cup {Nothing}
    /\ heard \in {"none", "success", "error", "timeout", "cancelled"}
    /\ asked \subseteq PageAsks /\ gone \subseteq PageAsks /\ kept \subseteq gone
    /\ without \in [PageAsks -> SUBSET PageAsks]

(* The page is open in behaviours without other calls: a bound.            *)
PageInit ==
    /\ Init
    /\ page = IF \A r \in Requests : pc[r] = "done" THEN "ready" ELSE "closed"
    /\ thread = 1 /\ messages = <<>> /\ pending = Nothing /\ rated = {}
    /\ current = Nothing /\ heard = "none"
    /\ asked = {} /\ gone = {} /\ kept = {} /\ without = [r \in PageAsks |-> {}]

-----------------------------------------------------------------------------

Says(r, what) == [turn |-> r, is |-> what]

(* A turn in the current thread; a question left over from an earlier run  *)
(* comes before what was typed.                                            *)
MayAsk(r) ==
    /\ page = "ready"
    /\ r \in PageAsks \ asked /\ Cardinality(asked) < MaxAsks
    /\ ThreadOf[r] = PageThreads[thread]
    /\ pending \in {Nothing, QuestionOf[r]}

TakesTheQuestion(r) ==
    /\ MayAsk(r)
    /\ asked' = asked \cup {r}
    /\ pending' = Nothing

(* The question joins the messages, then the stream begins.                *)
Ask(r) ==
    /\ TakesTheQuestion(r)
    /\ messages' = Append(messages, Says(r, "question"))
    /\ page' = "streaming" /\ current' = r /\ heard' = "none"
    /\ without' = [without EXCEPT ![r] = gone]
    /\ pc' = [pc EXCEPT ![r] = "new"]
    /\ call' = [call EXCEPT ![r] = Idle]
    /\ UNCHANGED <<thread, rated, gone, kept, counted, run, context, outcome, limitVars, used,
                   redis, memory, stale, recent, faults, memoryVars>>

(* No model, no database or a sensitive question: answered on the page.    *)
AnswerLocally(r) ==
    /\ TakesTheQuestion(r)
    /\ messages' = messages \o <<Says(r, "question"), Says(r, "local")>>
    /\ UNCHANGED <<page, thread, rated, current, heard, gone, kept, without, vars>>

(* The stream has ended: with the final event, with an error that is shown *)
(* as an answer, or with a login that has expired, which is not.           *)
Show(r) ==
    /\ page = "streaming" /\ current = r /\ pc[r] = "done"
    /\ \/ heard = "success" /\ messages' = Append(messages, Says(r, "answer"))
       \/ heard # "success" /\ messages' = Append(messages, Says(r, "failure"))
       \/ heard = "none" /\ UNCHANGED messages
    /\ page' = "ready" /\ current' = Nothing /\ heard' = "none"
    /\ UNCHANGED <<thread, pending, rated, asked, gone, kept, without, vars>>

(* The connection breaks, perhaps after the final event.                   *)
StreamBreaks ==
    /\ page = "streaming"
    /\ messages' = Append(messages, Says(current, "failure"))
    /\ page' = "ready" /\ current' = Nothing /\ heard' = "none"
    /\ UNCHANGED <<thread, pending, rated, asked, gone, kept, without, vars>>

(* A click ends the run under way.                                         *)
Interrupt ==
    /\ page \in {"streaming", "popping"}
    /\ page' = "ready" /\ current' = Nothing /\ heard' = "none"
    /\ UNCHANGED <<thread, messages, pending, rated, asked, gone, kept, without, vars>>

(* Faulty variant of Clear: the thread stays.                              *)
ClearMessages ==
    /\ page = "ready" /\ thread < Len(PageThreads)
    /\ messages' = <<>>
    /\ gone' = asked
    /\ UNCHANGED <<page, thread, pending, rated, current, heard, asked, kept, without, vars>>

(* No messages, a new thread; a pending question stays.                    *)
Clear ==
    /\ page = "ready" /\ thread < Len(PageThreads)
    /\ messages' = <<>>
    /\ thread' = thread + 1
    /\ gone' = asked
    /\ UNCHANGED <<page, pending, rated, current, heard, asked, kept, without, vars>>

Rate(i) ==
    /\ page = "ready" /\ messages[i].is = "answer"
    /\ rated' = rated \cup {messages[i].turn}
    /\ UNCHANGED <<page, thread, messages, pending, current, heard, asked, gone, kept, without, vars>>

(* The question of message i is pending, the backend is asked to take its  *)
(* last turn back if it answers this question.                             *)
Regenerate(i, c) ==
    /\ page = "ready" /\ messages[i].is = "answer" /\ messages[i].turn \in rated
    /\ c \in PagePops /\ call[c].at = "done" /\ ~call[c].removed
    /\ ThreadOf[c] = PageThreads[thread] /\ QuestionOf[c] = QuestionOf[messages[i].turn]
    /\ pending' = QuestionOf[c]
    /\ call' = [call EXCEPT ![c] = Idle]
    /\ page' = "popping" /\ current' = c
    /\ UNCHANGED <<thread, messages, rated, heard, asked, gone, kept, without,
                   pc, counted, run, context, outcome, limitVars, used,
                   redis, memory, stale, recent, faults, memoryVars>>

(* The turns of this thread that answered the question of c.               *)
Answering(c) ==
    {r \in asked : ThreadOf[r] = ThreadOf[c] /\ QuestionOf[r] = QuestionOf[c]}

(* The backend has answered that it took the one turn of this question     *)
(* back: with another one behind it, it leaves it; of two it takes one.    *)
TakenBack(r, c) == call[c].removed /\ Answering(c) = {r}

(* Whatever the answer, or none in time: the message goes, and the         *)
(* question before it.                                                     *)
Replace(i) ==
    /\ page = "popping" /\ messages[i].is = "answer"
    /\ QuestionOf[messages[i].turn] = QuestionOf[current] /\ messages[i].turn \in rated
    /\ messages' = IF i > 1 /\ messages[i - 1].is = "question"
                   THEN RemoveAt(RemoveAt(messages, i), i - 1) ELSE RemoveAt(messages, i)
    /\ gone' = gone \cup {messages[i].turn}
    /\ kept' = IF TakenBack(messages[i].turn, current) THEN kept ELSE kept \cup {messages[i].turn}
    /\ page' = "ready" /\ current' = Nothing
    /\ UNCHANGED <<thread, pending, rated, heard, asked, without, vars>>

-----------------------------------------------------------------------------

(* The script reads the events of the turn it waits for.                   *)
Hear ==
    /\ heard' = IF /\ page = "streaming"
                   /\ outcome'[current] \notin {outcome[current], "none"}
                THEN outcome'[current] ELSE heard
    /\ UNCHANGED <<page, thread, messages, pending, rated, current, asked, gone, kept, without>>

PageStep ==
    \/ \E r \in PageAsks : Ask(r) \/ AnswerLocally(r) \/ Show(r)
    \/ StreamBreaks \/ Interrupt \/ Clear
    \/ \E i \in DOMAIN messages : Rate(i) \/ Replace(i) \/ \E c \in PagePops : Regenerate(i, c)

PageNext == (Next /\ Hear) \/ PageStep

PageSpec == PageInit /\ [][PageNext]_allVars

(* The fairness of AiRequests.                                             *)
FairPageSpec == PageSpec /\ WF_allVars(\E r \in Requests : Step(r) /\ Hear)

-----------------------------------------------------------------------------

(* What the user has cleared is not in the context of later answers        *)
(* ("otherwise the next question after clearing still injects up to 6 old  *)
(* turns", app.py:937-938), although streams and calls that were           *)
(* interrupted go on in the backend; and of what was replaced, nothing     *)
(* that the backend said it took back (app.py:1015), as long as Redis      *)
(* answers.  The page deletes an answer in any case: one that is not the   *)
(* last of its thread, of a question asked again, or whose call failed,    *)
(* goes from the page and stays in the context (kept), within its thread.  *)
PromptsFollowThePage ==
    faults = 0 =>
        \A r \in PageAsks : \A u \in Range(context[r]) \cap without[r] :
            u \in kept /\ ThreadOf[u] = ThreadOf[r]
=============================================================================
