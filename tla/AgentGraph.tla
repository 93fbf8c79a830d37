----------------------------- MODULE AgentGraph -----------------------------
(***************************************************************************)
(* The graph that answers one question (agent_core/runtime.py): each node  *)
(* as the set of states it may leave behind, the edge to the next node     *)
(* included.  Model, database and retrieval are outside: a call returns or *)
(* raises.  The nodes that use the conversation store and the memories are *)
(* in AiRequests.                                                          *)
(***************************************************************************)
EXTENDS Naturals, Sequences, FiniteSets

Intents == {"blocked", "clarification", "knowledge", "data", "hybrid"}

(* refund_analysis.TOOLS, in the order of the tuple.                       *)
Tools == {"overall", "platform", "product"}

(* The SQL of the first and of the second generation, and of the tools.    *)
Candidates == {"sql1", "sql2"}
NoSql == "none"

Nodes == {"input_safety", "load_history", "load_memory", "route", "safe_response",
          "retrieve", "load_schema", "generate_sql", "validate_sql", "execute_sql",
          "analysis_plan", "analysis_execute", "synthesize", "save_session",
          "save_memory", "save_episode", "finalize", "end"}

Answers == {"none", "safe", "failed", "interrupted", "note", "unavailable", "answer"}

(* generated, sql and rows tell which statement the candidate, the checked *)
(* statement and the rows belong to.  compared: what the first tool showed.*)
(* calls counts calls of the model, nodes the nodes of the graph: history. *)
RuntimeState ==
    [node : Nodes, intent : Intents, analysis : BOOLEAN,
     sqlError : BOOLEAN, retries : 0..2, generated : Candidates \cup {NoSql},
     sql : Candidates \cup Tools \cup {NoSql}, rows : Candidates \cup Tools \cup {NoSql},
     evidence : SUBSET Tools, compared : {"nothing", "falling", "rising"},
     action : Tools \cup {NoSql}, analysisError : BOOLEAN, note : BOOLEAN,
     answer : Answers, calls : Nat, nodes : Nat]

(* A question as routing.py and refund_analysis.py classify it.            *)
Question == [intent : Intents, analysis : BOOLEAN]

Start(question) ==
    [node |-> "input_safety", intent |-> question.intent, analysis |-> question.analysis,
     sqlError |-> FALSE, retries |-> 0, generated |-> NoSql, sql |-> NoSql, rows |-> NoSql,
     evidence |-> {}, compared |-> "nothing", action |-> NoSql, analysisError |-> FALSE,
     note |-> FALSE, answer |-> "none", calls |-> 0, nodes |-> 0]

To(s, node) == [s EXCEPT !.node = node, !.nodes = @ + 1]

Called(s) == [s EXCEPT !.calls = @ + 1]

-----------------------------------------------------------------------------
(* Before the work: safety and routing.                                    *)

InputSafety(s) == {To(s, "load_history")}

Route(s) ==
    {To(s, CASE s.intent \in {"blocked", "clarification"} -> "safe_response"
             [] s.intent \in {"knowledge", "hybrid"} -> "retrieve"
             [] OTHER -> "load_schema")}

SafeResponse(s) == {To([s EXCEPT !.answer = "safe"], "save_session")}

(* Without sources when the retrieval fails.                               *)
Retrieve(s) == {To(s, IF s.intent = "hybrid" THEN "load_schema" ELSE "synthesize")}

LoadSchema(s) ==
    {To(s, IF s.analysis THEN "analysis_plan" ELSE "generate_sql"),
     To([s EXCEPT !.sqlError = TRUE], "synthesize")}

-----------------------------------------------------------------------------
(* Generation, validation and execution share one count of retries.        *)

(* Faulty variant of SqlFailed: the count starts again with each node.     *)
SqlFailedAlone(s) ==
    To([s EXCEPT !.sqlError = TRUE, !.retries = IF s.node = "generate_sql" /\ @ < 2 THEN @ + 1 ELSE 1],
       IF s.node = "generate_sql" /\ s.retries + 1 > 1 THEN "synthesize" ELSE "generate_sql")

SqlFailed(s) ==
    To([s EXCEPT !.sqlError = TRUE, !.retries = @ + 1],
       IF s.retries + 1 <= 1 THEN "generate_sql" ELSE "synthesize")

GenerateSql(s) ==
    {To([Called(s) EXCEPT !.generated = IF s.retries = 0 THEN "sql1" ELSE "sql2",
                          !.sqlError = FALSE], "validate_sql"),
     SqlFailed([Called(s) EXCEPT !.generated = NoSql])}

ValidateSql(s) ==
    {To([s EXCEPT !.sql = s.generated], "execute_sql"), SqlFailed(s)}

(* Faulty variant of ExecuteSql: the last attempt ends without its error.  *)
ExecuteSqlForgettingError(s) ==
    {To([s EXCEPT !.rows = s.sql, !.sqlError = FALSE], "synthesize"),
     IF s.retries = 0 THEN SqlFailed(s) ELSE To(s, "synthesize")}

ExecuteSql(s) ==
    {To([s EXCEPT !.rows = s.sql, !.sqlError = FALSE], "synthesize"), SqlFailed(s)}

-----------------------------------------------------------------------------
(* The analysis of refunds: the overall comparison, then tools the model   *)
(* chooses, each at most once.                                             *)

Planned(s, tool) == To([s EXCEPT !.action = tool], "analysis_execute")

Finished(s) == To([s EXCEPT !.action = NoSql], "synthesize")

AnalysisPlan(s) ==
    IF s.evidence = {} THEN {Planned(s, "overall")}
    ELSE IF Cardinality(s.evidence) >= 3 THEN {Finished(s)}
    ELSE IF s.compared # "rising" THEN {[Finished(s) EXCEPT !.note = TRUE]}
    ELSE {Finished(Called(s)),
          [Finished(Called(s)) EXCEPT !.sqlError = TRUE, !.analysisError = TRUE]}
         \cup {Planned(Called(s), tool) : tool \in {"platform", "product"} \ s.evidence}

AnalysisExecute(s) ==
    {To([s EXCEPT !.sqlError = TRUE, !.analysisError = TRUE], "synthesize")}
    \cup {To([s EXCEPT !.sql = s.action, !.rows = s.action, !.sqlError = FALSE,
                       !.evidence = @ \cup {s.action}, !.compared = c], "analysis_plan") :
          c \in IF s.action = "overall" THEN {"falling", "rising"} ELSE {s.compared}}

-----------------------------------------------------------------------------

Synthesize(s) ==
    IF s.sqlError
    THEN {To([s EXCEPT !.answer = IF s.analysisError THEN "interrupted" ELSE "failed"],
             "save_session")}
    ELSE IF s.note
    THEN {To([s EXCEPT !.answer = "note"], "save_session")}
    ELSE {To([Called(s) EXCEPT !.answer = a], "save_session") : a \in {"answer", "unavailable"}}

(* build_episode_summary drops answers that begin with a warning.          *)
Worth(s) == s.intent \notin {"blocked", "clarification"} /\ s.answer \in {"answer", "note"}

Finalize(s) == {To(s, "end")}

(* What a node that needs no store and no memory may leave behind.         *)
Results(s) ==
    CASE s.node = "input_safety"     -> InputSafety(s)
      [] s.node = "route"            -> Route(s)
      [] s.node = "safe_response"    -> SafeResponse(s)
      [] s.node = "retrieve"         -> Retrieve(s)
      [] s.node = "load_schema"      -> LoadSchema(s)
      [] s.node = "generate_sql"     -> GenerateSql(s)
      [] s.node = "validate_sql"     -> ValidateSql(s)
      [] s.node = "execute_sql"      -> ExecuteSql(s)
      [] s.node = "analysis_plan"    -> AnalysisPlan(s)
      [] s.node = "analysis_execute" -> AnalysisExecute(s)
      [] s.node = "synthesize"       -> Synthesize(s)
      [] s.node = "finalize"         -> Finalize(s)
      [] OTHER                       -> {}

-----------------------------------------------------------------------------

(* No path asks the model more than three times, nor visits more than the  *)
(* 25 nodes that LangGraph allows, although three nodes share the retries. *)
Bounded(s) == s.calls <= 3 /\ s.nodes <= 25

(* What the user reads rests on what is reported with it: an answer to a   *)
(* question about data comes from rows of the very statement reported, a   *)
(* failed statement is never answered from the rows of another one.        *)
RestsOnEvidence(s) ==
    /\ s.rows # NoSql => s.rows = s.sql
    /\ s.answer \in {"answer", "unavailable", "note"} => ~s.sqlError
    /\ s.answer = "answer" /\ s.intent \in {"data", "hybrid"} =>
         \/ s.rows \in Candidates /\ s.rows = s.generated
         \/ s.rows \in Tools /\ s.rows \in s.evidence /\ "overall" \in s.evidence
    /\ s.answer = "failed" => s.rows = NoSql
=============================================================================
