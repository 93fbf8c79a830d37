---------------------------- MODULE MCAiRequests ----------------------------
(* Small instances of Assistant, and of AiRequests under it, for TLC.      *)
EXTENDS Assistant

(* r1 and r2 are two questions of p1 in one thread, the second a           *)
(* repetition of the first; p2 tests its connection and asks anything; in  *)
(* r5 it states a preference, in r6 it refers to what was said before.     *)
(* u1 to u3 are what the page of p1 asks when no other calls come: the     *)
(* first two in the thread it opens with, the third in the next.           *)
MCPrincipalOf == [r1 |-> "p1", r2 |-> "p1", r3 |-> "p2", r4 |-> "p2", r5 |-> "p2", r6 |-> "p2",
                  u1 |-> "p1", u2 |-> "p1", u3 |-> "p1"]
MCKind == [r1 |-> "stream", r2 |-> "query", r3 |-> "test", r4 |-> "stream",
           r5 |-> "query", r6 |-> "query",
           u1 |-> "stream", u2 |-> "stream", u3 |-> "stream"]
MCThreadOf == [r1 |-> "t1", r2 |-> "t1", r3 |-> "t1", r4 |-> "t2", r5 |-> "t3", r6 |-> "t3",
               pop |-> "t1", u1 |-> "t4", u2 |-> "t4", u3 |-> "t5", upop |-> "t4"]
MCQuestionOf == [r1 |-> "a", r2 |-> "a", r3 |-> "b", r4 |-> "b", r5 |-> "b", r6 |-> "a",
                 pop |-> "a", u1 |-> "a", u2 |-> "a", u3 |-> "b", upop |-> "a"]
MCArrivals == {{"r1", "r2", "pop"}, {"r2", "r3"}, {"r3", "r4"}, {"r5", "r6"}, {}}
MCQuestion(intent, analysis) == [intent |-> intent, analysis |-> analysis]
MCAsks ==
    [r1 |-> {MCQuestion("clarification", FALSE)},
     r2 |-> {MCQuestion("blocked", FALSE)},
     r3 |-> {},
     r4 |-> {MCQuestion("knowledge", FALSE), MCQuestion("data", FALSE),
             MCQuestion("data", TRUE), MCQuestion("hybrid", TRUE)},
     r5 |-> {MCQuestion("knowledge", FALSE)},
     r6 |-> {MCQuestion("knowledge", FALSE)},
     u1 |-> {MCQuestion("clarification", FALSE)},
     u2 |-> {MCQuestion("clarification", FALSE)},
     u3 |-> {MCQuestion("clarification", FALSE)}]
MCStates == [r \in DOMAIN MCKind |-> IF r \in {"r5", "r6"} THEN {"role"} ELSE {}]
MCPageThreads == <<"t4", "t5">>
=============================================================================
