--------------------------------- MODULE Rfm ---------------------------------
(***************************************************************************)
(* Recency, frequency and monetary value of customers, computed twice: by  *)
(* the API in SQL (rfm_service.py) and by the dashboard from the rows it   *)
(* has read (bi_rfm.py).  Both score by quantiles and split the customers  *)
(* into eight segments (utils/rfm_scoring.py).                             *)
(***************************************************************************)
EXTENDS Sales

(* What a customer is scored by, and the parameters of a page.             *)
Measures == [recency : Int, frequency : Nat, monetary : Int]

(* r, f, m: the thresholds; segment: which of r, f, m are high.            *)
RfmView == [bins : 3..10, r : 1..10, f : 1..10, m : 1..10, day : Int,
            segment : [r : BOOLEAN, f : BOOLEAN, m : BOOLEAN]]

CeilDiv(a, b) == (a + b - 1) \div b

-----------------------------------------------------------------------------
(* Measures.                                                               *)

Counts(names, o, day) == names[o] # NoUser /\ DayOf[o] <= day /\ PaidOf[o] > 0

(* _fetch_rfm_raw: one group of orders per user_name, as MySQL compares.   *)
SqlMeasures(current, day) ==
    LET counted == {o \in current : Counts(CustomerOf, o, day)}
        of(u)   == {o \in counted : CustomerOf[o] = u}
    IN  [u \in {CustomerOf[o] : o \in counted} |->
            [recency   |-> day - F!Max({DayOf[o] : o \in of(u)}),
             frequency |-> Cardinality(of(u)),
             monetary  |-> F!MapThenSumSet(LAMBDA o : PaidOf[o], of(u))]]

(* score_rfm_frame: rows, not orders, are added up, by the names that came *)
(* with them.                                                              *)
FrameMeasures(rows, names, day) ==
    LET counted == {i \in DOMAIN rows : Counts(names, rows[i], day)}
        of(u)   == {i \in counted : names[rows[i]] = u}
    IN  [u \in {names[rows[i]] : i \in counted} |->
            [recency   |-> day - F!Max({DayOf[rows[i]] : i \in of(u)}),
             frequency |-> Cardinality({rows[i] : i \in of(u)}),
             monetary  |-> F!MapThenSumSet(LAMBDA i : PaidOf[rows[i]], of(u))]]

-----------------------------------------------------------------------------
(* Scores: values is a function from customers to numbers.                 *)

Smallest(values, k) ==
    F!Min({values[u] : u \in {w \in DOMAIN values :
             Cardinality({x \in DOMAIN values : values[x] <= values[w]}) >= k}})

(* The upper bound of each bin but the last bounds nothing.                *)
Bound(values, bins, i) ==
    LET count == Cardinality(DOMAIN values)
    IN  Smallest(values, F!Min({CeilDiv(count * i, bins), count}))

(* quantile_scores: bisect_left over the bounds.                           *)
Score(values, bins, u) ==
    F!Min({1 + Cardinality({i \in 1..bins : Bound(values, bins, i) < values[u]}), bins})

(* _score_users *)
Scores(measures, bins) ==
    LET recency   == [u \in DOMAIN measures |-> measures[u].recency]
        frequency == [u \in DOMAIN measures |-> measures[u].frequency]
        monetary  == [u \in DOMAIN measures |-> measures[u].monetary]
    IN  [u \in DOMAIN measures |->
            [r |-> Score(recency, bins, u), f |-> Score(frequency, bins, u),
             m |-> Score(monetary, bins, u)]]

(* assign_segment: a low score of recency is a high one.                   *)
Segment(score, view) ==
    [r |-> score.r <= view.r, f |-> score.f >= view.f, m |-> score.m >= view.m]

(* HIGH_VALUE_SEGMENTS and AT_RISK_SEGMENTS.                               *)
HighValue(segment) == segment.r /\ (segment.f \/ segment.m)
AtRisk(segment) == segment.r /\ ~segment.f /\ ~segment.m

DefaultThreshold(bins) == F!Max({2, CeilDiv(3 * bins, 5)})

Segments(measures, view) ==
    LET scores == Scores(measures, view.bins)
    IN  [u \in DOMAIN measures |-> Segment(scores[u], view)]

(* get_rfm_segment_export_rows, and the table of the page: the customers   *)
(* of a segment with their scores and measures.                            *)
SegmentRows(measures, view) ==
    LET scores == Scores(measures, view.bins)
    IN  {[user |-> u, scores |-> scores[u], measures |-> measures[u]] :
            u \in {w \in DOMAIN measures : Segment(scores[w], view) = view.segment}}

(* get_rfm_overview, and the cards of the page.                            *)
Overview(measures, view) ==
    LET segments == Segments(measures, view)
        high     == {u \in DOMAIN segments : HighValue(segments[u])}
    IN  [total    |-> Cardinality(DOMAIN segments),
         high     |-> Cardinality(high),
         risk     |-> Cardinality({u \in DOMAIN segments : AtRisk(segments[u])}),
         monetary |-> F!MapThenSumSet(LAMBDA u : measures[u].monetary, high)]
=============================================================================
