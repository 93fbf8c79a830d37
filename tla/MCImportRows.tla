---------------------------- MODULE MCImportRows ----------------------------
(* Small instances of ImportRows for TLC.                                  *)
EXTENDS ImportRows

Text(t)    == [is |-> "text", text |-> t, n |-> 0]
Number(n)  == [is |-> "number", text |-> NoText, n |-> n]
Time(h)    == [is |-> "time", text |-> NoText, n |-> h]
Mark(is)   == [is |-> is, text |-> NoText, n |-> 0]
H(name)    == [name |-> name, padded |-> FALSE]
Padded(h)  == [h EXCEPT !.padded = TRUE]

MCCanonical ==
    [name \in {"order_id", "order_no", "user_name", "order_amount", "payment_amount", "order_time",
               "payment_time", "order_seq_id", "is_refund", "remark"} |->
        IF name = "order_no" THEN "order_id" ELSE IF name = "remark" THEN "unknown" ELSE name]

Columns == <<H("order_no"), H("user_name"), H("order_amount"), H("payment_amount"), H("order_time"),
             H("order_seq_id"), H("is_refund"), H("payment_time"), H("")>>

(* A line of an order of 12.34; paid and paidAt may differ.                *)
Line(o, ordered, paid, at, seq, refund, paidAt) ==
    <<Text(o), Text("u"), Number(ordered), Number(paid), at,
      IF seq = 0 THEN Empty ELSE Number(1000 * seq), Mark(refund), paidAt>>

R(o, seq, refund) == Line(o, 12340, 12340, Time(10), seq, refund, Empty)

Csv(lines)  == [type |-> "csv", content |-> "csv", headers |-> Columns, lines |-> lines]
Xlsx(lines) == [type |-> "xlsx", content |-> "xlsx", lines |-> lines,
                headers |-> [Columns EXCEPT ![7] = Padded(@)]]

(* A key that AUTO_INCREMENT has taken by then and a repeated order; a     *)
(* bootstrapped order, an invalid row and the same order again; a repeated *)
(* key of a row that is itself a repetition.                               *)
OrderFiles ==
    {Csv(<<R("o1", 0, "no"), <<Empty, Mark("blank")>>, R("o2", 2, "yes"), R("o2", 3, "blank")>>),
     Csv(<<R("o3", 0, "no"), R("o2", 0, "text"), R("o2", 3, "no"), R("o1", 4, "yes")>>),
     Xlsx(<<R("o1", 0, "yes"), R("o1", 5, "no"), R("o2", 5, "no")>>)}

(* Amounts that round to 0.00, to the same cents or past them, a payment   *)
(* in UTC, a cell beyond the header, one too long; amounts or a key that   *)
(* are refused or only too large for the table; no line, or too many.      *)
ValueFiles ==
    {Csv(<<Line("o1", 4, 4, Time(10), 0, "no", Empty), Line("o2", 12344, 12340, Time(10), 0, "no", Empty),
           Line("o4", 12344, 12346, Time(10), 0, "no", Empty)>>),
     Csv(<<Line("o1", 12340, 12340, Time(10), 0, "no", Mark("long")),
           Line("o2", 12340, 12340, Mark("zoned"), 0, "no", Time(7)),
           Append(Append(R("o4", 0, "no"), Mark("huge")), Text("o1"))>>),
     Csv(<<R("o1", 0, "no"), Line("o2", 90000, 12340, Time(10), 0, "no", Empty)>>),
     Csv(<<R("o1", 9, "no"), Line("o2", 99000, 12340, Time(10), 0, "no", Empty)>>),
     Csv(<<>>),
     Csv(<<R("o1", 0, "no"), R("o2", 0, "no"), R("o4", 0, "no"), R("o1", 0, "no"), R("o2", 0, "no")>>)}

(* The column is_refund of a CSV with a blank in its name.                 *)
PaddedCsv == [Csv(<<R("o1", 0, "yes")>>) EXCEPT !.headers[7] = Padded(@)]

RefusedFiles ==
    {[Csv(<<>>) EXCEPT !.content = "binary"], [Csv(<<>>) EXCEPT !.type = "other"],
     [Csv(<<>>) EXCEPT !.headers = <<>>], [Csv(<<>>) EXCEPT !.headers = Tail(@)],
     [Csv(<<>>) EXCEPT !.headers = Append(@, H("order_id"))],
     [Csv(<<>>) EXCEPT !.headers = @ \o <<H("remark"), H(""), H("")>>]}

MCUploads == OrderFiles \cup ValueFiles \cup RefusedFiles \cup {PaddedCsv}

Api(i, o, type, v) == [id |-> <<0, i>>, order |-> o, type |-> type, version |-> v]

ApiEventsOfMC ==
    {Api("e1", "o1", ORDER_CREATED, 1), Api("e2", "o1", ORDER_REFUNDED, 2),
     Api("e3", "o2", ORDER_CANCELLED, 3), Api("e4", "o2", ORDER_CREATED, 1)}

MCEvents == ApiEventsOfMC \cup EventsOfFiles

MCEventIds == {e.id : e \in MCEvents}
=============================================================================
