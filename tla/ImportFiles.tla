----------------------------- MODULE ImportFiles -----------------------------
(***************************************************************************)
(* An uploaded file of orders and what data_import_service.py reads in it: *)
(* the columns of its header, the lines with their cells, the orders these *)
(* stand for and what is wrong with them.                                  *)
(***************************************************************************)
EXTENDS Integers, Sequences, FiniteSets

CONSTANTS
    Canonical,    \* _ALIAS_INDEX: the field of each header, or "unknown"
    MaxColumns,   \* data_import_max_columns
    RefusedFrom,  \* amounts from here on are refused, in thousandths
    MaxCents,     \* the largest amount a column of orders holds, in cents
    MaxSeq        \* the largest order_seq_id it holds

(* CANONICAL_FIELDS, with user_name for the columns of required text that  *)
(* no rule of its own concerns; what is derived from order_time is not read.*)
Texts == {"order_id", "user_name"}
Moneys == {"order_amount", "payment_amount", "discount_amount"}
Numbers == {"order_seq_id", "payment_duration_sec"}
Times == {"order_time", "payment_time"}
Fields == Texts \cup Moneys \cup Numbers \cup Times \cup {"is_refund"}
RequiredFields == Texts \cup {"order_amount", "payment_amount", "order_time"}

ASSUME FieldsAssumption ==
    /\ \A name \in DOMAIN Canonical : Canonical[name] \in Fields \cup {"unknown"}
    /\ MaxColumns \in Nat /\ RefusedFrom \in Nat /\ MaxCents \in Nat /\ MaxSeq \in Nat

(* The texts that matter are order numbers; NoText is any other.           *)
NoText == "none"

Words == STRING \cup {NoText}

(* A cell: its text, its number in thousandths or its time in hours.       *)
(* "long": too long for its column; "huge": for any; "zoned": in UTC.      *)
Cell == [is : {"blank", "text", "long", "huge", "number", "yes", "no", "time", "zoned"},
         text : Words, n : Int]

Empty == [is |-> "blank", text |-> NoText, n |-> 0]

(* padded: there are blanks around the name of the column.                 *)
Header == [name : DOMAIN Canonical \cup {""}, padded : BOOLEAN]

Upload == [type : {"csv", "xlsx", "other"}, content : {"csv", "xlsx", "binary"},
           headers : Seq(Header), lines : Seq(Seq(Cell))]

If(condition, code) == IF condition THEN {code} ELSE {}

-----------------------------------------------------------------------------
(* The header.                                                             *)

(* detect_source_type: the name of the file and its first bytes.           *)
TypeErrors(u) ==
    If(u.type = "other", "IMPORT_UNSUPPORTED_FILE_TYPE")
    \cup If(u.type # "other" /\ u.content # u.type, "IMPORT_FILE_TYPE_MISMATCH")

(* read_headers: the cells of a sheet are stripped, those of a CSV are not.*)
Headers(u) ==
    IF u.type = "xlsx" THEN [i \in DOMAIN u.headers |-> [u.headers[i] EXCEPT !.padded = FALSE]]
    ELSE u.headers

Field(header) == IF header.name = "" THEN "unknown" ELSE Canonical[header.name]

(* build_column_mapping: names are compared, and looked up, stripped.      *)
ColumnErrors(u) ==
    LET headers == Headers(u)
        same(i, j) == /\ headers[i].name # ""
                      /\ \/ headers[i].name = headers[j].name
                         \/ Field(headers[i]) = Field(headers[j]) /\ Field(headers[i]) # "unknown"
    IN  If(headers = <<>>, "IMPORT_EMPTY_FILE")
        \cup If(Len(headers) > MaxColumns, "IMPORT_TOO_MANY_COLUMNS")
        \cup If(\E i, j \in DOMAIN headers : i # j /\ same(i, j), "IMPORT_DUPLICATE_COLUMN")
        \cup If(\E f \in RequiredFields : \A i \in DOMAIN headers : Field(headers[i]) # f,
                "IMPORT_MISSING_COLUMNS")

Refusals(u) == IF TypeErrors(u) # {} THEN TypeErrors(u) ELSE ColumnErrors(u)

(* The cell under the column of a field.                                   *)
Under(u, line, f) ==
    LET at == {i \in DOMAIN u.headers \cap DOMAIN line : Field(u.headers[i]) = f}
    IN  IF at = {} THEN Empty ELSE line[CHOOSE i \in at : TRUE]

(* _build_raw names the cells by the headers as they were read, value_of   *)
(* looks for the stripped name of the column.                              *)
ValueOf(u, line, f) ==
    IF \E i \in DOMAIN u.headers : Field(u.headers[i]) = f /\ Headers(u)[i].padded
    THEN Empty ELSE Under(u, line, f)

-----------------------------------------------------------------------------
(* One line: a cell per field.                                             *)

Blank(cell) == cell.is = "blank"

(* _clean_text *)
TextErrors(cell) == If(cell.is = "long", "FIELD_TOO_LONG")

(* ROUND_HALF_UP to cents.                                                 *)
Cents(cell) == (cell.n + 5) \div 10

MoneyErrors(cell) ==
    If(~Blank(cell) /\ (cell.is # "number" \/ cell.n < 0), "INVALID_AMOUNT")
    \cup If(cell.is = "number" /\ cell.n >= RefusedFrom, "AMOUNT_OUT_OF_RANGE")

NumberErrors(cell, least) ==
    If(~Blank(cell) /\ (cell.is # "number" \/ cell.n % 1000 # 0 \/ cell.n \div 1000 < least),
       "INVALID_INTEGER")

TimeErrors(cell) == If(cell.is \notin {"blank", "time", "zoned"}, "INVALID_DATETIME")

(* Times of the business are those of Shanghai.                            *)
WallClock(cell) == IF cell.is = "zoned" THEN cell.n + 8 ELSE cell.n

RefundErrors(cell) == If(cell.is \notin {"blank", "yes", "no"}, "INVALID_IS_REFUND")

PaidAt(cells) == WallClock(IF Blank(cells["payment_time"]) THEN cells["order_time"]
                           ELSE cells["payment_time"])

(* What is wrong with fields that can be read but not with each other.     *)
FieldErrors(cells) ==
    UNION ({TextErrors(cells[f]) : f \in Texts}
           \cup {MoneyErrors(cells[f]) : f \in Moneys}
           \cup {TimeErrors(cells[f]) : f \in Times}
           \cup {NumberErrors(cells["order_seq_id"], 1),
                 NumberErrors(cells["payment_duration_sec"], 0),
                 RefundErrors(cells["is_refund"]),
                 If(\E f \in RequiredFields : Blank(cells[f]), "REQUIRED_FIELD")})

(* Faulty variant of OrderErrors: signs are looked at before rounding.     *)
OrderErrorsBeforeRounding(cells) ==
    If(cells["order_amount"].n <= 0 \/ cells["payment_amount"].n <= 0, "AMOUNT_NOT_POSITIVE")
    \cup If(Cents(cells["payment_amount"]) > Cents(cells["order_amount"]), "PAYMENT_EXCEEDS_ORDER")
    \cup If(PaidAt(cells) < WallClock(cells["order_time"]), "PAYMENT_BEFORE_ORDER")

OrderErrors(cells) ==
    If(Cents(cells["order_amount"]) <= 0 \/ Cents(cells["payment_amount"]) <= 0,
       "AMOUNT_NOT_POSITIVE")
    \cup If(Cents(cells["payment_amount"]) > Cents(cells["order_amount"]), "PAYMENT_EXCEEDS_ORDER")
    \cup If(PaidAt(cells) < WallClock(cells["order_time"]), "PAYMENT_BEFORE_ORDER")

(* normalize_row.  Which of several errors is shown is left out.           *)
Errors(cells) ==
    IF FieldErrors(cells) # {} THEN FieldErrors(cells) ELSE OrderErrors(cells)

-----------------------------------------------------------------------------
(* The rows.                                                               *)

(* no: the number of the line; seq: order_seq_id, 0 if there is none.      *)
FileRow == [no : Nat, order : Words, seq : Nat, refund : BOOLEAN, ok : BOOLEAN,
            ordered : Int, paid : Int, at : Int, paidAt : Int]

(* Cells beyond the header, and huge ones, are not interpreted.            *)
Uninterpreted(u, line) ==
    \/ \E i \in DOMAIN line : i > Len(u.headers) /\ ~Blank(line[i])
    \/ \E i \in DOMAIN line \cap DOMAIN u.headers : u.headers[i].name # "" /\ line[i].is = "huge"

NotAnOrder(no) ==
    [no |-> no, order |-> NoText, seq |-> 0, refund |-> FALSE, ok |-> FALSE,
     ordered |-> 0, paid |-> 0, at |-> 0, paidAt |-> 0]

OrderOf(no, cells) ==
    IF Errors(cells) # {} THEN NotAnOrder(no)
    ELSE [no      |-> no,
          order   |-> cells["order_id"].text,
          seq     |-> IF Blank(cells["order_seq_id"]) THEN 0 ELSE cells["order_seq_id"].n \div 1000,
          refund  |-> cells["is_refund"].is = "yes",
          ok      |-> TRUE,
          ordered |-> Cents(cells["order_amount"]),
          paid    |-> Cents(cells["payment_amount"]),
          at      |-> WallClock(cells["order_time"]),
          paidAt  |-> PaidAt(cells)]

RowOf(u, no) ==
    LET line == u.lines[no]
    IN  IF Uninterpreted(u, line) THEN NotAnOrder(no)
        ELSE OrderOf(no, [f \in Fields |-> ValueOf(u, line, f)])

(* The numbers of the lines that are not blank.                            *)
Lines(u) == {n \in DOMAIN u.lines : \E j \in DOMAIN u.lines[n] : ~Blank(u.lines[n][j])}

SourceRows(u) == [n \in Lines(u) |-> RowOf(u, n)]

(* Whether MySQL takes the row; the discount is like the other amounts.    *)
Storable(row) == row.ordered <= MaxCents /\ row.paid <= MaxCents /\ row.seq <= MaxSeq
=============================================================================
