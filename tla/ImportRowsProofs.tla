-------------------------- MODULE ImportRowsProofs --------------------------
(***************************************************************************)
(* What every behaviour of one data import satisfies, whatever the file,   *)
(* the sizes of batches, chunks and pages, and the events that come in     *)
(* between.                                                                *)
(***************************************************************************)
EXTENDS ImportRows, OrderLedgerProofs, FiniteSetTheorems

USE DEF MISSING, ACTIVE, REFUNDED, CANCELLED, PROCESSED, REJECTED,
        ORDER_CREATED, ORDER_REFUNDED, ORDER_CANCELLED, StateEventTypes

-----------------------------------------------------------------------------
(* Numbers.                                                                *)

(* A set of numbers with a bound has a greatest one.                       *)
LEMMA MaxOfBounded ==
    ASSUME NEW S \in SUBSET Nat, S # {}, NEW b \in Nat, \A x \in S : x <= b
    PROVE  Max(S) \in S /\ \A x \in S : x <= Max(S)
  <1> DEFINE C == {u \in Nat : \A x \in S : x <= u}
  <1>1. b \in C /\ C \subseteq Nat
    OBVIOUS
  <1>2. PICK u \in C : \A v \in C : <<v, u>> \notin Less
    BY <1>1, LessIsWellFounded, WFMin
  <1>3. u \in Nat /\ \A x \in S : x \in Nat /\ x <= u
    BY <1>2
  <1>4. u \in S
    <2> SUFFICES ASSUME u \notin S PROVE FALSE
      OBVIOUS
    <2>1. \A x \in S : x < u
      BY <1>3
    <2>2. u - 1 \in Nat /\ u - 1 < u /\ \A x \in S : x <= u - 1
      <3>1. PICK y \in S : y \in Nat /\ y < u
        BY <1>3, <2>1
      <3>2. u - 1 \in Nat /\ u - 1 < u
        BY <1>3, <3>1
      <3> QED
        BY <1>3, <2>1, <3>2
    <2>3. u - 1 \in C /\ <<u - 1, u>> \in Less
      BY <1>3, <2>2 DEF Less
    <2> QED
      BY <1>2, <2>3
  <1>5. \E x \in S : \A y \in S : x >= y
    BY <1>3, <1>4
  <1>6. Max(S) \in S /\ \A y \in S : Max(S) >= y
    BY <1>5 DEF Max
  <1> QED
    BY <1>6

LEMMA MinOfTwo ==
    ASSUME NEW a \in Int, NEW b \in Int
    PROVE  Min({a, b}) = IF a <= b THEN a ELSE b
  <1>1. \E x \in {a, b} : \A y \in {a, b} : x <= y
    OBVIOUS
  <1>2. Min({a, b}) \in {a, b} /\ \A y \in {a, b} : Min({a, b}) <= y
    BY <1>1 DEF Min
  <1> QED
    BY <1>2

(* Whole numbers divided with rest.                                        *)
LEMMA Division ==
    ASSUME NEW a \in Nat, NEW k \in Nat \ {0}
    PROVE  /\ a \div k \in Nat
           /\ (a \div k) * k <= a
           /\ a < (a \div k + 1) * k
  OBVIOUS

-----------------------------------------------------------------------------
(* The lines of a file in their order.                                     *)

LEMMA FirstOfFinite ==
    ASSUME NEW S, IsFiniteSet(S), NEW k
    PROVE  /\ First(k, S) \subseteq S /\ IsFiniteSet(First(k, S))
           /\ Cardinality(First(k, S)) \in Nat
           /\ \A n \in S : /\ IsFiniteSet(Before(n, S))
                           /\ Cardinality(Before(n, S)) \in Nat
                           /\ Cardinality(Before(n, S)) <= Cardinality(S)
  <1>1. First(k, S) \subseteq S /\ \A n \in S : Before(n, S) \subseteq S
    BY DEF First, Before
  <1>2. \A T \in SUBSET S : /\ IsFiniteSet(T) /\ Cardinality(T) \in Nat
                            /\ Cardinality(T) <= Cardinality(S)
    BY FS_Subset, FS_CardinalityType
  <1> QED
    BY <1>1, <1>2

(* There are k first lines, if there are so many.                          *)
LEMMA FirstCounts ==
    ASSUME NEW k \in Nat, NEW b \in Nat, NEW S \in SUBSET (1..b)
    PROVE  Cardinality(First(k, S)) = Min({k, Cardinality(S)})
  <1> DEFINE Fits(U) == Cardinality(First(k, U)) = IF k <= Cardinality(U) THEN k ELSE Cardinality(U)
             T == {c \in Nat : \A U \in SUBSET (1..c) : Fits(U)}
  <1>1. 0 \in T
    <2> SUFFICES ASSUME NEW U \in SUBSET (1..0) PROVE Fits(U)
      OBVIOUS
    <2>1. U = {}
      OBVIOUS
    <2>2. First(k, U) = {}
      BY <2>1 DEF First
    <2> QED
      BY <2>1, <2>2, FS_EmptySet
  <1>2. ASSUME NEW c \in Nat, c \in T PROVE c + 1 \in T
    <2> SUFFICES ASSUME NEW U \in SUBSET (1..(c + 1)), c + 1 \in U PROVE Fits(U)
      <3>1. \A U \in SUBSET (1..(c + 1)) : c + 1 \notin U => U \in SUBSET (1..c)
        OBVIOUS
      <3> QED
        BY <1>2, <3>1
    <2> DEFINE V == U \ {c + 1}
    <2>1. V \in SUBSET (1..c) /\ U = V \cup {c + 1} /\ c + 1 \notin V
      OBVIOUS
    <2>2. Fits(V)
      BY <1>2, <2>1
    <2>3. IsFiniteSet(V) /\ Cardinality(V) \in Nat
      <3>1. IsFiniteSet(1..c)
        BY FS_Interval
      <3> QED
        BY <2>1, <3>1, FS_Subset, FS_CardinalityType
    <2>4. Cardinality(U) = Cardinality(V) + 1
      BY <2>1, <2>3, FS_AddElement
    <2>5. Before(c + 1, U) = V /\ \A n \in V : Before(n, U) = Before(n, V)
      <3> HIDE DEF V
      <3>1. \A n \in V : n \in Nat /\ n < c + 1 /\ ~ (c + 1 < n)
        BY <2>1
      <3>2. ~ (c + 1 < c + 1)
        OBVIOUS
      <3>3. Before(c + 1, U) = V
        BY <2>1, <3>1, <3>2 DEF Before
      <3>4. ASSUME NEW n \in V PROVE Before(n, U) = Before(n, V)
        BY <2>1, <3>1 DEF Before
      <3> QED
        BY <3>3, <3>4
    <2>6. First(k, U) = First(k, V) \cup IF Cardinality(V) < k THEN {c + 1} ELSE {}
      <3> HIDE DEF V
      <3>1. \A n \in U : n \in First(k, U) <=> Cardinality(Before(n, U)) < k
        BY DEF First
      <3>2. \A n \in V : n \in First(k, V) <=> Cardinality(Before(n, V)) < k
        BY DEF First
      <3>3. First(k, U) \subseteq U /\ First(k, V) \subseteq V
        BY DEF First
      <3>4. c + 1 \in First(k, U) <=> Cardinality(V) < k
        BY <2>1, <2>5, <3>1
      <3>5. \A n \in V : n \in First(k, U) <=> n \in First(k, V)
        BY <2>1, <2>5, <3>1, <3>2
      <3> QED
        BY <2>1, <3>3, <3>4, <3>5
    <2>7. IsFiniteSet(First(k, V)) /\ c + 1 \notin First(k, V) /\ Cardinality(First(k, V)) \in Nat
      BY <2>1, <2>3, FirstOfFinite
    <2>8. CASE Cardinality(V) < k
      <3>1. Cardinality(First(k, U)) = Cardinality(First(k, V)) + 1
        BY <2>6, <2>7, <2>8, FS_AddElement
      <3> QED
        BY <2>2, <2>3, <2>4, <2>8, <3>1
    <2>9. CASE ~ Cardinality(V) < k
      <3>1. First(k, U) = First(k, V)
        BY <2>6, <2>9
      <3> QED
        BY <2>2, <2>3, <2>4, <2>9, <3>1
    <2> QED
      BY <2>8, <2>9
  <1> HIDE DEF T
  <1>3. Nat \subseteq T
    BY <1>1, <1>2, Induction
  <1> USE DEF T
  <1>4. Fits(S)
    BY <1>3
  <1>5. Cardinality(S) \in Nat
    <2>1. IsFiniteSet(1..b)
      BY FS_Interval
    <2> QED
      BY <2>1, FS_Subset, FS_CardinalityType
  <1> QED
    BY <1>4, <1>5, MinOfTwo

(* Its pages together are the list, and its first page is the first lines. *)
LEMMA PagesAreTheList ==
    ASSUME NEW S, IsFiniteSet(S), NEW k \in Nat \ {0},
           \A n \in S : n \in Nat
    PROVE  /\ S = UNION {First(p * k, S) \ First((p - 1) * k, S) :
                           p \in 1..((Cardinality(S) + k - 1) \div k)}
           /\ First(1 * k, S) \ First((1 - 1) * k, S) = First(k, S)
  <1> DEFINE P(p) == First(p * k, S) \ First((p - 1) * k, S)
             last == (Cardinality(S) + k - 1) \div k
  <1>1. \A p \in Int : P(p) \subseteq S
    BY DEF First
  <1>2. ASSUME NEW n \in S PROVE \E p \in 1..last : n \in P(p)
    <2> DEFINE r == Cardinality(Before(n, S))
    <2>1. IsFiniteSet(S \ {n}) /\ Cardinality(S \ {n}) = Cardinality(S) - 1
      BY FS_RemoveElement
    <2>2. Before(n, S) \subseteq S \ {n}
      BY DEF Before
    <2>3. r \in Nat /\ Cardinality(S) \in Nat /\ r <= Cardinality(S) - 1
      BY <2>1, <2>2, FS_Subset, FS_CardinalityType
    <2> HIDE DEF r
    <2> DEFINE q == r \div k
    <2>4. q \in Nat /\ q * k <= r /\ r < (q + 1) * k
      BY <2>3, Division
    <2>5. q + 1 <= last
      <3>1. (q + 1) * k <= Cardinality(S) + k - 1
        <4>1. (q + 1) * k = q * k + k
          BY <2>4
        <4>2. q * k \in Nat
          BY <2>4
        <4> QED
          BY <2>3, <2>4, <4>1, <4>2
      <3>2. Cardinality(S) + k - 1 \in Nat
        BY <2>3
      <3>3. last \in Nat /\ Cardinality(S) + k - 1 < (last + 1) * k
        BY <3>2, Division
      <3> HIDE DEF last, q
      <3>4. (q + 1) * k < (last + 1) * k
        BY <2>3, <2>4, <3>1, <3>2, <3>3
      <3>5. ~ (last + 1 <= q + 1)
        <4> SUFFICES ASSUME last + 1 <= q + 1 PROVE FALSE
          OBVIOUS
        <4>1. (last + 1) * k <= (q + 1) * k
          BY <2>4, <3>3
        <4> QED
          BY <2>4, <3>3, <3>4, <4>1
      <3> QED
        BY <2>4, <3>3, <3>5
    <2> HIDE DEF q
    <2>6. n \in First((q + 1) * k, S)
      BY <2>4 DEF First, r
    <2>7. n \notin First(((q + 1) - 1) * k, S)
      <3>1. ~ (r < ((q + 1) - 1) * k)
        BY <2>3, <2>4
      <3> QED
        BY <3>1 DEF First, r
    <2>8. n \in P(q + 1)
      BY <2>6, <2>7
    <2>9. q + 1 \in 1..last
      <3>1. last \in Nat
        BY <2>3, Division
      <3> QED
        BY <2>4, <2>5, <3>1
    <2> QED
      BY <2>8, <2>9
  <1>3. S = UNION {P(p) : p \in 1..last}
    <2>1. \A p \in 1..last : p \in Int
      OBVIOUS
    <2> HIDE DEF last, P
    <2> QED
      BY <1>1, <1>2, <2>1
  <1>4. First((1 - 1) * k, S) = {}
    <2>1. \A n \in S : Cardinality(Before(n, S)) \in Nat
      BY FirstOfFinite
    <2>2. (1 - 1) * k = 0
      OBVIOUS
    <2> QED
      BY <2>1, <2>2 DEF First
  <1>5. 1 * k = k
    OBVIOUS
  <1> QED
    BY <1>3, <1>4, <1>5

-----------------------------------------------------------------------------
(* The inductive invariant.                                                *)

(* What of the tables an import does not read but its verdict needs: there *)
(* is a largest version in the ledger.                                     *)
VersionsAreBounded == \E b \in Nat : \A row \in ledger : row.event.version <= b

(* The file is what its upload says, from the request on.                  *)
FileInv ==
    /\ upload \in Uploads
    /\ IF phase \in {"uploading", "refused"} THEN file = NoLines /\ rows = NoLines
       ELSE Refusals(upload) = {} /\ file = SourceRows(upload)

(* Each status says what is true of the file and of the tables.            *)
RowInv(n) ==
    /\ rows[n] \in RowStatuses
    /\ rows[n] = "invalid" <=> ~file[n].ok
    /\ rows[n] = "imported" => Storable(file[n]) /\ Exists(file[n].order)
    /\ rows[n] \in {"conflict", "failed", "skipped"} =>
         DuplicateInFile(n) \/ Exists(file[n].order) \/ file[n].seq \in seqs

RowsInv ==
    /\ rows \in [DOMAIN rows -> RowStatuses] /\ DOMAIN rows \subseteq DOMAIN file
    /\ \A n \in DOMAIN rows : RowInv(n)

(* Which statuses there are when.                                          *)
BeforePolicy == {"uploading", "refused", "staging", "stuck", "validated", "policy"}

AfterPolicy == (Executing \ {"policy"}) \cup {"completed", "cancelled", "inconsistent"}

PhaseInv ==
    /\ phase \in {"uploading", "staging", "validated"} \cup Executing \cup Ended
    /\ phase \in BeforePolicy =>
         RowsWith("imported") = {} /\ RowsWith("failed") = {} /\ RowsWith("skipped") = {}
    /\ phase \in AfterPolicy => RowsWith("conflict") = {}
    /\ phase \in AfterPolicy \cup {"validated", "policy"} => DOMAIN rows = DOMAIN file
    /\ phase \in {"finalize", "completed"} => RowsWith("valid") = {}

(* What the chunk has read of orders is still there.                       *)
ReadInv ==
    /\ existing \in [orders : SUBSET Orders, seqs : SUBSET Nat]
    /\ \A o \in existing.orders : Exists(o)
    /\ existing.seqs \subseteq seqs
    /\ phase # "insert" => existing = NothingRead

SeqInv ==
    /\ seqs \subseteq Nat \ {0} /\ nextSeq \in Nat \ {0}
    /\ \A q \in seqs : q < nextSeq

CountInv ==
    count = [inserted |-> Cardinality(RowsWith("imported")),
             rejected |-> Cardinality(RowsWith("failed")),
             skipped  |-> Cardinality(RowsWith("skipped"))]

(* The ledger has the events of the imported rows, and of the others only  *)
(* what the event service wrote.                                           *)
ImportedEvents == UNION {ImportEvents(file[n]) : n \in RowsWith("imported")}

RecordedInv ==
    /\ \A e \in ImportedEvents : Row(e, PROCESSED) \in ledger
    /\ \A row \in ledger : \/ row.event \in ApiEvents
                           \/ row.event \in ImportedEvents /\ row.status = PROCESSED

ImportInv ==
    /\ LedgerInv /\ VersionsAreBounded
    /\ policy \in {"reject", "skip"} /\ cancel \in BOOLEAN
    /\ FileInv /\ RowsInv /\ PhaseInv /\ ReadInv /\ SeqInv /\ CountInv /\ RecordedInv
    /\ CompletedRunsStrandNothing

-----------------------------------------------------------------------------
(* What is read of a file.                                                 *)

(* A value is a cell, whether its column is there or not.                  *)
LEMMA ValuesAreCells ==
    ASSUME NEW u, NEW line \in Seq(Cell), NEW f
    PROVE  ValueOf(u, line, f) \in Cell
  <1> DEFINE at == {i \in DOMAIN u.headers \cap DOMAIN line : Field(u.headers[i]) = f}
  <1>1. Empty \in Cell
    BY DEF Empty, Cell, Words
  <1>2. Under(u, line, f) \in Cell
    <2>1. CASE at = {}
      BY <1>1, <2>1 DEF Under
    <2>2. CASE at # {}
      <3>1. (CHOOSE i \in at : TRUE) \in DOMAIN line
        BY <2>2
      <3>2. line[CHOOSE i \in at : TRUE] \in Cell
        BY <3>1
      <3> QED
        BY <2>2, <3>2 DEF Under
    <2> QED
      BY <2>1, <2>2
  <1> QED
    BY <1>1, <1>2 DEF ValueOf

(* What the rules of normalize_row say of a row that breaks none: amounts  *)
(* are positive in cents, the key too, and payments follow their orders.   *)
LEMMA OrdersAreSound ==
    ASSUME NEW no \in Nat, NEW cells \in [Fields -> Cell]
    PROVE  /\ OrderOf(no, cells) \in FileRow
           /\ OrderOf(no, cells).no = no
           /\ OrderOf(no, cells).ok =>
                LET row == OrderOf(no, cells)
                IN  0 < row.paid /\ row.paid <= row.ordered /\ row.at <= row.paidAt
  <1>0. PICK refund \in BOOLEAN : refund = (cells["is_refund"].is = "yes")
    BY Zenon
  <1> DEFINE oa == cells["order_amount"]
             pa == cells["payment_amount"]
             id == cells["order_seq_id"]
             row == [no      |-> no,
                     order   |-> cells["order_id"].text,
                     seq     |-> IF Blank(id) THEN 0 ELSE id.n \div 1000,
                     refund  |-> refund,
                     ok      |-> TRUE,
                     ordered |-> Cents(oa),
                     paid    |-> Cents(pa),
                     at      |-> WallClock(cells["order_time"]),
                     paidAt  |-> PaidAt(cells)]
  <1>1. \A f \in Fields : cells[f] \in Cell
    OBVIOUS
  <1>2. \A c \in Cell : c.n \in Int /\ c.text \in Words /\ Cents(c) \in Int /\ WallClock(c) \in Int
    BY DEF Cell, Cents, WallClock
  <1>3. /\ oa \in Cell /\ pa \in Cell /\ id \in Cell
        /\ cells["order_id"] \in Cell /\ cells["order_time"] \in Cell /\ cells["payment_time"] \in Cell
    BY <1>1 DEF Fields, Texts, Moneys, Numbers, Times
  <1>4. PaidAt(cells) \in Int
    <2>1. CASE Blank(cells["payment_time"])
      BY <1>2, <1>3, <2>1 DEF PaidAt
    <2>2. CASE ~Blank(cells["payment_time"])
      BY <1>2, <1>3, <2>2 DEF PaidAt
    <2> QED
      BY <2>1, <2>2
  <1>5. CASE Errors(cells) # {}
    <2>1. OrderOf(no, cells) = NotAnOrder(no)
      BY <1>5 DEF OrderOf
    <2>2. NotAnOrder(no) \in FileRow /\ NotAnOrder(no).no = no /\ NotAnOrder(no).ok = FALSE
      BY DEF NotAnOrder, FileRow, Words
    <2> QED
      BY <2>1, <2>2
  <1>6. CASE Errors(cells) = {}
    <2>1. OrderOf(no, cells) = row
      BY <1>0, <1>6, Zenon DEF OrderOf
    <2>2. FieldErrors(cells) = {} /\ OrderErrors(cells) = {}
      BY <1>6 DEF Errors
    <2>3. NumberErrors(id, 1) = {}
      <3>1. NumberErrors(id, 1) \subseteq FieldErrors(cells)
        BY DEF FieldErrors
      <3> QED
        BY <2>2, <3>1
    <2>4. ~Blank(id) => ~ (id.n \div 1000 < 1)
      BY <2>3, Zenon DEF NumberErrors, If
    <2>5. row.seq \in Nat
      <3>1. CASE Blank(id)
        BY <3>1
      <3>2. CASE ~Blank(id)
        <4>1. id.n \div 1000 \in Int
          BY <1>2, <1>3
        <4>2. row.seq = id.n \div 1000
          BY <3>2
        <4> HIDE DEF row
        <4> QED
          BY <2>4, <3>2, <4>1, <4>2
      <3> QED
        BY <3>1, <3>2
    <2>6. /\ row.no = no /\ row.order = cells["order_id"].text
          /\ row.ordered = Cents(oa) /\ row.paid = Cents(pa)
          /\ row.at = WallClock(cells["order_time"]) /\ row.paidAt = PaidAt(cells)
      OBVIOUS
    <2>7. row.refund \in BOOLEAN /\ row.ok \in BOOLEAN
      OBVIOUS
    <2>8. row \in FileRow
      <3>1. /\ row.order \in Words /\ row.no \in Nat /\ row.ordered \in Int /\ row.paid \in Int
            /\ row.at \in Int /\ row.paidAt \in Int
        BY <1>2, <1>3, <1>4, <2>6
      <3>2. row = [no |-> row.no, order |-> row.order, seq |-> row.seq, refund |-> row.refund,
                   ok |-> row.ok, ordered |-> row.ordered, paid |-> row.paid, at |-> row.at,
                   paidAt |-> row.paidAt]
        OBVIOUS
      <3> HIDE DEF row
      <3> QED
        BY <2>5, <2>7, <3>1, <3>2 DEF FileRow
    <2>9. /\ ~ (Cents(oa) <= 0) /\ ~ (Cents(pa) <= 0)
          /\ ~ (Cents(pa) > Cents(oa))
          /\ ~ (PaidAt(cells) < WallClock(cells["order_time"]))
      BY <2>2 DEF OrderErrors, If
    <2>10. 0 < row.paid /\ row.paid <= row.ordered /\ row.at <= row.paidAt
      <3>1. Cents(oa) \in Int /\ Cents(pa) \in Int /\ WallClock(cells["order_time"]) \in Int
        BY <1>2, <1>3
      <3> HIDE DEF row
      <3> QED
        BY <1>4, <2>6, <2>9, <3>1
    <2> HIDE DEF row
    <2> QED
      BY <2>1, <2>6, <2>8, <2>10
  <1> QED
    BY <1>5, <1>6

LEMMA RowsAreSound ==
    ASSUME NEW u \in Upload, NEW n \in DOMAIN u.lines
    PROVE  /\ RowOf(u, n) \in FileRow
           /\ RowOf(u, n).no = n
           /\ RowOf(u, n).ok =>
                LET row == RowOf(u, n)
                IN  0 < row.paid /\ row.paid <= row.ordered /\ row.at <= row.paidAt
  <1>1. u.lines \in Seq(Seq(Cell))
    BY DEF Upload
  <1>2. u.lines[n] \in Seq(Cell) /\ n \in Nat
    BY <1>1
  <1> DEFINE cells == [f \in Fields |-> ValueOf(u, u.lines[n], f)]
  <1>3. CASE Uninterpreted(u, u.lines[n])
    <2>1. RowOf(u, n) = NotAnOrder(n)
      BY <1>3 DEF RowOf
    <2>2. NotAnOrder(n) \in FileRow /\ NotAnOrder(n).no = n /\ NotAnOrder(n).ok = FALSE
      BY <1>2 DEF NotAnOrder, FileRow, Words
    <2> QED
      BY <2>1, <2>2
  <1>4. CASE ~Uninterpreted(u, u.lines[n])
    <2>1. RowOf(u, n) = OrderOf(n, cells)
      BY <1>4 DEF RowOf
    <2>2. cells \in [Fields -> Cell]
      BY <1>2, ValuesAreCells
    <2> HIDE DEF cells
    <2> QED
      BY <1>2, <2>1, <2>2, OrdersAreSound
  <1> QED
    BY <1>3, <1>4

(* The lines of a file are numbered; there are finitely many.              *)
LEMMA LinesOfFile ==
    ASSUME NEW u \in Upload
    PROVE  /\ Lines(u) \subseteq 1..Len(u.lines) /\ Len(u.lines) \in Nat
           /\ Lines(u) \subseteq DOMAIN u.lines
           /\ IsFiniteSet(Lines(u))
           /\ SourceRows(u) \in [Lines(u) -> FileRow]
           /\ DOMAIN SourceRows(u) = Lines(u)
  <1>1. u.lines \in Seq(Seq(Cell))
    BY DEF Upload
  <1>2. Len(u.lines) \in Nat /\ DOMAIN u.lines = 1..Len(u.lines)
    BY <1>1
  <1>3. Lines(u) \subseteq DOMAIN u.lines
    BY DEF Lines
  <1>4. IsFiniteSet(1..Len(u.lines))
    BY <1>2, FS_Interval
  <1>5. IsFiniteSet(Lines(u))
    BY <1>2, <1>3, <1>4, FS_Subset
  <1>6. \A n \in Lines(u) : RowOf(u, n) \in FileRow
    BY <1>3, RowsAreSound
  <1> QED
    BY <1>2, <1>3, <1>5, <1>6 DEF SourceRows

(* The events of a row of an accepted file are events that may be sent;    *)
(* the number of the line tells them from those of other rows, and from    *)
(* those of the event service.                                             *)
LEMMA EventsOfRow ==
    ASSUME NEW u \in Uploads, Refusals(u) = {}, NEW n \in Lines(u), SourceRows(u)[n].ok,
           NEW e \in ImportEvents(SourceRows(u)[n])
    PROVE  /\ e \in Events /\ e \notin ApiEvents
           /\ e.id = <<n, e.type>>
           /\ e.order = SourceRows(u)[n].order
           /\ e.version = IF e.type = ORDER_CREATED THEN 1 ELSE 2
           /\ \/ e.type = ORDER_CREATED
              \/ e.type = ORDER_REFUNDED /\ SourceRows(u)[n].refund
  <1> DEFINE row == SourceRows(u)[n]
  <1>1. u \in Upload
    BY UploadsAssumption
  <1>2. row = RowOf(u, n)
    BY DEF SourceRows
  <1>3. row.no = n
    BY <1>1, <1>2, LinesOfFile, RowsAreSound
  <1>4. row \in OrdersIn(u)
    BY <1>2 DEF OrdersIn
  <1> HIDE DEF row
  <1>5. e \in EventsOfFiles
    <2>1. e \in UNION {ImportEvents(r) : r \in OrdersIn(u)}
      BY <1>4 DEF row
    <2>2. u \in {v \in Uploads : Refusals(v) = {}}
      OBVIOUS
    <2> QED
      BY <2>1, <2>2 DEF EventsOfFiles
  <1>6. PICK type \in {ORDER_CREATED} \cup (IF row.refund THEN {ORDER_REFUNDED} ELSE {}) :
          e = [id |-> <<row.no, type>>, order |-> row.order, type |-> type,
               version |-> IF type = ORDER_CREATED THEN 1 ELSE 2]
    BY DEF ImportEvents, row
  <1>7. /\ e.id = <<row.no, type>> /\ e.order = row.order /\ e.type = type
        /\ e.version = IF type = ORDER_CREATED THEN 1 ELSE 2
    BY <1>6
  <1>8. e \in Events /\ e \notin ApiEvents
    BY <1>5, UploadsAssumption DEF ApiEvents
  <1>9. \/ type = ORDER_CREATED
        \/ type = ORDER_REFUNDED /\ row.refund
    BY <1>6
  <1> QED
    BY <1>3, <1>7, <1>8, <1>9 DEF row

(* A row has a creation, and a refund if it is one.                        *)
LEMMA CreationOfRow ==
    ASSUME NEW row
    PROVE  /\ \E e \in ImportEvents(row) : e.type = ORDER_CREATED
           /\ row.refund => \E e \in ImportEvents(row) : e.type = ORDER_REFUNDED
           /\ \A e, f \in ImportEvents(row) : e.type = f.type => e = f
  <1> DEFINE E(type) == [id |-> <<row.no, type>>, order |-> row.order, type |-> type,
                         version |-> IF type = ORDER_CREATED THEN 1 ELSE 2]
  <1>1. E(ORDER_CREATED) \in ImportEvents(row) /\ E(ORDER_CREATED).type = ORDER_CREATED
    BY DEF ImportEvents
  <1>2. ASSUME row.refund
        PROVE  E(ORDER_REFUNDED) \in ImportEvents(row) /\ E(ORDER_REFUNDED).type = ORDER_REFUNDED
    BY <1>2 DEF ImportEvents
  <1>3. \A e \in ImportEvents(row) : e = E(e.type)
    BY DEF ImportEvents
  <1> QED
    BY <1>1, <1>2, <1>3

-----------------------------------------------------------------------------
(* What the invariant says of the file and the rows.                       *)

LEMMA FileFacts ==
    ASSUME FileInv
    PROVE  /\ DOMAIN file \subseteq 1..Len(upload.lines) /\ Len(upload.lines) \in Nat
           /\ IsFiniteSet(DOMAIN file)
           /\ file \in [DOMAIN file -> FileRow]
           /\ \A n \in DOMAIN file :
                /\ n \in Nat /\ file[n] \in FileRow /\ file[n].no = n
                /\ file[n].ok =>
                     0 < file[n].paid /\ file[n].paid <= file[n].ordered /\ file[n].at <= file[n].paidAt
                /\ file[n].ok => \A e \in ImportEvents(file[n]) :
                     /\ e \in Events /\ e \notin ApiEvents
                     /\ e.id = <<n, e.type>>
                     /\ e.order = file[n].order
                     /\ e.version = IF e.type = ORDER_CREATED THEN 1 ELSE 2
                     /\ \/ e.type = ORDER_CREATED
                        \/ e.type = ORDER_REFUNDED /\ file[n].refund
                /\ \A e \in ApiEvents, type \in EventTypes : e.id # <<n, type>>
  <1>1. upload \in Uploads /\ upload \in Upload
    BY UploadsAssumption DEF FileInv
  <1>2. Len(upload.lines) \in Nat
    BY <1>1, LinesOfFile
  <1>3. CASE file = NoLines
    <2>1. DOMAIN file = {}
      BY <1>3 DEF NoLines
    <2>2. IsFiniteSet({})
      BY FS_EmptySet
    <2>3. file \in [{} -> FileRow]
      BY <1>3 DEF NoLines
    <2> QED
      BY <1>2, <2>1, <2>2, <2>3
  <1>4. CASE Refusals(upload) = {} /\ file = SourceRows(upload)
    <2>1. /\ DOMAIN file = Lines(upload) /\ file \in [Lines(upload) -> FileRow]
          /\ IsFiniteSet(Lines(upload)) /\ Lines(upload) \subseteq 1..Len(upload.lines)
          /\ Lines(upload) \subseteq DOMAIN upload.lines
      BY <1>1, <1>4, LinesOfFile
    <2> SUFFICES ASSUME NEW n \in Lines(upload)
                 PROVE  /\ n \in Nat /\ file[n] \in FileRow /\ file[n].no = n
                        /\ file[n].ok =>
                             /\ 0 < file[n].paid /\ file[n].paid <= file[n].ordered
                             /\ file[n].at <= file[n].paidAt
                        /\ file[n].ok => \A e \in ImportEvents(file[n]) :
                             /\ e \in Events /\ e \notin ApiEvents
                             /\ e.id = <<n, e.type>>
                             /\ e.order = file[n].order
                             /\ e.version = IF e.type = ORDER_CREATED THEN 1 ELSE 2
                             /\ \/ e.type = ORDER_CREATED
                                \/ e.type = ORDER_REFUNDED /\ file[n].refund
                        /\ \A e \in ApiEvents, type \in EventTypes : e.id # <<n, type>>
      BY <1>2, <2>1
    <2>2. n \in Nat /\ file[n] \in FileRow
      BY <1>2, <2>1
    <2>3. file[n] = RowOf(upload, n)
      BY <1>4 DEF SourceRows
    <2>4. /\ file[n].no = n
          /\ file[n].ok =>
               0 < file[n].paid /\ file[n].paid <= file[n].ordered /\ file[n].at <= file[n].paidAt
      BY <1>1, <2>1, <2>3, RowsAreSound
    <2>5. ASSUME file[n].ok, NEW e \in ImportEvents(file[n])
          PROVE  /\ e \in Events /\ e \notin ApiEvents
                 /\ e.id = <<n, e.type>>
                 /\ e.order = file[n].order
                 /\ e.version = IF e.type = ORDER_CREATED THEN 1 ELSE 2
                 /\ \/ e.type = ORDER_CREATED
                    \/ e.type = ORDER_REFUNDED /\ file[n].refund
      BY <1>1, <1>4, <2>5, EventsOfRow
    <2>6. \A e \in ApiEvents, type \in EventTypes : e.id # <<n, type>>
      BY <1>1, UploadsAssumption
    <2> QED
      BY <2>2, <2>4, <2>5, <2>6
  <1> QED
    BY <1>3, <1>4 DEF FileInv

(* Any sort of rows of the file can be counted.                            *)
LEMMA RowsAreFinite ==
    ASSUME FileInv
    PROVE  /\ \A S \in SUBSET DOMAIN file : IsFiniteSet(S) /\ Cardinality(S) \in Nat
           /\ \A S \in SUBSET DOMAIN file, k \in Nat :
                Cardinality(First(k, S)) = Min({k, Cardinality(S)})
           /\ DOMAIN rows \subseteq DOMAIN file => \A s : RowsWith(s) \in SUBSET DOMAIN file
  <1>1. /\ DOMAIN file \subseteq 1..Len(upload.lines) /\ Len(upload.lines) \in Nat
        /\ IsFiniteSet(DOMAIN file)
    BY FileFacts
  <1>2. \A S \in SUBSET DOMAIN file : IsFiniteSet(S) /\ Cardinality(S) \in Nat
    BY <1>1, FS_Subset, FS_CardinalityType
  <1>3. \A S \in SUBSET DOMAIN file, k \in Nat :
          Cardinality(First(k, S)) = Min({k, Cardinality(S)})
    BY <1>1, FirstCounts
  <1> QED
    BY <1>2, <1>3 DEF RowsWith

(* A row stays as true as it was while the file is the same, the tables    *)
(* keep what they have, and the row its status.                            *)
LEMMA RowKept ==
    ASSUME NEW n, RowInv(n), file' = file, rows'[n] = rows[n], seqs \subseteq seqs',
           file[n].ok /\ Exists(file[n].order) => Exists(file[n].order)'
    PROVE  RowInv(n)'
  <1>1. DuplicateInFile(n)' <=> DuplicateInFile(n)
    BY DEF DuplicateInFile, Before
  <1>2. Storable(file[n])' <=> Storable(file[n])
    BY DEF Storable
  <1> QED
    BY <1>1, <1>2 DEF RowInv

(* The tables say what they said.                                          *)
LEMMA TablesKept ==
    ASSUME LedgerInv, VersionsAreBounded, UNCHANGED tables
    PROVE  LedgerInv' /\ VersionsAreBounded'
  <1>1. LedgerTypeOK' /\ OneRowPerEventId'
    BY DEF LedgerInv, LedgerTypeOK, OneRowPerEventId, tables
  <1>2. ASSUME NEW o \in Orders PROVE LedgerExplainsOrder(o)'
    <2>1. ProcessedEvents(o)' = ProcessedEvents(o)
      BY DEF ProcessedEvents, tables
    <2> QED
      BY <2>1, ExplainedElsewhere DEF LedgerInv, tables
  <1> QED
    BY <1>1, <1>2 DEF LedgerInv, LedgerExplainsOrders, VersionsAreBounded, tables

(* Steps that touch neither the tables nor the rows.                       *)
LEMMA Untouched ==
    ASSUME ImportInv, UNCHANGED <<tables, upload, file, rows, seqs, nextSeq>>
    PROVE  /\ LedgerInv' /\ VersionsAreBounded'
           /\ RowsInv' /\ SeqInv' /\ RecordedInv'
           /\ \A s : RowsWith(s)' = RowsWith(s)
           /\ count' = count => CountInv'
           /\ (phase \in {"uploading", "refused"} <=> phase' \in {"uploading", "refused"}) => FileInv'
  <1> USE DEF ImportInv
  <1>1. LedgerInv' /\ VersionsAreBounded'
    BY TablesKept
  <1>2. RowsInv'
    <2>1. ASSUME NEW n \in DOMAIN rows PROVE RowInv(n)'
      BY RowKept DEF RowsInv, Exists, tables
    <2> QED
      BY <2>1 DEF RowsInv
  <1>3. SeqInv'
    BY DEF SeqInv
  <1>4. \A s : RowsWith(s)' = RowsWith(s)
    BY DEF RowsWith
  <1>5. RecordedInv'
    <2>1. ImportedEvents' = ImportedEvents
      BY <1>4 DEF ImportedEvents, ImportEvents
    <2> QED
      BY <2>1 DEF RecordedInv, tables, Row
  <1>6. count' = count => CountInv'
    BY <1>4 DEF CountInv
  <1>7. (phase \in {"uploading", "refused"} <=> phase' \in {"uploading", "refused"}) => FileInv'
    BY DEF FileInv
  <1> QED
    BY <1>1, <1>2, <1>3, <1>4, <1>5, <1>6, <1>7

-----------------------------------------------------------------------------
(* The steps of the validation.                                            *)

LEMMA ImportInvInit == Init => ImportInv
  <1> SUFFICES ASSUME Init PROVE ImportInv
    OBVIOUS
  <1> USE DEF Init
  <1>1. LedgerInv /\ ledger = {}
    BY LedgerInvInit DEF LedgerInit
  <1>2. VersionsAreBounded
    BY <1>1 DEF VersionsAreBounded
  <1>3. FileInv
    BY DEF FileInv
  <1>4. DOMAIN rows = {} /\ DOMAIN file = {}
    BY DEF NoLines
  <1>5. \A s : RowsWith(s) = {}
    BY <1>4 DEF RowsWith
  <1>6. RowsInv
    BY <1>4 DEF RowsInv, NoLines
  <1>7. PhaseInv
    BY <1>5 DEF PhaseInv, BeforePolicy, AfterPolicy, Executing
  <1>8. ReadInv
    BY DEF ReadInv, NothingRead
  <1>9. SeqInv
    <2>1. Cardinality(SnapshotOrders) \in Nat
      BY SizesAssumption, FS_CardinalityType
    <2> QED
      BY <2>1 DEF SeqInv
  <1>10. CountInv
    BY <1>5, FS_EmptySet DEF CountInv
  <1>11. RecordedInv
    BY <1>1, <1>5 DEF RecordedInv, ImportedEvents
  <1>12. CompletedRunsStrandNothing
    BY DEF CompletedRunsStrandNothing
  <1> QED
    BY <1>1, <1>2, <1>3, <1>6, <1>7, <1>8, <1>9, <1>10, <1>11, <1>12 DEF ImportInv

LEMMA AfterReadUpload ==
    ASSUME ImportInv, ReadUpload
    PROVE  ImportInv'
  <1> USE DEF ImportInv, ReadUpload
  <1>1. upload \in Uploads /\ file = NoLines /\ rows = NoLines /\ DOMAIN rows = {}
    BY DEF FileInv, NoLines
  <1>2. LedgerInv' /\ VersionsAreBounded'
    BY TablesKept
  <1>3. FileInv'
    BY <1>1 DEF FileInv
  <1>4. RowsInv'
    BY <1>1 DEF RowsInv
  <1>5. (\A s : RowsWith(s)' = {}) /\ \A s : RowsWith(s) = {}
    BY <1>1 DEF RowsWith
  <1>6. PhaseInv'
    BY <1>5 DEF PhaseInv, BeforePolicy, AfterPolicy, Executing, Ended
  <1>7. ReadInv'
    BY DEF ReadInv, Exists, tables
  <1>8. SeqInv' /\ CountInv'
    BY <1>5 DEF SeqInv, CountInv
  <1>9. RecordedInv'
    <2>1. ImportedEvents' = {} /\ ImportedEvents = {}
      BY <1>5 DEF ImportedEvents
    <2> QED
      BY <2>1 DEF RecordedInv, tables
  <1>10. CompletedRunsStrandNothing'
    BY DEF CompletedRunsStrandNothing
  <1> QED
    BY <1>2, <1>3, <1>4, <1>6, <1>7, <1>8, <1>9, <1>10

(* A verdict is true of its row.                                           *)
LEMMA VerdictIsTrue ==
    ASSUME NEW n, NEW v, v = Verdict(n)
    PROVE  /\ v \in {"valid", "invalid", "conflict"}
           /\ v = "invalid" <=> ~file[n].ok
           /\ v = "conflict" => DuplicateInFile(n) \/ Exists(file[n].order) \/ file[n].seq \in seqs
  BY DEF Verdict

LEMMA AfterStageBatch ==
    ASSUME ImportInv, StageBatch
    PROVE  ImportInv'
  <1> USE DEF ImportInv
  <1> DEFINE next   == First(BatchSize, DOMAIN file \ DOMAIN rows)
             staged == DOMAIN rows \cup next
  <1>1. /\ phase = "staging" /\ phase' = "staging"
        /\ rows' = [n \in staged |-> IF n \in DOMAIN rows THEN rows[n] ELSE Verdict(n)]
        /\ UNCHANGED <<tables, upload, file, policy, cancel, existing, seqs, nextSeq, count>>
    BY DEF StageBatch
  <1>2. staged \subseteq DOMAIN file /\ DOMAIN rows \subseteq staged
    BY DEF First, RowsInv
  <1> HIDE DEF next, staged
  <1>3. DOMAIN rows' = staged
    BY <1>1
  <1>4. \A n \in DOMAIN rows : rows'[n] = rows[n]
    BY <1>1, <1>2
  <1>5. \A n \in staged \ DOMAIN rows : rows'[n] = Verdict(n)
    BY <1>1, <1>2
  <1>6. LedgerInv' /\ VersionsAreBounded'
    BY <1>1, TablesKept
  <1>7. FileInv'
    BY <1>1 DEF FileInv
  <1>8. ASSUME NEW n \in staged PROVE RowInv(n)' /\ rows'[n] \in {"valid", "invalid", "conflict"}
    <2>1. CASE n \in DOMAIN rows
      <3>1. RowInv(n)
        BY <2>1 DEF RowsInv
      <3>2. RowInv(n)'
        BY <1>1, <1>4, <2>1, <3>1, RowKept DEF Exists, tables
      <3>3. rows[n] \in {"valid", "invalid", "conflict"}
        BY <1>1, <2>1, <3>1 DEF RowInv, RowStatuses, PhaseInv, BeforePolicy, RowsWith
      <3> QED
        BY <1>4, <2>1, <3>2, <3>3
    <2>2. CASE n \notin DOMAIN rows
      <3>1. rows'[n] = Verdict(n)
        BY <1>5, <2>2
      <3>2. /\ rows'[n] \in {"valid", "invalid", "conflict"}
            /\ rows'[n] = "invalid" <=> ~file[n].ok
            /\ rows'[n] = "conflict" => DuplicateInFile(n) \/ Exists(file[n].order) \/ file[n].seq \in seqs
        BY <3>1, VerdictIsTrue
      <3>3. DuplicateInFile(n)' <=> DuplicateInFile(n)
        BY <1>1 DEF DuplicateInFile, Before
      <3>4. Exists(file[n].order)' <=> Exists(file[n].order)
        BY <1>1 DEF Exists, tables
      <3> QED
        BY <1>1, <3>2, <3>3, <3>4 DEF RowInv, RowStatuses
    <2> QED
      BY <2>1, <2>2
  <1>9. RowsInv'
    <2>1. rows' \in [staged -> RowStatuses]
      BY <1>1, <1>8 DEF RowStatuses
    <2> QED
      BY <1>1, <1>2, <1>3, <1>8, <2>1 DEF RowsInv
  <1>10. \A s \in {"imported", "failed", "skipped"} : RowsWith(s)' = {} /\ RowsWith(s) = {}
    BY <1>1, <1>3, <1>8 DEF RowsWith, PhaseInv, BeforePolicy
  <1>11. PhaseInv'
    BY <1>1, <1>10 DEF PhaseInv, BeforePolicy, AfterPolicy, Executing, Ended
  <1>12. ReadInv' /\ SeqInv'
    BY <1>1 DEF ReadInv, Exists, tables, SeqInv
  <1>13. CountInv'
    BY <1>1, <1>10 DEF CountInv
  <1>14. RecordedInv'
    <2>1. ImportedEvents' = {} /\ ImportedEvents = {}
      BY <1>10 DEF ImportedEvents
    <2> QED
      BY <1>1, <2>1 DEF RecordedInv, tables
  <1>15. CompletedRunsStrandNothing'
    BY <1>1 DEF CompletedRunsStrandNothing
  <1> QED
    BY <1>1, <1>6, <1>7, <1>9, <1>11, <1>12, <1>13, <1>14, <1>15

LEMMA AfterValidationFails ==
    ASSUME ImportInv, ValidationFails
    PROVE  ImportInv'
  <1> USE DEF ImportInv, ValidationFails
  <1>0. CompletedRunsStrandNothing' /\ ReadInv'
    BY DEF CompletedRunsStrandNothing, ReadInv, Exists, tables
  <1>1. CASE phase' = "stuck" /\ UNCHANGED rows
    <2>1. /\ LedgerInv' /\ VersionsAreBounded' /\ RowsInv' /\ SeqInv' /\ RecordedInv'
          /\ \A s : RowsWith(s)' = RowsWith(s)
          /\ CountInv' /\ FileInv'
      BY <1>1, Untouched
    <2>2. PhaseInv'
      BY <1>1, <2>1 DEF PhaseInv, BeforePolicy, AfterPolicy, Executing, Ended
    <2> QED
      BY <1>0, <2>1, <2>2
  <1>2. CASE phase' = "failed" /\ rows' = NoLines
    <2>1. DOMAIN rows' = {}
      BY <1>2 DEF NoLines
    <2>2. LedgerInv' /\ VersionsAreBounded'
      BY TablesKept
    <2>3. FileInv'
      BY <1>2 DEF FileInv
    <2>4. RowsInv'
      BY <1>2, <2>1 DEF RowsInv, NoLines
    <2>5. \A s : RowsWith(s)' = {}
      BY <2>1 DEF RowsWith
    <2>6. \A s \in {"imported", "failed", "skipped"} : RowsWith(s) = {}
      BY DEF PhaseInv, BeforePolicy
    <2>7. PhaseInv'
      BY <1>2, <2>5 DEF PhaseInv, BeforePolicy, AfterPolicy, Executing, Ended
    <2>8. SeqInv' /\ CountInv'
      BY <2>5, <2>6 DEF SeqInv, CountInv
    <2>9. RecordedInv'
      <3>1. ImportedEvents' = {} /\ ImportedEvents = {}
        BY <2>5, <2>6 DEF ImportedEvents
      <3> QED
        BY <3>1 DEF RecordedInv, tables
    <2> QED
      BY <1>0, <2>2, <2>3, <2>4, <2>7, <2>8, <2>9
  <1> QED
    BY <1>1, <1>2

(* The steps that only move the import on.                                 *)
LEMMA AfterMovingOn ==
    ASSUME ImportInv,
           FinalizeValidation \/ Start \/ RequestCancel \/ SelectChunk \/ ExecutionError
    PROVE  ImportInv'
  <1> USE DEF ImportInv
  <1>1. UNCHANGED <<tables, upload, file, policy, rows, seqs, nextSeq, count>>
    BY DEF FinalizeValidation, Start, RequestCancel, SelectChunk, ExecutionError
  <1>2. /\ phase \notin {"uploading", "refused", "completed", "stuck"}
        /\ phase' \notin {"uploading", "refused", "completed", "stuck"}
        /\ cancel' \in BOOLEAN
    BY DEF FinalizeValidation, Start, RequestCancel, SelectChunk, ExecutionError, Executing
  <1>3. /\ LedgerInv' /\ VersionsAreBounded' /\ RowsInv' /\ SeqInv' /\ RecordedInv'
        /\ \A s : RowsWith(s)' = RowsWith(s)
        /\ CountInv' /\ FileInv'
    BY <1>1, <1>2, Untouched
  <1>4. PhaseInv'
    <2> USE DEF PhaseInv, BeforePolicy, AfterPolicy, Executing, Ended
    <2>1. CASE FinalizeValidation
      BY <1>3, <2>1 DEF FinalizeValidation
    <2>2. CASE Start
      BY <1>3, <2>2 DEF Start
    <2>3. CASE RequestCancel
      BY <1>3, <2>3 DEF RequestCancel
    <2>4. CASE SelectChunk
      BY <1>3, <2>4 DEF SelectChunk
    <2>5. CASE ExecutionError
      BY <1>3, <2>5 DEF ExecutionError
    <2> QED
      BY <2>1, <2>2, <2>3, <2>4, <2>5
  <1>5. ReadInv'
    <2>1. CASE SelectChunk /\ phase' = "insert"
      <3>1. existing' = [orders |-> {o \in Orders : Exists(o)}, seqs |-> seqs]
        BY <2>1 DEF SelectChunk
      <3>2. existing'.orders = {o \in Orders : Exists(o)} /\ existing'.seqs = seqs
        BY <3>1
      <3>3. \A o : Exists(o)' <=> Exists(o)
        BY <1>1 DEF Exists, tables
      <3> QED
        BY <1>1, <2>1, <3>1, <3>2, <3>3 DEF ReadInv, SeqInv
    <2>2. CASE UNCHANGED existing /\ (phase # "insert" \/ phase' = phase)
      BY <1>1, <2>2 DEF ReadInv, Exists, tables, NothingRead
    <2>3. CASE existing' = NothingRead
      BY <1>1, <2>3 DEF ReadInv, NothingRead
    <2> QED
      BY <2>1, <2>2, <2>3
      DEF FinalizeValidation, Start, RequestCancel, SelectChunk, ExecutionError
  <1>6. CompletedRunsStrandNothing'
    BY <1>2 DEF CompletedRunsStrandNothing
  <1> QED
    BY <1>1, <1>2, <1>3, <1>4, <1>5, <1>6

(* Conflicts fail or are skipped, and are counted.                         *)
LEMMA AfterApplyConflictPolicy ==
    ASSUME ImportInv, ApplyConflictPolicy
    PROVE  ImportInv'
  <1> USE DEF ImportInv
  <1> DEFINE conflicts == RowsWith("conflict")
  <1>2. PICK new \in {"skipped", "failed"} : new = IF policy = "skip" THEN "skipped" ELSE "failed"
    OBVIOUS
  <1>1. /\ phase = "policy" /\ phase' = "check"
        /\ rows' = [n \in DOMAIN rows |-> IF n \notin conflicts THEN rows[n] ELSE new]
        /\ count' = IF policy = "skip"
                    THEN [count EXCEPT !.skipped = @ + Cardinality(conflicts)]
                    ELSE [count EXCEPT !.rejected = @ + Cardinality(conflicts)]
        /\ UNCHANGED <<tables, upload, file, policy, cancel, existing, seqs, nextSeq>>
    BY <1>2 DEF ApplyConflictPolicy
  <1>3. \A s \in {"imported", "failed", "skipped"} : RowsWith(s) = {}
    BY <1>1 DEF PhaseInv, BeforePolicy
  <1>4. DOMAIN rows' = DOMAIN rows
    BY <1>1
  <1>5. \A n \in DOMAIN rows : rows'[n] = IF n \in conflicts THEN new ELSE rows[n]
    BY <1>1
  <1>6. LedgerInv' /\ VersionsAreBounded'
    BY <1>1, TablesKept
  <1>7. FileInv'
    BY <1>1 DEF FileInv
  <1>8. ASSUME NEW n \in DOMAIN rows PROVE RowInv(n)'
    <2>1. RowInv(n)
      BY DEF RowsInv
    <2>2. CASE n \in conflicts
      <3>1. rows[n] = "conflict" /\ rows'[n] = new
        BY <1>5, <2>2 DEF RowsWith
      <3>2. DuplicateInFile(n)' <=> DuplicateInFile(n)
        BY <1>1 DEF DuplicateInFile, Before
      <3>3. Exists(file[n].order)' <=> Exists(file[n].order)
        BY <1>1 DEF Exists, tables
      <3> QED
        BY <1>1, <1>2, <2>1, <3>1, <3>2, <3>3 DEF RowInv, RowStatuses
    <2>3. CASE n \notin conflicts
      BY <1>1, <1>5, <2>1, <2>3, RowKept DEF Exists, tables
    <2> QED
      BY <2>2, <2>3
  <1>9. RowsInv'
    <2>1. rows' \in [DOMAIN rows -> RowStatuses]
      BY <1>1, <1>8 DEF RowInv
    <2> QED
      BY <1>1, <1>4, <1>8, <2>1 DEF RowsInv
  <1>10. \A s : RowsWith(s)' = IF s = new THEN RowsWith(s) \cup conflicts ELSE RowsWith(s) \ conflicts
    <2>1. conflicts \subseteq DOMAIN rows
      BY DEF RowsWith
    <2> HIDE DEF conflicts
    <2> QED
      BY <1>4, <1>5, <2>1 DEF RowsWith
  <1>11. /\ RowsWith(new)' = conflicts
         /\ \A s \in {"imported", "failed", "skipped"} : s # new => RowsWith(s)' = {}
         /\ RowsWith("conflict")' = {}
    BY <1>2, <1>3, <1>10
  <1>12. PhaseInv'
    BY <1>1, <1>4, <1>11 DEF PhaseInv, BeforePolicy, AfterPolicy, Executing, Ended
  <1>13. ReadInv' /\ SeqInv'
    BY <1>1 DEF ReadInv, Exists, tables, SeqInv, NothingRead
  <1>14. CountInv'
    <2>1. count = [inserted |-> 0, rejected |-> 0, skipped |-> 0]
      BY <1>3, FS_EmptySet DEF CountInv
    <2>2. Cardinality(conflicts) \in Nat
      BY RowsAreFinite DEF RowsInv, RowsWith
    <2>3. Cardinality({}) = 0
      BY FS_EmptySet
    <2>4. CASE policy = "skip"
      <3>1. count' = [inserted |-> 0, rejected |-> 0, skipped |-> Cardinality(conflicts)]
        <4> HIDE DEF conflicts
        <4> QED
          BY <1>1, <2>1, <2>2, <2>4
      <3> QED
        BY <1>2, <1>11, <2>3, <2>4, <3>1 DEF CountInv
    <2>5. CASE policy # "skip"
      <3>1. count' = [inserted |-> 0, rejected |-> Cardinality(conflicts), skipped |-> 0]
        <4> HIDE DEF conflicts
        <4> QED
          BY <1>1, <2>1, <2>2, <2>5
      <3> QED
        BY <1>2, <1>11, <2>3, <2>5, <3>1 DEF CountInv
    <2> QED
      BY <2>4, <2>5
  <1>15. RecordedInv'
    <2>1. RowsWith("imported")' = {} /\ RowsWith("imported") = {}
      BY <1>2, <1>3, <1>11
    <2>2. ImportedEvents' = {} /\ ImportedEvents = {}
      BY <2>1 DEF ImportedEvents
    <2> QED
      BY <1>1, <2>2 DEF RecordedInv, tables
  <1>16. CompletedRunsStrandNothing'
    BY <1>1 DEF CompletedRunsStrandNothing
  <1> QED
    BY <1>1, <1>6, <1>7, <1>9, <1>12, <1>13, <1>14, <1>15, <1>16

-----------------------------------------------------------------------------
(* The verdict on the whole import.                                        *)

(* A row of an order is about one of the orders.                           *)
LEMMA OrderOfRow ==
    ASSUME FileInv, NEW n \in DOMAIN file, file[n].ok
    PROVE  file[n].order \in Orders
  <1>1. PICK e \in ImportEvents(file[n]) : TRUE
    BY CreationOfRow
  <1>2. e \in Events /\ e.order = file[n].order
    BY FileFacts
  <1> QED
    BY <1>2, EventFields

(* An order that matches the ledger has no event above its watermark.      *)
LEMMA MatchingOrders ==
    ASSUME LedgerInv, VersionsAreBounded, NEW o \in Orders, ~Mismatch(o),
           NEW f \in RejectedStateEvents(o)
    PROVE  f.version <= orders[o].version
  <1> DEFINE S == {0} \cup {e.version : e \in EventsOn(o)}
  <1>1. orders[o].version = Max(S)
    BY DEF Mismatch
  <1>2. PICK b \in Nat : \A row \in ledger : row.event.version <= b
    BY DEF VersionsAreBounded
  <1>3. ASSUME NEW e \in EventsOn(o) PROVE e.version \in Nat /\ e.version <= b
    <2>1. PICK row \in ledger : e = row.event
      BY DEF EventsOn
    <2>2. e \in Events
      BY <2>1, LedgerRowIsRow DEF LedgerInv
    <2> QED
      BY <1>2, <2>1, <2>2, EventFields
  <1>4. S \in SUBSET Nat /\ S # {} /\ \A x \in S : x <= b
    BY <1>3
  <1>5. f \in EventsOn(o)
    <2>1. f \in Events /\ Row(f, REJECTED) \in ledger /\ f.order = o
      BY DEF RejectedStateEvents
    <2>2. Row(f, REJECTED).event = f
      BY RowFields
    <2> QED
      BY <2>1, <2>2 DEF EventsOn
  <1>6. f.version \in S
    BY <1>5
  <1> HIDE DEF S
  <1>7. f.version <= Max(S)
    BY <1>4, <1>6, MaxOfBounded
  <1> QED
    BY <1>1, <1>7

LEMMA AfterFinalize ==
    ASSUME ImportInv, Finalize
    PROVE  ImportInv'
  <1> USE DEF ImportInv
  <1>1. UNCHANGED <<tables, upload, file, policy, cancel, rows, existing, seqs, nextSeq>>
    BY DEF Finalize
  <1>2. /\ phase \in {"finalize", "finalizeCancelled"}
        /\ phase' \in {"inconsistent", "completed", "cancelled"}
        /\ phase' = "completed" => /\ phase = "finalize"
                                   /\ \A n \in RowsWith("imported") : ~Mismatch(file[n].order)
    BY DEF Finalize
  <1>3. /\ LedgerInv' /\ VersionsAreBounded' /\ RowsInv' /\ SeqInv' /\ RecordedInv'
        /\ \A s : RowsWith(s)' = RowsWith(s)
        /\ FileInv'
    BY <1>1, <1>2, Untouched
  <1>4. CountInv'
    BY <1>3 DEF Finalize, CountInv
  <1>5. PhaseInv'
    BY <1>1, <1>2, <1>3 DEF PhaseInv, BeforePolicy, AfterPolicy, Executing, Ended
  <1>6. ReadInv'
    BY <1>1, <1>2 DEF ReadInv, Exists, tables, NothingRead
  <1>7. CompletedRunsStrandNothing'
    <2> SUFFICES ASSUME phase' = "completed", NEW n \in RowsWith("imported"),
                        NEW f \in RejectedStateEvents(file[n].order)
                 PROVE  f.version <= orders[file[n].order].version
      <3>1. \A o : RejectedStateEvents(o)' = RejectedStateEvents(o)
        BY <1>1 DEF RejectedStateEvents, tables, Row
      <3> QED
        BY <1>1, <1>3, <3>1 DEF CompletedRunsStrandNothing, tables
    <2>1. n \in DOMAIN file /\ file[n].ok
      BY DEF RowsWith, RowsInv, RowInv
    <2>2. file[n].order \in Orders
      BY <2>1, OrderOfRow
    <2> QED
      BY <1>2, <2>2, MatchingOrders
  <1> QED
    BY <1>1, <1>3, <1>4, <1>5, <1>6, <1>7

-----------------------------------------------------------------------------
(* The event service in between.                                           *)

(* What a transaction of the event service leaves of the tables.           *)
LEMMA EffectsOfEvent ==
    ASSUME LedgerInv, NEW e \in Events, Reject(e) \/ ApplyCreated(e) \/ ApplyState(e)
    PROVE  /\ \A row \in ledger' :
                \/ row \in ledger
                \/ row.event = e
                \/ \E r \in ledger : r.status = REJECTED /\ row.event = r.event
           /\ \A row \in ledger : row.status = PROCESSED => row \in ledger'
           /\ \A o \in Orders : Exists(o) => Exists(o)'
           /\ \A o \in Orders : Exists(o) /\ orders'[o].status = ACTIVE =>
                /\ orders'[o] = orders[o]
                /\ \A f \in RejectedStateEvents(o)' :
                     f \in RejectedStateEvents(o) \/ f.version <= orders[o].version
  <1>1. e.order \in Orders /\ e.version \in Nat /\ orders \in [Orders -> OrderRow]
    BY EventFields DEF LedgerInv, LedgerTypeOK
  <1>2. \A f, s : Row(f, s).event = f /\ Row(f, s).status = s
    BY RowFields
  <1>3. CASE Reject(e)
    <2>1. ledger' = ledger \cup {Row(e, REJECTED)} /\ orders' = orders
      BY <1>3 DEF Reject
    <2>2. \A o : Exists(o)' <=> Exists(o)
      BY <2>1 DEF Exists
    <2>3. ASSUME NEW o \in Orders, orders[o].status = ACTIVE, NEW f \in RejectedStateEvents(o)'
          PROVE  f \in RejectedStateEvents(o) \/ f.version <= orders[o].version
      <3>1. f \in Events /\ Row(f, REJECTED) \in ledger' /\ f.order = o /\ f.type \in StateEventTypes
        BY <2>3 DEF RejectedStateEvents, Row
      <3>2. CASE Row(f, REJECTED) \in ledger
        BY <3>1, <3>2 DEF RejectedStateEvents
      <3>3. CASE Row(f, REJECTED) = Row(e, REJECTED)
        <4>1. f = e
          BY <1>2, <3>3
        <4> QED
          BY <1>3, <2>3, <3>1, <4>1 DEF Reject, Rejectable
      <3> QED
        BY <2>1, <3>1, <3>2, <3>3
    <2> QED
      BY <1>2, <2>1, <2>2, <2>3
  <1>4. ASSUME NEW replay \in SUBSET Events, \A f \in replay : Row(f, REJECTED) \in ledger,
               ledger' = LedgerAfter(e, replay)
        PROVE  /\ \A row \in ledger' :
                    \/ row \in ledger
                    \/ row.event = e
                    \/ \E r \in ledger : r.status = REJECTED /\ row.event = r.event
               /\ \A row \in ledger : row.status = PROCESSED => row \in ledger'
               /\ \A o : RejectedStateEvents(o)' \subseteq RejectedStateEvents(o)
    <2>1. \A row \in ledger' : row \in ledger \/ \E f \in replay \cup {e} : row = Row(f, PROCESSED)
      BY <1>4 DEF LedgerAfter
    <2>2. \A row \in ledger : row.status = PROCESSED => row \in ledger'
      BY <1>2, <1>4 DEF LedgerAfter
    <2>3. \A f : Row(f, REJECTED) \in ledger' => Row(f, REJECTED) \in ledger
      BY <1>2, <2>1
    <2>4. \A o : RejectedStateEvents(o)' \subseteq RejectedStateEvents(o)
      BY <2>3 DEF RejectedStateEvents, Row
    <2> QED
      BY <1>2, <1>4, <2>1, <2>2, <2>4
  <1>5. CASE ApplyCreated(e)
    <2>1. PICK replay \in {{}} \cup {{f} : f \in RejectedStateEvents(e.order)} :
            /\ ledger' = LedgerAfter(e, replay)
            /\ orders' = [orders EXCEPT ![e.order] = CreatedRow(e, replay)]
      BY <1>5 DEF ApplyCreated
    <2>2. replay \in SUBSET Events /\ \A f \in replay : Row(f, REJECTED) \in ledger
      BY <2>1 DEF RejectedStateEvents
    <2>3. ~Exists(e.order)
      BY <1>5 DEF ApplyCreated
    <2>4. \A o \in Orders : Exists(o) => orders'[o] = orders[o]
      BY <1>1, <2>1, <2>3
    <2>5. \A o \in Orders : Exists(o) => Exists(o)'
      BY <2>4 DEF Exists
    <2> QED
      BY <1>4, <2>1, <2>2, <2>4, <2>5
  <1>6. CASE ApplyState(e)
    <2>1. ledger' = LedgerAfter(e, {}) /\ orders' = [orders EXCEPT ![e.order] = Transition(orders[e.order], e)]
      BY <1>6 DEF ApplyState
    <2>2. /\ orders'[e.order].status = TargetStatus(e.type)
          /\ \A o \in Orders \ {e.order} : orders'[o] = orders[o]
      BY <1>1, <2>1, TransitionFields
    <2>3. orders'[e.order].status \notin {MISSING, ACTIVE}
      BY <2>2 DEF TargetStatus
    <2>4. \A o \in Orders : Exists(o) => Exists(o)'
      BY <2>2, <2>3 DEF Exists
    <2> QED
      BY <1>4, <2>1, <2>2, <2>3, <2>4
  <1> QED
    BY <1>3, <1>5, <1>6

LEMMA AfterOrderEvent ==
    ASSUME ImportInv, NEW e \in ApiEvents, ApplyOrderEvent(e)
    PROVE  ImportInv'
  <1> USE DEF ImportInv
  <1>1. e \in Events /\ (Reject(e) \/ ApplyCreated(e) \/ ApplyState(e))
    BY DEF ApiEvents, ApplyOrderEvent
  <1>2. UNCHANGED <<upload, file, policy, phase, cancel, rows, existing, count>>
    BY DEF ApplyOrderEvent
  <1>3. LedgerNext
    BY <1>1 DEF LedgerNext
  <1>4. LedgerInv'
    BY <1>3, LedgerTypeStep, OneRowStep, ExplainedStep DEF LedgerInv
  <1>5. /\ \A row \in ledger' :
             \/ row \in ledger
             \/ row.event = e
             \/ \E r \in ledger : r.status = REJECTED /\ row.event = r.event
        /\ \A row \in ledger : row.status = PROCESSED => row \in ledger'
    BY <1>1, EffectsOfEvent
  <1>6. \A o \in Orders : Exists(o) => Exists(o)'
    BY <1>1, EffectsOfEvent
  <1>7. VersionsAreBounded'
    <2>1. PICK b \in Nat : \A row \in ledger : row.event.version <= b
      BY DEF VersionsAreBounded
    <2>2. e.version \in Nat
      BY <1>1, EventFields
    <2>3. \A row \in ledger : row.event.version \in Nat
      BY LedgerRowIsRow, EventFields DEF LedgerInv
    <2>4. b + e.version \in Nat /\ \A row \in ledger' : row.event.version <= b + e.version
      BY <1>5, <2>1, <2>2, <2>3
    <2> QED
      BY <2>4 DEF VersionsAreBounded
  <1>8. FileInv' /\ PhaseInv' /\ CountInv' /\ \A s : RowsWith(s)' = RowsWith(s)
    BY <1>2 DEF FileInv, PhaseInv, CountInv, RowsWith
  <1>9. SeqInv' /\ seqs \subseteq seqs'
    <2>1. CASE UNCHANGED <<seqs, nextSeq>>
      BY <2>1 DEF SeqInv
    <2>2. CASE seqs' = seqs \cup {nextSeq} /\ nextSeq' = nextSeq + 1
      <3>1. nextSeq \in Nat \ {0}
        BY DEF SeqInv
      <3> QED
        BY <2>2, <3>1 DEF SeqInv
    <2> QED
      BY <2>1, <2>2 DEF ApplyOrderEvent
  <1>10. RowsInv'
    <2>1. ASSUME NEW n \in DOMAIN rows PROVE RowInv(n)'
      <3>1. file[n].ok /\ Exists(file[n].order) => Exists(file[n].order)'
        <4> SUFFICES ASSUME file[n].ok, Exists(file[n].order) PROVE orders'[file[n].order].status # MISSING
          BY <1>2 DEF Exists
        <4>1. file[n].order \in Orders
          BY OrderOfRow DEF RowsInv
        <4> QED
          BY <1>6, <4>1 DEF Exists
      <3> QED
        BY <1>2, <1>9, <3>1, RowKept DEF RowsInv
    <2> QED
      BY <1>2, <2>1 DEF RowsInv
  <1>11. ReadInv'
    <2>1. \A o \in existing.orders : o \in Orders
      BY DEF ReadInv
    <2>2. \A o \in existing.orders : Exists(o)'
      BY <1>6, <2>1 DEF ReadInv
    <2> QED
      BY <1>2, <1>9, <2>2 DEF ReadInv
  <1>12. RecordedInv'
    <2>1. ImportedEvents' = ImportedEvents
      BY <1>2, <1>8 DEF ImportedEvents, ImportEvents
    <2>2. \A f \in ImportedEvents : Row(f, PROCESSED) \in ledger'
      BY <1>5, RowFields DEF RecordedInv
    <2>3. \A row \in ledger' : \/ row.event \in ApiEvents
                               \/ row.event \in ImportedEvents /\ row.status = PROCESSED
      BY <1>5 DEF RecordedInv
    <2>4. \A f \in ImportedEvents : Row(f, PROCESSED)' = Row(f, PROCESSED)
      BY DEF Row
    <2> QED
      BY <2>1, <2>2, <2>3, <2>4 DEF RecordedInv
  <1>13. CompletedRunsStrandNothing'
    <2> SUFFICES ASSUME phase = "completed", NEW n \in RowsWith("imported"),
                        orders'[file[n].order].status = ACTIVE
                 PROVE  \A f \in RejectedStateEvents(file[n].order)' :
                          f.version <= orders'[file[n].order].version
      BY <1>2, <1>8 DEF CompletedRunsStrandNothing
    <2> PICK o : o = file[n].order
      OBVIOUS
    <2>1. n \in DOMAIN file /\ file[n].ok /\ Exists(o)
      BY DEF RowsWith, RowsInv, RowInv
    <2>2. o \in Orders
      BY <2>1, OrderOfRow
    <2>3. /\ orders'[o] = orders[o]
          /\ \A f \in RejectedStateEvents(o)' :
               f \in RejectedStateEvents(o) \/ f.version <= orders[o].version
      BY <1>1, <2>1, <2>2, EffectsOfEvent
    <2>4. orders[o].status = ACTIVE =>
            \A f \in RejectedStateEvents(o) : f.version <= orders[o].version
      BY DEF CompletedRunsStrandNothing
    <2>5. \A f \in RejectedStateEvents(o)' : f.version <= orders'[o].version
      BY <2>3, <2>4
    <2>6. RejectedStateEvents(file[n].order)' = RejectedStateEvents(o)'
      BY <1>2
    <2> QED
      BY <2>5, <2>6
  <1> QED
    BY <1>2, <1>4, <1>7, <1>8, <1>9, <1>10, <1>11, <1>12, <1>13

-----------------------------------------------------------------------------
(* The INSERTs of a chunk.                                                 *)

(* The candidates are orders of the file, not yet written.                 *)
LEMMA CandidatesOfChunk ==
    ASSUME ImportInv
    PROVE  /\ Candidates \subseteq Chunk /\ Chunk \subseteq RowsWith("valid")
           /\ RowsWith("valid") \subseteq DOMAIN rows /\ DOMAIN rows \subseteq DOMAIN file
           /\ IsFiniteSet(Candidates) /\ IsFiniteSet(Chunk)
           /\ Candidates \subseteq 1..Len(upload.lines) /\ Len(upload.lines) \in Nat
           /\ \A n \in Chunk : /\ file[n].ok /\ file[n] \in FileRow /\ file[n].seq \in Nat
                               /\ file[n].order \in Orders /\ rows[n] = "valid"
  <1> USE DEF ImportInv
  <1>1. Candidates \subseteq Chunk /\ Chunk \subseteq RowsWith("valid")
    BY DEF Candidates, Chunk, First
  <1>2. RowsWith("valid") \subseteq DOMAIN rows /\ DOMAIN rows \subseteq DOMAIN file
    BY DEF RowsWith, RowsInv
  <1>3. IsFiniteSet(Candidates) /\ IsFiniteSet(Chunk)
    BY <1>1, <1>2, RowsAreFinite
  <1>4. \A n \in Chunk : rows[n] = "valid" /\ file[n].ok
    BY <1>1, <1>2 DEF RowsWith, RowsInv, RowInv
  <1>5. \A n \in Chunk : file[n] \in FileRow /\ file[n].order \in Orders
    BY <1>1, <1>2, <1>4, FileFacts, OrderOfRow
  <1>6. \A n \in Chunk : file[n].seq \in Nat
    BY <1>5 DEF FileRow
  <1>7. DOMAIN file \subseteq 1..Len(upload.lines) /\ Len(upload.lines) \in Nat
    BY FileFacts
  <1> QED
    BY <1>1, <1>2, <1>3, <1>4, <1>5, <1>6, <1>7

(* The state of the INSERTs before the first and after each line.          *)
BeforeInserts(next) ==
    [orders |-> {o \in Orders : Exists(o)}, seqs |-> seqs, next |-> next, done |-> {}]

Inserts(f, next, last) ==
    f = [n \in 0..last |-> IF n = 0 THEN BeforeInserts(next)
                           ELSE IF n \in Candidates THEN InsertRow(f[n - 1], n) ELSE f[n - 1]]

(* There is such a function: one line more can always be added.            *)
LEMMA InsertsExist ==
    ASSUME NEW next, NEW last \in Nat
    PROVE  \E f : Inserts(f, next, last)
  <1> DEFINE T == {m \in Nat : \E f : Inserts(f, next, m)}
  <1>1. 0 \in T
    <2> DEFINE f == [n \in 0..0 |-> BeforeInserts(next)]
    <2>1. Inserts(f, next, 0)
      <3>1. \A n \in 0..0 : n = 0
        OBVIOUS
      <3> QED
        BY <3>1 DEF Inserts
    <2> QED
      BY <2>1
  <1>2. ASSUME NEW m \in Nat, m \in T PROVE m + 1 \in T
    <2>1. PICK f : Inserts(f, next, m)
      BY <1>2
    <2> DEFINE g == [n \in 0..(m + 1) |->
                       IF n = m + 1
                       THEN IF n \in Candidates THEN InsertRow(f[m], n) ELSE f[m]
                       ELSE f[n]]
    <2>2. /\ \A n \in 0..(m + 1) : n = m + 1 \/ n \in 0..m
          /\ \A n \in 0..m : n # m + 1 /\ n \in 0..(m + 1)
          /\ (m + 1) - 1 = m /\ m + 1 # 0 /\ m + 1 \in 0..(m + 1) /\ m \in 0..m
      OBVIOUS
    <2>3. \A n \in 0..m : g[n] = f[n]
      BY <2>2
    <2>4. g[m + 1] = IF m + 1 \in Candidates THEN InsertRow(f[m], m + 1) ELSE f[m]
      BY <2>2
    <2>5. DOMAIN g = 0..(m + 1) /\ g = [n \in 0..(m + 1) |-> g[n]]
      OBVIOUS
    <2> HIDE DEF g
    <2>6. ASSUME NEW n \in 0..(m + 1)
          PROVE  g[n] = IF n = 0 THEN BeforeInserts(next)
                        ELSE IF n \in Candidates THEN InsertRow(g[n - 1], n) ELSE g[n - 1]
      <3>1. CASE n = m + 1
        <4>1. g[n - 1] = f[m]
          BY <2>2, <2>3, <3>1
        <4> QED
          BY <2>2, <2>4, <3>1, <4>1
      <3>2. CASE n \in 0..m /\ n # 0
        <4>1. n - 1 \in 0..m
          BY <3>2
        <4>2. f[n] = IF n \in Candidates THEN InsertRow(f[n - 1], n) ELSE f[n - 1]
          BY <2>1, <3>2 DEF Inserts
        <4> QED
          BY <2>3, <3>2, <4>1, <4>2
      <3>3. CASE n = 0
        <4>1. 0 \in 0..m
          OBVIOUS
        <4>2. f[0] = BeforeInserts(next)
          BY <2>1, <4>1 DEF Inserts
        <4> QED
          BY <2>3, <3>3, <4>1, <4>2
      <3> QED
        BY <2>2, <3>1, <3>2, <3>3
    <2>7. Inserts(g, next, m + 1)
      BY <2>5, <2>6, Zenon DEF Inserts
    <2> QED
      BY <2>7
  <1> HIDE DEF T
  <1>3. Nat \subseteq T
    BY <1>1, <1>2, Induction
  <1> USE DEF T
  <1> QED
    BY <1>3

LEMMA InsertAllIsLast ==
    ASSUME NEW next, Len(upload.lines) \in Nat
    PROVE  \E f : Inserts(f, next, Len(upload.lines)) /\ InsertAll(next) = f[Len(upload.lines)]
  <1> DEFINE f == CHOOSE g : Inserts(g, next, Len(upload.lines))
  <1>1. Inserts(f, next, Len(upload.lines))
    BY InsertsExist
  <1>2. InsertAll(next) = f[Len(upload.lines)]
    BY Zenon DEF InsertAll, Inserts, BeforeInserts
  <1> QED
    BY <1>1, <1>2

(* What is true after line n: every candidate up to there was inserted, or *)
(* its order or its key is taken; no two have the same order.              *)
Tried(t, n) ==
    /\ t \in [orders : SUBSET Orders, seqs : SUBSET (Nat \ {0}), next : Nat \ {0}, done : SUBSET Nat]
    /\ t.done \subseteq {m \in Candidates : m <= n}
    /\ t.orders = {o \in Orders : Exists(o)} \cup {file[m].order : m \in t.done}
    /\ \A m \in t.done : ~Exists(file[m].order)
    /\ \A l, m \in t.done : file[l].order = file[m].order => l = m
    /\ seqs \subseteq t.seqs /\ \A q \in t.seqs : q < t.next
    /\ \A m \in Candidates : m <= n /\ m \notin t.done =>
         file[m].order \in t.orders \/ file[m].seq \in t.seqs

LEMMA TriedOneMore ==
    ASSUME ImportInv, NEW n \in Nat, NEW t, Tried(t, n), n + 1 \in Candidates
    PROVE  Tried(InsertRow(t, n + 1), n + 1)
  <1> DEFINE row == file[n + 1]
             seq == IF row.seq = 0 THEN t.next ELSE row.seq
             use == IF seq >= t.next THEN seq + 1 ELSE t.next
             u == InsertRow(t, n + 1)
  <1>1. row.order \in Orders /\ row.seq \in Nat /\ Candidates \subseteq Nat
    BY CandidatesOfChunk
  <1>2. /\ t.orders \subseteq Orders /\ t.seqs \subseteq Nat \ {0}
        /\ t.next \in Nat \ {0} /\ t.done \subseteq Nat
        /\ t = [orders |-> t.orders, seqs |-> t.seqs, next |-> t.next, done |-> t.done]
    BY DEF Tried
  <1>3. /\ t.done \subseteq {m \in Candidates : m <= n}
        /\ t.orders = {o \in Orders : Exists(o)} \cup {file[m].order : m \in t.done}
        /\ \A m \in t.done : ~Exists(file[m].order)
        /\ \A l, m \in t.done : file[l].order = file[m].order => l = m
        /\ seqs \subseteq t.seqs /\ \A q \in t.seqs : q < t.next
        /\ \A m \in Candidates : m <= n /\ m \notin t.done =>
             file[m].order \in t.orders \/ file[m].seq \in t.seqs
    BY DEF Tried
  <1>4. seq \in Nat \ {0} /\ use \in Nat \ {0} /\ seq < use /\ t.next <= use
    BY <1>1, <1>2
  <1>5. \A m \in Candidates : m <= n + 1 => m <= n \/ m = n + 1
    BY <1>1
  <1>6. n + 1 \notin t.done
    BY <1>1, <1>3
  <1>7. CASE row.order \in t.orders \/ seq \in t.seqs
    <2>1. PICK x \in Nat \ {0} : t.next <= x /\ u = [orders |-> t.orders, seqs |-> t.seqs,
                                                     next |-> x, done |-> t.done]
      <3>1. CASE row.seq = 0
        <4>1. u = [t EXCEPT !.next = use]
          BY <1>7, <3>1 DEF InsertRow
        <4>2. u = [orders |-> t.orders, seqs |-> t.seqs, next |-> use, done |-> t.done]
          <5> HIDE DEF use, u
          <5> QED
            BY <1>2, <4>1
        <4> HIDE DEF use, u
        <4> QED
          BY <1>4, <4>2
      <3>2. CASE row.seq # 0
        <4>1. u = t
          BY <1>7, <3>2 DEF InsertRow
        <4> HIDE DEF u
        <4> QED
          BY <1>2, <4>1
      <3> QED
        BY <3>1, <3>2
    <2>2. u.orders = t.orders /\ u.seqs = t.seqs /\ u.next = x /\ u.done = t.done
      BY <2>1
    <2>3. row.order \in t.orders \/ row.seq \in t.seqs
      BY <1>2, <1>3, <1>7
    <2> HIDE DEF u, seq, use
    <2>4. u \in [orders : SUBSET Orders, seqs : SUBSET (Nat \ {0}), next : Nat \ {0}, done : SUBSET Nat]
      BY <1>2, <2>1
    <2>5. \A q \in u.seqs : q < u.next
      BY <1>2, <1>3, <2>1, <2>2
    <2>6. u.done \subseteq {m \in Candidates : m <= n + 1}
      <3>1. \A m \in t.done : m \in Candidates /\ m \in Nat /\ m <= n
        BY <1>1, <1>3
      <3>2. \A m \in t.done : m \in Candidates /\ m <= n + 1
        BY <3>1
      <3> QED
        BY <2>2, <3>2
    <2>7. \A m \in Candidates : m <= n + 1 /\ m \notin u.done =>
            file[m].order \in u.orders \/ file[m].seq \in u.seqs
      BY <1>3, <1>5, <2>2, <2>3
    <2>8. Tried(u, n + 1)
      BY <1>3, <2>2, <2>4, <2>5, <2>6, <2>7 DEF Tried
    <2> QED
      BY <2>8 DEF u
  <1>8. CASE row.order \notin t.orders /\ seq \notin t.seqs
    <2>1. u = [orders |-> t.orders \cup {row.order}, seqs |-> t.seqs \cup {seq},
               next |-> use, done |-> t.done \cup {n + 1}]
      BY <1>8 DEF InsertRow
    <2>2. /\ u.orders = t.orders \cup {row.order} /\ u.seqs = t.seqs \cup {seq}
          /\ u.next = use /\ u.done = t.done \cup {n + 1}
      BY <2>1
    <2> HIDE DEF u, seq, use
    <2>3. u \in [orders : SUBSET Orders, seqs : SUBSET (Nat \ {0}), next : Nat \ {0}, done : SUBSET Nat]
      BY <1>1, <1>2, <1>4, <2>1
    <2>4. \A q \in u.seqs : q < u.next
      BY <1>2, <1>3, <1>4, <2>2
    <2>5. u.done \subseteq {m \in Candidates : m <= n + 1}
      BY <1>1, <1>3, <2>2
    <2>6. \A m \in Candidates : m <= n + 1 /\ m \notin u.done =>
            file[m].order \in u.orders \/ file[m].seq \in u.seqs
      BY <1>3, <1>5, <2>2
    <2>7. ~Exists(row.order) /\ \A m \in t.done : file[m].order # row.order
      BY <1>1, <1>3, <1>8
    <2>8. /\ \A m \in u.done : ~Exists(file[m].order)
          /\ \A l, m \in u.done : file[l].order = file[m].order => l = m
      BY <1>3, <2>2, <2>7
    <2>9. u.orders = {o \in Orders : Exists(o)} \cup {file[m].order : m \in u.done}
      BY <1>3, <2>2
    <2>10. seqs \subseteq u.seqs
      BY <1>3, <2>2
    <2>11. Tried(u, n + 1)
      BY <2>3, <2>4, <2>5, <2>6, <2>8, <2>9, <2>10 DEF Tried
    <2> QED
      BY <2>11 DEF u
  <1> QED
    BY <1>7, <1>8

LEMMA TriedAll ==
    ASSUME ImportInv, NEW next \in Nat, nextSeq <= next
    PROVE  Tried(InsertAll(next), Len(upload.lines))
  <1> DEFINE L == Len(upload.lines)
  <1>1. L \in Nat
    BY CandidatesOfChunk
  <1>2. PICK f : Inserts(f, next, L) /\ InsertAll(next) = f[L]
    BY <1>1, InsertAllIsLast
  <1> HIDE DEF L
  <1> DEFINE T == {n \in Nat : n <= L => Tried(f[n], n)}
  <1>3. 0 \in T
    <2>1. f[0] = BeforeInserts(next)
      <3>1. 0 \in 0..L
        BY <1>1
      <3> QED
        BY <1>2, <3>1 DEF Inserts
    <2>2. /\ f[0].orders = {o \in Orders : Exists(o)} /\ f[0].seqs = seqs
          /\ f[0].next = next /\ f[0].done = {}
      BY <2>1 DEF BeforeInserts
    <2>3. seqs \subseteq Nat \ {0} /\ next \in Nat \ {0} /\ \A q \in seqs : q < next
      BY DEF ImportInv, SeqInv
    <2>4. f[0] \in [orders : SUBSET Orders, seqs : SUBSET (Nat \ {0}), next : Nat \ {0}, done : SUBSET Nat]
      BY <2>1, <2>3 DEF BeforeInserts
    <2>5. \A m \in Candidates : ~ (m <= 0)
      BY CandidatesOfChunk
    <2>6. Tried(f[0], 0)
      BY <2>2, <2>3, <2>4, <2>5 DEF Tried
    <2> QED
      BY <2>6
  <1>4. ASSUME NEW n \in Nat, n \in T PROVE n + 1 \in T
    <2> SUFFICES ASSUME n + 1 <= L PROVE Tried(f[n + 1], n + 1)
      OBVIOUS
    <2>1. n <= L /\ n + 1 \in 0..L /\ n + 1 # 0 /\ (n + 1) - 1 = n
      BY <1>1
    <2>2. Tried(f[n], n)
      BY <1>4, <2>1
    <2>3. f[n + 1] = IF n + 1 \in Candidates THEN InsertRow(f[n], n + 1) ELSE f[n]
      BY <1>2, <2>1 DEF Inserts
    <2>4. CASE n + 1 \in Candidates
      BY <2>2, <2>3, <2>4, TriedOneMore
    <2>5. CASE n + 1 \notin Candidates
      <3>1. \A m \in Candidates : m <= n + 1 <=> m <= n
        <4>1. \A m \in Candidates : m \in Nat /\ m # n + 1
          BY <2>5, CandidatesOfChunk
        <4> QED
          BY <4>1
      <3> QED
        BY <2>2, <2>3, <2>5, <3>1 DEF Tried
    <2> QED
      BY <2>4, <2>5
  <1> HIDE DEF T
  <1>5. Nat \subseteq T
    BY <1>3, <1>4, Induction
  <1> USE DEF T
  <1>6. Tried(f[L], L)
    BY <1>1, <1>5
  <1> QED
    BY <1>2, <1>6 DEF L

(* However the chunk is inserted, at once or row by row.                   *)
LEMMA TriedSafely ==
    ASSUME ImportInv, NEW t \in InsertOrdersSafely
    PROVE  Tried(t, Len(upload.lines))
  <1> DEFINE autos == Cardinality({n \in Candidates : file[n].seq = 0})
  <1>1. nextSeq \in Nat
    BY DEF ImportInv, SeqInv
  <1>2. CASE t = InsertAll(nextSeq)
    BY <1>1, <1>2, TriedAll
  <1>3. CASE t \in {InsertAll(next) : next \in nextSeq..(nextSeq + autos)}
    <2>1. PICK next \in nextSeq..(nextSeq + autos) : t = InsertAll(next)
      BY <1>3
    <2>2. autos \in Nat
      <3>1. {n \in Candidates : file[n].seq = 0} \subseteq Candidates
        OBVIOUS
      <3> QED
        BY <3>1, CandidatesOfChunk, FS_Subset, FS_CardinalityType
    <2>3. next \in Nat /\ nextSeq <= next
      BY <1>1, <2>2
    <2> QED
      BY <2>1, <2>3, TriedAll
  <1>4. t = InsertAll(nextSeq) \/ t \in {InsertAll(next) : next \in nextSeq..(nextSeq + autos)}
    BY Zenon DEF InsertOrdersSafely
  <1> QED
    BY <1>2, <1>3, <1>4

-----------------------------------------------------------------------------
(* The transaction of a chunk.                                             *)

NewEvents(done) == UNION {ImportEvents(file[n]) : n \in done}

(* What the transaction writes: the orders inserted and their events.      *)
ChunkWrites(t) ==
    /\ phase = "insert" /\ phase' = "check"
    /\ \A n \in Candidates : Storable(file[n])
    /\ Tried(t, Len(upload.lines))
    /\ orders' = [o \in Orders |-> orders'[o]]
    /\ \A o \in Orders : (\A n \in t.done : file[n].order # o) => orders'[o] = orders[o]
    /\ \A n \in t.done : orders'[file[n].order] = ImportedOrder(file[n])
    /\ ledger' = ledger \cup {Row(e, PROCESSED) : e \in NewEvents(t.done)}
    /\ dataVersion' = NextVersion(t.done)
    /\ rows' = RowsAfterChunk(t.done)
    /\ count' = ChunkCount(t.done)
    /\ seqs' = t.seqs /\ nextSeq' = t.next
    /\ existing' = NothingRead
    /\ UNCHANGED <<upload, file, policy, cancel>>

(* The rows inserted are candidates, each the only one of its order.       *)
LEMMA DoneRows ==
    ASSUME ImportInv, NEW t, Tried(t, Len(upload.lines))
    PROVE  /\ t.done \subseteq Candidates /\ t.done \subseteq Chunk
           /\ IsFiniteSet(t.done) /\ Cardinality(t.done) \in Nat
           /\ \A n \in t.done : /\ n \in DOMAIN rows /\ n \in DOMAIN file
                                /\ rows[n] = "valid" /\ file[n].ok /\ file[n] \in FileRow
                                /\ file[n].order \in Orders /\ ~Exists(file[n].order)
           /\ \A l, m \in t.done : file[l].order = file[m].order => l = m
  <1>1. t.done \subseteq Candidates
    BY DEF Tried
  <1>2. IsFiniteSet(t.done) /\ Cardinality(t.done) \in Nat
    BY <1>1, CandidatesOfChunk, FS_Subset, FS_CardinalityType
  <1>3. /\ \A n \in t.done : ~Exists(file[n].order)
        /\ \A l, m \in t.done : file[l].order = file[m].order => l = m
    BY DEF Tried
  <1> QED
    BY <1>1, <1>2, <1>3, CandidatesOfChunk

(* None of their events is recorded yet: their ids are of their lines.     *)
LEMMA NewEventsAreNew ==
    ASSUME ImportInv, NEW done, \A n \in done : n \in DOMAIN file /\ file[n].ok /\ rows[n] = "valid"
    PROVE  \A e \in NewEvents(done) : /\ ~Recorded(e.id) /\ e \in Events /\ e \notin ApiEvents
                                      /\ e.version \in {1, 2}
                                      /\ \E n \in done : /\ e \in ImportEvents(file[n])
                                                         /\ e.id = <<n, e.type>>
                                                         /\ e.order = file[n].order
  <1> USE DEF ImportInv
  <1> SUFFICES ASSUME NEW n \in done, NEW e \in ImportEvents(file[n])
               PROVE  /\ ~Recorded(e.id) /\ e \in Events /\ e \notin ApiEvents
                      /\ e.version \in {1, 2}
                      /\ e.id = <<n, e.type>> /\ e.order = file[n].order
    BY DEF NewEvents
  <1>1. n \in DOMAIN file /\ file[n].ok /\ rows[n] = "valid"
    OBVIOUS
  <1>2. /\ e \in Events /\ e \notin ApiEvents
        /\ e.id = <<n, e.type>> /\ e.order = file[n].order
        /\ e.version = IF e.type = ORDER_CREATED THEN 1 ELSE 2
        /\ e.type \in {ORDER_CREATED, ORDER_REFUNDED}
    BY <1>1, FileFacts
  <1>3. ASSUME NEW row \in ledger, row.event.id = e.id PROVE FALSE
    <2>1. CASE row.event \in ApiEvents
      <3>1. e.type \in EventTypes
        BY <1>2 DEF EventTypes
      <3> QED
        BY <1>1, <1>2, <1>3, <2>1, <3>1, FileFacts
    <2>2. CASE row.event \in ImportedEvents
      <3>1. PICK m \in RowsWith("imported") : row.event \in ImportEvents(file[m])
        BY <2>2 DEF ImportedEvents
      <3>2. m \in DOMAIN file /\ file[m].ok /\ rows[m] = "imported"
        BY <3>1 DEF RowsWith, RowsInv, RowInv
      <3>3. row.event.id = <<m, row.event.type>>
        BY <3>1, <3>2, FileFacts
      <3>4. m = n
        BY <1>2, <1>3, <3>3
      <3> QED
        BY <1>1, <3>2, <3>4
    <2> QED
      BY <2>1, <2>2 DEF RecordedInv
  <1> QED
    BY <1>2, <1>3 DEF Recorded

LEMMA ChunkIsWritten ==
    ASSUME ImportInv, ExecuteChunk
    PROVE  \E t : ChunkWrites(t)
  <1>1. PICK t \in InsertOrdersSafely :
          /\ orders' = [o \in Orders |->
                          IF {n \in t.done : file[n].order = o} = {} THEN orders[o]
                          ELSE ImportedOrder(file[CHOOSE n \in {m \in t.done : file[m].order = o} : TRUE])]
          /\ ledger' = ImportLedger(t.done)
          /\ dataVersion' = NextVersion(t.done)
          /\ rows' = RowsAfterChunk(t.done)
          /\ count' = ChunkCount(t.done)
          /\ seqs' = t.seqs
          /\ nextSeq' = t.next
    BY DEF ExecuteChunk
  <1>2. Tried(t, Len(upload.lines))
    BY TriedSafely
  <1>3. /\ \A n \in t.done : /\ n \in DOMAIN file /\ rows[n] = "valid" /\ file[n].ok
                             /\ file[n].order \in Orders
        /\ \A l, m \in t.done : file[l].order = file[m].order => l = m
    BY <1>2, DoneRows
  <1>4. orders' = [o \in Orders |-> orders'[o]]
    BY <1>1
  <1>5. ASSUME NEW o \in Orders, \A n \in t.done : file[n].order # o
        PROVE  orders'[o] = orders[o]
    <2>1. {n \in t.done : file[n].order = o} = {}
      BY <1>5
    <2> QED
      BY <1>1, <2>1
  <1>6. ASSUME NEW n \in t.done PROVE orders'[file[n].order] = ImportedOrder(file[n])
    <2>1. {m \in t.done : file[m].order = file[n].order} = {n}
      BY <1>3
    <2>2. (CHOOSE m \in {n} : TRUE) = n /\ {n} # {}
      OBVIOUS
    <2> QED
      BY <1>1, <1>3, <2>1, <2>2
  <1>7. ledger' = ledger \cup {Row(e, PROCESSED) : e \in NewEvents(t.done)}
    <2>1. \A e \in NewEvents(t.done) : ~Recorded(e.id)
      BY <1>3, NewEventsAreNew
    <2>2. {f \in NewEvents(t.done) : ~Recorded(f.id)} = NewEvents(t.done)
      BY <2>1
    <2>3. ledger' = ledger \cup {Row(e, PROCESSED) : e \in {f \in NewEvents(t.done) : ~Recorded(f.id)}}
      BY <1>1, Zenon DEF ImportLedger, NewEvents
    <2> QED
      BY <2>2, <2>3
  <1>8. /\ phase = "insert" /\ phase' = "check" /\ \A n \in Candidates : Storable(file[n])
        /\ existing' = NothingRead /\ UNCHANGED <<upload, file, policy, cancel>>
    BY DEF ExecuteChunk
  <1> QED
    BY <1>1, <1>2, <1>4, <1>5, <1>6, <1>7, <1>8 DEF ChunkWrites

(* The columns an import writes.                                           *)
LEMMA ImportedOrderFields ==
    ASSUME NEW row, row.refund \in BOOLEAN
    PROVE  /\ ImportedOrder(row) \in OrderRow
           /\ ImportedOrder(row).status = IF row.refund THEN REFUNDED ELSE ACTIVE
           /\ ImportedOrder(row).version = IF row.refund THEN 2 ELSE 1
           /\ ImportedOrder(row).refunded = row.refund
  BY DEF ImportedOrder, OrderRow

(* The ledger explains the orders it writes.                               *)
LEMMA LedgerAfterChunk ==
    ASSUME ImportInv, NEW t, ChunkWrites(t)
    PROVE  LedgerInv' /\ VersionsAreBounded'
  <1> USE DEF ImportInv
  <1>1. /\ orders' = [o \in Orders |-> orders'[o]]
        /\ \A o \in Orders : (\A n \in t.done : file[n].order # o) => orders'[o] = orders[o]
        /\ \A n \in t.done : orders'[file[n].order] = ImportedOrder(file[n])
        /\ ledger' = ledger \cup {Row(e, PROCESSED) : e \in NewEvents(t.done)}
        /\ dataVersion' = NextVersion(t.done)
        /\ Tried(t, Len(upload.lines))
    BY DEF ChunkWrites
  <1>2. /\ \A n \in t.done : /\ n \in DOMAIN file /\ rows[n] = "valid"
                             /\ file[n].ok /\ file[n] \in FileRow
                             /\ file[n].order \in Orders /\ ~Exists(file[n].order)
        /\ \A l, m \in t.done : file[l].order = file[m].order => l = m
    BY <1>1, DoneRows
  <1>3. \A e \in NewEvents(t.done) :
          /\ ~Recorded(e.id) /\ e \in Events /\ e.version \in {1, 2}
          /\ \E n \in t.done : e \in ImportEvents(file[n]) /\ e.id = <<n, e.type>> /\ e.order = file[n].order
    BY <1>2, NewEventsAreNew
  <1>4. \A n \in t.done : file[n].refund \in BOOLEAN
    BY <1>2 DEF FileRow
  <1>5. \A e, s : Row(e, s).event = e /\ Row(e, s).status = s
    BY RowFields
  <1>6. LedgerTypeOK'
    <2>1. ledger' \subseteq LedgerRow
      BY <1>1, <1>3 DEF LedgerInv, LedgerTypeOK, LedgerRow, Row
    <2>2. ASSUME NEW o \in Orders PROVE orders'[o] \in OrderRow
      <3>1. CASE \A n \in t.done : file[n].order # o
        BY <1>1, <3>1 DEF LedgerInv, LedgerTypeOK
      <3>2. CASE \E n \in t.done : file[n].order = o
        BY <1>1, <1>4, <3>2, ImportedOrderFields
      <3> QED
        BY <3>1, <3>2
    <2>3. dataVersion' \in Nat
      BY <1>1 DEF NextVersion, LedgerInv, LedgerTypeOK
    <2>4. orders' \in [Orders -> OrderRow]
      BY <1>1, <2>2
    <2> QED
      BY <2>1, <2>3, <2>4 DEF LedgerTypeOK
  <1>7. OneRowPerEventId'
    <2> SUFFICES ASSUME NEW r1 \in ledger', NEW r2 \in ledger', r1.event.id = r2.event.id
                 PROVE  r1 = r2
      BY DEF OneRowPerEventId
    <2>1. \A r \in ledger' : r \in ledger \/ \E e \in NewEvents(t.done) : r = Row(e, PROCESSED)
      BY <1>1
    <2>2. CASE r1 \in ledger /\ r2 \in ledger
      BY <2>2 DEF LedgerInv, OneRowPerEventId
    <2>3. ASSUME NEW r \in ledger, NEW e \in NewEvents(t.done) PROVE r.event.id # e.id
      BY <1>3 DEF Recorded
    <2>4. ASSUME NEW e \in NewEvents(t.done), NEW f \in NewEvents(t.done), e.id = f.id
          PROVE  e = f
      <3>1. PICK n \in t.done : e \in ImportEvents(file[n]) /\ e.id = <<n, e.type>>
        BY <1>3
      <3>2. PICK m \in t.done : f \in ImportEvents(file[m]) /\ f.id = <<m, f.type>>
        BY <1>3
      <3>3. n = m /\ e.type = f.type
        <4>1. <<n, e.type>> = <<m, f.type>>
          BY <2>4, <3>1, <3>2
        <4> QED
          BY <4>1
      <3> QED
        BY <3>1, <3>2, <3>3, CreationOfRow
    <2> QED
      BY <1>5, <2>1, <2>2, <2>3, <2>4
  <1>8. ASSUME NEW o \in Orders PROVE LedgerExplainsOrder(o)'
    <2>1. ProcessedEvents(o)' = ProcessedEvents(o) \cup {e \in NewEvents(t.done) : e.order = o}
      <3>1. \A f : Row(f, PROCESSED) \in ledger' <=>
                     Row(f, PROCESSED) \in ledger \/ f \in NewEvents(t.done)
        BY <1>1, <1>5
      <3>2. ProcessedEvents(o)' = {f \in Events : Row(f, PROCESSED) \in ledger' /\ f.order = o}
        BY DEF ProcessedEvents, Row
      <3> QED
        BY <1>3, <3>1, <3>2 DEF ProcessedEvents
    <2>2. CASE \A n \in t.done : file[n].order # o
      <3>1. {e \in NewEvents(t.done) : e.order = o} = {}
        BY <1>3, <2>2
      <3> QED
        BY <1>1, <2>1, <2>2, <3>1, ExplainedElsewhere DEF LedgerInv
    <2>3. ASSUME NEW n \in t.done, file[n].order = o PROVE LedgerExplainsOrder(o)'
      <3> DEFINE row == file[n]
      <3>1. n \in DOMAIN file /\ row.ok /\ row.refund \in BOOLEAN /\ ~Exists(o)
        BY <1>2, <1>4, <2>3
      <3>2. o \notin SnapshotOrders /\ o \notin RefundedSnapshot
        BY <3>1, SnapshotAssumption DEF LedgerInv, LedgerExplainsOrders, LedgerExplainsOrder
      <3>3. {e \in NewEvents(t.done) : e.order = o} = ImportEvents(row)
        <4>1. \A e \in ImportEvents(row) : e \in NewEvents(t.done) /\ e.order = o
          BY <2>3, <3>1, FileFacts DEF NewEvents
        <4>2. \A e \in NewEvents(t.done) : e.order = o => e \in ImportEvents(row)
          BY <1>2, <1>3, <2>3
        <4> QED
          BY <4>1, <4>2
      <3>4. ProcessedEvents(o)' = ImportEvents(row)
        <4>1. ProcessedEvents(o) = {}
          BY <3>1, MissingHasNoEvents
        <4> QED
          BY <2>1, <3>3, <4>1
      <3>5. /\ orders'[o].status = IF row.refund THEN REFUNDED ELSE ACTIVE
            /\ orders'[o].version = IF row.refund THEN 2 ELSE 1
            /\ orders'[o].refunded = row.refund
        BY <1>1, <2>3, <3>1, ImportedOrderFields
      <3>6. \A e \in ImportEvents(row) :
              /\ e.version = IF e.type = ORDER_CREATED THEN 1 ELSE 2
              /\ \/ e.type = ORDER_CREATED
                 \/ e.type = ORDER_REFUNDED /\ row.refund
        BY <3>1, FileFacts
      <3>7. /\ \E e \in ImportEvents(row) : e.type = ORDER_CREATED
            /\ row.refund => \E e \in ImportEvents(row) : e.type = ORDER_REFUNDED
            /\ \A e, f \in ImportEvents(row) : e.type = f.type => e = f
        BY CreationOfRow
      <3> DEFINE done == ProcessedEvents(o)'
                 created == {f \in done : f.type = ORDER_CREATED}
                 finished == {f \in done : f.type \in StateEventTypes}
      <3>8. created # {} /\ (\A f, g \in created : f = g)
        BY <3>4, <3>7
      <3>9. /\ \A f, g \in finished : f = g
            /\ \A f \in finished : f.type = ORDER_REFUNDED /\ row.refund
            /\ row.refund => finished # {}
        BY <3>4, <3>6, <3>7
      <3>10. /\ \A f \in done : f.version <= orders'[o].version
             /\ \E f \in done : f.version = orders'[o].version
        <4>1. CASE row.refund
          BY <3>4, <3>5, <3>6, <3>7, <4>1
        <4>2. CASE ~row.refund
          BY <3>4, <3>5, <3>6, <3>7, <4>2
        <4> QED
          BY <4>1, <4>2
      <3> HIDE DEF row
      <3>11. /\ Exists(o)' <=> o \in SnapshotOrders \/ created # {}
             /\ o \in SnapshotOrders => created = {}
             /\ orders'[o].status = ACTIVE => finished = {}
             /\ \A f \in finished : orders'[o].status = TargetStatus(f.type)
             /\ orders'[o].status \in {REFUNDED, CANCELLED} => finished # {}
        BY <3>1, <3>2, <3>5, <3>8, <3>9 DEF Exists, TargetStatus
      <3>12. orders'[o].refunded <=> o \in RefundedSnapshot \/ orders'[o].status = REFUNDED
        BY <3>1, <3>2, <3>5
      <3> QED
        BY <3>8, <3>9, <3>10, <3>11, <3>12 DEF LedgerExplainsOrder
    <2> QED
      BY <2>2, <2>3
  <1>9. VersionsAreBounded'
    <2>1. PICK b \in Nat : \A row \in ledger : row.event.version <= b
      BY DEF VersionsAreBounded
    <2>2. \A row \in ledger : row.event.version \in Nat
      BY LedgerRowIsRow, EventFields DEF LedgerInv
    <2>3. b + 2 \in Nat /\ \A row \in ledger' : row.event.version <= b + 2
      BY <1>1, <1>3, <1>5, <2>1, <2>2
    <2> QED
      BY <2>3 DEF VersionsAreBounded
  <1> QED
    BY <1>6, <1>7, <1>8, <1>9 DEF LedgerInv, LedgerExplainsOrders

(* The rows it leaves, and what is counted of them.                        *)
LEMMA RowsOfChunk ==
    ASSUME ImportInv, NEW t, ChunkWrites(t)
    PROVE  /\ DOMAIN rows' = DOMAIN rows /\ rows' \in [DOMAIN rows -> RowStatuses]
           /\ \A n \in DOMAIN rows :
                rows'[n] = IF n \in t.done THEN "imported" ELSE IF n \in Chunk THEN "failed" ELSE rows[n]
           /\ RowsWith("imported")' = RowsWith("imported") \cup t.done
           /\ RowsWith("failed")' = RowsWith("failed") \cup (Chunk \ t.done)
           /\ RowsWith("skipped")' = RowsWith("skipped")
           /\ RowsWith("conflict")' = {}
  <1> USE DEF ImportInv
  <1>1. rows' = RowsAfterChunk(t.done) /\ Tried(t, Len(upload.lines)) /\ phase = "insert"
    BY DEF ChunkWrites
  <1>2. t.done \subseteq Chunk
    BY <1>1, DoneRows
  <1>3. Chunk \subseteq DOMAIN rows /\ \A n \in Chunk : rows[n] = "valid"
    BY CandidatesOfChunk
  <1>4. /\ DOMAIN rows' = DOMAIN rows
        /\ \A n \in DOMAIN rows :
             rows'[n] = IF n \in t.done THEN "imported" ELSE IF n \in Chunk THEN "failed" ELSE rows[n]
    BY <1>1 DEF RowsAfterChunk
  <1>5. \A n \in DOMAIN rows : rows[n] \in RowStatuses
    BY DEF RowsInv
  <1>6. rows' \in [DOMAIN rows -> RowStatuses]
    BY <1>1, <1>4, <1>5 DEF RowsAfterChunk, RowStatuses
  <1>7. \A n \in DOMAIN rows : rows[n] # "conflict"
    BY <1>1 DEF PhaseInv, AfterPolicy, Executing, RowsWith
  <1>8. RowsWith("imported")' = RowsWith("imported") \cup t.done
    BY <1>2, <1>3, <1>4 DEF RowsWith
  <1>9. RowsWith("failed")' = RowsWith("failed") \cup (Chunk \ t.done)
    BY <1>2, <1>3, <1>4 DEF RowsWith
  <1>10. RowsWith("skipped")' = RowsWith("skipped")
    BY <1>2, <1>3, <1>4 DEF RowsWith
  <1>11. RowsWith("conflict")' = {}
    BY <1>4, <1>7 DEF RowsWith
  <1> QED
    BY <1>4, <1>6, <1>8, <1>9, <1>10, <1>11

LEMMA CountAfterChunk ==
    ASSUME ImportInv, NEW t, ChunkWrites(t)
    PROVE  CountInv'
  <1> DEFINE I == Cardinality(RowsWith("imported"))
             F == Cardinality(RowsWith("failed"))
             D == Cardinality(t.done)
             G == Cardinality(Chunk \ t.done)
  <1>1. count' = ChunkCount(t.done) /\ Tried(t, Len(upload.lines))
    BY DEF ChunkWrites
  <1>2. /\ t.done \subseteq Chunk /\ IsFiniteSet(t.done)
        /\ IsFiniteSet(Chunk \ t.done) /\ \A n \in Chunk : rows[n] = "valid"
    BY <1>1, DoneRows, CandidatesOfChunk, FS_Subset
  <1>3. /\ IsFiniteSet(RowsWith("imported")) /\ IsFiniteSet(RowsWith("failed"))
        /\ I \in Nat /\ F \in Nat /\ D \in Nat /\ G \in Nat
    <2>1. IsFiniteSet(RowsWith("imported")) /\ IsFiniteSet(RowsWith("failed"))
      BY RowsAreFinite DEF ImportInv, RowsInv
    <2> QED
      BY <1>2, <2>1, FS_CardinalityType
  <1>4. /\ RowsWith("imported") \cap t.done = {}
        /\ RowsWith("failed") \cap (Chunk \ t.done) = {}
    BY <1>2 DEF RowsWith
  <1>5. Cardinality(RowsWith("imported") \cup t.done) = I + D
    <2>1. Cardinality(RowsWith("imported") \cup t.done) = I + D - Cardinality({})
      BY <1>2, <1>3, <1>4, FS_Union
    <2> QED
      BY <1>3, <2>1, FS_EmptySet
  <1>6. Cardinality(RowsWith("failed") \cup (Chunk \ t.done)) = F + G
    <2>1. Cardinality(RowsWith("failed") \cup (Chunk \ t.done)) = F + G - Cardinality({})
      BY <1>2, <1>3, <1>4, FS_Union
    <2> QED
      BY <1>3, <2>1, FS_EmptySet
  <1>7. count' = [inserted |-> I + D, rejected |-> F + G, skipped |-> Cardinality(RowsWith("skipped"))]
    <2>1. count' = [count EXCEPT !.inserted = @ + D, !.rejected = @ + G]
      BY <1>1, Zenon DEF ChunkCount
    <2>2. count = [inserted |-> I, rejected |-> F, skipped |-> Cardinality(RowsWith("skipped"))]
      BY DEF ImportInv, CountInv
    <2> HIDE DEF I, F, D, G
    <2> QED
      BY <2>1, <2>2
  <1>8. /\ RowsWith("imported")' = RowsWith("imported") \cup t.done
        /\ RowsWith("failed")' = RowsWith("failed") \cup (Chunk \ t.done)
        /\ RowsWith("skipped")' = RowsWith("skipped")
    BY RowsOfChunk
  <1> QED
    BY <1>5, <1>6, <1>7, <1>8 DEF CountInv

(* A row that was not written had a reason.                                *)
LEMMA ReasonsAfterChunk ==
    ASSUME ImportInv, NEW t, ChunkWrites(t)
    PROVE  /\ \A n \in DOMAIN rows : file[n].ok /\ Exists(file[n].order) => Exists(file[n].order)'
           /\ \A n \in t.done : Exists(file[n].order)'
           /\ \A n \in Chunk \ t.done : Exists(file[n].order)' \/ file[n].seq \in seqs'
           /\ seqs \subseteq seqs'
  <1> USE DEF ImportInv
  <1>1. /\ Tried(t, Len(upload.lines)) /\ seqs' = t.seqs /\ file' = file
        /\ \A o \in Orders : (\A n \in t.done : file[n].order # o) => orders'[o] = orders[o]
        /\ \A n \in t.done : orders'[file[n].order] = ImportedOrder(file[n])
    BY DEF ChunkWrites
  <1>2. \A n \in t.done : file[n] \in FileRow
    BY <1>1, DoneRows
  <1>3. \A n \in t.done : orders'[file[n].order].status # MISSING
    <2>1. \A n \in t.done : file[n].refund \in BOOLEAN
      BY <1>2 DEF FileRow
    <2> QED
      BY <1>1, <2>1, ImportedOrderFields
  <1>4. \A o \in Orders : Exists(o) => orders'[o].status # MISSING
    BY <1>1, <1>3 DEF Exists
  <1>5. \A n \in DOMAIN rows : file[n].ok => file[n].order \in Orders
    BY OrderOfRow DEF RowsInv
  <1>6. \A n : Exists(file[n].order)' <=> orders'[file[n].order].status # MISSING
    BY <1>1 DEF Exists
  <1>7. ASSUME NEW n \in Chunk \ t.done PROVE Exists(file[n].order)' \/ file[n].seq \in seqs'
    <2>1. file[n].order \in Orders
      BY CandidatesOfChunk
    <2>2. seqs \subseteq t.seqs
      BY <1>1 DEF Tried
    <2>3. CASE n \notin Candidates
      <3>1. file[n].order \in existing.orders \/ file[n].seq \in existing.seqs
        BY <2>3 DEF Candidates
      <3>2. Exists(file[n].order) \/ file[n].seq \in seqs
        BY <3>1 DEF ReadInv
      <3> QED
        BY <1>1, <1>4, <1>6, <2>1, <2>2, <3>2
    <2>4. CASE n \in Candidates
      <3>1. n <= Len(upload.lines)
        BY <2>4, CandidatesOfChunk
      <3>2. file[n].order \in t.orders \/ file[n].seq \in t.seqs
        BY <1>1, <2>4, <3>1 DEF Tried
      <3>3. t.orders = {o \in Orders : Exists(o)} \cup {file[m].order : m \in t.done}
        BY <1>1 DEF Tried
      <3>4. file[n].order \in t.orders => orders'[file[n].order].status # MISSING
        BY <1>3, <1>4, <3>3
      <3> QED
        BY <1>1, <1>6, <3>2, <3>4
    <2> QED
      BY <2>3, <2>4
  <1> QED
    BY <1>1, <1>3, <1>4, <1>5, <1>6, <1>7 DEF Tried

LEMMA AfterExecuteChunk ==
    ASSUME ImportInv, ExecuteChunk
    PROVE  ImportInv'
  <1> USE DEF ImportInv
  <1>1. PICK t : ChunkWrites(t)
    BY ChunkIsWritten
  <1>2. /\ phase = "insert" /\ phase' = "check" /\ existing' = NothingRead
        /\ UNCHANGED <<upload, file, policy, cancel>>
        /\ \A n \in Candidates : Storable(file[n])
        /\ Tried(t, Len(upload.lines)) /\ seqs' = t.seqs /\ nextSeq' = t.next
        /\ ledger' = ledger \cup {Row(e, PROCESSED) : e \in NewEvents(t.done)}
    BY <1>1 DEF ChunkWrites
  <1>3. LedgerInv' /\ VersionsAreBounded'
    BY <1>1, LedgerAfterChunk
  <1>4. FileInv'
    BY <1>2 DEF FileInv
  <1>5. /\ DOMAIN rows' = DOMAIN rows /\ rows' \in [DOMAIN rows -> RowStatuses]
        /\ \A n \in DOMAIN rows :
             rows'[n] = IF n \in t.done THEN "imported" ELSE IF n \in Chunk THEN "failed" ELSE rows[n]
        /\ RowsWith("imported")' = RowsWith("imported") \cup t.done
        /\ RowsWith("conflict")' = {}
    BY <1>1, RowsOfChunk
  <1>6. /\ \A n \in DOMAIN rows : file[n].ok /\ Exists(file[n].order) => Exists(file[n].order)'
        /\ \A n \in t.done : Exists(file[n].order)'
        /\ \A n \in Chunk \ t.done : Exists(file[n].order)' \/ file[n].seq \in seqs'
        /\ seqs \subseteq seqs'
    BY <1>1, ReasonsAfterChunk
  <1>7. /\ t.done \subseteq Candidates
        /\ \A n \in t.done : n \in DOMAIN rows /\ n \in DOMAIN file /\ file[n].ok /\ rows[n] = "valid"
    BY <1>2, DoneRows
  <1>8. RowsInv'
    <2>1. ASSUME NEW n \in DOMAIN rows PROVE RowInv(n)'
      <3>1. RowInv(n)
        BY DEF RowsInv
      <3>2. CASE n \in t.done
        <4>1. rows'[n] = "imported" /\ file[n].ok /\ Storable(file[n]) /\ Exists(file[n].order)'
          BY <1>2, <1>5, <1>6, <1>7, <3>2
        <4>2. Storable(file[n])'
          BY <1>2, <4>1 DEF Storable
        <4> QED
          BY <1>2, <4>1, <4>2 DEF RowInv, RowStatuses
      <3>3. CASE n \in Chunk \ t.done
        <4>1. /\ rows'[n] = "failed" /\ file[n].ok
              /\ Exists(file[n].order)' \/ file[n].seq \in seqs'
          BY <1>5, <1>6, <3>3, CandidatesOfChunk
        <4> QED
          BY <1>2, <4>1 DEF RowInv, RowStatuses
      <3>4. CASE n \notin Chunk /\ n \notin t.done
        BY <1>2, <1>5, <1>6, <3>1, <3>4, RowKept
      <3> QED
        BY <3>2, <3>3, <3>4
    <2> QED
      BY <1>2, <1>5, <2>1 DEF RowsInv
  <1>9. PhaseInv'
    BY <1>2, <1>5 DEF PhaseInv, BeforePolicy, AfterPolicy, Executing, Ended
  <1>10. ReadInv'
    BY <1>2 DEF ReadInv, NothingRead
  <1>11. SeqInv'
    <2>1. /\ t.seqs \subseteq Nat \ {0} /\ t.next \in Nat \ {0}
          /\ \A q \in t.seqs : q < t.next
      BY <1>2 DEF Tried
    <2> QED
      BY <1>2, <2>1 DEF SeqInv
  <1>12. CountInv'
    BY <1>1, CountAfterChunk
  <1>13. RecordedInv'
    <2>1. ImportedEvents' = ImportedEvents \cup NewEvents(t.done)
      <3>1. \A n : ImportEvents(file[n])' = ImportEvents(file[n])
        BY <1>2 DEF ImportEvents
      <3> QED
        BY <1>5, <3>1 DEF ImportedEvents, NewEvents
    <2>2. \A e \in NewEvents(t.done) : Row(e, PROCESSED).event = e /\ Row(e, PROCESSED).status = PROCESSED
      BY RowFields
    <2>3. \A e \in ImportedEvents \cup NewEvents(t.done) : Row(e, PROCESSED) \in ledger'
      BY <1>2 DEF RecordedInv
    <2>4. \A row \in ledger' :
            \/ row.event \in ApiEvents
            \/ row.event \in ImportedEvents \cup NewEvents(t.done) /\ row.status = PROCESSED
      BY <1>2, <2>2 DEF RecordedInv
    <2>5. \A e : Row(e, PROCESSED)' = Row(e, PROCESSED)
      BY DEF Row
    <2> QED
      BY <2>1, <2>3, <2>4, <2>5 DEF RecordedInv
  <1>14. CompletedRunsStrandNothing'
    BY <1>2 DEF CompletedRunsStrandNothing
  <1> QED
    BY <1>2, <1>3, <1>4, <1>8, <1>9, <1>10, <1>11, <1>12, <1>13, <1>14

-----------------------------------------------------------------------------
(* The theorems.                                                           *)

LEMMA ImportInvStep ==
    ASSUME ImportInv, [Next]_vars
    PROVE  ImportInv'
  <1>1. CASE FinalizeValidation \/ Start \/ RequestCancel \/ SelectChunk \/ ExecutionError
    BY <1>1, AfterMovingOn
  <1>2. CASE UNCHANGED vars
    <2> USE DEF ImportInv
    <2>1. UNCHANGED <<tables, upload, file, policy, phase, cancel, rows, existing, seqs, nextSeq, count>>
      BY <1>2 DEF vars, importVars
    <2>2. /\ LedgerInv' /\ VersionsAreBounded' /\ RowsInv' /\ SeqInv' /\ RecordedInv'
          /\ \A s : RowsWith(s)' = RowsWith(s)
          /\ CountInv' /\ FileInv'
      BY <2>1, Untouched
    <2>3. PhaseInv' /\ ReadInv'
      BY <2>1, <2>2 DEF PhaseInv, ReadInv, Exists, tables
    <2>4. CompletedRunsStrandNothing'
      <3>1. \A o : RejectedStateEvents(o)' = RejectedStateEvents(o)
        BY <2>1 DEF RejectedStateEvents, tables, Row
      <3> QED
        BY <2>1, <2>2, <3>1 DEF CompletedRunsStrandNothing, tables
    <2> QED
      BY <2>1, <2>2, <2>3, <2>4
  <1> QED
    BY <1>1, <1>2, AfterReadUpload, AfterStageBatch, AfterValidationFails, AfterApplyConflictPolicy,
       AfterExecuteChunk, AfterFinalize, AfterOrderEvent DEF Next

(* What holds of one import at every moment: what its rows say is true of  *)
(* the file and the tables, and they are counted right.                    *)
THEOREM ImportInvariant == Spec => []ImportInv
  BY ImportInvInit, ImportInvStep, PTL DEF Spec

(* An import keeps its types, and those of the tables.                     *)
THEOREM ImportTypeCorrect == Spec => []TypeOK
  <1>1. ImportInv => TypeOK
    <2> SUFFICES ASSUME ImportInv PROVE TypeOK
      OBVIOUS
    <2> USE DEF ImportInv
    <2>1. LedgerTypeOK
      BY DEF LedgerInv
    <2>2. upload \in Uploads /\ file \in [DOMAIN file -> FileRow]
      BY FileFacts DEF FileInv
    <2>3. count \in [inserted : Nat, rejected : Nat, skipped : Nat]
      <3>1. \A s : Cardinality(RowsWith(s)) \in Nat
        BY RowsAreFinite DEF RowsInv
      <3> QED
        BY <3>1 DEF CountInv
    <2> QED
      BY <2>1, <2>2, <2>3 DEF TypeOK, RowsInv, PhaseInv, ReadInv, SeqInv
  <1> QED
    BY <1>1, ImportInvariant, PTL

(* The ledger explains every order, also those that imports write.         *)
THEOREM ImportsAreExplained == Spec => []LedgerExplainsOrders
  BY ImportInvariant, PTL DEF ImportInv, LedgerInv

(* A row is "imported" exactly if its creation is in the ledger and its    *)
(* order is there.                                                         *)
THEOREM ImportedRowsAreWritten == Spec => []ImportedRowsAreInLedger
  <1>1. ImportInv => ImportedRowsAreInLedger
    <2> SUFFICES ASSUME ImportInv, NEW n \in DOMAIN rows
                 PROVE  /\ rows[n] = "imported" <=>
                             \E e \in ImportEvents(file[n]) :
                                 e.type = ORDER_CREATED /\ Row(e, PROCESSED) \in ledger
                        /\ rows[n] = "imported" => Exists(file[n].order)
      BY DEF ImportedRowsAreInLedger
    <2> USE DEF ImportInv
    <2>1. n \in DOMAIN file /\ file[n].no = n
      BY FileFacts DEF RowsInv
    <2>2. ASSUME rows[n] = "imported"
          PROVE  \E e \in ImportEvents(file[n]) : e.type = ORDER_CREATED /\ Row(e, PROCESSED) \in ledger
      <3>1. PICK e \in ImportEvents(file[n]) : e.type = ORDER_CREATED
        BY CreationOfRow
      <3>2. e \in ImportedEvents
        BY <2>2, <3>1 DEF ImportedEvents, RowsWith
      <3> QED
        BY <3>1, <3>2 DEF RecordedInv
    <2>3. ASSUME NEW e \in ImportEvents(file[n]), e.type = ORDER_CREATED, Row(e, PROCESSED) \in ledger
          PROVE  rows[n] = "imported"
      <3>1. e.id = <<n, e.type>>
        <4>1. e.id = <<file[n].no, e.type>>
          BY DEF ImportEvents
        <4> QED
          BY <2>1, <4>1
      <3>2. e \notin ApiEvents
        BY <2>1, <2>3, <3>1, FileFacts DEF EventTypes
      <3>3. e \in ImportedEvents
        BY <2>3, <3>2, RowFields DEF RecordedInv
      <3>4. PICK m \in RowsWith("imported") : e \in ImportEvents(file[m])
        BY <3>3 DEF ImportedEvents
      <3>5. m \in DOMAIN file /\ file[m].ok /\ rows[m] = "imported"
        BY <3>4 DEF RowsWith, RowsInv, RowInv
      <3>6. e.id = <<m, e.type>>
        BY <3>4, <3>5, FileFacts
      <3>7. m = n
        <4>1. <<m, e.type>> = <<n, e.type>>
          BY <3>1, <3>6
        <4> QED
          BY <4>1
      <3> QED
        BY <3>5, <3>7
    <2> QED
      BY <2>2, <2>3 DEF RowsInv, RowInv
  <1> QED
    BY <1>1, ImportInvariant, PTL

(* What imports write to orders breaks none of the rules of normalize_row  *)
(* and fits its columns.                                                   *)
THEOREM ImportedOrdersFollowTheRules == Spec => []ImportedOrdersAreSound
  <1>1. ImportInv => ImportedOrdersAreSound
    <2> SUFFICES ASSUME ImportInv, NEW n \in RowsWith("imported")
                 PROVE  /\ file[n].ok
                        /\ 0 < file[n].paid /\ file[n].paid <= file[n].ordered
                        /\ file[n].at <= file[n].paidAt
                        /\ Storable(file[n])
      BY DEF ImportedOrdersAreSound
    <2>1. n \in DOMAIN file /\ file[n].ok /\ Storable(file[n])
      BY DEF ImportInv, RowsWith, RowsInv, RowInv
    <2> QED
      BY <2>1, FileFacts DEF ImportInv
  <1> QED
    BY <1>1, ImportInvariant, PTL

(* A row that was not written repeats an earlier one, or its order or key  *)
(* is taken.                                                               *)
THEOREM FailuresHaveReasons == Spec => []FailedRowsHaveAReason
  <1>1. ImportInv => FailedRowsHaveAReason
    BY DEF ImportInv, FailedRowsHaveAReason, RowsInv, RowInv, RowsWith
  <1> QED
    BY <1>1, ImportInvariant, PTL

(* A completed import leaves no order ACTIVE that the ledger knows to have *)
(* been refunded or cancelled at a later version.                          *)
THEOREM NothingIsStranded == Spec => []CompletedRunsStrandNothing
  BY ImportInvariant, PTL DEF ImportInv

(* The version moves by one with every chunk that writes an order, and     *)
(* with no other.                                                          *)
THEOREM VersionFollowsImports == Spec => VersionMovesWithOrders
  <1> DEFINE A == /\ orders' # orders => dataVersion' = dataVersion + 1
                  /\ dataVersion' # dataVersion => orders' # orders
  <1>1. ImportInv /\ [Next]_vars => [A]_tables
    <2> SUFFICES ASSUME ImportInv, [Next]_vars PROVE A
      OBVIOUS
    <2>1. CASE ExecuteChunk
      <3>1. PICK t : ChunkWrites(t)
        BY <2>1, ChunkIsWritten
      <3>2. /\ Tried(t, Len(upload.lines)) /\ dataVersion' = NextVersion(t.done)
            /\ orders' = [o \in Orders |-> orders'[o]]
            /\ \A o \in Orders : (\A n \in t.done : file[n].order # o) => orders'[o] = orders[o]
        BY <3>1 DEF ChunkWrites
      <3>3. CASE t.done = {}
        <4>1. \A o \in Orders : orders'[o] = orders[o]
          BY <3>2, <3>3
        <4>2. orders \in [Orders -> OrderRow]
          BY DEF ImportInv, LedgerInv, LedgerTypeOK
        <4>3. orders' = orders
          BY <3>2, <4>1, <4>2
        <4> QED
          BY <3>2, <3>3, <4>3 DEF NextVersion
      <3>4. CASE t.done # {}
        <4>1. PICK n \in t.done : TRUE
          BY <3>4
        <4>2. ~Exists(file[n].order) /\ Exists(file[n].order)' /\ file' = file
          BY <3>1, <3>2, <4>1, DoneRows, ReasonsAfterChunk DEF ChunkWrites
        <4>3. orders' # orders
          BY <4>2 DEF Exists
        <4>4. dataVersion' = dataVersion + 1 /\ dataVersion \in Nat
          BY <3>2, <3>4 DEF NextVersion, ImportInv, LedgerInv, LedgerTypeOK
        <4> QED
          BY <4>3, <4>4
      <3> QED
        BY <3>3, <3>4
    <2>2. CASE \E e \in ApiEvents : ApplyOrderEvent(e)
      <3>1. LedgerNext
        BY <2>2 DEF ApplyOrderEvent, ApiEvents, LedgerNext
      <3> QED
        BY <3>1, LedgerMovesVersion DEF ImportInv
    <2>3. CASE UNCHANGED tables
      BY <2>3 DEF tables
    <2>4. ExecuteChunk \/ (\E e \in ApiEvents : ApplyOrderEvent(e)) \/ UNCHANGED tables
      BY DEF Next, vars, ReadUpload, StageBatch, FinalizeValidation, ValidationFails, Start,
             RequestCancel, ApplyConflictPolicy, SelectChunk, Finalize, ExecutionError
    <2> QED
      BY <2>1, <2>2, <2>3, <2>4
  <1>2. Spec => [][A]_tables
    BY <1>1, ImportInvariant, PTL DEF Spec
  <1> QED
    BY <1>2 DEF VersionMovesWithOrders

-----------------------------------------------------------------------------
(* What the pages show of an import.                                       *)

(* Batches, chunks and pages are not empty.                                *)
LEMMA Sizes ==
    /\ BatchSize \in Nat \ {0} /\ ChunkSize \in Nat \ {0} /\ PageSize \in Nat \ {0}
    /\ ExportLimit \in Nat \ {0}
  BY SizesAssumption

(* The rows of a status are the union of its pages; the first page has as  *)
(* many of them as fit.                                                    *)
LEMMA PagesOfStatus ==
    ASSUME ImportInv, NEW s
    PROVE  /\ RowsWith(s) = UNION {RowPage(s, p) : p \in 1..TotalPages(s)}
           /\ Cardinality(RowPage(s, 1)) = Min({PageSize, Cardinality(RowsWith(s))})
           /\ RowPage(s, 1) \subseteq RowsWith(s)
           /\ TotalPages(s) <= 1 => RowPage(s, 1) = RowsWith(s)
  <1> DEFINE S == RowsWith(s)
  <1>1. S \in SUBSET DOMAIN file /\ IsFiniteSet(S) /\ \A n \in S : n \in Nat
    BY RowsAreFinite, FileFacts DEF ImportInv, RowsInv
  <1>2. PageSize \in Nat \ {0}
    BY Sizes
  <1>3. /\ S = UNION {First(p * PageSize, S) \ First((p - 1) * PageSize, S) :
                        p \in 1..((Cardinality(S) + PageSize - 1) \div PageSize)}
        /\ First(1 * PageSize, S) \ First((1 - 1) * PageSize, S) = First(PageSize, S)
    <2> HIDE DEF S
    <2> QED
      BY <1>1, <1>2, PagesAreTheList
  <1>4. S = UNION {RowPage(s, p) : p \in 1..TotalPages(s)}
    BY <1>3, Zenon DEF RowPage, TotalPages
  <1>5. RowPage(s, 1) = First(PageSize, S)
    BY <1>3, Zenon DEF RowPage
  <1>6. Cardinality(First(PageSize, S)) = Min({PageSize, Cardinality(S)})
    BY <1>1, <1>2, RowsAreFinite DEF ImportInv
  <1>7. First(PageSize, S) \subseteq S
    BY DEF First
  <1>8. ASSUME TotalPages(s) <= 1 PROVE RowPage(s, 1) = S
    <2>1. TotalPages(s) \in Nat
      <3>1. Cardinality(S) \in Nat /\ Cardinality(S) + PageSize - 1 \in Nat
        BY <1>1, <1>2, FS_CardinalityType
      <3> QED
        BY <1>2, <3>1, Division DEF TotalPages
    <2>2. \A p \in 1..TotalPages(s) : p = 1
      BY <1>8, <2>1
    <2>3. S \subseteq RowPage(s, 1)
      BY <1>4, <2>2
    <2> QED
      BY <1>5, <1>7, <2>3
  <1> QED
    BY <1>4, <1>5, <1>6, <1>7, <1>8

(* Sets that have nothing in common are counted apart.                    *)
LEMMA DisjointUnion ==
    ASSUME NEW S, NEW T, IsFiniteSet(S), IsFiniteSet(T), S \cap T = {}
    PROVE  /\ IsFiniteSet(S \cup T) /\ Cardinality(S \cup T) \in Nat
           /\ Cardinality(S \cup T) = Cardinality(S) + Cardinality(T)
  <1>1. /\ IsFiniteSet(S \cup T)
        /\ Cardinality(S \cup T) = Cardinality(S) + Cardinality(T) - Cardinality(S \cap T)
    BY FS_Union
  <1>2. Cardinality(S \cap T) = 0
    BY FS_EmptySet
  <1>3. Cardinality(S) \in Nat /\ Cardinality(T) \in Nat /\ Cardinality(S \cup T) \in Nat
    BY <1>1, FS_CardinalityType
  <1> QED
    BY <1>1, <1>2, <1>3

(* Every row has one status.                                               *)
LEMMA RowsByStatus ==
    ASSUME ImportInv, RowsWith("conflict") = {}
    PROVE  LET todo == RowsWith("valid") \cup RowsWith("invalid")
               done == count.inserted + count.skipped + count.rejected
           IN  /\ done \in Nat /\ Cardinality(todo) \in Nat
               /\ Cardinality(DOMAIN rows) = done + Cardinality(todo)
  <1> DEFINE I == RowsWith("imported")
             S == RowsWith("skipped")
             F == RowsWith("failed")
             todo == RowsWith("valid") \cup RowsWith("invalid")
  <1>1. /\ IsFiniteSet(I) /\ IsFiniteSet(S) /\ IsFiniteSet(F)
        /\ IsFiniteSet(RowsWith("valid")) /\ IsFiniteSet(RowsWith("invalid"))
    BY RowsAreFinite DEF ImportInv, RowsInv
  <1>2. IsFiniteSet(todo)
    BY <1>1, FS_Union
  <1>3. /\ Cardinality(I) \in Nat /\ Cardinality(S) \in Nat /\ Cardinality(F) \in Nat
        /\ Cardinality(todo) \in Nat
    BY <1>1, <1>2, FS_CardinalityType
  <1>4. DOMAIN rows = ((I \cup S) \cup F) \cup todo
    <2>1. \A n \in DOMAIN rows : rows[n] \in RowStatuses \ {"conflict"}
      BY DEF ImportInv, RowsInv, RowsWith
    <2> QED
      BY <2>1 DEF RowStatuses, RowsWith
  <1>5. I \cap S = {} /\ (I \cup S) \cap F = {} /\ ((I \cup S) \cup F) \cap todo = {}
    BY DEF RowsWith
  <1>6. count.inserted = Cardinality(I) /\ count.skipped = Cardinality(S) /\ count.rejected = Cardinality(F)
    BY DEF ImportInv, CountInv
  <1> HIDE DEF I, S, F, todo
  <1>7. Cardinality(I \cup S) = Cardinality(I) + Cardinality(S) /\ IsFiniteSet(I \cup S)
    BY <1>1, <1>5, DisjointUnion
  <1>8. /\ Cardinality((I \cup S) \cup F) = Cardinality(I) + Cardinality(S) + Cardinality(F)
        /\ IsFiniteSet((I \cup S) \cup F)
    <2>1. /\ Cardinality((I \cup S) \cup F) = Cardinality(I \cup S) + Cardinality(F)
          /\ IsFiniteSet((I \cup S) \cup F)
      BY <1>1, <1>5, <1>7, DisjointUnion
    <2> QED
      BY <1>7, <2>1
  <1>9. Cardinality(DOMAIN rows) = Cardinality(I) + Cardinality(S) + Cardinality(F) + Cardinality(todo)
    <2>1. Cardinality(((I \cup S) \cup F) \cup todo) = Cardinality((I \cup S) \cup F) + Cardinality(todo)
      BY <1>2, <1>5, <1>8, DisjointUnion
    <2> QED
      BY <1>4, <1>8, <2>1
  <1> QED
    BY <1>3, <1>6, <1>9 DEF todo

(* What a percentage that is rounded up to 100.0 can hide.                 *)
LEMMA RoundedUp ==
    ASSUME NEW done \in Nat, NEW todo \in Nat, done + todo # 0,
           1000 <= (2000 * done + (done + todo)) \div (2 * (done + todo))
    PROVE  2000 * todo <= done + todo
  <1> DEFINE read == done + todo
             share == (2000 * done + read) \div (2 * read)
  <1>1. read \in Nat \ {0} /\ 2 * read \in Nat \ {0} /\ 2000 * done + read \in Nat
    OBVIOUS
  <1>2. share \in Nat /\ share * (2 * read) <= 2000 * done + read
    <2>1. PICK a \in Nat : a = 2000 * done + read
      BY <1>1
    <2>2. PICK k \in Nat \ {0} : k = 2 * read
      BY <1>1
    <2>3. a \div k \in Nat /\ (a \div k) * k <= a
      BY Division
    <2>4. share = a \div k
      BY <2>1, <2>2
    <2> HIDE DEF share, read
    <2> QED
      BY <2>1, <2>2, <2>3, <2>4
  <1>3. 1000 <= share
    OBVIOUS
  <1> HIDE DEF share
  <1>4. 1000 * (2 * read) <= share * (2 * read)
    <2> HIDE DEF read
    <2> QED
      BY <1>1, <1>2, <1>3
  <1>5. share * (2 * read) \in Nat
    <2> HIDE DEF read
    <2> QED
      BY <1>1, <1>2
  <1> QED
    BY <1>2, <1>4, <1>5

(* A cancelled import shows 100.0 only if what it left is within the       *)
(* rounding.                                                               *)
LEMMA CancelledProgress ==
    ASSUME ImportInv, phase = "cancelled", Progress = 1000
    PROVE  2000 * Cardinality(RowsWith("valid") \cup RowsWith("invalid")) <= Cardinality(DOMAIN rows)
  <1> DEFINE todo == Cardinality(RowsWith("valid") \cup RowsWith("invalid"))
             done == count.inserted + count.skipped + count.rejected
             read == Cardinality(DOMAIN rows)
             share == (2000 * done + read) \div (2 * read)
  <1>1. RowsWith("conflict") = {}
    BY DEF ImportInv, PhaseInv, AfterPolicy
  <1>2. done \in Nat /\ todo \in Nat /\ read = done + todo
    BY <1>1, RowsByStatus
  <1>3. read # 0 /\ Progress = Min({share, 1000})
    <2>1. phase # "completed" /\ phase \in Executing \cup {"cancelled"}
      OBVIOUS
    <2>2. (IF phase = "cancelled" THEN 1000 ELSE 999) = 1000
      OBVIOUS
    <2>3. Progress = IF read = 0 THEN 0 ELSE Min({share, IF phase = "cancelled" THEN 1000 ELSE 999})
      BY <2>1 DEF Progress
    <2> HIDE DEF read, share
    <2> QED
      BY <2>2, <2>3
  <1>4. share \in Int
    <2> HIDE DEF done, read, todo
    <2>1. 2 * read \in Nat \ {0} /\ 2000 * done + read \in Nat
      BY <1>2, <1>3
    <2> QED
      BY <2>1, Division
  <1> HIDE DEF share
  <1>5. 1000 <= share
    BY <1>3, <1>4, MinOfTwo
  <1> USE DEF share
  <1> HIDE DEF done, todo, read
  <1>6. 2000 * todo <= done + todo
    BY <1>2, <1>3, <1>5, RoundedUp
  <1>7. 2000 * todo <= read
    BY <1>2, <1>6
  <1> QED
    BY <1>7 DEF todo, read

(* A completed import accounts for every row.                              *)
LEMMA CompletedProgress ==
    ASSUME ImportInv, phase = "completed"
    PROVE  LET shown == count.inserted + count.skipped + Cardinality(Failures.rows)
               all   == Cardinality(DOMAIN file)
           IN  IF Failures.truncated THEN shown < all ELSE shown = all
  <1> DEFINE found == RowsWith("invalid") \cup RowsWith("failed")
             I == Cardinality(RowsWith("imported"))
             S == Cardinality(RowsWith("skipped"))
             F == Cardinality(RowsWith("failed"))
             V == Cardinality(RowsWith("invalid"))
             A == Cardinality(found)
  <1>1. RowsWith("conflict") = {} /\ RowsWith("valid") = {} /\ DOMAIN rows = DOMAIN file
    BY DEF ImportInv, PhaseInv, AfterPolicy
  <1>2. count.inserted = I /\ count.skipped = S /\ count.rejected = F
    BY DEF ImportInv, CountInv
  <1>3. /\ IsFiniteSet(RowsWith("invalid")) /\ IsFiniteSet(RowsWith("failed"))
        /\ I \in Nat /\ S \in Nat /\ F \in Nat /\ V \in Nat
        /\ found \in SUBSET DOMAIN file /\ A \in Nat
    <2>1. \A s : RowsWith(s) \in SUBSET DOMAIN file
      BY RowsAreFinite DEF ImportInv, RowsInv
    <2> QED
      BY <2>1, RowsAreFinite DEF ImportInv
  <1>4. Cardinality(DOMAIN file) = I + S + F + V
    <2>1. Cardinality(DOMAIN rows) = (I + S + F) + Cardinality(RowsWith("valid") \cup RowsWith("invalid"))
      BY <1>1, <1>2, RowsByStatus
    <2>2. RowsWith("valid") \cup RowsWith("invalid") = RowsWith("invalid")
      BY <1>1
    <2> QED
      BY <1>1, <2>1, <2>2
  <1>5. A = F + V
    <2>1. RowsWith("invalid") \cap RowsWith("failed") = {}
      BY DEF RowsWith
    <2> QED
      BY <1>3, <2>1, DisjointUnion
  <1>6. Cardinality(First(ExportLimit, found)) = IF ExportLimit <= A THEN ExportLimit ELSE A
    <2>1. Cardinality(First(ExportLimit, found)) = Min({ExportLimit, A})
      BY <1>3, Sizes, RowsAreFinite DEF ImportInv
    <2>2. ExportLimit \in Int /\ A \in Int
      BY <1>3, Sizes
    <2> HIDE DEF A, found
    <2> QED
      BY <2>1, <2>2, MinOfTwo
  <1>7. Failures.rows = First(ExportLimit, found) /\ Failures.truncated = (A > ExportLimit)
    BY Zenon DEF Failures
  <1> DEFINE n == Cardinality(Failures.rows)
  <1>9. n = IF ExportLimit <= A THEN ExportLimit ELSE A
    BY <1>6, <1>7
  <1>10. count.inserted + count.skipped + n = I + S + n
    BY <1>2
  <1> HIDE DEF found, I, S, F, V, A, n
  <1>11. CASE A > ExportLimit
    <2>1. Failures.truncated
      BY <1>7, <1>11, Zenon
    <2>2. count.inserted + count.skipped + n < Cardinality(DOMAIN file)
      BY <1>3, <1>4, <1>5, <1>9, <1>10, <1>11, Sizes
    <2> QED
      BY <2>1, <2>2 DEF n
  <1>12. CASE ~ (A > ExportLimit)
    <2>1. ~Failures.truncated
      BY <1>7, <1>12, Zenon
    <2>2. count.inserted + count.skipped + n = Cardinality(DOMAIN file)
      BY <1>3, <1>4, <1>5, <1>9, <1>10, <1>12, Sizes
    <2> QED
      BY <2>1, <2>2 DEF n
  <1> QED
    BY <1>11, <1>12

(* Progress is that of the rows and of the result page; a preview on one   *)
(* page is all of the file; a completed run accounts for every row.        *)
THEOREM ProgressIsTrue == Spec => []ProgressIsExact
  <1>1. ImportInv => ProgressIsExact
    <2> SUFFICES ASSUME ImportInv PROVE ProgressIsExact
      OBVIOUS
    <2>1. /\ count.inserted = Cardinality(RowsWith("imported"))
          /\ count.rejected = Cardinality(RowsWith("failed"))
          /\ count.skipped = Result.skipped
          /\ Cardinality(Result.failed) = Min({PageSize, count.rejected})
      <3>1. /\ count.inserted = Cardinality(RowsWith("imported"))
            /\ count.rejected = Cardinality(RowsWith("failed"))
            /\ count.skipped = Cardinality(RowsWith("skipped"))
        BY DEF ImportInv, CountInv
      <3>2. Result.failed = RowPage("failed", 1) /\ Result.skipped = Cardinality(RowsWith("skipped"))
        BY DEF Result
      <3> QED
        BY <3>1, <3>2, PagesOfStatus
    <2>2. ASSUME phase = "validated", \A status \in DOMAIN Preview : TotalPages(status) <= 1
          PROVE  UNION {Preview[status] : status \in DOMAIN Preview} = DOMAIN file
      <3>1. /\ DOMAIN Preview = {"valid", "conflict", "invalid"}
            /\ \A s \in {"valid", "conflict", "invalid"} : Preview[s] = RowPage(s, 1)
        BY DEF Preview
      <3>2. \A s \in {"valid", "conflict", "invalid"} : Preview[s] = RowsWith(s)
        BY <2>2, <3>1, PagesOfStatus
      <3>3. DOMAIN rows = DOMAIN file /\ \A n \in DOMAIN rows : rows[n] \in {"valid", "conflict", "invalid"}
        BY <2>2 DEF ImportInv, PhaseInv, BeforePolicy, RowsInv, RowStatuses, RowsWith
      <3>4. DOMAIN file = RowsWith("valid") \cup RowsWith("conflict") \cup RowsWith("invalid")
        BY <3>3 DEF RowsWith
      <3> QED
        BY <3>1, <3>2, <3>4
    <2>3. \A status \in RowStatuses :
            RowsWith(status) = UNION {RowPage(status, p) : p \in 1..TotalPages(status)}
      BY PagesOfStatus
    <2>4. phase = "completed" =>
            LET shown == count.inserted + count.skipped + Cardinality(Failures.rows)
                all   == Cardinality(DOMAIN file)
            IN  IF Failures.truncated THEN shown < all ELSE shown = all
      BY CompletedProgress
    <2>5. phase = "cancelled" /\ Progress = 1000 =>
            2000 * Cardinality(RowsWith("valid") \cup RowsWith("invalid")) <= Cardinality(DOMAIN rows)
      BY CancelledProgress
    <2>6. RowsWith("conflict") = {} /\ phase \notin {"uploading", "staging", "validated", "policy"} =>
              /\ count.inserted = Cardinality(RowsWith("imported"))
              /\ count.rejected = Cardinality(RowsWith("failed"))
              /\ count.skipped = Result.skipped
              /\ Cardinality(Result.failed) = Min({PageSize, count.rejected})
      BY <2>1, Zenon
    <2>7. phase = "validated" /\ (\A status \in DOMAIN Preview : TotalPages(status) <= 1) =>
            UNION {Preview[status] : status \in DOMAIN Preview} = DOMAIN file
      BY <2>2, Zenon
    <2> QED
      BY <2>3, <2>4, <2>5, <2>6, <2>7 DEF ProgressIsExact
  <1> QED
    BY <1>1, ImportInvariant, PTL
=============================================================================
