-------------------------- MODULE OrderReadsProofs --------------------------
(***************************************************************************)
(* Proofs about OrderReads: the types, that the status of every order is   *)
(* explained by an event or by the reconciliation, that a dashboard gets   *)
(* the orders of one moment (OrderReads implements OrderSnapshots), and    *)
(* that page, API and exported files have the same figures.                *)
(***************************************************************************)
EXTENDS OrderReads, OrderLedgerProofs, FiniteSetTheorems, SequenceTheorems

USE DEF MISSING, ACTIVE, REFUNDED, CANCELLED, PROCESSED, REJECTED

(* A reader's own variables: what it has read of the pages of one version. *)
ReadOK(x, version, list) ==
    /\ x.pc \in {"next", "assemble"} =>
         /\ x.version <= version
         /\ ~x.torn /\ x.version = version => list = x.taken
    /\ x.pc = "next" =>
         /\ x.page >= 1
         /\ x.page * PageSize < x.total
         /\ ~x.torn => x.total = Len(x.taken)
         /\ ~x.torn => x.rows = SubSeq(x.taken, 1, x.page * PageSize)
    /\ x.pc = "assemble" /\ ~x.torn => x.rows = x.taken
    /\ x.pc \notin {"next", "assemble"} => x.taken = <<>> /\ x.torn = FALSE

ReadsOK == \A r \in Readers : ReadOK(reader[r], dataVersion, View)

ReadsInv == TypeOK /\ ReadsOK

-----------------------------------------------------------------------------
(* Lists of orders.                                                        *)

(* The orders of S among the first i of the listing, for each i up to n.   *)
Kept(f, S, n) ==
    f = [i \in 0..n |-> IF i = 0 THEN <<>>
                        ELSE IF Listing[i] \in S THEN Append(f[i - 1], Listing[i]) ELSE f[i - 1]]

(* There is such a function: one place more can always be added.           *)
LEMMA KeptExists ==
    ASSUME NEW S, NEW n \in Nat
    PROVE  \E f : Kept(f, S, n)
  <1> DEFINE T == {m \in Nat : \E f : Kept(f, S, m)}
  <1>1. 0 \in T
    <2> DEFINE f == [i \in 0..0 |-> <<>>]
    <2>1. \A i \in 0..0 : i = 0
      OBVIOUS
    <2>2. Kept(f, S, 0)
      BY <2>1 DEF Kept
    <2> QED
      BY <2>2
  <1>2. ASSUME NEW m \in Nat, m \in T PROVE m + 1 \in T
    <2>1. PICK f : Kept(f, S, m)
      BY <1>2
    <2> DEFINE last == IF Listing[m + 1] \in S THEN Append(f[m], Listing[m + 1]) ELSE f[m]
               g == [i \in 0..(m + 1) |-> IF i = m + 1 THEN last ELSE f[i]]
    <2>2. /\ \A i \in 0..(m + 1) : i = m + 1 \/ i \in 0..m
          /\ \A i \in 0..m : i # m + 1 /\ i \in 0..(m + 1)
          /\ (m + 1) - 1 = m /\ m + 1 # 0 /\ m + 1 \in 0..(m + 1) /\ m \in 0..m
      OBVIOUS
    <2>3. \A i \in 0..m : g[i] = f[i]
      BY <2>2
    <2>4. g[m + 1] = last
      BY <2>2
    <2>5. g = [i \in 0..(m + 1) |-> g[i]]
      OBVIOUS
    <2> HIDE DEF g
    <2>6. ASSUME NEW i \in 0..(m + 1)
          PROVE  g[i] = IF i = 0 THEN <<>>
                        ELSE IF Listing[i] \in S THEN Append(g[i - 1], Listing[i]) ELSE g[i - 1]
      <3>1. CASE i = m + 1
        <4>1. g[i - 1] = f[m]
          BY <2>2, <2>3, <3>1
        <4> QED
          BY <2>2, <2>4, <3>1, <4>1
      <3>2. CASE i \in 0..m /\ i # 0
        <4>1. i - 1 \in 0..m
          BY <3>2
        <4>2. f[i] = IF Listing[i] \in S THEN Append(f[i - 1], Listing[i]) ELSE f[i - 1]
          BY <2>1, <3>2 DEF Kept
        <4> QED
          BY <2>3, <3>2, <4>1, <4>2
      <3>3. CASE i = 0
        <4>1. 0 \in 0..m
          OBVIOUS
        <4>2. f[0] = <<>>
          BY <2>1, <4>1 DEF Kept
        <4> QED
          BY <2>3, <3>3, <4>1, <4>2
      <3> QED
        BY <2>2, <3>1, <3>2, <3>3
    <2>7. Kept(g, S, m + 1)
      BY <2>5, <2>6, Zenon DEF Kept
    <2> QED
      BY <2>7
  <1> HIDE DEF T
  <1>3. Nat \subseteq T
    BY <1>1, <1>2, Induction
  <1> USE DEF T
  <1> QED
    BY <1>3

LEMMA ListOfIsKept ==
    ASSUME NEW S \in SUBSET Orders
    PROVE  \E f : Kept(f, S, Len(Listing)) /\ ListOf[S] = f[Len(Listing)]
  <1>1. Len(Listing) \in Nat
    BY ListingAssumption
  <1> DEFINE f == CHOOSE f : Kept(f, S, Len(Listing))
  <1>2. Kept(f, S, Len(Listing))
    BY <1>1, KeptExists
  <1>3. ListOf[S] = f[Len(Listing)]
    BY DEF ListOf, Kept
  <1> QED
    BY <1>2, <1>3

(* list has every order of S that is among the first i of the listing, each*)
(* once, and nothing else.                                                 *)
Holds(list, S, i) ==
    /\ list \in Seq(Orders)
    /\ \A j \in DOMAIN list : list[j] \in S /\ \E k \in 1..i : Listing[k] = list[j]
    /\ \A j, k \in DOMAIN list : list[j] = list[k] => j = k
    /\ \A k \in 1..i : Listing[k] \in S => \E j \in DOMAIN list : list[j] = Listing[k]

LEMMA KeptLists ==
    ASSUME NEW S \in SUBSET Orders, NEW f, Kept(f, S, Len(Listing))
    PROVE  Holds(f[Len(Listing)], S, Len(Listing))
  <1> DEFINE L == Len(Listing)
             T == {i \in Nat : i <= L => Holds(f[i], S, i)}
  <1>1. L \in Nat /\ \A i \in 1..L : i \in DOMAIN Listing /\ Listing[i] \in Orders
    BY ListingAssumption
  <1>2. 0 \in T
    <2>1. f[0] = <<>>
      BY <1>1 DEF Kept
    <2>2. <<>> \in Seq(Orders) /\ DOMAIN <<>> = {} /\ 1..0 = {}
      OBVIOUS
    <2>3. Holds(<<>>, S, 0)
      BY <2>2 DEF Holds
    <2> QED
      BY <2>1, <2>3
  <1>3. ASSUME NEW i \in Nat, i \in T PROVE i + 1 \in T
    <2> SUFFICES ASSUME i + 1 <= L PROVE Holds(f[i + 1], S, i + 1)
      OBVIOUS
    <2>1. i <= L /\ i + 1 \in 0..L /\ i + 1 \in 1..L /\ i + 1 # 0 /\ (i + 1) - 1 = i
      BY <1>1
    <2> DEFINE list == f[i]
               o == Listing[i + 1]
    <2>2. Holds(list, S, i)
      BY <1>3, <2>1
    <2>3. f[i + 1] = IF o \in S THEN Append(list, o) ELSE list
      BY <2>1 DEF Kept
    <2>4. o \in Orders /\ \A k \in 1..i : Listing[k] # o
      BY <1>1, <2>1, ListingAssumption
    <2>5. \A k \in 1..(i + 1) : k = i + 1 \/ k \in 1..i
      OBVIOUS
    <2>6. 1..i \subseteq 1..(i + 1) /\ i + 1 \in 1..(i + 1)
      OBVIOUS
    <2> HIDE DEF list, o, T, L
    <2>7. CASE o \notin S
      <3>1. f[i + 1] = list
        BY <2>3, <2>7
      <3>2. \A k \in 1..(i + 1) : Listing[k] \in S => k \in 1..i
        BY <2>5, <2>7 DEF o
      <3> QED
        BY <2>2, <2>6, <3>1, <3>2 DEF Holds
    <2>8. CASE o \in S
      <3> DEFINE more == Append(list, o)
      <3>1. list \in Seq(Orders) /\ Len(list) \in Nat /\ DOMAIN list = 1..Len(list)
        BY <2>2 DEF Holds
      <3>2. /\ more \in Seq(Orders) /\ DOMAIN more = 1..(Len(list) + 1)
            /\ \A j \in 1..Len(list) : more[j] = list[j]
            /\ more[Len(list) + 1] = o
        BY <2>4, <3>1
      <3>3. f[i + 1] = more
        BY <2>3, <2>8
      <3>4. /\ \A j \in DOMAIN more : j = Len(list) + 1 \/ j \in DOMAIN list
            /\ \A j \in DOMAIN list : j \in DOMAIN more /\ more[j] = list[j]
            /\ Len(list) + 1 \in DOMAIN more
        BY <3>1, <3>2
      <3> HIDE DEF more
      <3>5. \A j \in DOMAIN list : list[j] # o
        BY <2>2, <2>4 DEF Holds
      <3>6. ASSUME NEW j \in DOMAIN more
            PROVE  more[j] \in S /\ \E k \in 1..(i + 1) : Listing[k] = more[j]
        <4>1. CASE j = Len(list) + 1
          BY <2>6, <2>8, <3>2, <4>1 DEF o
        <4>2. CASE j \in DOMAIN list
          <5>1. list[j] \in S /\ \E k \in 1..i : Listing[k] = list[j]
            BY <2>2, <4>2 DEF Holds
          <5>2. more[j] = list[j]
            BY <3>4, <4>2
          <5> QED
            BY <2>6, <5>1, <5>2
        <4> QED
          BY <3>4, <4>1, <4>2
      <3>7. \A j, k \in DOMAIN more : more[j] = more[k] => j = k
        BY <2>2, <3>2, <3>4, <3>5 DEF Holds
      <3>8. \A k \in 1..(i + 1) : Listing[k] \in S => \E j \in DOMAIN more : more[j] = Listing[k]
        BY <2>2, <2>5, <3>2, <3>4 DEF Holds, o
      <3> QED
        BY <3>2, <3>3, <3>6, <3>7, <3>8 DEF Holds
    <2> QED
      BY <2>7, <2>8
  <1> HIDE DEF T
  <1>4. Nat \subseteq T
    BY <1>2, <1>3, Induction
  <1> USE DEF T
  <1> QED
    BY <1>1, <1>4

(* A list of orders has each of them once and no other.                    *)
LEMMA ListOfOrders ==
    ASSUME NEW S \in SUBSET Orders
    PROVE  /\ ListOf[S] \in Seq(Orders)
           /\ \A i, j \in DOMAIN ListOf[S] : ListOf[S][i] = ListOf[S][j] => i = j
           /\ \A i \in DOMAIN ListOf[S] : ListOf[S][i] \in S
           /\ \A o \in S : \E i \in DOMAIN ListOf[S] : ListOf[S][i] = o
  <1>1. Holds(ListOf[S], S, Len(Listing))
    BY ListOfIsKept, KeptLists
  <1>2. \A o \in S : \E k \in 1..Len(Listing) : Listing[k] = o
    BY ListingAssumption
  <1> QED
    BY <1>1, <1>2 DEF Holds

-----------------------------------------------------------------------------
(* Lists and pages.                                                        *)

(* The list of current orders is a list of orders.                         *)
LEMMA ViewIsList == View \in Lists /\ View \in Seq(Orders) /\ Len(View) \in Nat
  <1>1. CurrentOrders \in SUBSET Orders
    BY DEF CurrentOrders
  <1>2. View \in Lists
    BY <1>1 DEF View, Lists
  <1>3. View \in Seq(Orders)
    BY <1>1, ListOfOrders DEF View
  <1> QED
    BY <1>2, <1>3, LenProperties

LEMMA NextViewIsList == View' \in Lists
  <1>1. CurrentOrders' \in SUBSET Orders
    BY DEF CurrentOrders
  <1> QED
    BY <1>1 DEF View, Lists

(* The list changes with the table only.                                   *)
LEMMA ViewUnchanged ==
    ASSUME orders' = orders
    PROVE  View' = View
  <1>1. CurrentOrders' = CurrentOrders
    BY DEF CurrentOrders, Listed
  <1> QED
    BY <1>1 DEF View

(* A stretch of a list of orders is one too.                               *)
LEMMA StretchType ==
    ASSUME NEW list \in Seq(Orders), NEW m \in Nat, NEW n \in Nat, m >= 1, n <= Len(list)
    PROVE  SubSeq(list, m, n) \in Seq(Orders)
  <1>1. Len(list) \in Nat /\ \A i \in 1..Len(list) : list[i] \in Orders
    BY LenProperties
  <1>2. \A i \in m..n : list[i] \in Orders
    BY <1>1
  <1>3. m \in Int /\ n \in Int
    OBVIOUS
  <1> HIDE <1>1
  <1> QED
    BY <1>2, <1>3, SubSeqProperties, Zenon

(* The first page is a beginning of the list.                              *)
LEMMA FirstPageRows ==
    ASSUME NEW list \in Seq(Orders)
    PROVE  /\ Page(list, 1) \in Seq(Orders)
           /\ HasPage(Len(list), 2) =>
                /\ PageSize < Len(list)
                /\ Page(list, 1) = SubSeq(list, 1, PageSize)
           /\ ~HasPage(Len(list), 2) => Page(list, 1) = list
  <1> DEFINE last == IF PageSize < Len(list) THEN PageSize ELSE Len(list)
  <1>1. PageSize \in Nat /\ PageSize > 0 /\ Len(list) \in Nat
    BY PagesAssumption, LenProperties
  <1>2. last \in Nat /\ last <= Len(list)
    BY <1>1
  <1>3. Page(list, 1) = SubSeq(list, 1, last)
    <2>1. (1 - 1) * PageSize + 1 = 1 /\ 1 * PageSize = PageSize
      BY <1>1
    <2> QED
      BY <2>1 DEF Page
  <1>4. HasPage(Len(list), 2) <=> PageSize < Len(list)
    <2>1. (2 - 1) * PageSize = PageSize
      BY <1>1
    <2> QED
      BY <2>1 DEF HasPage
  <1>6. Page(list, 1) \in Seq(Orders)
    <2> HIDE DEF last
    <2> QED
      BY <1>2, <1>3, StretchType
  <1>7. HasPage(Len(list), 2) => PageSize < Len(list) /\ Page(list, 1) = SubSeq(list, 1, PageSize)
    BY <1>3, <1>4
  <1>8. ~HasPage(Len(list), 2) => Page(list, 1) = list
    BY <1>1, <1>3, <1>4, SubSeqFull
  <1> QED
    BY <1>6, <1>7, <1>8

(* The next page continues what was read of the same list.                 *)
LEMMA NextPageRows ==
    ASSUME NEW list \in Seq(Orders), NEW n \in Nat, n >= 1, n * PageSize < Len(list)
    PROVE  /\ Page(list, n + 1) \in Seq(Orders)
           /\ HasPage(Len(list), n + 2) =>
                /\ (n + 1) * PageSize < Len(list)
                /\ SubSeq(list, 1, n * PageSize) \o Page(list, n + 1)
                     = SubSeq(list, 1, (n + 1) * PageSize)
           /\ ~HasPage(Len(list), n + 2) =>
                SubSeq(list, 1, n * PageSize) \o Page(list, n + 1) = list
  <1> DEFINE k == n * PageSize
             m == (n + 1) * PageSize
             last == IF m < Len(list) THEN m ELSE Len(list)
  <1>1. PageSize \in Nat /\ PageSize > 0 /\ Len(list) \in Nat
    BY PagesAssumption, LenProperties
  <1>2. k \in Nat /\ m = k + PageSize
    BY <1>1
  <1>3. Page(list, n + 1) = SubSeq(list, k + 1, last)
    <2>1. (n + 1) - 1 = n
      OBVIOUS
    <2> QED
      BY <2>1 DEF Page
  <1>4. HasPage(Len(list), n + 2) <=> m < Len(list)
    <2>1. (n + 2) - 1 = n + 1
      OBVIOUS
    <2> QED
      BY <2>1 DEF HasPage
  <1> HIDE DEF m
  <1>5. m \in Nat /\ k < m /\ k < Len(list)
    BY <1>1, <1>2
  <1> HIDE DEF k
  <1>6. last \in Nat /\ last <= Len(list) /\ k <= last
    BY <1>1, <1>2, <1>5
  <1>8. Page(list, n + 1) \in Seq(Orders)
    <2> HIDE DEF last
    <2>1. k + 1 \in Nat /\ k + 1 >= 1
      BY <1>1, <1>2
    <2>2. SubSeq(list, k + 1, last) \in Seq(Orders)
      BY <1>6, <2>1, StretchType
    <2> QED
      BY <1>3, <2>2
  <1>9. SubSeq(list, 1, k) \o SubSeq(list, k + 1, last) = SubSeq(list, 1, last)
    <2>1. 1 \in 1..(Len(list) + 1) /\ k \in (1 - 1)..Len(list) /\ last \in k..Len(list)
      BY <1>1, <1>2, <1>5, <1>6
    <2> QED
      BY <2>1, ConcatAdjacentSubSeq
  <1>10. HasPage(Len(list), n + 2) => last = m
    BY <1>4
  <1>11. ~HasPage(Len(list), n + 2) => SubSeq(list, 1, last) = list
    BY <1>4, SubSeqFull
  <1> QED
    BY <1>3, <1>4, <1>8, <1>9, <1>10, <1>11 DEF k, m

-----------------------------------------------------------------------------
(* Steps of a reader.                                                      *)

(* What a step of a reader is to OrderSnapshots.                           *)
Idles(x, y) ==
    Phase(y.pc) = Phase(x.pc) /\ y.taken = x.taken /\ y.torn = x.torn /\ y.result = x.result

Begins(x, y) ==
    Phase(y.pc) = "waiting" /\ y.taken = <<>> /\ y.torn = FALSE /\ y.result = x.result

Takes(x, y, list) ==
    /\ Phase(x.pc) = "waiting" /\ Phase(y.pc) = "reading"
    /\ y.taken = list /\ y.torn = FALSE /\ y.result = x.result

Delivers(x, y) ==
    /\ Phase(x.pc) = "reading" /\ Phase(y.pc) = "delivered"
    /\ y.taken = <<>> /\ y.torn = FALSE /\ (x.torn \/ y.result = x.taken)

GivesUp(x, y) ==
    /\ Phase(x.pc) \in {"waiting", "reading"} /\ Phase(y.pc) = "failed"
    /\ y.taken = <<>> /\ y.torn = FALSE /\ y.result = x.result

Reads(x, y, list) ==
    \/ Idles(x, y) \/ Begins(x, y) \/ Takes(x, y, list) \/ Delivers(x, y) \/ GivesUp(x, y)

(* What a step of a reader does: its own record changes, to one that is    *)
(* well-formed, and the change is a step of OrderSnapshots.                *)
ReaderStep(r) ==
    \E y \in Reader :
        /\ reader' = [reader EXCEPT ![r] = y]
        /\ ReadOK(y, dataVersion, View)
        /\ Reads(reader[r], y, View)
        /\ UNCHANGED <<tables, cli, reconciliation>>

(* The end of a read leaves nothing of it.                                 *)
Ended(x, pc, result, masked) ==
    [x EXCEPT !.pc = pc, !.attempt = 0, !.version = 0, !.total = 0, !.page = 0, !.rows = <<>>,
              !.taken = <<>>, !.torn = FALSE, !.result = result, !.masked = masked]

LEMMA EndedReader ==
    ASSUME NEW x \in Reader, NEW pc \in {"delivered", "failed"}, NEW result \in Seq(Orders),
           NEW masked \in BOOLEAN
    PROVE  Ended(x, pc, result, masked) \in Reader
  <1>1. 0 \in 0..MaxAttempts /\ <<>> \in Seq(Orders)
    BY PagesAssumption, EmptySeq
  <1> QED
    BY <1>1 DEF Reader, Ended

(* A read fails.                                                           *)
LEMMA FailStep ==
    ASSUME ReadsInv, NEW r \in Readers, Fail(r), reader[r].pc \in {"first", "next", "assemble"},
           UNCHANGED <<tables, cli, reconciliation>>
    PROVE  ReaderStep(r)
  <1> DEFINE x == reader[r]
             y == Ended(x, "failed", x.result, x.masked)
  <1>1. x \in Reader /\ x.result \in Seq(Orders) /\ x.masked \in BOOLEAN
    BY DEF ReadsInv, TypeOK, Reader
  <1>2. reader' = [reader EXCEPT ![r] = y]
    BY DEF Fail, Leave, Ended
  <1>3. y \in Reader
    BY <1>1, EndedReader
  <1>7. y.pc = "failed" /\ y.taken = <<>> /\ y.torn = FALSE /\ y.result = x.result
    BY <1>1 DEF Reader, Ended
  <1> HIDE DEF y
  <1>6. ReadOK(y, dataVersion, View)
    BY <1>7 DEF ReadOK
  <1>4. Phase(x.pc) \in {"waiting", "reading"} /\ Phase(y.pc) = "failed"
    BY <1>7 DEF Phase
  <1>5. GivesUp(x, y)
    BY <1>4, <1>7 DEF GivesUp
  <1> QED
    BY <1>2, <1>3, <1>5, <1>6 DEF ReaderStep, Reads

(* A read begins, or begins again.                                         *)
LEMMA BeginStep ==
    ASSUME ReadsInv, NEW r \in Readers, NEW y \in Reader,
           reader' = [reader EXCEPT ![r] = y],
           y.pc = "first", y.taken = <<>>, y.torn = FALSE, y.result = reader[r].result,
           UNCHANGED <<tables, cli, reconciliation>>
    PROVE  ReaderStep(r)
  <1>1. Phase(y.pc) = "waiting"
    BY DEF Phase
  <1>2. Begins(reader[r], y)
    BY <1>1 DEF Begins
  <1>3. ReadOK(y, dataVersion, View)
    BY DEF ReadOK
  <1> QED
    BY <1>2, <1>3 DEF ReaderStep, Reads

LEMMA BeginReadStep ==
    ASSUME ReadsInv, NEW r \in Readers, BeginRead(r) \/ Refresh(r)
    PROVE  ReaderStep(r)
  <1> DEFINE x == reader[r]
             y == [x EXCEPT !.pc = "first", !.attempt = 1, !.reads = x.reads + 1]
             z == [x EXCEPT !.pc = "first", !.attempt = 1, !.reads = x.reads + 1, !.offered = {}]
  <1>1. x \in Reader /\ x.pc \in {"idle", "delivered", "failed"} /\ x.reads < MaxReads
    BY DEF ReadsInv, TypeOK, BeginRead, Refresh
  <1>2. x.taken = <<>> /\ x.torn = FALSE
    BY <1>1 DEF ReadsInv, ReadsOK, ReadOK
  <1>7. x.reads \in 0..MaxReads
    BY <1>1 DEF Reader
  <1>3. 1 \in 0..MaxAttempts /\ x.reads + 1 \in 0..MaxReads
    BY <1>1, <1>7, PagesAssumption
  <1>4. UNCHANGED <<tables, cli, reconciliation>>
    BY DEF BeginRead, Refresh
  <1>5. CASE BeginRead(r)
    <2>1. reader' = [reader EXCEPT ![r] = y]
      BY <1>5 DEF BeginRead
    <2>2. y \in Reader
      BY <1>1, <1>3 DEF Reader
    <2>3. y.pc = "first" /\ y.taken = <<>> /\ y.torn = FALSE /\ y.result = x.result
      BY <1>1, <1>2 DEF Reader
    <2> HIDE DEF y
    <2> QED
      BY <1>4, <2>1, <2>2, <2>3, BeginStep
  <1>6. CASE Refresh(r)
    <2>1. reader' = [reader EXCEPT ![r] = z]
      BY <1>6 DEF Refresh
    <2>2. z \in Reader
      BY <1>1, <1>3 DEF Reader
    <2>3. z.pc = "first" /\ z.taken = <<>> /\ z.torn = FALSE /\ z.result = x.result
      BY <1>1, <1>2 DEF Reader
    <2> HIDE DEF z
    <2> QED
      BY <1>4, <2>1, <2>2, <2>3, BeginStep
  <1> QED
    BY <1>5, <1>6

(* After a conflict the read begins again or fails.                        *)
LEMMA ConflictStep ==
    ASSUME ReadsInv, NEW r \in Readers, Conflict(r), reader[r].pc = "next",
           UNCHANGED <<tables, cli, reconciliation>>
    PROVE  ReaderStep(r)
  <1> DEFINE x == reader[r]
             y == [x EXCEPT !.pc = "first", !.attempt = x.attempt + 1, !.version = 0,
                            !.total = 0, !.page = 0, !.rows = <<>>, !.taken = <<>>, !.torn = FALSE]
  <1>1. x \in Reader
    BY DEF ReadsInv, TypeOK
  <1>2. CASE x.attempt < MaxAttempts
    <2>1. reader' = [reader EXCEPT ![r] = y]
      BY <1>2 DEF Conflict
    <2>2. x.attempt + 1 \in 0..MaxAttempts /\ <<>> \in Seq(Orders)
      BY <1>1, <1>2, PagesAssumption, EmptySeq DEF Reader
    <2>3. y \in Reader
      BY <1>1, <2>2 DEF Reader
    <2>4. y.pc = "first" /\ y.taken = <<>> /\ y.torn = FALSE /\ y.result = x.result
      BY <1>1 DEF Reader
    <2> HIDE DEF y
    <2> QED
      BY <2>1, <2>3, <2>4, BeginStep
  <1>3. CASE ~(x.attempt < MaxAttempts)
    BY <1>3, FailStep DEF Conflict
  <1> QED
    BY <1>2, <1>3

(* The first page is taken from the list of this moment.                   *)
LEMMA FirstPageStep ==
    ASSUME ReadsInv, NEW r \in Readers, FirstPage(r)
    PROVE  ReaderStep(r)
  <1> DEFINE x == reader[r]
             more == HasPage(Len(View), 2)
             y == [x EXCEPT !.pc = IF more THEN "next" ELSE "assemble",
                            !.version = dataVersion, !.total = Len(View), !.page = 1,
                            !.rows = Page(View, 1), !.taken = View, !.torn = FALSE]
  <1>1. x \in Reader /\ x.pc = "first" /\ dataVersion \in Nat
    BY DEF ReadsInv, TypeOK, FirstPage, LedgerTypeOK
  <1>2. UNCHANGED <<tables, cli, reconciliation>>
    BY DEF FirstPage
  <1>3. CASE Len(View) > MaxRows
    BY <1>1, <1>2, <1>3, FailStep DEF FirstPage
  <1>4. CASE ~(Len(View) > MaxRows)
    <2>1. reader' = [reader EXCEPT ![r] = y]
      BY <1>4 DEF FirstPage
    <2>2. /\ Page(View, 1) \in Seq(Orders)
          /\ more => /\ PageSize < Len(View)
                     /\ Page(View, 1) = SubSeq(View, 1, PageSize)
          /\ ~more => Page(View, 1) = View
      BY ViewIsList, FirstPageRows
    <2>3. y \in Reader
      BY <1>1, <2>2, ViewIsList DEF Reader
    <2>4. /\ y.pc = (IF more THEN "next" ELSE "assemble")
          /\ y.version = dataVersion /\ y.total = Len(View) /\ y.page = 1
          /\ y.rows = Page(View, 1) /\ y.taken = View /\ y.torn = FALSE
          /\ y.result = x.result
      BY <1>1 DEF Reader
    <2> HIDE DEF y, more
    <2>5. 1 * PageSize = PageSize
      BY PagesAssumption
    <2>6. ReadOK(y, dataVersion, View)
      BY <1>1, <2>2, <2>4, <2>5 DEF ReadOK
    <2>7. Phase(x.pc) = "waiting" /\ Phase(y.pc) = "reading"
      BY <1>1, <2>4 DEF Phase
    <2>8. Takes(x, y, View)
      BY <2>4, <2>7 DEF Takes
    <2> QED
      BY <1>2, <2>1, <2>3, <2>6, <2>8 DEF ReaderStep, Reads
  <1> QED
    BY <1>3, <1>4

(* A later page of the same version continues the list of the first one.   *)
LEMMA NextPageStep ==
    ASSUME ReadsInv, NEW r \in Readers, NextPage(r)
    PROVE  ReaderStep(r)
  <1> DEFINE x == reader[r]
             n == x.page
             more == HasPage(x.total, (n + 1) + 1)
             y == [x EXCEPT !.pc = IF more THEN "next" ELSE "assemble",
                            !.page = n + 1, !.rows = x.rows \o Page(View, n + 1)]
  <1>1. x \in Reader /\ x.pc = "next" /\ dataVersion \in Nat
    BY DEF ReadsInv, TypeOK, NextPage, LedgerTypeOK
  <1>2. UNCHANGED <<tables, cli, reconciliation>>
    BY DEF NextPage
  <1>3. CASE ~SamePages(r)
    BY <1>1, <1>2, <1>3, ConflictStep DEF NextPage
  <1>4. CASE SamePages(r)
    <2>1. reader' = [reader EXCEPT ![r] = y]
      BY <1>4 DEF NextPage
    <2>2. dataVersion = x.version /\ Len(View) = x.total
      BY <1>4 DEF SamePages
    <2>3. /\ n \in Nat /\ n >= 1 /\ n * PageSize < Len(View)
          /\ ~x.torn => View = x.taken /\ x.rows = SubSeq(View, 1, n * PageSize)
      BY <1>1, <2>2 DEF ReadsInv, ReadsOK, ReadOK, Reader
    <2>4. (n + 1) + 1 = n + 2
      BY <2>3
    <2>5. /\ Page(View, n + 1) \in Seq(Orders)
          /\ more => /\ (n + 1) * PageSize < Len(View)
                     /\ SubSeq(View, 1, n * PageSize) \o Page(View, n + 1)
                          = SubSeq(View, 1, (n + 1) * PageSize)
          /\ ~more => SubSeq(View, 1, n * PageSize) \o Page(View, n + 1) = View
      BY <2>2, <2>3, <2>4, ViewIsList, NextPageRows
    <2>6. x.rows \o Page(View, n + 1) \in Seq(Orders)
      BY <1>1, <2>5, ConcatProperties DEF Reader
    <2>7. y \in Reader
      <3>1. n + 1 \in Nat
        BY <2>3
      <3> HIDE DEF more
      <3> QED
        BY <1>1, <2>6, <3>1 DEF Reader
    <2>8. /\ y.pc = (IF more THEN "next" ELSE "assemble")
          /\ y.version = x.version /\ y.total = x.total /\ y.page = n + 1
          /\ y.rows = x.rows \o Page(View, n + 1)
          /\ y.taken = x.taken /\ y.torn = x.torn /\ y.result = x.result
      BY <1>1 DEF Reader
    <2> HIDE DEF y, more
    <2>9. n + 1 >= 1
      BY <2>3
    <2>10. ReadOK(y, dataVersion, View)
      <3>1. y.pc \in {"next", "assemble"} /\ y.version <= dataVersion
        BY <1>1, <2>2, <2>8
      <3>2. ~y.torn /\ y.version = dataVersion => View = y.taken
        BY <2>3, <2>8
      <3>3. y.pc = "next" => more
        BY <2>8
      <3>4. y.pc = "next" => y.page >= 1 /\ y.page * PageSize < y.total
        BY <2>2, <2>5, <2>8, <2>9, <3>3
      <3>5. y.pc = "next" /\ ~y.torn => y.total = Len(y.taken)
        BY <2>2, <2>3, <2>8
      <3>6. y.pc = "next" /\ ~y.torn => y.rows = SubSeq(y.taken, 1, y.page * PageSize)
        BY <2>3, <2>5, <2>8, <3>3
      <3>7. y.pc = "assemble" /\ ~y.torn => y.rows = y.taken
        <4>1. y.pc = "assemble" => ~more
          BY <2>8
        <4> QED
          BY <2>3, <2>5, <2>8, <4>1
      <3> QED
        BY <3>1, <3>2, <3>4, <3>5, <3>6, <3>7 DEF ReadOK
    <2>11. Phase(x.pc) = "reading" /\ Phase(y.pc) = "reading"
      BY <1>1, <2>8 DEF Phase
    <2>12. Idles(x, y)
      BY <2>8, <2>11 DEF Idles
    <2> QED
      BY <1>2, <2>1, <2>7, <2>10, <2>12 DEF ReaderStep, Reads
  <1> QED
    BY <1>3, <1>4

(* What is delivered are the rows that were read.                          *)
LEMMA AssembleStep ==
    ASSUME ReadsInv, NEW r \in Readers, Assemble(r)
    PROVE  ReaderStep(r)
  <1> DEFINE x == reader[r]
  <1>1. x \in Reader /\ x.pc = "assemble" /\ x.rows \in Seq(Orders)
    BY DEF ReadsInv, TypeOK, Assemble, Reader
  <1>2. UNCHANGED <<tables, cli, reconciliation>>
    BY DEF Assemble
  <1>3. CASE Len(x.rows) # x.total
    BY <1>1, <1>2, <1>3, FailStep DEF Assemble
  <1>4. CASE Len(x.rows) = x.total
    <2>0. PICK masked \in BOOLEAN : Leave(r, "delivered", x.rows, masked)
      BY <1>4 DEF Assemble
    <2> DEFINE y == Ended(x, "delivered", x.rows, masked)
    <2>1. reader' = [reader EXCEPT ![r] = y]
      BY <2>0 DEF Leave, Ended
    <2>2. y \in Reader
      BY <1>1, EndedReader
    <2>7. y.pc = "delivered" /\ y.taken = <<>> /\ y.torn = FALSE /\ y.result = x.rows
      BY <1>1 DEF Reader, Ended
    <2> HIDE DEF y
    <2>6. ReadOK(y, dataVersion, View)
      BY <2>7 DEF ReadOK
    <2>3. Phase(x.pc) = "reading" /\ Phase(y.pc) = "delivered"
      BY <1>1, <2>7 DEF Phase
    <2>4. x.torn \/ x.rows = x.taken
      BY <1>1 DEF ReadsInv, ReadsOK, ReadOK
    <2>5. Delivers(x, y)
      BY <2>3, <2>4, <2>7 DEF Delivers
    <2> QED
      BY <1>2, <2>1, <2>2, <2>5, <2>6 DEF ReaderStep, Reads
  <1> QED
    BY <1>3, <1>4

(* What is shown, and the file offered, are not part of a read.            *)
LEMMA PageStep ==
    ASSUME ReadsInv, NEW r \in Readers, ChangeView(r) \/ GenerateExport(r)
    PROVE  ReaderStep(r)
  <1> DEFINE x == reader[r]
             z(v, files) == [x EXCEPT !.view = v, !.offered = files]
  <1>1. x \in Reader /\ x.view \in RfmViews /\ x.offered \subseteq Export
    BY DEF ReadsInv, TypeOK, Reader
  <1>2. UNCHANGED <<tables, cli, reconciliation>>
    BY DEF ChangeView, GenerateExport
  <1>3. ASSUME NEW v \in RfmViews, NEW files \in SUBSET Export,
               reader' = [reader EXCEPT ![r] = z(v, files)]
        PROVE  ReaderStep(r)
    <2> DEFINE y == z(v, files)
    <2>1. y \in Reader
      BY <1>1 DEF Reader
    <2>2. /\ y.pc = x.pc /\ y.version = x.version /\ y.total = x.total /\ y.page = x.page
          /\ y.rows = x.rows /\ y.taken = x.taken /\ y.torn = x.torn /\ y.result = x.result
      BY <1>1 DEF Reader
    <2>3. reader' = [reader EXCEPT ![r] = y]
      BY <1>3
    <2> HIDE DEF y
    <2>4. ReadOK(x, dataVersion, View)
      BY DEF ReadsInv, ReadsOK
    <2>5. ReadOK(y, dataVersion, View)
      BY <2>2, <2>4 DEF ReadOK
    <2>6. Idles(x, y)
      BY <2>2 DEF Idles
    <2> QED
      BY <1>2, <2>1, <2>3, <2>5, <2>6 DEF ReaderStep, Reads
  <1>4. CASE ChangeView(r)
    <2>1. PICK v \in RfmViews :
            reader' = [reader EXCEPT ![r] = z(v, {e \in x.offered : e.signature = Signature(v)})]
      BY <1>4 DEF ChangeView
    <2>2. {e \in x.offered : e.signature = Signature(v)} \in SUBSET Export
      BY <1>1
    <2> HIDE DEF z
    <2> QED
      BY <1>3, <2>1, <2>2
  <1>5. CASE GenerateExport(r)
    <2> DEFINE file == [signature |-> Signature(x.view), view |-> x.view, orders |-> CurrentOrders]
    <2>1. CurrentOrders \in SUBSET Orders
      BY DEF CurrentOrders
    <2>2. file \in Export
      BY <1>1, <2>1 DEF Export
    <2>3. reader' = [reader EXCEPT ![r].offered = {file}]
      BY <1>5 DEF GenerateExport
    <2> HIDE DEF file
    <2>4. x.view = x.view /\ [x EXCEPT !.offered = {file}] = z(x.view, {file})
      BY <1>1 DEF Reader
    <2>5. reader' = [reader EXCEPT ![r] = z(x.view, {file})]
      BY <2>3, <2>4
    <2> HIDE DEF z
    <2> QED
      BY <1>1, <1>3, <2>2, <2>5
  <1> QED
    BY <1>4, <1>5

(* Every step of a reader.                                                 *)
LEMMA ReaderSteps ==
    ASSUME ReadsInv, NEW r \in Readers,
           \/ Refresh(r) \/ ChangeView(r) \/ GenerateExport(r)
           \/ BeginRead(r) \/ FirstPage(r) \/ NextPage(r) \/ Assemble(r) \/ RequestFails(r)
    PROVE  ReaderStep(r)
  <1>1. CASE RequestFails(r)
    BY <1>1, FailStep DEF RequestFails
  <1> QED
    BY <1>1, BeginReadStep, PageStep, FirstPageStep, NextPageStep, AssembleStep

-----------------------------------------------------------------------------
(* The types.                                                              *)

(* What the readers do not write.                                          *)
RestTypeOK ==
    /\ LedgerTypeOK
    /\ import \in [Imports -> Import]
    /\ importLock \in Imports \cup {NoImport}
    /\ reconciling \subseteq Orders
    /\ reconciled \subseteq Orders

LEMMA ReadsInvInit == Init => ReadsInv
  <1> SUFFICES ASSUME Init PROVE ReadsInv
    OBVIOUS
  <1>1. LedgerTypeOK
    BY LedgerTypeInit DEF Init
  <1>2. ASSUME NEW r \in Readers
        PROVE  reader[r] \in Reader /\ ReadOK(reader[r], dataVersion, View)
    <2> DEFINE x == [pc |-> "idle", attempt |-> 0, reads |-> 0, version |-> 0, total |-> 0,
                     page |-> 0, rows |-> <<>>, result |-> <<>>, taken |-> <<>>, torn |-> FALSE,
                     view |-> FirstView, offered |-> {}, masked |-> FALSE]
    <2>1. reader[r] = x
      BY DEF Init
    <2>2. 0 \in 0..MaxAttempts /\ 0 \in 0..MaxReads /\ <<>> \in Seq(Orders) /\ FirstView \in RfmViews
      BY PagesAssumption, ViewsAssumption, EmptySeq
    <2>3. x \in Reader
      BY <2>2 DEF Reader
    <2>4. x.pc = "idle" /\ x.taken = <<>> /\ x.torn = FALSE
      OBVIOUS
    <2> HIDE DEF x
    <2>5. ReadOK(x, dataVersion, View)
      BY <2>4 DEF ReadOK
    <2> QED
      BY <2>1, <2>3, <2>5
  <1>3. reader \in [Readers -> Reader]
    BY <1>2 DEF Init
  <1>4. import \in [Imports -> Import]
    BY DEF Init, Import
  <1> QED
    BY <1>1, <1>2, <1>3, <1>4 DEF Init, ReadsInv, ReadsOK, TypeOK

(* The rows of a file are orders.                                          *)
LEMMA CsvRows ==
    ASSUME NEW k \in Imports
    PROVE  /\ CsvTable(k) \in [Orders -> OrderRow]
           /\ \A o \in Orders : CsvTable(k)[o].status \in {ACTIVE, MISSING}
  BY DEF CsvTable, OrderRow, NoOrder

(* An import keeps the types of what it writes.                            *)
LEMMA ImportTypeStep ==
    ASSUME ReadsInv, NEW k \in Imports,
           \/ GetImportLock(k) \/ Guard(k) \/ Stage(k) \/ Recheck(k) \/ Rename(k)
           \/ Bump(k) \/ FinishImport(k) \/ ImportRaises(k) \/ ImportDies(k)
    PROVE  RestTypeOK'
  <1>1. /\ import[k] \in Import /\ import \in [Imports -> Import]
        /\ importLock \in Imports \cup {NoImport}
        /\ ledger \subseteq LedgerRow /\ orders \in [Orders -> OrderRow] /\ dataVersion \in Nat
        /\ reconciling \subseteq Orders /\ reconciled \subseteq Orders
    BY DEF ReadsInv, TypeOK, LedgerTypeOK
  <1>2. ASSUME ImportFails(k)
        PROVE  import' \in [Imports -> Import] /\ importLock' \in Imports \cup {NoImport}
    BY <1>1, <1>2 DEF ImportFails, Import
  <1>3. ASSUME NEW pc \in {"idle", "guard", "stage", "recheck", "rename", "bump", "finish", "ended"},
               CliAt(k, pc)
        PROVE  import' \in [Imports -> Import]
    BY <1>1, <1>3 DEF CliAt, Import
  <1>4. CASE GetImportLock(k)
    BY <1>1, <1>3, <1>4 DEF GetImportLock, RestTypeOK, LedgerTypeOK, tables, reconciliation
  <1>5. CASE Guard(k)
    <2>1. CASE Guarded(import[k].mode)
      BY <1>1, <1>5, <2>1 DEF Guard, Import, RestTypeOK, LedgerTypeOK, tables, reconciliation
    <2>2. CASE ~Guarded(import[k].mode)
      BY <1>1, <1>2, <1>5, <2>2 DEF Guard, RestTypeOK, LedgerTypeOK, tables, reconciliation
    <2> QED
      BY <2>1, <2>2
  <1>6. CASE Stage(k)
    BY <1>1, <1>6 DEF Stage, Import, RestTypeOK, LedgerTypeOK, tables, reconciliation
  <1>7. CASE Recheck(k)
    <2>1. CASE Guarded("replace")
      BY <1>1, <1>3, <1>7, <2>1 DEF Recheck, RestTypeOK, LedgerTypeOK, tables, reconciliation
    <2>2. CASE ~Guarded("replace")
      BY <1>1, <1>2, <1>7, <2>2 DEF Recheck, RestTypeOK, LedgerTypeOK, tables, reconciliation
    <2> QED
      BY <2>1, <2>2
  <1>8. CASE Rename(k)
    <2>1. import' \in [Imports -> Import]
      BY <1>1, <1>8 DEF Rename, Import
    <2> QED
      BY <1>1, <1>8, <2>1, CsvRows DEF Rename, RestTypeOK, LedgerTypeOK, reconciliation
  <1>9. CASE Bump(k)
    BY <1>1, <1>3, <1>9 DEF Bump, RestTypeOK, LedgerTypeOK, reconciliation
  <1>10. CASE FinishImport(k)
    BY <1>1, <1>10 DEF FinishImport, Import, RestTypeOK, LedgerTypeOK, tables, reconciliation
  <1>11. CASE ImportRaises(k)
    BY <1>1, <1>2, <1>11 DEF ImportRaises, RestTypeOK, LedgerTypeOK, tables, reconciliation
  <1>12. CASE ImportDies(k)
    BY <1>1, <1>3, <1>12 DEF ImportDies, RestTypeOK, LedgerTypeOK, tables, reconciliation
  <1> QED
    BY <1>4, <1>5, <1>6, <1>7, <1>8, <1>9, <1>10, <1>11, <1>12

(* So do the events and the reconciliation.                                *)
LEMMA OtherTypeStep ==
    ASSUME ReadsInv, EventCommits \/ ReconcileSelect \/ ReconcileCommit \/ ReconcileAborts
    PROVE  RestTypeOK'
  <1>1. RestTypeOK
    BY DEF ReadsInv, TypeOK, RestTypeOK
  <1>2. CASE EventCommits
    <2>1. LedgerTypeOK'
      BY <1>1, <1>2, LedgerTypeStep DEF EventCommits, RestTypeOK
    <2> QED
      BY <1>1, <1>2, <2>1 DEF EventCommits, RestTypeOK, cli, reconciliation
  <1>3. CASE ReconcileSelect
    BY <1>1, <1>3 DEF ReconcileSelect, Candidates, RestTypeOK, LedgerTypeOK, tables, cli
  <1>4. CASE ReconcileCommit
    <2>1. orders' \in [Orders -> OrderRow]
      BY <1>1, <1>4 DEF ReconcileCommit, RestTypeOK, LedgerTypeOK, OrderRow
    <2>2. reconciled' \subseteq Orders
      BY <1>1, <1>4 DEF ReconcileCommit, Changed, RestTypeOK
    <2> QED
      BY <1>1, <1>4, <2>1, <2>2 DEF ReconcileCommit, RestTypeOK, LedgerTypeOK, cli
  <1>5. CASE ReconcileAborts
    BY <1>1, <1>5 DEF ReconcileAborts, RestTypeOK, LedgerTypeOK, tables, cli
  <1> QED
    BY <1>2, <1>3, <1>4, <1>5

-----------------------------------------------------------------------------
(* The readers, whatever step is taken.                                    *)

(* The list of orders changes with the data version only.                  *)
TableStep ==
    /\ reader' = reader
    /\ dataVersion' \in {dataVersion, dataVersion + 1}
    /\ orders' # orders => dataVersion' = dataVersion + 1

(* Every step but those of a reader and the swap of the table.             *)
LEMMA TableSteps ==
    ASSUME \/ EventCommits
           \/ \E k \in Imports :
                \/ GetImportLock(k) \/ Guard(k) \/ Stage(k) \/ Recheck(k)
                \/ Bump(k) \/ FinishImport(k) \/ ImportRaises(k) \/ ImportDies(k)
           \/ ReconcileSelect \/ ReconcileCommit \/ ReconcileAborts
    PROVE  TableStep
  <1>1. CASE EventCommits
    BY <1>1 DEF EventCommits, LedgerNext, Reject, ApplyCreated, ApplyState, TableStep
  <1>2. ASSUME NEW k \in Imports,
               \/ GetImportLock(k) \/ Guard(k) \/ Stage(k) \/ Recheck(k)
               \/ Bump(k) \/ FinishImport(k) \/ ImportRaises(k) \/ ImportDies(k)
        PROVE  TableStep
    BY <1>2 DEF GetImportLock, Guard, Stage, Recheck, Bump, FinishImport, ImportRaises, ImportDies,
                TableStep, tables
  <1>3. CASE ReconcileSelect \/ ReconcileCommit \/ ReconcileAborts
    BY <1>3 DEF ReconcileSelect, ReconcileCommit, ReconcileAborts, TableStep, tables
  <1> QED
    BY <1>1, <1>2, <1>3

LEMMA ReadsKeptByTableStep ==
    ASSUME ReadsInv, TableStep
    PROVE  (reader \in [Readers -> Reader])' /\ ReadsOK'
  <1>1. reader' = reader /\ reader \in [Readers -> Reader] /\ dataVersion \in Nat
    BY DEF ReadsInv, TypeOK, LedgerTypeOK, TableStep
  <1> SUFFICES ASSUME NEW r \in Readers
               PROVE  ReadOK(reader[r], dataVersion', View')
    BY <1>1 DEF ReadsOK
  <1> DEFINE x == reader[r]
  <1>2. x.version \in Nat /\ ReadOK(x, dataVersion, View)
    BY <1>1 DEF ReadsInv, ReadsOK, Reader
  <1>3. x.pc \in {"next", "assemble"} =>
          x.version <= dataVersion' /\ (~x.torn /\ x.version = dataVersion' => View' = x.taken)
    <2>1. CASE dataVersion' = dataVersion + 1
      BY <1>1, <1>2, <2>1 DEF ReadOK
    <2>2. CASE dataVersion' # dataVersion + 1
      <3>1. dataVersion' = dataVersion /\ View' = View
        BY <2>2, ViewUnchanged DEF TableStep
      <3> QED
        BY <1>2, <3>1 DEF ReadOK
    <2> QED
      BY <2>1, <2>2
  <1> QED
    BY <1>2, <1>3 DEF ReadOK

(* After the swap every read under way is torn.                            *)
LEMMA ReadsKeptByRename ==
    ASSUME ReadsInv, NEW k \in Imports, Rename(k)
    PROVE  (reader \in [Readers -> Reader])' /\ ReadsOK'
  <1>1. ASSUME NEW r \in Readers
        PROVE  reader'[r] \in Reader /\ ReadOK(reader'[r], dataVersion', View')
    <2> DEFINE x == reader[r]
               reading == x.pc \in {"next", "assemble"}
               y == [x EXCEPT !.torn = x.torn \/ reading]
    <2>1. x \in Reader /\ ReadOK(x, dataVersion, View) /\ dataVersion' = dataVersion
      BY DEF ReadsInv, ReadsOK, TypeOK, Rename
    <2>2. reader'[r] = y
      BY DEF Rename
    <2>3. y \in Reader
      BY <2>1 DEF Reader
    <2>4. CASE reading
      <3>1. /\ y.pc = x.pc /\ y.version = x.version /\ y.page = x.page /\ y.total = x.total
            /\ y.torn = TRUE
        BY <2>1, <2>4 DEF Reader
      <3> HIDE DEF y
      <3>2. ReadOK(y, dataVersion', View')
        BY <2>1, <2>4, <3>1 DEF ReadOK
      <3> QED
        BY <2>2, <2>3, <3>2
    <2>5. CASE ~reading
      <3>1. y.pc = x.pc /\ y.taken = x.taken /\ y.torn = x.torn
        BY <2>1, <2>5 DEF Reader
      <3> HIDE DEF y
      <3>2. ReadOK(y, dataVersion', View')
        BY <2>1, <2>5, <3>1 DEF ReadOK
      <3> QED
        BY <2>2, <2>3, <3>2
    <2> QED
      BY <2>4, <2>5
  <1>2. reader' \in [Readers -> Reader]
    BY <1>1 DEF Rename
  <1> QED
    BY <1>1, <1>2 DEF ReadsOK

LEMMA ReadsKeptByReader ==
    ASSUME ReadsInv, NEW r \in Readers, ReaderStep(r)
    PROVE  (reader \in [Readers -> Reader])' /\ ReadsOK' /\ RestTypeOK'
  <1>1. PICK y \in Reader :
          /\ reader' = [reader EXCEPT ![r] = y]
          /\ ReadOK(y, dataVersion, View)
          /\ UNCHANGED <<tables, cli, reconciliation>>
    BY DEF ReaderStep
  <1>2. dataVersion' = dataVersion /\ orders' = orders
    BY <1>1 DEF tables
  <1>3. View' = View
    BY <1>2, ViewUnchanged
  <1>4. reader \in [Readers -> Reader] /\ RestTypeOK
    BY DEF ReadsInv, TypeOK, RestTypeOK
  <1>5. \A q \in Readers : reader'[q] = IF q = r THEN y ELSE reader[q]
    BY <1>1, <1>4
  <1>6. ReadsOK'
    BY <1>1, <1>2, <1>3, <1>5 DEF ReadsInv, ReadsOK
  <1>7. reader' \in [Readers -> Reader]
    BY <1>1, <1>4
  <1>8. RestTypeOK'
    BY <1>1, <1>4 DEF RestTypeOK, LedgerTypeOK, tables, cli, reconciliation
  <1> QED
    BY <1>6, <1>7, <1>8

LEMMA ReadsInvStep == ReadsInv /\ [Next]_vars => ReadsInv'
  <1> SUFFICES ASSUME ReadsInv, [Next]_vars PROVE ReadsInv'
    OBVIOUS
  <1>0. (reader \in [Readers -> Reader])' /\ ReadsOK' /\ RestTypeOK' => ReadsInv'
    BY DEF ReadsInv, TypeOK, RestTypeOK
  <1>1. ASSUME NEW r \in Readers,
               \/ Refresh(r) \/ ChangeView(r) \/ GenerateExport(r)
               \/ BeginRead(r) \/ FirstPage(r) \/ NextPage(r) \/ Assemble(r) \/ RequestFails(r)
        PROVE  ReadsInv'
    BY <1>0, <1>1, ReaderSteps, ReadsKeptByReader
  <1>2. ASSUME NEW k \in Imports, Rename(k) PROVE ReadsInv'
    BY <1>0, <1>2, ImportTypeStep, ReadsKeptByRename
  <1>3. ASSUME NEW k \in Imports,
               \/ GetImportLock(k) \/ Guard(k) \/ Stage(k) \/ Recheck(k)
               \/ Bump(k) \/ FinishImport(k) \/ ImportRaises(k) \/ ImportDies(k)
        PROVE  ReadsInv'
    <2>1. TableStep
      BY <1>3, TableSteps
    <2> QED
      BY <1>0, <1>3, <2>1, ImportTypeStep, ReadsKeptByTableStep
  <1>4. CASE EventCommits \/ ReconcileSelect \/ ReconcileCommit \/ ReconcileAborts
    <2>1. TableStep
      BY <1>4, TableSteps
    <2> QED
      BY <1>0, <1>4, <2>1, OtherTypeStep, ReadsKeptByTableStep
  <1>5. CASE UNCHANGED vars
    <2>1. TableStep
      BY <1>5 DEF vars, tables, TableStep
    <2>2. RestTypeOK'
      BY <1>5 DEF vars, tables, cli, reconciliation, ReadsInv, TypeOK, RestTypeOK, LedgerTypeOK
    <2> QED
      BY <1>0, <2>1, <2>2, ReadsKeptByTableStep
  <1> QED
    BY <1>1, <1>2, <1>3, <1>4, <1>5 DEF Next

(* Readers, imports and the reconciliation keep their types.               *)
THEOREM ReadsTypeCorrect == Spec => []TypeOK
  <1>1. Spec => []ReadsInv
    BY ReadsInvInit, ReadsInvStep, PTL DEF Spec
  <1>2. ReadsInv => TypeOK
    BY DEF ReadsInv
  <1> QED
    BY <1>1, <1>2, PTL

-----------------------------------------------------------------------------
(* The statuses.                                                           *)

(* An order nobody writes stays explained while no processed row goes and  *)
(* no audit row goes.                                                      *)
LEMMA ExplainedKept ==
    ASSUME NEW o \in Orders, Explained(o), orders'[o] = orders[o],
           \A e \in Events : Row(e, PROCESSED) \in ledger => Row(e, PROCESSED) \in ledger',
           reconciled \subseteq reconciled'
    PROVE  Explained(o)'
  BY DEF Explained, ByEvent, ByReconciliation

(* An event explains what it does to its order, also when the creation     *)
(* replays an earlier refund or cancellation.                              *)
LEMMA ExplainedByEvents ==
    ASSUME TypeOK, StatusesAreExplained, EventCommits
    PROVE  StatusesAreExplained'
  <1> SUFFICES ASSUME NEW o \in Orders PROVE Explained(o)'
    BY DEF StatusesAreExplained
  <1>1. Explained(o) /\ orders \in [Orders -> OrderRow] /\ reconciled' = reconciled
    BY DEF StatusesAreExplained, TypeOK, LedgerTypeOK, EventCommits, reconciliation
  <1>2. \A e, f \in Events : Row(e, PROCESSED) # Row(f, REJECTED)
    BY DEF Row
  <1>3. ASSUME NEW e \in Events, NEW replay \in SUBSET Events, ledger' = LedgerAfter(e, replay)
        PROVE  /\ \A f \in Events : Row(f, PROCESSED) \in ledger => Row(f, PROCESSED) \in ledger'
               /\ \A f \in replay \cup {e} : Row(f, PROCESSED) \in ledger'
    BY <1>2, <1>3 DEF LedgerAfter
  <1>4. ASSUME NEW e \in Events, Reject(e) PROVE Explained(o)'
    BY <1>1, <1>4, ExplainedKept DEF Reject
  <1>5. ASSUME NEW e \in Events, ApplyState(e) PROVE Explained(o)'
    <2>1. /\ ledger' = LedgerAfter(e, {})
          /\ orders' = [orders EXCEPT ![e.order] = Transition(orders[e.order], e)]
      BY <1>5 DEF ApplyState
    <2>2. /\ \A f \in Events : Row(f, PROCESSED) \in ledger => Row(f, PROCESSED) \in ledger'
          /\ Row(e, PROCESSED) \in ledger'
      BY <1>3, <2>1
    <2>3. CASE o = e.order
      <3>1. /\ orders'[o].version = e.version
            /\ orders'[o].status = TargetStatus(e.type)
        BY <1>1, <2>1, <2>3, TransitionFields
      <3> QED
        BY <2>2, <2>3, <3>1 DEF Explained, ByEvent
    <2>4. CASE o # e.order
      <3>1. orders'[o] = orders[o]
        BY <1>1, <2>1, <2>4
      <3> QED
        BY <1>1, <2>2, <3>1, ExplainedKept
    <2> QED
      BY <2>3, <2>4
  <1>6. ASSUME NEW e \in Events, ApplyCreated(e) PROVE Explained(o)'
    <2>1. PICK replay \in {{}} \cup {{f} : f \in RejectedStateEvents(e.order)} :
            /\ ledger' = LedgerAfter(e, replay)
            /\ orders' = [orders EXCEPT ![e.order] = CreatedRow(e, replay)]
      BY <1>6 DEF ApplyCreated
    <2>2. replay \in SUBSET Events
      BY <2>1 DEF RejectedStateEvents
    <2>3. /\ \A f \in Events : Row(f, PROCESSED) \in ledger => Row(f, PROCESSED) \in ledger'
          /\ \A f \in replay \cup {e} : Row(f, PROCESSED) \in ledger'
      BY <1>3, <2>1, <2>2
    <2>4. CASE o # e.order
      <3>1. orders'[o] = orders[o]
        BY <1>1, <2>1, <2>4
      <3> QED
        BY <1>1, <2>3, <3>1, ExplainedKept
    <2>5. CASE o = e.order
      <3>1. orders'[o] = CreatedRow(e, replay)
        BY <1>1, <2>1, <2>5
      <3>2. CASE replay = {}
        <4>1. orders'[o].status = ACTIVE
          BY <3>1, <3>2, NewOrderFields DEF CreatedRow
        <4> QED
          BY <4>1 DEF Explained
      <3>3. CASE replay # {}
        <4>1. PICK f \in RejectedStateEvents(e.order) : replay = {f}
          BY <2>1, <3>3
        <4>2. f \in Events /\ f.order = o
          BY <2>5, <4>1 DEF RejectedStateEvents
        <4>3. CreatedRow(e, replay) = Transition(NewOrder(e), f)
          BY <4>1, <4>2, RowsWritten
        <4>4. orders'[o].version = f.version /\ orders'[o].status = TargetStatus(f.type)
          BY <3>1, <4>3, TransitionFields
        <4>5. Row(f, PROCESSED) \in ledger'
          BY <2>3, <4>1
        <4> QED
          BY <4>2, <4>4, <4>5 DEF Explained, ByEvent
      <3> QED
        BY <3>2, <3>3
    <2> QED
      BY <2>4, <2>5
  <1> QED
    BY <1>4, <1>5, <1>6 DEF EventCommits, LedgerNext

(* The reconciliation writes an audit row for what it changes, and changes *)
(* no order an event has touched since.                                    *)
LEMMA ExplainedByReconciliation ==
    ASSUME TypeOK, StatusesAreExplained, ReconcileCommit
    PROVE  StatusesAreExplained'
  <1> SUFFICES ASSUME NEW o \in Orders PROVE Explained(o)'
    BY DEF StatusesAreExplained
  <1>1. /\ Explained(o) /\ orders \in [Orders -> OrderRow]
        /\ ledger' = ledger /\ reconciled' = reconciled \cup Changed
        /\ orders'[o] = IF o \in Changed THEN [orders[o] EXCEPT !.status = REFUNDED] ELSE orders[o]
    BY DEF StatusesAreExplained, TypeOK, LedgerTypeOK, ReconcileCommit
  <1>2. CASE o \in Changed
    <2>1. orders[o] \in OrderRow /\ orders[o].version = 0
      BY <1>1, <1>2 DEF Changed, Untouched
    <2>2. orders'[o].status = REFUNDED /\ orders'[o].version = 0
      BY <1>1, <1>2, <2>1 DEF OrderRow
    <2> QED
      BY <1>1, <1>2, <2>2 DEF Explained, ByReconciliation
  <1>3. CASE o \notin Changed
    <2>1. orders'[o] = orders[o]
      BY <1>1, <1>3
    <2> QED
      BY <1>1, <2>1, ExplainedKept
  <1> QED
    BY <1>2, <1>3

(* No refund or cancellation without its event or its audit row, whatever  *)
(* the import, the reconciliation and the events do in between.            *)
THEOREM StatusesExplained == Spec => []StatusesAreExplained
  <1>1. Init => StatusesAreExplained
    BY DEF Init, LedgerInit, SnapshotRow, NoOrder, StatusesAreExplained, Explained
  <1>2. TypeOK /\ StatusesAreExplained /\ [Next]_vars => StatusesAreExplained'
    <2> SUFFICES ASSUME TypeOK, StatusesAreExplained, [Next]_vars PROVE StatusesAreExplained'
      OBVIOUS
    <2>0. ASSUME orders' = orders, ledger' = ledger, reconciled' = reconciled
          PROVE  StatusesAreExplained'
      BY <2>0, ExplainedKept DEF StatusesAreExplained
    <2>1. ASSUME NEW r \in Readers,
                 \/ Refresh(r) \/ ChangeView(r) \/ GenerateExport(r)
                 \/ BeginRead(r) \/ FirstPage(r) \/ NextPage(r) \/ Assemble(r) \/ RequestFails(r)
          PROVE  StatusesAreExplained'
      BY <2>0, <2>1 DEF Refresh, ChangeView, GenerateExport, BeginRead, FirstPage, NextPage,
                        Assemble, RequestFails, tables, reconciliation
    <2>2. ASSUME NEW k \in Imports, Rename(k) PROVE StatusesAreExplained'
      BY <2>2, CsvRows DEF Rename, StatusesAreExplained, Explained
    <2>3. ASSUME NEW k \in Imports,
                 \/ GetImportLock(k) \/ Guard(k) \/ Stage(k) \/ Recheck(k)
                 \/ Bump(k) \/ FinishImport(k) \/ ImportRaises(k) \/ ImportDies(k)
          PROVE  StatusesAreExplained'
      BY <2>0, <2>3 DEF GetImportLock, Guard, Stage, Recheck, Bump, FinishImport, ImportRaises,
                        ImportDies, tables, reconciliation
    <2>4. CASE ReconcileSelect \/ ReconcileAborts
      BY <2>0, <2>4 DEF ReconcileSelect, ReconcileAborts, tables
    <2>5. CASE UNCHANGED vars
      BY <2>0, <2>5 DEF vars, tables, reconciliation
    <2> QED
      BY <2>1, <2>2, <2>3, <2>4, <2>5, ExplainedByEvents, ExplainedByReconciliation DEF Next
  <1> QED
    BY <1>1, <1>2, ReadsTypeCorrect, PTL DEF Spec

-----------------------------------------------------------------------------
(* The refinement.                                                         *)

LEMMA SnapshotsInit == Init => Snapshots!SnapshotInit
  <1> SUFFICES ASSUME Init PROVE Snapshots!SnapshotInit
    OBVIOUS
  <1>1. \A r \in Readers : /\ Phase(reader[r].pc) = "idle" /\ reader[r].taken = <<>>
                           /\ reader[r].torn = FALSE /\ reader[r].result = <<>>
    BY DEF Init, Phase
  <1>2. dataVersion \in Nat
    BY DEF Init, LedgerInit
  <1> QED
    BY <1>1, <1>2, ViewIsList DEF Snapshots!SnapshotInit

(* A step of a reader is one of OrderSnapshots, or none.                   *)
LEMMA ReaderRefines ==
    ASSUME ReadsInv, NEW r \in Readers, ReaderStep(r)
    PROVE  [Snapshots!SnapshotNext]_(Snapshots!snapshotVars)
  <1> DEFINE phase  == [q \in Readers |-> Phase(reader[q].pc)]
             taken  == [q \in Readers |-> reader[q].taken]
             torn   == [q \in Readers |-> reader[q].torn]
             result == [q \in Readers |-> reader[q].result]
             x == reader[r]
  <1>1. PICK y \in Reader :
          /\ reader' = [reader EXCEPT ![r] = y]
          /\ Reads(x, y, View)
          /\ UNCHANGED <<tables, cli, reconciliation>>
    BY DEF ReaderStep
  <1>2. dataVersion' = dataVersion /\ orders' = orders
    BY <1>1 DEF tables
  <1>3. View' = View
    BY <1>2, ViewUnchanged
  <1>4. reader \in [Readers -> Reader]
    BY DEF ReadsInv, TypeOK
  <1>5. \A q \in Readers : reader'[q] = IF q = r THEN y ELSE reader[q]
    BY <1>1, <1>4
  <1>6. /\ phase'  = [phase EXCEPT ![r] = Phase(y.pc)]
        /\ taken'  = [taken EXCEPT ![r] = y.taken]
        /\ torn'   = [torn EXCEPT ![r] = y.torn]
        /\ result' = [result EXCEPT ![r] = y.result]
    BY <1>5
  <1>7. CASE Idles(x, y)
    <2>1. UNCHANGED <<phase, taken, torn, result>>
      BY <1>6, <1>7 DEF Idles
    <2> QED
      BY <1>2, <1>3, <2>1 DEF Snapshots!snapshotVars
  <1>8. CASE Begins(x, y)
    <2>1. Snapshots!Begin(r)
      BY <1>2, <1>3, <1>6, <1>8 DEF Begins, Snapshots!Begin, Snapshots!Forget
    <2> QED
      BY <2>1 DEF Snapshots!SnapshotNext
  <1>9. CASE Takes(x, y, View)
    <2>1. Snapshots!Take(r)
      BY <1>2, <1>3, <1>6, <1>9 DEF Takes, Snapshots!Take
    <2> QED
      BY <2>1 DEF Snapshots!SnapshotNext
  <1>10. CASE Delivers(x, y)
    <2>1. Snapshots!Deliver(r)
      BY <1>2, <1>3, <1>6, <1>10 DEF Delivers, Snapshots!Deliver, Snapshots!Forget
    <2> QED
      BY <2>1 DEF Snapshots!SnapshotNext
  <1>11. CASE GivesUp(x, y)
    <2>1. Snapshots!GiveUp(r)
      BY <1>2, <1>3, <1>6, <1>11 DEF GivesUp, Snapshots!GiveUp, Snapshots!Forget
    <2> QED
      BY <2>1 DEF Snapshots!SnapshotNext
  <1> QED
    BY <1>1, <1>7, <1>8, <1>9, <1>10, <1>11 DEF Reads

(* The list changes with its version.                                      *)
LEMMA TableRefines ==
    ASSUME TableStep
    PROVE  [Snapshots!SnapshotNext]_(Snapshots!snapshotVars)
  <1>1. reader' = reader
    BY DEF TableStep
  <1>2. CASE dataVersion' = dataVersion + 1
    <2>1. View' \in Lists
      BY NextViewIsList
    <2>2. Snapshots!Change
      BY <1>1, <1>2, <2>1 DEF Snapshots!Change
    <2> QED
      BY <2>2 DEF Snapshots!SnapshotNext
  <1>3. CASE dataVersion' # dataVersion + 1
    <2>1. dataVersion' = dataVersion /\ View' = View
      BY <1>3, ViewUnchanged DEF TableStep
    <2> QED
      BY <1>1, <2>1 DEF Snapshots!snapshotVars
  <1> QED
    BY <1>2, <1>3

(* The swap.                                                               *)
LEMMA RenameRefines ==
    ASSUME ReadsInv, NEW k \in Imports, Rename(k)
    PROVE  [Snapshots!SnapshotNext]_(Snapshots!snapshotVars)
  <1>1. View' \in Lists
    BY NextViewIsList
  <1>2. ASSUME NEW r \in Readers
        PROVE  /\ reader'[r].pc = reader[r].pc /\ reader'[r].taken = reader[r].taken
               /\ reader'[r].result = reader[r].result
               /\ reader'[r].torn = (reader[r].torn \/ Phase(reader[r].pc) = "reading")
    <2>1. reader[r] \in Reader
      BY DEF ReadsInv, TypeOK
    <2>2. reader'[r] = [reader[r] EXCEPT !.torn = reader[r].torn \/ reader[r].pc \in {"next", "assemble"}]
      BY DEF Rename
    <2>3. Phase(reader[r].pc) = "reading" <=> reader[r].pc \in {"next", "assemble"}
      BY <2>1 DEF Phase, Reader
    <2> QED
      BY <2>1, <2>2, <2>3 DEF Reader
  <1>3. dataVersion' = dataVersion
    BY DEF Rename
  <1>4. Snapshots!Swap
    BY <1>1, <1>2, <1>3 DEF Snapshots!Swap
  <1> QED
    BY <1>4 DEF Snapshots!SnapshotNext

LEMMA SnapshotsStep == ReadsInv /\ [Next]_vars => [Snapshots!SnapshotNext]_(Snapshots!snapshotVars)
  <1> SUFFICES ASSUME ReadsInv, [Next]_vars
               PROVE  [Snapshots!SnapshotNext]_(Snapshots!snapshotVars)
    OBVIOUS
  <1>1. ASSUME NEW r \in Readers,
               \/ Refresh(r) \/ ChangeView(r) \/ GenerateExport(r)
               \/ BeginRead(r) \/ FirstPage(r) \/ NextPage(r) \/ Assemble(r) \/ RequestFails(r)
        PROVE  [Snapshots!SnapshotNext]_(Snapshots!snapshotVars)
    BY <1>1, ReaderSteps, ReaderRefines
  <1>2. ASSUME NEW k \in Imports, Rename(k)
        PROVE  [Snapshots!SnapshotNext]_(Snapshots!snapshotVars)
    BY <1>2, RenameRefines
  <1>3. ASSUME TableStep PROVE [Snapshots!SnapshotNext]_(Snapshots!snapshotVars)
    BY <1>3, TableRefines
  <1>4. CASE UNCHANGED vars
    <2>1. TableStep
      BY <1>4 DEF vars, tables, TableStep
    <2> QED
      BY <1>3, <2>1
  <1> QED
    BY <1>1, <1>2, <1>3, <1>4, TableSteps DEF Next

(* Whatever is committed between its pages, a dashboard gets the orders of *)
(* one moment or an error, unless the CLI swaps the table meanwhile.       *)
THEOREM SnapshotReads == Spec => ReadsAreSnapshots
  <1>1. Spec => []ReadsInv
    BY ReadsInvInit, ReadsInvStep, PTL DEF Spec
  <1> QED
    BY <1>1, SnapshotsInit, SnapshotsStep, PTL DEF Spec, ReadsAreSnapshots, Snapshots!SnapshotSpec

-----------------------------------------------------------------------------
(* Sums over sets.  MapThenSumSet takes one element after the other; what  *)
(* it is for a set is said by a function on the subsets of the set.        *)

Total(val, S) == F!MapThenSumSet(LAMBDA x : val[x], S)

Taken(s) == CHOOSE x \in s : TRUE

Adds(f, val, D) ==
    f = [s \in D |-> IF s = {} THEN 0 ELSE val[Taken(s)] + f[s \ {Taken(s)}]]

Small(S, n) == {s \in SUBSET S : Cardinality(s) <= n}

LEMMA OneLess ==
    ASSUME NEW S, IsFiniteSet(S), NEW s \in SUBSET S
    PROVE  /\ IsFiniteSet(s) /\ Cardinality(s) \in Nat
           /\ s # {} => Taken(s) \in s
           /\ \A x \in s : /\ s \ {x} \in SUBSET S /\ IsFiniteSet(s \ {x})
                           /\ Cardinality(s \ {x}) \in Nat
                           /\ Cardinality(s) = Cardinality(s \ {x}) + 1
           /\ Cardinality(s) = 0 <=> s = {}
  <1>1. IsFiniteSet(s) /\ Cardinality(s) \in Nat
    BY FS_Subset, FS_CardinalityType
  <1>2. s # {} => Taken(s) \in s
    BY DEF Taken
  <1>3. ASSUME NEW x \in s
        PROVE  /\ IsFiniteSet(s \ {x}) /\ Cardinality(s \ {x}) \in Nat
               /\ Cardinality(s) = Cardinality(s \ {x}) + 1
    <2>1. IsFiniteSet(s \ {x}) /\ Cardinality(s \ {x}) = Cardinality(s) - 1
      BY <1>1, <1>3, FS_RemoveElement
    <2>2. Cardinality(s \ {x}) \in Nat
      BY <2>1, FS_CardinalityType
    <2> QED
      BY <1>1, <2>1, <2>2
  <1>4. Cardinality(s) = 0 <=> s = {}
    BY <1>1, FS_EmptySet
  <1> QED
    BY <1>1, <1>2, <1>3, <1>4

(* There is such a function: it can be extended to sets of one more.       *)
LEMMA AddsExist ==
    ASSUME NEW val, NEW S, IsFiniteSet(S)
    PROVE  \E f : Adds(f, val, SUBSET S)
  <1> DEFINE T == {n \in Nat : \E f : Adds(f, val, Small(S, n))}
  <1>1. 0 \in T
    <2> DEFINE f == [s \in Small(S, 0) |-> 0]
    <2>1. \A s \in Small(S, 0) : s = {}
      BY OneLess DEF Small
    <2>2. Adds(f, val, Small(S, 0))
      BY <2>1 DEF Adds
    <2> QED
      BY <2>2
  <1>2. ASSUME NEW n \in Nat, n \in T PROVE n + 1 \in T
    <2>1. PICK f : Adds(f, val, Small(S, n))
      BY <1>2
    <2> DEFINE of(s) == IF s = {} THEN 0 ELSE val[Taken(s)] + f[s \ {Taken(s)}]
               g == [s \in Small(S, n + 1) |-> of(s)]
    <2>2. \A s \in Small(S, n) : s \in Small(S, n + 1) /\ f[s] = of(s)
      <3>1. ASSUME NEW s \in Small(S, n) PROVE s \in Small(S, n + 1)
        <4>1. s \in SUBSET S /\ Cardinality(s) \in Nat /\ Cardinality(s) <= n
          BY OneLess DEF Small
        <4>2. Cardinality(s) <= n + 1
          BY <4>1
        <4> QED
          BY <4>1, <4>2 DEF Small
      <3> QED
        BY <2>1, <3>1 DEF Adds
    <2>3. \A s \in Small(S, n) : g[s] = f[s]
      BY <2>2
    <2>4. \A s \in Small(S, n + 1) : g[s] = of(s)
      OBVIOUS
    <2>5. g = [s \in Small(S, n + 1) |-> g[s]]
      OBVIOUS
    <2> HIDE DEF g
    <2>6. ASSUME NEW s \in Small(S, n + 1)
          PROVE  g[s] = IF s = {} THEN 0 ELSE val[Taken(s)] + g[s \ {Taken(s)}]
      <3>1. CASE s = {}
        BY <2>4, <3>1
      <3>2. CASE s # {}
        <4>1. s \in SUBSET S /\ Cardinality(s) <= n + 1
          BY DEF Small
        <4>2. /\ s \ {Taken(s)} \in SUBSET S
              /\ Cardinality(s \ {Taken(s)}) \in Nat
              /\ Cardinality(s) = Cardinality(s \ {Taken(s)}) + 1
          BY <3>2, <4>1, OneLess
        <4>3. Cardinality(s \ {Taken(s)}) <= n
          BY <4>1, <4>2
        <4>4. s \ {Taken(s)} \in Small(S, n)
          BY <4>2, <4>3 DEF Small
        <4> QED
          BY <2>3, <2>4, <3>2, <4>4
      <3> QED
        BY <3>1, <3>2
    <2>7. Adds(g, val, Small(S, n + 1))
      BY <2>5, <2>6, Zenon DEF Adds
    <2> QED
      BY <2>7
  <1> HIDE DEF T
  <1>3. Nat \subseteq T
    BY <1>1, <1>2, Induction
  <1> USE DEF T
  <1>4. Cardinality(S) \in Nat
    BY FS_CardinalityType
  <1>5. Small(S, Cardinality(S)) = SUBSET S
    BY FS_Subset DEF Small
  <1> QED
    BY <1>3, <1>4, <1>5

LEMMA TotalAdds ==
    ASSUME NEW val, NEW S, IsFiniteSet(S)
    PROVE  \E f : Adds(f, val, SUBSET S) /\ Total(val, S) = f[S]
  <1> DEFINE f == CHOOSE f : Adds(f, val, SUBSET S)
  <1>1. Adds(f, val, SUBSET S)
    BY AddsExist
  <1>2. Total(val, S) = f[S]
    BY DEF Total, F!MapThenSumSet, F!MapThenFoldSet, Adds, Taken
  <1> QED
    BY <1>1, <1>2

LEMMA AddsInts ==
    ASSUME NEW val, NEW S, IsFiniteSet(S), \A x \in S : val[x] \in Int,
           NEW f, Adds(f, val, SUBSET S)
    PROVE  \A s \in SUBSET S : f[s] \in Int
  <1> DEFINE T == {n \in Nat : \A s \in SUBSET S : Cardinality(s) = n => f[s] \in Int}
  <1>0. \A s \in SUBSET S : f[s] = IF s = {} THEN 0 ELSE val[Taken(s)] + f[s \ {Taken(s)}]
    BY DEF Adds
  <1>1. 0 \in T
    BY <1>0, OneLess
  <1>2. ASSUME NEW n \in Nat, n \in T PROVE n + 1 \in T
    <2> SUFFICES ASSUME NEW s \in SUBSET S, Cardinality(s) = n + 1 PROVE f[s] \in Int
      OBVIOUS
    <2>0. Cardinality(s) = n + 1
      OBVIOUS
    <2>1. s # {}
      BY OneLess
    <2>2. Taken(s) \in s /\ s \ {Taken(s)} \in SUBSET S /\ Cardinality(s \ {Taken(s)}) = n
      <3>1. Taken(s) \in s
        BY <2>1, OneLess
      <3>2. /\ Cardinality(s \ {Taken(s)}) \in Nat
            /\ Cardinality(s) = Cardinality(s \ {Taken(s)}) + 1
        BY <3>1, OneLess
      <3> QED
        BY <2>0, <3>1, <3>2
    <2>3. f[s \ {Taken(s)}] \in Int /\ val[Taken(s)] \in Int
      BY <1>2, <2>2
    <2> QED
      BY <1>0, <2>1, <2>3
  <1> HIDE DEF T
  <1>3. Nat \subseteq T
    BY <1>1, <1>2, Induction
  <1> USE DEF T
  <1> QED
    BY <1>3, OneLess

Numbers(val, S) == \A x \in S : val[x] \in Int

Orderless(f, val, S) ==
    \A s \in SUBSET S : f[s] \in Int /\ \A x \in s : f[s] = val[x] + f[s \ {x}]

(* Whichever element is taken first, the sum is the same.                  *)
LEMMA AnyFirst ==
    ASSUME NEW val, NEW S, IsFiniteSet(S), Numbers(val, S), NEW f, Adds(f, val, SUBSET S)
    PROVE  Orderless(f, val, S)
  <1> USE DEF Numbers
  <1> DEFINE Fine(s) == f[s] \in Int /\ \A x \in s : f[s] = val[x] + f[s \ {x}]
             T == {n \in Nat : \A s \in SUBSET S : Cardinality(s) = n => Fine(s)}
  <1>0. \A s \in SUBSET S : f[s] = IF s = {} THEN 0 ELSE val[Taken(s)] + f[s \ {Taken(s)}]
    BY DEF Adds
  <1>1. 0 \in T
    <2>1. ASSUME NEW s \in SUBSET S, Cardinality(s) = 0 PROVE Fine(s)
      <3>1. s = {}
        BY <2>1, OneLess
      <3> QED
        BY <1>0, <3>1
    <2> QED
      BY <2>1
  <1>2. ASSUME NEW n \in Nat, n \in T PROVE n + 1 \in T
    <2> SUFFICES ASSUME NEW s \in SUBSET S, Cardinality(s) = n + 1 PROVE Fine(s)
      OBVIOUS
    <2> DEFINE p == Taken(s)
    <2>1. /\ Cardinality(s) \in Nat /\ s # {} /\ p \in s
          /\ \A x \in s : s \ {x} \in SUBSET S /\ Cardinality(s \ {x}) = n
      <3>1. s # {}
        BY OneLess
      <3> QED
        BY <3>1, OneLess
    <2>2. \A x \in s : Fine(s \ {x})
      BY <1>2, <2>1
    <2>3. f[s] = val[p] + f[s \ {p}]
      BY <1>0, <2>1
    <2> HIDE DEF p, T
    <2>4. f[s] \in Int
      BY <2>1, <2>2, <2>3
    <2>5. ASSUME NEW x \in s, x # p PROVE f[s] = val[x] + f[s \ {x}]
      <3> DEFINE rest == s \ {p, x}
      <3>1. (s \ {p}) \ {x} = rest /\ (s \ {x}) \ {p} = rest /\ x \in s \ {p} /\ p \in s \ {x}
        BY <2>1, <2>5
      <3>2. f[s \ {p}] = val[x] + f[rest] /\ f[s \ {x}] = val[p] + f[rest]
        BY <2>1, <2>2, <3>1
      <3>3. rest \in SUBSET S /\ x \in S /\ p \in S
        BY <2>1
      <3>4. f[rest] \in Int
        BY <3>3, AddsInts
      <3>5. val[x] \in Int /\ val[p] \in Int
        BY <3>3
      <3> HIDE DEF rest
      <3>6. val[p] + (val[x] + f[rest]) = val[x] + (val[p] + f[rest])
        BY <3>4, <3>5
      <3> QED
        BY <2>3, <3>2, <3>6
    <2> QED
      BY <2>3, <2>4, <2>5
  <1> HIDE DEF T
  <1>3. Nat \subseteq T
    BY <1>1, <1>2, Induction
  <1> USE DEF T
  <1> QED
    BY <1>3, OneLess DEF Orderless

(* A sum over the values of g, each taken once, is the sum over where they *)
(* come from.                                                              *)
LEMMA TotalOver ==
    ASSUME NEW S, IsFiniteSet(S), NEW T, IsFiniteSet(T), NEW val, NEW wal, NEW g,
           \A x \in T : val[x] \in Int,
           \A x \in S : g[x] \in T /\ wal[x] = val[g[x]],
           \A x, y \in S : g[x] = g[y] => x = y
    PROVE  Total(wal, S) = Total(val, {g[x] : x \in S})
  <1> DEFINE G(s) == {g[x] : x \in s}
  <1>1. PICK f : Adds(f, wal, SUBSET S) /\ Total(wal, S) = f[S]
    BY TotalAdds
  <1>2. PICK h : Adds(h, val, SUBSET G(S)) /\ Total(val, G(S)) = h[G(S)]
    <2>1. G(S) \in SUBSET T
      OBVIOUS
    <2>2. IsFiniteSet(G(S))
      BY <2>1, FS_Subset
    <2> QED
      BY <2>2, TotalAdds
  <1>3. IsFiniteSet(G(S)) /\ Numbers(val, G(S))
    <2>1. G(S) \in SUBSET T
      OBVIOUS
    <2>2. IsFiniteSet(G(S))
      BY <2>1, FS_Subset
    <2> HIDE DEF G
    <2> QED
      BY <2>1, <2>2 DEF Numbers
  <1>4. \A s \in SUBSET G(S) : \A x \in s : h[s] = val[x] + h[s \ {x}]
    <2>1. Orderless(h, val, G(S))
      BY <1>2, <1>3, AnyFirst
    <2> QED
      BY <2>1 DEF Orderless
  <1> DEFINE Q == {n \in Nat : \A s \in SUBSET S : Cardinality(s) = n => f[s] = h[G(s)]}
  <1>5. /\ \A s \in SUBSET S : f[s] = IF s = {} THEN 0 ELSE wal[Taken(s)] + f[s \ {Taken(s)}]
        /\ h[{}] = 0
    BY <1>1, <1>2 DEF Adds
  <1>6. 0 \in Q
    <2>1. ASSUME NEW s \in SUBSET S, Cardinality(s) = 0 PROVE f[s] = h[G(s)]
      <3>1. s = {} /\ G(s) = {}
        BY <2>1, OneLess
      <3> QED
        BY <1>5, <3>1
    <2> QED
      BY <2>1
  <1>7. ASSUME NEW n \in Nat, n \in Q PROVE n + 1 \in Q
    <2> SUFFICES ASSUME NEW s \in SUBSET S, Cardinality(s) = n + 1 PROVE f[s] = h[G(s)]
      OBVIOUS
    <2> DEFINE p == Taken(s)
               r == s \ {p}
    <2>0. Cardinality(s) = n + 1
      OBVIOUS
    <2>1. s # {}
      BY OneLess
    <2>2. p \in s /\ r \in SUBSET S
      BY <2>1, OneLess
    <2>3. Cardinality(r) = n
      <3>1. Cardinality(r) \in Nat /\ Cardinality(s) = Cardinality(r) + 1
        BY <2>2, OneLess
      <3> QED
        BY <2>0, <3>1
    <2>4. f[r] = h[G(r)]
      BY <1>7, <2>2, <2>3
    <2>5. f[s] = wal[p] + f[r]
      BY <1>5, <2>1
    <2> HIDE DEF p, Q
    <2>6. G(s) \in SUBSET G(S) /\ g[p] \in G(s) /\ G(s) \ {g[p]} = G(r)
      BY <2>2
    <2>7. h[G(s)] = val[g[p]] + h[G(r)]
      BY <1>4, <2>6
    <2>8. wal[p] = val[g[p]]
      BY <2>2
    <2> QED
      BY <2>4, <2>5, <2>7, <2>8
  <1> HIDE DEF Q
  <1>8. Nat \subseteq Q
    BY <1>6, <1>7, Induction
  <1> USE DEF Q
  <1>9. f[S] = h[G(S)]
    BY <1>8, FS_CardinalityType
  <1> QED
    BY <1>1, <1>2, <1>9

(* The sum depends on the values alone.                                    *)
LEMMA TotalOfValues ==
    ASSUME NEW S, IsFiniteSet(S), NEW val, NEW wal,
           \A x \in S : val[x] \in Int /\ wal[x] = val[x]
    PROVE  Total(wal, S) = Total(val, S)
  <1> DEFINE g == [x \in S |-> x]
  <1>1. \A x \in S : g[x] = x
    OBVIOUS
  <1> HIDE DEF g
  <1>2. Total(wal, S) = Total(val, {g[x] : x \in S})
    BY <1>1, TotalOver
  <1>3. {g[x] : x \in S} = S
    BY <1>1
  <1> QED
    BY <1>2, <1>3

-----------------------------------------------------------------------------
(* The figures of rows and those of orders.                                *)

LEMMA OrdersAreFinite == IsFiniteSet(Orders)
  <1>1. Listing \in [1..Len(Listing) -> Orders] /\ Len(Listing) \in Nat
    BY ListingAssumption
  <1>2. \A o \in Orders : \E i \in 1..Len(Listing) : Listing[i] = o
    BY ListingAssumption
  <1>3. Listing \in Surjection(1..Len(Listing), Orders)
    BY <1>1, <1>2 DEF Surjection
  <1>4. IsFiniteSet(1..Len(Listing))
    BY <1>1, FS_Interval
  <1> QED
    BY <1>3, <1>4, FS_Surjection

(* list has each order of S once and no other.                             *)
ListsAll(list, S) ==
    /\ list \in Seq(Orders)
    /\ \A i, j \in DOMAIN list : list[i] = list[j] => i = j
    /\ \A i \in DOMAIN list : list[i] \in S
    /\ \A o \in S : \E i \in DOMAIN list : list[i] = o

LEMMA ListOfListsAll ==
    ASSUME NEW S \in SUBSET Orders
    PROVE  ListsAll(ListOf[S], S)
  BY ListOfOrders DEF ListsAll

LEMMA RowsAreFinite ==
    ASSUME NEW list \in Seq(Orders), NEW group \in SUBSET (DOMAIN list)
    PROVE  IsFiniteSet(group) /\ {list[i] : i \in group} \in SUBSET Orders
  <1>1. DOMAIN list = 1..Len(list) /\ Len(list) \in Nat
    OBVIOUS
  <1>2. IsFiniteSet(DOMAIN list)
    BY <1>1, FS_Interval
  <1>3. IsFiniteSet(group)
    BY <1>2, FS_Subset
  <1> QED
    BY <1>1, <1>3

(* Amounts of rows add up to those of their orders: no order is there twice*)
LEMMA RowsAddUp ==
    ASSUME NEW S, NEW list, ListsAll(list, S), NEW group \in SUBSET (DOMAIN list)
    PROVE  F!MapThenSumSet(LAMBDA i : PaidOf[list[i]], group) = Amount({list[i] : i \in group})
  <1> DEFINE paid == [i \in group |-> PaidOf[list[i]]]
  <1>1. F!MapThenSumSet(LAMBDA i : PaidOf[list[i]], group) = Total(paid, group)
    BY DEF Total, F!MapThenSumSet, F!MapThenFoldSet
  <1>2. Amount({list[i] : i \in group}) = Total(PaidOf, {list[i] : i \in group})
    BY DEF Total, Amount
  <1>3. IsFiniteSet(group)
    BY RowsAreFinite DEF ListsAll
  <1>4. \A i \in group : paid[i] = PaidOf[list[i]] /\ list[i] \in Orders
    BY DEF ListsAll
  <1>5. \A o \in Orders : PaidOf[o] \in Int
    BY ColumnsAssumption
  <1>6. \A i, j \in group : list[i] = list[j] => i = j
    BY DEF ListsAll
  <1> HIDE DEF paid
  <1>7. Total(paid, group) = Total(PaidOf, {list[i] : i \in group})
    BY <1>3, <1>4, <1>5, <1>6, OrdersAreFinite, TotalOver
  <1> QED
    BY <1>1, <1>2, <1>7

LEMMA RowsAreOrders ==
    ASSUME NEW S, NEW list, ListsAll(list, S), NEW group \in SUBSET (DOMAIN list)
    PROVE  RowFigures(list, group) = Figures({list[i] : i \in group})
  BY RowsAddUp DEF RowFigures, Figures

LEMMA RowsOfOrders ==
    ASSUME NEW S, NEW list, ListsAll(list, S), NEW P \in SUBSET S
    PROVE  {list[i] : i \in {j \in DOMAIN list : list[j] \in P}} = P
  BY DEF ListsAll

(* SQL and data frame measure the customers alike, if they tell them apart *)
(* alike.                                                                  *)
LEMMA SameMeasures ==
    ASSUME NEW S, NEW list, ListsAll(list, S), NEW day,
           NEW names, \A o \in S : names[o] = CustomerOf[o]
    PROVE  FrameMeasures(list, names, day) = SqlMeasures(S, day)
  <1> DEFINE rows == {i \in DOMAIN list : Counts(names, list[i], day)}
             counted == {o \in S : Counts(CustomerOf, o, day)}
             rowsOf(u) == {i \in rows : names[list[i]] = u}
             of(u) == {o \in counted : CustomerOf[o] = u}
             frame(u) == [recency   |-> day - F!Max({DayOf[list[i]] : i \in rowsOf(u)}),
                          frequency |-> Cardinality({list[i] : i \in rowsOf(u)}),
                          monetary  |-> F!MapThenSumSet(LAMBDA i : PaidOf[list[i]], rowsOf(u))]
             sql(u) == [recency   |-> day - F!Max({DayOf[o] : o \in of(u)}),
                        frequency |-> Cardinality(of(u)),
                        monetary  |-> F!MapThenSumSet(LAMBDA o : PaidOf[o], of(u))]
  <1>0. \A i \in DOMAIN list : list[i] \in S
    BY DEF ListsAll
  <1>1. rows = {i \in DOMAIN list : list[i] \in counted}
    BY <1>0 DEF Counts
  <1>2. {list[i] : i \in rows} = counted
    BY <1>1, RowsOfOrders
  <1>3. {names[list[i]] : i \in rows} = {CustomerOf[o] : o \in counted}
    BY <1>0, <1>2
  <1>4. ASSUME NEW u PROVE frame(u) = sql(u)
    <2> DEFINE R == rowsOf(u)
               O == of(u)
    <2>1. R = {i \in DOMAIN list : list[i] \in O}
      BY <1>0, <1>1
    <2>2. R \in SUBSET (DOMAIN list) /\ {list[i] : i \in R} = O
      BY <2>1, RowsOfOrders
    <2> HIDE DEF R, O
    <2>3. {DayOf[list[i]] : i \in R} = {DayOf[o] : o \in O}
      BY <2>2
    <2>4. F!MapThenSumSet(LAMBDA i : PaidOf[list[i]], R) = Amount(O)
      BY <2>2, RowsAddUp
    <2>5. Amount(O) = F!MapThenSumSet(LAMBDA o : PaidOf[o], O)
      BY DEF Amount
    <2>6. [recency   |-> day - F!Max({DayOf[list[i]] : i \in R}),
           frequency |-> Cardinality({list[i] : i \in R}),
           monetary  |-> F!MapThenSumSet(LAMBDA i : PaidOf[list[i]], R)]
          = [recency   |-> day - F!Max({DayOf[o] : o \in O}),
             frequency |-> Cardinality(O),
             monetary  |-> F!MapThenSumSet(LAMBDA o : PaidOf[o], O)]
      BY <2>2, <2>3, <2>4, <2>5
    <2> QED
      BY <2>6 DEF R, O
  <1>5. FrameMeasures(list, names, day) = [u \in {names[list[i]] : i \in rows} |-> frame(u)]
    BY DEF FrameMeasures
  <1>6. SqlMeasures(S, day) = [u \in {CustomerOf[o] : o \in counted} |-> sql(u)]
    BY DEF SqlMeasures
  <1> HIDE DEF frame, sql, rows, counted
  <1> QED
    BY <1>3, <1>4, <1>5, <1>6

(* Rows by a column, and orders by the same one.                           *)
OrdersBy(of, P) == [x \in {of[o] : o \in P} |-> Figures({o \in P : of[o] = x})]

RowsBy(list, of, shown) ==
    [x \in {of[list[i]] : i \in shown} |-> RowFigures(list, {i \in shown : of[list[i]] = x})]

LEMMA RowsByColumn ==
    ASSUME NEW S, NEW list, ListsAll(list, S), NEW P \in SUBSET S, NEW of,
           NEW shown, shown = {i \in DOMAIN list : list[i] \in P}
    PROVE  RowsBy(list, of, shown) = OrdersBy(of, P)
  <1>1. {list[i] : i \in shown} = P
    BY RowsOfOrders
  <1>2. {of[list[i]] : i \in shown} = {of[o] : o \in P}
    BY <1>1
  <1>3. ASSUME NEW x
        PROVE  RowFigures(list, {i \in shown : of[list[i]] = x}) = Figures({o \in P : of[o] = x})
    <2> DEFINE O == {o \in P : of[o] = x}
               R == {i \in shown : of[list[i]] = x}
    <2>1. R = {i \in DOMAIN list : list[i] \in O}
      OBVIOUS
    <2>2. O \in SUBSET S
      OBVIOUS
    <2> HIDE DEF O
    <2>3. {list[i] : i \in R} = O /\ R \in SUBSET (DOMAIN list)
      BY <2>1, <2>2, RowsOfOrders
    <2> HIDE DEF R
    <2>4. RowFigures(list, R) = Figures(O)
      BY <2>3, RowsAreOrders
    <2> QED
      BY <2>4 DEF O, R
  <1> QED
    BY <1>2, <1>3 DEF OrdersBy, RowsBy

(* The page of the sales, from the orders of its days.                     *)
Shows(page, names, P) ==
    LET sold == OrdersBy(ProductOf, P)
        ahead(p) == {q \in DOMAIN sold : sold[q].sales > sold[p].sales}
    IN  /\ page.all = Figures(P)
        /\ page.users = Cardinality({names[o] : o \in P} \ {NoUser})
        /\ page.daily = OrdersBy(DayOf, P)
        /\ page.platforms = OrdersBy(PlatformOf, P)
        /\ page.top = [p \in {q \in DOMAIN sold : Cardinality(ahead(q)) < 10} |-> sold[p]]

LEMMA PageFigures ==
    ASSUME NEW S, NEW list, ListsAll(list, S), NEW names, NEW days,
           NEW P, P = {o \in S : DayOf[o] \in days}
    PROVE  Shows(SalesPage(list, names, Platforms, days), names, P)
  <1> DEFINE users == {names[o] : o \in P} \ {NoUser}
             shown == Filtered(list, Platforms, days)
             by(of) == RowsBy(list, of, shown)
  <1>1. \A i \in DOMAIN list : list[i] \in S /\ list[i] \in Orders
    BY DEF ListsAll
  <1>2. \A i \in DOMAIN list : PlatformOf[list[i]] \in Platforms
    BY <1>1 DEF Platforms
  <1>3. shown = {i \in DOMAIN list : list[i] \in P}
    BY <1>1, <1>2 DEF Filtered
  <1>4. P \in SUBSET S
    OBVIOUS
  <1>5. {list[i] : i \in shown} = P /\ shown \in SUBSET (DOMAIN list)
    BY <1>3, <1>4, RowsOfOrders
  <1> HIDE DEF shown
  <1>6. by(DayOf) = OrdersBy(DayOf, P)
    BY <1>3, <1>4, RowsByColumn
  <1>7. by(PlatformOf) = OrdersBy(PlatformOf, P)
    BY <1>3, <1>4, RowsByColumn
  <1>8. by(ProductOf) = OrdersBy(ProductOf, P)
    BY <1>3, <1>4, RowsByColumn
  <1>9. RowFigures(list, shown) = Figures(P)
    BY <1>5, RowsAreOrders
  <1>10. {names[list[i]] : i \in shown} \ {NoUser} = users
    BY <1>5
  <1> DEFINE products == by(ProductOf)
             before(p) == {q \in DOMAIN products : products[q].sales > products[p].sales}
             top == [p \in {q \in DOMAIN products : Cardinality(before(q)) < 10} |-> products[p]]
  <1>11. SalesPage(list, names, Platforms, days)
           = [all       |-> RowFigures(list, shown),
              users     |-> Cardinality({names[list[i]] : i \in shown} \ {NoUser}),
              daily     |-> by(DayOf),
              platforms |-> by(PlatformOf),
              top       |-> top]
    BY DEF SalesPage, shown, RowsBy
  <1> HIDE DEF by, top
  <1>12. /\ SalesPage(list, names, Platforms, days).all = Figures(P)
         /\ SalesPage(list, names, Platforms, days).users = Cardinality(users)
         /\ SalesPage(list, names, Platforms, days).daily = OrdersBy(DayOf, P)
         /\ SalesPage(list, names, Platforms, days).platforms = OrdersBy(PlatformOf, P)
         /\ SalesPage(list, names, Platforms, days).top = top
    <2> DEFINE number == Cardinality({names[list[i]] : i \in shown} \ {NoUser})
    <2>1. number = Cardinality(users)
      BY <1>10
    <2> HIDE DEF number, users
    <2>2. SalesPage(list, names, Platforms, days)
            = [all |-> RowFigures(list, shown), users |-> number, daily |-> by(DayOf),
               platforms |-> by(PlatformOf), top |-> top]
      BY <1>11 DEF number
    <2> QED
      BY <1>6, <1>7, <1>9, <2>1, <2>2
  <1> DEFINE sold == OrdersBy(ProductOf, P)
             ahead(p) == {q \in DOMAIN sold : sold[q].sales > sold[p].sales}
  <1>13. top = [p \in {q \in DOMAIN sold : Cardinality(ahead(q)) < 10} |-> sold[p]]
    BY <1>8 DEF top
  <1> QED
    BY <1>12, <1>13 DEF Shows

LEMMA ViewListsAll == CurrentOrders \in SUBSET Orders /\ ListsAll(View, CurrentOrders)
  <1>1. CurrentOrders \in SUBSET Orders
    BY DEF CurrentOrders
  <1> QED
    BY <1>1, ListOfListsAll DEF View

(* The bars of the products.                                               *)
LEMMA TopAgrees ==
    ASSUME NEW P
    PROVE  LET sold == OrdersBy(ProductOf, P)
               ahead(p) == {q \in DOMAIN sold : sold[q].sales > sold[p].sales}
           IN  [p \in {q \in DOMAIN sold : Cardinality(ahead(q)) < 10} |-> sold[p]]
                 = TopProducts(P, 10)
  <1> DEFINE sold == OrdersBy(ProductOf, P)
             ahead(p) == {q \in DOMAIN sold : sold[q].sales > sold[p].sales}
             products == {ProductOf[o] : o \in P}
             of(p) == {o \in P : ProductOf[o] = p}
             before(p) == {q \in products : Amount(of(q)) > Amount(of(p))}
  <1>1. DOMAIN sold = products /\ \A p \in products : sold[p] = Figures(of(p))
    BY DEF OrdersBy
  <1> HIDE DEF sold, products, of
  <1>2. \A p \in products : sold[p].sales = Amount(of(p))
    <2>1. \A p : Figures(of(p)).sales = Amount(of(p))
      BY DEF Figures
    <2> QED
      BY <1>1, <2>1
  <1>3. \A p \in products : ahead(p) = before(p)
    BY <1>1, <1>2
  <1>4. {q \in DOMAIN sold : Cardinality(ahead(q)) < 10} = {q \in products : Cardinality(before(q)) < 10}
    BY <1>1, <1>3
  <1>5. TopProducts(P, 10) = [p \in {q \in products : Cardinality(before(q)) < 10} |-> Figures(of(p))]
    BY DEF TopProducts, products, of
  <1> HIDE DEF ahead, before
  <1>6. [p \in {q \in DOMAIN sold : Cardinality(ahead(q)) < 10} |-> sold[p]]
          = [p \in {q \in products : Cardinality(before(q)) < 10} |-> Figures(of(p))]
    BY <1>1, <1>4
  <1>7. [p \in {q \in DOMAIN sold : Cardinality(ahead(q)) < 10} |-> sold[p]] = TopProducts(P, 10)
    BY <1>5, <1>6
  <1> QED
    BY <1>7 DEF sold, ahead

(* What a finite set has, in a column.                                     *)
LEMMA FiniteValues ==
    ASSUME NEW D, IsFiniteSet(D), NEW f
    PROVE  IsFiniteSet({f[x] : x \in D})
  <1> DEFINE T == {f[x] : x \in D}
             g == [x \in D |-> f[x]]
  <1>1. g \in Surjection(D, T)
    BY DEF Surjection
  <1> HIDE DEF g, T
  <1>2. IsFiniteSet(T)
    BY <1>1, FS_Surjection
  <1> QED
    BY <1>2 DEF T

(* The names a column gives to orders.                                     *)
Named(of, S) == {of[o] : o \in S} \ {NoUser}

(* g tells no orders apart that f does not, and leaves the same unnamed.   *)
Coarser(g, f, S) ==
    /\ \A o, p \in S : f[o] = f[p] => g[o] = g[p]
    /\ \A o \in S : g[o] = NoUser <=> f[o] = NoUser

(* Of two columns, the one that tells fewer apart gives fewer names.       *)
LEMMA FewerNames ==
    ASSUME NEW S \in SUBSET Orders, NEW f, NEW g, Coarser(g, f, S)
    PROVE  Cardinality(Named(g, S)) <= Cardinality(Named(f, S))
  <1>0. /\ \A o, p \in S : f[o] = f[p] => g[o] = g[p]
        /\ \A o \in S : g[o] = NoUser <=> f[o] = NoUser
    BY DEF Coarser
  <1> DEFINE A == {f[o] : o \in S} \ {NoUser}
             B == {g[o] : o \in S} \ {NoUser}
             h == [a \in A |-> g[CHOOSE o \in S : f[o] = a]]
  <1>1. IsFiniteSet(A)
    <2>1. IsFiniteSet(S)
      BY OrdersAreFinite, FS_Subset
    <2>2. IsFiniteSet({f[o] : o \in S})
      BY <2>1, FiniteValues
    <2> QED
      BY <2>2, FS_Subset
  <1>2. \A o \in S : f[o] \in A => h[f[o]] = g[o]
    BY <1>0
  <1>3. h \in [A -> B]
    <2> SUFFICES ASSUME NEW a \in A PROVE h[a] \in B
      OBVIOUS
    <2>1. PICK o \in S : f[o] = a
      OBVIOUS
    <2>2. h[a] = g[o] /\ g[o] # NoUser
      BY <1>0, <1>2, <2>1
    <2> QED
      BY <2>2
  <1>4. ASSUME NEW b \in B PROVE \E a \in A : h[a] = b
    <2>1. PICK o \in S : g[o] = b
      OBVIOUS
    <2>2. f[o] \in A
      BY <1>0, <2>1
    <2> QED
      BY <1>2, <2>1, <2>2
  <1> HIDE DEF A, B, h
  <1>5. h \in Surjection(A, B)
    BY <1>3, <1>4 DEF Surjection
  <1>6. Cardinality(B) <= Cardinality(A)
    BY <1>1, <1>5, FS_Surjection
  <1> QED
    BY <1>6 DEF A, B, Named

(* The customers the page counts, against those of the API.                *)
LEMMA UsersAgree ==
    ASSUME NEW r \in Readers, reader[r].result = View,
           NEW page, page = Cardinality({Names(r)[o] : o \in CurrentOrders} \ {NoUser}),
           NEW api, api = Cardinality(Users(CurrentOrders))
    PROVE  /\ Told(r) => page = api
           /\ ~reader[r].masked => page >= api
           /\ SpelledOnce => page <= api
  <1> DEFINE C == CurrentOrders
             count(of) == Cardinality(Named(of, C))
  <1>1. C \in SUBSET Orders /\ ListsAll(View, C)
    BY ViewListsAll
  <1>2. api = count(CustomerOf) /\ page = count(Names(r))
    BY DEF Users, Named
  <1>3. ASSUME NEW of PROVE count(of) \in Nat
    <2>1. IsFiniteSet(C)
      BY <1>1, OrdersAreFinite, FS_Subset
    <2>2. IsFiniteSet({of[o] : o \in C})
      BY <2>1, FiniteValues
    <2>3. IsFiniteSet({of[o] : o \in C} \ {NoUser})
      BY <2>2, FS_Subset
    <2> QED
      BY <2>3, FS_CardinalityType DEF Named
  <1>4. count(CustomerOf) <= count(UserOf)
    <2>1. \A o, p \in C : UserOf[o] = UserOf[p] => CustomerOf[o] = CustomerOf[p]
      BY <1>1, NamesAssumption
    <2>2. \A o \in C : CustomerOf[o] = NoUser <=> UserOf[o] = NoUser
      BY <1>1, NamesAssumption
    <2>3. Coarser(CustomerOf, UserOf, C)
      BY <2>1, <2>2 DEF Coarser
    <2> HIDE DEF C
    <2> QED
      BY <1>1, <2>3, FewerNames
  <1>5. count(MaskedOf) <= count(UserOf)
    <2>1. \A o, p \in C : UserOf[o] = UserOf[p] => MaskedOf[o] = MaskedOf[p]
      BY <1>1, NamesAssumption
    <2>2. \A o \in C : MaskedOf[o] = NoUser <=> UserOf[o] = NoUser
      BY <1>1, NamesAssumption
    <2>3. Coarser(MaskedOf, UserOf, C)
      BY <2>1, <2>2 DEF Coarser
    <2> HIDE DEF C
    <2> QED
      BY <1>1, <2>3, FewerNames
  <1>6. ASSUME Told(r) PROVE page = api
    <2>1. \A o \in C : Names(r)[o] = CustomerOf[o]
      BY <1>1, <1>6 DEF Told, ListsAll
    <2>2. {Names(r)[o] : o \in C} = {CustomerOf[o] : o \in C}
      BY <2>1
    <2>3. count(Names(r)) = count(CustomerOf)
      BY <2>2 DEF Named
    <2> HIDE DEF count
    <2> QED
      BY <1>2, <2>3
  <1>7. ASSUME ~reader[r].masked PROVE page >= api
    <2>1. Names(r) = UserOf
      BY <1>7 DEF Names
    <2> HIDE DEF count
    <2>2. page = count(UserOf) /\ page \in Nat /\ api \in Nat
      BY <1>2, <1>3, <2>1
    <2> QED
      BY <1>2, <1>4, <2>2
  <1>8. ASSUME SpelledOnce PROVE page <= api
    <2>1. {UserOf[o] : o \in C} = {CustomerOf[o] : o \in C}
      BY <1>8 DEF SpelledOnce
    <2>2. count(UserOf) = count(CustomerOf)
      BY <2>1 DEF Named
    <2>3. Names(r) = UserOf \/ Names(r) = MaskedOf
      BY DEF Names
    <2> HIDE DEF count
    <2>4. count(UserOf) \in Nat
      BY <1>3
    <2> QED
      BY <1>2, <1>5, <2>2, <2>3, <2>4
  <1> QED
    BY <1>6, <1>7, <1>8

LEMMA SalesAlwaysAgree ==
    ASSUME NEW r \in Readers, reader[r].result = View
    PROVE  SalesAgree(r)
  <1> DEFINE C == CurrentOrders
             list == reader[r].result
             page == SalesPage(list, Names(r), Platforms, DaysShown(r))
             flagged == {o \in Orders : orders[o].refunded}
             platforms == Categories(C, flagged)
             shown == Cardinality({Names(r)[o] : o \in C} \ {NoUser})
  <1>1. ListsAll(list, C)
    BY ViewListsAll
  <1>2. C = {o \in C : DayOf[o] \in DaysShown(r)}
    BY <1>1 DEF DaysShown, ListsAll
  <1>3. /\ page.all = Figures(C) /\ page.users = shown
        /\ page.platforms = OrdersBy(PlatformOf, C)
        /\ page.top = TopProducts(C, 10)
    <2>1. Shows(page, Names(r), C)
      <3> HIDE DEF C, list
      <3> QED
        BY <1>1, <1>2, PageFigures
    <2> HIDE DEF C, page
    <2> QED
      BY <2>1, TopAgrees DEF Shows
  <1>4. /\ SalesOverview(C, flagged).all = Figures(C)
        /\ SalesOverview(C, flagged).users = Cardinality(Users(C))
    BY DEF SalesOverview
  <1>5. UserBehavior(C).all = Figures(C) /\ UserBehavior(C).users = Cardinality(Users(C))
    BY DEF UserBehavior
  <1>6. OrdersBy(PlatformOf, C) = [p \in DOMAIN platforms |-> platforms[p].all]
    <2>1. DOMAIN platforms = {PlatformOf[o] : o \in C}
      BY DEF Categories
    <2>2. \A p \in DOMAIN platforms : platforms[p].all = Figures({o \in C : PlatformOf[o] = p})
      BY DEF Categories
    <2> HIDE DEF platforms, C
    <2> QED
      BY <2>1, <2>2 DEF OrdersBy
  <1>7. ASSUME NEW from \in DaysShown(r), NEW to \in DaysShown(r)
        PROVE  SalesPage(list, Names(r), Platforms, from..to).daily = SalesTrend(C, from..to)
    <2> DEFINE days == from..to
               P == {o \in C : DayOf[o] \in days}
    <2> HIDE DEF C, list, days
    <2>1. Shows(SalesPage(list, Names(r), Platforms, days), Names(r), P)
      BY <1>1, PageFigures
    <2>2. SalesPage(list, Names(r), Platforms, days).daily = OrdersBy(DayOf, P)
      BY <2>1 DEF Shows
    <2>3. SalesTrend(C, days) = OrdersBy(DayOf, P)
      BY DEF SalesTrend, OrdersBy
    <2> QED
      BY <2>2, <2>3 DEF days
  <1>9. /\ Told(r) => shown = Cardinality(Users(C))
        /\ ~reader[r].masked => shown >= Cardinality(Users(C))
        /\ SpelledOnce => shown <= Cardinality(Users(C))
    BY UsersAgree
  <1> HIDE DEF C, list, platforms, flagged, shown
  <1>8. page.platforms = [p \in DOMAIN platforms |-> platforms[p].all]
    BY <1>3, <1>6
  <1> HIDE DEF page
  <1> QED
    BY <1>3, <1>4, <1>5, <1>7, <1>8, <1>9 DEF SalesAgree, C, list, page, platforms, flagged

-----------------------------------------------------------------------------
(* Scores.  They compare the customers with each other, so they are the    *)
(* same on whatever day the recency is counted from.                       *)

LEMMA Extremes ==
    ASSUME NEW S \in SUBSET Int, IsFiniteSet(S), S # {}
    PROVE  (\E x \in S : \A y \in S : x <= y) /\ (\E x \in S : \A y \in S : y <= x)
  <1> DEFINE Has(s) == (\E x \in s : \A y \in s : x <= y) /\ (\E x \in s : \A y \in s : y <= x)
             T == {n \in Nat : \A s \in SUBSET S : Cardinality(s) = n + 1 => Has(s)}
  <1>1. 0 \in T
    <2> SUFFICES ASSUME NEW s \in SUBSET S, Cardinality(s) = 1 PROVE Has(s)
      OBVIOUS
    <2>1. IsFiniteSet(s)
      BY OneLess
    <2>2. PICK x : s = {x}
      BY <2>1, FS_Singleton
    <2>3. x \in Int
      BY <2>2
    <2> QED
      BY <2>2, <2>3
  <1>2. ASSUME NEW n \in Nat, n \in T PROVE n + 1 \in T
    <2> SUFFICES ASSUME NEW s \in SUBSET S, Cardinality(s) = n + 1 + 1 PROVE Has(s)
      OBVIOUS
    <2>0. Cardinality(s) = n + 1 + 1
      OBVIOUS
    <2>1. s # {}
      BY OneLess
    <2>2. PICK p \in s : TRUE
      BY <2>1
    <2> DEFINE r == s \ {p}
    <2>3. r \in SUBSET S /\ Cardinality(r) = n + 1
      <3>1. Cardinality(r) \in Nat /\ Cardinality(s) = Cardinality(r) + 1
        BY <2>2, OneLess
      <3> QED
        BY <2>0, <3>1
    <2>4. Has(r)
      BY <1>2, <2>3
    <2>5. s = r \cup {p} /\ p \in Int /\ r \subseteq Int
      BY <2>2
    <2> HIDE DEF r, T
    <2>6. PICK a \in r, b \in r : \A y \in r : a <= y /\ y <= b
      BY <2>4
    <2>7. \E x \in s : \A y \in s : x <= y
      <3>1. CASE p <= a
        BY <2>5, <2>6, <3>1
      <3>2. CASE a <= p
        BY <2>5, <2>6, <3>2
      <3> QED
        BY <2>5, <2>6, <3>1, <3>2
    <2>8. \E x \in s : \A y \in s : y <= x
      <3>1. CASE b <= p
        BY <2>5, <2>6, <3>1
      <3>2. CASE p <= b
        BY <2>5, <2>6, <3>2
      <3> QED
        BY <2>5, <2>6, <3>1, <3>2
    <2> QED
      BY <2>7, <2>8
  <1> HIDE DEF T
  <1>3. Nat \subseteq T
    BY <1>1, <1>2, Induction
  <1> USE DEF T
  <1>4. Cardinality(S) \in Nat /\ Cardinality(S) # 0
    BY OneLess
  <1>5. Cardinality(S) - 1 \in Nat /\ Cardinality(S) = (Cardinality(S) - 1) + 1
    BY <1>4
  <1>6. Has(S)
    BY <1>3, <1>5
  <1> QED
    BY <1>6

LEMMA MinIsLeast ==
    ASSUME NEW S \in SUBSET Int, IsFiniteSet(S), S # {}
    PROVE  F!Min(S) \in S /\ F!Min(S) \in Int /\ \A x \in S : F!Min(S) <= x
  <1>1. F!Min(S) \in S /\ \A x \in S : F!Min(S) <= x
    BY Extremes DEF F!Min
  <1> QED
    BY <1>1

LEMMA MaxIsGreatest ==
    ASSUME NEW S \in SUBSET Int, IsFiniteSet(S), S # {}
    PROVE  F!Max(S) \in S /\ F!Max(S) \in Int /\ \A x \in S : x <= F!Max(S)
  <1>1. \E x \in S : \A y \in S : x >= y
    <2>1. PICK x \in S : \A y \in S : y <= x
      BY Extremes
    <2>2. \A y \in S : x >= y
      BY <2>1
    <2> QED
      BY <2>2
  <1>2. F!Max(S) \in S /\ \A x \in S : F!Max(S) >= x
    BY <1>1 DEF F!Max
  <1> QED
    BY <1>2

LEMMA MinOfTwo ==
    ASSUME NEW a \in Int, NEW b \in Int
    PROVE  F!Min({a, b}) \in Int /\ F!Min({a, b}) <= b
  <1>1. IsFiniteSet({a, b})
    <2>1. IsFiniteSet({a})
      BY FS_Singleton
    <2>2. IsFiniteSet({a} \cup {b})
      BY <2>1, FS_AddElement
    <2>3. {a, b} = {a} \cup {b}
      OBVIOUS
    <2> QED
      BY <2>2, <2>3
  <1> DEFINE S == {a, b}
  <1>2. S \in SUBSET Int /\ S # {} /\ b \in S /\ IsFiniteSet(S)
    BY <1>1
  <1> HIDE DEF S
  <1>3. F!Min(S) \in Int /\ F!Min(S) <= b
    BY <1>2, MinIsLeast
  <1> QED
    BY <1>3 DEF S

(* The k-th smallest number moves with the numbers.                        *)
LEMMA SmallestMoves ==
    ASSUME NEW U, IsFiniteSet(U), U # {}, NEW v \in [U -> Int], NEW w \in [U -> Int],
           NEW c \in Int, \A u \in U : w[u] = v[u] + c,
           NEW k \in Int, k <= Cardinality(U)
    PROVE  Smallest(v, k) \in Int /\ Smallest(w, k) = Smallest(v, k) + c
  <1> DEFINE Below(f, u) == {x \in U : f[x] <= f[u]}
             Enough(f) == {u \in U : Cardinality(Below(f, u)) >= k}
             Of(f) == {f[u] : u \in Enough(f)}
  <1>1. DOMAIN v = U /\ DOMAIN w = U
    OBVIOUS
  <1>2. Smallest(v, k) = F!Min(Of(v)) /\ Smallest(w, k) = F!Min(Of(w))
    BY <1>1 DEF Smallest
  <1>3. \A u \in U : Below(w, u) = Below(v, u)
    OBVIOUS
  <1>4. Enough(w) = Enough(v)
    BY <1>3
  <1>5. Enough(v) # {}
    <2> DEFINE all == {v[u] : u \in U}
    <2>1. all \in SUBSET Int /\ all # {} /\ IsFiniteSet(all)
      BY FiniteValues
    <2>2. PICK m \in all : \A y \in all : y <= m
      BY <2>1, Extremes
    <2>3. PICK u \in U : v[u] = m
      BY <2>2
    <2>4. Below(v, u) = U
      BY <2>2, <2>3
    <2>5. Cardinality(U) \in Nat /\ Cardinality(Below(v, u)) = Cardinality(U)
      BY <2>4, FS_CardinalityType
    <2>6. Cardinality(Below(v, u)) >= k
      BY <2>5
    <2> QED
      BY <2>6
  <1>6. Enough(v) \subseteq U
    OBVIOUS
  <1> DEFINE E == Enough(v)
             A == {v[u] : u \in E}
             B == {w[u] : u \in E}
  <1>7. Of(v) = A /\ Of(w) = B
    BY <1>4
  <1>8. E # {} /\ E \subseteq U /\ IsFiniteSet(E)
    BY <1>5, <1>6, FS_Subset
  <1> HIDE DEF E, Of, Enough
  <1>9. /\ A \in SUBSET Int /\ A # {} /\ IsFiniteSet(A)
        /\ B \in SUBSET Int /\ B # {} /\ IsFiniteSet(B)
    BY <1>8, FiniteValues
  <1>10. \A u \in E : w[u] = v[u] + c /\ v[u] \in Int /\ w[u] \in Int
    BY <1>8
  <1> DEFINE a == F!Min(A)
             b == F!Min(B)
  <1>11. a \in A /\ a \in Int /\ \A x \in A : a <= x
    BY <1>9, MinIsLeast
  <1>12. b \in B /\ b \in Int /\ \A x \in B : b <= x
    BY <1>9, MinIsLeast
  <1> HIDE DEF a, b
  <1>13. b <= a + c
    <2>1. PICK u \in E : a = v[u]
      BY <1>11
    <2>2. a + c \in B
      BY <1>10, <2>1
    <2> QED
      BY <1>12, <2>2
  <1>14. a + c <= b
    <2>1. PICK u \in E : b = w[u]
      BY <1>12
    <2>2. v[u] \in A /\ b = v[u] + c /\ v[u] \in Int
      BY <1>10, <2>1
    <2>3. a <= v[u]
      BY <1>11, <2>2
    <2> QED
      BY <1>11, <2>2, <2>3
  <1>15. b = a + c
    BY <1>11, <1>12, <1>13, <1>14
  <1> QED
    BY <1>2, <1>7, <1>11, <1>15 DEF a, b

(* So the bounds move too, and nobody's score changes.                     *)
LEMMA ScoreStays ==
    ASSUME NEW U, IsFiniteSet(U), NEW v \in [U -> Int], NEW w \in [U -> Int],
           NEW c \in Int, \A x \in U : w[x] = v[x] + c,
           NEW bins \in 3..10, NEW u \in U
    PROVE  Score(w, bins, u) = Score(v, bins, u)
  <1> DEFINE count == Cardinality(U)
             k(i) == F!Min({CeilDiv(count * i, bins), count})
  <1>1. DOMAIN v = U /\ DOMAIN w = U /\ count \in Nat
    BY FS_CardinalityType
  <1>2. ASSUME NEW i \in 1..bins
        PROVE  Bound(w, bins, i) < w[u] <=> Bound(v, bins, i) < v[u]
    <2>1. CeilDiv(count * i, bins) \in Int
      <3> HIDE DEF count
      <3>1. count * i \in Int
        BY <1>1
      <3> DEFINE n == count * i + bins - 1
      <3>4. n \in Int /\ bins \in Int /\ bins > 0
        BY <3>1
      <3> HIDE DEF n
      <3>5. n \div bins \in Int
        BY <3>4
      <3> USE DEF n
      <3>2. (count * i + bins - 1) \div bins \in Int
        BY <3>5
      <3> QED
        BY <3>2 DEF CeilDiv
    <2>2. k(i) \in Int /\ k(i) <= count
      <3> DEFINE n == CeilDiv(count * i, bins)
      <3>1. n \in Int /\ count \in Int
        BY <1>1, <2>1
      <3> HIDE DEF n, count
      <3>2. F!Min({n, count}) \in Int /\ F!Min({n, count}) <= count
        BY <3>1, MinOfTwo
      <3> QED
        BY <3>2 DEF n
    <2>3. Bound(v, bins, i) = Smallest(v, k(i)) /\ Bound(w, bins, i) = Smallest(w, k(i))
      BY <1>1 DEF Bound
    <2> HIDE DEF k
    <2>4. U # {} /\ k(i) <= Cardinality(U)
      BY <2>2
    <2>5. Smallest(v, k(i)) \in Int /\ Smallest(w, k(i)) = Smallest(v, k(i)) + c
      BY <2>2, <2>4, SmallestMoves
    <2>6. v[u] \in Int /\ w[u] = v[u] + c
      OBVIOUS
    <2> QED
      BY <2>3, <2>5, <2>6
  <1>3. {i \in 1..bins : Bound(w, bins, i) < w[u]} = {i \in 1..bins : Bound(v, bins, i) < v[u]}
    BY <1>2
  <1> QED
    BY <1>3 DEF Score

-----------------------------------------------------------------------------
(* Customers measured on two days.                                         *)

(* N has the customers and measures of M, with the recency from c days     *)
(* later.                                                                  *)
Later(M, N, c) ==
    /\ IsFiniteSet(DOMAIN M) /\ DOMAIN N = DOMAIN M
    /\ \A u \in DOMAIN M :
         /\ M[u].recency \in Int /\ N[u].recency = M[u].recency + c
         /\ N[u].frequency = M[u].frequency /\ N[u].monetary = M[u].monetary

Buying(S) == {o \in S : CustomerOf[o] # NoUser /\ PaidOf[o] > 0}

OrdersOf(S, u) == {o \in Buying(S) : CustomerOf[o] = u}

Latest(S, u) == F!Max({DayOf[o] : o \in OrdersOf(S, u)})

LEMMA MeasuresOnADay ==
    ASSUME NEW S \in SUBSET Orders, NEW day \in Int, \A o \in S : DayOf[o] <= day
    PROVE  SqlMeasures(S, day) = [u \in {CustomerOf[o] : o \in Buying(S)} |->
               [recency   |-> day - Latest(S, u),
                frequency |-> Cardinality(OrdersOf(S, u)),
                monetary  |-> Amount(OrdersOf(S, u))]]
  <1>1. {o \in S : Counts(CustomerOf, o, day)} = Buying(S)
    BY DEF Counts, Buying
  <1>2. \A T : Amount(T) = F!MapThenSumSet(LAMBDA o : PaidOf[o], T)
    BY DEF Amount
  <1> QED
    BY <1>1 DEF SqlMeasures, Latest, OrdersOf, Amount

LEMMA LatestIsADay ==
    ASSUME NEW S \in SUBSET Orders, NEW u \in {CustomerOf[o] : o \in Buying(S)}
    PROVE  Latest(S, u) \in Int
  <1> DEFINE O == OrdersOf(S, u)
             days == {DayOf[o] : o \in O}
  <1>1. O # {} /\ O \subseteq Orders
    BY DEF OrdersOf, Buying
  <1>2. IsFiniteSet(O)
    BY <1>1, OrdersAreFinite, FS_Subset
  <1> HIDE DEF O
  <1>3. days \in SUBSET Int /\ days # {}
    BY <1>1, ColumnsAssumption
  <1>4. IsFiniteSet(days)
    BY <1>2, FiniteValues
  <1> HIDE DEF days
  <1>5. F!Max(days) \in Int
    BY <1>3, <1>4, MaxIsGreatest
  <1> QED
    BY <1>5 DEF Latest, days, O

LEMMA MeasuresLater ==
    ASSUME NEW S \in SUBSET Orders, NEW d \in Int, NEW e \in Int,
           \A o \in S : DayOf[o] <= d /\ DayOf[o] <= e
    PROVE  Later(SqlMeasures(S, d), SqlMeasures(S, e), e - d)
  <1> DEFINE D == {CustomerOf[o] : o \in Buying(S)}
             on(day, u) == [recency   |-> day - Latest(S, u),
                            frequency |-> Cardinality(OrdersOf(S, u)),
                            monetary  |-> Amount(OrdersOf(S, u))]
             M == SqlMeasures(S, d)
             N == SqlMeasures(S, e)
  <1>1. M = [u \in D |-> on(d, u)] /\ N = [u \in D |-> on(e, u)]
    BY MeasuresOnADay
  <1>2. IsFiniteSet(D)
    <2>1. Buying(S) \subseteq Orders
      BY DEF Buying
    <2>2. IsFiniteSet(Buying(S))
      BY <2>1, OrdersAreFinite, FS_Subset
    <2> QED
      BY <2>2, FiniteValues
  <1>3. \A u \in D : Latest(S, u) \in Int
    BY LatestIsADay
  <1> HIDE DEF D, M, N
  <1>4. DOMAIN M = D /\ DOMAIN N = D
    BY <1>1
  <1>5. ASSUME NEW u \in D
        PROVE  /\ M[u].recency \in Int /\ N[u].recency = M[u].recency + (e - d)
               /\ N[u].frequency = M[u].frequency /\ N[u].monetary = M[u].monetary
    <2>1. M[u] = on(d, u) /\ N[u] = on(e, u)
      BY <1>1
    <2>2. M[u].recency = d - Latest(S, u) /\ N[u].recency = e - Latest(S, u)
      BY <2>1
    <2>3. M[u].recency \in Int /\ N[u].recency = M[u].recency + (e - d)
      BY <1>3, <2>2
    <2> QED
      BY <2>1, <2>3
  <1>6. Later(M, N, e - d)
    BY <1>2, <1>4, <1>5 DEF Later
  <1> QED
    BY <1>6 DEF M, N

(* Scores do not depend on the day.                                        *)
LEMMA SameScores ==
    ASSUME NEW M, NEW N, NEW c \in Int, Later(M, N, c), NEW bins \in 3..10
    PROVE  Scores(N, bins) = Scores(M, bins)
  <1> DEFINE U == DOMAIN M
             recency(f) == [u \in U |-> f[u].recency]
             frequency(f) == [u \in U |-> f[u].frequency]
             monetary(f) == [u \in U |-> f[u].monetary]
             of(f, u) == [r |-> Score(recency(f), bins, u), f |-> Score(frequency(f), bins, u),
                          m |-> Score(monetary(f), bins, u)]
  <1>1. IsFiniteSet(U) /\ DOMAIN N = U
    BY DEF Later
  <1>2. Scores(M, bins) = [u \in U |-> of(M, u)] /\ Scores(N, bins) = [u \in U |-> of(N, u)]
    BY <1>1 DEF Scores
  <1>3. frequency(N) = frequency(M) /\ monetary(N) = monetary(M)
    BY DEF Later
  <1>4. ASSUME NEW u \in U PROVE Score(recency(N), bins, u) = Score(recency(M), bins, u)
    <2> DEFINE v == recency(M)
               w == recency(N)
    <2>1. v \in [U -> Int] /\ w \in [U -> Int] /\ \A x \in U : w[x] = v[x] + c
      BY DEF Later
    <2> HIDE DEF v, w, U
    <2>2. Score(w, bins, u) = Score(v, bins, u)
      BY <1>1, <2>1, ScoreStays
    <2> QED
      BY <2>2 DEF v, w
  <1>5. \A u \in U : of(N, u) = of(M, u)
    BY <1>3, <1>4
  <1> HIDE DEF of
  <1> QED
    BY <1>2, <1>5

LEMMA MonetaryAddsUp ==
    ASSUME NEW M, NEW group
    PROVE  F!MapThenSumSet(LAMBDA u : M[u].monetary, group)
             = Total([u \in group |-> M[u].monetary], group)
  <1> DEFINE paid == [u \in group |-> M[u].monetary]
  <1>1. F!MapThenSumSet(LAMBDA u : M[u].monetary, group) = Total(paid, group)
    BY DEF Total, F!MapThenSumSet, F!MapThenFoldSet
  <1> QED
    BY <1>1

(* Nor do the cards of the page of the customers.                          *)
LEMMA SameOverview ==
    ASSUME NEW M, NEW N, NEW c \in Int, Later(M, N, c), NEW view, NEW other,
           view.bins \in 3..10, other.bins = view.bins,
           other.r = view.r, other.f = view.f, other.m = view.m
    PROVE  Overview(N, other) = Overview(M, view)
  <1> DEFINE scores == Scores(M, view.bins)
             segments == Segments(M, view)
             high == {u \in DOMAIN segments : HighValue(segments[u])}
             paid(f) == [u \in high |-> f[u].monetary]
  <1>1. Scores(N, other.bins) = scores
    BY SameScores
  <1>2. \A score : Segment(score, other) = Segment(score, view)
    BY DEF Segment
  <1>3. DOMAIN N = DOMAIN M
    BY DEF Later
  <1>4. Segments(N, other) = segments
    BY <1>1, <1>2, <1>3 DEF Segments
  <1>5. DOMAIN segments = DOMAIN M
    BY DEF Segments
  <1> HIDE DEF segments
  <1>6. high \subseteq DOMAIN M
    BY <1>5
  <1>7. F!MapThenSumSet(LAMBDA u : M[u].monetary, high) = Total(paid(M), high)
    BY MonetaryAddsUp
  <1>8. F!MapThenSumSet(LAMBDA u : N[u].monetary, high) = Total(paid(N), high)
    BY MonetaryAddsUp
  <1>9. paid(N) = paid(M)
    BY <1>6 DEF Later
  <1>10. F!MapThenSumSet(LAMBDA u : N[u].monetary, high)
           = F!MapThenSumSet(LAMBDA u : M[u].monetary, high)
    BY <1>7, <1>8, <1>9
  <1>11. Overview(M, view) =
           [total |-> Cardinality(DOMAIN segments), high |-> Cardinality(high),
            risk |-> Cardinality({u \in DOMAIN segments : AtRisk(segments[u])}),
            monetary |-> F!MapThenSumSet(LAMBDA u : M[u].monetary, high)]
    BY DEF Overview, segments
  <1>12. Overview(N, other) =
           [total |-> Cardinality(DOMAIN segments), high |-> Cardinality(high),
            risk |-> Cardinality({u \in DOMAIN segments : AtRisk(segments[u])}),
            monetary |-> F!MapThenSumSet(LAMBDA u : N[u].monetary, high)]
    BY <1>4 DEF Overview
  <1> HIDE DEF high
  <1> QED
    BY <1>10, <1>11, <1>12

-----------------------------------------------------------------------------
(* The files.                                                              *)

(* The file of a session was made for the view it is kept under, and that  *)
(* is the one the page has.                                                *)
FileFits(x) ==
    \A e \in x.offered : e.signature = Signature(e.view) /\ e.signature = Signature(x.view)

FilesFit == \A r \in Readers : FileFits(reader[r])

ReadsAndFilesInv == ReadsInv /\ FilesFit

(* A step of one reader keeps the files when it keeps its own.             *)
LEMMA FilesKept ==
    ASSUME FilesFit, reader \in [Readers -> Reader], NEW r \in Readers, NEW y, FileFits(y),
           reader' = [reader EXCEPT ![r] = y]
    PROVE  FilesFit'
  <1>1. \A q \in Readers : reader'[q] = reader[q] \/ reader'[q] = y
    OBVIOUS
  <1>2. \A q \in Readers : FileFits(reader[q])
    BY DEF FilesFit
  <1>3. \A q \in Readers : FileFits(reader'[q])
    BY <1>1, <1>2
  <1>4. FilesFit' <=> \A q \in Readers : FileFits(reader'[q])
    BY DEF FilesFit, FileFits
  <1> QED
    BY <1>3, <1>4

LEMMA SameFile ==
    ASSUME NEW x, FileFits(x), NEW y, y.view = x.view, y.offered = x.offered \/ y.offered = {}
    PROVE  FileFits(y)
  BY DEF FileFits

LEMMA FilesKeptByReader ==
    ASSUME ReadsAndFilesInv, NEW r \in Readers,
           \/ Refresh(r) \/ ChangeView(r) \/ GenerateExport(r)
           \/ BeginRead(r) \/ FirstPage(r) \/ NextPage(r) \/ Assemble(r) \/ RequestFails(r)
    PROVE  FilesFit'
  <1> DEFINE x == reader[r]
             same(y) == y.view = x.view /\ (y.offered = x.offered \/ y.offered = {})
  <1>1. reader \in [Readers -> Reader] /\ x \in Reader /\ FileFits(x) /\ FilesFit
    BY DEF ReadsAndFilesInv, ReadsInv, TypeOK, FilesFit
  <1>2. ASSUME NEW y, same(y), reader' = [reader EXCEPT ![r] = y] PROVE FilesFit'
    <2>1. FileFits(y)
      BY <1>1, <1>2, SameFile
    <2> QED
      BY <1>1, <1>2, <2>1, FilesKept
  <1>3. ASSUME NEW pc, NEW result, NEW masked, Leave(r, pc, result, masked) PROVE FilesFit'
    <2> DEFINE y == Ended(x, pc, result, masked)
    <2>1. reader' = [reader EXCEPT ![r] = y]
      BY <1>3 DEF Leave, Ended
    <2>2. y.view = x.view /\ y.offered = x.offered
      BY <1>1 DEF Ended, Reader
    <2> HIDE DEF y, x
    <2> QED
      BY <1>2, <2>1, <2>2
  <1>4. ASSUME Fail(r) PROVE FilesFit'
    BY <1>3, <1>4 DEF Fail
  <1>5. CASE Refresh(r)
    <2> DEFINE y == [x EXCEPT !.pc = "first", !.attempt = 1, !.reads = x.reads + 1, !.offered = {}]
    <2>1. reader' = [reader EXCEPT ![r] = y]
      BY <1>5 DEF Refresh
    <2>2. y.view = x.view /\ y.offered = {}
      BY <1>1 DEF Reader
    <2> HIDE DEF y, x
    <2> QED
      BY <1>2, <2>1, <2>2
  <1>6. CASE BeginRead(r)
    <2> DEFINE y == [x EXCEPT !.pc = "first", !.attempt = 1, !.reads = x.reads + 1]
    <2>1. reader' = [reader EXCEPT ![r] = y]
      BY <1>6 DEF BeginRead
    <2>2. y.view = x.view /\ y.offered = x.offered
      BY <1>1 DEF Reader
    <2> HIDE DEF y, x
    <2> QED
      BY <1>2, <2>1, <2>2
  <1>7. CASE FirstPage(r)
    <2> DEFINE y == [x EXCEPT !.pc = IF HasPage(Len(View), 2) THEN "next" ELSE "assemble",
                              !.version = dataVersion, !.total = Len(View), !.page = 1,
                              !.rows = Page(View, 1), !.taken = View, !.torn = FALSE]
    <2>1. CASE Len(View) > MaxRows
      BY <1>4, <1>7, <2>1 DEF FirstPage
    <2>2. CASE ~(Len(View) > MaxRows)
      <3>1. reader' = [reader EXCEPT ![r] = y]
        BY <1>7, <2>2 DEF FirstPage
      <3>2. y.view = x.view /\ y.offered = x.offered
        BY <1>1 DEF Reader
      <3> HIDE DEF y, x
      <3> QED
        BY <1>2, <3>1, <3>2
    <2> QED
      BY <2>1, <2>2
  <1>8. CASE NextPage(r)
    <2> DEFINE n == x.page + 1
               y == [x EXCEPT !.pc = IF HasPage(x.total, n + 1) THEN "next" ELSE "assemble",
                              !.page = n, !.rows = x.rows \o Page(View, n)]
               z == [x EXCEPT !.pc = "first", !.attempt = x.attempt + 1, !.version = 0, !.total = 0,
                              !.page = 0, !.rows = <<>>, !.taken = <<>>, !.torn = FALSE]
    <2>1. Fail(r) \/ reader' = [reader EXCEPT ![r] = y] \/ reader' = [reader EXCEPT ![r] = z]
      BY <1>8 DEF NextPage, Conflict
    <2>2. y.view = x.view /\ y.offered = x.offered /\ z.view = x.view /\ z.offered = x.offered
      BY <1>1 DEF Reader
    <2> HIDE DEF y, z, x
    <2> QED
      BY <1>2, <1>4, <2>1, <2>2
  <1>9. CASE Assemble(r)
    BY <1>3, <1>4, <1>9 DEF Assemble
  <1>10. CASE RequestFails(r)
    BY <1>4, <1>10 DEF RequestFails
  <1>11. CASE ChangeView(r)
    <2> DEFINE y(v) == [x EXCEPT !.view = v, !.offered = {e \in x.offered : e.signature = Signature(v)}]
    <2>1. PICK v \in RfmViews : reader' = [reader EXCEPT ![r] = y(v)]
      BY <1>11 DEF ChangeView
    <2>2. y(v).view = v /\ y(v).offered = {e \in x.offered : e.signature = Signature(v)}
      BY <1>1 DEF Reader
    <2>3. FileFits(y(v))
      BY <1>1, <2>2 DEF FileFits
    <2> HIDE DEF y, x
    <2> QED
      BY <1>1, <2>1, <2>3, FilesKept
  <1>12. CASE GenerateExport(r)
    <2> DEFINE file == [signature |-> Signature(x.view), view |-> x.view, orders |-> CurrentOrders]
               y == [x EXCEPT !.offered = {file}]
    <2>1. reader' = [reader EXCEPT ![r] = y]
      BY <1>12 DEF GenerateExport
    <2>2. y.view = x.view /\ y.offered = {file}
      BY <1>1 DEF Reader
    <2>3. FileFits(y)
      BY <2>2 DEF FileFits
    <2> HIDE DEF y, x
    <2> QED
      BY <1>1, <2>1, <2>3, FilesKept
  <1> QED
    BY <1>5, <1>6, <1>7, <1>8, <1>9, <1>10, <1>11, <1>12

LEMMA FilesStep == ReadsAndFilesInv /\ [Next]_vars => FilesFit'
  <1> SUFFICES ASSUME ReadsAndFilesInv, [Next]_vars PROVE FilesFit'
    OBVIOUS
  <1>1. FilesFit /\ reader \in [Readers -> Reader]
    BY DEF ReadsAndFilesInv, ReadsInv, TypeOK
  <1>2. ASSUME NEW r \in Readers,
               \/ Refresh(r) \/ ChangeView(r) \/ GenerateExport(r)
               \/ BeginRead(r) \/ FirstPage(r) \/ NextPage(r) \/ Assemble(r) \/ RequestFails(r)
        PROVE  FilesFit'
    BY <1>2, FilesKeptByReader
  <1>3. ASSUME NEW k \in Imports, Rename(k) PROVE FilesFit'
    <2> DEFINE y(r) == [reader[r] EXCEPT !.torn = @ \/ reader[r].pc \in {"next", "assemble"}]
    <2>1. reader' = [r \in Readers |-> y(r)]
      BY <1>3 DEF Rename
    <2>2. ASSUME NEW r \in Readers PROVE FileFits(reader'[r])
      <3>1. reader[r] \in Reader /\ FileFits(reader[r])
        BY <1>1 DEF FilesFit
      <3>2. y(r).view = reader[r].view /\ y(r).offered = reader[r].offered
        BY <3>1 DEF Reader
      <3>3. reader'[r] = y(r)
        BY <2>1
      <3> QED
        BY <3>1, <3>2, <3>3, SameFile
    <2>3. FilesFit' <=> \A r \in Readers : FileFits(reader'[r])
      BY DEF FilesFit, FileFits
    <2> QED
      BY <2>2, <2>3
  <1>4. ASSUME reader' = reader PROVE FilesFit'
    BY <1>1, <1>4 DEF FilesFit, FileFits
  <1>5. ASSUME NEW k \in Imports,
               \/ GetImportLock(k) \/ Guard(k) \/ Stage(k) \/ Recheck(k)
               \/ Bump(k) \/ FinishImport(k) \/ ImportRaises(k) \/ ImportDies(k)
        PROVE  FilesFit'
    BY <1>4, <1>5
       DEF GetImportLock, Guard, Stage, Recheck, Bump, FinishImport, ImportRaises, ImportDies
  <1>6. CASE EventCommits \/ ReconcileSelect \/ ReconcileCommit \/ ReconcileAborts
    BY <1>4, <1>6 DEF EventCommits, ReconcileSelect, ReconcileCommit, ReconcileAborts
  <1>7. CASE UNCHANGED vars
    BY <1>4, <1>7 DEF vars
  <1> QED
    BY <1>2, <1>3, <1>5, <1>6, <1>7 DEF Next

-----------------------------------------------------------------------------
(* The views.                                                              *)

(* What is read from the page of the customers, when there is one.         *)
LEMMA PageHasDays ==
    ASSUME ReadsInv, NEW r \in Readers, HasRfmPage(r), reader[r].result = View
    PROVE  LET all == {DayOf[o] : o \in {p \in Orders : Exists(p)}}
           IN  /\ F!Max(all) \in Int /\ F!Max(DaysShown(r)) \in Int
               /\ \A o \in CurrentOrders :
                    DayOf[o] <= F!Max(all) /\ DayOf[o] <= F!Max(DaysShown(r))
  <1> DEFINE all == {DayOf[o] : o \in {p \in Orders : Exists(p)}}
             shown == {DayOf[o] : o \in CurrentOrders}
             list == reader[r].result
  <1>1. CurrentOrders \in SUBSET Orders /\ ListsAll(list, CurrentOrders)
    BY ViewListsAll
  <1>2. DaysShown(r) = shown
    BY <1>1 DEF DaysShown, ListsAll
  <1>3. CurrentOrders # {}
    <2>1. list # <<>> /\ list \in Seq(Orders)
      BY <1>1 DEF HasRfmPage, ListsAll
    <2>2. 1 \in DOMAIN list
      BY <2>1
    <2> QED
      BY <1>1, <2>2 DEF ListsAll
  <1>4. \A o \in CurrentOrders : Exists(o)
    BY DEF CurrentOrders, Listed, Exists
  <1>5. \A o \in Orders : DayOf[o] \in Int
    BY ColumnsAssumption
  <1>6. shown \subseteq all
    BY <1>1, <1>4
  <1>7. shown \in SUBSET Int /\ shown # {} /\ all \in SUBSET Int /\ all # {}
    BY <1>1, <1>3, <1>5, <1>6
  <1>8. IsFiniteSet(shown)
    <2>1. IsFiniteSet(CurrentOrders)
      BY <1>1, OrdersAreFinite, FS_Subset
    <2> QED
      BY <2>1, FiniteValues
  <1>9. IsFiniteSet(all)
    <2>1. IsFiniteSet({p \in Orders : Exists(p)})
      BY OrdersAreFinite, FS_Subset
    <2> QED
      BY <2>1, FiniteValues
  <1>10. \A o \in CurrentOrders : DayOf[o] \in shown /\ DayOf[o] \in all
    BY <1>6
  <1> HIDE DEF all, shown
  <1>11. F!Max(shown) \in Int /\ \A x \in shown : x <= F!Max(shown)
    BY <1>7, <1>8, MaxIsGreatest
  <1>12. F!Max(all) \in Int /\ \A x \in all : x <= F!Max(all)
    BY <1>7, <1>9, MaxIsGreatest
  <1>13. /\ F!Max(all) \in Int /\ F!Max(DaysShown(r)) \in Int
         /\ \A o \in CurrentOrders :
              DayOf[o] <= F!Max(all) /\ DayOf[o] <= F!Max(DaysShown(r))
    BY <1>2, <1>10, <1>11, <1>12
  <1> QED
    BY <1>13 DEF all

LEMMA FilesShowTheSegment ==
    ASSUME ReadsAndFilesInv, NEW r \in Readers, NEW e \in reader[r].offered, Told(r),
           ListOf[e.orders] = reader[r].result
    PROVE  SegmentRows(SqlMeasures(e.orders, e.view.day), e.view)
             = SegmentRows(Shown(r), reader[r].view)
  <1>1. reader[r] \in Reader /\ FileFits(reader[r])
    BY DEF ReadsAndFilesInv, ReadsInv, TypeOK, FilesFit
  <1>2. e.orders \in SUBSET Orders
    BY <1>1 DEF Reader, Export
  <1>3. e.view = reader[r].view
    BY <1>1 DEF FileFits, Signature
  <1>4. ListsAll(reader[r].result, e.orders)
    BY <1>2, ListOfListsAll
  <1>5. \A o \in e.orders : Names(r)[o] = CustomerOf[o]
    BY <1>4 DEF Told, ListsAll
  <1>6. Shown(r) = SqlMeasures(e.orders, e.view.day)
    BY <1>3, <1>4, <1>5, SameMeasures DEF Shown
  <1> QED
    BY <1>3, <1>6

(* The sliders of the page start where the API does.                       *)
LEMMA FirstThresholds == DefaultThreshold(5) = 3
  <1> DEFINE S == {2, 3}
  <1>1. CeilDiv(3 * 5, 5) = 3
    BY DEF CeilDiv
  <1>2. IsFiniteSet(S)
    <2>1. IsFiniteSet({2} \cup {3})
      BY FS_Singleton, FS_AddElement
    <2>2. S = {2} \cup {3}
      OBVIOUS
    <2> QED
      BY <2>1, <2>2
  <1>3. S \in SUBSET Int /\ S # {} /\ 3 \in S
    OBVIOUS
  <1> HIDE DEF S
  <1>4. F!Max(S) \in S /\ F!Max(S) \in Int /\ 3 <= F!Max(S)
    BY <1>2, <1>3, MaxIsGreatest
  <1>5. F!Max(S) = 3
    BY <1>4 DEF S
  <1> QED
    BY <1>1, <1>5 DEF DefaultThreshold, S

(* Overviews of the same measures, or of measures on another day.          *)
LEMMA SameCards ==
    ASSUME NEW M, NEW view, NEW other,
           view.bins = other.bins, view.r = other.r, view.f = other.f, view.m = other.m
    PROVE  Overview(M, view) = Overview(M, other)
  <1>1. \A score : Segment(score, view) = Segment(score, other)
    BY DEF Segment
  <1>2. Segments(M, view) = Segments(M, other)
    BY <1>1 DEF Segments
  <1> QED
    BY <1>2 DEF Overview

LEMMA TotalCounts ==
    ASSUME NEW M, NEW view
    PROVE  Overview(M, view).total = Cardinality(DOMAIN M)
  <1>1. DOMAIN Segments(M, view) = DOMAIN M
    BY DEF Segments
  <1> QED
    BY <1>1 DEF Overview

LEMMA OverviewsAlwaysAgree ==
    ASSUME ReadsInv, NEW r \in Readers, HasRfmPage(r), reader[r].result = View, Told(r)
    PROVE  OverviewsAgree(r)
  <1> DEFINE view  == reader[r].view
             api   == ApiView(view.bins, view.day)
             all   == {DayOf[o] : o \in {p \in Orders : Exists(p)}}
             first == FirstShown(DaysShown(r))
             other == ApiView(5, F!Max(all))
             C     == CurrentOrders
  <1>1. C \in SUBSET Orders /\ ListsAll(reader[r].result, C)
    BY ViewListsAll
  <1>2. \A o \in C : Names(r)[o] = CustomerOf[o]
    BY <1>1 DEF Told, ListsAll
  <1>3. Shown(r) = SqlMeasures(C, view.day)
    <2> HIDE DEF C
    <2> QED
      BY <1>1, <1>2, SameMeasures DEF Shown
  <1>4. Overview(Shown(r), view).total = Overview(SqlMeasures(C, view.day), api).total
    BY <1>3, TotalCounts
  <1>5. ASSUME {view.r, view.f, view.m} = {DefaultThreshold(view.bins)}
        PROVE  Overview(Shown(r), view) = Overview(SqlMeasures(C, view.day), api)
    <2>1. /\ view.r = DefaultThreshold(view.bins) /\ view.f = DefaultThreshold(view.bins)
          /\ view.m = DefaultThreshold(view.bins)
      BY <1>5
    <2>2. view.bins = api.bins /\ view.r = api.r /\ view.f = api.f /\ view.m = api.m
      BY <2>1 DEF ApiView
    <2> HIDE DEF view, api, C
    <2> QED
      BY <1>3, <2>2, SameCards
  <1>6. Overview(FrameMeasures(reader[r].result, Names(r), first.day), first)
          = Overview(SqlMeasures(C, other.day), other)
    <2>1. /\ other.day \in Int /\ first.day \in Int
          /\ \A o \in C : DayOf[o] <= other.day /\ DayOf[o] <= first.day
      BY PageHasDays DEF ApiView, FirstShown
    <2>2. /\ first.bins \in 3..10 /\ other.bins = first.bins
          /\ other.r = first.r /\ other.f = first.f /\ other.m = first.m
      BY FirstThresholds DEF ApiView, FirstShown
    <2> HIDE DEF first, other, C
    <2>3. FrameMeasures(reader[r].result, Names(r), first.day) = SqlMeasures(C, first.day)
      BY <1>1, <1>2, SameMeasures
    <2>4. Later(SqlMeasures(C, first.day), SqlMeasures(C, other.day), other.day - first.day)
      BY <1>1, <2>1, MeasuresLater
    <2>5. other.day - first.day \in Int
      BY <2>1
    <2>6. Overview(SqlMeasures(C, other.day), other) = Overview(SqlMeasures(C, first.day), first)
      BY <2>2, <2>4, <2>5, SameOverview
    <2> QED
      BY <2>3, <2>6
  <1>7. other.day = F!Max(all)
    BY DEF ApiView
  <1> HIDE DEF view, api, first
  <1> QED
    BY <1>4, <1>5, <1>6, <1>7 DEF OverviewsAgree, view, api, first

(* The page of a dashboard has the sales of the API while it is up to      *)
(* date; if it tells the customers apart as MySQL does, its cards are      *)
(* those of the API for the thresholds of the API, and the files the API   *)
(* makes show its segment, whatever the orders are (rfm_scoring.py:14,     *)
(* analytics_service.py:18).                                               *)
THEOREM ViewsAlwaysAgree == Spec => []ViewsAgree
  <1>1. Init => ReadsAndFilesInv
    <2> SUFFICES ASSUME Init PROVE FilesFit
      BY ReadsInvInit DEF ReadsAndFilesInv
    <2>1. \A r \in Readers : reader[r].offered = {}
      BY DEF Init
    <2> QED
      BY <2>1 DEF FilesFit, FileFits
  <1>2. ReadsAndFilesInv /\ [Next]_vars => ReadsAndFilesInv'
    BY ReadsInvStep, FilesStep DEF ReadsAndFilesInv
  <1>3. ReadsAndFilesInv => ViewsAgree
    <2> SUFFICES ASSUME ReadsAndFilesInv, NEW r \in Readers, HasRfmPage(r)
                 PROVE  /\ reader[r].result = View => SalesAgree(r)
                        /\ reader[r].result = View /\ Told(r) => OverviewsAgree(r)
                        /\ Told(r) => \A e \in reader[r].offered :
                             ListOf[e.orders] = reader[r].result =>
                                 SegmentRows(SqlMeasures(e.orders, e.view.day), e.view)
                                     = SegmentRows(Shown(r), reader[r].view)
      BY DEF ViewsAgree
    <2> QED
      BY FilesShowTheSegment, OverviewsAlwaysAgree, SalesAlwaysAgree DEF ReadsAndFilesInv
  <1> QED
    BY <1>1, <1>2, <1>3, PTL DEF Spec
=============================================================================
