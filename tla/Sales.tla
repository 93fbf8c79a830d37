-------------------------------- MODULE Sales --------------------------------
(***************************************************************************)
(* The columns of an order the figures are made of, and the sales figures, *)
(* computed twice: by the API in SQL (analytics_service.py) over the set   *)
(* of current orders, and by the page of the dashboard (streamlit_app.py)  *)
(* over the rows it has read.  Ratios and averages follow from them.       *)
(***************************************************************************)
EXTENDS Integers, Sequences, FiniteSets

F == INSTANCE FiniteSetsExt

CONSTANTS
    UserOf,       \* user_name of each order, as it is stored
    CustomerOf,   \* the name MySQL groups it under: spellings that are equal
                  \* under utf8mb4_unicode_ci are one
    MaskedOf,     \* the name a principal without data:pii gets (utils/pii.py)
    DayOf,        \* order_date, the date of order_time
    PaidOf,       \* payment_amount in cents
    PlatformOf,   \* platform_type, each in one spelling
    ProductOf,    \* product_id, likewise
    NoUser        \* an order without user_name

Amount(group) == F!MapThenSumSet(LAMBDA o : PaidOf[o], group)

(* COUNT(DISTINCT user_name) skips orders without one.                     *)
Users(group) == {CustomerOf[o] : o \in group} \ {NoUser}

Figures(group) == [orders |-> Cardinality(group), sales |-> Amount(group)]

-----------------------------------------------------------------------------
(* The API.                                                                *)

(* get_sales_overview *)
SalesOverview(current, refunded) ==
    [all     |-> Figures(current),
     refunds |-> Figures(current \cap refunded),
     users   |-> Cardinality(Users(current))]

(* get_sales_trend, by day.                                                *)
SalesTrend(current, days) ==
    LET counted == {o \in current : DayOf[o] \in days}
    IN  [d \in {DayOf[o] : o \in counted} |-> Figures({o \in counted : DayOf[o] = d})]

(* get_top_products; products that sell the same are all kept.             *)
TopProducts(current, limit) ==
    LET sold(p)  == {o \in current : ProductOf[o] = p}
        products == {ProductOf[o] : o \in current}
        ahead(p) == {q \in products : Amount(sold(q)) > Amount(sold(p))}
    IN  [p \in {q \in products : Cardinality(ahead(q)) < limit} |-> Figures(sold(p))]

(* get_user_behavior: orders without a user are a group of the GROUP BY,   *)
(* and count as one user who comes back.                                   *)
UserBehavior(current) ==
    LET last     == F!Max({DayOf[o] : o \in current})
        since(n) == Users({o \in current : DayOf[o] >= last - n})
        back     == {u \in {CustomerOf[o] : o \in current} :
                        Cardinality({o \in current : CustomerOf[o] = u}) >= 2}
    IN  [all |-> Figures(current), users |-> Cardinality(Users(current)),
         repeated |-> Cardinality(back),
         week |-> Cardinality(since(7)), month |-> Cardinality(since(30))]

(* get_category_analysis *)
Categories(current, refunded) ==
    [p \in {PlatformOf[o] : o \in current} |->
        LET sold == {o \in current : PlatformOf[o] = p}
        IN  [all |-> Figures(sold), refunds |-> Cardinality(sold \cap refunded)]]

-----------------------------------------------------------------------------
(* The page.                                                               *)

(* Amounts are added up row by row, orders and users are counted once.     *)
RowFigures(rows, group) ==
    [orders |-> Cardinality({rows[i] : i \in group}),
     sales  |-> F!MapThenSumSet(LAMBDA i : PaidOf[rows[i]], group)]

(* The rows the filters of the page leave.                                 *)
Filtered(rows, platforms, days) ==
    {i \in DOMAIN rows : PlatformOf[rows[i]] \in platforms /\ DayOf[rows[i]] \in days}

(* The four cards, the line of days, the pie of platforms, the bars of the *)
(* products.  Customers are the names the API gave with the rows; nunique  *)
(* skips orders without one.                                               *)
SalesPage(rows, names, platforms, days) ==
    LET shown    == Filtered(rows, platforms, days)
        by(of)   == [x \in {of[rows[i]] : i \in shown} |->
                        RowFigures(rows, {i \in shown : of[rows[i]] = x})]
        products == by(ProductOf)
        ahead(p) == {q \in DOMAIN products : products[q].sales > products[p].sales}
    IN  [all       |-> RowFigures(rows, shown),
         users     |-> Cardinality({names[rows[i]] : i \in shown} \ {NoUser}),
         daily     |-> by(DayOf),
         platforms |-> by(PlatformOf),
         top       |-> [p \in {q \in DOMAIN products : Cardinality(ahead(q)) < 10} |->
                           products[p]]]
=============================================================================
