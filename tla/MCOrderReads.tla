---------------------------- MODULE MCOrderReads ----------------------------
(* Small instances of OrderReads for TLC.                                  *)
EXTENDS OrderReads

MCOrder(id, order, type, version) ==
    [id |-> id, order |-> order, type |-> type, version |-> version]

(* An order the first file marks as refunded is cancelled, one the files   *)
(* do not know is created.                                                 *)
MCEvents ==
    {MCOrder("e1", "o2", ORDER_CANCELLED, 1),
     MCOrder("e2", "o4", ORDER_CREATED, 1)}

MCListing == <<"o1", "o4", "o2", "o3">>

(* The second file has other orders than the first.                        *)
MCCsv == [k \in Imports |-> IF k = "k1" THEN {"o1", "o2"} ELSE {"o1", "o3"}]

(* Two orders of one name, one spelled like it, one masked like it; three  *)
(* days and different amounts.                                             *)
MCUserOf == [o \in Orders |-> CASE o = "o2" -> "amy" [] o = "o3" -> "Ana" [] OTHER -> "ana"]
MCCustomerOf == [o \in Orders |-> IF o = "o2" THEN "amy" ELSE "ana"]
MCMaskedOf == [o \in Orders |-> IF o = "o3" THEN "A**" ELSE "a**"]
MCDayOf == [o \in Orders |-> IF o = "o1" THEN 1 ELSE IF o = "o4" THEN 2 ELSE 3]
MCPaidOf == [o \in Orders |-> IF o = "o1" THEN 500 ELSE IF o = "o3" THEN 300 ELSE 100]
MCPlatformOf == [o \in Orders |-> IF o = "o2" THEN "app" ELSE "web"]
MCProductOf == [o \in Orders |-> IF o = "o3" THEN "p2" ELSE "p1"]

MCView(bins, t, day, high) ==
    [bins |-> bins, r |-> t, f |-> t, m |-> t, day |-> day, segment |-> high]

Spenders == [r |-> TRUE, f |-> FALSE, m |-> TRUE]

MCFirstView == MCView(5, 3, 3, Spenders)

MCRfmViews == {MCFirstView, MCView(3, 3, 3, Spenders)}
=============================================================================
