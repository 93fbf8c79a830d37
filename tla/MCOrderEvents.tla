--------------------------- MODULE MCOrderEvents ---------------------------
(* Small instances of OrderEvents for TLC.                                 *)
EXTENDS OrderEvents

Created(i, o, v)   == [id |-> i, order |-> o, type |-> ORDER_CREATED, version |-> v]
Refunded(i, o, v)  == [id |-> i, order |-> o, type |-> ORDER_REFUNDED, version |-> v]
Cancelled(i, o, v) == [id |-> i, order |-> o, type |-> ORDER_CANCELLED, version |-> v]

(* A new order with two competing terminal events, the creation sent under *)
(* a second event_id as well, and a refund of a CSV order that reuses an   *)
(* event_id: out of order, duplicate, competing, conflicting.              *)
RaceEvents ==
    {Created("e1", "o1", 1), Refunded("e2", "o1", 2),
     Cancelled("e3", "o1", 3), Refunded("e3", "o2", 1)}

(* The smallest race of a creation with a refund and a duplicate id.       *)
DuelEvents ==
    {Created("e1", "o1", 1), Refunded("e2", "o1", 2), Cancelled("e2", "o1", 3)}
=============================================================================
