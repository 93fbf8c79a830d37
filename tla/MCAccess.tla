------------------------------ MODULE MCAccess ------------------------------
(* Small instances of Access for TLC.                                      *)
EXTENDS Access

(* Four logins of one name, and three with one of another spelling of it;  *)
(* a restart between logins, two starts; the sessions of an account with a *)
(* logout, a refresh and commands; queries of a user and a service.        *)
MCKindOf ==
    [l1 |-> "login", l2 |-> "login", l3 |-> "login", l4 |-> "login", lv |-> "login", s1 |-> "start",
     s2 |-> "start", o1 |-> "logout", f1 |-> "refresh", q1 |-> "query", q2 |-> "query",
     pw |-> "set-password", off |-> "deactivate", on |-> "activate", new |-> "create-user",
     mk |-> "create-service", rm |-> "revoke-service"]
MCCalls == DOMAIN MCKindOf
MCUserOf == [c \in MCCalls |-> IF c = "new" THEN "ann" ELSE "admin"]
MCNameOf == [c \in MCCalls |-> IF c = "lv" THEN "variant" ELSE MCUserOf[c]]
MCAddressOf == [c \in MCCalls |-> "a1"]
MCBuckets == {<<"a1", MCKindOf[c]>> : c \in MCCalls}
             \cup {<<n, "queries">> : n \in {"admin", "ann", "service"}}
MCKeys == {<<n, "a1">> : n \in {"admin", "variant", "ann"}}
MCLimitOf == [b \in MCBuckets |-> IF b[2] = "login" THEN 3 ELSE 1]
MCWindowOf == [b \in MCBuckets |-> IF b[2] = "login" THEN 1 ELSE 2]
MCArrivals ==
    {[calls |-> {"l1", "l2", "l3", "l4"}, tick |-> 1],
     [calls |-> {"l1", "l2", "l3", "lv"}, tick |-> 3],
     [calls |-> {"s1", "l1", "l2", "l3"}, tick |-> 3],
     [calls |-> {"s1", "s2", "new", "pw"}, tick |-> 4],
     [calls |-> {"s1", "l1", "l2", "o1", "f1", "pw"}, tick |-> 4],
     [calls |-> {"l1", "f1", "off", "on"}, tick |-> 4],
     [calls |-> {"l1", "q1", "q2", "mk", "rm"}, tick |-> 3]}
=============================================================================
