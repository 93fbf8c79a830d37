--------------------------- MODULE OrderSnapshots ---------------------------
(***************************************************************************)
(* What a reader of all orders is promised (bi_api.py, fetch_orders): the  *)
(* list it gets is the list of orders of one moment during its read, or it *)
(* gets an error.  The list changes with the data version; the exception   *)
(* is the CLI import, which swaps the table first and moves the version    *)
(* later, and then a read may be torn.                                     *)
(***************************************************************************)
EXTENDS Naturals

CONSTANTS Readers, Lists   \* readers, and the lists of orders there may be

VARIABLES
    list,      \* the list of the orders that are not cancelled
    version,   \* data_state.data_version
    phase,     \* "idle", "waiting", "reading", "delivered", "failed", per reader
    taken,     \* the list at the moment its read refers to, while it reads
    torn,      \* whether the table was swapped since
    result     \* what it got last

snapshotVars == <<list, version, phase, taken, torn, result>>

SnapshotInit ==
    /\ list \in Lists
    /\ version \in Nat
    /\ phase = [r \in Readers |-> "idle"]
    /\ taken = [r \in Readers |-> <<>>]
    /\ torn = [r \in Readers |-> FALSE]
    /\ result = [r \in Readers |-> <<>>]

Change ==
    /\ list' \in Lists
    /\ version' = version + 1
    /\ UNCHANGED <<phase, taken, torn, result>>

Swap ==
    /\ list' \in Lists
    /\ torn' = [r \in Readers |-> torn[r] \/ phase[r] = "reading"]
    /\ UNCHANGED <<version, phase, taken, result>>

(* Nothing is left of a read that ends or begins again.                    *)
Forget(r) ==
    /\ taken' = [taken EXCEPT ![r] = <<>>]
    /\ torn' = [torn EXCEPT ![r] = FALSE]

(* A read begins, or begins again after a conflict.                        *)
Begin(r) ==
    /\ phase' = [phase EXCEPT ![r] = "waiting"]
    /\ Forget(r)
    /\ UNCHANGED <<list, version, result>>

Take(r) ==
    /\ phase[r] = "waiting"
    /\ phase' = [phase EXCEPT ![r] = "reading"]
    /\ taken' = [taken EXCEPT ![r] = list]
    /\ torn' = [torn EXCEPT ![r] = FALSE]
    /\ UNCHANGED <<list, version, result>>

Deliver(r) ==
    /\ phase[r] = "reading"
    /\ phase' = [phase EXCEPT ![r] = "delivered"]
    /\ torn[r] \/ result'[r] = taken[r]
    /\ result' = [result EXCEPT ![r] = result'[r]]
    /\ Forget(r)
    /\ UNCHANGED <<list, version>>

GiveUp(r) ==
    /\ phase[r] \in {"waiting", "reading"}
    /\ phase' = [phase EXCEPT ![r] = "failed"]
    /\ Forget(r)
    /\ UNCHANGED <<list, version, result>>

SnapshotNext ==
    \/ Change \/ Swap
    \/ \E r \in Readers : Begin(r) \/ Take(r) \/ Deliver(r) \/ GiveUp(r)

SnapshotSpec == SnapshotInit /\ [][SnapshotNext]_snapshotVars
=============================================================================
