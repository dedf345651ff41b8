---------------------------- MODULE TxnContract -----------------------------
(***************************************************************************)
(* What the datastore.Txn interface (src/datastore/txn.go) promises its   *)
(* callers, with no root store, versions or hooks.                         *)
(*                                                                         *)
(* A transaction is active until it finishes.  Its writes reach the store  *)
(* all at once, when Commit returns nil; Commit returning an error means   *)
(* nothing was committed ("The presence of an error is an indication that  *)
(* the data was not committed to the Datastore").  Discard throws the     *)
(* writes away and has no effect after a successful Commit.                *)
(***************************************************************************)
EXTENDS Naturals

CONSTANT Handles

VARIABLES
    store,     \* committed value of the key
    status,    \* "active", "committed" or "aborted"
    pending,   \* increments written by the transaction
    reported   \* what Commit returned: "none", "ok" or "err"

absVars == <<store, status, pending, reported>>

Init ==
    /\ store = 0
    /\ status = [h \in Handles |-> "active"]
    /\ pending = [h \in Handles |-> 0]
    /\ reported = [h \in Handles |-> "none"]

(* A write inside an active transaction.                                   *)
Write(h) ==
    /\ status[h] = "active"
    /\ pending' = [pending EXCEPT ![h] = @ + 1]
    /\ UNCHANGED <<store, status, reported>>

(* Commit returns nil: the writes reach the store atomically.              *)
CommitOk(h) ==
    /\ status[h] = "active"
    /\ store' = store + pending[h]
    /\ status' = [status EXCEPT ![h] = "committed"]
    /\ reported' = [reported EXCEPT ![h] = "ok"]
    /\ UNCHANGED pending

(* Commit returns an error: nothing of the transaction was committed.     *)
CommitErr(h) ==
    /\ status[h] # "committed"
    /\ status' = [status EXCEPT ![h] = "aborted"]
    /\ reported' = [reported EXCEPT ![h] = "err"]
    /\ UNCHANGED <<store, pending>>

(* Discard of an active transaction.                                       *)
Discard(h) ==
    /\ status[h] = "active"
    /\ status' = [status EXCEPT ![h] = "aborted"]
    /\ UNCHANGED <<store, pending, reported>>

Next == \E h \in Handles : Write(h) \/ CommitOk(h) \/ CommitErr(h) \/ Discard(h)

Spec == Init /\ [][Next]_absVars

=============================================================================
