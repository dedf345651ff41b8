----------------------------- MODULE TxnHarness -----------------------------
(***************************************************************************)
(* The explicit-transaction actions of the integration test executor       *)
(* (src/unnamed/part_000, package tests): executeTransactionRequest and    *)
(* commitTransaction, driving the txn wrapper of DatastoreTxn.             *)
(*                                                                         *)
(* The executor caches one datastore.Txn per TransactionID in the slice    *)
(* txns.  A request on an id with no cached txn creates one with NewTxn.   *)
(* A request that raises its expected error discards that txn and returns  *)
(* nil, which the main loop assigns to txns.  TransactionCommit commits    *)
(* the cached txn and discards it when the commit fails.                   *)
(*                                                                         *)
(* The test case is the environment: author[i] is what the test case has  *)
(* done with TransactionID i ("fresh": nothing yet, "open": requests that  *)
(* succeeded and no commit, "done": committed, or its request failed).  A  *)
(* legal test case commits only an id it has open and never reuses an id   *)
(* it is done with.  A request of the test case may succeed (one more      *)
(* write, and the database may register a success and an error hook on    *)
(* the txn) or raise its expected error.                                   *)
(***************************************************************************)
EXTENDS DatastoreTxn

CONSTANTS
    TxnIds,        \* the TransactionIDs a test case uses
    NoTxn          \* a nil entry of the txns slice

ASSUME NoTxn \notin Handles

VARIABLES
    txns,      \* the executor's txns slice, TransactionID -> txn
    author,    \* the test case's view of each TransactionID
    halted     \* "no", or how the test case ended early: a panic on a
               \* missing txn or on a nil txn, or a failed require

vars == <<txnVars, txns, author, halted>>

HarnessTypeOK ==
    /\ TypeOK
    /\ txns \in [TxnIds -> Handles \cup {NoTxn}]
    /\ author \in [TxnIds -> {"fresh", "open", "done"}]
    /\ halted \in {"no", "missingTxn", "nilTxn", "requireFailed"}

Init ==
    /\ TxnInit
    /\ txns = [i \in TxnIds |-> NoTxn]
    /\ author = [i \in TxnIds |-> "fresh"]
    /\ halted = "no"

-----------------------------------------------------------------------------
(* The database ran the request on h: one more write, and it may register  *)
(* a success hook and an error hook (NilFn: none).                         *)
RequestSucceeds(i, h) ==
    /\ root[h] \in {"unused", "open"}
    /\ staged[h] < MaxStaged
    /\ root' = [root EXCEPT ![h] = "open"]
    /\ staged' = [staged EXCEPT ![h] = @ + 1]
    /\ \E s, e \in Hooks \cup {NilFn} :
         /\ IF Len(successFns[h]) < MaxHooks
              THEN OnSuccess(h, s) ELSE UNCHANGED successFns
         /\ IF Len(errorFns[h]) < MaxHooks
              THEN OnError(h, e) ELSE UNCHANGED errorFns
    /\ txns' = [txns EXCEPT ![i] = h]
    /\ author' = [author EXCEPT ![i] = "open"]

(* The request raised an error (always, once its root transaction has     *)
(* finished): Discard, then "return nil", which empties the whole txns    *)
(* slice of the main loop.                                                 *)
RequestFails(i, h) ==
    /\ root' = [root EXCEPT ![h] = Discarded(IF @ = "unused" THEN "open" ELSE @)]
    /\ txns' = [j \in TxnIds |-> NoTxn]
    /\ author' = [author EXCEPT ![i] = "done"]
    /\ UNCHANGED <<staged, successFns, errorFns>>

(* executeTransactionRequest: reuse the cached txn of the id, or create    *)
(* one (db.NewTxn, i.e. NewTxnFrom) when the slot is nil; run the request. *)
ExecuteTransactionRequest(i) ==
    /\ halted = "no"
    /\ author[i] \in {"fresh", "open"}
    /\ \E h \in Handles :
         /\ IF txns[i] = NoTxn
              THEN NewTxnFrom(h)
              ELSE /\ h = txns[i]
                   /\ UNCHANGED <<readTs, readVal>>
         /\ \/ RequestSucceeds(i, h)
            \/ RequestFails(i, h)
    /\ UNCHANGED <<value, version, fired, result, halted>>

(* executeTransactionRequest when the slot is nil and db.NewTxn errs: with *)
(* the action's expected error, txn.Discard is called on the nil txn and   *)
(* panics; with any other error require.NoError ends the test.  Either way *)
(* the test case stops here.                                               *)
NewTxnFails(i) ==
    /\ halted = "no"
    /\ author[i] \in {"fresh", "open"}
    /\ txns[i] = NoTxn
    /\ halted' \in {"nilTxn", "requireFailed"}
    /\ UNCHANGED <<txnVars, txns, author>>

(* commitTransaction: txns[id].Commit, and Discard when it errs.  The      *)
(* Discard is a no-op there, since a failed Commit leaves the root txn     *)
(* discarded or committed.  A nil or missing slot is a panic.              *)
CommitTransaction(i) ==
    /\ halted = "no"
    /\ author[i] = "open"
    /\ author' = [author EXCEPT ![i] = "done"]
    /\ IF txns[i] = NoTxn
         THEN /\ halted' = "missingTxn"
              /\ UNCHANGED txnVars
         ELSE /\ Commit(txns[i])
              /\ UNCHANGED <<readTs, readVal, staged, successFns, errorFns,
                             halted>>
    /\ UNCHANGED txns

Next ==
    \E i \in TxnIds :
        \/ ExecuteTransactionRequest(i)
        \/ NewTxnFails(i)
        \/ CommitTransaction(i)

Spec == Init /\ [][Next]_vars

-----------------------------------------------------------------------------
(* The Txn interface's contract, seen through the txn wrapper: the root    *)
(* transaction's state is the transaction's, the staged increments are    *)
(* its writes and txn.Commit's return value is what it reported.           *)
AbsStatus(st) ==
    CASE st \in {"unused", "open"} -> "active"
      [] st = "committed"          -> "committed"
      [] st = "discarded"          -> "aborted"

Contract == INSTANCE TxnContract WITH
    store <- value,
    status <- [h \in Handles |-> AbsStatus(root[h])],
    pending <- staged,
    reported <- result

(* The txn wrapper implements the Txn interface as its comments describe   *)
(* it: the writes of a transaction reach the store exactly when Commit     *)
(* returns nil, all at once, and an error from Commit means none of them   *)
(* were committed (txn.go Txn.Commit / Txn.Discard, txn.Commit).           *)
TxnContractSpec == Contract!Spec

(* Hooks follow the outcome of Commit: a committed transaction has run     *)
(* every success hook it registered, in registration order, and no error   *)
(* hook; a transaction that did not commit has run no success hook         *)
(* (txn.go Commit, runSuccessFns, runErrorFns).                            *)
HooksMatchOutcome ==
    \A h \in Handles :
        IF root[h] = "committed"
        THEN /\ FiredFns(h, "success") = successFns[h]
             /\ FiredFns(h, "error") = << >>
        ELSE FiredFns(h, "success") = << >>

(* Every TransactionID the test case still has open keeps its txn in the   *)
(* executor's cache, so a later request or commit of it reaches the same   *)
(* txn (executeTransactionRequest: "It will create and cache a new         *)
(* transaction if it is the first of the given TransactionId").            *)
OpenTxnsStayCached ==
    \A i \in TxnIds : author[i] = "open" => txns[i] # NoTxn

(* Spec section 4.5: the OnError hooks run on every path that ends in      *)
(* Discard, as well as on a failed Commit (txn.go Discard).                *)
ErrorHooksRunOnDiscard ==
    \A h \in Handles :
        root[h] = "discarded" => FiredFns(h, "error") = errorFns[h]

=============================================================================
