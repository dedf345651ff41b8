---------------------------- MODULE DatastoreTxn ----------------------------
(***************************************************************************)
(* The transaction wrapper of src/datastore/txn.go over an optimistic      *)
(* root store.                                                             *)
(*                                                                         *)
(* A txn wraps a root ds.Txn and keeps two hook lists, successFns and      *)
(* errorFns.  Commit commits the root transaction and then runs the        *)
(* success hooks, or runs the error hooks when the root commit fails.      *)
(* Discard only discards the root transaction.                             *)
(*                                                                         *)
(* The root store is abstracted to the one key every transaction of the    *)
(* workload reads and then writes (a read-modify-write, as a mutation of   *)
(* one document does): value is its committed value and version counts the *)
(* commits that wrote it.  A root transaction reads the key at the version *)
(* current when it is created (readTs, readVal) and its commit fails with  *)
(* a conflict when the key was committed by someone else since, which is   *)
(* what "the transaction has gone stale" means in the Txn interface.       *)
(*                                                                         *)
(* Hooks are model values; the hooks that have run are appended, in the    *)
(* order they ran, to the history variable fired.                          *)
(***************************************************************************)
EXTENDS Naturals, Sequences

CONSTANTS
    Handles,    \* root transactions that may be created (one per NewTxnFrom)
    Hooks,      \* hook functions a caller may register
    NilFn,      \* the nil func value
    MaxHooks,   \* bound on the hooks registered per list and transaction
    MaxStaged   \* bound on the writes staged per transaction

ASSUME NilFn \notin Hooks
ASSUME MaxHooks \in Nat /\ MaxStaged \in Nat \ {0}

VARIABLES
    value,       \* committed value of the key in the root store
    version,     \* number of commits that wrote the key
    root,        \* state of each root ds.Txn
    readTs,      \* version the root transaction reads at
    readVal,     \* value the root transaction read
    staged,      \* number of increments staged in the transaction
    successFns,  \* txn.successFns
    errorFns,    \* txn.errorFns
    fired,       \* history: the hooks that ran, in order
    result       \* history: what txn.Commit returned ("none": not called)

txnVars == <<value, version, root, readTs, readVal, staged,
             successFns, errorFns, fired, result>>

RootStates == {"unused", "open", "committed", "discarded"}

FiredRecord == [txn : Handles, fn : Hooks, kind : {"success", "error"}]

TypeOK ==
    /\ value \in Nat
    /\ version \in Nat
    /\ root \in [Handles -> RootStates]
    /\ readTs \in [Handles -> Nat]
    /\ readVal \in [Handles -> Nat]
    /\ staged \in [Handles -> 0..MaxStaged]
    /\ successFns \in [Handles -> Seq(Hooks)]
    /\ errorFns \in [Handles -> Seq(Hooks)]
    /\ fired \in Seq(FiredRecord)
    /\ result \in [Handles -> {"none", "ok", "err"}]

TxnInit ==
    /\ value = 0
    /\ version = 0
    /\ root = [h \in Handles |-> "unused"]
    /\ readTs = [h \in Handles |-> 0]
    /\ readVal = [h \in Handles |-> 0]
    /\ staged = [h \in Handles |-> 0]
    /\ successFns = [h \in Handles |-> << >>]
    /\ errorFns = [h \in Handles |-> << >>]
    /\ fired = << >>
    /\ result = [h \in Handles |-> "none"]

-----------------------------------------------------------------------------
(* NewTxnFrom: a new root transaction with empty hook lists.  Its reads   *)
(* see the store as of its creation.                                       *)
NewTxnFrom(h) ==
    /\ root[h] = "unused"
    /\ readTs' = [readTs EXCEPT ![h] = version]
    /\ readVal' = [readVal EXCEPT ![h] = value]

(* The root store's commit check: a transaction that wrote the key fails   *)
(* when another commit wrote it after the transaction's read.              *)
Conflicts(h) == staged[h] > 0 /\ version # readTs[h]

RootCommitSucceeds(h) == root[h] = "open" /\ ~Conflicts(h)

(* Mutant: hook lists run last-registered first, as deferred calls do.     *)
RunFnsReversed(h, fns, kind) ==
    [i \in 1..Len(fns) |-> [txn |-> h, fn |-> fns[Len(fns) + 1 - i], kind |-> kind]]

(* runSuccessFns / runErrorFns: every hook of the list, in order.          *)
RunFns(h, fns, kind) ==
    [i \in 1..Len(fns) |-> [txn |-> h, fn |-> fns[i], kind |-> kind]]

(* Mutant: Discard leaves the root transaction in a state of its own.      *)
DiscardedToClosed(st) == IF st = "open" THEN "closed" ELSE st

(* Discard: t.t.Discard on a root transaction in state st; it discards an *)
(* open one and has no effect after a commit.  No hook runs.               *)
Discarded(st) == IF st = "open" THEN "discarded" ELSE st

(* t.t.Commit on the root transaction: it writes the staged increments and *)
(* finishes, or fails, which leaves it discarded (or, once committed,      *)
(* committed).                                                             *)
RootCommit(h) ==
    IF RootCommitSucceeds(h)
    THEN /\ root' = [root EXCEPT ![h] = "committed"]
         /\ IF staged[h] > 0
              THEN /\ value' = readVal[h] + staged[h]
                   /\ version' = version + 1
              ELSE UNCHANGED <<value, version>>
    ELSE /\ root' = [root EXCEPT ![h] = Discarded(@)]
         /\ UNCHANGED <<value, version>>

(* Mutant: Commit swallows the root commit's error.                        *)
CommitResultNil(h) == "ok"

(* What txn.Commit returns: nil exactly when the root commit succeeded.    *)
CommitResult(h) == IF RootCommitSucceeds(h) THEN "ok" ELSE "err"

(* Commit: t.t.Commit, then the success hooks; on error the error hooks.   *)
(* A root transaction that is not open (already committed or discarded)   *)
(* fails its commit, as does a conflicting one, which the store discards. *)
Commit(h) ==
    /\ RootCommit(h)
    /\ fired' = fired \o IF RootCommitSucceeds(h)
                         THEN RunFns(h, successFns[h], "success")
                         ELSE RunFns(h, errorFns[h], "error")
    /\ result' = [result EXCEPT ![h] = CommitResult(h)]

(* OnSuccess / OnError: a nil fn is ignored, any other is appended.        *)
OnSuccess(h, fn) ==
    /\ Len(successFns[h]) < MaxHooks
    /\ successFns' = IF fn = NilFn THEN successFns
                     ELSE [successFns EXCEPT ![h] = Append(@, fn)]

OnError(h, fn) ==
    /\ Len(errorFns[h]) < MaxHooks
    /\ errorFns' = IF fn = NilFn THEN errorFns
                   ELSE [errorFns EXCEPT ![h] = Append(@, fn)]

-----------------------------------------------------------------------------
(* Hooks of one kind that have run for h, in the order they ran.           *)
FiredFns(h, kind) ==
    LET mine == SelectSeq(fired, LAMBDA r : r.txn = h /\ r.kind = kind)
    IN  [i \in 1..Len(mine) |-> mine[i].fn]

=============================================================================
