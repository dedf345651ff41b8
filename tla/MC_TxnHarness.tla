--------------------------- MODULE MC_TxnHarness ---------------------------
(* Model-checking instance of TxnHarness: three root transactions, two    *)
(* hook functions, two TransactionIDs.                                     *)
EXTENDS TxnHarness, TLC

CONSTANTS t1, t2, t3, f1, f2, id1, id2

MCHandles == {t1, t2, t3}
MCHooks == {f1, f2}
MCTxnIds == {id1, id2}

Symmetry == Permutations(MCHandles) \cup Permutations(MCTxnIds)
=============================================================================
