CONSTANTS
    t1 = t1  t2 = t2  t3 = t3
    f1 = f1  f2 = f2
    id1 = id1  id2 = id2
    Handles <- MCHandles
    Hooks <- MCHooks
    TxnIds <- MCTxnIds
    NilFn = NilFn
    NoTxn = NoTxn
    MaxHooks = 2
    MaxStaged = 2

SPECIFICATION Spec
SYMMETRY Symmetry

INVARIANT HarnessTypeOK
INVARIANT HooksMatchOutcome
PROPERTY TxnContractSpec

CHECK_DEADLOCK FALSE
