CONSTANTS
    n1 = n1  n2 = n2  w1 = w1  w2 = w2  v1 = v1  v2 = v2
    Nodes <- MCNodes
    Writers <- MCWriters
    WriterNode <- MCWriterNode
    Values <- MCValues
    MaxWrites = 2
    MaxTxnRetries = 2
    FaultBudget = 2

SPECIFICATION Spec

INVARIANT TypeOK
INVARIANT HeadsAreFrontier
PROPERTY ReplicatedDagSpec

CHECK_DEADLOCK FALSE
