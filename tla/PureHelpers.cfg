CONSTANTS
    MaxActions = 4
    UintModulus = 256
    MaxSkip = 3
    KnownKinds = {"String", "Int"}
    KindNames = {"String", "Int", "Bogus"}
    MaxOps = 2

SPECIFICATION Spec

INVARIANT SplitPartitionsActions
INVARIANT FindsTheOccurrence
INVARIANT PatternKeepsPlanNodes
INVARIANT KindNamesSubstituted
