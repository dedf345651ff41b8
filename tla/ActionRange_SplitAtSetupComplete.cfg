CONSTANTS
    MaxActions = 4

SPECIFICATION Spec

INVARIANT SplitAtSetupComplete
