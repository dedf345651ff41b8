CONSTANTS
    s1 = s1  s2 = s2
    Subs <- MCSubs
    MaxResults = 2
    MaxMutations = 3

SPECIFICATION Spec

INVARIANT TypeOK
PROPERTY TestCaseReturns

\* A test case ends, and with it the main routine's steps.
CHECK_DEADLOCK FALSE
