SPECIFICATION Spec
CONSTANTS
    Profiles <- MCNeverTwice
    MaxAttempt = 2
INVARIANTS
    NeverTwice
CHECK_DEADLOCK FALSE
