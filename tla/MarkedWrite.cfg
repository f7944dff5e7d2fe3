SPECIFICATION Spec
CONSTANTS
    Profiles <- MarkedWrites
    MaxAttempt = 4
INVARIANTS
    AtMostOneWrite
    HonestOutcome
    UncertaintyHasCause
CHECK_DEADLOCK FALSE
