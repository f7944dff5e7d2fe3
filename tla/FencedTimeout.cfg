SPECIFICATION WriteSpec
CONSTANTS
    MaxAttempt = 2
    Profiles <- MCTimeout
INVARIANTS
    OutcomeIsTrue
CHECK_DEADLOCK FALSE
