SPECIFICATION WriteSpec
CONSTANTS
    MaxAttempt = 2
    Profiles <- MCSlack
INVARIANTS
    AcceptanceIsReported
CHECK_DEADLOCK FALSE
