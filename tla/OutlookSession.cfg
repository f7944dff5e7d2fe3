SPECIFICATION Spec
CONSTANTS
    MaxAttempt = 2
    LosesHeartbeats = FALSE
INVARIANTS
    NothingWasSent
CHECK_DEADLOCK FALSE
