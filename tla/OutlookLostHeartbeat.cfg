SPECIFICATION Spec
CONSTANTS
    MaxAttempt = 3
    LosesHeartbeats = TRUE
INVARIANTS
    OneDraftIsSent
CHECK_DEADLOCK FALSE
