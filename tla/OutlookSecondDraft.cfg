SPECIFICATION Spec
CONSTANTS
    MaxAttempt = 2
    LosesHeartbeats = FALSE
INVARIANTS
    OneDraft
CHECK_DEADLOCK FALSE
