SPECIFICATION Spec
CONSTANTS
    MaxAttempt = 4
    LosesHeartbeats = TRUE
INVARIANTS
    SentIsTrue
    RefusalIsTrue
    AtMostOneSend
CHECK_DEADLOCK FALSE
