SPECIFICATION WriteSpec
CONSTANTS
    MaxAttempt = 2
    Profiles <- MCGmail
INVARIANTS
    OutcomeIsTrue
CHECK_DEADLOCK FALSE
