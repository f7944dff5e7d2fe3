SPECIFICATION WriteSpec
CONSTANTS
    MaxAttempt = 2
    Profiles <- MCTrello
INVARIANTS
    OutcomeIsTrue
CHECK_DEADLOCK FALSE
