SPECIFICATION Spec
CONSTANTS
    Profiles <- MCMailchimp
    MaxAttempt = 2
INVARIANTS
    FailureIsTrue
CHECK_DEADLOCK FALSE
