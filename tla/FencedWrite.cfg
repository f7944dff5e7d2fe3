SPECIFICATION WriteSpec
CONSTANTS
    MaxAttempt = 3
    Profiles <- MCAllProfiles
INVARIANTS
    HonestOutcome
    UncertaintyHasCause
    GuardedAcceptance
PROPERTIES
    FenceSpec
CHECK_DEADLOCK FALSE
