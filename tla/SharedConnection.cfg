SPECIFICATION Spec
CONSTANTS
    Calls = {c1, c2}
    None = None
    Lifetime = 4
    MaxSkew = 1
    StaleAge = 2
    Backoff = 1
    Retention = 2
    IssuedLimit = 1
    MaxRevision = 2
    MaxResolves = 3
    MaxTime = 4
SYMMETRY CallSymmetry
INVARIANTS
    ForcedReadJustified
PROPERTIES
    AliveWhenAsked
    RevisionNeverGoesBack
    RejectionMovesForward
CHECK_DEADLOCK FALSE
