SPECIFICATION Spec
CONSTANTS
    Calls = {c1}
    None = None
    Lifetime = 4
    MaxSkew = 1
    StaleAge = 2
    Backoff = 1
    Retention = 2
    IssuedLimit = 2
    MaxRevision = 1
    MaxResolves = 2
    MaxTime = 5
CHECK_DEADLOCK FALSE
PROPERTY ResolvesUnexpired
