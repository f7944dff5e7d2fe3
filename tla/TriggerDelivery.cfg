SPECIFICATION Spec
CONSTANTS
    Replicas = {r1, r2}
    Events = {e1, e2}
    NoEvent = NoEvent
    Absent = Absent
    MaxLate = 1
    MaxPending = 1
    MaxInboxAttempts = 2
    QueueCapacity = 1
    MaxRequests = 2
    MaxStops = 0
SYMMETRY ReplicaSymmetry
INVARIANTS
    TypeOK
    InboxWellFormed
PROPERTIES
    ImplementsLedger
CHECK_DEADLOCK FALSE
