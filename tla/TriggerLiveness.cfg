SPECIFICATION FairSpec
CONSTANTS
    Replicas = {r1}
    Events = {e1, e2}
    NoEvent = NoEvent
    Absent = Absent
    MaxLate = 0
    MaxPending = 2
    MaxInboxAttempts = 1
    QueueCapacity = 1
    MaxRequests = 2
    MaxStops = 1
INVARIANTS
    ReplayInOrder
    AckedNeverLost
PROPERTIES
    AckedIsConsumed
CHECK_DEADLOCK FALSE
