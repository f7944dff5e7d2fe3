SPECIFICATION FairSpec
CONSTANTS
    Callers = {c1, c2}
    Watchers = {c1}
    Authorizations = {a1}
    None = None
    Replaced = Replaced
    Absent = Absent
    RefreshTimeout = 1
    RefreshWindow = 1
    MaxCalls = 1
    LastAdmission = 0
    MaxTime = 1
    MaxLate = 0
CHECK_DEADLOCK FALSE
PROPERTIES
    AdmissionEnds
