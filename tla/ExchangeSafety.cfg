SPECIFICATION Spec
CONSTANTS
    Callers = {c1, c2}
    Watchers = {}
    Authorizations = {}
    None = None
    Replaced = Replaced
    Absent = Absent
    RefreshTimeout = 2
    RefreshWindow = 3
    MaxCalls = 2
    LastAdmission = 3
    MaxTime = 3
    MaxLate = 1
SYMMETRY CallerSymmetry
INVARIANTS
    TypeOK
    HeadReadable
    OneDispatchPerAdmission
    TimelyRotationIsExclusive
PROPERTIES
    CredentialMovesForward
CHECK_DEADLOCK FALSE
