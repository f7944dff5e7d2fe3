SPECIFICATION Spec
CONSTANTS
    Absent = Absent
    Plain = Plain
    w1 = w1
    w2 = w2
    k1 = k1
    k2 = k2
    Writers <- MCWriters
    Keys <- MCKeys
    MaxLate = 1
    MaxRevision = 2
INVARIANTS
    TypeOK
    ReferencesResolve
PROPERTIES
    ImplementsLog
SYMMETRY Symmetry
