SPECIFICATION Spec
CONSTANTS
    Connections = {k1, k2}
    Tasks = {t1, t2}
    None = None
    MaxSaves = 2
    MaxRefreshes = 2
    MaxRevision = 3
SYMMETRY Symmetry
INVARIANTS FileKeepsCurrentMaterial
PROPERTIES AuthorizationNeverReverts ImportsAreNew
