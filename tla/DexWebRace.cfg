SPECIFICATION Spec
CONSTANTS
    Connections = {k1}
    Tasks = {t1}
    None = None
    MaxSaves = 1
    MaxRefreshes = 1
    MaxRevision = 1
PROPERTIES SavedAuthorizationKept
