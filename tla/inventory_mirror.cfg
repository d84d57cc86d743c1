SPECIFICATION Spec
CONSTANTS
    Keys = {a1, s1}
    Contents = {x, y}
    Archivable = {a1, s1}
    None = None
    Kinds = {"Application", "ApplicationSet"}
    KindOf <- KindOfKey
    Applications = {a1}
    Renderable = {a1, s1}
    Applied = {a1}
    Limit <- Bounds
    MaxEdits = 3
    MaxDeletes = 1
    MaxFaults = 0
    MaxForeign = 0
    MaxRestarts = 1
INVARIANT TypeOK
INVARIANT CacheMeansExported
INVARIANT RestMirrors
CHECK_DEADLOCK FALSE
