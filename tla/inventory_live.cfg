SPECIFICATION FairSpec
CONSTANTS
    Keys = {a1, a2}
    Contents = {x}
    Archivable = {a1, a2}
    None = None
    Kinds = {"Application"}
    KindOf <- KindOfKey
    Applications = {a1, a2}
    Renderable = {a1}
    Applied = {}
    Limit <- Bounds
    MaxEdits = 1
    MaxDeletes = 1
    MaxFaults = 1
    MaxForeign = 1
    MaxRestarts = 1
PROPERTY MirroredUnlessDisturbed
PROPERTY EventuallyQuiet
CHECK_DEADLOCK FALSE
