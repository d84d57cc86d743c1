SPECIFICATION FairSpec
CONSTANTS
    Keys = {a1}
    Contents = {x, y}
    Archivable = {a1}
    None = None
    Kinds = {"Application"}
    KindOf <- KindOfKey
    Applications = {a1}
    Renderable = {a1}
    Applied = {}
    Limit <- Bounds
    MaxEdits = 2
    MaxDeletes = 0
    MaxFaults = 1
    MaxForeign = 0
    MaxRestarts = 0
PROPERTY EventuallyMirrored
