SPECIFICATION AccordSpec
CONSTANTS
    Keys <- OneKey
    Contents <- TwoVersions
    Archivable <- OneKey
    None = None
    Merged <- Replaces
    Kinds = {"Application"}
    KindOf <- KindOfKey
    Renderable <- OneKey
    Applied <- OneKey
    PathOrder <- Paths
    Handlers = {h1}
    Overlapping = FALSE
    Patient = TRUE
    MaxChanges = 3
    MaxTroubles = 0
    Limit <- Bounds
    MaxEdits = 2
    MaxDeletes = 0
    MaxGitEdits = 1
    MaxFaults = 0
    MaxRestarts = 0
PROPERTY EventuallyInSync
CHECK_DEADLOCK FALSE
