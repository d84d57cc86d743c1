SPECIFICATION AccordSpec
CONSTANTS
    Keys <- OneKey
    Contents <- TwoVersions
    Archivable <- OneKey
    None = None
    Merged <- KeepsFields
    Kinds = {"Application"}
    KindOf <- KindOfKey
    Renderable <- OneKey
    Applied <- OneKey
    PathOrder <- Paths
    Handlers = {h1}
    Overlapping = FALSE
    Patient = FALSE
    MaxChanges = 3
    MaxTroubles = 0
    Limit <- Bounds
    MaxEdits = 0
    MaxDeletes = 0
    MaxGitEdits = 2
    MaxFaults = 0
    MaxRestarts = 0
PROPERTY LastChangeSurvives
CHECK_DEADLOCK FALSE
