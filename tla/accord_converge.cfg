SPECIFICATION AccordSpec
CONSTANTS
    Keys <- OneKey
    Contents <- TwoVersions
    Archivable <- OneKey
    None = None
    Merged <- KeepsFields
    Kinds = {"Application"}
    KindOf <- KindOfKey
    Renderable <- OneKey
    Applied <- OneKey
    PathOrder <- Paths
    Handlers = {h1}
    Overlapping = FALSE
    Patient = FALSE
    MaxChanges = 3
    MaxTroubles = 1
    Limit <- Bounds
    MaxEdits = 2
    MaxDeletes = 1
    MaxGitEdits = 2
    MaxFaults = 1
    MaxRestarts = 1
INVARIANT AccordTypeOK
INVARIANT EveryWriteHasCause
INVARIANT OthersLeftOnce
INVARIANT RestInSync
INVARIANT UnhurriedChangesSurvive
PROPERTY EchoesDieOut
CHECK_DEADLOCK FALSE
