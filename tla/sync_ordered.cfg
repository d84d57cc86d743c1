SPECIFICATION Spec
CONSTANTS
    Keys <- Objects2
    PathOrder <- TwoObjects
    Manifests <- TwoVersions
    None = None
    Merged <- KeepsFields
    Handlers = {h1}
    MaxCommits = 2
    MaxFiles = 1
    Branches = {"main"}
    Overlapping = FALSE
    Limit <- Failing
    MaxPushes = 2
INVARIANT TypeOK
INVARIANT MainReflected
CHECK_DEADLOCK FALSE
