SPECIFICATION Spec
CONSTANTS
    Keys <- Objects1
    PathOrder <- OneObject
    Manifests <- TwoVersions
    None = None
    Merged <- Replaces
    Handlers = {h1, h2}
    MaxCommits = 1
    MaxFiles = 1
    Branches = {"main"}
    Overlapping = TRUE
    Limit <- Calm
    MaxPushes = 2
INVARIANT MainReflected
CHECK_DEADLOCK FALSE
