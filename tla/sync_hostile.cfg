SPECIFICATION FairSpec
CONSTANTS
    Keys <- Objects2
    PathOrder <- LiveFiles
    Manifests <- MixedUp
    None = None
    Merged <- KeepsFields
    Handlers = {h1, h2}
    MaxCommits = 1
    MaxFiles = 2
    Branches = {"main"}
    Overlapping = TRUE
    Limit <- Hostile
    MaxPushes = 1
INVARIANT AppliedFromGit
PROPERTY EveryRequestAnswered
CHECK_DEADLOCK FALSE
