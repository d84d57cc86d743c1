SPECIFICATION Spec
CONSTANTS
    Labels <- Labels1
    Objects <- Objects1
    Templates <- Templates1
    GitManifests <- GitManifests1
    OtherFields <- OtherFields1
    FileLines <- FileLines1
    MaxLines = 5
    MaxPaths = 12
INVARIANT PathsNameObjects
INVARIANT ObjectsKeptApart
INVARIANT EchoSettles
INVARIANT FirstDocumentOnly
INVARIANT MessageAccounts
CHECK_DEADLOCK FALSE
