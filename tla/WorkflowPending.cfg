CONSTANTS
    Start = "s"
    Nodes <- JoinNodes
    Kind <- JoinKind
    Edges <- JoinEdges
    Branches = {"if", "else"}
    Versions <- JoinVersions
    Pinned = {"h"}
    Patient = {"h"}
    MaxRetries = 0
    Requests = {}
    MaxManual = 1
    MaxCrashes = 1
SPECIFICATION FairSpec
CHECK_DEADLOCK FALSE
PROPERTY InvalidPendingFailsClosed
