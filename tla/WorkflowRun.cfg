CONSTANTS
    Start = "s"
    Nodes <- JoinNodes
    Kind <- JoinKind
    Edges <- JoinEdges
    Branches = {"if", "else"}
    Versions <- JoinVersions
    Pinned = {"h"}
    Patient = {"h"}
    MaxRetries = 1
    Requests = {q1}
    MaxManual = 1
    MaxCrashes = 1
SPECIFICATION FairSpec
CHECK_DEADLOCK FALSE
INVARIANTS
    RunAgreesWithRows
    RowsFollowGraph
    RunningAgentIsDriven
PROPERTIES
    EndedIsFinal
    RunProgresses
