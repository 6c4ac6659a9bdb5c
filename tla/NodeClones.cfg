SPECIFICATION FairSpec
CONSTANTS
    Execs = {1}
    Epochs = {1, 2}
    Local = {1}
    WorkloadSteps = 3
    MaxFetches = 3
    MaxRestarts = 2
    MaxFaults = 1
INVARIANTS
    ResultIsBacked
    ResidualIsHonest
    EvidenceSuffices
    FetchSurvivesRestarts
    HandoverIsClean
PROPERTIES
    ImplementsCloneLedger
    LocalWorkFinishes
CHECK_DEADLOCK FALSE
