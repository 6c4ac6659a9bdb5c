SPECIFICATION FairSpec
CONSTANTS
    Runs = {r1}
    Graces <- MCGraces
    Epochs = {1, 2}
    Instances = {h1}
    RunLimit = 64
    Observations <- LinuxObservations
    Signals = {TRUE, FALSE}
    MaxTime = 1
    MaxInstant = 1
INVARIANTS
    KernelFollowsJournal
PROPERTIES
    StopsComplete
    CloseCompletes
    StorageNeverCancelsStops
    ImplementsLedger
CHECK_DEADLOCK FALSE
