SPECIFICATION HostFairSpec
CONSTANTS
    Runs = {1}
    Epochs = {1, 2}
    Facts <- MCFacts
    MaxInstant = 1
    MaxEpoch = 2
    MaxQueue = 3
    MaxFaults = 1
INVARIANTS
    GuardianLaunchedOnce
    CancelledNeverExecutes
    HostFollowsTheGuardian
    SettledLeavesNothing
PROPERTIES
    CloseSettles
    StopsAreObserved
CHECK_DEADLOCK FALSE
