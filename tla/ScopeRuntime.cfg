CONSTANTS
    Runs = {r1}
    Graces <- MCGraces
    Timeouts = {1, 9}
    Reports <- Directs
    MaxTime = 2
    MaxInstant = 2
SPECIFICATION FairSpec
INVARIANTS
    TypeOK
    ClosedIsClean
    NoEarlyForce
PROPERTIES
    FactsAreFinal
    StopsAreForced
CHECK_DEADLOCK FALSE
