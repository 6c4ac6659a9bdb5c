SPECIFICATION ControlSpec
CONSTANTS
    Execs = {1, 2}
    Epochs = {1, 2}
    Local = {1}
    Results <- MCResults
    Refusals <- MCRefusals
    MaxRestarts = 1
    MaxLosses = 1
    Window = 1
INVARIANTS
    ResultsAreKept
    NothingOutlivesItsEpoch
PROPERTIES
    ResultsAreTakenOver
    HandoverCompletes
CHECK_DEADLOCK FALSE
