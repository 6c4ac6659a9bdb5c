SPECIFICATION Spec
CONSTANTS
    Execs = {1}
    Epochs = {1}
    Local = {}
    WorkloadSteps = 3
    MaxFetches = 1
    MaxRestarts = 1
    MaxFaults = 0
PROPERTY
    OldPermitStartsNothing
CHECK_DEADLOCK FALSE
