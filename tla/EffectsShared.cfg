SPECIFICATION FairEffectSpec
CONSTANTS
    a = a  b = b  x = x  y = y  c1 = c1  c2 = c2  none = none
    Targets = {a, b}
    Resources = {x}
    Bind <- SharedBind
    Contents = {c1}
    Missing = none
    MaxGen = 2
    MaxEdits = 0
    MaxFaults = 1
    Retirable = {a}
INVARIANTS
    JournalHasOwner
    QuarantineHolds
    IntentIsNotLost
    LedgerMatchesDisk
PROPERTIES
    RequestsAreSettled
    RetirementEnds
