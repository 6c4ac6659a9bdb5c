SPECIFICATION EffectSpec
CONSTANTS
    a = a  b = b  x = x  y = y  c1 = c1  c2 = c2  none = none
    Targets = {a}
    Resources = {x, y}
    Bind <- DoubleBind
    Contents = {c1, c2}
    Missing = none
    MaxGen = 2
    MaxEdits = 1
    MaxFaults = 1
    Retirable = {a}
INVARIANT
    LiveWorkIsNotQuarantined
PROPERTY
    UserWorkIsKept
