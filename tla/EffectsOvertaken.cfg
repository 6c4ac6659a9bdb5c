SPECIFICATION EffectSpec
CONSTANTS
    a = a  b = b  x = x  y = y  c1 = c1  c2 = c2  none = none
    Targets = {a}
    Resources = {x}
    Bind <- SingleBind
    Contents = {c1}
    Missing = none
    MaxGen = 2
    MaxEdits = 0
    MaxFaults = 0
    Retirable = {}
PROPERTY
    OlderPassKeepsNewerWork
