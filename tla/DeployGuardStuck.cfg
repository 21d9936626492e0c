SPECIFICATION FairSpec
CONSTANTS
    Systems = {a, x, y}
    Good = {a}
    First = a
    MaxGens = 3
    Events = {}
PROPERTY ComesBack
CHECK_DEADLOCK FALSE
