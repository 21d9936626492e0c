SPECIFICATION FairSpec
CONSTANTS
    Systems = {a, b, x, y}
    Good = {a, b}
    First = a
    MaxGens = 4
    Events = {"rebuild", "arm", "set", "die", "quit", "reboot"}
INVARIANT Watched
PROPERTIES IsDeadman Recovers
CHECK_DEADLOCK FALSE
