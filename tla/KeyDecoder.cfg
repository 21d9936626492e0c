SPECIFICATION FairSpec
CONSTANTS
    Power = power
    Volumes = {volup}
    Others = {other}
    NoKey = none
    SynDropped = dropped
    HoldMs = 2
    RepeatMs = 1
    QueueCap = 2
    MaxTime = 4
    MaxEdges = 5
INVARIANTS ClickXorHold HeldIsHeld
PROPERTIES ShortPressIsNoHold NoBurst PressActs DeadlineServed
