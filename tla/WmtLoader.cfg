SPECIFICATION FairSpec
CONSTANTS
    Names = {1, 2, 3}
    Dirs <- SampleDirs
    MaxPatchNum = 2
    MaxFaults = 2
    MaxKills = 1
INVARIANTS PatchesTold ActiveIsInitialised NoSelfStall
PROPERTY WlanUp
CHECK_DEADLOCK FALSE
