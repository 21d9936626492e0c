SPECIFICATION FairSpec
CONSTANTS
    N = 3
    Same = {2}
    MaxTries = 3
    MaxFaults = 6
INVARIANTS MagicHeld 
PROPERTIES CompleteIsWhole Resumes
CHECK_DEADLOCK FALSE
