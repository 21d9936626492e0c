SPECIFICATION FairSpec
CONSTANTS
    Panels = {p1, p2}
    NoConn = none
    MaxFd = 5
    NConns = 3
    SockBuf = 1
    MaxStarts = 3
    MaxRestarts = 2
    MaxKeys = 2
INVARIANT NoLeak
PROPERTIES PowerFallsBack PanelServed GoneIsNoticed KeysRead
CHECK_DEADLOCK FALSE
