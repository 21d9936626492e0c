SPECIFICATION FairSpec
CONSTANTS
    Panels = {p1, p2}
    NoConn = none
    MaxFd = 4
    NConns = 4
    SockBuf = 1
    MaxStarts = 2
    MaxRestarts = 1
    MaxKeys = 3
PROPERTY KeysServed
CHECK_DEADLOCK FALSE
