SPECIFICATION FairSpec
CONSTANTS
    Outputs <- SomeOutputs
    Tables <- SomeTables
    Port = 22
    MaxConns = 3
    PortsBuf = 5
    LineBuf = 3
    ReadBuf = 4
    Period = 2
INVARIANTS PeersRight FrameRight
PROPERTIES ChildReaped StopServed
CHECK_DEADLOCK FALSE
