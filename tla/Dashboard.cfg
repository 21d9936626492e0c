SPECIFICATION FairSpec
CONSTANTS
    Lines <- Texts
    Blank <- NoText
    Rows = 9
    MaxRows = 10
    MaxBody = 11
    MaxSample = 2
INVARIANTS InSync BodyShown TaglineFits
PROPERTIES RowsStayRight FrameShown
CHECK_DEADLOCK FALSE
