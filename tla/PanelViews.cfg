SPECIFICATION Spec
CONSTANTS
    Rows = 8
    TopMargin = 1
    LogSizes = {0, 3, 7}
    EscapeForms <- CsiForms
INVARIANTS FrameCurrent PagerInRange
PROPERTIES RebootDeliberate EscapeSilent
