SPECIFICATION RpSpec
CONSTANTS
    RpWidth = 1
    RpHeight = 2
    RpColors = {0, 1}
    RpRowsMin = 1
    RpRowsMax = 2
    RpRoom = {1}
    RpKeepsOld = FALSE
    RpMakes = 1
INVARIANTS
    RpNeverOnScreen
CHECK_DEADLOCK FALSE
