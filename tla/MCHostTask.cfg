SPECIFICATION FairSpec
CONSTANTS
    Devs = {d1, d2}
    Xfers = {x1, x2}
    None = None
    MaxDevs = 1
INVARIANTS
    TaskSafe
PROPERTIES
    CallsReturn
CHECK_DEADLOCK FALSE
