SPECIFICATION FairSpec
CONSTANTS
    Devs = {d1, d2}
    Xfers = {x1, x2}
    None = None
    MaxDevs = 1
INVARIANT AbandonedAreQueued
CHECK_DEADLOCK FALSE
