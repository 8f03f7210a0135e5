SPECIFICATION FfSpec
CONSTANTS
    FfFrames = 5
    FfLens = {1, 3}
    FfBlock = 2
    FfCapacity = 2
    FfPlays = 2
INVARIANT FfWhole
CHECK_DEADLOCK FALSE
