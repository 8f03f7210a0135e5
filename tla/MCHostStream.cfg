SPECIFICATION FairSpec
CONSTANTS
    Streams = 2
    MaxXfer = 2
    Eps = {in1, out1}
    Addrs = {a1, a2}
INVARIANTS
    RingIsHeld
PROPERTIES
    StreamSlotsSpec
    CallsReturn
CHECK_DEADLOCK FALSE
