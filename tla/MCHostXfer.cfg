SPECIFICATION FairSpec
CONSTANTS
    In = {in1}
    Out = {out1}
INVARIANTS
    InFlightIsBusy
    WokenByOwn
PROPERTIES
    KeptBytesStay
    CallsReturn
CHECK_DEADLOCK FALSE
