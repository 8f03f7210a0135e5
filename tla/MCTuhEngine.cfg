SPECIFICATION FairSpec
CONSTANTS
    Devices = {d1}
    Hubs = {h1}
    Rows = {r1}
    Pipes = {p1, p2}
    In = {in1}
    Out = {out1}
    Alts = {0, 1}
    MaxClaims = 1
    MaxSize = 1
    GenMod = 3
    None = None
INVARIANTS
    EngineSafe
PROPERTIES
    GoneEndsWait
CHECK_DEADLOCK FALSE
