SPECIFICATION PartsSpec
CONSTANTS
    FfFrames = 5
    FfLens = {1, 3}
    FfBlock = 2
    FfCapacity = 2
    FfPlays = 2
    MdTypes = {t1, t2}
    MdPorts = {1}
    MdHosts = {h1, h2}
    MdInsts = {i1, i2}
    MdSlots = {1, 2}
    MdBig = 1
    MdFinders = {f1}
    MdNone = MdNone
    MdCalls = 3
    MdPackets = 1
    PpEarlyStop = FALSE
    PpNobody = PpNobody
    PpStarts = 2
    PpCalls = 2
    Interp = {i1}
    Tasks = {t1}
    Capacity = 3
    Frames = {0, 2}
    Requests = {1, 3}
    GenMod = 3
    CtxGens = 2
    MaxOpens = 3
    NetRx = {r1}
    NetTx = {1, 2}
    NetSessions = 3
    IcRates = {1, 2}
    IcBits = {16, 32}
    IcNull = IcNull
    IcLateJoins = FALSE
    RxLen = 5
    RxMargin = 2
    RxSkips = {0, 2}
    RxWant = 2
    RxMax = 8
    RxTakes = 3
    HsKeep = 3
    HsListed = 1
    HsClients = {s1, s2}
    HsTarget = 1
    HsWord = 16
    HsTicks = 5
    HsStarts = 2
INVARIANTS
    FfSafe
    MdSafe
    PpSafe
    SinkStaysClosed
    NetSafe
    HsSentIsKept
PROPERTIES
    FfPlayingEnds
    MdEnds
    PpStopEnds
    GateSpec
    CloseReturns
    IcShared
    RxKept
CHECK_DEADLOCK FALSE
