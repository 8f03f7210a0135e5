SPECIFICATION PartsSpec
CONSTANTS
    Event = {attach, detach}
    None = None
    Capacity = 3
    Word = 8
    Limits = {0, 2}
    MaxEmits = 5
    BrSize = 3
    BrWord = 9
    BrMax = 14
    UvcSizes = {1, 3}
    UvcRing = 5
    UvcLen = 1
    UvcMaxFrame = 2
    UvcFrames = 3
    IsoIntervals = {1, 2, 4, 8, 16, 32, 64, 128}
    IsoTicks = {1, 10}
    PaceRates = {11025, 44100, 48000}
    PacePeriods = {125, 1000}
    PaceFrame = 4
    PacePush = 62
    PaceRing = 130
    PacePackets = 11
    CrLen = 3
    CrWord = 8
    CrBurst = 2
    CrAsk = 2
    CrMax = 8
    ScDepth = 1
    ScStill = 3
    ScMax = 7
    ScPlays = 2
    CbOrders = {"ask", "finish"}
    CbMaxNum = 5
    CbOpens = 2
    HoOffers = 4
    CsDraws = 2
    CsAsks = 1
    CsStarts = 2
    CaBlocks = 3
    CaOrigin = 4
    CaHold = 1
    CaChase = 3
    CaRejoin = 2
    CaSettle = 1
    CaMax = 5
    CaTime = 5
    WsBuffer = 4
    WsPeriod = 2
    WsPrime = 2
    WsKeep = 1
    WsBlocks = {1, 3}
    WsMax = 9
    BtCapacity = 6
    BtWord = 64
    BtPackets = {1, 3}
    BtReads = {2}
    BtSlow = FALSE
    BtMax = 8
    BtEvents = 2
    BtStarts = 1
    BlPeers = {p1}
    BlVolumes = {v1, v2}
    BlRates = {r1}
    BlTracks = {t1}
    BlNone = BlNone
    BlEvents = 3
    BlCalls = 1
    BlStarts = 2
    MwTypes = {t1, t2}
    MwSlots = {1, 2}
    MwRegs = {g1, g2, g3}
    MwHits = {i1, i2}
    MwNone = MwNone
    MwLate = FALSE
    MwBreak = FALSE
    MwRefuses = FALSE
    MwCalls = 4
    MwDrops = 2
    RpWidth = 1
    RpHeight = 2
    RpColors = {0, 1}
    RpRowsMin = 1
    RpRowsMax = 3
    RpRoom = {0, 1}
    RpKeepsOld = FALSE
    RpMakes = 2
    DpRow = 6
    DpHeight = 3
    DpLine = 4
    DpStale = FALSE
    DpMakes = 4
    PvSync = 2
    PvBack = 1
    PvLines = 4
    PvFront = 1
    PvScales = {1, 2}
    PvChannels = {0, 1, 2}
    PvKeeps = TRUE
    PvMakes = 3
    RmObjs = {m1, m2}
    RmTall = {m2}
    RmLines = 1
    RmPlanes = 2
    RmGcHeap = TRUE
    RmGcNow = FALSE
    RmKeeps = TRUE
    RmOld = FALSE
    RmViews = FALSE
    RmNone = RmNone
    RmDraws = 1
    PbBits = 3
    PbBytes = {1, 7}
    PbLens = {0, 1, 4}
    PbDepth = 2
    PbPinOf <- PbPins
    PbFirstOnes = FALSE
    PbSlow = FALSE
    PbLate = FALSE
    PbLeaky = FALSE
    PbOld = FALSE
    PbMakes = 2
    QbCommands = {"caset"}
    QbChunks = 3
    QbErrs = FALSE
    QbLate = FALSE
    CtKinds = {"driver", "blind", "table"}
    CtFails = {"flip"}
    CtBlindHand = FALSE
    CtDelay = 1
    CtTop = 6
    CtGainTop = 2
    CtRaws = {0, 7}
    CtLumas = {0, 20, 130, 255}
    CtTargets = {110}
    CtBlacks = {0, 2, 40, 200}
    CtMatrices <- CtTunings
    CtGains = {14}
    CtRatios = {40}
    CtMakes = 1
    PaSyncs = {"in", "out"}
    PaFails = {"memory"}
    PaEdits = FALSE
    PaThreads = {h1, h2}
    PaShares = FALSE
    PaOpens = 3
    PaCameras <- PaCams
    PaAsked <- PaAskedSizes
INVARIANTS
    NoFalseAlarm
    BrInOrder
    UvcSafe
    IsoSafe
    CrSafe
    ScNoStartup
    CameraSafe
    HoNeverTorn
    CsSafe
    CaBeside
    WsSafe
    BluetoothSafe
    MwSafe
    PanelsSafe
    PanelsEncode
PROPERTIES
    FifoSpec
CHECK_DEADLOCK FALSE
