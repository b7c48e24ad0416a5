SPECIFICATION SvSpec
CONSTANTS
    Media = {m1}
    Client = {c1, c2}
    Slot = {w1, w2}
    Contents <- Mixed
    MaxConcurrent = 1
    Starts <- Phases
    AnTopic <- AnTopics
    AnRuns <- AnRunSet
    AnMaxRows = 5
    AnMaxRetries = 1
    AqRuns <- AqInstances
    AqDefaultLimit = 2
    AqMaxLimit = 3
    AqTopLimit = 1
    AqMaxRange = 4
    AqWindow = 3
    AqWarn = 2
    AqDegraded = 4
    AqNow = 8
    RbMsg = {e1, e2}
    RbPoison = {e2}
    RbGo = {g}
    RbTs = {t}
    RbMaxRetries = 1
    RbThreshold = 2
    RbPublishers = {"go","ts"}
    RbMaxFaults = 3
    SeEntity <- SeEnts
    SeRank <- SeRanks
    SeTopic = {"t1", "t2"}
    SeRabbit = {r1, r2}
    SeClient = {"u1", "u2"}
    SeQuery <- SeAll
    SeRuns <- SeRunSet
    SeMaxRetries = 1
    SeLimit = 1
    SxReplica = {"a", "b"}
    SxRetries = 2
    SxFaults = 1
    SxCrashes = 1
    NoRuns <- NoRunSet
    NoConsumer = {"k", "r1", "r2"}
    NoInboxName <- NoNames
    NoRequired = {"pw"}
    NoMax = 2
    NoAttempts = 5
    RtRuns <- RtRunSet
    RtNode = {"n1","n2"}
    RtSocket = {"s1","s2","s3","s4"}
    RtDelivery = {"d1","d2"}
    RtNodeOf <- RtNodes
    RtUserOf <- RtUsers
    RtRoleOf <- RtRoles
    RtParty <- RtParties
    RtEvents <- RtEvs
    RtThreshold = 2
    PoRuns <- PoRunSet
    PoReplica = {"r1", "r2"}
    PoBatch = 2
    PoMaxLimit = 2
    PoPageSize = 1
    PoMaxPings = 2
    DpHandler = {1, 2}
    DpRuns <- DpRunSet
    DpGeoCount = 2
    DpRank = 2
    DpPage = 2
    DpMaxPage = 2
    MhSock = {c1, c2}
    MhUser = {w1, w2}
    MhSender = {n1}
    MhBuffer = 1
    MhNotices = 1
    MhFrames = 1
    MaUploads <- MaUploadSet
    MaReads <- MaReadSet
    MaRows <- MaRowSet
    MaOrder <- MaOrd
    MaMaxParts = 4
    MaMaxSize = 40
    MaPageLimit = 2
    MaLetters = {"d1", "d2"}
    MaReplays = 2
    GpSequences = 4
    GpRooms = {2, 4}
    GpIds = 6
    GpWorker = 1
    GpWorkers = 2
    GpCaller = {"q1", "q2"}
    GpRequests <- GpReqs
    GpCalls = 2
    GpLimit = 2
    GpWindow = 2
    GpHorizon = 4
    GpRoutine = {c1, c2}
    GpAttempts = 2
    GpBreaks = 2
    GpTokens <- GpTokenSet
    GpMetadata <- GpMetadataSet
    GpMessages <- GpMessageSet
SYMMETRY SvSymmetry
CHECK_DEADLOCK FALSE
INVARIANTS
    SvTypeOK
    SvMedia
    SvAnalytics
    SvBus
    SvSearch
    SvNotification
    SvRealtime
    SvPayment
    SvDrivers
    SvMediaHub
    SvMediaAccess
    SvPackages
PROPERTIES
    SvMediaStatus
