CONSTANTS
    p1 = p1
    p2 = p2
    p3 = p3
    t1 = t1
    t2 = t2
    NoPid = NoPid
    Proc <- MCProc
    Versions <- MCVersions
    MaxReclaimAttempts = 2
    MaxStalls = 1
    MaxCrashes = 1
    Call = {t1, t2}
    MaxUpsets = 5
    k1 = k1
    k2 = k2
    x1 = x1
    x2 = x2
    Bodies <- MCBodies
    Elements <- MCElements
    Resource = {k1, k2}
    NoKey = NoKey
    Blank = Blank
    MaxDownloads = 2
    MaxDepth = 1
    MaxNodes = 8
SPECIFICATION FairMCSpec
INVARIANTS
    OneInbound
    InboundIsReachable
    NoCallStranded
    RenderedAsWritten
PROPERTIES
    DaemonUpgradeEvicts
    ProxyJoinsCurrentDaemon
    ContentIsHandedOn
CHECK_DEADLOCK FALSE
