CONSTANTS
    d1 = d1
    d2 = d2
    s1 = s1
    s2 = s2
    c1 = c1
    c2 = c2
    c3 = c3
    c4 = c4
    l1 = l1
    x1 = x1
    x2 = x2
    w1 = w1
    e1 = e1
    e2 = e2
    h1 = h1
    h2 = h2
    k1 = k1
    k2 = k2
    k3 = k3
    b1 = b1
    g1 = g1
    Nobody = Nobody
    MaxEpoch = 3
    Conn <- MCConn
    Session <- MCSession
    Dispatchers <- MCDispatchers
    SidOf <- MCSidOf
    Writer = {w1}
    Event = {e1, e2}
    MaxOps = 5
    MaxFaults = 3
    Human <- MCHuman
    Bot = {b1}
    Self = Self
    Group = {g1}
    Code <- MCCode
    Unfetched = Unfetched
    MaxPending = 2
    MaxReplies = 2
    MaxMessages = 3
    MaxEdits = 1
    Daemon = {d1, d2}
    Legacy = {l1}
    Proxy = {x1, x2}
    Stranger = Stranger
    NoServer = NoServer
    Version = {1, 2}
    VersionOf <- MCServerVersion
    Floating = {}
    Attributed = {d1, d2, l1}
    Orphaned = {l1}
    Teammates = {x2}
    Brokers = {}
    Stdio = {}
    Nameless = {d1}
    Ownerships <- MCOwnerships
    Invoking = 2
    MaxChanges = 2
    MaxFailures = 1
    a1 = a1
    o1 = o1
    o2 = o2
    m1 = m1
    m2 = m2
    Author = {a1}
    ThisBot = ThisBot
    NoId = NoId
    PageSize = 2
    MaxTexts = 3
    ToolCall = {o1, o2}
    Place = {c1, c2}
    Posted = {m1, m2}
    NoMessage = NoMessage
    PlaceOf <- MCPlaceOf
    LegacyText = {m2}
    MaxCards = 2
SPECIFICATION MCSpec
INVARIANTS
    OwnerIsAuthorised
    DefaultOwnerIsNewestDispatcher
    StaysReadable
    CodesAreShownWhereTheyCount
    PeersAreAnnounced
    CleanReportWasTrue
    OwnTextIsShown
    AnswerLandsWhole
PROPERTIES
    FactsAreKept
SYMMETRY Symmetry
CHECK_DEADLOCK FALSE
