CONSTANTS
    d1 = d1
    s1 = s1
    c1 = c1
    c2 = c2
    e1 = e1
    e2 = e2
    Nobody = Nobody
    MaxEpoch = 3
    MaxFaults = 3
    MaxCalls = 1
    Conn <- MCConn
    Session <- MCSession
    Dispatchers <- MCDispatchers
    SidOf <- MCSidOf
    Event <- MCOneEvent
SPECIFICATION FairInboundSpec
PROPERTIES
    KeepsPromise
    EventuallyDelivered
CHECK_DEADLOCK FALSE
