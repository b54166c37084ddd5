CONSTANTS
    d1 = d1
    s1 = s1
    c1 = c1
    c2 = c2
    e1 = e1
    e2 = e2
    Nobody = Nobody
    MaxEpoch = 3
    MaxFaults = 1
    MaxCalls = 0
    Conn <- MCConn
    Session <- MCSession
    Dispatchers <- MCDispatchers
    SidOf <- MCSidOf
    Event <- MCOneEvent
SPECIFICATION InboundSpec
INVARIANTS
    NothingAckedUnstored
CHECK_DEADLOCK FALSE
