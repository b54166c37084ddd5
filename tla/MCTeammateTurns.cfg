CONSTANTS
    a = a
    b = b
    n1 = n1
    r1 = r1
    done = done
    None = None
    Process <- Two
    MaxRetries = 1
    MaxFaults = 1
    Name = {n1}
    Repo = {r1}
    Status = {done}
    Unknown = Unknown
    MaxSessions = 2
    MaxMishaps = 1
    Words <- MCWords
    Decimal <- MCDecimal
    Unset = Unset
    MaxArgs = 4
SPECIFICATION FairMCSpec
INVARIANTS
    SurvivorIsLastClaim
    LoneSendRoundTrip
    RowsNameTheirSession
    PromptIsData
PROPERTIES
    WaitEnds
CHECK_DEADLOCK FALSE
