CONSTANTS
    p0 = p0
    p1 = p1
    p2 = p2
    m1 = m1
    m2 = m2
    m3 = m3
    chatA = chatA
    chatB = chatB
    r1 = r1
    r2 = r2
    NoPid = NoPid
    Settled = p0
    Proc <- Three
    MayEvict <- Upgrade
    MaxReclaimAttempts = 2
    MaxCrashes = 2
    BotInfoAttempts = 2
    MaxAttempts = 2
    MaxOutages = 3
    MaxRefusals = 2
    Message <- MCMessage
    ChatOf <- MCChatOf
    Reply = {r1, r2}
    Cap = 1
    MaxDeliveries = 3
    MaxRestarts = 1
    MaxFailures = 1
SPECIFICATION FairMCSpec
INVARIANTS
    MutualExclusion
    OneIndicator
PROPERTIES
    LockNeverWedged
    LinkComesBack
    ReactionAnsweredIsCleared
CHECK_DEADLOCK FALSE
