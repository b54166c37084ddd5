CONSTANTS
    w1 = w1
    w2 = w2
    e1 = e1
    e2 = e2
    Writer <- TwoWriters
    Event <- MCEvent
    MaxOps = 2
    MaxFaults = 0
SPECIFICATION TornSpec
INVARIANTS
    BothDaemonsCanAppend
CHECK_DEADLOCK FALSE
