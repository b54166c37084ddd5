CONSTANTS
    a = a
    b = b
    None = None
    Process <- Two
    MaxRetries = 1
    MaxFaults = 1
SPECIFICATION SendSpec
INVARIANTS
    PriorTurnIsNotMistaken
CHECK_DEADLOCK FALSE
