CONSTANTS
    k1 = k1
    k2 = k2
    Task = {k1, k2}
    Conn = {1, 2, 3, 4, 5, 6, 7}
    Thread = {1, 2}
    UiCalls = {"interrupt", "answer"}
    MaxMoves = 1
    MaxDrops = 1
    t1 = t1
    Watched = {t1}
    NoThread = NoThread
    Window = 1
    MaxClock = 2
    MaxEntries = 2
    MaxDaemons = 2
SPECIFICATION MCSpec
INVARIANTS
    ShownWhenQuiet
    IdleRowWasIdle
PROPERTIES
    ServesThread
CHECK_DEADLOCK FALSE
