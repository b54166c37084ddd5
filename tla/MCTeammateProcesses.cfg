CONSTANTS
    a = a
    b = b
    c = c
    l1 = l1
    l2 = l2
    q1 = q1
    Command <- Tm
    None = None
    Verbs <- MCVerbs
    MaxFaults = 1
    Client <- Tm
    Nobody = Nobody
    Roles <- MCRoles
    MaxTurns = 2
    MaxTime = 3
    MaxTrouble = 1
    Launcher <- MCLauncher
    Killer = {q1}
    Nil = Nil
    MaxUpsets = 1
    r1 = r1
    r2 = r2
    Reader <- MCReaders
    Tasks <- MCTasks
    MaxLines = 2
SPECIFICATION MCSpec
INVARIANTS
    StartsLeaveOneDaemon
    StarterGetsItsTurn
    WaitMissesNothing
    SessionIsRecorded
    KillLeavesNothing
    LoneCompactIsTrue
SYMMETRY Symmetry
CHECK_DEADLOCK FALSE
