SPECIFICATION FairSpec
CONSTANTS
    MAXPROC = 4
    NULL = NULL
    MINPRIORITY = 2
    ForkPriorities = {1, 2}
    BlockStatuses = {10, 11}
    TickSteps = {1}
    StaleZappers = FALSE
    ShortLimit = 100
    MaxPid = 9
INVARIANTS
    TypeOK
    ReadyListSound
    RunningIsStrongest
    ChildCountExact
    JoinGetsItsChild
    ZapWaitsForQuit
    SentinelTellsTheTruth
    ParentOutlivesChild
    PidNamesSlot
PROPERTIES
    WalksEnd
CHECK_DEADLOCK FALSE
