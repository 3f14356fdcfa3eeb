SPECIFICATION FairSpec
CONSTANTS
    MAXPROC = 12
    MaxPid = 20
    NULL = NULL
    MAXSEMS = 3
    Tests <- EveryTest
INVARIANTS
    UsersTypeOK
    RunsItsFunction
    ZapsOwnChild
    NoOrphans
PROPERTIES
    AllComplete
CHECK_DEADLOCK FALSE
