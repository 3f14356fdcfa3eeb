SPECIFICATION FairSpec
CONSTANTS
    MAXPROC = 20
    MaxPid = 20
    NULL = NULL
    TRACK_SIZE = 16
    Tracks <- DiskTracks
    INTLIMIT = 2147
    Tests <- AllTests
INVARIANTS
    DriversTypeOK
    SleepsLongEnough
    DiskTakesRequest
    SweepOrder
    NobodyForgotten
PROPERTIES
    DisksAreAStore
    TestsEnd
CHECK_DEADLOCK FALSE
