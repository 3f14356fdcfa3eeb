SPECIFICATION FairSpec
CONSTANTS
    MAXPROC = 16
    MaxPid = 13
    START5 = 9
    Tests <- AllTests
INVARIANTS
    PagerTypeOK
    FramesOwned
PROPERTIES
    PagedMemory
    TestsEnd
CHECK_DEADLOCK FALSE
