SPECIFICATION FairSpec
CONSTANTS
    MAXPROC = 16
    MaxPid = 13
    START5 = 9
    Tests <- Lost
PROPERTIES
    PagedMemory
CHECK_DEADLOCK FALSE
