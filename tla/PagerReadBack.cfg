SPECIFICATION FairSpec
CONSTANTS
    MAXPROC = 16
    MaxPid = 13
    START5 = 9
    Tests <- Back
PROPERTIES
    TestsEnd
CHECK_DEADLOCK FALSE
