SPECIFICATION Spec
CONSTANTS
    MAXPROC = 12
    MaxPid = 20
    NULL = NULL
    MAXSEMS = 3
    Tests <- Siblinghood
INVARIANTS
    NoOrphans
CHECK_DEADLOCK FALSE
