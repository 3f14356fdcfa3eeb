SPECIFICATION Spec
CONSTANTS
    MAXPROC = 12
    MaxPid = 12
    NULL = NULL
    TRACK_SIZE = 16
    Tracks <- DiskTracks
    INTLIMIT = 2147
    Tests <- Again
INVARIANTS
    SleepsLongEnough
CHECK_DEADLOCK FALSE
