SPECIFICATION Spec
CONSTANTS
    Procs = {p1, p2, p3}
    NULL = NULL
    MAXSEMS = 2
    Values = {0, 1}
    StaleLinks = FALSE
    MaxValue = 2
INVARIANTS
    SemTypeOK
    ChainIsTheBlocked
    NobodyWaitsBesideAPermit
PROPERTIES
    
    FreedTerminate
SYMMETRY Symmetry
CHECK_DEADLOCK FALSE
