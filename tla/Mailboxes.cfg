SPECIFICATION Spec
CONSTANTS
    r = r
    s1 = s1
    s2 = s2
    NULL = NULL
    Sentinel = Sentinel
    Procs <- Three
    MAXMBOX = 3
    MAXSLOTS = 4
    MAXPROC = 20
    DEVICES = 1
    Clients <- AllClients
    Sizes = {1}
    Limits = {1}
    MaxMid = 9
INVARIANTS
    MailboxTypeOK
    SlotsAccounted
    ReceiverNotStranded
    EachMessageOnce
    RendezvousPairs
    ReleaseWakesTheBlocked
CHECK_DEADLOCK FALSE
