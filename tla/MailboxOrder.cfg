SPECIFICATION FairSpec
CONSTANTS
    r = r
    s1 = s1
    s2 = s2
    NULL = NULL
    Sentinel = Sentinel
    Procs <- Three
    MAXMBOX = 1
    MAXSLOTS = 8
    MAXPROC = 20
    DEVICES = 0
    Clients <- OneReceiver
    Sizes = {1}
    Limits = {1}
    MaxMid = 1
INVARIANTS
    SenderNotStranded
PROPERTIES
    MailboxIsAChannel
    SendersGetThrough
CHECK_DEADLOCK FALSE
