-------------------------- MODULE DriverProperties --------------------------
(***************************************************************************)
(* What the drivers of phase 4 promise.                                    *)
(***************************************************************************)
EXTENDS DriverTests

Pointers == Slots \cup {NULL}
Positions == {"user", "gone", "waited", "ClockDriver", "clockLoop", "clockTick",
    "clockScan", "clockWalk", "clockNext", "diskLoop", "diskWoken", "diskSeek",
    "diskSeekDone", "diskSector", "diskTransfer", "diskTransferred", "diskUnlink",
    "diskNotify", "diskNotified", "sleepAdd", "spins", "block", "return", "diskAdd",
    "diskRing", "size", "sizeDone", "diskWrite"}

\* Type invariant.
DriversTypeOK ==
    /\ sys.cur \in Pids \cup {IDLE}
    /\ pc \in [Pids -> Positions]
    /\ line \in [Pids -> Nat]
    /\ sleepQ \in Pointers /\ ptr \in Pointers
    /\ diskQ \in [Units -> Pointers]
    /\ \A s \in Slots : /\ processTable[s].nextSleeperProc \in Pointers
                        /\ processTable[s].nextDiskProc \in Pointers
    /\ \A u \in Units : /\ arm[u] \in 0 .. Tracks[u]-1
                       /\ job[u].track \in 0 .. Tracks[u]-1
                       /\ job[u].sector \in 0 .. TRACK_SIZE
    /\ now \in 0 .. Test.end

\* The call process p is in, if it is in one.
InCall(p, name) ==
    pc[p] \notin {"user", "gone", "waited"} /\ prog[p] \in DOMAIN Test.code
    /\ Calls(prog[p])[line[p]].call = name

\* p is on its way into the receive from its own mailbox, or in it, and
\* nothing has been sent there.
Unanswered(p) ==
    /\ sys.box[Private(p)].held = 0
    /\ \/ pc[p] \in {"diskRing", "block"}
       \/ pc[p] = "return" /\ p \in Waiting(sys, Private(p))

\* What the tests have to be like for some of what follows.  No function goes to
\* sleep twice: whoever was woken may find a link left in its entry when it
\* sleeps again.  The sleeps end within the code's int.  And the sectors that are
\* asked for are on the disk: diskRead looks at none of them, diskWrite at the
\* first.
Sleeps(c) == c.call = "Sleep" /\ ~(c.seconds < 0)
SleepsOnce(tests) ==
    \A t \in DOMAIN tests : \A f \in DOMAIN tests[t].code :
        \A i, j \in DOMAIN tests[t].code[f] :
            Sleeps(tests[t].code[f][i]) /\ Sleeps(tests[t].code[f][j]) => i = j
SleepsFit(tests) ==
    \A t \in DOMAIN tests : \A f \in DOMAIN tests[t].code :
        \A i \in DOMAIN tests[t].code[f] :
            Sleeps(tests[t].code[f][i]) => tests[t].end + tests[t].code[f][i].seconds < INTLIMIT
FitsDisk(u, track, first, sectors) ==
    /\ track \in 0 .. Tracks[u]-1 /\ first \in 0 .. TRACK_SIZE /\ sectors \in Nat
    /\ track * TRACK_SIZE + first + sectors <= Tracks[u] * TRACK_SIZE
IsRequest(c) ==
    \/ c.call = "DiskRead"
    \/ c.call = "DiskWrite" /\ c.unit \in Units /\ OnDisk(c)
RequestsFit(tests) ==
    \A t \in DOMAIN tests : \A f \in DOMAIN tests[t].code :
        \A i \in DOMAIN tests[t].code[f] :
            LET c == tests[t].code[f][i]
            IN  IsRequest(c) => FitsDisk(UnitOf(c), c.track, c.first, c.sectors)

\* Nobody is woken from Sleep before the seconds it asked for have passed.
SleepsLongEnough ==
    \A p \in Pids :
        InCall(p, "Sleep") /\ pc[p] = "return" /\ p \notin Waiting(sys, Private(p)) =>
            now >= processTable[Slot(p)].startTime + Calls(prog[p])[line[p]].seconds

\* A request is given to a disk only when both disks are idle: the mutex of
\* changeTrack, getNumTracksOnDisk and the sector loop keeps every other one
\* off, so that none is refused and no interrupt goes to the wrong process.
DiskTakesRequest ==
    Runs("diskSeek") \/ Runs("diskTransfer") \/ Runs("size") =>
        \A u \in Units : device[u] = Idle /\ Waiting(sys, Device(u)) = {}

\* The requests behind the one that is served are in the order of a sweep up
\* from its track, and those it has passed in the order of the next sweep
\* (addToDiskQ), whatever came when.
SweepOrder ==
    \A u \in Units :
        LET track == [i \in DOMAIN RequestList(u) |-> processTable[RequestList(u)[i]].track]
            sweep(i) == IF track[i] >= track[1] THEN 0 ELSE 1
        IN  \A i, j \in DOMAIN track : i < j =>
                \/ sweep(i) < sweep(j)
                \/ sweep(i) = sweep(j) /\ track[i] <= track[j]

\* The list the clock driver walks is that of the processes asleep, each of
\* them once, whenever nobody has the list's mutex (addToSleepQ,
\* removeFromSleepQ).
SleepersListed ==
    sys.box[SleepLock].held = 0 =>
        /\ Range(Sleepers) = {Slot(p) : p \in {q \in Pids : InCall(q, "Sleep") /\ Unanswered(q)}}
        /\ IsInjective(Sleepers)

\* A process that waits for its disk request is in the disk's list, or is the one
\* the driver has just finished.
RequestsListed ==
    \A p \in Pids : \A u \in Units :
        /\ InCall(p, "DiskRead") \/ InCall(p, "DiskWrite")
        /\ UnitOf(Calls(prog[p])[line[p]]) = u
        /\ Unanswered(p)
        => \/ Slot(p) \in Range(RequestList(u))
           \/ pc[Disk(u)] = "diskNotify" /\ job[u].owner = p

\* A disk's list that is not empty has its driver at work or on its way to it.
DriverIsAwake ==
    \A u \in Units :
        diskQ[u] # NULL /\ pc[Disk(u)] = "diskWoken" /\ Disk(u) \in Waiting(sys, Door(u)) =>
            \E p \in Pids : pc[p] = "diskRing" /\ UnitOf(Calls(prog[p])[line[p]]) = u

\* Nobody who waits for a driver is forgotten by it: no link of the sleepers leads
\* elsewhere, no doorbell that is not kept (MboxCondSend) and no request that comes
\* while a list is being emptied leaves a process behind, and no driver waits at
\* its door beside a list that is not empty.
NobodyForgotten == SleepersListed /\ RequestsListed /\ DriverIsAwake

\* Every sleeper is woken and every request served: the tests come to an end, and
\* have been told the statuses in the order the testResults record.
TestsEnd ==
    <>(pc[START4] = "gone" /\ (Test.recorded # <<>> => statuses = Test.recorded))

-----------------------------------------------------------------------------
(***************************************************************************)
(* The disks are a DiskStore.  A request takes effect when the driver      *)
(* takes it from the list: what it has not written yet counts as written,  *)
(* and what it has not read yet is what the disk holds.                    *)
(***************************************************************************)
Serving(u) ==
    pc[Disk(u)] \in {"diskSeek", "diskSeekDone", "diskSector", "diskTransfer",
                     "diskTransferred", "diskUnlink"}

Ahead(u) ==
    LET j == job[u]
        at == j.track * TRACK_SIZE + j.sector
    IN  [x \in at .. at + j.sectors - j.done - 1 |-> SectorOf(j.data, x - at + j.done)]

DiskHolds(u) == IF Serving(u) /\ job[u].op = "write" THEN Ahead(u) @@ store[u] ELSE store[u]

RequestOf(c) ==
    [unit |-> UnitOf(c), op |-> IF c.call = "DiskWrite" THEN "write" ELSE "read",
     first |-> c.track * TRACK_SIZE + c.first,
     data |-> [k \in 1 .. c.sectors |->
                 IF c.call = "DiskWrite" THEN SectorOf(c.data, k-1) ELSE BLANK]]

Asks(p) ==
    /\ pc[p] \in {"diskAdd", "diskRing", "block", "return"}
    /\ InCall(p, "DiskRead") \/ InCall(p, "DiskWrite")
RequestAt(p) == RequestOf(Calls(prog[p])[line[p]])
TakenUp(p) ==
    LET u == RequestAt(p).unit
    IN  /\ pc[p] # "diskAdd"
        /\ \/ ~Unanswered(p)
           \/ job[u].owner = p /\ (Serving(u) \/ pc[Disk(u)] = "diskNotify")
WillRead(p) ==
    LET r == RequestAt(p)
    IN  [k \in DOMAIN r.data |-> IF k <= Len(buffer[p]) THEN buffer[p][k]
                                 ELSE Content(r.unit, r.first + k - 1)]

TestRequests ==
    {RequestOf(c) : c \in {d \in UNION {UNION {Range(t.code[f]) : f \in DOMAIN t.code} : t \in Range(Tests)} :
                             d.call \in {"DiskRead", "DiskWrite"}}}

Store == INSTANCE DiskStore WITH
    Procs <- Pids,
    Requests <- TestRequests,
    Blank <- BLANK,
    disk <- [u \in Units |-> DiskHolds(u)],
    asked <- [p \in Pids |-> IF Asks(p) THEN <<RequestAt(p)>> ELSE <<>>],
    served <- [p \in Pids |-> Asks(p) /\ TakenUp(p)],
    answer <- [p \in Pids |-> IF Asks(p) /\ TakenUp(p) /\ RequestAt(p).op = "read"
                              THEN WillRead(p) ELSE buffer[p]]

\* The disks are what DiskStore says they are: a request of several sectors,
\* seeks and a change of track between them, is one indivisible step to
\* everybody else, and a read returns what was last written.
DisksAreAStore == Store!Spec
=============================================================================
