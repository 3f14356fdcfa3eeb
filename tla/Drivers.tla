------------------------------ MODULE Drivers ------------------------------
(***************************************************************************)
(* Phase 4, src/phase4/phase4.c: the clock driver and Sleep, the two disk  *)
(* drivers and DiskRead, DiskWrite and DiskSize, and start3, which starts  *)
(* and stops the drivers.  The users are programs, sequences of calls.     *)
(*                                                                         *)
(* Every list is changed under a mailbox that serves as a mutex, so an     *)
(* action is the code from one call of phases 1 to 3 to the next; pc says  *)
(* what a process does behind the call it is in.                           *)
(***************************************************************************)
EXTENDS LowerPhases, SequencesExt, TLC

CONSTANTS
    NULL,
    TRACK_SIZE,    \* sectors of a track
    Tracks,        \* per unit, the tracks of the disk
    INTLIMIT,      \* 2^31 of the code's int, in seconds of its microseconds
    Tests          \* by name, the tests; one of them runs

Units == {0, 1}
Slots == 0 .. MAXPROC-1
Slot(p) == p % MAXPROC

\* The pids start3 finds: it is the fourth process, and forks the drivers.
START3 == 4
CLOCK == 5
Disk(u) == 6 + u
START4 == 8

\* The mailboxes start3 creates, those of the devices, and those of the table.
SleepLock == <<"sleep", 0>>
MUTEX == <<"mutex", 0>>
ClockDevice == <<"clock", 0>>
Door(u) == <<"door", u>>
QueueLock(u) == <<"queue", u>>
Device(u) == <<"disk", u>>
Private(p) == <<"private", Slot(p)>>
Boxes ==
    {SleepLock, MUTEX, ClockDevice} \cup {Door(u) : u \in Units}
    \cup {QueueLock(u) : u \in Units} \cup {Device(u) : u \in Units}
    \cup {<<"private", s>> : s \in Slots}

ASSUME DriversAssumption ==
    /\ NULL \notin Slots
    /\ TRACK_SIZE \in Nat \ {0}
    /\ Tracks \in [Units -> Nat \ {0}]
    /\ INTLIMIT \in Nat \ {0}
    /\ START4 <= MaxPid /\ MaxPid <= MAXPROC

VARIABLES
    test,          \* the name of the test that runs
    sys,           \* the machine of LowerPhases
    pc,            \* per pid, what it does when it runs next
    prog, line,    \* per pid, the function it runs, and the call it is at
    processTable,  \* the table of driver.h
    sleepQ, diskQ, \* the heads of the lists
    ptr, currTime, \* ClockDriver's variables
    job,           \* per unit, DiskDriver's copy of the request it serves
    device,        \* per unit, what the disk does
    arm, store,    \* per unit, where its head is, and the sectors written
    now,           \* the clock
    buffer,        \* per pid, the sectors of its last DiskRead
    statuses       \* what start4 has been told of its children (history)

vars == <<test, sys, pc, prog, line, processTable, sleepQ, diskQ, ptr, currTime,
          job, device, arm, store, now, buffer, statuses>>

sleepVars == <<sleepQ, ptr, currTime, now>>
diskVars == <<diskQ, job, device, arm, store, buffer>>
userVars == <<test, prog, line, statuses>>

\* The calls of programs, besides those of LowerPhases.
Sleep(n) == [call |-> "Sleep", seconds |-> n]
DiskRead(u, track, first, n) ==
    [call |-> "DiskRead", unit |-> u, track |-> track, first |-> first, sectors |-> n]
DiskWrite(data, u, track, first, n) ==
    [call |-> "DiskWrite", unit |-> u, track |-> track, first |-> first, sectors |-> n,
     data |-> data]
DiskSize(u) == [call |-> "DiskSize", unit |-> u]
Ring(u) == [call |-> "Ring", unit |-> u]
Zap(p) == [call |-> "Zap", pid |-> p]

\* What the tests call: no pids, no device but the two disks, and no function that is not there.
BLANK == <<"blank", 0>>
TestCalls == UNION {UNION {Range(t.code[f]) : f \in DOMAIN t.code} : t \in Range(Tests)}
Datas == {BLANK} \cup {c.data : c \in {d \in TestCalls : d.call = "DiskWrite"}}
CallsIn(functions) ==
    [call : {"Spawn"}, f : functions, prio : Int]
    \cup [call : {"Wait"}, prints : BOOLEAN]
    \cup [call : {"Terminate"}, status : Int]
    \cup [call : {"Sleep"}, seconds : Int]
    \cup [call : {"DiskRead"}, unit : Int, track : Int, first : Int, sectors : Int]
    \cup [call : {"DiskWrite"}, unit : Int, track : Int, first : Int, sectors : Int, data : Datas]
    \cup [call : {"DiskSize"}, unit : Units]

ASSUME TestsAssumption ==
    \A t \in DOMAIN Tests :
        /\ "start4" \in DOMAIN Tests[t].code
        /\ \A f \in DOMAIN Tests[t].code : Tests[t].code[f] \in Seq(CallsIn(DOMAIN Tests[t].code))
        /\ Tests[t].ticks \in Nat /\ Tests[t].end \in Nat /\ Tests[t].ticks <= Tests[t].end

Test == Tests[test]

\* start3, and what the test runs.
StartUp ==
    <<Spawn("ClockDriver", 2), SemP("running"), Spawn("DiskDriver0", 2),
      Spawn("DiskDriver1", 2), Spawn("start4", 3), Wait>>
ShutDown == <<Zap(CLOCK), Ring(0), Zap(Disk(0)), Ring(1), Zap(Disk(1)), Terminate(0)>>

Calls(f) ==
    IF f = "start3" THEN StartUp \o ShutDown ELSE Test.code[f]

me == sys.cur
Runs(where) == me # IDLE /\ pc[me] = where
Then(where) == pc' = [pc EXCEPT ![me] = where]

-----------------------------------------------------------------------------
(***************************************************************************)
(* The lists.  A list is a chain of pointers; one without an end keeps     *)
(* whoever walks it for ever.                                              *)
(***************************************************************************)
\* The slots of the list from s on, as far as they can be told apart.
Chain(next, s) ==
    LET at[i \in 1 .. MAXPROC+1] ==
            IF i = 1 THEN s ELSE IF at[i-1] = NULL THEN NULL ELSE next[at[i-1]]
        length == CHOOSE n \in 0 .. MAXPROC+1 : /\ n > 0 => at[n] # NULL
                                                /\ n <= MAXPROC => at[n+1] = NULL
    IN  [i \in 1 .. length |-> at[i]]

NextSleeper == [s \in Slots |-> processTable[s].nextSleeperProc]
NextDisk == [s \in Slots |-> processTable[s].nextDiskProc]
Sleepers == Chain(NextSleeper, sleepQ)
RequestList(u) == Chain(NextDisk, diskQ[u])
Endless(chain) == Len(chain) > MAXPROC

\* addToSleepQ: behind the last.
AddToSleepQ(s) ==
    IF sleepQ = NULL THEN sleepQ' = s /\ UNCHANGED processTable
    ELSE /\ processTable' = [processTable EXCEPT ![Last(Sleepers)].nextSleeperProc = s]
         /\ UNCHANGED sleepQ

\* removeFromSleepQ: its own link stays.
\* Mutant: the entry in front keeps its link.
RemoveNothing(s) == sleepQ' = sleepQ /\ UNCHANGED processTable
RemoveFromSleepQ(s) ==
    IF sleepQ = s
    THEN sleepQ' = processTable[s].nextSleeperProc /\ UNCHANGED processTable
    ELSE /\ processTable' = [t \in Slots |->
              IF t \in Range(Sleepers) /\ processTable[t].nextSleeperProc = s
              THEN [processTable[t] EXCEPT !.nextSleeperProc = processTable[s].nextSleeperProc]
              ELSE processTable[t]]
         /\ UNCHANGED sleepQ

\* From position i of the list on, the last before a track out of low .. high.
SkipTo(list, i, low, high) ==
    LET within(j) == processTable[list[j]].track \in low .. high
    IN  CHOOSE j \in i .. Len(list) :
            /\ \A k \in i+1 .. j : within(k)
            /\ j < Len(list) => ~within(j+1)

\* Mutant: first come, first served.
PositionLast(u, list, track) == Len(list)

\* addToDiskQ: behind which position of the list the request for track goes.
\* The head is being served; those behind it go up from its track, and those
\* below its track come after them, for the next sweep.
HighestTrack(u) == Tracks[u]
Position(u, list, track) ==
    LET head == processTable[list[1]].track
    IN  IF head <= track THEN SkipTo(list, 1, head, track)
        ELSE SkipTo(list, SkipTo(list, 1, head, HighestTrack(u)), 0, track)

AddToDiskQ(u, s) ==
    IF diskQ[u] = NULL THEN diskQ' = [diskQ EXCEPT ![u] = s] /\ UNCHANGED processTable
    ELSE LET list == RequestList(u)
             front == list[Position(u, list, processTable[s].track)]
         IN  /\ processTable' = [processTable EXCEPT
                    ![s].nextDiskProc = processTable[front].nextDiskProc,
                    ![front].nextDiskProc = s]
             /\ UNCHANGED diskQ

-----------------------------------------------------------------------------
(***************************************************************************)
(* The devices.                                                            *)
(***************************************************************************)
Idle == [op |-> "idle"]

\* USLOSS_DeviceOutput: a disk that is busy takes no request.
Output(u, request) ==
    device' = IF device[u] = Idle THEN [device EXCEPT ![u] = request] ELSE device

\* Sector k of what a DiskWrite finds at its buffer.
SectorOf(data, k) == <<data[1], data[2] + k>>
Content(u, at) == IF at \in DOMAIN store[u] THEN store[u][at] ELSE BLANK

\* Requests come to an end in their own time; in a patient test only when
\* there is nothing else to do, as a disk is slower than any process.
MayInterrupt == Test.patient => sys.cur = IDLE

DiskInterrupt(u) ==
    LET d == device[u]
        at == arm[u] * TRACK_SIZE + d.sector
    IN  /\ MayInterrupt
        /\ d # Idle
        /\ device' = [device EXCEPT ![u] = Idle]
        /\ arm' = IF d.op = "seek" /\ d.track \in 0 .. Tracks[u]-1
                  THEN [arm EXCEPT ![u] = d.track] ELSE arm
        /\ store' = IF d.op = "write" /\ d.sector < TRACK_SIZE
                    THEN [store EXCEPT ![u] = (at :> d.data) @@ @] ELSE store
        /\ buffer' = IF d.op = "read" /\ d.sector < TRACK_SIZE
                     THEN [buffer EXCEPT ![d.owner] = Append(@, Content(u, at))] ELSE buffer
        /\ sys' = CondSent(sys, Device(u))
        /\ UNCHANGED <<pc, processTable, diskQ, job, sleepVars, userVars>>

\* A second passes.
\* Up to second ticks the clock ticks when it likes, and up to end when there
\* is nothing else to do: two bounds of the test.
ClockInterrupt ==
    /\ \/ now < Test.ticks
       \/ sys.cur = IDLE /\ (\A u \in Units : device[u] = Idle) /\ now < Test.end
    /\ now' = now + 1
    /\ sys' = CondSent(sys, ClockDevice)
    /\ UNCHANGED <<pc, processTable, sleepQ, ptr, currTime, diskVars, userVars>>

TimeSlice ==
    /\ ~Test.patient
    /\ HasEqual(sys)
    /\ sys' = Sliced(sys)
    /\ UNCHANGED <<pc, processTable, sleepVars, diskVars, userVars>>

-----------------------------------------------------------------------------
(***************************************************************************)
(* ClockDriver.                                                            *)
(***************************************************************************)
\* It tells start3 that it runs.
ClockStart ==
    /\ Runs("ClockDriver")
    /\ Then("clockLoop")
    /\ sys' = SemVed(sys, "running")
    /\ UNCHANGED <<processTable, sleepVars, diskVars, userVars>>

\* waitDevice, unless it is zapped.
ClockLoop ==
    /\ Runs("clockLoop")
    /\ IF IsZapped(sys) THEN sys' = Quit(sys, 0) /\ Then("gone")
       ELSE sys' = Received(sys, ClockDevice) /\ Then("clockTick")
    /\ UNCHANGED <<processTable, sleepVars, diskVars, userVars>>

\* waitDevice fails if it was zapped meanwhile.
ClockTick ==
    /\ Runs("clockTick")
    /\ IF IsZapped(sys) THEN sys' = Quit(sys, 0) /\ Then("gone")
       ELSE sys' = Sent(sys, SleepLock) /\ Then("clockScan")
    /\ UNCHANGED <<processTable, sleepVars, diskVars, userVars>>

ClockScan ==
    /\ Runs("clockScan")
    /\ ptr' = sleepQ
    /\ currTime' = now
    /\ Then("clockWalk")
    /\ UNCHANGED <<sys, processTable, sleepQ, now, diskVars, userVars>>

\* Mutants: everybody is woken; nobody is woken on time.
DueAlways(s) == TRUE
DueNever(s) == processTable[s].sleepEndTime + INTLIMIT < currTime
Due(s) == processTable[s].sleepEndTime < currTime

\* A turn of the walk, and the way out of it.  A process that is woken may run
\* before the walk goes on from its link.
ClockWake ==
    /\ Runs("clockWalk")
    /\ ptr # NULL
    /\ Due(ptr)
    /\ RemoveFromSleepQ(ptr)
    /\ sys' = Sent(sys, <<"private", ptr>>)
    /\ Then("clockNext")
    /\ UNCHANGED <<ptr, currTime, now, diskVars, userVars>>

ClockNext ==
    /\ \/ Runs("clockNext")
       \/ Runs("clockWalk") /\ ptr # NULL /\ ~Due(ptr)
    /\ ptr' = processTable[ptr].nextSleeperProc
    /\ Then("clockWalk")
    /\ UNCHANGED <<sys, processTable, sleepQ, currTime, now, diskVars, userVars>>

ClockDone ==
    /\ Runs("clockWalk")
    /\ ptr = NULL
    /\ sys' = Received(sys, SleepLock)
    /\ Then("clockLoop")
    /\ UNCHANGED <<processTable, sleepVars, diskVars, userVars>>

-----------------------------------------------------------------------------
(***************************************************************************)
(* DiskDriver, of unit u: it waits at its door, serves the list from its   *)
(* head until it is empty, and goes back to the door.                      *)
(***************************************************************************)
\* While they talk to a disk, drivers and callers exclude each other.
\* Mutant: they do not.
TakeMutexFreely(where) == Then(where) /\ UNCHANGED sys
TakeMutex(where) == Then(where) /\ sys' = Sent(sys, MUTEX)

DiskRuns(u, where) == me = Disk(u) /\ pc[me] = where

DiskWait(u) ==
    /\ DiskRuns(u, "diskLoop")
    /\ IF IsZapped(sys) THEN sys' = Quit(sys, 0) /\ Then("gone")
       ELSE sys' = Received(sys, Door(u)) /\ Then("diskWoken")
    /\ UNCHANGED <<processTable, sleepVars, diskVars, userVars>>

\* The head of the list is copied and the arm sent to its track.
DiskTake(u) ==
    /\ DiskRuns(u, "diskWoken") \/ DiskRuns(u, "diskNotified")
    /\ IF pc[me] = "diskWoken" /\ IsZapped(sys)
       THEN sys' = Quit(sys, 0) /\ Then("gone") /\ UNCHANGED job
       ELSE IF diskQ[u] = NULL THEN Then("diskLoop") /\ UNCHANGED <<sys, job>>
       ELSE LET e == processTable[diskQ[u]]
            IN  /\ job' = [job EXCEPT ![u] =
                     [owner |-> e.pid, op |-> e.operation, track |-> e.track,
                      sector |-> e.first, sectors |-> e.sectors, done |-> 0,
                      data |-> e.buffer]]
                /\ TakeMutex("diskSeek")
    /\ UNCHANGED <<processTable, sleepVars, diskQ, device, arm, store, buffer, userVars>>

\* changeTrack.
DiskSeek(u) ==
    /\ DiskRuns(u, "diskSeek")
    /\ Output(u, [op |-> "seek", track |-> job[u].track, sector |-> 0])
    /\ sys' = Received(sys, Device(u))
    /\ Then("diskSeekDone")
    /\ UNCHANGED <<processTable, sleepVars, diskQ, job, arm, store, buffer, userVars>>

DiskSeekDone(u) ==
    /\ DiskRuns(u, "diskSeekDone")
    /\ sys' = Received(sys, MUTEX)
    /\ Then("diskSector")
    /\ UNCHANGED <<processTable, sleepVars, diskVars, userVars>>

\* The loop over the sectors: the next one, on the next track if this one has
\* ended, or the end of the request.
\* Mutants: the first sector of the next track is not sector 0; the sector is not
\* reset.
NextTrackFirst(u) == [job EXCEPT ![u].track = @ + 1, ![u].sector = 1]
NextTrackOnly(u) == [job EXCEPT ![u].track = @ + 1]
NextTrack(u) == [job EXCEPT ![u].track = @ + 1, ![u].sector = 0]

DiskSector(u) ==
    /\ DiskRuns(u, "diskSector")
    /\ IF job[u].done = job[u].sectors
       THEN sys' = Sent(sys, QueueLock(u)) /\ Then("diskUnlink") /\ UNCHANGED job
       ELSE IF job[u].sector = TRACK_SIZE
       THEN TakeMutex("diskSeek") /\ job' = NextTrack(u)
       ELSE TakeMutex("diskTransfer") /\ UNCHANGED job
    /\ UNCHANGED <<processTable, sleepVars, diskQ, device, arm, store, buffer, userVars>>

DiskTransfer(u) ==
    /\ DiskRuns(u, "diskTransfer")
    /\ Output(u, [op |-> job[u].op, owner |-> job[u].owner, sector |-> job[u].sector,
                  data |-> SectorOf(job[u].data, job[u].done)])
    /\ sys' = Received(sys, Device(u))
    /\ Then("diskTransferred")
    /\ UNCHANGED <<processTable, sleepVars, diskQ, job, arm, store, buffer, userVars>>

DiskTransferred(u) ==
    /\ DiskRuns(u, "diskTransferred")
    /\ sys' = Received(sys, MUTEX)
    /\ job' = [job EXCEPT ![u].done = @ + 1, ![u].sector = @ + 1]
    /\ Then("diskSector")
    /\ UNCHANGED <<processTable, sleepVars, diskQ, device, arm, store, buffer, userVars>>

\* What becomes the head of the list when its head has been served.
\* Mutant: nothing does.
NobodyNext(u) == NULL
NextRequest(u) == processTable[diskQ[u]].nextDiskProc

\* The entry that was the head is cut off from the list.
DiskUnlink(u) ==
    /\ DiskRuns(u, "diskUnlink")
    /\ diskQ' = [diskQ EXCEPT ![u] = NextRequest(u)]
    /\ processTable' = [processTable EXCEPT ![diskQ[u]].nextDiskProc = NULL]
    /\ sys' = Received(sys, QueueLock(u))
    /\ Then("diskNotify")
    /\ UNCHANGED <<sleepVars, job, device, arm, store, buffer, userVars>>

DiskNotify(u) ==
    /\ DiskRuns(u, "diskNotify")
    /\ sys' = Sent(sys, Private(job[u].owner))
    /\ Then("diskNotified")
    /\ UNCHANGED <<processTable, sleepVars, diskVars, userVars>>

-----------------------------------------------------------------------------
(***************************************************************************)
(* The programs: the next call of the running one.                         *)
(***************************************************************************)
Call == Calls(prog[me])[line[me]]
MakesCall(name) ==
    Runs("user") /\ line[me] <= Len(Calls(prog[me])) /\ Call.call = name
CallIsOver == line' = [line EXCEPT ![me] = @ + 1]

\* fork1, and Spawn of phase 3.
UserSpawn ==
    /\ MakesCall("Spawn")
    /\ CanFork(sys)
    /\ LET child == NextPid(sys)
       IN  /\ sys' = Forked(sys, Call.prio)
           /\ prog' = [prog EXCEPT ![child] = Call.f]
           /\ pc' = [pc EXCEPT ![child] =
                CASE Call.f = "ClockDriver" -> "ClockDriver"
                  [] Call.f \in {"DiskDriver0", "DiskDriver1"} -> "diskLoop"
                  [] OTHER -> "user"]
    /\ CallIsOver
    /\ UNCHANGED <<test, processTable, sleepVars, diskVars, statuses>>

UserWait ==
    /\ MakesCall("Wait")
    /\ sys' = Joined(sys)
    /\ Then("waited")
    /\ UNCHANGED <<processTable, sleepVars, diskVars, userVars>>

UserWaited ==
    /\ Runs("waited")
    /\ statuses' = IF prog[me] = "start4" THEN Append(statuses, sys.code[sys.got[me]])
                   ELSE statuses
    /\ Then("user")
    /\ CallIsOver
    /\ UNCHANGED <<test, prog, sys, processTable, sleepVars, diskVars>>

UserTerminate ==
    /\ MakesCall("Terminate")
    /\ sys' = Quit(sys, Call.status)
    /\ Then("gone")
    /\ UNCHANGED <<processTable, sleepVars, diskVars, userVars>>

\* The calls of start3: P of semRunning, the doors, zap.
UserCallsPhase1 ==
    /\ \/ MakesCall("SemP") /\ sys' = SemPed(sys, Call.sem)
       \/ MakesCall("Ring") /\ sys' = Sent(sys, Door(Call.unit))
       \/ MakesCall("Zap") /\ sys' = Zapped(sys, Call.pid)
    /\ CallIsOver
    /\ UNCHANGED <<test, prog, statuses, pc, processTable, sleepVars, diskVars>>

Int32(n) == ((n + INTLIMIT) % (2 * INTLIMIT)) - INTLIMIT

\* sleepReal: into the list, and to sleep.
SleepCall ==
    /\ MakesCall("Sleep")
    /\ IF Call.seconds < 0
       THEN CallIsOver /\ UNCHANGED <<sys, pc, processTable>>
       ELSE /\ processTable' = [processTable EXCEPT
                  ![Slot(me)].pid = me, ![Slot(me)].startTime = now,
                  ![Slot(me)].sleepEndTime = Int32(now + Call.seconds)]
            /\ sys' = Sent(sys, SleepLock)
            /\ Then("sleepAdd")
            /\ UNCHANGED line
    /\ UNCHANGED <<test, prog, statuses, sleepVars, diskVars>>

SleepAdd ==
    /\ Runs("sleepAdd")
    /\ IF Endless(Sleepers)
       THEN Then("spins") /\ UNCHANGED <<sys, processTable, sleepQ>>
       ELSE AddToSleepQ(Slot(me)) /\ sys' = Received(sys, SleepLock) /\ Then("block")
    /\ UNCHANGED <<ptr, currTime, now, diskVars, userVars>>

\* The receive from the caller's own mailbox, at the end of sleepReal,
\* diskReadReal and diskWriteReal.
Block ==
    /\ Runs("block")
    /\ sys' = Received(sys, Private(me))
    /\ Then("return")
    /\ UNCHANGED <<processTable, sleepVars, diskVars, userVars>>

Return ==
    /\ Runs("return")
    /\ Then("user")
    /\ CallIsOver
    /\ UNCHANGED <<test, prog, statuses, sys, processTable, sleepVars, diskVars>>

\* Unit 1 is any but 0: diskRead does not look at it.
UnitOf(c) == IF c.unit = 0 THEN 0 ELSE 1

\* The request of call c, in the caller's entry, and the lock of its list.
Request(c, op, data) ==
    /\ processTable' = [processTable EXCEPT ![Slot(me)] =
          [@ EXCEPT !.pid = me, !.track = c.track, !.first = c.first,
                    !.sectors = c.sectors, !.operation = op, !.buffer = data]]
    /\ sys' = Sent(sys, QueueLock(UnitOf(c)))
    /\ buffer' = [buffer EXCEPT ![me] = <<>>]
    /\ Then("diskAdd")

DiskReadCall ==
    /\ MakesCall("DiskRead")
    /\ Request(Call, "read", BLANK)
    /\ UNCHANGED <<sleepVars, diskQ, job, device, arm, store, userVars>>

DiskAdd ==
    /\ Runs("diskAdd")
    /\ AddToDiskQ(UnitOf(Call), Slot(me))
    /\ sys' = Received(sys, QueueLock(UnitOf(Call)))
    /\ Then("diskRing")
    /\ UNCHANGED <<sleepVars, job, device, arm, store, buffer, userVars>>

\* The driver's door: nothing is kept if it has been rung already.
\* Mutant: nobody rings.
RingNobody(u) == UNCHANGED sys
RingDoor(u) == sys' = CondSent(sys, Door(u))

DiskRing ==
    /\ Runs("diskRing")
    /\ RingDoor(UnitOf(Call))
    /\ Then("block")
    /\ UNCHANGED <<processTable, sleepVars, diskVars, userVars>>

\* getNumTracksOnDisk, for diskSize and for the check of diskWrite.
SizeCall ==
    /\ \/ MakesCall("DiskSize")
       \/ MakesCall("DiskWrite") /\ Call.unit \in Units
    /\ TakeMutex("size")
    /\ UNCHANGED <<processTable, sleepVars, diskVars, userVars>>

SizeOutput ==
    /\ Runs("size")
    /\ Output(Call.unit, [op |-> "tracks", sector |-> 0])
    /\ sys' = Received(sys, Device(Call.unit))
    /\ Then("sizeDone")
    /\ UNCHANGED <<processTable, sleepVars, diskQ, job, arm, store, buffer, userVars>>

SizeDone ==
    /\ Runs("sizeDone")
    /\ sys' = Received(sys, MUTEX)
    /\ IF Call.call = "DiskSize" THEN Then("user") /\ CallIsOver
       ELSE Then("diskWrite") /\ UNCHANGED line
    /\ UNCHANGED <<test, prog, statuses, processTable, sleepVars, diskVars>>

\* The first sector is on the disk; how many follow it is not looked at.
OnDisk(c) == c.track \in 0 .. Tracks[c.unit]-1 /\ c.first \in 0 .. TRACK_SIZE-1

DiskWriteCall ==
    /\ Runs("diskWrite")
    /\ OnDisk(Call)
    /\ Request(Call, "write", Call.data)
    /\ UNCHANGED <<sleepVars, diskQ, job, device, arm, store, userVars>>

DiskWriteInvalid ==
    /\ \/ MakesCall("DiskWrite") /\ Call.unit \notin Units
       \/ Runs("diskWrite") /\ ~OnDisk(Call)
    /\ Then("user")
    /\ CallIsOver
    /\ UNCHANGED <<test, prog, statuses, sys, processTable, sleepVars, diskVars>>

-----------------------------------------------------------------------------
NoProc ==
    [pid |-> 0, nextSleeperProc |-> NULL, nextDiskProc |-> NULL, startTime |-> 0,
     sleepEndTime |-> 0,
     track |-> 0, first |-> 0, sectors |-> 0, buffer |-> BLANK, operation |-> "read"]
NoJob ==
    [owner |-> IDLE, op |-> "read", track |-> 0, sector |-> 0, sectors |-> 0, done |-> 0,
     data |-> BLANK]

\* start3 has initialised its tables and mailboxes, and the disks are blank.
Init ==
    /\ test \in DOMAIN Tests
    /\ sys = Machine(START3, 3, CLOCK, [b \in Boxes |-> Box(1)],
                     [s \in {"running"} |-> Semaphore(0)])
    /\ pc = [p \in Pids |-> "user"]
    /\ prog = [p \in Pids |-> "start3"]
    /\ line = [p \in Pids |-> 1]
    /\ processTable = [s \in Slots |-> NoProc]
    /\ sleepQ = NULL /\ ptr = NULL /\ currTime = 0 /\ now = 0
    /\ diskQ = [u \in Units |-> NULL]
    /\ job = [u \in Units |-> NoJob]
    /\ device = [u \in Units |-> Idle]
    /\ arm = [u \in Units |-> 0]
    /\ store = [u \in Units |-> <<>>]
    /\ buffer = [p \in Pids |-> <<>>]
    /\ statuses = <<>>

ClockDriver ==
    ClockStart \/ ClockLoop \/ ClockTick \/ ClockScan \/ ClockWake \/ ClockNext \/ ClockDone

DiskDriver(u) ==
    \/ DiskWait(u) \/ DiskTake(u) \/ DiskSeek(u) \/ DiskSeekDone(u)
    \/ DiskSector(u) \/ DiskTransfer(u) \/ DiskTransferred(u) \/ DiskUnlink(u) \/ DiskNotify(u)

User ==
    \/ UserSpawn \/ UserWait \/ UserWaited \/ UserTerminate \/ UserCallsPhase1
    \/ SleepCall \/ SleepAdd \/ Block \/ Return
    \/ DiskReadCall \/ DiskAdd \/ DiskRing
    \/ SizeCall \/ SizeOutput \/ SizeDone \/ DiskWriteCall \/ DiskWriteInvalid

Next ==
    \/ \E u \in Units : DiskInterrupt(u)
    \/ ClockInterrupt
    \/ TimeSlice
    \/ ClockDriver
    \/ \E u \in Units : DiskDriver(u)
    \/ User

Spec == Init /\ [][Next]_vars

\* The processor executes the process it is given to, disks finish, the clock
\* ticks, and equals get their turn.
FairSpec ==
    /\ Spec
    /\ WF_vars(ClockDriver \/ (\E u \in Units : DiskDriver(u)) \/ User)
    /\ \A u \in Units : WF_vars(DiskInterrupt(u))
    /\ WF_vars(ClockInterrupt)
=============================================================================
