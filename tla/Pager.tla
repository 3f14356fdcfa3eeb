------------------------------- MODULE Pager -------------------------------
(***************************************************************************)
(* Phase 5, src/phase5/phase5.c and p1.c: virtual memory.  A process that  *)
(* touches a page the MMU has no mapping for leaves a fault in a ring and  *)
(* waits; pagers take faults, choose a frame, write the page in it to the  *)
(* swap disk, and fill it.  The switch hook of phase 1 maps the pages of   *)
(* the process that gets the processor.                                    *)
(*                                                                         *)
(* The MMU, the swap disk and the lower phases are external.  The          *)
(* processes are programs, sequences of calls.                             *)
(***************************************************************************)
EXTENDS LowerPhases, SequencesExt, TLC

CONSTANTS
    START5,        \* the pid of start5; the pagers come next, and its children
    Tests          \* by name, the tests; one of them runs

ASSUME PagerAssumption ==
    /\ START5 \in Nat \ {0}
    /\ \A name \in DOMAIN Tests :
          Tests[name].pages \in Nat \ {0} /\ Tests[name].frames \in Nat \ {0}

PAGER_PRIORITY == 2
NO_OWNER == -1
NO_FRAME == -1
NO_DISK_BLOCK == -1
UNUSED == 500
ON_DISK == 501
IN_PAGE_TABLE == 502
BLANK == 503

\* Bound: a page is its beginning and its rest, each of which has one value.
PARTS == 2
Offsets == 0 .. PARTS-1
PageOf(addr) == addr \div PARTS
OffsetOf(addr) == addr % PARTS

\* The mailboxes vmInitReal makes, and the one a faulting process p makes.
FramesList == <<"framesList", 0>>
FrameLock == <<"frameLock", 0>>
FaultMBox == <<"fault", 0>>
Reply(p) == <<"reply", p>>
Mailboxes == [b \in {FramesList, FrameLock, FaultMBox} |-> Box(1)]

VARIABLES
    test,          \* the name of the test that runs
    sys,           \* the machine of LowerPhases
    pc,            \* per pid, what it does when it runs next
    prog, line,    \* per pid, the function it runs, and the call it is at
    processes,     \* per entry, the page table
    frameTable,
    faults, currentFault, nextFault,    \* the ring of faults and its two ends
    numPages, maxPagerPid,
    clockHand, nextEmptyDiskBlock,
    local,         \* per pid, the variables of Pager, FaultHandler, vmDestroyReal
    mmu,           \* the mappings, and per frame its contents and its dirty bit
    swap,          \* the swap disk: the contents of the blocks written
    vmStats,
    slices,        \* time slices that can still end (bound)
    answer         \* per pid, what it has read last (history)

faultVars == <<faults, currentFault, nextFault>>
globals == <<numPages, maxPagerPid>>
tables == <<processes, frameTable, clockHand, nextEmptyDiskBlock>>
program == <<test, prog, slices>>
vars == <<test, sys, pc, prog, line, processes, frameTable, faultVars, globals, clockHand,
          nextEmptyDiskBlock, local, mmu, swap, vmStats, slices, answer>>

Test == Tests[test]
Pages == 0 .. Test.pages-1
Frames == 0 .. Test.frames-1
Pagers == START5+1 .. START5+Test.pagers
numPagers == Test.pagers

\* What is at an address: the process that wrote it, and what.
Zero == <<0, 0>>
Zeroes == [o \in Offsets |-> Zero]

me == sys.cur
Runs(where) == me # IDLE /\ pc[me] = where
Then(where) == pc' = [pc EXCEPT ![me] = where]
Call == Test.code[prog[me]][line[me]]
MakesCall(name) ==
    Runs("user") /\ line[me] <= Len(Test.code[prog[me]]) /\ Call.call = name
Returns == Then("user") /\ line' = [line EXCEPT ![me] = @ + 1]

Entry(p) == p % MAXPROC
PTE(p, page) == processes[Entry(p)][page]

-----------------------------------------------------------------------------
(***************************************************************************)
(* The MMU and the hooks.                                                  *)
(***************************************************************************)
\* MmuMap of a page that is mapped already: the sources do not say whether it
\* replaces the mapping or is refused, so a test says which may be.
MmuMap(map, page, frame) ==
    IF page \in DOMAIN map /\ ~mmu.replaces THEN map ELSE (page :> frame) @@ map
MmuUnmap(map, page) == [q \in DOMAIN map \ {page} |-> map[q]]

\* p1_switch: only what is behind the pagers has pages to map.
Hooked(p) == numPages # -1 /\ p > maxPagerPid
Remapped(table, map, old, new) ==
    LET left == IF ~Hooked(old) THEN map
                ELSE [q \in {q \in DOMAIN map : table[Entry(old)][q].state = UNUSED} |-> map[q]]
        own == IF ~Hooked(new) THEN <<>>
               ELSE LET mine == table[Entry(new)]
                    IN  [q \in {q \in Pages : mine[q].state = IN_PAGE_TABLE} |-> mine[q].frame]
    IN  IF mmu.replaces THEN own @@ left ELSE left @@ own

\* Mutant: the pages of the process before stay mapped.
P1SwitchOnly(table, unit, new) ==
    [unit EXCEPT !.map = IF new = me \/ ~unit.on THEN @ ELSE Remapped(table, @, IDLE, new)]
P1Switch(table, unit, new) ==
    [unit EXCEPT !.map = IF new = me \/ ~unit.on THEN @ ELSE Remapped(table, @, me, new)]

\* A call of the lower phases makes m of the machine; if that leaves another
\* process running, the hook is called, with the page tables and the MMU as the
\* caller has left them.
DoesWith(table, unit, m) == sys' = m /\ mmu' = P1Switch(table, unit, sys'.cur)
Does(m) == DoesWith(processes, mmu, m)

\* p1_fork: a page table for the new process.
NewPageTable ==
    [page \in Pages |-> [state |-> UNUSED, frame |-> NO_FRAME, diskBlock |-> NO_DISK_BLOCK]]
P1Fork(pid) ==
    IF numPages = -1 THEN processes ELSE [processes EXCEPT ![Entry(pid)] = NewPageTable]

-----------------------------------------------------------------------------
(***************************************************************************)
(* VmInit and VmDestroy.                                                   *)
(***************************************************************************)
UnusedFrame == [used |-> FALSE, ownerPid |-> NO_OWNER, pageNumber |-> -1,
                blank |-> TRUE, locked |-> FALSE]

\* vmInit, vmInitReal: the frame table, the mailboxes, and the pagers, which are
\* no stronger than the caller.
VmInit ==
    /\ MakesCall("VmInit")
    /\ LET forked[i \in 0 .. numPagers] ==
               IF i = 0 THEN [sys EXCEPT !.box = Mailboxes]
               ELSE Forked(forked[i-1], PAGER_PRIORITY)
       IN  sys' = forked[numPagers]
    /\ frameTable' = [f \in Frames |-> UnusedFrame]
    /\ processes' = [e \in DOMAIN processes |-> <<>>]
    /\ maxPagerPid' = START5 + numPagers
    /\ numPages' = Test.pages
    /\ mmu' = [mmu EXCEPT !.on = TRUE]
    /\ Returns
    /\ UNCHANGED <<program, faultVars, clockHand, nextEmptyDiskBlock, local, swap, vmStats,
                   answer>>

\* vmDestroyReal: the MMU is turned off, then each pager is sent a message and
\* zapped.
VmDestroy ==
    /\ MakesCall("VmDestroy")
    /\ IF numPages = -1 THEN Returns /\ UNCHANGED <<local, mmu>>
       ELSE /\ mmu' = [mmu EXCEPT !.on = FALSE, !.map = <<>>]
            /\ local' = [local EXCEPT ![me].fault = 1]
            /\ Then("destroy")
            /\ UNCHANGED line
    /\ UNCHANGED <<program, sys, tables, faultVars, globals, swap, vmStats, answer>>

DestroySend ==
    /\ Runs("destroy")
    /\ local[me].fault <= numPagers
    /\ Does(Sent(sys, FaultMBox))
    /\ Then("destroyZap")
    /\ UNCHANGED <<program, line, tables, faultVars, globals, local, swap, vmStats, answer>>

DestroyZap ==
    /\ Runs("destroyZap")
    /\ Does(Zapped(sys, maxPagerPid - numPagers + local[me].fault))
    /\ local' = [local EXCEPT ![me].fault = @ + 1]
    /\ Then("destroy")
    /\ UNCHANGED <<program, line, tables, faultVars, globals, swap, vmStats, answer>>

DestroyReturns ==
    /\ Runs("destroy")
    /\ local[me].fault > numPagers
    /\ Returns
    /\ UNCHANGED <<program, sys, tables, faultVars, globals, local, mmu, swap, vmStats, answer>>

-----------------------------------------------------------------------------
(***************************************************************************)
(* A process touches a page, and FaultHandler.                             *)
(***************************************************************************)
Touches == MakesCall("Read") \/ MakesCall("Write")

\* The running process reads or writes what is mapped.
Touch ==
    /\ Touches
    /\ PageOf(Call.addr) \in DOMAIN mmu.map
    /\ LET f == mmu.map[PageOf(Call.addr)]
       IN  IF Call.call = "Read"
           THEN /\ answer' = [answer EXCEPT ![me] = mmu.data[f][OffsetOf(Call.addr)]]
                /\ UNCHANGED mmu
           ELSE /\ mmu' = [mmu EXCEPT !.data[f][OffsetOf(Call.addr)] = <<me, Call.value>>,
                                      !.dirty[f] = TRUE]
                /\ UNCHANGED answer
    /\ Returns
    /\ UNCHANGED <<program, sys, tables, faultVars, globals, local, swap, vmStats>>

\* The handler up to its wait, entered with the MMU in the state unit.  Interrupts
\* are off until it sends.
Faults(addr, unit) ==
    /\ vmStats' = [vmStats EXCEPT !.faults = @ + 1]
    /\ faults' = [faults EXCEPT ![nextFault] = [pid |-> me, addr |-> addr]]
    /\ nextFault' = (nextFault + 1) % MAXPROC
    /\ DoesWith(processes, unit,
                Sent([sys EXCEPT !.box = (Reply(me) :> Box(1)) @@ @], FaultMBox))
    /\ Then("faulted")
    /\ UNCHANGED currentFault

Fault ==
    /\ Touches
    /\ PageOf(Call.addr) \notin DOMAIN mmu.map
    /\ mmu.on
    /\ Faults(Call.addr, mmu)
    /\ UNCHANGED <<program, line, tables, globals, local, swap, answer>>

\* A pager that touches a page the MMU has no mapping for is a faulting process
\* like any other: it waits in the handler, inside the mutex of the frames.
\* Behind the region there is no handler.
PagerFaults(addr, unit) ==
    IF PageOf(addr) \in Pages THEN Faults(addr, unit)
    ELSE Then("crashed") /\ mmu' = unit /\ UNCHANGED <<sys, faultVars, vmStats>>

FaultWaits ==
    /\ Runs("faulted")
    /\ Does(Received(sys, Reply(me)))
    /\ Then("served")
    /\ UNCHANGED <<program, line, tables, faultVars, globals, local, swap, vmStats, answer>>

\* The reply mailbox is released, and the frames' mutex wanted.
FaultServed ==
    /\ Runs("served")
    /\ local' = [local EXCEPT ![me].frame = PTE(me, PageOf(Call.addr)).frame]
    /\ Does(Sent([sys EXCEPT !.box = [b \in DOMAIN @ \ {Reply(me)} |-> @[b]]], FramesList))
    /\ Then("unlocking")
    /\ UNCHANGED <<program, line, tables, faultVars, globals, swap, vmStats, answer>>

\* Mutant: nobody is told.
TellsNobody(m) == m
TellsPager(m) == CondSent(m, FrameLock)

FaultUnlocks ==
    /\ Runs("unlocking")
    /\ frameTable' = [frameTable EXCEPT ![local[me].frame].locked = FALSE]
    /\ Does(TellsPager(sys))
    /\ Then("unlocked")
    /\ UNCHANGED <<program, line, processes, clockHand, nextEmptyDiskBlock, faultVars,
                   globals, local, swap, vmStats, answer>>

FaultReturns ==
    /\ Runs("unlocked")
    /\ Does(Received(sys, FramesList))
    /\ Then("user")
    /\ UNCHANGED <<program, line, tables, faultVars, globals, local, swap, vmStats, answer>>

-----------------------------------------------------------------------------
(***************************************************************************)
(* The pagers.                                                             *)
(***************************************************************************)
my == local[me]
Ask == faults[my.fault]
AskPage == PageOf(Ask.addr)
WantedPTE == PTE(Ask.pid, AskPage)
OldPTE == PTE(my.oldOwner, my.oldPage)

PagerWaits ==
    /\ Runs("pager")
    /\ IF IsZapped(sys) THEN Does(Quit(sys, 0)) /\ Then("gone")
       ELSE Does(Received(sys, FaultMBox)) /\ Then("called")
    /\ UNCHANGED <<program, line, tables, faultVars, globals, local, swap, vmStats, answer>>

PagerLeaves ==
    /\ Runs("called")
    /\ IsZapped(sys)
    /\ Does(Quit(sys, 0))
    /\ Then("gone")
    /\ UNCHANGED <<program, line, tables, faultVars, globals, local, swap, vmStats, answer>>

\* The fault is taken, and the frames' mutex wanted.  A pager that has faulted has
\* no page table to look at.
PagerTakesFault ==
    /\ Runs("called")
    /\ ~IsZapped(sys)
    /\ local' = [local EXCEPT ![me].fault = currentFault]
    /\ currentFault' = (currentFault + 1) % MAXPROC
    /\ LET f == faults[currentFault]
       IN  IF f.pid \in Pagers
           THEN Then("crashed") /\ UNCHANGED <<sys, mmu, vmStats>>
           ELSE /\ vmStats' = [vmStats EXCEPT !.new =
                       IF PTE(f.pid, PageOf(f.addr)).state = UNUSED THEN @ + 1 ELSE @]
                /\ Does(Sent(sys, FramesList))
                /\ Then("finding")
    /\ UNCHANGED <<program, line, tables, faults, nextFault, globals, swap, answer>>

\* findFrameNumber: the first unused frame, or else the first unlocked one from
\* the clock hand on.  Whether a frame has been referenced decides nothing: the
\* test of the reference bit always succeeds.
UnusedFrames == {f \in Frames : ~frameTable[f].used}

Unlocked == {f \in Frames : ~frameTable[f].locked}

HandTo(k) == (clockHand + k) % Test.frames
Turns == CHOOSE k \in 0 .. Test.frames-1 :
             HandTo(k) \in Unlocked /\ \A j \in 0 .. k-1 : HandTo(j) \notin Unlocked

Takes(f) ==
    /\ frameTable' = [frameTable EXCEPT ![f].locked = TRUE]
    /\ local' = [local EXCEPT ![me] =
           [@ EXCEPT !.frame = f, !.oldOwner = frameTable[f].ownerPid,
                     !.oldPage = frameTable[f].pageNumber, !.dirty = mmu.dirty[f]]]
    /\ Then("evicting")

FindFrameNumber ==
    /\ Runs("finding")
    /\ \/ /\ UnusedFrames # {}
          /\ Takes(CHOOSE f \in UnusedFrames : \A g \in UnusedFrames : f <= g)
          /\ UNCHANGED clockHand
       \/ /\ UnusedFrames = {} /\ Unlocked # {}
          /\ Takes(HandTo(Turns))
          /\ clockHand' = HandTo(Turns + 1)
    /\ UNCHANGED <<program, line, sys, processes, nextEmptyDiskBlock, faultVars, globals, mmu,
                   swap, vmStats, answer>>

\* Every frame is locked: the mutex is left, and a pager waits for one that is
\* not any more.
FindNothing ==
    /\ Runs("finding")
    /\ UnusedFrames = {} /\ Unlocked = {}
    /\ clockHand' = HandTo(Test.frames + 1)
    /\ Does(Received(sys, FramesList))
    /\ Then("noFrame")
    /\ UNCHANGED <<program, line, processes, frameTable, nextEmptyDiskBlock, faultVars,
                   globals, local, swap, vmStats, answer>>

FindWaits ==
    /\ Runs("noFrame")
    /\ Does(Received(sys, FrameLock))
    /\ Then("frameFree")
    /\ UNCHANGED <<program, line, tables, faultVars, globals, local, swap, vmStats, answer>>

FindAgain ==
    /\ Runs("frameFree")
    /\ Does(Sent(sys, FramesList))
    /\ Then("finding")
    /\ UNCHANGED <<program, line, tables, faultVars, globals, local, swap, vmStats, answer>>

\* The page in the frame.  Nobody's, or a clean one, which is on the disk or
\* blank:
EvictClean ==
    /\ Runs("evicting")
    /\ my.oldOwner = NO_OWNER \/ ~my.dirty
    /\ processes' =
          IF my.oldOwner = NO_OWNER THEN processes
          ELSE [processes EXCEPT ![Entry(my.oldOwner)][my.oldPage] =
                  [@ EXCEPT !.state = IF frameTable[my.frame].blank THEN BLANK ELSE ON_DISK,
                            !.frame = NO_FRAME]]
    /\ Then("filling")
    /\ UNCHANGED <<program, line, sys, frameTable, clockHand, nextEmptyDiskBlock, faultVars,
                   globals, local, mmu, swap, vmStats, answer>>

\* A dirty page: it is copied through a mapping of the pager's own, which stays
\* during the write; the mutex does not.
EvictDirty ==
    /\ Runs("evicting")
    /\ my.oldOwner # NO_OWNER /\ my.dirty
    /\ IF OldPTE.diskBlock = NO_DISK_BLOCK
       THEN /\ processes' = [processes EXCEPT
                  ![Entry(my.oldOwner)][my.oldPage].diskBlock = nextEmptyDiskBlock]
            /\ nextEmptyDiskBlock' = nextEmptyDiskBlock + 1
       ELSE UNCHANGED <<processes, nextEmptyDiskBlock>>
    /\ LET map == MmuMap(mmu.map, my.oldPage, my.frame)
       IN  /\ local' = [local EXCEPT ![me].buffer = mmu.data[map[my.oldPage]]]
           /\ DoesWith(processes', [mmu EXCEPT !.map = map],
                       Yielded(Received(sys, FramesList)))
    /\ Then("writing")
    /\ UNCHANGED <<program, line, frameTable, clockHand, faultVars, globals, swap, vmStats,
                   answer>>

\* The disk is done.  Unless the test says otherwise it is slower than anybody.
DiskWritten ==
    \E g \in Pagers :
        /\ pc[g] = "writing"
        /\ Test.slowDisk => me = IDLE
        /\ swap' = (PTE(local[g].oldOwner, local[g].oldPage).diskBlock :> local[g].buffer) @@ swap
        /\ Does(Unblocked(sys, g))
        /\ pc' = [pc EXCEPT ![g] = "written"]
        /\ UNCHANGED <<program, line, tables, faultVars, globals, local, vmStats, answer>>

\* Mutant: the mutex is not taken again.
StaysOut(m) == m
GoesInside(m) == Sent(m, FramesList)

PagedOut ==
    /\ Runs("written")
    /\ Does(GoesInside(sys))
    /\ Then("pagedOut")
    /\ UNCHANGED <<program, line, tables, faultVars, globals, local, swap, vmStats, answer>>

\* Mutant: the page keeps its frame.
KeepsFrame(pte) == [pte EXCEPT !.state = ON_DISK]
IsOnDisk(pte) == [pte EXCEPT !.state = ON_DISK, !.frame = NO_FRAME]

EvictedDirty ==
    /\ Runs("pagedOut")
    /\ mmu' = [mmu EXCEPT !.map = MmuUnmap(@, my.oldPage)]
    /\ processes' = [processes EXCEPT ![Entry(my.oldOwner)][my.oldPage] = IsOnDisk(@)]
    /\ vmStats' = [vmStats EXCEPT !.pageOuts = @ + 1]
    /\ Then("filling")
    /\ UNCHANGED <<program, line, sys, frameTable, clockHand, nextEmptyDiskBlock, faultVars,
                   globals, local, swap, answer>>

\* Of the addresses from addr on, a page long, those that have no mapping; and the
\* MMU when those from addr to end are zero.
Unmapped(map, addr) == {a \in addr .. addr + PARTS-1 : PageOf(a) \notin DOMAIN map}
Zeroed(unit, addr, end) ==
    LET zero == {<<unit.map[PageOf(a)], OffsetOf(a)>> : a \in addr .. end-1}
    IN  [unit EXCEPT !.data = [f \in Frames |-> [o \in Offsets |->
                                   IF <<f, o>> \in zero THEN Zero ELSE @[f][o]]],
                     !.dirty = [f \in Frames |-> @[f] \/ \E o \in Offsets : <<f, o>> \in zero]]

\* A page that has never been written.  What is filled with zeroes is a page's
\* length from the address of the fault: the whole page, if the process touched
\* its beginning; or else its rest, and then the beginning of the next page, which
\* the pager has seldom a mapping for.  The frame's dirty bit becomes what it was
\* when the frame was found: the mask clears another.
FillZeroes ==
    /\ Runs("filling")
    /\ WantedPTE.state \in {UNUSED, BLANK}
    /\ frameTable' = [frameTable EXCEPT ![my.frame].blank = TRUE]
    /\ LET unit == [mmu EXCEPT !.map = MmuMap(@, AskPage, my.frame)]
           missing == Unmapped(unit.map, Ask.addr)
       IN  IF missing = {}
           THEN /\ mmu' = [Zeroed(unit, Ask.addr, Ask.addr + PARTS) EXCEPT
                              !.dirty[my.frame] = my.dirty, !.map = MmuUnmap(@, AskPage)]
                /\ Then("giving")
                /\ UNCHANGED <<sys, faultVars, vmStats>>
           ELSE LET end == CHOOSE a \in missing : \A b \in missing : a <= b
                IN  PagerFaults(end, Zeroed(unit, Ask.addr, end))
    /\ UNCHANGED <<program, line, processes, clockHand, nextEmptyDiskBlock, globals, local,
                   swap, answer>>

\* A page on the disk is read, again without the mutex.  One that is in a frame is
\* not asked for.
FillFromDisk ==
    /\ Runs("filling")
    /\ WantedPTE.state = ON_DISK
    /\ vmStats' = [vmStats EXCEPT !.pageIns = @ + 1]
    /\ frameTable' = [frameTable EXCEPT ![my.frame].blank = FALSE]
    /\ DoesWith(processes, [mmu EXCEPT !.map = MmuMap(@, AskPage, my.frame)],
                Yielded(Received(sys, FramesList)))
    /\ Then("reading")
    /\ UNCHANGED <<program, line, processes, clockHand, nextEmptyDiskBlock, faultVars, globals,
                   local, swap, answer>>

DiskRead ==
    \E g \in Pagers :
        /\ pc[g] = "reading"
        /\ Test.slowDisk => me = IDLE
        /\ LET f == faults[local[g].fault]
           IN  local' = [local EXCEPT ![g].buffer = swap[PTE(f.pid, PageOf(f.addr)).diskBlock]]
        /\ Does(Unblocked(sys, g))
        /\ pc' = [pc EXCEPT ![g] = "read"]
        /\ UNCHANGED <<program, line, tables, faultVars, globals, swap, vmStats, answer>>

PagedIn ==
    /\ Runs("read")
    /\ Does(GoesInside(sys))
    /\ Then("pagedIn")
    /\ UNCHANGED <<program, line, tables, faultVars, globals, local, swap, vmStats, answer>>

\* The copy goes wherever the page is mapped by now.  It is not unmapped: the old
\* page is.
FilledFromDisk ==
    /\ Runs("pagedIn")
    /\ IF AskPage \in DOMAIN mmu.map
       THEN /\ mmu' = [mmu EXCEPT !.data[mmu.map[AskPage]] = my.buffer,
                                  !.dirty[mmu.map[AskPage]] = TRUE,
                                  !.map = MmuUnmap(@, my.oldPage)]
            /\ Then("giving")
            /\ UNCHANGED <<sys, faultVars, vmStats>>
       ELSE PagerFaults(AskPage * PARTS, mmu)
    /\ UNCHANGED <<program, line, tables, globals, local, swap, answer>>

\* The process gets the frame, and its answer.
PagerReplies ==
    /\ Runs("giving")
    /\ processes' = [processes EXCEPT ![Entry(Ask.pid)][AskPage] =
           [@ EXCEPT !.frame = my.frame, !.state = IN_PAGE_TABLE]]
    /\ frameTable' = [frameTable EXCEPT ![my.frame] =
           [@ EXCEPT !.used = TRUE, !.ownerPid = Ask.pid, !.pageNumber = AskPage]]
    /\ DoesWith(processes', mmu, Sent(Received(sys, FramesList), Reply(Ask.pid)))
    /\ Then("pager")
    /\ UNCHANGED <<program, line, clockHand, nextEmptyDiskBlock, faultVars, globals, local, swap,
                   vmStats, answer>>

-----------------------------------------------------------------------------
(***************************************************************************)
(* The calls of the lower phases.                                          *)
(***************************************************************************)
SpawnCall ==
    /\ MakesCall("Spawn")
    /\ CanFork(sys)
    /\ prog' = [prog EXCEPT ![NextPid(sys)] = Call.f]
    /\ processes' = P1Fork(NextPid(sys))
    /\ DoesWith(processes', mmu, Forked(sys, Call.prio))
    /\ Returns
    /\ UNCHANGED <<test, slices, frameTable, clockHand, nextEmptyDiskBlock, faultVars, globals,
                   local, swap, vmStats, answer>>

\* The calls that make m of the machine and nothing else.
Makes(call, m) ==
    /\ MakesCall(call)
    /\ Does(m)
    /\ Returns
    /\ UNCHANGED <<program, tables, faultVars, globals, local, swap, vmStats, answer>>

WaitCall == Makes("Wait", Joined(sys))
SemCreateCall == Makes("SemCreate", [sys EXCEPT !.sem = Append(@, Semaphore(Call.count))])
SemPCall == MakesCall("SemP") /\ Makes("SemP", SemPed(sys, Call.sem))
SemVCall == MakesCall("SemV") /\ Makes("SemV", SemVed(sys, Call.sem))

TerminateCall ==
    /\ MakesCall("Terminate")
    /\ Does(Quit(sys, Call.status))
    /\ Then("gone")
    /\ UNCHANGED <<program, line, tables, faultVars, globals, local, swap, vmStats, answer>>

\* A time slice ends, but not between the message to a pager and its zap.
TimeSlice ==
    /\ slices > 0
    /\ HasEqual(sys)
    /\ ~Runs("destroyZap")
    /\ slices' = slices - 1
    /\ Does(Sliced(sys))
    /\ UNCHANGED <<test, pc, prog, line, tables, faultVars, globals, local, swap, vmStats,
                   answer>>

-----------------------------------------------------------------------------
\* Semaphore 0, which phase 4 has made and which nobody uses any more.
RunningSem == Semaphore(0)

NoLocals == [fault |-> 0, frame |-> 0, oldOwner |-> NO_OWNER, oldPage |-> -1, dirty |-> FALSE,
             buffer |-> Zeroes]

Init ==
    /\ test \in DOMAIN Tests
    /\ sys = Machine(START5, PAGER_PRIORITY, START5 + 1, <<>>, <<RunningSem>>)
    /\ pc = [p \in Pids |-> IF p \in Pagers THEN "pager" ELSE "user"]
    /\ prog = [p \in Pids |-> "start5"]
    /\ line = [p \in Pids |-> 1]
    /\ processes = [e \in 0 .. MAXPROC-1 |-> <<>>]
    /\ frameTable = <<>>
    /\ faults = [i \in 0 .. MAXPROC-1 |-> [pid |-> 0, addr |-> 0]]
    /\ currentFault = 0 /\ nextFault = 0
    /\ numPages = -1 /\ maxPagerPid = -1
    /\ clockHand = 0 /\ nextEmptyDiskBlock = 0
    /\ local = [p \in Pids |-> NoLocals]
    /\ \E replaces \in Test.remaps :
          mmu = [on |-> FALSE, replaces |-> replaces, map |-> <<>>,
                 data |-> [f \in Frames |-> Zeroes], dirty |-> [f \in Frames |-> FALSE]]
    /\ swap = <<>>
    /\ vmStats = [faults |-> 0, new |-> 0, pageIns |-> 0, pageOuts |-> 0]
    /\ slices = Test.slices
    /\ answer = [p \in Pids |-> Zero]

VmCalls == VmInit \/ VmDestroy \/ DestroySend \/ DestroyZap \/ DestroyReturns
FaultHandler ==
    Touch \/ Fault \/ FaultWaits \/ FaultServed \/ FaultUnlocks \/ FaultReturns
FindsFrame == FindFrameNumber \/ FindNothing \/ FindWaits \/ FindAgain
Evicts == EvictClean \/ EvictDirty \/ PagedOut \/ EvictedDirty
Fills == FillZeroes \/ FillFromDisk \/ PagedIn \/ FilledFromDisk
PagerSteps ==
    PagerWaits \/ PagerLeaves \/ PagerTakesFault \/ FindsFrame \/ Evicts \/ Fills \/ PagerReplies
LowerCalls == SpawnCall \/ WaitCall \/ SemCreateCall \/ SemPCall \/ SemVCall \/ TerminateCall

Step == VmCalls \/ FaultHandler \/ PagerSteps \/ LowerCalls
Disk == DiskWritten \/ DiskRead

Next == Step \/ Disk \/ TimeSlice

Spec == Init /\ [][Next]_vars

\* The processor executes the process it is given to, and the disk gets done.
FairSpec == Spec /\ WF_vars(Step) /\ WF_vars(Disk)
=============================================================================
