# A TLA+ model of the CS 452 operating system

`src/` is an operating system written in five phases for USLOSS, a simulator of a single-processor machine with a
clock, two disks, four terminals and an MMU. Each phase is a library that runs on the ones before it; phases 2 to 5
are linked with *binary* libraries of the lower phases (`src/phaseN/libraries`), so the source of phase 1 in this
repository and the phase 1 that phase 2 runs on need not be the same program. That shapes the models: each phase is a
model of its own, and what it expects of the phase below is stated in it as external.

This directory holds a model of each phase, its properties, the TLC runs that check them, and the proofs about the
kernel, the mailboxes, the semaphores and the drivers. The lower three models (kernel, mailboxes, semaphores) run
clients that may make any call at any time; the upper three (user processes, drivers, virtual memory) run *programs*:
the repository's own test programs, call by call, whose recorded results the models must reproduce, and families of
our own that race.

## The system

| Component | State it keeps | Operations | Talks to |
|---|---|---|---|
| Phase 1, kernel (`phase1.c`, `kernel.h`) | `ProcTable`, `ReadyList`, `Current`, `nextPid`, the list of children and the list of zappers of each process | `fork1`, `join`, `quit`, `zap`, `blockMe`, `unblockProc`, `dispatcher`, `timeSlice`, the sentinel | every phase above, by direct calls; a context switch inside a call runs everybody else |
| Phase 2, mailboxes (`phase2.c`, `message.h`) | `MailBoxTable`, `MailSlotTable`, `processTable` (one entry per *blocking*, not per process), `numSlotsUsed`, `nextMid`, `nextSlot`, `nextProcSlot` | `MboxCreate`, `MboxRelease`, `MboxSend`, `MboxReceive`, the conditional forms, `waitDevice` | phase 1 by `blockMe` and `unblockProc` |
| Phase 2, handlers (`phase2.c`, `handler.c`) | the seven device mailboxes, `clockCounter` | clock, disk and terminal handler, system call handler | run in the process they interrupt; `MboxCondSend`, `timeSlice` |
| Phase 3, processes (`phase3.c`, `sems.h`) | its own `processTable` with a private mailbox per slot, `startFuncGlobal`, `parentPidGlobal` | `Spawn`, `Wait`, `Terminate` | `fork1`, `join`, `zap`, `quit` |
| Phase 3, semaphores | `semTable`, a chain of blocked processes per semaphore | `SemCreate`, `SemP`, `SemV`, `SemFree` | the private mailboxes |
| Phase 4, clock driver (`phase4.c`) | `sleepQ` | `Sleep`, the driver loop | `waitDevice`, a mailbox as mutex, the private mailboxes |
| Phase 4, disk drivers | `disk0Q`, `disk1Q` (circular scan), the arm | `DiskRead`, `DiskWrite`, `DiskSize`, the driver loops | mailboxes as mutex, as semaphore and as doorbell |
| Phase 5, virtual memory (`phase5.c`, `p1.c`, `vm.h`) | `frameTable`, a page table per process, `faults[]`, the clock hand, disk blocks | `VmInit`, `VmDestroy`, the fault handler, the pagers, `p1_fork`, `p1_switch`, `p1_quit` | `MboxCreate`/`Release` per fault, a frame mutex, the disk of phase 4, the MMU |

What is hard in it:

* **A call is not atomic.** `unblockProc` may switch to the process it wakes before it returns; `blockMe`, `join`,
  `zap` and `quit` switch away by design. State read before and used after is stale.
* **Order of wakeups.** Processes of different priorities run in another order than they were woken in.
* **Linked lists through process entries**: children, zappers, waiters, sleepers, each with one link field that some
  operation forgets to reset.
* **Tables that fill up and are used again**: pids, slots, mailboxes, semaphores, disk blocks.
* **Interrupts** run device handlers in whatever process they find, the sentinel included.
* **Everybody blocked** is decided by the sentinel.

`PROJECT.json` lists these hazards one by one, with the line where each bites.

What makes each component correct:

* kernel: the ready list is exact and sorted, the strongest ready process runs, no wakeup of `join` or `zap` is lost
  or premature, the counts agree with the lists, slots are reused only when free, the sentinel tells deadlock from
  completion;
* mailboxes: no message is lost, duplicated or reordered; a blocked sender or receiver has a reason to be; the slot
  counts are right; capacity is kept; release leaves nobody behind;
* Spawn/Terminate: every child runs its own function and is terminated by its parent; semaphores: no more processes
  behind `SemP` than permits, FIFO, and no lost V;
* Sleep: nobody wakes early, everybody wakes; disks: every request is served once, whole, in scan order, and a read
  returns what was written;
* virtual memory: a frame has one owner, a page its own contents, every fault is answered.

## The modules

| Module | What it is |
|---|---|
| `Kernel` | phase 1: variables, actions, `Spec`, and `FairSpec` with fairness for the list walks |
| `KernelProperties` | what the kernel promises; all of it over `Kernel`'s variables |
| `LinkedLists` | lemmas about sequences without repetition, and about chains of pointers as sequences |
| `KernelProofs` | types, the ready list, the pids: the inductive invariant `KernelInv` and the theorems |
| `KernelFamilyProofs` | the family tree: counts, parents, the sentinel's verdict; what `zap` and `join` wait for |
| `MCKernel` | the module the kernel's run names |
| `Mailbox` | phase 2: mailboxes and device handlers |
| `Channel` | abstract: a FIFO of messages, with no slots, lists or processes |
| `MailboxProperties` | what the mailboxes promise, and the refinement mapping to `Channel` |
| `MailboxProofs` | types, the ready list and the entries of the blocked: `TypeInv`; who is blocked where, and who wakes them: `WaitInv` |
| `MailboxSlotProofs` | where each message is, the counts of slots, whom a message is for: `SlotInv`, `MeantInv`, `TokenInv`; the numbers that order the senders to a full mailbox: `OrderInv` |
| `MCMailbox` | instances for TLC: priorities, mailboxes, who may make which call |
| `Semaphores` | phase 3: the semaphores, over phases 1 and 2 as external |
| `CountingSemaphore` | abstract: one semaphore as a count and a queue of those who wait |
| `SemaphoreProperties` | what the semaphores promise, and the refinement mapping to `CountingSemaphore` |
| `SemaphoreProofs` | the lists as sequences, the inductive invariant, the theorems |
| `MCSemaphores` | the module the semaphores' run names, and its symmetry |
| `LowerPhases` | external: phases 1 and 2, and for phases 4 and 5 also phase 3, as the phase above expects them |
| `MachineProofs` | what the calls of `LowerPhases` keep: everybody is in one place, on the ready list, in one queue or running; used by the proofs about phase 4 |
| `UserProcesses` | phase 3: `Spawn`, `Wait`, `Terminate`, the lists of children, the semaphores as programs use them |
| `UserTests` | the 26 test programs of `phase3/testcases`, and families of equals |
| `UserProperties` | what Spawn, Wait and Terminate promise |
| `MCUsers` | the module the runs of phase 3 name |
| `Drivers` | phase 4: the clock driver and `Sleep`, both disk drivers and the disk calls, `start3` |
| `DriverTests` | fourteen test programs of `phase4/testcases`, and clients that race |
| `DriverProperties` | what the drivers promise, and the refinement mapping to `DiskStore` |
| `DiskStore` | abstract: rows of sectors, and requests that take effect at one instant, whole |
| `DriverProofs` | the locks of phase 4 and the devices: `DriversInv` and the theorems |
| `MCDrivers` | the sizes of the disks |
| `Pager` | phase 5: `VmInit`, `VmDestroy`, the fault handler, the pagers, the hooks of `p1.c` |
| `PagerTests` | the ten test programs of `phase5/testcases`, and families that share frames |
| `PagerProperties` | what virtual memory promises, and the refinement mapping to `Memory` |
| `Memory` | abstract: every process has pages of its own, a read returns its last write |
| `MCPager` | the module the runs of phase 5 name |

### Kernel

`ProcTable` is the table of `kernel.h`, one record per slot; `ReadyList` is the list as a sequence of slots; `Current`
is a slot. `childProcs` of an entry is the doubly linked list that `childProcPtr` heads, as a sequence. The list of
zappers is *not* turned into a sequence: it stays a chain of `zappedSiblingPtr`s, because the code never resets that
pointer, and a sequence would hide what follows from it.

Every kernel call is one action (`ForkCreate`, `JoinBlock`, `Zap`, ...), up to and including the call of
`dispatcher()` that ends it. This is how the program runs: there is one processor, phase 1 installs no handler that
switches, and only `dispatcher()` does. Where a call goes on behind the switch (`join` cleaning the child that woke
it, `zap` and `blockMe` returning) that is another action, guarded by `Current` and by `inCall`. Two loops are actions
of one turn each under a program counter `kpc`: the loop in `quit()` that wakes zappers and the loop in
`addToZappedList` that looks for the end, so that a cyclic chain shows as a walk that does not end instead of a TLC
evaluation that does not.

`Dispatch(T, q)` is `dispatcher()`: three cases by the priority of the caller against the head of the list. In a tie
the code switches away for join and zap only; the model keeps that. `quit()` then returns to a dead process, and the
model ends (`outcome = "quit_returned"`), as it does on `USLOSS_Halt` (`"halted"`), on a null dereference
(`"null_pointer"`) and where the code would go on with a corrupt list (`"corrupt"`). Nothing is checked behind those
ends, nothing is assumed about them.

`now` is the clock as `quit` and `join` read it; it moves by a member of `TickSteps` from a `quit` to the next event.
`victim` is history: the pid a process last zapped.

### Mailbox

The tables are those of `message.h`; lists of slots and of waiting processes are sequences of indices. `processTable`
of phase 2 is allocated per blocking, never twice, so it is a sequence that grows to `MAXPROC`.

An action is the code between two points where the processor can change hands: `blockMe`, `unblockProc`, the end of a
time slice, an interrupt. `call[p].pc` is where in its call `p` is: `sendFull` (blocked for room), `sendOrder` (for
its turn), `sendWoke` (behind the `unblockProc` of the receiver, not counted yet), `sendSort` (behind one of those of
`getCorrectOrder`), `recvWoke` (behind the `unblockProc` of a sender, not counted out yet), and so on. So `MboxSend`,
for instance, is `MboxSend` up to the first such point, then `SendResume`, `SendAfterWaking`, `SendSorting`.
Priorities decide whether `UnblockProc` switches. `Init` chooses one of `Clients`: the mailboxes there are, who may
make which call, how many messages each sends, and the priorities; and any legal ready list.

`delivered` and `sends` are history: the messages received in order, and how many were sent.

`UnblockProc`, `TimeSlice`, `Quit`, `QueueUp` and `Level` model phase 1 as a library: what phase 2 expects of it, not
what our `Kernel` does in ties.

Interrupts and time slices happen while a process runs its own code. The code never disables interrupts, so in the
program they can also fall inside a mailbox call; the model leaves that out and says so here: between two switch
points a call is one step.

### Semaphores

`semTable` is the table of `sems.h`, with a process for a pointer to its entry. The list of the blocked stays what it
is in the code, a `blockedProcessPtr` and a chain of `nextSemBlockedSiblingPtr`s, because the code sets that link and
never clears it; `addToBlockedList` walks it one turn (`ListWalk`) at a time. `SemP` is `SemPass` or `SemBlock`, the
walk, `ListLink`, and `SemPResume` behind the receive in which the process blocked; `SemFree` is itself and a
`FreeNext` per waiter.

System calls run with interrupts disabled, so another process runs in a semaphore call only where phase 2 blocks or
wakes somebody, and from there on, because the dispatcher enables the interrupts when it switches; `TimeSlice` is
that, and everything a process does in user mode that lets another run. `MboxReceive`, `MboxCondSend` and `SwitchFrom`
are the libraries: a receive from the process' own zero-slot mailbox always blocks, a conditional send to it wakes the
process that receives and is lost otherwise. Whether the woken process or its waker goes on is a choice, since either
may be the stronger. A process that finds its semaphore freed terminates; what `terminateReal` does to its children is
not in the model.

The mapping to `CountingSemaphore`, one for each entry of `semTable`: a permit is given when `SemV` wakes somebody,
not when that process runs again and counts down, so the abstract count is `value` less those who are woken; the queue
is the chain of links; a freed entry is a closed semaphore. Two kinds of step are none of `CountingSemaphore` and are
exempted by name: `TakesAPromised`, where a `SemP` that comes between a `SemV` and the process it woke takes that
process' permit, and both return (the abstract count is then below zero, until a `SemV` that finds nobody waiting pays
it back), and `MadeAnew`, where an entry is created again while a process woken on it has not run. TLC takes both. So
a `Wait` of `CountingSemaphore` needs the count not to be positive, rather than to be zero.

### LowerPhases

The upper phases are linked with binary libraries, so what is below them is external: one record (`sys`) with the
running process, the ready list, priorities, parents, children that quit, zappers, mailboxes and counting semaphores.
An operator (`Forked`, `Joined`, `Zapped`, `Quit`, `Sent`, `CondSent`, `Received`, `SemPed`, `SemVed`) is what a call
of the running process makes of that record; it may leave another process running, and a program counter `pc` says
what the caller does when it runs again. Only what a weaker process cannot see is atomic: a call that wakes a stronger
process ends with that process running. The semaphores count as `CountingSemaphore` does, which is `phase3.c` where
one process at most calls `SemP` on each semaphore: no other can come between the `SemV` that wakes and the woken
process, so none of its steps is `TakesAPromised`, and `SemaphoresCorrect` says that all others are steps of a
counting semaphore. So it is in the programs of phases 4 and 5, where only `start3` and `start5` do.

This contract is what a correct phase 1 and 2 would do, not what `Kernel` and `Mailbox` show of this repository's code
(a quit in a tie, a stolen message): the results recorded in `testResults` come from the libraries, and agree with the
contract.

### UserProcesses

`spawnReal` is `SpawnFork` (the globals, `fork1`), `SpawnTest` (is `entryMade` 0?) and `SpawnFill`; `spawnLaunch` is
`LaunchZapped`, `LaunchTest`, `LaunchFill`, `LaunchRun`. Whichever runs first fills the entry and the other finds it
filled, which is what lets a child be stronger or weaker than its parent. `SemP` and `SemV` are phase 3's own: `SemV`
counts up and wakes, the woken process counts down when it runs again (`SemPReturns`), so that here a third process
may take its permit. `terminateReal` is `TerminateReal`, then `TerminateZap` and `TerminateNext` per child, then
`TerminateQuit`; the zapped child runs, and ends, between the zap and the next step of the walk.

The table has the entries 0 to `MAXPROC-1`, and -1: `spawnReal` uses a failed `fork1`'s -1 as an index. What is in
front of the table in memory is unknown, so that entry's `entryMade` starts as 0 or 1.

A test is a function per process, as a sequence of calls, the results that `testResults` records of its `Wait`s, and
whether time slices end: never in the repository's tests, which are deterministic; outside `Spawn` in the families. A
time slice between `fork1` and the fill would let another `Spawn` overwrite the globals; the passing run assumes none.

### Drivers

`processTable` is that of `driver.h`; the list of sleepers and the two of requests are chains of links in its entries
(`nextSleeperProc`, `nextDiskProc`), read with `Chain`. An action is the code from one call of the phases below to the
next. `ClockDriver` is `ClockLoop` (`waitDevice`), `ClockTick`, `ClockScan`, a `ClockWake` or `ClockNext` per sleeper,
`ClockDone`; a `DiskDriver` waits at its door, takes the head of its list, seeks, transfers sector by sector (turning
to the next track in the middle, `NextTrack`), unlinks and notifies; the callers are `SleepCall`/`SleepAdd`,
`DiskReadCall`/`DiskWriteCall`/`DiskAdd`/`DiskRing`, `SizeCall` and what follows it, and `Block`, the receive from the
private mailbox.

`Position` is `addToDiskQ`'s search for the place of a request: the head is being served; those behind it go up from
its track and the lower ones come after, for the next sweep.

The devices are external: a disk that is busy refuses a request (`Output`), one that is done sends to its mailbox in
whatever process runs (`DiskInterrupt`), and a second is a `ClockInterrupt`. In the repository's tests (`patient`)
devices are slower than processes; in the races they interrupt when they like.

`start3` starts the drivers and stops them as in the code (`StartUp`, `ShutDown`).

The mapping to `DiskStore`: a request takes effect when the driver takes it from the list. What it has not written yet
counts as written (`DiskHolds`), what it has not read yet is what the disk holds (`WillRead`). That is a refinement
only because nobody else writes to the disk meanwhile.

### Pager

`processes` holds the page tables of `vm.h`, `frameTable`, `faults` with its two ends, the clock hand and the counter
of disk blocks are the globals. `FaultHandler` is `Fault` (the ring, the send; interrupts are off until it),
`FaultWaits`, `FaultServed`, `FaultUnlocks`, `FaultReturns`. A pager is `PagerWaits`, `PagerTakesFault`,
`FindFrameNumber` (or `FindNothing`, `FindWaits`, `FindAgain` when all frames are locked), `EvictClean` or
`EvictDirty`–`PagedOut`–`EvictedDirty`, `FillZeroes` or `FillFromDisk`–`PagedIn`–`FilledFromDisk`, `PagerReplies`. A
pager that touches a page the MMU has no mapping for is in `FaultHandler` like any other process (`PagerFaults`), and
inside the mutex of the frames; behind the end of the region it crashes. The frames' mutex is given up during disk
I/O. `P1Switch` is called on every change of process (`Does`), with the MMU and the page tables as the caller leaves
them, mappings of the pagers included.

External: the MMU (a map, contents and a dirty bit per frame; whether mapping a mapped page replaces the mapping or is
refused is a choice, `remaps`) and the swap disk. An address is a page and an offset in it; a page has `PARTS = 2` of
them, its beginning and its rest, each with a value, so that a fault behind the beginning of a page can be told from
one at it.

Faithful to what the code does rather than means: the reference bit never saves a frame (`findFrameNumber`'s test
always succeeds), the dirty bit is set back to what it was, and the zeroes start at the address of the fault and not
at the page's (`FillZeroes`), a page that is read in unmaps the *old* page and not itself (`FilledFromDisk`), and the
owner of a page goes on reading and writing it while it is written out (`Touch`). `simple5` and `simple6` create no
semaphore and use number 0, phase 4's; so do their programs.

The mapping to `Memory`: what is at an address is in its page's frame if it is resident, on the disk if it has been
written out, and zeroes otherwise (`Contents`); a touch of a mapped page is the abstract access.

## The runs

Seven runs pass, five show a disagreement of the code with its own comments. Deadlock checking is off in all of them:
a run of the system ends (the sentinel halts the machine, the tests end, the bounds of the senders are reached).

| Run | Instance | States | What it shows |
|---|---|---|---|
| `MCKernel` | 4 slots, pids to 9, priorities 1, 2 (sentinel 3), two block statuses, one of them refused | 114,180 | types, the ready list, counts, wakeups of join and zap, the family tree, the sentinel's verdict; pids and slots when slots are cleaned and reused, and when `fork1` finds the table full; under weak fairness of the walks, that they end |
| `MailboxOrder` | one mailbox of one slot, one receiver, two senders of two messages, all 13 orders of priorities | 68,504 | the mailbox implements `Channel`; no sender is stranded; every blocked sender gets through |
| `Mailboxes` | five behaviours: two mailboxes sharing the slots; a device mailbox, a zero-slot mailbox and one with two slots; two senders on a zero-slot mailbox, under every order of priorities; a mailbox released and made again; one released after a sender overtook another | 1,210,076 | tables and counts agree; no receiver is stranded; no message is in two slots, in a slot and received, or received twice; without slots, sends and receives are paired; release wakes all but those that wait for their turn |
| `Semaphores` | three processes, which are symmetric, two entries, created with 0 or 1, counted to 2; the woken or the waker goes on | 65,520 | the chain is exactly the blocked; nobody waits beside a permit that no woken process is to take; each entry is a counting semaphore with a FIFO queue, but for the two kinds of step named above; those whom `SemFree` finds waiting do not return |
| `UserProcesses` | the 26 tests of phase 3; `cousins`, `crowd` and 18 families of every order of priorities, with time slices | 46,561 | every child runs its own function; Terminate zaps its own living children; nobody is orphaned; all complete, with the recorded statuses in their order |
| `Drivers` | 14 tests of phase 4; races for the arm (3 readers), for sectors across two tracks (writer, reader, sizer), to bed (3 sleepers) | 134,334 | sleepers wake neither early nor never; requests are swept in order, none is refused by a busy disk or forgotten; the disks implement `DiskStore`; the tests end with the recorded statuses |
| `Pager` | the 10 tests of phase 5, and `simple10` with a time slice; two readers with two pagers, two writers with one, two writers with two, two writers of the same page numbers, with time slices; both halves of a page | 55,447 | a frame has one owner; the pages implement `Memory`; the tests end with the recorded statistics |
| `MailboxStolenMessage` | everybody may do everything | violated | `ReceiverDoesNotCrash` |
| `UserSiblings` | a parent of two, one of which has terminated | violated | `NoOrphans` |
| `DriversSleepAgain` | two processes that sleep twice | violated | `SleepsLongEnough` |
| `PagerReadBack` | one child, three pages, two frames | violated | `TestsEnd` of the pagers |
| `PagerLostWrite` | two children, three pages, two frames, a time slice | violated | `PagedMemory` |

`TestsEnd` is the name of two properties, one in `DriverProperties` and one in `PagerProperties`.

What the bounds leave in: with two processes besides the sentinel and `start1` the kernel has two zappers of one
victim, a zapper that is a parent, two children that quit in either order, a child with a child; nine pids in four
slots go twice round the table. More processes add length to lists and no new branch, and what the run shows of four
slots is proved for any number, all of it but `WalksEnd`. Two messages of each of two senders are the least that lets
a sender be overtaken, wait for its turn and be woken out of turn; two mailboxes are the least that share slots. Three
processes are the least of which two wait and a third walks along a link; with two semaphores a process can wait on
both in turn. The processes of that run are in no way told apart, so their permutations are a symmetry; without it
there are 386,286 states. `MAXPROC = 20` entries of phase 2's `processTable` are more than these runs block. The tests
of the upper phases have their own size, that of the programs: `MAXPROC = 12` in `UserProcesses` is the least that
holds all of its tests but the one that fills the table (`test25`; the pid that one records as 56 is `6 + MAXPROC`),
so that pids to `MaxPid = 20` go round the table. Of the races, three requests are the least with one served and two
to be ordered behind it; two sectors the least that cross a track; in the families of `Pager`, two processes with four
pages in two frames the least in which each takes the other's frame. `slices` bounds how many time slices end in them,
`ticks` and `end` how often the clock ticks. `INTLIMIT` is 2^31 microseconds in seconds; the disks have the 16 and 32
tracks of `src/phase4`.

What passing runs assume, each named by a constant or a field of a test, and what happens without it:

* `TickSteps = {1}`: the clock moves between a `quit` and a later `join`. With 0 in it `JoinGetsItsChild` fails
  (`phase1.c:404`).
* `StaleZappers = FALSE`: no process zaps a second time after it was on a list behind which another zapper was linked.
  Otherwise `ZapWaitsForQuit` fails (`phase1.c:1037`).
* The `calls` of `Shared` have one process only on the receiving side of a wait that a second one could steal from,
  and those of `MailboxOrder` one receiver. With every call allowed, `ReceiverDoesNotCrash` fails
  (`MailboxStolenMessage`); with two receivers and two messages a sender blocks at a mailbox that is empty, and
  `SenderNotStranded` fails (`phase2.c:257`).
* `Sizes` and `Limits` are such that every message fits every buffer. Otherwise a receiver leaves its message behind,
  and `ReceiverNotStranded` fails (`phase2.c:434`).
* Nothing is assumed of who runs first on a mailbox without slots: `RendezvousPairs` counts sends and receives. That
  each receive gets the message of the send it is paired with does not hold (`RendezvousInOrder`, below).
* `EachMessageOnce` speaks of what is received from mailboxes with slots.
* `SlotsAccounted` and `ReceiverNotStranded` speak of mailboxes until one is released: `MboxRelease` leaves the
  messages in their slots.
* `StaleLinks = FALSE` in `Semaphores`: no process blocks on a semaphore again while its old link is set. Otherwise
  `ChainIsTheBlocked` fails (`phase3.c:495`).
* Nothing is assumed of who runs first behind a wakeup of a semaphore: `SemaphoresCount` names the two kinds of step
  in which a woken process is not waited for (`phase3.c:266`, `phase3.c:331`).
* `slices` is not `"always"` in `UserProcesses`: no time slice ends within a `Spawn` or before a child has read its
  function. Otherwise a child may run another's function (`phase3.c:101`).
* In `UserProcesses` no process terminates with siblings behind it on its parent's list that outlive it when the
  parent terminates (`UserSiblings`).
* Nobody sleeps twice in `Drivers` (`DriversSleepAgain`).
* In `Pager` no page is read from the disk into a frame that was clean and whose process runs on meanwhile
  (`PagerReadBack`); no process happens to write to a page that is on its way to the disk, and none to share the
  numbers of its pages with one that does have pages on the disk, which are properties of the programs and nothing the
  model forbids (`PagerLostWrite`, and `OthersPage` below); a page is first touched at its beginning, as in all tests
  (`RestFirst`, below); no time slice ends between `vmDestroyReal`'s send and its zap; the families have as many
  frames as processes that fault; those with two pagers do not call `VmDestroy`; and `simple10` has an MMU that
  replaces a mapping.

### Fairness

`FairSpec` of the kernel has weak fairness on the turns of the two list walks: they are straight-line loops of one
processor and nothing interrupts them. Nothing is assumed of processes. `FairSpec` of the mailboxes has, for each
process, strong fairness of its next step while it is `Current`: a process that gets the processor again and again, as
time slices among equals provide, executes the code it is in, and it calls `MboxSend`, `MboxReceive` or `quit` in the
end. No fairness is assumed of `TimeSlice`, and none of interrupts. In the models of phases 3 to 5 there is one
processor that always executes the process it is given to: weak fairness of the steps of the running process, as a
whole. `Drivers` adds weak fairness of each disk's interrupt and of the clock's, `Pager` that of the swap disk:
devices finish.

### Where the code does not keep what it says

The five runs that TLC must find violated:

* `MailboxStolenMessage`: the message put aside for a woken receiver is taken by another (`phase2.c:431`).
* `UserSiblings`: a child that terminates cuts the siblings behind it off its parent's list (`phase3.c:201`), and the
  parent terminates without zapping them.
* `DriversSleepAgain`: the link of a sleeper that was woken is kept; when it sleeps again, the list holds processes
  twice and a send is waiting for somebody who has gone to sleep (`phase4.c:511`).
* `PagerReadBack`: a page that is read back into a frame that was clean is mapped for the pager while its process
  still runs to its wait; the switch hook unmaps it, and the pager's copy is a fault that it waits for itself
  (`phase5.c:567`, `p1.c:51`).
* `PagerLostWrite`: the owner of a page writes to it while its copy is on the way to the disk; the page is on the disk
  without what was written (`phase5.c:498`).

The models have these as well, and no run is spent on them. Where a property, a client or a family is named, giving it
to TLC in place of a run's own shows the violation.

Phase 1: a caller of `quit()` whose equal heads the ready list goes on running (`phase1.c:676`, outcome
`quit_returned`: an invariant that excludes it fails); an old `zappedSiblingPtr` wakes a zapper of somebody else
(`phase1.c:1037`); a child that quits in the microsecond of the parent's `join` is not seen (`phase1.c:404`); `join`
dereferences a null sibling when the last of several children quit first (`phase1.c:440`, outcome `null_pointer`);
`blockMe` in a tie does not block (`phase1.c:681`); a `short` pid differs from the one returned after 2^15 forks
(`kernel.h:20`, constant `ShortLimit`).

Phase 2: a second sender that blocks on a mailbox without slots writes its message over the first's, so that one is
received twice and the other never (`phase2.c:223`; `RendezvousInOrder` fails for the client `TwoSenders`); counts are
moved behind `unblockProc`, so that one slot takes two messages (`phase2.c:257`; an invariant "no more messages than
slots" fails); a sender may block at a mailbox that was emptied and not counted (`phase2.c:474`); a late caller
overtakes a blocked sender (`phase2.c:268`); `MboxCreate` leaves the old waiting lists in the box (`phase2.c:119`);
`MboxRelease` keeps the slots (`phase2.c:151`) and wakes nobody on `getCorrectOrder` (`phase2.c:160`: with `pc #
"sendOrder"` left out, `ReleaseWakesTheBlocked` fails); a too small receive buffer leaves a message uncounted
(`phase2.c:312`); `getNextProcSlot` runs past its table (`phase2.c:682`, outcome `out_of_bounds`); a device handler
can block the process it interrupts (`phase2.c:506`).

Phase 3: a permit given to a process that waits may be taken by another `SemP` before that process runs, and both
return (`phase3.c:266`; without `TakesAPromised` `SemaphoresCount` fails), as both do when the semaphore is freed and
made again meanwhile (`MadeAnew`); a stale link takes processes from one semaphore's list to another's
(`phase3.c:495`); a semaphore freed with waiters stays `FREED`, its entry is lost, and it still has permits that a
later `SemP` takes (`phase3.c:319`); `entryMade` is never reset (`phase3.c:133`), so that a slot used again by a child
that is weaker than its parent is not filled: the child is not on its parent's list, and takes its function from the
old entry, or from the global of the last `Spawn` if the process before it has terminated (it then adds itself to a
list, twice if it was there already, and closes a ring); a failed `fork1` puts entry -1 on the list of children
(`phase3.c:106`).

Phase 4: `start3` sends to a disk driver's door and zaps it afterwards (`phase4.c:128`); the driver, which is
stronger, takes the message before it can find itself zapped, goes back to its door and stays there, and `start3`
never returns from the zap. The model does this in every test, so `TestsEnd` asks for `start4`'s end only, and the
branches in which a disk driver finds itself zapped are never taken; `testResults` end in "All processes completed."
all the same: they were recorded with another implementation, one with terminal drivers too. The end of a sleep is
computed in an `int` of microseconds (`phase4.c:305`): a test that sleeps longer than 2147 seconds violates
`SleepsLongEnough`. `diskReadReal` checks nothing, and no call checks that the last sector is on the disk. `Sleep` of
`libuser.c:23` does not set the number of its system call's arguments.

Phase 5: the mapping a pager makes to write a page out stays during the write, and another process, whose own page of
that number is on the disk, reads and writes that frame (`phase5.c:481`, `p1.c:51`; `PagedMemory` fails for the family
`OthersPage`, whatever the MMU does with a page that is mapped already); the zeroes for a new page start at the
address of the fault and run into the next page, which the pager faults on and waits for itself, and what is in the
frame before that address stays (`phase5.c:536`; `TestsEnd` of the pagers fails for the family `RestFirst`); `vmInit`
initialises although it reports -1 or -2; `VmDestroy` leaves `numPages` set, so that the switch hook goes on using
page tables; the reference bit decides nothing, and the mask meant to clear the dirty bit clears another; disk blocks
and the frames of processes that have quit are never given back, and `processes[oldOwner % MAXPROC]` of such a frame
may be a newer process' entry; `VmDestroy` with two pagers wakes one and zaps another, and the woken one takes a fault
nobody had; if the MMU refuses to map a page that is mapped, the mapping made for a copy hides even a process'
resident page (`simple10` shows it, so that test is run with the MMU that replaces); two processes that share one
frame take it from each other for ever (`phase5.c:411`); the counts of free frames and blocks are never updated.
`simple7`'s recorded counts (4, 3, 1, 1) are not those of this code (5, 3, 0, 1 in the model) and are not compared.

## What is proved

`KernelProofs` proves, for every table size of at least four, every range of priorities, every set of block statuses,
every `TickSteps` and either value of `StaleZappers`, that `Spec` of the kernel implies

* `TypeCorrect`: `[]TypeOK`;
* `ReadyListIsSound`: `[]ReadyListSound`;
* `StrongestRuns`: `[]RunningIsStrongest`;
* `PidsNameSlots`: `[]PidNamesSlot`, under the assumption that `MaxPid` is below `ShortLimit` (which is what the short
  needs);
* `OnlyQuitEnds`: the action property `OnlyQuitEndsAProcess`, which no run checks any more: the theorem says it of
  every instance.

None of them is inductive alone. The ready list is exact only if nothing is inserted that is on it already, so the
inductive invariant `KernelInv` also says that statuses and `inCall` go together, that `Current` is off the list, that
the sentinel is always ready or running and weaker than all others, and where `Current` may be in each value of `kpc`.
Why a dispatcher that gives a stronger head the processor *and puts its caller back on the list whatever its status*
is sound is `RunningIsStrongest`: a caller that blocks never sees a stronger head. The proof has a lemma for what
`AddToReadyList` does to a sorted list, one for each case of `Dispatch`, one step lemma for each action, and a last
section that combines them.

`KernelAssumption` is used throughout: at least four slots, a null pointer that is no slot, a priority range that is
not empty.

`KernelFamilyProofs` goes on from `KernelInv`, under the same assumption only, to

* `ChildCountIsExact`: `[]ChildCountExact`;
* `ParentsOutliveChildren`: `[]ParentOutlivesChild`;
* `SentinelIsRight`: `[]SentinelTellsTheTruth`.

Its invariant is `FamilyInv`: what statuses there are and which one the running process has (`StatusesOK`, `YieldOK`),
and the families (`FamilyOK`). A process in the middle of its `quit` is dead and still counted by its parent;
`Quitter` names it, so that the invariant holds between the steps of the walk. Each part is a statement about a
process table and not about `ProcTable`, so it can be followed from the table a call found through the one it hands to
`dispatcher()` to the one the dispatcher leaves.

The second half of the module goes on from there to

* `ZapWaits`: `[]ZapWaitsForQuit`, if `~StaleZappers` and `MaxPid < ShortLimit`;
* `JoinsGetTheirChild`: `[]JoinGetsItsChild`, if `~StaleZappers` and `0 \notin TickSteps`.

The hypotheses are needed: without any of them TLC finds the property violated. `ZapInv` says that the chain of each
living process is a list of exactly those blocked until it quits, that the chain of a dying one starts where its walk
has come to, and that nobody waits for the dead; `JoinInv` that who is woken in `join` finds a dead child of its own,
and that the dead died before now, since `join` compares strictly. `StaleZappers` is in the theorem on `join` because
a stale link lets `quit` wake a process that is blocked elsewhere.

The two modules of the mailboxes prove, for any table sizes, any sets of processes and mailboxes, and any `Clients`,
that is whoever makes whichever calls with whatever priorities,

* `MailboxTypes`: `[]MailboxTypeOK`;
* `ReleaseWakes`: `[]ReleaseWakesTheBlocked`;
* `SlotsStayAccounted`: `[]SlotsAccounted`, and `ReceiversAreWoken`: `[]ReceiverNotStranded`, if no message is larger
  than a buffer (`SizesFit`);
* `MessagesOnce`: `[](SlottedOnly => EachMessageOnce)`: no message is in two slots, in a slot and received, or
  received twice, if the clients use mailboxes with slots only (no `SizesFit`, and with releases);
* `SendersAreWoken`: `[](UsedAsChannels => SenderNotStranded)`, if `SizesFit`: when each mailbox has one receiver and
  none is released, with any number of senders and slots.

`TypeInv` has the types, the ready list (sorted, without the running process, with the sentinel) and that an entry of
`processTable` that is on a list exists. `WaitInv` says who is blocked: with an entry of its own (`EntriesOK`), on the
list its call put it on (`AsleepOK`), once (`ListsDistinct`); and that whoever sleeps in a closed mailbox is still
ahead of some process that is walking the list in `MboxRelease` (`ReleaseOK`). The last is not about one call: while a
release walks, a stronger process that it woke may make the mailbox anew and a third may release it again. `Ahead`
compares places in the list, so a walk that has lost its place is no one's hope; the proof is that no walk loses it.

The steps of `Next` do only a handful of things to who waits where, and to the slots; `Kinds` and `SlotKinds` list
those, one lemma per action shows which it is, and the invariants are proved of the kinds. `SlotInv` has the counts:
`numSlotsUsed` differs from the slots taken by those processes that were woken and have not counted yet, in both
directions. `SizesFit` is needed because `MboxSend` and `MboxReceive` return -1 uncounted when the message is too long
for the buffer it meets (`phase2.c:312`, `phase2.c:434`). `MeantInv` says of every message in a mailbox with blocked
receivers for which woken receiver it was put aside. `TokenInv` treats each message as a token that is with a sender,
in a slot or delivered, in one of them and once; a mailbox without slots breaks it, because a second sender overwrites
`zeroSlot` (`phase2.c:223`).

The last part of `MailboxSlotProofs` is about the senders to a full mailbox, each with a number from
`nextInLineMessageNumber`. `OrderInv` says: the senders that have not put their message have numbers of their own, and
all others that were given out are counted in `numMessagesSent` (`NumbersOK`); whoever is left on `getCorrectOrder` is
early, unless somebody is about to wake that list (`TurnsOK`); `waitingToSend` is in the order of coming, and everyone
off it has a smaller number than those on it (`LineOK`); and an empty mailbox with senders on its list has already let
one go on (`LetGoOK`). By counting, the next number is one of a sender that is not on the list (`LeastNumber`,
`NextOne`), and by `TurnsOK` it is not on `getCorrectOrder` either: it is awake. Two receivers break `LetGoOK`:
`MboxSend` compares `numSlotsUsed` (`phase2.c:257`), which a receiver that wakes a sender counts down only when it
runs again, so a sender may block at a mailbox that is empty already. The proof found that an earlier form of the
property was too strong, one that wanted a message in a slot or a woken sender awake: with four senders of different
strength and two slots, the only one left to go on can be a sender that has put its message, had it taken at once, and
is on its way through `getCorrectOrder`. The runs' two senders cannot show that; the property now counts it.

`MailboxAssumption` and `NullIsNoMessage` are used throughout: finitely many processes, priorities stronger than the
sentinel's, at least one mailbox and one slot, and a null pointer that is no message, process or slot.

`SemaphoreProofs` proves, for every set of processes, every size of `semTable` and every set of values,

* `SemTypeCorrect`: `[]SemTypeOK`, with no assumption;
* `ChainCorrect`: `[]ChainIsTheBlocked`, if no process blocks with a link left over (`~StaleLinks`);
* `BesideCorrect`: `[]NobodyWaitsBesideAPermit`, under the same assumption, whoever runs behind a wakeup;
* `SemaphoresCorrect`: `SemaphoresCount`, under the same assumption: every step is one of `CountingSemaphore`, for
  every entry of the table, or leaves that alone, but those that are `TakesAPromised` or `MadeAnew`.

The assumption is that of the run: the code needs it of its clients. Nothing is assumed of priorities, so the woken
process, its waker or a third one may run first. The inductive invariant is `SemInv`. That a list is a chain of
pointers would need induction over the chain; instead `IsList` says that a sequence *is* the list (first pointer,
links, no process twice), so a `SemP` appends to it and a `SemV` takes its head off, and both follow from facts about
`Append` and `Tail`. `FollowedList` shows that what `Chain` computes along the links is that sequence; it is proved by
a least counterexample. `SemInv` adds that a walk along a list is at one of its members (`WalksOnList`: nobody else
runs meanwhile), that a semaphore somebody waits for or walks along is not given away (`HeldOpen`), and that who walks
found no permit (`WalkersWait`). `BesideCorrect` needs one thing more, that a list with somebody on it has no more
permits than woken processes (`NoneBeside`), which each `SemV` and each woken process keep. For the refinement there
is a lemma for each kind of step of the counting semaphore (`CountsIdle`, `CountsSame`, `CountsWait`, `CountsPermit`,
`CountsHandOver`) and one case for each action.

`SemaphoresAssumption` is used throughout: finitely many processes, of which the null pointer is none, at least one
entry, values that are integers.

`DriverProofs` rests on `MachineProofs`, which says of every call of `LowerPhases` what it keeps: the ready list
sorted, nobody in two queues, who waits alive, and which mailbox or semaphore is all that changes. It proves, for any
number of processes, any geometry of the disks and any `Tests`, that is whatever functions there are and whatever
calls they make,

* `RequestsAreTaken`: `[]DiskTakesRequest`;
* `NobodyIsForgotten`: `[]NobodyForgotten`, if `SleepsOnce(Tests)`: no function of a test goes to sleep twice;
* `NobodyWakesEarly`: `[]SleepsLongEnough`, if moreover `SleepsFit(Tests)`: the sleeps end within the code's int;
* `SweepsInOrder`: `[]SweepOrder`, and `DriversTypes`: `[]DriversTypeOK`, if besides `SleepsOnce(Tests)` the requests
  are on the disk, `RequestsFit(Tests)`.

`DriversInv` has the types of the tables (no field of an entry is bounded: the arguments of a request are not
checked), that a process in the middle of a call is at a call of its program that it may be in the middle of
(`Programs`), and that of the processes at the places between the send to `MUTEX` and the receive from it, all but
those waiting in it are one (`LockOK`); the same of `SleepLock`, and of each disk that whoever waits for it is at such
a place and is there whenever the disk is at work (`DevicesOK`). So whoever reaches `USLOSS_DeviceOutput` holds the
mutex, and nobody can wait for a disk meanwhile.

`ListsInv` has the lists. The sequence computed along the pointers is a list without a repetition, by the lemmas of
`LinkedLists` for a list that grows at its end, behind a place, or loses an element; its members are the processes in
the call that nothing has been sent to (`Asleep`, `Requesters`), less the one its driver is about to notify; a
process' own mailbox holds a message or a receiver and never both (`PrivateOK`), so nobody is answered twice; the
clock driver's pointer is at a sleeper (`WalkOK`), which needs `SleepLock` because a woken process keeps its link;
nobody outside a disk's list has a link in it (`FreeLinks`); and a disk's list that is not empty has its driver at
work, its door rung, or somebody about to ring it (`BellOK`). `RingersOK` adds that only those in calls of their
programs wait to ring a door, so a driver at its door is a receiver.

`SleepsOnce` is needed because of the link: `LinkOK` says that whoever has one has slept, so that who goes to sleep
has none. The run `DriversSleepAgain` shows what happens without it. TLC evaluates the three hypotheses for the tests
of the repository (`TestsOfRepository`). `SleepsFit` keeps the sum of `sleepReal` from wrapping (`phase4.c:305`).
`RequestsFit` asks that the sectors of a request end on its disk: `diskRead` looks at neither track nor sector,
`diskWrite` at where the request begins and not at how long it is (`phase4.c:391`), so for one that does not fit the
driver would seek a track there is not. `DriversAssumption` and `TestsAssumption`, what the calls of a test are, are
used throughout.

`OnDisks` is the invariant for the last two. The entry of whoever has a request out fits the disk (`EntriesFit`),
hence, by `ListsInv`, so does every entry of a list; what a driver has left of its request fits from where it is
(`JobsFit`), through the change of track at the end of one (`NextTrackFits`) and from sector to sector
(`NextSectorFits`); and a list is in the order of the sweep that starts at the track of its head (`SweepsOK`).
`InSweep` is that order, of two tracks seen from a third: it survives when the head is served and the next request
takes its place (`SweepGoesOn`, `SweepTail`), and `addToDiskQ` puts a request where it belongs (`PositionIsInOrder`,
`SweepInserted`). The entry of whoever calls `DiskRead` again may hold anything until then: it is in no list
(`NotListed`).

Only model-checked: of the semaphores `FreedTerminate`; of the mailboxes `RendezvousPairs` and the refinement of
`Channel`, which holds of the runs' clients and not of all (it reads messages off slots and processes with `SelectSeq`
and a sort, so its steps are inductions over those sequences); everything of user processes and of phase 5; liveness
(`WalksEnd`, `SendersGetThrough`, `AllComplete`, both `TestsEnd`) and the refinements of `DiskStore` and `Memory`.
Liveness and `ENABLED` are out of the prover's reach, as is induction over data.

## What is not modelled

* Stacks, contexts, PSR modes, console output, `dumpProcesses`, CPU times; exit codes of phase 1. They are not read by
  what is modelled.
* Memory running out in `fork1` (`phase1.c:285`), which leaves the half-made child linked.
* The system call vector of phase 2 and its `start1`; the device status words and units of its handlers; `isZapped`
  results of `join`, `zap`, `waitDevice` and the mailbox calls in phase 2.
* `parentPtr` of phase 3's table: it is written and never read.
* The terminal calls of phase 4: they are stubs in this repository, and the terminal tests are left out with them.
* The return codes of `VmInit`, `malloc` and `free`, the counters of `VmStats` that nothing updates.
* The hooks of phases 1 to 4 (empty, or debugging output), the wrappers of the mailbox and terminal calls in
  `libuser*.c`, which pack arguments and have no state, and the user-mode checks.
* The binary libraries: no source. `LowerPhases` says what is expected of them.
* The test programs of phases 1 and 2: they are read as documentation, the clients of `Kernel` and `Mailbox` make any
  call in any order.

## Plan

1. *Done*: `Kernel` with its runs and first theorems; `Mailbox`, `Channel`; `Semaphores`, `CountingSemaphore` with its
   refinement proved; `UserProcesses`; `Drivers`, `DiskStore`; `Pager`, `Memory`.
2. *Done*: proofs about the kernel (all its safety properties), the mailboxes (all but those below), the semaphores
   (all but `FreedTerminate`) and the drivers (all their invariants).
3. Proofs still to write. Phases 3 and 5: types over every set of programs, the families of user processes and the
   mutex of the frames (`FramesOwned`). Mailboxes: `RendezvousPairs`. No module that is proved about uses a
   `RECURSIVE` operator.
