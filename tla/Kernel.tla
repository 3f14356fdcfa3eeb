------------------------------- MODULE Kernel -------------------------------
(***************************************************************************)
(* The process kernel of src/phase1/phase1.c: the process table, the       *)
(* ready list, fork1, join, quit, zap, blockMe, unblockProc, the           *)
(* dispatcher and the sentinel.                                            *)
(*                                                                         *)
(* There is one processor and every interrupt handler of phase 1 is empty, *)
(* so a process runs until a kernel call of its own reaches dispatcher()   *)
(* and switches.  An action is one call of the running process, taken up   *)
(* to that switch; the code after the switch is an action of its own,      *)
(* taken when the process runs again.  The two list walks (the zappers     *)
(* woken by quit, the search for the end of a zapped list) are taken one   *)
(* element at a time, under the kernel's program counter kpc.              *)
(***************************************************************************)
EXTENDS Integers, Sequences, FiniteSets, SequencesExt

CONSTANTS
    MAXPROC,         \* entries of the process table
    NULL,            \* the null pointer
    MINPRIORITY,     \* the numerically largest (weakest) priority of fork1
    ForkPriorities,  \* the priorities passed to fork1
    BlockStatuses,   \* the statuses passed to blockMe
    TickSteps,       \* how far the clock may move from one quit to the next event
    StaleZappers,    \* may a process whose zappedSiblingPtr is set call zap?
    ShortLimit,      \* 2^15 in the code: procStruct.pid is a short
    MaxPid           \* bound: no pid above it is handed out

Slots == 0 .. MAXPROC-1
MAXPRIORITY == 1
SENTINELPID == 1
SENTINELPRIORITY == MINPRIORITY + 1

UNUSED == 0
READY == 1
QUIT == 3
RUNNING == 4
JOIN_BLOCK == 5
ZAP_BLOCK == 6

ASSUME KernelAssumption ==
    /\ MAXPROC \in Nat /\ MAXPROC >= 4
    /\ NULL \notin Slots
    /\ MINPRIORITY \in Nat /\ MINPRIORITY >= MAXPRIORITY
    /\ ForkPriorities \subseteq Int
    /\ BlockStatuses \subseteq Nat
    /\ TickSteps \subseteq Nat
    /\ StaleZappers \in BOOLEAN
    /\ ShortLimit \in Nat /\ ShortLimit > SENTINELPID + 1
    /\ MaxPid \in Nat /\ MaxPid > SENTINELPID + 1

VARIABLES
    ProcTable,   \* the process table, one procStruct per slot
    ReadyList,   \* the slots on the ready list, head first
    Current,     \* the slot of the running process
    nextPid,     \* where fork1 starts looking for a pid
    now,         \* the clock device
    inCall,      \* per slot, the kernel call its process is switched out in
    victim,      \* per slot, the pid last passed to zap (history)
    kpc,         \* "user", or the list walk the kernel is in
    walker,      \* the pointer of that walk
    outcome      \* "running", or how the run ended

vars == <<ProcTable, ReadyList, Current, nextPid, now, inCall, victim, kpc,
          walker, outcome>>

(***************************************************************************)
(* The entry of a slot.  childProcs is the list that starts at             *)
(* childProcPtr and is linked both ways through the sibling pointers; the  *)
(* list of zappers stays a chain of pointers, because zappedSiblingPtr is  *)
(* never taken back when its process is woken.                             *)
(***************************************************************************)
Pointers == Slots \cup {NULL}

ProcStruct ==
    [pid : Int, priority : Int, status : Nat, parentPtr : Pointers,
     childProcs : Seq(Slots), childCount : Int, childQuitPtr : Pointers,
     zap : BOOLEAN, zappedPtr : Pointers, zappedSiblingPtr : Pointers,
     exitTimeSlice : Int]

\* cleanProcess: the entry of a free slot.
CleanEntry ==
    [pid |-> -1, priority |-> -1, status |-> UNUSED, parentPtr |-> NULL,
     childProcs |-> <<>>, childCount |-> 0, childQuitPtr |-> NULL,
     zap |-> FALSE, zappedPtr |-> NULL, zappedSiblingPtr |-> NULL,
     exitTimeSlice |-> -1]

\* A pid as it is stored in the short of a procStruct.
Short(p) ==
    IF p < ShortLimit THEN p
    ELSE ((p + ShortLimit) % (2 * ShortLimit)) - ShortLimit

\* The entry fork1 fills in.
NewEntry(p, prio, parent) ==
    [CleanEntry EXCEPT !.pid = Short(p), !.priority = prio, !.status = READY,
                       !.parentPtr = parent]

-----------------------------------------------------------------------------
(***************************************************************************)
(* The ready list and the dispatcher.  Both take the process table T as    *)
(* the calling handler leaves it.                                          *)
(***************************************************************************)
Priority(s) == ProcTable[s].priority

\* addToReadyList: behind every entry up to the first of a weaker priority.
InsertionPoint(T, q, s) ==
    CHOOSE i \in 1 .. Len(q)+1 :
        /\ \A j \in 1 .. i-1 : T[q[j]].priority <= T[s].priority
        /\ i <= Len(q) => T[q[i]].priority > T[s].priority

\* Mutant: the priority is forgotten.
AddToReadyListAtEnd(T, q, s) == Append(q, s)

AddToReadyList(T, q, s) == InsertAt(q, InsertionPoint(T, q, s), s)

\* The head of q becomes the running process.
SwitchTo(T, q) ==
    /\ Current' = Head(q)
    /\ ReadyList' = Tail(q)
    /\ ProcTable' = [T EXCEPT ![Head(q)].status = RUNNING]

Stay(T, q) ==
    /\ ProcTable' = T
    /\ ReadyList' = q
    /\ UNCHANGED Current

GivesUpCPU(st) == st \in {QUIT, JOIN_BLOCK, ZAP_BLOCK} \/ st > 10

\* dispatcher.  In a tie it switches away from a process blocked in join or
\* zap only: a caller of blockMe goes on running, and quit returns.
Dispatch(T, q) ==
    LET mine == T[Current].priority
        first == T[Head(q)].priority
        st == T[Current].status
    IN  \/ /\ first < mine
           /\ IF st = QUIT
              THEN SwitchTo(T, q)
              ELSE LET T2 == [T EXCEPT ![Current].status = READY]
                   IN  SwitchTo(T2, AddToReadyList(T2, q, Current))
           /\ UNCHANGED outcome
        \/ /\ mine < first
           /\ IF GivesUpCPU(st) THEN SwitchTo(T, q) ELSE Stay(T, q)
           /\ UNCHANGED outcome
        \/ /\ mine = first
           /\ IF st \in {JOIN_BLOCK, ZAP_BLOCK} THEN SwitchTo(T, q) ELSE Stay(T, q)
           /\ outcome' = IF st = QUIT THEN "quit_returned" ELSE outcome

Halt(how) ==
    /\ outcome' = how
    /\ UNCHANGED <<ProcTable, ReadyList, Current, nextPid, now, inCall, victim,
                   kpc, walker>>

\* The running process is about to make a kernel call.
Calling ==
    /\ outcome = "running"
    /\ kpc = "user"
    /\ inCall[Current] = "none"
    /\ Current # SENTINELPID

-----------------------------------------------------------------------------
(***************************************************************************)
(* fork1.  The next free slot is searched for from nextPid on, and a pid   *)
(* whose slot is taken is skipped for good.                                *)
(***************************************************************************)
\* The slot of pid p, of the search that ends at p.
SlotAtStart(p) == nextPid % MAXPROC   \* mutant: where the search began
SlotOf(p) == p % MAXPROC

\* Mutant: the pid is taken without a search.
FirstFreeUnsearched(i) == i = 0

FirstFree(i) ==
    /\ ProcTable[(nextPid + i) % MAXPROC].status = UNUSED
    /\ \A j \in 0 .. i-1 : ProcTable[(nextPid + j) % MAXPROC].status # UNUSED

ForkTableFull ==
    /\ Calling
    /\ \A s \in Slots : ProcTable[s].status # UNUSED
    /\ nextPid + MAXPROC <= MaxPid + 1
    /\ nextPid' = nextPid + MAXPROC
    /\ UNCHANGED <<ProcTable, ReadyList, Current, now, inCall, victim, kpc,
                   walker, outcome>>

\* A priority out of range, no start function or no name: the pid is spent.
ForkRejected ==
    /\ Calling
    /\ \E i \in Slots :
        /\ FirstFree(i)
        /\ nextPid + i <= MaxPid
        /\ nextPid' = nextPid + i + 1
    /\ UNCHANGED <<ProcTable, ReadyList, Current, now, inCall, victim, kpc,
                   walker, outcome>>

ForkCreate(prio) ==
    /\ Calling
    /\ prio \in MAXPRIORITY .. MINPRIORITY
    /\ \E i \in Slots :
        LET p == nextPid + i
            s == SlotOf(p)
            T == [ProcTable EXCEPT
                    ![s] = NewEntry(p, prio, Current),
                    ![Current].childProcs = Append(@, s),
                    ![Current].childCount = @ + 1]
        IN  /\ FirstFree(i)
            /\ p <= MaxPid
            /\ nextPid' = p + 1
            /\ Dispatch(T, AddToReadyList(T, ReadyList, s))
    /\ UNCHANGED <<now, inCall, victim, kpc, walker>>

-----------------------------------------------------------------------------
(***************************************************************************)
(* join.                                                                   *)
(***************************************************************************)
Children(s) == Range(ProcTable[s].childProcs)

\* The children join takes for having quit: it compares their exit time
\* strictly with the time it reads on entry.
SeenToHaveQuit(s) ==
    {c \in Children(s) : /\ ProcTable[c].status = QUIT
                         /\ ProcTable[c].exitTimeSlice < now}

\* i is the position of the first of those with the earliest exit time.
EarliestAt(s, i) ==
    LET kids == ProcTable[s].childProcs
        exit(j) == ProcTable[kids[j]].exitTimeSlice
    IN  /\ kids[i] \in SeenToHaveQuit(s)
        /\ \A j \in DOMAIN kids : kids[j] \in SeenToHaveQuit(s) =>
              \/ exit(i) < exit(j)
              \/ exit(i) = exit(j) /\ i <= j

\* The child at position i leaves the list of s and its slot is cleaned.
Reap(s, i) ==
    [ProcTable EXCEPT ![ProcTable[s].childProcs[i]] = CleanEntry,
                      ![s].childProcs = RemoveAt(@, i)]

\* The unlinking of a child behind another one assumes a next sibling.
JoinQuitChild ==
    /\ Calling
    /\ \E i \in DOMAIN ProcTable[Current].childProcs :
        /\ EarliestAt(Current, i)
        /\ IF i > 1 /\ i = Len(ProcTable[Current].childProcs)
           THEN Halt("null_pointer")
           ELSE /\ ProcTable' = Reap(Current, i)
                /\ UNCHANGED <<ReadyList, Current, nextPid, now, inCall, victim,
                               kpc, walker, outcome>>

JoinBlock ==
    /\ Calling
    /\ ProcTable[Current].childProcs # <<>>
    /\ SeenToHaveQuit(Current) = {}
    /\ inCall' = [inCall EXCEPT ![Current] = "join"]
    /\ Dispatch([ProcTable EXCEPT ![Current].status = JOIN_BLOCK], ReadyList)
    /\ UNCHANGED <<nextPid, now, victim, kpc, walker>>

\* The rest of join, run when the caller is switched back in.  Unlinking a
\* child that is not its own, or not dead, is the end of what is modelled.
JoinResume ==
    /\ outcome = "running" /\ kpc = "user"
    /\ inCall[Current] = "join"
    /\ LET c == ProcTable[Current].childQuitPtr
           mine == c \in Children(Current) /\ ProcTable[c].status = QUIT
       IN  \/ /\ c = NULL
              /\ Halt("null_pointer")
           \/ /\ c # NULL /\ ~mine
              /\ Halt("corrupt")
           \/ \E i \in DOMAIN ProcTable[Current].childProcs :
                /\ ProcTable[Current].childProcs[i] = c
                /\ mine
                /\ ProcTable' = Reap(Current, i)
                /\ inCall' = [inCall EXCEPT ![Current] = "none"]
                /\ UNCHANGED <<ReadyList, Current, nextPid, now, victim, kpc,
                               walker, outcome>>

-----------------------------------------------------------------------------
(***************************************************************************)
(* quit: the caller dies, its zappers are woken one by one, then the       *)
(* parent is told and the dispatcher called.                               *)
(***************************************************************************)
\* Mutant: quit no longer looks for active children.
QuitUnchecked == TRUE
QuitAllowed == ProcTable[Current].childCount = 0

Quit ==
    /\ Calling
    /\ IF ~QuitAllowed
       THEN Halt("halted")
       ELSE /\ ProcTable' = [ProcTable EXCEPT ![Current].status = QUIT,
                                              ![Current].exitTimeSlice = now]
            /\ \E d \in TickSteps : now' = now + d
            /\ IF ProcTable[Current].zap
               THEN kpc' = "quitWake" /\ walker' = ProcTable[Current].zappedPtr
               ELSE kpc' = "quitParent" /\ UNCHANGED walker
            /\ UNCHANGED <<ReadyList, Current, nextPid, inCall, victim, outcome>>

\* A process the kernel may put on the ready list: switched out, and not on it.
Blocked(st) == st \in {JOIN_BLOCK, ZAP_BLOCK} \/ st > 10

\* One turn of the loop over the zapped list.  Making a process READY that is
\* on the ready list already, or dead, is the end of what is modelled.
QuitWake ==
    /\ outcome = "running"
    /\ kpc = "quitWake"
    /\ IF Blocked(ProcTable[walker].status)
       THEN LET T == [ProcTable EXCEPT ![walker].status = READY]
                next == ProcTable[walker].zappedSiblingPtr
            IN  /\ ProcTable' = T
                /\ ReadyList' = AddToReadyList(T, ReadyList, walker)
                /\ walker' = next
                /\ kpc' = IF next = NULL THEN "quitParent" ELSE kpc
                /\ UNCHANGED <<Current, nextPid, now, inCall, victim, outcome>>
       ELSE Halt("corrupt")

\* Mutants of TellParent: the count stays, the parent sleeps on, the parent is
\* not told by whom, the parent is told a pid.
TellParentCountStays(p) ==
    IF ProcTable[p].status = JOIN_BLOCK
    THEN [ProcTable EXCEPT ![p].status = READY, ![p].childQuitPtr = Current]
    ELSE ProcTable
TellParentSleepsOn(p) == [ProcTable EXCEPT ![p].childCount = @ - 1]
TellParentNoChild(p) ==
    IF ProcTable[p].status = JOIN_BLOCK
    THEN [ProcTable EXCEPT ![p].childCount = @ - 1, ![p].status = READY]
    ELSE [ProcTable EXCEPT ![p].childCount = @ - 1]
TellParentPid(p) ==
    IF ProcTable[p].status = JOIN_BLOCK
    THEN [ProcTable EXCEPT ![p].childCount = @ - 1, ![p].status = READY,
                           ![p].childQuitPtr = ProcTable[Current].pid]
    ELSE [ProcTable EXCEPT ![p].childCount = @ - 1]

\* The parent counts the caller out, and is woken if it is blocked in join.
TellParent(p) ==
    IF ProcTable[p].status = JOIN_BLOCK
    THEN [ProcTable EXCEPT ![p].childCount = @ - 1,
                           ![p].status = READY,
                           ![p].childQuitPtr = Current]
    ELSE [ProcTable EXCEPT ![p].childCount = @ - 1]

QuitParent ==
    /\ outcome = "running"
    /\ kpc = "quitParent"
    /\ LET p == ProcTable[Current].parentPtr
       IN  IF p = NULL
           THEN Dispatch(ProcTable, ReadyList)
           ELSE LET T == TellParent(p)
                IN  Dispatch(T, IF T[p].status = ProcTable[p].status
                                THEN ReadyList
                                ELSE AddToReadyList(T, ReadyList, p))
    /\ kpc' = "user"
    /\ walker' = NULL
    /\ UNCHANGED <<nextPid, now, inCall, victim>>

-----------------------------------------------------------------------------
(***************************************************************************)
(* zap.  The call returns at once, changing nothing, when the process has  *)
(* quit already.                                                           *)
(***************************************************************************)
\* The process pid names is in the table and has not quit.
Zappable(pid) ==
    LET e == ProcTable[pid % MAXPROC]
    IN  e.pid = pid /\ e.status \notin {UNUSED, QUIT}

\* The end of zap: the caller T leaves linked blocks until its victim quits.
BlockInZap(T) ==
    /\ inCall' = [inCall EXCEPT ![Current] = "zap"]
    /\ kpc' = "user"
    /\ walker' = NULL
    /\ Dispatch([T EXCEPT ![Current].status = ZAP_BLOCK], ReadyList)

\* The caller's own pid, or one no slot holds.
ZapInvalid(pid) ==
    /\ Calling
    /\ pid \notin {ProcTable[s].pid : s \in {pid % MAXPROC} \ {Current}}
    /\ Halt("halted")

Zap(pid) ==
    LET v == pid % MAXPROC
    IN  /\ Calling
        /\ StaleZappers \/ ProcTable[Current].zappedSiblingPtr = NULL
        /\ Zappable(pid) /\ v # Current
        /\ victim' = [victim EXCEPT ![Current] = pid]
        /\ IF ProcTable[v].zappedPtr = NULL
           THEN BlockInZap([ProcTable EXCEPT ![v].zap = TRUE,
                                             ![v].zappedPtr = Current])
           ELSE /\ ProcTable' = [ProcTable EXCEPT ![v].zap = TRUE]
                /\ kpc' = "zapWalk"
                /\ walker' = ProcTable[v].zappedPtr
                /\ UNCHANGED <<ReadyList, Current, inCall, outcome>>
        /\ UNCHANGED <<nextPid, now>>

\* addToZappedList: one step along the list, then the link at its end.
ZapWalk ==
    /\ outcome = "running"
    /\ kpc = "zapWalk"
    /\ ProcTable[walker].zappedSiblingPtr # NULL
    /\ walker' = ProcTable[walker].zappedSiblingPtr
    /\ UNCHANGED <<ProcTable, ReadyList, Current, nextPid, now, inCall, victim,
                   kpc, outcome>>

\* Mutants: the caller is not linked; the last zapper is linked to itself.
LinkNobody == ProcTable
LinkToItself == [ProcTable EXCEPT ![walker].zappedSiblingPtr = walker]
LinkZapper == [ProcTable EXCEPT ![walker].zappedSiblingPtr = Current]

ZapLink ==
    /\ outcome = "running"
    /\ kpc = "zapWalk"
    /\ ProcTable[walker].zappedSiblingPtr = NULL
    /\ BlockInZap(LinkZapper)
    /\ UNCHANGED <<nextPid, now, victim>>

-----------------------------------------------------------------------------
(***************************************************************************)
(* blockMe and unblockProc.                                                *)
(***************************************************************************)
BlockMe(st) ==
    /\ Calling
    /\ IF st <= 10
       THEN Halt("halted")
       ELSE /\ inCall' = [inCall EXCEPT ![Current] = "blockMe"]
            /\ Dispatch([ProcTable EXCEPT ![Current].status = st], ReadyList)
            /\ UNCHANGED <<nextPid, now, victim, kpc, walker>>

\* Mutant: join and zap are no longer told from the callers' own statuses.
UnblockableAnyhow(s) == Blocked(ProcTable[s].status)
Unblockable(s) == ProcTable[s].status > 10

\* Mutant: unblockProc returns without calling the dispatcher.
ReadiedAndLeft(T, q) == Stay(T, q) /\ UNCHANGED outcome
ReadiedAndDispatched(T, q) == Dispatch(T, q)

\* The pid picks the slot and is not compared with the one stored there.
UnblockProc(pid) ==
    LET s == pid % MAXPROC
        T == [ProcTable EXCEPT ![s].status = READY]
    IN  /\ Calling
        /\ Unblockable(s)
        /\ s # Current
        /\ ReadiedAndDispatched(T, AddToReadyList(T, ReadyList, s))
        /\ UNCHANGED <<nextPid, now, inCall, victim, kpc, walker>>

\* zap and blockMe only return when their caller runs again.
CallReturns ==
    /\ outcome = "running" /\ kpc = "user"
    /\ inCall[Current] \in {"zap", "blockMe"}
    /\ inCall' = [inCall EXCEPT ![Current] = "none"]
    /\ UNCHANGED <<ProcTable, ReadyList, Current, nextPid, now, victim, kpc,
                   walker, outcome>>

\* The sentinel runs: it halts the machine, and says how it found it.
CheckDeadlock ==
    /\ outcome = "running" /\ kpc = "user"
    /\ Current = SENTINELPID
    /\ IF {s \in Slots : ProcTable[s].status \notin {UNUSED, QUIT}} = {SENTINELPID}
       THEN Halt("completed")
       ELSE Halt("deadlock")

-----------------------------------------------------------------------------
\* startup: the sentinel is ready and start1, of priority 1, runs.
Init ==
    /\ ProcTable = [s \in Slots |->
         CASE s = SENTINELPID -> NewEntry(SENTINELPID, SENTINELPRIORITY, NULL)
           [] s = SENTINELPID + 1 ->
                [NewEntry(SENTINELPID + 1, 1, NULL) EXCEPT !.status = RUNNING]
           [] OTHER -> CleanEntry]
    /\ ReadyList = <<SENTINELPID>>
    /\ Current = SENTINELPID + 1
    /\ nextPid = SENTINELPID + 2
    /\ now = 0
    /\ inCall = [s \in Slots |-> "none"]
    /\ victim = [s \in Slots |-> 0]
    /\ kpc = "user"
    /\ walker = NULL
    /\ outcome = "running"

Pids == 1 .. MaxPid

Next ==
    \/ ForkTableFull
    \/ ForkRejected
    \/ \E prio \in ForkPriorities : ForkCreate(prio)
    \/ JoinQuitChild
    \/ JoinBlock
    \/ JoinResume
    \/ Quit
    \/ QuitWake
    \/ QuitParent
    \/ \E pid \in Pids : ZapInvalid(pid)
    \/ \E pid \in Pids : Zap(pid)
    \/ ZapWalk
    \/ ZapLink
    \/ \E st \in BlockStatuses : BlockMe(st)
    \/ \E pid \in Pids : UnblockProc(pid)
    \/ CallReturns
    \/ CheckDeadlock

Spec == Init /\ [][Next]_vars

\* The machine goes on executing a list walk it is in.
FairSpec == Spec /\ WF_vars(QuitWake \/ QuitParent \/ ZapWalk \/ ZapLink)
=============================================================================
