-------------------------- MODULE KernelProperties --------------------------
(***************************************************************************)
(* What the kernel of phase 1 promises the layers above it.                *)
(***************************************************************************)
EXTENDS Kernel

InUse(s) == ProcTable[s].status # UNUSED
Alive(s) == ProcTable[s].status \notin {UNUSED, QUIT}
Live == {s \in Slots : Alive(s)}

\* Current has called quit, and its parent has not been told yet.
Dying(s) == s = Current /\ kpc \in {"quitWake", "quitParent"}

\* The zappers on the list of v, followed along zappedSiblingPtr.
Zappers(v) ==
    LET reach[n \in 0 .. MAXPROC] ==
            IF n = 0 THEN {ProcTable[v].zappedPtr}
            ELSE reach[n-1] \cup
                 {ProcTable[z].zappedSiblingPtr : z \in reach[n-1] \ {NULL}}
    IN  reach[MAXPROC] \ {NULL}

\* The process pid named has quit, whether or not its slot was cleaned since.
HasQuit(p) ==
    \/ ProcTable[p % MAXPROC].pid # p
    \/ ~Alive(p % MAXPROC)

-----------------------------------------------------------------------------
\* Types of the process table (kernel.h) and of the kernel's globals.
TypeOK ==
    /\ ProcTable \in [Slots -> ProcStruct]
    /\ ReadyList \in Seq(Slots)
    /\ Current \in Slots
    /\ nextPid \in Nat
    /\ now \in Nat
    /\ inCall \in [Slots -> {"none", "join", "zap", "blockMe"}]
    /\ victim \in [Slots -> Nat]
    /\ kpc \in {"user", "quitWake", "quitParent", "zapWalk"}
    /\ walker \in Pointers
    /\ outcome \in {"running", "completed", "deadlock", "halted",
                    "quit_returned", "null_pointer", "corrupt"}

\* The ready list holds the READY processes, each once, strongest priority
\* first, and the sentinel ends it whenever another process runs: dispatcher()
\* reads ReadyList->priority without testing ReadyList for NULL.
ReadyListSound ==
    /\ \A i, j \in DOMAIN ReadyList :
          i < j => /\ ReadyList[i] # ReadyList[j]
                   /\ Priority(ReadyList[i]) <= Priority(ReadyList[j])
    /\ Range(ReadyList) = {s \in Slots : ProcTable[s].status = READY}
    /\ Current # SENTINELPID =>
          ReadyList # <<>> /\ Last(ReadyList) = SENTINELPID

\* While a process runs its own code no process of a stronger priority waits
\* on the ready list ("the process with the highest priority is scheduled to
\* run"); join, zap and blockMe rely on it, since dispatcher() puts its caller
\* back on the ready list when the head is stronger, blocked or not.
RunningIsStrongest ==
    kpc = "user" => \A s \in Range(ReadyList) : Priority(Current) <= Priority(s)

\* childCount, by which quit() decides whether it may quit, is the number of
\* children on the list that have not quit; it lags behind only inside quit().
ChildCountExact ==
    \A s \in Live : ProcTable[s].childCount =
        Cardinality({c \in Children(s) : Alive(c) \/ Dying(c)})

\* A process outlives its children: every process but the two that startup()
\* creates has a living parent, is on that parent's list, and on no other.
ParentOutlivesChild ==
    \A c \in Live \ {SENTINELPID, SENTINELPID + 1} :
        /\ ProcTable[c].parentPtr \in Live
        /\ {s \in Live : c \in Children(s)} = {ProcTable[c].parentPtr}

\* join neither loses its wakeup nor is woken for nothing: a process blocked there
\* has a child still to quit, and one that has been woken finds in childQuitPtr a
\* child of its own that has quit and not been cleaned, however much has run since.
JoinGetsItsChild ==
    \A s \in Slots :
        /\ ProcTable[s].status = JOIN_BLOCK => \E c \in Children(s) : Alive(c) \/ Dying(c)
        /\ inCall[s] = "join" /\ ProcTable[s].status \in {READY, RUNNING} =>
              /\ ProcTable[s].childQuitPtr \in Children(s)
              /\ ProcTable[ProcTable[s].childQuitPtr].status = QUIT

\* zap() waits "for zapped process to call quit", and no longer: its caller is
\* not ready to go on before the process it named has quit, and while it is
\* blocked it is on the zapped list of that process, which is alive or still
\* walking the list in quit().
ZapWaitsForQuit ==
    \A s \in Slots :
        /\ inCall[s] = "zap" /\ ProcTable[s].status # ZAP_BLOCK => HasQuit(victim[s])
        /\ ProcTable[s].status = ZAP_BLOCK =>
              LET v == victim[s] % MAXPROC
              IN  \/ Alive(v) /\ ProcTable[v].zap /\ s \in Zappers(v)
                  \/ Dying(v) /\ kpc = "quitWake"

\* A slot holds the pid that indexes it (ProcTable[pid % MAXPROC]), and a pid
\* that fork1 has yet to hand out.
PidNamesSlot ==
    \A s \in Slots : InUse(s) =>
        ProcTable[s].pid % MAXPROC = s /\ ProcTable[s].pid \in 1 .. nextPid-1

\* The sentinel only gets the processor when nothing else can run: what it
\* reports as a deadlock are blocked processes, and what it reports as
\* completion leaves nobody behind.
SentinelTellsTheTruth ==
    /\ outcome \in {"deadlock", "completed"} =>
          \A s \in Live \ {SENTINELPID} : Blocked(ProcTable[s].status)
    /\ outcome = "deadlock" => \E s \in Live : Blocked(ProcTable[s].status)

\* A process leaves the table only by its own quit: nobody else ends it or
\* reuses its slot, and only the parent's join cleans it afterwards.
OnlyQuitEndsAProcess ==
    [][\A s \in Slots :
         /\ (Alive(s) /\ s # Current) => (Alive(s)' /\ ProcTable'[s].pid = ProcTable[s].pid)
         /\ (InUse(s) /\ ~InUse(s)') => /\ ProcTable[s].status = QUIT
                                        /\ ProcTable[s].parentPtr = Current]_vars

\* The list walks of quit() and zap() end: no chain of zappers is a cycle.
WalksEnd == kpc # "user" ~> (kpc = "user" \/ outcome # "running")

=============================================================================
