------------------------ MODULE SemaphoreProperties ------------------------
(***************************************************************************)
(* What the semaphores of phase 3 promise.                                 *)
(***************************************************************************)
EXTENDS Semaphores, SequencesExt

\* The processes from first on, followed along the links next; more of them than
\* there are processes is a ring.
Followed(first, next) ==
    LET upTo[n \in 0 .. Cardinality(Procs)] ==
            IF n = 0 THEN IF first = NULL THEN <<>> ELSE <<first>>
            ELSE LET q == upTo[n-1]
                 IN  IF q = <<>> \/ next[Last(q)] = NULL THEN q
                     ELSE Append(q, next[Last(q)])
    IN  upTo[Cardinality(Procs)]

\* The list of semaphore s.
Chain(s) == Followed(semTable[s].blockedProcessPtr, nextSemBlockedSiblingPtr)

On(s, where) == {p \in Procs : sem[p] = s /\ pc[p] = where}
InUse(s) == semTable[s].status = USED

\* Types of the tables (sems.h) and of the calls.
SemTypeOK ==
    /\ semTable \in [Sems -> Semaphore]
    /\ nextSemBlockedSiblingPtr \in [Procs -> Pointers]
    /\ Current \in Pointers
    /\ pc \in [Procs -> {"user", "walk", "blocked", "woken", "free", "freeing", "gone"}]
    /\ sem \in [Procs -> Sems]
    /\ walker \in Pointers

\* The chain of nextSemBlockedSiblingPtr is "other processes blocked on the same
\* semaphore": all of them, each once, and nobody else.
ChainIsTheBlocked ==
    \A s \in Sems : /\ IsInjective(Chain(s))
                    /\ ToSet(Chain(s)) = On(s, "blocked")

\* Nobody waits beside a permit (semPReal, semVReal): where a process is blocked,
\* there are no more permits than processes that were woken to take one.  No V is
\* lost between the V that wakes and the count of the woken, whoever runs first.
NobodyWaitsBesideAPermit ==
    \A s \in Sems : InUse(s) /\ Chain(s) # <<>> =>
            semTable[s].value <= Cardinality(On(s, "woken"))

\* A permit is promised to each process that was woken and has not run since.
Promised(s) == Cardinality(On(s, "woken"))

Abstract(s) == INSTANCE CountingSemaphore WITH
    open <- InUse(s),
    count <- IF InUse(s) THEN semTable[s].value - Promised(s) ELSE 0,
    waiting <- IF InUse(s) THEN Chain(s) ELSE <<>>

\* A P that comes before the woken process runs takes the permit promised to that
\* one, and both return (phase3.c:254, 266).
TakesAPromised(s) ==
    /\ InUse(s) /\ InUse(s)'
    /\ semTable[s].value <= Promised(s)
    /\ semTable'[s].value = semTable[s].value - 1
    /\ UNCHANGED <<On(s, "woken"), Chain(s)>>

\* The entry of a semaphore that was freed is used again before the process woken
\* on it runs, and counts down there (phase3.c:331, 266).
MadeAnew(s) == ~InUse(s) /\ InUse(s)' /\ On(s, "woken") # {}

\* Each semaphore is a counting semaphore, whoever runs first behind a wakeup: every
\* step is one of it, for every entry of semTable, or leaves it alone, but those two
\* in which a woken process is not waited for.  So a V goes to the first of those
\* that wait, also behind such a step, and one that finds nobody waiting pays back
\* what was taken twice.
SemaphoresCount ==
    /\ \A s \in Sems : Abstract(s)!Init
    /\ [][\A s \in Sems : \/ Abstract(s)!Next
                          \/ UNCHANGED Abstract(s)!semaphoreVars
                          \/ TakesAPromised(s)
                          \/ MadeAnew(s)]_vars

\* A P that was blocked on a semaphore never returns once that has been freed: the
\* processes SemFree finds blocked "terminate themselves".
FreedTerminate ==
    [][\A p \in Procs : (pc[p] \in {"blocked", "woken"} /\ pc'[p] = "user") =>
            semTable[sem[p]].status # FREED]_vars
=============================================================================
