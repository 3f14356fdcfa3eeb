----------------------------- MODULE Semaphores -----------------------------
(***************************************************************************)
(* The semaphores of src/phase3/phase3.c: SemCreate, SemP, SemV, SemFree.  *)
(*                                                                         *)
(* A process blocks in a receive from the zero-slot mailbox of its own     *)
(* process table entry, and is woken by a conditional send to it.  System  *)
(* calls run with interrupts disabled, so the processor changes hands in   *)
(* that receive, in that send, after them (the dispatcher enables the      *)
(* interrupts when it switches) and in user mode: an action is the code    *)
(* between two of these, or one step along a list.                         *)
(***************************************************************************)
EXTENDS Integers, Sequences, FiniteSets

CONSTANTS
    Procs,
    NULL,
    MAXSEMS,    \* entries of semTable
    Values,     \* the values passed to SemCreate
    StaleLinks, \* may a process whose link is set block again?
    MaxValue    \* bound: no semaphore is counted up beyond it

Sems == 0 .. MAXSEMS-1
Pointers == Procs \cup {NULL}

UNUSED == 0
USED == 1
FREED == 3

ASSUME SemaphoresAssumption ==
    /\ NULL \notin Procs /\ IsFiniteSet(Procs)
    /\ MAXSEMS \in Nat \ {0}
    /\ Values \subseteq Int
    /\ StaleLinks \in BOOLEAN
    /\ MaxValue \in Nat

VARIABLES
    semTable,
    nextSemBlockedSiblingPtr,  \* per process, the next one blocked on its semaphore
    Current,                   \* the running process; NULL: the sentinel
    pc,                        \* per process, where it is
    sem,                       \* per process, the semaphore of its call
    walker                     \* the pointer of addToBlockedList

vars == <<semTable, nextSemBlockedSiblingPtr, Current, pc, sem, walker>>

Semaphore == [status : {UNUSED, USED, FREED}, value : Int, blockedProcessPtr : Pointers]

-----------------------------------------------------------------------------
(***************************************************************************)
(* Phases 1 and 2, as this code uses them.                                 *)
(***************************************************************************)
\* The processor goes to a process that can run with the pcs at, if any.
SwitchFrom(at) ==
    LET awake == {p \in Procs : at[p] \notin {"blocked", "gone"}}
    IN  Current' \in IF awake = {} THEN {NULL} ELSE awake

\* MboxReceive from the mailbox of Current: nobody ever waits to send to it.
MboxReceive(s) ==
    /\ pc' = [pc EXCEPT ![Current] = "blocked"]
    /\ sem' = [sem EXCEPT ![Current] = s]
    /\ SwitchFrom(pc')

\* MboxCondSend to the mailbox of p, out of a call that leaves the pcs at:
\* nothing is kept if p is not receiving.  The receiver runs at once when it is
\* stronger than the sender, and later when it is not.
MboxCondSend(p, at) ==
    IF at[p] = "blocked"
    THEN /\ pc' = [at EXCEPT ![p] = "woken"]
         /\ Current' \in {p, Current}
    ELSE pc' = at /\ UNCHANGED Current

\* Another process can run, and an interrupt or a call of another kind gives
\* it the processor.
TimeSlice ==
    /\ Current # NULL
    /\ pc[Current] \in {"user", "freeing", "woken"}
    /\ SwitchFrom(pc)
    /\ UNCHANGED <<semTable, nextSemBlockedSiblingPtr, pc, sem, walker>>

At(where) == Current # NULL /\ pc[Current] = where

-----------------------------------------------------------------------------
\* getNextSemIndex; a negative value makes no semaphore.
FirstUnused(s) ==
    /\ semTable[s].status = UNUSED
    /\ \A t \in 0 .. s-1 : semTable[t].status # UNUSED

SemCreate(value) ==
    /\ At("user")
    /\ value >= 0
    /\ \E s \in Sems :
        /\ FirstUnused(s)
        /\ semTable' = [semTable EXCEPT ![s].status = USED, ![s].value = value]
    /\ UNCHANGED <<nextSemBlockedSiblingPtr, Current, pc, sem, walker>>

\* Mutant: the permit a P takes is not counted.
Uncounted(s) == semTable
Counted(s) == [semTable EXCEPT ![s].value = @ - 1]

\* A P that need not wait.
SemPass(s) ==
    /\ At("user")
    /\ semTable[s].status # UNUSED /\ semTable[s].value > 0
    /\ semTable' = Counted(s)
    /\ UNCHANGED <<nextSemBlockedSiblingPtr, Current, pc, sem, walker>>

\* A P that waits: the caller goes to the end of the list.
SemBlock(s) ==
    /\ At("user")
    /\ StaleLinks \/ nextSemBlockedSiblingPtr[Current] = NULL
    /\ semTable[s].status # UNUSED /\ semTable[s].value <= 0
    /\ IF semTable[s].blockedProcessPtr = NULL
       THEN /\ semTable' = [semTable EXCEPT ![s].blockedProcessPtr = Current]
            /\ MboxReceive(s)
            /\ UNCHANGED walker
       ELSE /\ pc' = [pc EXCEPT ![Current] = "walk"]
            /\ sem' = [sem EXCEPT ![Current] = s]
            /\ walker' = semTable[s].blockedProcessPtr
            /\ UNCHANGED <<semTable, Current>>
    /\ UNCHANGED nextSemBlockedSiblingPtr

\* addToBlockedList: a step along the list, and the link at its end.
ListWalk ==
    /\ At("walk")
    /\ nextSemBlockedSiblingPtr[walker] # NULL
    /\ walker' = nextSemBlockedSiblingPtr[walker]
    /\ UNCHANGED <<semTable, nextSemBlockedSiblingPtr, Current, pc, sem>>

\* Mutants: the link is set at the wrong end; a number is stored for a pointer.
LinkedFirst == [nextSemBlockedSiblingPtr EXCEPT ![Current] = walker]
LinkedNumber == [nextSemBlockedSiblingPtr EXCEPT ![walker] = sem[Current]]
Linked == [nextSemBlockedSiblingPtr EXCEPT ![walker] = Current]

ListLink ==
    /\ At("walk")
    /\ nextSemBlockedSiblingPtr[walker] = NULL
    /\ nextSemBlockedSiblingPtr' = Linked
    /\ MboxReceive(sem[Current])
    /\ walker' = NULL
    /\ UNCHANGED semTable

\* Mutant: SemP does not look at the status again.
FreedUnseen(s) == FALSE
FreedMeanwhile(s) == semTable[s].status = FREED

\* A P that was woken: by SemFree, or with a permit, which it takes now.
SemPResume ==
    LET s == sem[Current]
    IN  /\ At("woken")
        /\ IF FreedMeanwhile(s)
           THEN /\ pc' = [pc EXCEPT ![Current] = "gone"]
                /\ SwitchFrom(pc')
                /\ UNCHANGED semTable
           ELSE /\ pc' = [pc EXCEPT ![Current] = "user"]
                /\ semTable' = Counted(s)
                /\ UNCHANGED Current
        /\ UNCHANGED <<nextSemBlockedSiblingPtr, sem, walker>>

\* semVReal, out of a call that leaves the pcs at: the first of the list is
\* taken off it, its link left as it is, and woken.
\* Mutant: the first stays on the list.
FirstStays(s) == semTable[s].blockedProcessPtr
BehindFirst(s) == nextSemBlockedSiblingPtr[semTable[s].blockedProcessPtr]

SemVReal(s, at) ==
    LET first == semTable[s].blockedProcessPtr
    IN  /\ semTable[s].value < MaxValue
        /\ IF first = NULL
           THEN /\ semTable' = [semTable EXCEPT ![s].value = @ + 1]
                /\ pc' = at
                /\ UNCHANGED Current
           ELSE /\ semTable' = [semTable EXCEPT ![s].value = @ + 1,
                                                ![s].blockedProcessPtr = BehindFirst(s)]
                /\ MboxCondSend(first, at)
        /\ UNCHANGED <<nextSemBlockedSiblingPtr, sem, walker>>

SemV(s) ==
    /\ At("user")
    /\ semTable[s].status # UNUSED
    /\ SemVReal(s, pc)

SemFree(s) ==
    /\ At("user")
    /\ semTable[s].status = USED
    /\ IF semTable[s].blockedProcessPtr = NULL
       THEN /\ semTable' = [semTable EXCEPT ![s].status = UNUSED]
            /\ UNCHANGED <<pc, sem>>
       ELSE /\ semTable' = [semTable EXCEPT ![s].status = FREED]
            /\ pc' = [pc EXCEPT ![Current] = "free"]
            /\ sem' = [sem EXCEPT ![Current] = s]
    /\ UNCHANGED <<nextSemBlockedSiblingPtr, Current, walker>>

\* One turn of SemFree's loop, and the way out of it.
FreeNext ==
    /\ At("free") \/ At("freeing")
    /\ IF semTable[sem[Current]].blockedProcessPtr # NULL
       THEN SemVReal(sem[Current], [pc EXCEPT ![Current] = "freeing"])
       ELSE /\ pc' = [pc EXCEPT ![Current] = "user"]
            /\ UNCHANGED <<semTable, nextSemBlockedSiblingPtr, Current, sem, walker>>

-----------------------------------------------------------------------------
\* start2 has initialised the tables and the processes have been spawned.
Init ==
    /\ semTable = [s \in Sems |-> [status |-> UNUSED, value |-> 0, blockedProcessPtr |-> NULL]]
    /\ nextSemBlockedSiblingPtr = [p \in Procs |-> NULL]
    /\ Current \in Procs
    /\ pc = [p \in Procs |-> "user"]
    /\ sem = [p \in Procs |-> 0]
    /\ walker = NULL

Next ==
    \/ TimeSlice
    \/ \E value \in Values : SemCreate(value)
    \/ \E s \in Sems : SemPass(s)
    \/ \E s \in Sems : SemBlock(s)
    \/ ListWalk
    \/ ListLink
    \/ SemPResume
    \/ \E s \in Sems : SemV(s)
    \/ \E s \in Sems : SemFree(s)
    \/ FreeNext

Spec == Init /\ [][Next]_vars
=============================================================================
