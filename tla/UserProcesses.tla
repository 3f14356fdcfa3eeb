--------------------------- MODULE UserProcesses ---------------------------
(***************************************************************************)
(* Phase 3, src/phase3/phase3.c: Spawn, Wait and Terminate, and the table  *)
(* with the lists of children that they keep.  The users are programs,     *)
(* sequences of calls.  A semaphore they use is its value and the list of  *)
(* those blocked on it; module Semaphores has how phase 3 links that list. *)
(*                                                                         *)
(* A child may run before spawnReal has filled its entry in, or after it:  *)
(* both ends fill what they find empty, through two globals.               *)
(***************************************************************************)
EXTENDS LowerPhases, SequencesExt, TLC

CONSTANTS
    NULL,
    MAXSEMS,       \* entries of semTable
    Tests          \* by name, the tests; one of them runs

START2 == 3        \* the process phase 2 starts; its first Spawn is start3
START3 == 4

\* The table's entries, and what is taken for one when fork1 has failed and its
\* -1 is the index.
FAILED == -1
Entries == FAILED .. MAXPROC-1
EntryOf(p) == IF p = FAILED THEN FAILED ELSE p % MAXPROC

ASSUME UserProcessesAssumption ==
    /\ NULL \notin Entries
    /\ MAXSEMS \in Nat

VARIABLES
    test,          \* the name of the test that runs
    sys,           \* the machine of LowerPhases
    pc,            \* per pid, what it does when it runs next
    prog, line,    \* per pid, the function it runs, and the call it is at
    processTable,  \* the table of sems.h
    startFuncGlobal, parentPidGlobal,
    child,         \* per pid, the variable pid of spawnReal, or child of terminateReal
    freed,         \* the semaphores freed while processes waited
    asked,         \* per pid, the function its Spawn named (history)
    waits          \* what Wait has returned to those that print it (history)

vars == <<test, sys, pc, prog, line, processTable, startFuncGlobal, parentPidGlobal,
          child, freed, asked, waits>>

globals == <<startFuncGlobal, parentPidGlobal>>
history == <<asked, waits>>

UNUSED == 0
USED == 1
TERMINATED == 2
TERMINATED_FROM_SEMFREE == 1

Test == Tests[test]
Calls(f) ==
    IF f = "start2" THEN <<Spawn("start3", 3), WaitQuietly, Exit(0)>> ELSE Test.code[f]

me == sys.cur
Runs(where) == me # IDLE /\ pc[me] = where
Then(where) == pc' = [pc EXCEPT ![me] = where]
Call == Calls(prog[me])[line[me]]
MakesCall(name) ==
    Runs("user") /\ line[me] <= Len(Calls(prog[me])) /\ Call.call = name
Returns == Then("user") /\ line' = [line EXCEPT ![me] = @ + 1]

-----------------------------------------------------------------------------
(***************************************************************************)
(* The lists of children.                                                  *)
(***************************************************************************)
\* Where a walk along the siblings from entry e gets to, NULL excluded.
Siblings(table, e) ==
    LET next == (NULL :> NULL) @@ [d \in Entries |-> table[d].nextSiblingPtr]
        at[i \in 1 .. MAXPROC+2] == IF i = 1 THEN e ELSE next[at[i-1]]
    IN  SelectSeq([i \in 1 .. MAXPROC+2 |-> at[i]], LAMBDA x : x # NULL)

\* addToChildList: the table with entry e behind the last child of parent.
AddToChildList(table, parent, e) ==
    LET list == Siblings(table, table[EntryOf(parent)].childPtr)
    IN  IF list = <<>> THEN [table EXCEPT ![EntryOf(parent)].childPtr = e]
        ELSE [table EXCEPT ![Last(list)].nextSiblingPtr = e]

-----------------------------------------------------------------------------
(***************************************************************************)
(* Spawn.                                                                  *)
(***************************************************************************)
\* The globals are set and fork1 called, which runs a stronger child at once.
SpawnFork ==
    /\ MakesCall("Spawn")
    /\ startFuncGlobal' = Call.f
    /\ parentPidGlobal' = me
    /\ IF CanFork(sys)
       THEN LET pid == NextPid(sys)
            IN  /\ sys' = Forked(sys, Call.prio)
                /\ asked' = [asked EXCEPT ![pid] = Call.f]
                /\ child' = [child EXCEPT ![me] = pid]
       ELSE /\ child' = [child EXCEPT ![me] = FAILED]
            /\ UNCHANGED <<sys, asked>>
    /\ Then("spawned")
    /\ UNCHANGED <<test, prog, line, processTable, freed, waits>>

\* spawnReal, behind fork1: is the entry empty?
\* Mutant: it does not look.
LooksEmptyAlways(e) == TRUE
LooksEmpty(e) == processTable[e].entryMade = 0

SpawnTest ==
    /\ Runs("spawned")
    /\ IF LooksEmpty(EntryOf(child[me])) THEN Then("filling") /\ UNCHANGED line
       ELSE Returns
    /\ UNCHANGED <<test, sys, prog, processTable, globals, child, freed, history>>

\* Mutant: the entry gets the pid of the parent.
FilledWithParent(e, pid, f) ==
    [processTable EXCEPT ![e].pid = me, ![e].entryMade = 1, ![e].status = USED,
                         ![e].startFunc = f]
Filled(e, pid, f) ==
    [processTable EXCEPT ![e].pid = pid, ![e].entryMade = 1, ![e].status = USED,
                         ![e].startFunc = f]

SpawnFill ==
    /\ Runs("filling")
    /\ LET e == EntryOf(child[me])
       IN  processTable' = AddToChildList(Filled(e, child[me], Call.f), me, e)
    /\ Returns
    /\ UNCHANGED <<test, sys, prog, globals, child, freed, history>>

\* spawnLaunch: the child has been zapped, finds its entry empty or used up, or
\* takes its function from it.
LaunchZapped ==
    /\ Runs("launch")
    /\ IsZapped(sys)
    /\ sys' = Quit(sys, TERMINATED)
    /\ Then("gone")
    /\ UNCHANGED <<test, prog, line, processTable, globals, child, freed, history>>

\* Mutant: whatever its entry says.
FunctionFromGlobal == startFuncGlobal
FunctionFromEntry == processTable[EntryOf(me)].startFunc

LaunchTest ==
    /\ Runs("launch")
    /\ ~IsZapped(sys)
    /\ LET entry == processTable[EntryOf(me)]
       IN  IF entry.entryMade = 0 \/ entry.status = TERMINATED
           THEN Then("launchFill") /\ UNCHANGED startFuncGlobal
           ELSE startFuncGlobal' = FunctionFromEntry /\ Then("launchRun")
    /\ UNCHANGED <<test, sys, prog, line, processTable, parentPidGlobal, child, freed, history>>

LaunchFill ==
    /\ Runs("launchFill")
    /\ LET e == EntryOf(me)
       IN  processTable' = AddToChildList(
               [processTable EXCEPT ![e].pid = me, ![e].entryMade = 1, ![e].status = USED],
               parentPidGlobal, e)
    /\ Then("launchRun")
    /\ UNCHANGED <<test, sys, prog, line, globals, child, freed, history>>

LaunchRun ==
    /\ Runs("launchRun")
    /\ prog' = [prog EXCEPT ![me] = startFuncGlobal]
    /\ Then("user")
    /\ UNCHANGED <<test, sys, line, processTable, globals, child, freed, history>>

\* The function returns to spawnLaunch, which returns to phase 1; start2 returns
\* to phase 1 right away.
Exits ==
    /\ MakesCall("Exit")
    /\ processTable' = IF me = START2 THEN processTable
                       ELSE [processTable EXCEPT ![EntryOf(me)].status = TERMINATED]
    /\ sys' = Quit(sys, Call.status)
    /\ Then("gone")
    /\ UNCHANGED <<test, prog, line, globals, child, freed, history>>

-----------------------------------------------------------------------------
(***************************************************************************)
(* Wait and Terminate.                                                     *)
(***************************************************************************)
WaitReal ==
    /\ MakesCall("Wait")
    /\ sys' = Joined(sys)
    /\ Then("waited")
    /\ UNCHANGED <<test, prog, line, processTable, globals, child, freed, history>>

Waited ==
    /\ Runs("waited")
    /\ waits' = IF Call.prints /\ sys.got[me] # NoChildren
                THEN Append(waits, <<sys.got[me], sys.code[sys.got[me]]>>) ELSE waits
    /\ Returns
    /\ UNCHANGED <<test, sys, prog, processTable, globals, child, freed, asked>>

\* terminateReal walks along its children.
TerminateReal ==
    /\ MakesCall("Terminate")
    /\ child' = [child EXCEPT ![me] = processTable[EntryOf(me)].childPtr]
    /\ Then("walk")
    /\ UNCHANGED <<test, sys, prog, line, processTable, globals, freed, history>>

AtChild == child[me] # NULL /\ processTable[child[me]].pid > 0

\* Mutant: a child is zapped though it has ended.
ZapsTheEnded(e) == TRUE
ZapsIt(e) == processTable[e].status # TERMINATED

TerminateZap ==
    /\ Runs("walk")
    /\ AtChild /\ ZapsIt(child[me])
    /\ processTable' = [processTable EXCEPT ![child[me]].status = TERMINATED]
    /\ sys' = Zapped(sys, processTable[child[me]].pid)
    /\ Then("zapped")
    /\ UNCHANGED <<test, prog, line, globals, child, freed, history>>

\* Mutant: the first child is the only one.
NoNextChild(e) == NULL
NextChild(e) == processTable[e].nextSiblingPtr

TerminateNext ==
    /\ \/ Runs("zapped")
       \/ Runs("walk") /\ AtChild /\ ~ZapsIt(child[me])
    /\ child' = [child EXCEPT ![me] = NextChild(child[me])]
    /\ Then("walk")
    /\ UNCHANGED <<test, sys, prog, line, processTable, globals, freed, history>>

\* The status: a process that its semaphore's end has ended has another.
ExitStatus == IF Call.call = "SemP" THEN TERMINATED_FROM_SEMFREE ELSE Call.status

TerminateQuit ==
    /\ Runs("walk")
    /\ ~AtChild
    /\ processTable' = [processTable EXCEPT
          ![EntryOf(me)] = [@ EXCEPT !.status = TERMINATED, !.childPtr = NULL,
                                     !.nextSiblingPtr = NULL]]
    /\ sys' = Quit(sys, ExitStatus)
    /\ Then("gone")
    /\ UNCHANGED <<test, prog, line, globals, child, freed, history>>

-----------------------------------------------------------------------------
(***************************************************************************)
(* The semaphores.  A program knows a semaphore by its number.             *)
(***************************************************************************)
SemCreateCall ==
    /\ MakesCall("SemCreate")
    /\ LET unused == {s \in 0 .. MAXSEMS-1 : s \notin DOMAIN sys.sem}
           first == CHOOSE s \in unused : \A r \in unused : s <= r
       IN  IF unused = {} THEN UNCHANGED sys
           ELSE sys' = [sys EXCEPT !.sem = (first :> Semaphore(Call.count)) @@ @]
    /\ Returns
    /\ UNCHANGED <<test, prog, processTable, globals, child, freed, history>>

\* A number that no semaphore has is refused.
IsUnused(s) == s \notin DOMAIN sys.sem

\* semPReal as far as the receive.
SemPCall ==
    /\ MakesCall("SemP")
    /\ IF IsUnused(Call.sem) THEN Returns /\ UNCHANGED sys
       ELSE IF sys.sem[Call.sem].count > 0
       THEN Returns /\ sys' = [sys EXCEPT !.sem[Call.sem].count = @ - 1]
       ELSE /\ sys' = Yielded([sys EXCEPT !.sem[Call.sem].waiting = Append(@, me)])
            /\ Then("semP")
            /\ UNCHANGED line
    /\ UNCHANGED <<test, prog, processTable, globals, child, freed, history>>

IsFreed(s) == s \in freed

\* Behind the receive of a P: it counts down whatever the value is by now, or goes
\* into terminateReal.
SemPReturns ==
    /\ Runs("semP")
    /\ ~IsFreed(Call.sem)
    /\ sys' = IF IsUnused(Call.sem) THEN sys
              ELSE [sys EXCEPT !.sem[Call.sem].count = @ - 1]
    /\ Returns
    /\ UNCHANGED <<test, prog, processTable, globals, child, freed, history>>

SemPTerminates ==
    /\ Runs("semP")
    /\ IsFreed(Call.sem)
    /\ child' = [child EXCEPT ![me] = processTable[EntryOf(me)].childPtr]
    /\ Then("walk")
    /\ UNCHANGED <<test, sys, prog, line, processTable, globals, freed, history>>

\* semVReal: the permit is counted, and the first that waits is woken.
SemVReal(s) ==
    LET counted == [sys EXCEPT !.sem[s].count = @ + 1]
        waiting == sys.sem[s].waiting
    IN  IF waiting = <<>> THEN counted
        ELSE Unblocked([counted EXCEPT !.sem[s].waiting = Tail(@)], Head(waiting))

SemVCall ==
    /\ MakesCall("SemV")
    /\ sys' = IF IsUnused(Call.sem) THEN sys ELSE SemVReal(Call.sem)
    /\ Returns
    /\ UNCHANGED <<test, prog, processTable, globals, child, freed, history>>

\* The entry can be used again, unless processes wait: it is lost, and they are
\* woken one by one.
SemFreeCall ==
    /\ MakesCall("SemFree")
    /\ IF IsUnused(Call.sem) \/ IsFreed(Call.sem) THEN Returns /\ UNCHANGED <<sys, freed>>
       ELSE IF sys.sem[Call.sem].waiting = <<>>
       THEN /\ sys' = [sys EXCEPT !.sem = [s \in DOMAIN @ \ {Call.sem} |-> @[s]]]
            /\ UNCHANGED freed
            /\ Returns
       ELSE /\ freed' = freed \cup {Call.sem}
            /\ sys' = SemVReal(Call.sem)
            /\ Then("freeing")
            /\ UNCHANGED line
    /\ UNCHANGED <<test, prog, processTable, globals, child, history>>

\* Mutant: the first is the only one.
OneBlocked(s) == FALSE
MoreBlocked(s) == sys.sem[s].waiting # <<>>

SemFreeNext ==
    /\ Runs("freeing")
    /\ MoreBlocked(Call.sem)
    /\ sys' = SemVReal(Call.sem)
    /\ UNCHANGED <<test, pc, prog, line, processTable, globals, child, freed, history>>

SemFreeReturns ==
    /\ Runs("freeing")
    /\ ~MoreBlocked(Call.sem)
    /\ Returns
    /\ UNCHANGED <<test, sys, prog, processTable, globals, child, freed, history>>

\* GetTimeofDay, CPUTime and GetPID change nothing.
Asks ==
    /\ MakesCall("Ask")
    /\ Returns
    /\ UNCHANGED <<test, sys, prog, processTable, globals, child, freed, history>>

-----------------------------------------------------------------------------
\* A time slice ends.  Within a Spawn, and before a child runs its function, it
\* ends only in the tests that say so.
InSpawn(p) == pc[p] \in {"spawned", "filling", "launch", "launchFill", "launchRun"}

TimeSlice ==
    /\ Test.slices # "never"
    /\ HasEqual(sys)
    /\ InSpawn(me) => Test.slices = "always"
    /\ sys' = Sliced(sys)
    /\ UNCHANGED <<test, pc, prog, line, processTable, globals, child, freed, history>>

\* initializeProcessTable, and what happens to be in front of the table.
UnusedEntry ==
    [pid |-> 0, status |-> UNUSED, childPtr |-> NULL, nextSiblingPtr |-> NULL,
     entryMade |-> 0, startFunc |-> NULL]

Init ==
    /\ test \in DOMAIN Tests
    /\ sys = Machine(START2, 1, START3, <<>>, <<>>)
    /\ pc = [p \in Pids |-> IF p = START2 THEN "user" ELSE "launch"]
    /\ prog = [p \in Pids |-> "start2"]
    /\ line = [p \in Pids |-> 1]
    /\ \E made \in {0, 1} :
          processTable = [e \in Entries |-> [UnusedEntry EXCEPT
                             !.entryMade = IF e = FAILED THEN made ELSE 0]]
    /\ startFuncGlobal = NULL /\ parentPidGlobal = 0
    /\ child = [p \in Pids |-> NULL]
    /\ freed = {}
    /\ asked = [p \in Pids |-> "start2"]
    /\ waits = <<>>

Spawning ==
    SpawnFork \/ SpawnTest \/ SpawnFill
    \/ LaunchZapped \/ LaunchTest \/ LaunchFill \/ LaunchRun \/ Exits
Terminating == TerminateReal \/ TerminateZap \/ TerminateNext \/ TerminateQuit
UsingSemaphores ==
    SemCreateCall \/ SemPCall \/ SemPReturns \/ SemPTerminates \/ SemVCall
    \/ SemFreeCall \/ SemFreeNext \/ SemFreeReturns

Step == Spawning \/ WaitReal \/ Waited \/ Terminating \/ UsingSemaphores \/ Asks

Next == Step \/ TimeSlice

Spec == Init /\ [][Next]_vars

\* The processor executes the process it is given to.
FairSpec == Spec /\ WF_vars(Step)
=============================================================================
