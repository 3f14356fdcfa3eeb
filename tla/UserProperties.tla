--------------------------- MODULE UserProperties ---------------------------
(***************************************************************************)
(* What Spawn, Wait and Terminate of phase 3 promise.                      *)
(***************************************************************************)
EXTENDS UserTests

Pointers == Entries \cup {NULL}
Positions == {"user", "gone", "spawned", "filling", "launch", "launchFill", "launchRun",
    "waited", "walk", "zapped", "semP", "freeing"}

\* Type invariant.  An entry is that of the pid it names.
UsersTypeOK ==
    /\ pc \in [Pids -> Positions]
    /\ child \in [Pids -> Pointers \cup Pids \cup {FAILED}]
    /\ \A e \in Entries :
          /\ processTable[e].pid # 0 => EntryOf(processTable[e].pid) = e
          /\ processTable[e].status \in {UNUSED, USED, TERMINATED}
          /\ {processTable[e].childPtr, processTable[e].nextSiblingPtr} \subseteq Pointers
    /\ freed \subseteq 0 .. MAXSEMS-1

\* A process runs the function its Spawn named, whatever its parent has spawned
\* since and whoever has spawned meanwhile (startFuncGlobal, spawnLaunch).
RunsItsFunction ==
    \A p \in Pids \ {START2} : pc[p] \notin {"launch", "launchFill", "launchRun", "gone"} =>
        prog[p] = asked[p]

\* A walk of Terminate along the children zaps children of its caller that live,
\* not one that is gone and not whoever has its entry now, and it comes to an end:
\* spawnReal and spawnLaunch put no child into a list twice (addToChildList).
ZapsOwnChild ==
    Runs("walk") =>
        /\ Len(Siblings(processTable, child[me])) <= MAXPROC
        /\ AtChild /\ ZapsIt(child[me]) =>
              processTable[child[me]].pid \in LiveChildren(sys, me)

\* Nobody ends with children that live: phase 1 halts the system for it.
NoOrphans == \A p \in Pids : pc[p] = "gone" => LiveChildren(sys, p) = {}

\* All processes complete: children zapped before they run, processes freed from
\* a semaphore and parents that wait for them come to an end, and Wait has returned
\* what the testResults record, in their order.
AllComplete ==
    <>(/\ \A p \in Pids : sys.life[p] # "unborn" /\ p >= START2 => pc[p] = "gone"
       /\ Test.recorded # <<>> => waits = Test.recorded)
=============================================================================
