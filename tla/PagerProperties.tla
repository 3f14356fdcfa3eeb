-------------------------- MODULE PagerProperties ---------------------------
(***************************************************************************)
(* What virtual memory of phase 5 promises.                                *)
(***************************************************************************)
EXTENDS PagerTests

Positions == {"user", "gone", "destroy", "destroyZap", "faulted", "served", "unlocking",
    "unlocked", "pager", "called", "finding", "noFrame", "frameFree", "evicting", "filling",
    "writing", "written", "pagedOut", "reading", "read", "pagedIn", "giving", "crashed"}
States == {UNUSED, ON_DISK, IN_PAGE_TABLE, BLANK}

Users == {p \in Pids : sys.life[p] = "live" /\ Hooked(p)}

\* Type invariant.  A page is resident exactly when it has a frame.
PagerTypeOK ==
    /\ sys.cur \in Pids \cup {IDLE}
    /\ pc \in [Pids -> Positions]
    /\ numPages \in {-1, Test.pages}
    /\ currentFault \in 0 .. MAXPROC-1 /\ nextFault \in 0 .. MAXPROC-1
    /\ clockHand \in Nat /\ nextEmptyDiskBlock \in Nat
    /\ DOMAIN mmu.map \subseteq Pages /\ \A q \in DOMAIN mmu.map : mmu.map[q] \in Frames
    /\ \A p \in Users : \A page \in Pages :
          /\ PTE(p, page).state \in States
          /\ PTE(p, page).state = IN_PAGE_TABLE <=> PTE(p, page).frame \in Frames
          /\ PTE(p, page).state = ON_DISK => PTE(p, page).diskBlock \in DOMAIN swap

\* The pagers that have chosen a frame, and those inside the mutex of the frames.
Chosen == {g \in Pagers : pc[g] \in
    {"evicting", "writing", "written", "pagedOut", "filling", "reading", "read", "pagedIn",
     "giving"}}
Inside == {p \in Pids : /\ pc[p] \in {"unlocking", "unlocked", "finding", "evicting", "pagedOut",
                                      "filling", "pagedIn", "giving"}
                        /\ p \notin Waiting(sys, FramesList)}

\* No frame has two owners: the page table and the frame table agree on every
\* resident page, two pagers never choose the same frame nor one that nobody has
\* locked, two pages never share a block of the swap disk, and the mutex of the
\* frames admits one at a time (findFrameNumber, Pager, FaultHandler).
FramesOwned ==
    /\ \A p \in Users : \A page \in Pages :
          PTE(p, page).state = IN_PAGE_TABLE =>
              LET f == frameTable[PTE(p, page).frame]
              IN  f.ownerPid = p /\ f.pageNumber = page
    /\ \A g, h \in Chosen : local[g].frame = local[h].frame => g = h
    /\ \A g \in Chosen : frameTable[local[g].frame].locked
    /\ \A p, q \in Users : \A m, n \in Pages :
          PTE(p, m).diskBlock # NO_DISK_BLOCK /\ PTE(p, m).diskBlock = PTE(q, n).diskBlock
              => p = q /\ m = n
    /\ numPages # -1 => Cardinality(Inside) <= 1

\* Every fault is served and every pager ends when it is zapped, so that the tests
\* come to an end, with the statistics the testResults record.
TestsEnd ==
    <>(/\ pc[START5] = "gone" \/ line[START5] > Len(Test.code["start5"])
       /\ \/ Test.stats = <<>>
          \/ Test.stats = <<vmStats.faults, vmStats.new, vmStats.pageIns, vmStats.pageOuts>>)

-----------------------------------------------------------------------------
(***************************************************************************)
(* The pages are a Memory.  What is at an address is what the code finds   *)
(* there when it is next touched: in the page's frame, on the disk, or     *)
(* nothing yet.                                                            *)
(***************************************************************************)
Contents(p, page) ==
    CASE p \notin Users \/ page \notin Pages -> Zeroes
      [] PTE(p, page).state = IN_PAGE_TABLE -> mmu.data[PTE(p, page).frame]
      [] PTE(p, page).state = ON_DISK -> swap[PTE(p, page).diskBlock]
      [] OTHER -> Zeroes

Accesses(p) ==
    SelectSeq(SubSeq(Test.code[prog[p]], line[p], Len(Test.code[prog[p]])),
              LAMBDA c : c.call \in {"Read", "Write"})

AllAddresses == UNION {0 .. Tests[name].pages * PARTS - 1 : name \in DOMAIN Tests}

\* start5 and those before it have no pages.
Forks == START5+1 .. MaxPid

Paged == INSTANCE Memory WITH
    Procs <- Forks,
    Addresses <- AllAddresses,
    Nothing <- Zero,
    mem <- [p \in Forks |-> [a \in AllAddresses |-> Contents(p, PageOf(a))[OffsetOf(a)]]],
    todo <- [p \in Forks |-> IF p \in Users THEN Accesses(p) ELSE <<>>],
    answer <- [p \in Forks |-> answer[p]]

\* The pages are what Memory says: whatever a page's frames and its ways to the
\* disk and back have been, a process reads what it has written there last, and
\* nobody else's.
PagedMemory == Paged!Spec
=============================================================================
