------------------------- MODULE KernelFamilyProofs -------------------------
(***************************************************************************)
(* Proofs about who waits for whom in the kernel of phase 1: parents and   *)
(* children, join and quit, zap and quit, the sentinel and everybody.      *)
(*                                                                         *)
(* On top of KernelInv come an invariant about statuses, one about         *)
(* families, one about join and one about the zapped lists.  Each is made  *)
(* of facts about a process table T, as KernelInv is, so that it can be    *)
(* followed through the table a handler gives the dispatcher.              *)
(*                                                                         *)
(* The zapped list of a process is a chain of pointers; its zappers are    *)
(* exactly the processes blocked in zap whose victim it is.  The walk that *)
(* wakes them, in quit, uses the list up from its head, and the walk that  *)
(* links a new one, in zap, is inside it.  All of this needs that a zapper *)
(* starts with no link of its own (StaleZappers), which the code does not  *)
(* check: zappedSiblingPtr is never taken back.                            *)
(***************************************************************************)
EXTENDS KernelProofs

AliveIn(T, s) == T[s].status \notin {UNUSED, QUIT}

\* U is T with other statuses.
SameButStatus(T, U) ==
    /\ U \in [Slots -> ProcStruct]
    /\ \A s \in Slots :
        /\ U[s].pid = T[s].pid
        /\ U[s].parentPtr = T[s].parentPtr
        /\ U[s].childProcs = T[s].childProcs
        /\ U[s].childCount = T[s].childCount
        /\ U[s].childQuitPtr = T[s].childQuitPtr
        /\ U[s].zap = T[s].zap
        /\ U[s].zappedPtr = T[s].zappedPtr
        /\ U[s].zappedSiblingPtr = T[s].zappedSiblingPtr
        /\ U[s].exitTimeSlice = T[s].exitTimeSlice

\* U is T with the status of s set to st.
StatusSetTo(T, U, s, st) ==
    /\ SameButStatus(T, U) /\ U[s].status = st
    /\ \A r \in Slots \ {s} : U[r] = T[r]

LEMMA StatusSet ==
    ASSUME NEW T \in [Slots -> ProcStruct], NEW s \in Slots, NEW st \in Nat
    PROVE  StatusSetTo(T, [T EXCEPT ![s].status = st], s, st)
<1> DEFINE U == [T EXCEPT ![s].status = st]
<1>1. U \in [Slots -> ProcStruct] /\ \A r \in Slots \ {s} : U[r] = T[r]
  BY DEF ProcStruct
<1>2. U[s] = [T[s] EXCEPT !.status = st] /\ T[s] \in ProcStruct
  OBVIOUS
<1>3. /\ U[s].pid = T[s].pid /\ U[s].parentPtr = T[s].parentPtr
      /\ U[s].childProcs = T[s].childProcs /\ U[s].childCount = T[s].childCount
      /\ U[s].childQuitPtr = T[s].childQuitPtr /\ U[s].zap = T[s].zap
      /\ U[s].zappedPtr = T[s].zappedPtr
      /\ U[s].zappedSiblingPtr = T[s].zappedSiblingPtr
      /\ U[s].exitTimeSlice = T[s].exitTimeSlice /\ U[s].status = st
  BY <1>2 DEF ProcStruct
<1> QED
  BY <1>1, <1>3 DEF SameButStatus, StatusSetTo

LEMMA SameThen ==
    ASSUME NEW T, NEW U, NEW V, SameButStatus(T, U), SameButStatus(U, V)
    PROVE  SameButStatus(T, V)
BY DEF SameButStatus

-----------------------------------------------------------------------------
(***************************************************************************)
(* Statuses, and what the dispatcher does to them.                         *)
(***************************************************************************)
\* Every status is one the kernel knows, and only the process c may be RUNNING.
StatusesOK(T, c) ==
    \A s \in Slots :
        /\ T[s].status \in {UNUSED, READY, QUIT, RUNNING} \/ Blocked(T[s].status)
        /\ T[s].status = RUNNING => s = c

\* A process that runs its own code is RUNNING, or was left running by blockMe.
Runs(T, c) == T[c].status = RUNNING \/ T[c].status > 10

\* A process that blocks in join or zap has nothing stronger ready beside it: the
\* dispatcher would put it back on the ready list.
YieldOK(T, q) ==
    T[Current].status \in {JOIN_BLOCK, ZAP_BLOCK} =>
        \A s \in Members(q) : T[Current].priority <= T[s].priority

\* The dispatcher changes statuses only, and those of processes that are neither
\* dead nor blocked in join or zap.
Dispatched(T, U) ==
    /\ SameButStatus(T, U)
    /\ \A s \in Slots :
        U[s].status = T[s].status \/
        /\ T[s].status \notin {UNUSED, QUIT, JOIN_BLOCK, ZAP_BLOCK}
        /\ U[s].status \in {READY, RUNNING}

LEMMA StatusNumbers ==
    /\ UNUSED = 0 /\ READY = 1 /\ QUIT = 3 /\ RUNNING = 4
    /\ JOIN_BLOCK = 5 /\ ZAP_BLOCK = 6
BY DEF UNUSED, READY, QUIT, RUNNING, JOIN_BLOCK, ZAP_BLOCK

\* The head of the ready list gets the processor.
LEMMA SwitchEffect ==
    ASSUME NEW T \in [Slots -> ProcStruct], NEW q, QueueOK(T, q), q # <<>>,
           NEW c, StatusesOK(T, c), c \in Slots, T[c].status # RUNNING, SwitchTo(T, q)
    PROVE  /\ Dispatched(T, ProcTable')
           /\ StatusesOK(ProcTable', Current')
           /\ Current' \in Slots /\ ProcTable'[Current'].status = RUNNING
<1> DEFINE h == Head(q)
<1>1. h \in Slots /\ T[h].status = READY
  <2>1. q \in Seq(Slots) /\ Len(q) \in Nat /\ Len(q) # 0 /\ h = q[1]
    BY HeadTailProperties, EmptySeq, LenProperties DEF QueueOK
  <2>2. h \in Members(q)
    BY <2>1 DEF Members
  <2> QED
    BY <2>2 DEF QueueOK, ReadySlots
<1>2. ProcTable' = [T EXCEPT ![h].status = RUNNING] /\ Current' = h
  BY DEF SwitchTo
<1> HIDE DEF h
<1>3. /\ SameButStatus(T, ProcTable') /\ ProcTable'[h].status = RUNNING
      /\ \A r \in Slots \ {h} : ProcTable'[r] = T[r]
  <2>1. RUNNING \in Nat
    BY DEF RUNNING
  <2> QED
    BY <1>1, <1>2, <2>1, StatusSet DEF StatusSetTo
<1>4. \A r \in Slots : T[r].status # RUNNING
  BY DEF StatusesOK
<1> QED
  BY <1>1, <1>2, <1>3, <1>4, StatusNumbers DEF Dispatched, StatusesOK

\* What dispatcher does with the table and the list of its caller.
LEMMA DispatchEffect ==
    ASSUME NEW T, NEW n, NEW q, DispatchReady(T, n, q), Dispatch(T, q),
           StatusesOK(T, Current), YieldOK(T, q)
    PROVE  /\ Dispatched(T, ProcTable')
           /\ StatusesOK(ProcTable', Current')
           /\ outcome' = "running" => Runs(ProcTable', Current')
           /\ outcome' \in {"running", "quit_returned"}
<1> DEFINE st == T[Current].status
           mine == T[Current].priority
           first == T[Head(q)].priority
           Post == /\ Dispatched(T, ProcTable')
                   /\ StatusesOK(ProcTable', Current')
                   /\ outcome' = "running" => Runs(ProcTable', Current')
                   /\ outcome' \in {"running", "quit_returned"}
<1>1. /\ T \in [Slots -> ProcStruct] /\ QueueOK(T, q) /\ Current \in Slots
      /\ st \notin {READY, UNUSED} /\ outcome = "running" /\ st \in Nat
  <2>1. T \in [Slots -> ProcStruct] /\ Current \in Slots
    BY DEF DispatchReady, StaticOK, TableOK
  <2>2. T[Current] \in ProcStruct
    BY <2>1
  <2> QED
    BY <2>1, <2>2 DEF DispatchReady, ProcStruct
<1>2. q # <<>>
  BY ConstantFacts, EmptySeq DEF DispatchReady, QueueOK, Members, ReadySlots
<1>3. Head(q) \in Members(q)
  <2>1. q \in Seq(Slots) /\ Len(q) \in Nat /\ Len(q) # 0 /\ Head(q) = q[1]
    BY <1>1, <1>2, HeadTailProperties, EmptySeq, LenProperties DEF QueueOK
  <2> QED
    BY <2>1 DEF Members
<1>4. first \in Int /\ mine \in Int
  <2>1. Head(q) \in Slots
    BY <1>1, <1>3 DEF QueueOK, ReadySlots
  <2> QED
    BY <1>1, <2>1 DEF ProcStruct
<1>5. SwitchTo(T, q) /\ st # RUNNING /\ outcome' = outcome => Post
  <2> HAVE SwitchTo(T, q) /\ st # RUNNING /\ outcome' = outcome
  <2>1. /\ Dispatched(T, ProcTable') /\ StatusesOK(ProcTable', Current')
        /\ ProcTable'[Current'].status = RUNNING
    BY <1>1, <1>2, SwitchEffect
  <2> QED
    BY <1>1, <2>1 DEF Runs
<1>6. /\ Stay(T, q) /\ outcome' \in {outcome, "quit_returned"}
      /\ st \notin {QUIT, JOIN_BLOCK, ZAP_BLOCK} \/ outcome' = "quit_returned"
      => Post
  <2> SUFFICES ASSUME Stay(T, q), outcome' \in {outcome, "quit_returned"},
                      \/ st \notin {QUIT, JOIN_BLOCK, ZAP_BLOCK}
                      \/ outcome' = "quit_returned"
               PROVE  Post
    OBVIOUS
  <2>1. ProcTable' = T /\ Current' = Current
    BY DEF Stay
  <2>2. Dispatched(T, ProcTable')
    BY <2>1, <1>1 DEF Dispatched, SameButStatus
  <2>3. outcome' = "running" => Runs(T, Current)
    BY <1>1 DEF StatusesOK, Runs, Blocked
  <2> QED
    BY <1>1, <2>1, <2>2, <2>3
<1> DEFINE T2 == [T EXCEPT ![Current].status = READY]
<1>7. /\ st \notin {QUIT, JOIN_BLOCK, ZAP_BLOCK} /\ outcome' = outcome
      /\ SwitchTo(T2, AddToReadyList(T2, q, Current))
      => Post
  <2> SUFFICES ASSUME st \notin {QUIT, JOIN_BLOCK, ZAP_BLOCK}, outcome' = outcome,
                      SwitchTo(T2, AddToReadyList(T2, q, Current))
               PROVE  Post
    OBVIOUS
  <2>1. READY \in Nat
    BY DEF READY
  <2>2. /\ SameButStatus(T, T2) /\ T2[Current].status = READY
        /\ \A r \in Slots \ {Current} : T2[r] = T[r]
    BY <1>1, <2>1, StatusSet DEF StatusSetTo
  <2>3. T2 \in [Slots -> ProcStruct]
    BY <2>2 DEF SameButStatus
  <2>4. QueueOK(T2, AddToReadyList(T2, q, Current))
    <3>1. SetsStatus(T, T2, Current, READY)
      <4>1. READY \notin {UNUSED, QUIT} /\ st \notin {UNUSED, QUIT}
        BY <1>1, StatusNumbers
      <4> QED
        BY <1>1, <2>1, <4>1, StatusUpdate
    <3>2. \A r \in Slots \ {Current} : T2[r].status = T[r].status
      BY <2>2
    <3> QED
      BY <1>1, <2>2, <3>1, <3>2, QueueGrows DEF SetsStatus
  <2>5. StatusesOK(T2, Current) /\ T2[Current].status # RUNNING
    BY <2>2, StatusNumbers DEF StatusesOK
  <2>6. AddToReadyList(T2, q, Current) # <<>>
    <3> DEFINE q2 == AddToReadyList(T2, q, Current)
    <3>1. Current \in Members(q2)
      BY <1>1, <2>2, <2>4 DEF QueueOK, ReadySlots
    <3> HIDE DEF q2
    <3>2. q2 = <<>> => Members(q2) = {}
      BY EmptySeq DEF Members
    <3> QED
      BY <3>1, <3>2 DEF q2
  <2>7. /\ Dispatched(T2, ProcTable') /\ StatusesOK(ProcTable', Current')
        /\ ProcTable'[Current'].status = RUNNING
    BY <1>1, <2>3, <2>4, <2>5, <2>6, SwitchEffect
  <2>8. Dispatched(T, ProcTable')
    <3>1. SameButStatus(T, ProcTable')
      BY <2>2, <2>7, SameThen DEF Dispatched
    <3>2. ASSUME NEW s \in Slots
          PROVE  ProcTable'[s].status = T[s].status \/
                   /\ T[s].status \notin {UNUSED, QUIT, JOIN_BLOCK, ZAP_BLOCK}
                   /\ ProcTable'[s].status \in {READY, RUNNING}
      <4>1. CASE s = Current
        BY <4>1, <1>1, <2>2, <2>7 DEF Dispatched
      <4>2. CASE s # Current
        BY <4>2, <2>2, <2>7 DEF Dispatched
      <4> QED
        BY <4>1, <4>2
    <3> QED
      BY <3>1, <3>2 DEF Dispatched
  <2> QED
    BY <1>1, <2>7, <2>8 DEF Runs
<1> SUFFICES Post
  OBVIOUS
<1> HIDE DEF Post, T2
<1>8. CASE first < mine /\ outcome' = outcome
  <2>1. st \notin {JOIN_BLOCK, ZAP_BLOCK}
    BY <1>3, <1>4, <1>8 DEF YieldOK
  <2>2. CASE st = QUIT
    <3>1. SwitchTo(T, q) /\ st # RUNNING
      BY <1>4, <1>8, <2>2, StatusNumbers DEF Dispatch
    <3> QED
      BY <3>1, <1>5, <1>8
  <2>3. CASE st # QUIT
    <3>1. SwitchTo(T2, AddToReadyList(T2, q, Current))
      BY <2>3, <1>8, <1>4 DEF Dispatch, T2
    <3> QED
      BY <2>1, <2>3, <3>1, <1>7, <1>8
  <2> QED
    BY <2>2, <2>3
<1>9. CASE mine < first /\ outcome' = outcome
  <2>1. CASE GivesUpCPU(st)
    <3>1. SwitchTo(T, q) /\ st # RUNNING
      BY <1>4, <1>9, <2>1, StatusNumbers DEF Dispatch, GivesUpCPU
    <3> QED
      BY <3>1, <1>5, <1>9
  <2>2. CASE ~GivesUpCPU(st)
    <3>1. Stay(T, q) /\ st \notin {QUIT, JOIN_BLOCK, ZAP_BLOCK}
      BY <1>4, <1>9, <2>2 DEF Dispatch, GivesUpCPU
    <3> QED
      BY <3>1, <1>6, <1>9
  <2> QED
    BY <2>1, <2>2
<1>10. CASE mine = first /\ outcome' = IF st = QUIT THEN "quit_returned" ELSE outcome
  <2>1. CASE st \in {JOIN_BLOCK, ZAP_BLOCK}
    <3>1. SwitchTo(T, q) /\ st # RUNNING /\ outcome' = outcome
      BY <1>4, <1>10, <2>1, StatusNumbers DEF Dispatch
    <3> QED
      BY <3>1, <1>5
  <2>2. CASE st \notin {JOIN_BLOCK, ZAP_BLOCK}
    <3>1. Stay(T, q)
      BY <1>4, <1>10, <2>2 DEF Dispatch
    <3>2. st # QUIT \/ outcome' = "quit_returned"
      BY <1>10
    <3> QED
      BY <2>2, <3>1, <3>2, <1>6, <1>10
  <2> QED
    BY <2>1, <2>2
<1> QED
  BY <1>8, <1>9, <1>10 DEF Dispatch

-----------------------------------------------------------------------------
(***************************************************************************)
(* Families.  In the middle of quit the process d is dead but not counted  *)
(* out by its parent yet; elsewhere d is NULL.                             *)
(***************************************************************************)
Quitter == IF kpc \in {"quitWake", "quitParent"} THEN Current ELSE NULL

Counted(T, d, s) == {c \in Members(T[s].childProcs) : AliveIn(T, c) \/ c = d}

\* The counts are right, and everybody but the sentinel and start1, which have no
\* parent and keep their slots, has a living one that lists it.
FamilyOK(T, d) ==
    /\ \A s \in Slots : AliveIn(T, s) => T[s].childCount = Cardinality(Counted(T, d, s))
    /\ \A c \in Slots \ {SENTINELPID, SENTINELPID + 1} : AliveIn(T, c) \/ c = d =>
        /\ T[c].parentPtr \in Slots /\ AliveIn(T, T[c].parentPtr)
        /\ c \in Members(T[T[c].parentPtr].childProcs)
    /\ \A c \in {SENTINELPID, SENTINELPID + 1} :
        T[c].status # UNUSED /\ T[c].parentPtr = NULL

\* U is T as far as families go.
SameFamily(T, U) ==
    \A s \in Slots :
        /\ U[s].parentPtr = T[s].parentPtr
        /\ U[s].childProcs = T[s].childProcs
        /\ U[s].childCount = T[s].childCount
        /\ AliveIn(U, s) <=> AliveIn(T, s)
        /\ U[s].status = UNUSED <=> T[s].status = UNUSED

LEMMA KidsAreSlots ==
    ASSUME NEW T \in [Slots -> ProcStruct], NEW s \in Slots
    PROVE  /\ T[s].childProcs \in Seq(Slots)
           /\ Members(T[s].childProcs) \subseteq Slots
           /\ IsFiniteSet(Members(T[s].childProcs))
<1>1. T[s].childProcs \in Seq(Slots)
  BY DEF ProcStruct
<1>2. Members(T[s].childProcs) \subseteq Slots
  BY <1>1, ElementOfSeq DEF Members
<1>3. IsFiniteSet(Slots)
  BY FS_Interval, KernelAssumption DEF Slots
<1> QED
  BY <1>1, <1>2, <1>3, FS_Subset

LEMMA SameFamilyKeeps ==
    ASSUME NEW T \in [Slots -> ProcStruct], NEW U, NEW d,
           SameFamily(T, U), FamilyOK(T, d)
    PROVE  FamilyOK(U, d)
<1>1. \A s \in Slots : Counted(U, d, s) = Counted(T, d, s)
  <2> TAKE s \in Slots
  <2>1. Members(T[s].childProcs) \subseteq Slots
    BY KidsAreSlots
  <2> QED
    BY <2>1 DEF Counted, SameFamily
<1>2. \A s \in Slots : AliveIn(U, s) => U[s].childCount = Cardinality(Counted(U, d, s))
  BY <1>1 DEF SameFamily, FamilyOK
<1>3. ASSUME NEW c \in Slots \ {SENTINELPID, SENTINELPID + 1}, AliveIn(U, c) \/ c = d
      PROVE  /\ U[c].parentPtr \in Slots /\ AliveIn(U, U[c].parentPtr)
             /\ c \in Members(U[U[c].parentPtr].childProcs)
  BY <1>3 DEF SameFamily, FamilyOK
<1>4. \A c \in {SENTINELPID, SENTINELPID + 1} :
        U[c].status # UNUSED /\ U[c].parentPtr = NULL
  BY ConstantFacts DEF SameFamily, FamilyOK
<1> QED
  BY <1>2, <1>3, <1>4 DEF FamilyOK

LEMMA DispatchedFamily ==
    ASSUME NEW T, NEW U, Dispatched(T, U) PROVE SameFamily(T, U)
BY StatusNumbers DEF Dispatched, SameButStatus, SameFamily, AliveIn

\* A process blocked or woken.
LEMMA StatusSetFamily ==
    ASSUME NEW T, NEW U, NEW s, NEW st, StatusSetTo(T, U, s, st),
           AliveIn(T, s), st \notin {UNUSED, QUIT}
    PROVE  SameFamily(T, U)
<1>1. \A r \in Slots : /\ AliveIn(U, r) <=> AliveIn(T, r)
                       /\ U[r].status = UNUSED <=> T[r].status = UNUSED
  BY DEF StatusSetTo, AliveIn
<1> QED
  BY <1>1 DEF StatusSetTo, SameButStatus, SameFamily

\* What fork1 puts in the table, field by field.
LEMMA NewEntryLinks ==
    ASSUME NEW p \in Nat, NEW prio \in Int, NEW parent \in Pointers
    PROVE  LET e == NewEntry(p, prio, parent)
           IN  /\ e.pid = Short(p) /\ e.status = READY /\ e.parentPtr = parent
               /\ e.childProcs = <<>> /\ e.childCount = 0
               /\ e.zap = FALSE /\ e.zappedPtr = NULL /\ e.zappedSiblingPtr = NULL
<1>1. /\ CleanEntry \in ProcStruct /\ CleanEntry.childProcs = <<>>
      /\ CleanEntry.childCount = 0 /\ CleanEntry.zap = FALSE
      /\ CleanEntry.zappedPtr = NULL /\ CleanEntry.zappedSiblingPtr = NULL
  BY CleanEntryType DEF CleanEntry
<1> QED
  BY <1>1, ShortIsInt DEF NewEntry, ProcStruct

-----------------------------------------------------------------------------
(***************************************************************************)
(* What each handler does to families.                                     *)
(***************************************************************************)
\* Field by field, the table fork1 leaves when it has put pid p in slot s ...
ForkedFields(T, s, p) ==
    LET P == ProcTable
    IN  /\ Current \in Slots /\ P \in [Slots -> ProcStruct] /\ AliveIn(P, Current)
        /\ s \in Slots \ {Current} /\ P[s].status = UNUSED
        /\ p \in Nat /\ p >= nextPid /\ p <= MaxPid /\ nextPid' = p + 1
        /\ T[s].pid = Short(p) /\ T[s].status = READY /\ T[s].parentPtr = Current
        /\ T[s].childProcs = <<>> /\ T[s].childCount = 0
        /\ T[s].zap = FALSE /\ T[s].zappedPtr = NULL /\ T[s].zappedSiblingPtr = NULL
        /\ Members(T[Current].childProcs) = Members(P[Current].childProcs) \cup {s}
        /\ T[Current].childCount = P[Current].childCount + 1
        /\ \A r \in Slots \ {s} :
            /\ T[r].status = P[r].status /\ T[r].pid = P[r].pid
            /\ T[r].parentPtr = P[r].parentPtr /\ T[r].childQuitPtr = P[r].childQuitPtr
            /\ T[r].zap = P[r].zap /\ T[r].zappedPtr = P[r].zappedPtr
            /\ T[r].zappedSiblingPtr = P[r].zappedSiblingPtr
            /\ T[r].exitTimeSlice = P[r].exitTimeSlice
            /\ r # Current => T[r].childProcs = P[r].childProcs
            /\ r # Current => T[r].childCount = P[r].childCount

LEMMA ForkFields ==
    ASSUME KernelInv, Calling, NEW prio \in Int, NEW p, NEW T, ForkedTable(prio, p, T)
    PROVE  ForkedFields(T, SlotOf(p), p)
<1> DEFINE s == SlotOf(p)
           P == ProcTable
           k == Append(P[Current].childProcs, s)
           n == P[Current].childCount + 1
           e == P[Current]
           new == NewEntry(p, prio, Current)
<1>1. /\ p \in Nat /\ s \in Slots /\ s # Current /\ P[s].status = UNUSED
      /\ p >= nextPid /\ p <= MaxPid /\ nextPid' = p + 1
      /\ T[s] = new /\ T[Current] = [e EXCEPT !.childProcs = k, !.childCount = n]
      /\ \A r \in Slots \ {s, Current} : T[r] = P[r]
  BY DEF ForkedTable
<1> HIDE DEF s
<1>2. /\ Current \in Slots /\ P \in [Slots -> ProcStruct] /\ Current \in Pointers
      /\ AliveIn(P, Current) /\ e \in ProcStruct
  BY CallerFacts DEF AliveIn, Pointers
<1>3. n \in Int /\ k \in Seq(Slots) /\ Members(k) = Members(e.childProcs) \cup {s}
  <2>1. e.childCount \in Int /\ e.childProcs \in Seq(Slots)
    BY <1>2 DEF ProcStruct
  <2> HIDE DEF e
  <2> QED
    BY <1>1, <2>1, AppendMembers, AppendProperties DEF e
<1>4. /\ new.pid = Short(p) /\ new.status = READY /\ new.parentPtr = Current
      /\ new.childProcs = <<>> /\ new.childCount = 0
      /\ new.zap = FALSE /\ new.zappedPtr = NULL /\ new.zappedSiblingPtr = NULL
  BY <1>1, <1>2, NewEntryLinks
<1> HIDE DEF e, k, n, new
<1>5. /\ T[Current].childProcs = k /\ T[Current].childCount = n
      /\ T[Current].status = e.status /\ T[Current].pid = e.pid
      /\ T[Current].parentPtr = e.parentPtr /\ T[Current].childQuitPtr = e.childQuitPtr
      /\ T[Current].zap = e.zap /\ T[Current].zappedPtr = e.zappedPtr
      /\ T[Current].zappedSiblingPtr = e.zappedSiblingPtr
      /\ T[Current].exitTimeSlice = e.exitTimeSlice
  BY <1>1, <1>2, <1>3 DEF ProcStruct
<1> QED
  BY <1>1, <1>2, <1>3, <1>4, <1>5 DEF ForkedFields, s, e, n

LEMMA ForkedFamily ==
    ASSUME KernelInv, FamilyOK(ProcTable, NULL), NEW T, NEW s, NEW p, ForkedFields(T, s, p)
    PROVE  FamilyOK(T, NULL)
<1> DEFINE P == ProcTable
<1>1. /\ s \in Slots /\ s # Current /\ P[s].status = UNUSED /\ KidsOK(P)
      /\ Current \in Slots /\ P \in [Slots -> ProcStruct] /\ AliveIn(P, Current)
      /\ P[Current].childCount \in Int
  <2>1. Current \in Slots /\ P \in [Slots -> ProcStruct]
    BY DEF ForkedFields
  <2>2. P[Current] \in ProcStruct
    BY <2>1
  <2>3. P[Current].childCount \in Int
    BY <2>2 DEF ProcStruct
  <2> QED
    BY <2>3 DEF ForkedFields, KernelInv, StaticOK
<1>4. /\ T[s].status = READY /\ T[s].parentPtr = Current
      /\ T[s].childProcs = <<>> /\ T[s].childCount = 0
  BY DEF ForkedFields
<1>5. /\ Members(T[Current].childProcs) = Members(P[Current].childProcs) \cup {s}
      /\ T[Current].childCount = P[Current].childCount + 1
  BY DEF ForkedFields
<1>6. \A r \in Slots \ {s} : /\ AliveIn(T, r) <=> AliveIn(P, r)
                             /\ T[r].parentPtr = P[r].parentPtr
                             /\ T[r].status = P[r].status
                             /\ r # Current => T[r].childProcs = P[r].childProcs
                             /\ r # Current => T[r].childCount = P[r].childCount
  BY DEF ForkedFields, AliveIn
<1>7. AliveIn(T, s) /\ ~AliveIn(P, s)
  BY <1>1, <1>4, StatusNumbers DEF AliveIn
<1>8. \A r \in Slots : s \notin Members(P[r].childProcs) /\ Members(P[r].childProcs) \subseteq Slots
  BY <1>1, KidsAreSlots DEF KidsOK
<1>9. NULL \notin Slots
  BY KernelAssumption
<1> HIDE DEF P
<1>10. ASSUME NEW r \in Slots \ {s, Current}
       PROVE  Counted(T, NULL, r) = Counted(P, NULL, r)
  BY <1>6, <1>8 DEF Counted
<1>11. Counted(T, NULL, s) = {}
  BY <1>4, EmptySeq DEF Counted, Members
<1>12. Counted(T, NULL, Current) = Counted(P, NULL, Current) \cup {s}
       /\ s \notin Counted(P, NULL, Current)
  BY <1>1, <1>5, <1>6, <1>7, <1>8, <1>9 DEF Counted
<1>13. IsFiniteSet(Counted(P, NULL, Current))
  <2>1. IsFiniteSet(Members(P[Current].childProcs))
    BY <1>1, KidsAreSlots
  <2>2. Counted(P, NULL, Current) \subseteq Members(P[Current].childProcs)
    BY DEF Counted
  <2> QED
    BY <2>1, <2>2, FS_Subset
<1>14. Cardinality(Counted(T, NULL, Current)) = Cardinality(Counted(P, NULL, Current)) + 1
  BY <1>12, <1>13, FS_AddElement
<1>15. FamilyOK(P, NULL)
  BY DEF P
<1>16. ASSUME NEW r \in Slots, AliveIn(T, r)
       PROVE  T[r].childCount = Cardinality(Counted(T, NULL, r))
  <2>1. CASE r = s
    BY <2>1, <1>4, <1>11, FS_EmptySet
  <2>2. CASE r = Current
    BY <2>2, <1>1, <1>5, <1>14, <1>15 DEF FamilyOK
  <2>3. CASE r \notin {s, Current}
    BY <2>3, <1>6, <1>10, <1>15, <1>16 DEF FamilyOK
  <2> QED
    BY <2>1, <2>2, <2>3
<1>17. ASSUME NEW c \in Slots \ {SENTINELPID, SENTINELPID + 1}, AliveIn(T, c) \/ c = NULL
       PROVE  /\ T[c].parentPtr \in Slots /\ AliveIn(T, T[c].parentPtr)
              /\ c \in Members(T[T[c].parentPtr].childProcs)
  <2>1. CASE c = s
    BY <2>1, <1>1, <1>4, <1>5, <1>6
  <2>2. CASE c # s
    <3>1. /\ P[c].parentPtr \in Slots /\ AliveIn(P, P[c].parentPtr)
          /\ c \in Members(P[P[c].parentPtr].childProcs)
      BY <2>2, <1>6, <1>9, <1>15, <1>17 DEF FamilyOK
    <3>2. T[c].parentPtr = P[c].parentPtr /\ P[c].parentPtr # s
      BY <2>2, <1>6, <1>7, <3>1
    <3>3. CASE P[c].parentPtr = Current
      BY <3>1, <3>2, <3>3, <1>1, <1>5, <1>6
    <3>4. CASE P[c].parentPtr # Current
      BY <3>1, <3>2, <3>4, <1>1, <1>6
    <3> QED
      BY <3>3, <3>4
  <2> QED
    BY <2>1, <2>2
<1>18. ASSUME NEW c \in {SENTINELPID, SENTINELPID + 1}
       PROVE  T[c].status # UNUSED /\ T[c].parentPtr = NULL
  <2>1. c \in Slots /\ P[c].status # UNUSED /\ P[c].parentPtr = NULL /\ c # s
    BY <1>1, <1>15, ConstantFacts DEF FamilyOK, P
  <2> QED
    BY <2>1, <1>6
<1> QED
  BY <1>16, <1>17, <1>18 DEF FamilyOK

\* ... the table join leaves when it has cleaned its dead child c ...
ReapedFields(T, c) ==
    LET P == ProcTable
    IN  /\ Current \in Slots /\ c \in Slots \ {Current}
        /\ P \in [Slots -> ProcStruct] /\ T \in [Slots -> ProcStruct]
        /\ P[c].status = QUIT /\ P[c].parentPtr = Current
        /\ c \in Members(P[Current].childProcs)
        /\ T[c].pid = -1 /\ T[c].status = UNUSED /\ T[c].childProcs = <<>>
        /\ T[c].zappedPtr = NULL /\ T[c].zappedSiblingPtr = NULL
        /\ Members(T[Current].childProcs) = Members(P[Current].childProcs) \ {c}
        /\ \A r \in Slots \ {c} :
            /\ T[r].status = P[r].status /\ T[r].pid = P[r].pid
            /\ T[r].parentPtr = P[r].parentPtr /\ T[r].childCount = P[r].childCount
            /\ T[r].childQuitPtr = P[r].childQuitPtr
            /\ T[r].zap = P[r].zap /\ T[r].zappedPtr = P[r].zappedPtr
            /\ T[r].zappedSiblingPtr = P[r].zappedSiblingPtr
            /\ T[r].exitTimeSlice = P[r].exitTimeSlice
            /\ r # Current => T[r].childProcs = P[r].childProcs

LEMMA ReapFields ==
    ASSUME KernelInv, NEW i \in DOMAIN ProcTable[Current].childProcs,
           ProcTable[ProcTable[Current].childProcs[i]].status = QUIT,
           ProcTable[Current].status # QUIT
    PROVE  ReapedFields(Reap(Current, i), ProcTable[Current].childProcs[i])
<1> DEFINE kids == ProcTable[Current].childProcs
           left == RemoveAt(kids, i)
           c == kids[i]
           T == Reap(Current, i)
<1>1. ProcTable \in [Slots -> ProcStruct] /\ Current \in Slots /\ KidsOK(ProcTable)
  BY DEF KernelInv, RunnerOK, TypeOK, StaticOK
<1>2. /\ kids \in Seq(Slots) /\ Distinct(kids) /\ i \in 1 .. Len(kids)
      /\ ProcTable[Current] \in ProcStruct
  <2>1. kids \in Seq(Slots) /\ Distinct(kids)
    BY <1>1, KidsAreSlots DEF KidsOK
  <2> QED
    BY <2>1, <1>1, LenProperties
<1>3. c \in Slots /\ c # Current /\ c \in Members(kids) /\ ProcTable[c].parentPtr = Current
  <2>1. c \in Slots /\ c \in Members(kids)
    BY <1>2, ElementOfSeq DEF Members
  <2>2. c # Current
    OBVIOUS
  <2> QED
    BY <1>1, <2>1, <2>2 DEF KidsOK
<1>4. T = [[ProcTable EXCEPT ![c] = CleanEntry] EXCEPT ![Current].childProcs = left]
  BY <1>1, <1>3 DEF Reap
<1> HIDE DEF c, kids
<1>5. left \in Seq(Slots) /\ Members(left) = Members(kids) \ {c}
  BY <1>2, RemoveAtMembers, RemoveAtElements DEF c
<1> HIDE DEF left, T
<1> DEFINE e == ProcTable[Current]
<1>6. e \in ProcStruct /\ [e EXCEPT !.childProcs = left] \in ProcStruct
  <2>1. e \in ProcStruct
    BY <1>2
  <2> HIDE DEF e
  <2> QED
    BY <2>1, <1>5 DEF ProcStruct
<1>7. /\ T[c] = CleanEntry /\ T[Current] = [e EXCEPT !.childProcs = left]
      /\ \A r \in Slots \ {c, Current} : T[r] = ProcTable[r]
      /\ T \in [Slots -> ProcStruct]
  BY <1>1, <1>3, <1>4, <1>6, CleanEntryType
<1> HIDE DEF e
<1>8. /\ T[Current].childProcs = left
      /\ T[Current].status = e.status /\ T[Current].pid = e.pid
      /\ T[Current].parentPtr = e.parentPtr /\ T[Current].childCount = e.childCount
      /\ T[Current].childQuitPtr = e.childQuitPtr
      /\ T[Current].zap = e.zap /\ T[Current].zappedPtr = e.zappedPtr
      /\ T[Current].zappedSiblingPtr = e.zappedSiblingPtr
      /\ T[Current].exitTimeSlice = e.exitTimeSlice
  BY <1>5, <1>6, <1>7 DEF ProcStruct
<1>9. /\ T[c].pid = -1 /\ T[c].status = UNUSED /\ T[c].childProcs = <<>>
      /\ T[c].zappedPtr = NULL /\ T[c].zappedSiblingPtr = NULL
  BY <1>7 DEF CleanEntry
<1>10. ProcTable[c].status = QUIT
  BY DEF c, kids
<1>11. ReapedFields(T, c)
  BY <1>1, <1>3, <1>5, <1>7, <1>8, <1>9, <1>10 DEF ReapedFields, e, kids
<1> QED
  BY <1>11 DEF T, c, kids

LEMMA ReapedFamily ==
    ASSUME KernelInv, FamilyOK(ProcTable, NULL), NEW T, NEW c, ReapedFields(T, c)
    PROVE  FamilyOK(T, NULL)
<1> DEFINE P == ProcTable
<1>1. /\ c \in Slots /\ c # Current /\ KidsOK(P) /\ Current \in Slots
      /\ P \in [Slots -> ProcStruct] /\ P[c].parentPtr = Current
      /\ c \in Members(P[Current].childProcs)
      /\ Members(T[Current].childProcs) = Members(P[Current].childProcs) \ {c}
  BY DEF ReapedFields, KernelInv, StaticOK
<1>2. ~AliveIn(P, c) /\ ~AliveIn(T, c)
  BY DEF ReapedFields, AliveIn
<1>3. \A r \in Slots \ {c} : /\ AliveIn(T, r) <=> AliveIn(P, r)
                             /\ T[r].parentPtr = P[r].parentPtr
                             /\ T[r].status = P[r].status
                             /\ T[r].childCount = P[r].childCount
                             /\ r # Current => T[r].childProcs = P[r].childProcs
  BY DEF ReapedFields, AliveIn
<1>4. NULL \notin Slots
  BY KernelAssumption
<1>5. FamilyOK(P, NULL)
  OBVIOUS
<1> HIDE DEF P
<1>6. \A r \in Slots : Members(P[r].childProcs) \subseteq Slots
  BY <1>1, KidsAreSlots
<1>7. \A r \in Slots \ {Current} : c \notin Members(P[r].childProcs)
  BY <1>1 DEF KidsOK
<1>8. ASSUME NEW r \in Slots \ {c} PROVE Counted(T, NULL, r) = Counted(P, NULL, r)
  <2>1. CASE r = Current
    BY <2>1, <1>1, <1>2, <1>3, <1>4, <1>6 DEF Counted
  <2>2. CASE r # Current
    BY <2>2, <1>3, <1>4, <1>6, <1>7 DEF Counted
  <2> QED
    BY <2>1, <2>2
<1>9. ASSUME NEW r \in Slots, AliveIn(T, r)
      PROVE  T[r].childCount = Cardinality(Counted(T, NULL, r))
  BY <1>2, <1>3, <1>5, <1>8, <1>9 DEF FamilyOK
<1>10. ASSUME NEW r \in Slots \ {SENTINELPID, SENTINELPID + 1}, AliveIn(T, r) \/ r = NULL
       PROVE  /\ T[r].parentPtr \in Slots /\ AliveIn(T, T[r].parentPtr)
              /\ r \in Members(T[T[r].parentPtr].childProcs)
  <2>1. r # c /\ AliveIn(P, r)
    BY <1>2, <1>3, <1>4, <1>10
  <2>2. /\ P[r].parentPtr \in Slots /\ AliveIn(P, P[r].parentPtr)
        /\ r \in Members(P[P[r].parentPtr].childProcs)
    BY <2>1, <1>5, <1>10 DEF FamilyOK
  <2>3. T[r].parentPtr = P[r].parentPtr /\ P[r].parentPtr # c
    BY <2>1, <2>2, <1>2, <1>3
  <2>4. CASE P[r].parentPtr = Current
    BY <2>1, <2>2, <2>3, <2>4, <1>1, <1>3
  <2>5. CASE P[r].parentPtr # Current
    BY <2>1, <2>2, <2>3, <2>5, <1>3
  <2> QED
    BY <2>4, <2>5
<1>11. ASSUME NEW r \in {SENTINELPID, SENTINELPID + 1}
       PROVE  T[r].status # UNUSED /\ T[r].parentPtr = NULL
  <2>1. r \in Slots /\ P[r].status # UNUSED /\ P[r].parentPtr = NULL
    BY <1>5, ConstantFacts DEF FamilyOK
  <2>2. r # c
    BY <2>1, <1>1, <1>4
  <2> QED
    BY <2>1, <2>2, <1>3
<1> QED
  BY <1>9, <1>10, <1>11 DEF FamilyOK

\* ... the table quit leaves before its list walk ...
DiedFields(T) ==
    LET P == ProcTable
    IN  /\ Current \in Slots
        /\ P \in [Slots -> ProcStruct] /\ T \in [Slots -> ProcStruct]
        /\ T[Current].status = QUIT /\ T[Current].exitTimeSlice = now
        /\ \A r \in Slots \ {Current} : T[r] = P[r]
        /\ \A r \in Slots :
            /\ T[r].pid = P[r].pid
            /\ T[r].parentPtr = P[r].parentPtr /\ T[r].childCount = P[r].childCount
            /\ T[r].childProcs = P[r].childProcs
            /\ T[r].childQuitPtr = P[r].childQuitPtr
            /\ T[r].zap = P[r].zap /\ T[r].zappedPtr = P[r].zappedPtr
            /\ T[r].zappedSiblingPtr = P[r].zappedSiblingPtr

LEMMA DieFields ==
    ASSUME KernelInv,
           ProcTable' = [ProcTable EXCEPT ![Current].status = QUIT,
                                          ![Current].exitTimeSlice = now]
    PROVE  DiedFields(ProcTable')
<1> DEFINE T == ProcTable'
           e == ProcTable[Current]
<1>1. /\ Current \in Slots /\ ProcTable \in [Slots -> ProcStruct] /\ now \in Int
      /\ QUIT \in Nat /\ e \in ProcStruct
  BY DEF KernelInv, TypeOK, QUIT
<1>2. /\ T[Current] = [e EXCEPT !.status = QUIT, !.exitTimeSlice = now]
      /\ \A r \in Slots \ {Current} : T[r] = ProcTable[r]
  BY <1>1
<1> HIDE DEF e
<1>3. [e EXCEPT !.status = QUIT, !.exitTimeSlice = now] \in ProcStruct
  BY <1>1 DEF ProcStruct
<1>4. T \in [Slots -> ProcStruct]
  <2>1. DOMAIN T = Slots /\ T = [r \in Slots |-> T[r]]
    BY <1>1
  <2> HIDE DEF T
  <2> QED
    BY <1>1, <1>2, <1>3, <2>1
<1> HIDE DEF T
<1>5. /\ T[Current].status = QUIT /\ T[Current].exitTimeSlice = now
      /\ T[Current].pid = e.pid /\ T[Current].parentPtr = e.parentPtr
      /\ T[Current].childCount = e.childCount /\ T[Current].childProcs = e.childProcs
      /\ T[Current].childQuitPtr = e.childQuitPtr
      /\ T[Current].zap = e.zap /\ T[Current].zappedPtr = e.zappedPtr
      /\ T[Current].zappedSiblingPtr = e.zappedSiblingPtr
  BY <1>1, <1>2 DEF ProcStruct
<1>6. DiedFields(T)
  BY <1>1, <1>2, <1>4, <1>5 DEF DiedFields, e
<1> QED
  BY <1>6 DEF T

LEMMA DiedFamily ==
    ASSUME KernelInv, FamilyOK(ProcTable, NULL), AliveIn(ProcTable, Current),
           ProcTable[Current].childCount = 0, NEW T, DiedFields(T)
    PROVE  FamilyOK(T, Current)
<1> DEFINE P == ProcTable
<1>1. /\ KidsOK(P) /\ Current \in Slots /\ P \in [Slots -> ProcStruct]
      /\ AliveIn(P, Current) /\ P[Current].childCount = 0
  BY DEF DiedFields, KernelInv, StaticOK
<1>2. ~AliveIn(T, Current) /\ T[Current].status = QUIT
  BY DEF DiedFields, AliveIn
<1>3. \A r \in Slots \ {Current} : T[r] = P[r] /\ (AliveIn(T, r) <=> AliveIn(P, r))
  BY DEF DiedFields, AliveIn
<1>4. \A r \in Slots : /\ T[r].parentPtr = P[r].parentPtr
                       /\ T[r].childProcs = P[r].childProcs
  BY DEF DiedFields
<1>5. NULL \notin Slots
  BY KernelAssumption
<1>6. FamilyOK(P, NULL)
  OBVIOUS
<1> HIDE DEF P
<1>7. \A r \in Slots : /\ Members(P[r].childProcs) \subseteq Slots
                       /\ IsFiniteSet(Members(P[r].childProcs))
  BY <1>1, KidsAreSlots
<1>8. ASSUME NEW r \in Slots PROVE Counted(T, Current, r) = Counted(P, NULL, r)
  BY <1>1, <1>2, <1>3, <1>4, <1>5, <1>7 DEF Counted
<1>9. ASSUME NEW r \in Slots, AliveIn(T, r)
      PROVE  T[r].childCount = Cardinality(Counted(T, Current, r))
  BY <1>2, <1>3, <1>6, <1>8, <1>9 DEF FamilyOK
<1>10. Counted(P, NULL, Current) = {}
  <2>1. Cardinality(Counted(P, NULL, Current)) = 0
    BY <1>1, <1>6 DEF FamilyOK
  <2>2. IsFiniteSet(Counted(P, NULL, Current))
    <3>1. Counted(P, NULL, Current) \subseteq Members(P[Current].childProcs)
      BY DEF Counted
    <3> QED
      BY <3>1, <1>1, <1>7, FS_Subset
  <2> QED
    BY <2>1, <2>2, FS_EmptySet
<1>11. ASSUME NEW r \in Slots \ {SENTINELPID, SENTINELPID + 1}, AliveIn(T, r) \/ r = Current
       PROVE  /\ T[r].parentPtr \in Slots /\ AliveIn(T, T[r].parentPtr)
              /\ r \in Members(T[T[r].parentPtr].childProcs)
  <2>1. AliveIn(P, r)
    BY <1>1, <1>3, <1>11
  <2>2. /\ P[r].parentPtr \in Slots /\ AliveIn(P, P[r].parentPtr)
        /\ r \in Members(P[P[r].parentPtr].childProcs)
    BY <2>1, <1>6, <1>11 DEF FamilyOK
  <2>3. P[r].parentPtr # Current
    BY <2>1, <2>2, <1>10 DEF Counted
  <2> QED
    BY <2>2, <2>3, <1>3, <1>4
<1>12. ASSUME NEW r \in {SENTINELPID, SENTINELPID + 1}
       PROVE  T[r].status # UNUSED /\ T[r].parentPtr = NULL
  <2>1. r \in Slots /\ P[r].status # UNUSED /\ P[r].parentPtr = NULL
    BY <1>6, ConstantFacts DEF FamilyOK
  <2> QED
    BY <2>1, <1>2, <1>3, <1>4, StatusNumbers
<1> QED
  BY <1>9, <1>11, <1>12 DEF FamilyOK

\* ... and the table quit leaves when it has told the parent p.
ToldFields(T, p) ==
    LET P == ProcTable
    IN  /\ Current \in Slots /\ p \in Slots
        /\ P \in [Slots -> ProcStruct] /\ T \in [Slots -> ProcStruct]
        /\ T[p].childCount = P[p].childCount - 1
        /\ P[p].status = JOIN_BLOCK =>
             T[p].status = READY /\ T[p].childQuitPtr = Current
        /\ P[p].status # JOIN_BLOCK =>
             T[p].status = P[p].status /\ T[p].childQuitPtr = P[p].childQuitPtr
        /\ \A r \in Slots \ {p} : T[r] = P[r]
        /\ \A r \in Slots :
            /\ T[r].pid = P[r].pid /\ T[r].parentPtr = P[r].parentPtr
            /\ T[r].childProcs = P[r].childProcs
            /\ T[r].zap = P[r].zap /\ T[r].zappedPtr = P[r].zappedPtr
            /\ T[r].zappedSiblingPtr = P[r].zappedSiblingPtr
            /\ T[r].exitTimeSlice = P[r].exitTimeSlice

LEMMA TellFields ==
    ASSUME KernelInv, NEW p \in Slots
    PROVE  ToldFields(TellParent(p), p)
<1> DEFINE T == TellParent(p)
           e == ProcTable[p]
           n == e.childCount - 1
<1>1. /\ ProcTable \in [Slots -> ProcStruct] /\ Current \in Slots /\ Current \in Pointers
      /\ e \in ProcStruct
  BY DEF KernelInv, TypeOK, Pointers
<1>2. /\ \A r \in Slots \ {p} : T[r] = ProcTable[r]
      /\ T[p] = IF e.status = JOIN_BLOCK
                THEN [e EXCEPT !.childCount = n, !.status = READY, !.childQuitPtr = Current]
                ELSE [e EXCEPT !.childCount = n]
      /\ T \in [Slots -> ProcStruct]
  <2>1. T \in [Slots -> ProcStruct]
    BY TellParentKeeps DEF StatusChange
  <2> QED
    BY <1>1, <2>1 DEF TellParent
<1> HIDE DEF T, e
<1>3. n \in Int
  BY <1>1 DEF ProcStruct
<1> HIDE DEF n
<1>4. /\ T[p].childCount = n
      /\ T[p].pid = e.pid /\ T[p].parentPtr = e.parentPtr
      /\ T[p].childProcs = e.childProcs
      /\ T[p].zap = e.zap /\ T[p].zappedPtr = e.zappedPtr
      /\ T[p].zappedSiblingPtr = e.zappedSiblingPtr
      /\ T[p].exitTimeSlice = e.exitTimeSlice
      /\ e.status = JOIN_BLOCK => T[p].status = READY /\ T[p].childQuitPtr = Current
      /\ e.status # JOIN_BLOCK => /\ T[p].status = e.status
                                  /\ T[p].childQuitPtr = e.childQuitPtr
  <2>1. CASE e.status = JOIN_BLOCK
    <3>1. T[p] = [e EXCEPT !.childCount = n, !.status = READY, !.childQuitPtr = Current]
      BY <2>1, <1>2
    <3> QED
      BY <2>1, <3>1, <1>1, <1>3 DEF ProcStruct
  <2>2. CASE e.status # JOIN_BLOCK
    <3>1. T[p] = [e EXCEPT !.childCount = n]
      BY <2>2, <1>2
    <3> QED
      BY <2>2, <3>1, <1>1, <1>3 DEF ProcStruct
  <2> QED
    BY <2>1, <2>2
<1>5. ToldFields(T, p)
  BY <1>1, <1>2, <1>4 DEF ToldFields, e, n
<1> QED
  BY <1>5 DEF T

LEMMA ToldFamily ==
    ASSUME KernelInv, FamilyOK(ProcTable, Current), ProcTable[Current].status = QUIT,
           NEW p, p = ProcTable[Current].parentPtr, NEW T, ToldFields(T, p)
    PROVE  FamilyOK(T, NULL)
<1> DEFINE P == ProcTable
<1>1. /\ KidsOK(P) /\ Current \in Slots /\ P \in [Slots -> ProcStruct] /\ p \in Slots
      /\ P[Current].status = QUIT /\ P[Current].parentPtr = p
  BY DEF ToldFields, KernelInv, StaticOK
<1>2. /\ T[p].childCount = P[p].childCount - 1
      /\ \A r \in Slots \ {p} : T[r] = P[r]
      /\ \A r \in Slots : /\ T[r].parentPtr = P[r].parentPtr
                          /\ T[r].childProcs = P[r].childProcs
  BY DEF ToldFields
<1>3. \A r \in Slots : /\ AliveIn(T, r) <=> AliveIn(P, r)
                       /\ T[r].status = UNUSED <=> P[r].status = UNUSED
  BY StatusNumbers DEF ToldFields, AliveIn
<1>4. NULL \notin Slots
  BY KernelAssumption
<1>5. FamilyOK(P, Current) /\ ~AliveIn(P, Current)
  BY DEF AliveIn
<1>6. P[p].childCount \in Int
  <2>1. P[p] \in ProcStruct
    BY <1>1
  <2> HIDE DEF P
  <2> QED
    BY <2>1 DEF ProcStruct
<1> HIDE DEF P
<1>7. \A r \in Slots : /\ Members(P[r].childProcs) \subseteq Slots
                       /\ IsFiniteSet(Members(P[r].childProcs))
  BY <1>1, KidsAreSlots
<1>8. AliveIn(P, p) /\ Current \in Members(P[p].childProcs)
  <2>1. Current \notin {SENTINELPID, SENTINELPID + 1}
    BY <1>1, <1>4, <1>5 DEF FamilyOK
  <2> QED
    BY <2>1, <1>1, <1>5 DEF FamilyOK
<1>9. Counted(P, Current, p) = Counted(T, NULL, p) \cup {Current}
      /\ Current \notin Counted(T, NULL, p)
  BY <1>1, <1>2, <1>3, <1>4, <1>5, <1>7, <1>8 DEF Counted
<1>10. Cardinality(Counted(P, Current, p)) = Cardinality(Counted(T, NULL, p)) + 1
       /\ Cardinality(Counted(T, NULL, p)) \in Nat
  <2>1. Counted(T, NULL, p) \subseteq Members(P[p].childProcs)
    BY <1>1, <1>2 DEF Counted
  <2>2. IsFiniteSet(Counted(T, NULL, p))
    BY <2>1, <1>1, <1>7, FS_Subset
  <2> QED
    BY <2>2, <1>9, FS_AddElement, FS_CardinalityType
<1>11. ASSUME NEW r \in Slots \ {p} PROVE Counted(T, NULL, r) = Counted(P, Current, r)
  <2>1. Current \notin Members(P[r].childProcs)
    BY <1>1 DEF KidsOK
  <2> QED
    BY <2>1, <1>2, <1>3, <1>4, <1>7 DEF Counted
<1>12. ASSUME NEW r \in Slots, AliveIn(T, r)
       PROVE  T[r].childCount = Cardinality(Counted(T, NULL, r))
  <2>1. P[r].childCount = Cardinality(Counted(P, Current, r))
    BY <1>3, <1>5, <1>12 DEF FamilyOK
  <2>2. CASE r = p
    BY <2>1, <2>2, <1>2, <1>6, <1>10
  <2>3. CASE r # p
    BY <2>1, <2>3, <1>2, <1>11
  <2> QED
    BY <2>2, <2>3
<1>13. ASSUME NEW r \in Slots \ {SENTINELPID, SENTINELPID + 1}, AliveIn(T, r) \/ r = NULL
       PROVE  /\ T[r].parentPtr \in Slots /\ AliveIn(T, T[r].parentPtr)
              /\ r \in Members(T[T[r].parentPtr].childProcs)
  <2>1. /\ P[r].parentPtr \in Slots /\ AliveIn(P, P[r].parentPtr)
        /\ r \in Members(P[P[r].parentPtr].childProcs)
    BY <1>3, <1>4, <1>5, <1>13 DEF FamilyOK
  <2> QED
    BY <2>1, <1>2, <1>3
<1>14. ASSUME NEW r \in {SENTINELPID, SENTINELPID + 1}
       PROVE  T[r].status # UNUSED /\ T[r].parentPtr = NULL
  <2>1. r \in Slots /\ P[r].status # UNUSED /\ P[r].parentPtr = NULL
    BY <1>5, ConstantFacts DEF FamilyOK
  <2> QED
    BY <2>1, <1>2, <1>3
<1> QED
  BY <1>12, <1>13, <1>14 DEF FamilyOK

\* A process without a parent is counted by nobody.
LEMMA NobodyToTell ==
    ASSUME KernelInv, FamilyOK(ProcTable, Current), ProcTable[Current].status = QUIT,
           ProcTable[Current].parentPtr = NULL
    PROVE  FamilyOK(ProcTable, NULL)
<1>1. ProcTable \in [Slots -> ProcStruct] /\ KidsOK(ProcTable) /\ NULL \notin Slots
  BY KernelAssumption DEF KernelInv, TypeOK, StaticOK
<1>2. ASSUME NEW r \in Slots
      PROVE  Counted(ProcTable, NULL, r) = Counted(ProcTable, Current, r)
  <2>1. Current \notin Members(ProcTable[r].childProcs) /\ NULL \notin Members(ProcTable[r].childProcs)
    BY <1>1, KidsAreSlots DEF KidsOK
  <2> QED
    BY <2>1 DEF Counted
<1>3. \A r \in Slots : AliveIn(ProcTable, r) =>
        ProcTable[r].childCount = Cardinality(Counted(ProcTable, NULL, r))
  BY <1>2 DEF FamilyOK
<1>4. \A r \in Slots \ {SENTINELPID, SENTINELPID + 1} : AliveIn(ProcTable, r) \/ r = NULL =>
        /\ ProcTable[r].parentPtr \in Slots /\ AliveIn(ProcTable, ProcTable[r].parentPtr)
        /\ r \in Members(ProcTable[ProcTable[r].parentPtr].childProcs)
  BY <1>1 DEF FamilyOK
<1> QED
  BY <1>3, <1>4 DEF FamilyOK

-----------------------------------------------------------------------------
(***************************************************************************)
(* The invariant of statuses and families.                                 *)
(***************************************************************************)
StatusInv ==
    /\ StatusesOK(ProcTable, Current)
    /\ outcome = "running" /\ kpc \in {"user", "zapWalk"} => Runs(ProcTable, Current)
    /\ kpc = "zapWalk" => Strongest

FamilyRest == StatusInv /\ FamilyOK(ProcTable, Quitter) /\ SentinelTellsTheTruth

FamilyInv == KernelInv /\ FamilyRest

\* Who makes a call runs: it is neither blocked in join or zap nor dead.
LEMMA CallerRuns ==
    ASSUME FamilyInv, outcome = "running", kpc \in {"user", "zapWalk"}
    PROVE  /\ AliveIn(ProcTable, Current) /\ Quitter = NULL
           /\ ProcTable[Current].status \notin {READY, JOIN_BLOCK, ZAP_BLOCK}
           /\ Current \in Slots /\ Strongest
           /\ FamilyOK(ProcTable, NULL) /\ StatusesOK(ProcTable, Current)
           /\ ProcTable \in [Slots -> ProcStruct]
<1>1. Current \in Slots /\ Runs(ProcTable, Current) /\ ProcTable \in [Slots -> ProcStruct]
  BY DEF FamilyInv, FamilyRest, StatusInv, KernelInv, TypeOK
<1>2. ProcTable[Current].status \in Nat
  <2>1. ProcTable[Current] \in ProcStruct
    BY <1>1
  <2> QED
    BY <2>1 DEF ProcStruct
<1>3. ProcTable[Current].status \notin {UNUSED, QUIT, READY, JOIN_BLOCK, ZAP_BLOCK}
  BY <1>1, <1>2, StatusNumbers DEF Runs
<1>4. Quitter = NULL
  BY DEF Quitter
<1>5. Strongest
  BY DEF FamilyInv, FamilyRest, StatusInv, KernelInv
<1> QED
  BY <1>1, <1>3, <1>4, <1>5 DEF AliveIn, FamilyInv, FamilyRest, StatusInv

LEMMA StatusSetKnown ==
    ASSUME NEW T, NEW U, NEW s, NEW st, NEW c, StatusSetTo(T, U, s, st), StatusesOK(T, c),
           st \in {READY, QUIT} \/ Blocked(st)
    PROVE  StatusesOK(U, c)
<1>1. st # RUNNING
  BY StatusNumbers DEF Blocked
<1> QED
  BY <1>1 DEF StatusSetTo, StatusesOK

\* An action that ends in dispatcher.
LEMMA DispatchFamily ==
    ASSUME NEW T, NEW n, NEW q, DispatchReady(T, n, q), Dispatch(T, q), kpc' = "user",
           StatusesOK(T, Current), YieldOK(T, q), FamilyOK(T, NULL)
    PROVE  FamilyRest' /\ Dispatched(T, ProcTable')
<1>1. /\ Dispatched(T, ProcTable') /\ StatusesOK(ProcTable', Current')
      /\ outcome' = "running" => Runs(ProcTable', Current')
      /\ outcome' \in {"running", "quit_returned"}
  BY DispatchEffect
<1>2. StatusInv'
  BY <1>1 DEF StatusInv
<1>3. FamilyOK(ProcTable', Quitter')
  <2>1. T \in [Slots -> ProcStruct] /\ SameFamily(T, ProcTable')
    BY <1>1, DispatchedFamily DEF DispatchReady, StaticOK, TableOK
  <2>2. FamilyOK(ProcTable', NULL)
    BY <2>1, SameFamilyKeeps
  <2> QED
    BY <2>2 DEF Quitter
<1>4. SentinelTellsTheTruth'
  BY <1>1 DEF SentinelTellsTheTruth
<1> QED
  BY <1>1, <1>2, <1>3, <1>4 DEF FamilyRest

\* The running process changes its status to st, a blocked one, and dispatches.
LEMMA BlockingFamily ==
    ASSUME NEW T, NEW U, NEW st, NEW n, StatusSetTo(T, U, Current, st), Blocked(st),
           st \in Nat, T \in [Slots -> ProcStruct],
           AliveIn(T, Current), StatusesOK(T, Current), FamilyOK(T, NULL),
           \A s \in Members(ReadyList) : U[Current].priority <= U[s].priority,
           DispatchReady(U, n, ReadyList), Dispatch(U, ReadyList), kpc' = "user"
    PROVE  FamilyRest' /\ Dispatched(U, ProcTable')
<1>1. st \notin {UNUSED, QUIT}
  BY StatusNumbers DEF Blocked
<1>2. SameFamily(T, U) /\ StatusesOK(U, Current)
  BY <1>1, StatusSetFamily, StatusSetKnown
<1>3. FamilyOK(U, NULL)
  BY <1>2, SameFamilyKeeps
<1>4. YieldOK(U, ReadyList)
  BY DEF YieldOK
<1> QED
  BY <1>2, <1>3, <1>4, DispatchFamily

\* Nobody changes.
LEMMA IdleFamily ==
    ASSUME FamilyInv, UNCHANGED <<ProcTable, ReadyList, Current, kpc, outcome>>
    PROVE  FamilyRest'
BY DEF FamilyInv, FamilyRest, StatusInv, StatusesOK, Runs, Strongest, Priority,
       FamilyOK, Quitter, Counted, AliveIn, Members, SentinelTellsTheTruth, Live, Alive

LEMMA HaltFamily ==
    ASSUME FamilyInv, NEW how \in Outcomes \ {"running", "completed", "deadlock"}, Halt(how)
    PROVE  FamilyRest'
<1>1. /\ UNCHANGED <<ProcTable, ReadyList, Current, kpc>>
      /\ outcome' \notin {"running", "completed", "deadlock"}
  BY DEF Halt
<1>2. StatusInv'
  BY <1>1 DEF FamilyInv, FamilyRest, StatusInv, StatusesOK, Runs, Strongest, Priority, Members
<1>3. FamilyOK(ProcTable', Quitter')
  BY <1>1 DEF FamilyInv, FamilyRest, Quitter
<1>4. SentinelTellsTheTruth'
  BY <1>1 DEF SentinelTellsTheTruth
<1> QED
  BY <1>2, <1>3, <1>4 DEF FamilyRest

\* Who is ready while the sentinel runs would be running in its place.
LEMMA SentinelFamily == FamilyInv /\ CheckDeadlock => FamilyRest'
<1> SUFFICES ASSUME FamilyInv, CheckDeadlock PROVE FamilyRest'
  OBVIOUS
<1> DEFINE P == ProcTable
<1>1. /\ Current = SENTINELPID /\ outcome = "running" /\ kpc = "user"
      /\ UNCHANGED <<ProcTable, ReadyList, Current, kpc>>
      /\ outcome' = IF {s \in Slots : P[s].status \notin {UNUSED, QUIT}} = {SENTINELPID}
                    THEN "completed" ELSE "deadlock"
  BY DEF CheckDeadlock, Halt
<1>2. /\ AliveIn(P, SENTINELPID) /\ StatusesOK(P, SENTINELPID) /\ Strongest
      /\ P \in [Slots -> ProcStruct] /\ SENTINELPID \in Slots
  BY <1>1, CallerRuns, ConstantFacts
<1>3. ASSUME NEW s \in Slots \ {SENTINELPID}, AliveIn(P, s) PROVE Blocked(P[s].status)
  <2>1. P[s].status \in {READY, RUNNING} \/ Blocked(P[s].status)
    BY <1>2, <1>3 DEF StatusesOK, AliveIn
  <2>2. P[s].status # RUNNING
    BY <1>2, <1>3 DEF StatusesOK
  <2>3. P[s].status # READY
    <3>1. SUFFICES ASSUME P[s].status = READY PROVE FALSE
      OBVIOUS
    <3>2. s \in Members(ReadyList)
      BY <1>3, <3>1 DEF FamilyInv, KernelInv, QueueOK, ReadySlots
    <3>3. P[SENTINELPID].priority <= P[s].priority
      BY <1>1, <1>2, <3>2 DEF Strongest, Priority
    <3>4. P[SENTINELPID].priority = MINPRIORITY + 1
      BY DEF FamilyInv, KernelInv, StaticOK, TableOK, SENTINELPRIORITY
    <3>5. P[s].priority \in MAXPRIORITY .. MINPRIORITY
      BY <1>3 DEF FamilyInv, KernelInv, StaticOK, TableOK, AliveIn
    <3> QED
      BY <3>3, <3>4, <3>5, ConstantFacts DEF MAXPRIORITY
  <2> QED
    BY <2>1, <2>2, <2>3
<1>4. SentinelTellsTheTruth'
  <2>1. Live' = Live
    BY <1>1 DEF Live, Alive
  <2>2. \A s \in Live \ {SENTINELPID} : Blocked(P[s].status)
    BY <1>3 DEF Live, Alive, AliveIn
  <2>3. outcome' = "deadlock" => \E s \in Live : Blocked(P[s].status)
    <3>1. SENTINELPID \in Live
      BY <1>2 DEF Live, Alive, AliveIn
    <3>2. outcome' = "deadlock" => Live # {SENTINELPID}
      BY <1>1 DEF Live, Alive
    <3> QED
      BY <2>2, <3>1, <3>2
  <2> QED
    BY <1>1, <2>1, <2>2, <2>3 DEF SentinelTellsTheTruth
<1>5. StatusInv' /\ FamilyOK(ProcTable', Quitter')
  BY <1>1 DEF FamilyInv, FamilyRest, StatusInv, StatusesOK, Runs, Strongest, Priority,
              Members, Quitter
<1> QED
  BY <1>4, <1>5 DEF FamilyRest

-----------------------------------------------------------------------------
(***************************************************************************)
(* One lemma for each handler: it keeps the invariant, and here is the     *)
(* table it gives the dispatcher.                                          *)
(***************************************************************************)
LEMMA ForkEffect ==
    \A prio \in ForkPriorities : FamilyInv /\ ForkCreate(prio) =>
        FamilyRest' /\ \E T, s, p : ForkedFields(T, s, p) /\ Dispatched(T, ProcTable')
<1> SUFFICES ASSUME NEW prio \in ForkPriorities, FamilyInv, ForkCreate(prio)
             PROVE  FamilyRest' /\ \E T, s, p : ForkedFields(T, s, p) /\ Dispatched(T, ProcTable')
  OBVIOUS
<1>1. KernelInv /\ Calling /\ prio \in Int /\ \E p, T : ForkedTable(prio, p, T)
  BY ForkCreateTable DEF FamilyInv
<1>2. PICK p, T : ForkedTable(prio, p, T)
  BY <1>1
<1> DEFINE s == SlotOf(p)
<1>3. ForkedFields(T, s, p)
  BY <1>1, <1>2, ForkFields
<1> HIDE DEF s
<1>4. /\ AliveIn(ProcTable, Current) /\ FamilyOK(ProcTable, NULL)
      /\ ProcTable[Current].status \notin {JOIN_BLOCK, ZAP_BLOCK}
      /\ StatusesOK(ProcTable, Current)
  BY <1>1, CallerRuns DEF Calling
<1>5. FamilyOK(T, NULL)
  BY <1>1, <1>3, <1>4, ForkedFamily
<1>6. T[Current].status \notin {JOIN_BLOCK, ZAP_BLOCK}
  BY <1>3, <1>4 DEF ForkedFields
<1>7. StatusesOK(T, Current)
  BY <1>3, <1>4, StatusNumbers DEF ForkedFields, StatusesOK
<1>8. \E q : DispatchReady(T, nextPid', q) /\ Dispatch(T, q) /\ YieldOK(T, q)
  BY <1>2, <1>6 DEF ForkedTable, YieldOK
<1>9. kpc' = "user"
  BY <1>1 DEF Calling, ForkCreate
<1> QED
  BY <1>3, <1>5, <1>7, <1>8, <1>9, DispatchFamily

\* The caller blocks in U, its status alone being new.
LEMMA CallerBlocks ==
    ASSUME FamilyInv, Calling, NEW st \in Nat, Blocked(st), kpc' = kpc,
           Dispatch([ProcTable EXCEPT ![Current].status = st], ReadyList)
    PROVE  /\ FamilyRest'
           /\ \E U : StatusSetTo(ProcTable, U, Current, st) /\ Dispatched(U, ProcTable')
<1> DEFINE U == [ProcTable EXCEPT ![Current].status = st]
<1>1. st \notin {READY, UNUSED, QUIT}
  BY StatusNumbers DEF Blocked
<1>2. KernelInv
  BY DEF FamilyInv
<1>3. DispatchReady(U, nextPid, ReadyList)
  BY <1>1, <1>2, CallerUpdate
<1>4. /\ AliveIn(ProcTable, Current) /\ FamilyOK(ProcTable, NULL) /\ Current \in Slots
      /\ StatusesOK(ProcTable, Current) /\ Strongest /\ ProcTable \in [Slots -> ProcStruct]
  BY CallerRuns DEF Calling
<1>5. StatusSetTo(ProcTable, U, Current, st)
  BY <1>4, StatusSet
<1>6. \A s \in Slots : U[s].priority = ProcTable[s].priority
  <2>1. U[Current] = [ProcTable[Current] EXCEPT !.status = st] /\ ProcTable[Current] \in ProcStruct
    BY <1>4
  <2>2. U[Current].priority = ProcTable[Current].priority
    BY <2>1 DEF ProcStruct
  <2> QED
    BY <2>2, <1>5 DEF StatusSetTo
<1> HIDE DEF U
<1>7. \A s \in Members(ReadyList) : U[Current].priority <= U[s].priority
  <2>1. \A s \in Members(ReadyList) : s \in Slots
    BY <1>2 DEF KernelInv, QueueOK, ReadySlots
  <2> QED
    BY <2>1, <1>4, <1>6 DEF Strongest, Priority
<1>8. Dispatch(U, ReadyList) /\ kpc' = "user"
  BY DEF U, Calling
<1>9. FamilyRest' /\ Dispatched(U, ProcTable')
  BY <1>3, <1>4, <1>5, <1>7, <1>8, BlockingFamily
<1> QED
  BY <1>5, <1>9

LEMMA JoinBlockEffect ==
    FamilyInv /\ JoinBlock =>
        /\ FamilyRest'
        /\ \E U : StatusSetTo(ProcTable, U, Current, JOIN_BLOCK) /\ Dispatched(U, ProcTable')
<1> SUFFICES ASSUME FamilyInv, JoinBlock
             PROVE  /\ FamilyRest'
                    /\ \E U : /\ StatusSetTo(ProcTable, U, Current, JOIN_BLOCK)
                              /\ Dispatched(U, ProcTable')
  OBVIOUS
<1>1. /\ Calling /\ kpc' = kpc
      /\ Dispatch([ProcTable EXCEPT ![Current].status = JOIN_BLOCK], ReadyList)
  BY DEF JoinBlock
<1>2. JOIN_BLOCK \in Nat /\ Blocked(JOIN_BLOCK)
  BY DEF JOIN_BLOCK, Blocked
<1> QED
  BY <1>1, <1>2, CallerBlocks

LEMMA BlockMeEffect ==
    \A st \in BlockStatuses : FamilyInv /\ BlockMe(st) =>
        /\ FamilyRest'
        /\ \/ Halt("halted")
           \/ /\ st > 10
              /\ \E U : StatusSetTo(ProcTable, U, Current, st) /\ Dispatched(U, ProcTable')
<1> SUFFICES ASSUME NEW st \in BlockStatuses, FamilyInv, BlockMe(st)
             PROVE  /\ FamilyRest'
                    /\ \/ Halt("halted")
                       \/ /\ st > 10
                          /\ \E U : /\ StatusSetTo(ProcTable, U, Current, st)
                                    /\ Dispatched(U, ProcTable')
  OBVIOUS
<1>1. Calling /\ st \in Nat
  BY KernelAssumption DEF BlockMe
<1>2. CASE st <= 10
  <2>1. Halt("halted") /\ "halted" \in Outcomes \ {"running", "completed", "deadlock"}
    BY <1>2 DEF BlockMe, Outcomes
  <2> QED
    BY <2>1, HaltFamily
<1>3. CASE st > 10
  <2>1. Dispatch([ProcTable EXCEPT ![Current].status = st], ReadyList) /\ kpc' = kpc
    BY <1>1, <1>3 DEF BlockMe
  <2>2. Blocked(st)
    BY <1>3 DEF Blocked
  <2> QED
    BY <1>1, <1>3, <2>1, <2>2, CallerBlocks
<1> QED
  BY <1>1, <1>2, <1>3

LEMMA ReapFamily ==
    ASSUME FamilyInv, outcome = "running", kpc = "user",
           NEW i \in DOMAIN ProcTable[Current].childProcs,
           ProcTable[ProcTable[Current].childProcs[i]].status = QUIT,
           ProcTable' = Reap(Current, i),
           UNCHANGED <<ReadyList, Current, kpc, outcome>>
    PROVE  FamilyRest' /\ ReapedFields(ProcTable', ProcTable[Current].childProcs[i])
<1> DEFINE c == ProcTable[Current].childProcs[i]
           T == ProcTable'
<1>1. /\ AliveIn(ProcTable, Current) /\ FamilyOK(ProcTable, NULL) /\ KernelInv
      /\ StatusesOK(ProcTable, Current)
  BY CallerRuns DEF FamilyInv
<1>2. ReapedFields(T, c)
  <2>1. ProcTable[Current].status # QUIT
    BY <1>1 DEF AliveIn
  <2>2. ReapedFields(Reap(Current, i), c)
    BY <1>1, <2>1, ReapFields
  <2> QED
    BY <2>2
<1> HIDE DEF c, T
<1>3. FamilyOK(T, NULL)
  BY <1>1, <1>2, ReapedFamily
<1>4. /\ c \in Slots /\ c # Current /\ Current \in Slots
      /\ T[c].status = UNUSED
      /\ \A r \in Slots \ {c} : T[r].status = ProcTable[r].status
  BY <1>2 DEF ReapedFields
<1>5. StatusesOK(T, Current)
  BY <1>1, <1>4, StatusNumbers DEF StatusesOK
<1>6. StatusInv'
  <2>1. Runs(ProcTable, Current)
    BY DEF FamilyInv, FamilyRest, StatusInv
  <2> QED
    BY <2>1, <1>4, <1>5 DEF StatusInv, Runs, T
<1>7. SentinelTellsTheTruth'
  BY DEF SentinelTellsTheTruth
<1>8. Quitter' = NULL
  BY DEF Quitter
<1> QED
  BY <1>2, <1>3, <1>6, <1>7, <1>8 DEF FamilyRest, T, c

LEMMA JoinQuitChildEffect ==
    FamilyInv /\ JoinQuitChild =>
        /\ FamilyRest'
        /\ \/ Halt("null_pointer")
           \/ /\ \E c : ReapedFields(ProcTable', c)
              /\ UNCHANGED <<ReadyList, Current, nextPid, now, inCall, victim,
                             kpc, walker, outcome>>
<1> SUFFICES ASSUME FamilyInv, JoinQuitChild
             PROVE  /\ FamilyRest'
                    /\ \/ Halt("null_pointer")
                       \/ /\ \E c : ReapedFields(ProcTable', c)
                          /\ UNCHANGED <<ReadyList, Current, nextPid, now, inCall, victim,
                                         kpc, walker, outcome>>
  OBVIOUS
<1>1. Calling
  BY DEF JoinQuitChild
<1>2. PICK i \in DOMAIN ProcTable[Current].childProcs :
        /\ EarliestAt(Current, i)
        /\ \/ Halt("null_pointer")
           \/ /\ ProcTable' = Reap(Current, i)
              /\ UNCHANGED <<ReadyList, Current, nextPid, now, inCall, victim,
                             kpc, walker, outcome>>
  BY DEF JoinQuitChild
<1>3. CASE Halt("null_pointer")
  <2>1. "null_pointer" \in Outcomes \ {"running", "completed", "deadlock"}
    BY DEF Outcomes
  <2> QED
    BY <1>3, <2>1, HaltFamily
<1>4. CASE /\ ProcTable' = Reap(Current, i)
           /\ UNCHANGED <<ReadyList, Current, nextPid, now, inCall, victim,
                          kpc, walker, outcome>>
  <2>1. ProcTable[ProcTable[Current].childProcs[i]].status = QUIT
    BY <1>2 DEF EarliestAt, SeenToHaveQuit
  <2>2. FamilyRest' /\ ReapedFields(ProcTable', ProcTable[Current].childProcs[i])
    BY <1>1, <1>4, <2>1, ReapFamily DEF Calling
  <2> QED
    BY <1>4, <2>2
<1> QED
  BY <1>2, <1>3, <1>4

LEMMA JoinResumeEffect ==
    FamilyInv /\ JoinResume =>
        /\ FamilyRest'
        /\ \/ Halt("null_pointer") \/ Halt("corrupt")
           \/ /\ inCall[Current] = "join"
              /\ \E c : ReapedFields(ProcTable', c)
              /\ inCall' = [inCall EXCEPT ![Current] = "none"]
              /\ UNCHANGED <<ReadyList, Current, nextPid, now, victim, kpc,
                             walker, outcome>>
<1> SUFFICES ASSUME FamilyInv, JoinResume
             PROVE  /\ FamilyRest'
                    /\ \/ Halt("null_pointer") \/ Halt("corrupt")
                       \/ /\ inCall[Current] = "join"
                          /\ \E c : ReapedFields(ProcTable', c)
                          /\ inCall' = [inCall EXCEPT ![Current] = "none"]
                          /\ UNCHANGED <<ReadyList, Current, nextPid, now, victim, kpc,
                                         walker, outcome>>
  OBVIOUS
<1>1. outcome = "running" /\ kpc = "user" /\ inCall[Current] = "join"
  BY DEF JoinResume
<1>2. CASE Halt("null_pointer") \/ Halt("corrupt")
  <2>1. {"null_pointer", "corrupt"} \subseteq Outcomes \ {"running", "completed", "deadlock"}
    BY DEF Outcomes
  <2> QED
    BY <1>2, <2>1, HaltFamily
<1>3. ASSUME NEW i \in DOMAIN ProcTable[Current].childProcs,
             ProcTable[ProcTable[Current].childProcs[i]].status = QUIT,
             ProcTable' = Reap(Current, i),
             inCall' = [inCall EXCEPT ![Current] = "none"],
             UNCHANGED <<ReadyList, Current, nextPid, now, victim, kpc, walker, outcome>>
      PROVE  FamilyRest' /\ ReapedFields(ProcTable', ProcTable[Current].childProcs[i])
  BY <1>1, <1>3, ReapFamily
<1> QED
  BY <1>1, <1>2, <1>3 DEF JoinResume

\* A call that would leave active children halts the machine.
LEMMA QuitEffect ==
    FamilyInv /\ Quit =>
        /\ FamilyRest'
        /\ \/ Halt("halted")
           \/ /\ DiedFields(ProcTable')
              /\ \E d \in TickSteps : now' = now + d
              /\ IF ProcTable[Current].zap
                 THEN kpc' = "quitWake" /\ walker' = ProcTable[Current].zappedPtr
                 ELSE kpc' = "quitParent"
              /\ UNCHANGED <<Current, nextPid, inCall, victim>>
<1> SUFFICES ASSUME FamilyInv, Quit
             PROVE  /\ FamilyRest'
                    /\ \/ Halt("halted")
                       \/ /\ DiedFields(ProcTable')
                          /\ \E d \in TickSteps : now' = now + d
                          /\ IF ProcTable[Current].zap
                             THEN kpc' = "quitWake" /\ walker' = ProcTable[Current].zappedPtr
                             ELSE kpc' = "quitParent"
                          /\ UNCHANGED <<Current, nextPid, inCall, victim>>
  OBVIOUS
<1>1. /\ outcome = "running" /\ kpc = "user" /\ KernelInv
      /\ AliveIn(ProcTable, Current) /\ FamilyOK(ProcTable, NULL)
      /\ StatusesOK(ProcTable, Current)
  BY CallerRuns DEF Quit, Calling, FamilyInv
<1>2. CASE Halt("halted")
  <2>1. "halted" \in Outcomes \ {"running", "completed", "deadlock"}
    BY DEF Outcomes
  <2> QED
    BY <1>2, <2>1, HaltFamily
<1>3. CASE ~ Halt("halted")
  <2>1. /\ ProcTable[Current].childCount = 0
        /\ ProcTable' = [ProcTable EXCEPT ![Current].status = QUIT,
                                          ![Current].exitTimeSlice = now]
        /\ \E d \in TickSteps : now' = now + d
        /\ IF ProcTable[Current].zap
           THEN kpc' = "quitWake" /\ walker' = ProcTable[Current].zappedPtr
           ELSE kpc' = "quitParent"
        /\ UNCHANGED <<Current, nextPid, inCall, victim, outcome>>
    BY <1>3 DEF Quit, QuitAllowed
  <2> DEFINE T == ProcTable'
  <2>2. DiedFields(T)
    BY <1>1, <2>1, DieFields
  <2>3. kpc' \in {"quitWake", "quitParent"}
    BY <2>1
  <2> HIDE DEF T
  <2>4. FamilyOK(T, Current)
    BY <1>1, <2>1, <2>2, DiedFamily
  <2>5. StatusesOK(T, Current)
    BY <1>1, <2>2, StatusNumbers DEF DiedFields, StatusesOK
  <2>6. StatusInv' /\ Quitter' = Current
    BY <2>1, <2>3, <2>5 DEF StatusInv, Quitter, T
  <2>7. SentinelTellsTheTruth'
    BY <1>1, <2>1 DEF SentinelTellsTheTruth
  <2> QED
    BY <2>1, <2>2, <2>4, <2>6, <2>7 DEF FamilyRest, T
<1> QED
  BY <1>2, <1>3

LEMMA QuitWakeEffect ==
    FamilyInv /\ QuitWake =>
        /\ FamilyRest'
        /\ \/ Halt("corrupt")
           \/ /\ Blocked(ProcTable[walker].status)
              /\ StatusSetTo(ProcTable, ProcTable', walker, READY)
              /\ walker' = ProcTable[walker].zappedSiblingPtr
              /\ kpc' = IF walker' = NULL THEN "quitParent" ELSE kpc
              /\ UNCHANGED <<Current, nextPid, now, inCall, victim>>
<1> SUFFICES ASSUME FamilyInv, QuitWake
             PROVE  /\ FamilyRest'
                    /\ \/ Halt("corrupt")
                       \/ /\ Blocked(ProcTable[walker].status)
                          /\ StatusSetTo(ProcTable, ProcTable', walker, READY)
                          /\ walker' = ProcTable[walker].zappedSiblingPtr
                          /\ kpc' = IF walker' = NULL THEN "quitParent" ELSE kpc
                          /\ UNCHANGED <<Current, nextPid, now, inCall, victim>>
  OBVIOUS
<1>1. /\ kpc = "quitWake" /\ walker \in Slots /\ outcome = "running"
      /\ ProcTable \in [Slots -> ProcStruct]
      /\ FamilyOK(ProcTable, Current) /\ StatusesOK(ProcTable, Current)
  BY DEF QuitWake, FamilyInv, FamilyRest, StatusInv, KernelInv, CounterOK, TypeOK, Quitter
<1>2. CASE ~Blocked(ProcTable[walker].status)
  <2>1. "corrupt" \in Outcomes \ {"running", "completed", "deadlock"} /\ Halt("corrupt")
    BY <1>2 DEF QuitWake, Outcomes
  <2> QED
    BY <2>1, HaltFamily
<1>3. CASE Blocked(ProcTable[walker].status)
  <2>1. /\ ProcTable' = [ProcTable EXCEPT ![walker].status = READY]
        /\ walker' = ProcTable[walker].zappedSiblingPtr
        /\ kpc' = IF walker' = NULL THEN "quitParent" ELSE kpc
        /\ UNCHANGED <<Current, nextPid, now, inCall, victim, outcome>>
    BY <1>3 DEF QuitWake
  <2> DEFINE T == ProcTable'
  <2>2. StatusSetTo(ProcTable, T, walker, READY)
    BY <1>1, <2>1, StatusNumbers, StatusSet
  <2>3. AliveIn(ProcTable, walker) /\ READY \notin {UNUSED, QUIT}
    BY <1>3, StatusNumbers DEF Blocked, AliveIn
  <2> HIDE DEF T
  <2>4. SameFamily(ProcTable, T) /\ StatusesOK(T, Current)
    BY <1>1, <2>2, <2>3, StatusSetFamily, StatusSetKnown
  <2>5. FamilyOK(T, Current)
    BY <1>1, <2>4, SameFamilyKeeps
  <2>6. StatusInv' /\ Quitter' = Current
    BY <1>1, <2>1, <2>4 DEF StatusInv, Quitter, T
  <2>7. SentinelTellsTheTruth'
    BY <1>1, <2>1 DEF SentinelTellsTheTruth
  <2> QED
    BY <1>3, <2>1, <2>2, <2>5, <2>6, <2>7 DEF FamilyRest, T
<1> QED
  BY <1>2, <1>3

LEMMA QuitParentEffect ==
    FamilyInv /\ QuitParent =>
        /\ FamilyRest'
        /\ \E T : /\ \/ ProcTable[Current].parentPtr = NULL /\ T = ProcTable
                     \/ ToldFields(T, ProcTable[Current].parentPtr)
                  /\ Dispatched(T, ProcTable')
<1> SUFFICES ASSUME FamilyInv, QuitParent
             PROVE  /\ FamilyRest'
                    /\ \E T : /\ \/ ProcTable[Current].parentPtr = NULL /\ T = ProcTable
                                 \/ ToldFields(T, ProcTable[Current].parentPtr)
                              /\ Dispatched(T, ProcTable')
  OBVIOUS
<1> DEFINE p == ProcTable[Current].parentPtr
<1>1. PICK T, q : ToldTable(T, q)
  BY QuitParentTable DEF FamilyInv
<1>2. /\ KernelInv /\ kpc = "quitParent" /\ kpc' = "user"
      /\ ProcTable[Current].status = QUIT /\ Current \in Slots
      /\ FamilyOK(ProcTable, Current) /\ StatusesOK(ProcTable, Current)
  BY DEF QuitParent, FamilyInv, FamilyRest, StatusInv, KernelInv, CounterOK, RunnerOK, Quitter
<1>3. DispatchReady(T, nextPid', q) /\ Dispatch(T, q)
  BY <1>1 DEF ToldTable
<1>4. CASE p = NULL
  <2>1. T = ProcTable
    BY <1>1, <1>4 DEF ToldTable
  <2>2. FamilyOK(T, NULL)
    BY <1>2, <1>4, <2>1, NobodyToTell
  <2>3. YieldOK(T, q) /\ StatusesOK(T, Current)
    BY <1>2, <2>1, StatusNumbers DEF YieldOK
  <2>4. FamilyRest' /\ Dispatched(T, ProcTable')
    BY <1>2, <1>3, <2>2, <2>3, DispatchFamily
  <2> QED
    BY <1>4, <2>1, <2>4
<1>5. CASE p # NULL
  <2>1. p \in Slots /\ T = TellParent(p)
    BY <1>1, <1>5 DEF ToldTable
  <2> HIDE DEF p
  <2>2. ToldFields(T, p)
    BY <1>2, <2>1, TellFields
  <2> USE DEF p
  <2>3. FamilyOK(T, NULL)
    BY <1>2, <2>2, ToldFamily
  <2> HIDE DEF p
  <2>4. StatusesOK(T, Current) /\ T[Current].status \notin {JOIN_BLOCK, ZAP_BLOCK}
    <3>1. \A r \in Slots : T[r].status = ProcTable[r].status \/ T[r].status = READY
      BY <2>2 DEF ToldFields
    <3> QED
      BY <3>1, <1>2, StatusNumbers DEF StatusesOK
  <2>5. YieldOK(T, q)
    BY <2>4 DEF YieldOK
  <2>6. FamilyRest' /\ Dispatched(T, ProcTable')
    BY <1>2, <1>3, <2>3, <2>4, <2>5, DispatchFamily
  <2> QED
    BY <2>2, <2>6 DEF p
<1> QED
  BY <1>4, <1>5

LEMMA UnblockEffect ==
    \A pid \in Pids : FamilyInv /\ UnblockProc(pid) =>
        /\ FamilyRest'
        /\ \E s, U : /\ s \in Slots /\ ProcTable[s].status > 10
                     /\ StatusSetTo(ProcTable, U, s, READY)
                     /\ Dispatched(U, ProcTable')
<1> SUFFICES ASSUME NEW pid \in Pids, FamilyInv, UnblockProc(pid)
             PROVE  /\ FamilyRest'
                    /\ \E s, U : /\ s \in Slots /\ ProcTable[s].status > 10
                                 /\ StatusSetTo(ProcTable, U, s, READY)
                                 /\ Dispatched(U, ProcTable')
  OBVIOUS
<1>1. PICK s, U, q : WokenTable(s, U, q)
  BY UnblockProcTable DEF FamilyInv
<1>2. /\ s \in Slots /\ s # Current /\ ProcTable[s].status > 10
      /\ U = [ProcTable EXCEPT ![s].status = READY]
      /\ DispatchReady(U, nextPid', q) /\ Dispatch(U, q)
  BY <1>1 DEF WokenTable
<1>3. /\ FamilyOK(ProcTable, NULL) /\ ProcTable \in [Slots -> ProcStruct]
      /\ StatusesOK(ProcTable, Current) /\ Current \in Slots
      /\ ProcTable[Current].status \notin {JOIN_BLOCK, ZAP_BLOCK}
      /\ kpc' = "user"
  BY CallerRuns DEF UnblockProc, Calling
<1>4. StatusSetTo(ProcTable, U, s, READY)
  BY <1>2, <1>3, StatusNumbers, StatusSet
<1>5. AliveIn(ProcTable, s) /\ READY \notin {UNUSED, QUIT}
  BY <1>2, StatusNumbers DEF AliveIn
<1>6. SameFamily(ProcTable, U) /\ StatusesOK(U, Current)
  BY <1>3, <1>4, <1>5, StatusSetFamily, StatusSetKnown
<1>7. FamilyOK(U, NULL)
  BY <1>3, <1>6, SameFamilyKeeps
<1>8. YieldOK(U, q)
  BY <1>2, <1>3, <1>4 DEF StatusSetTo, YieldOK
<1>9. FamilyRest' /\ Dispatched(U, ProcTable')
  BY <1>2, <1>3, <1>6, <1>7, <1>8, DispatchFamily
<1> QED
  BY <1>2, <1>4, <1>9

\* U is T with other zapped lists: who is flagged, whose list begins where, and
\* who comes next on it.
OtherZappers(T, U) ==
    /\ T \in [Slots -> ProcStruct] /\ U \in [Slots -> ProcStruct]
    /\ \A s \in Slots :
        /\ U[s].pid = T[s].pid /\ U[s].status = T[s].status
        /\ U[s].priority = T[s].priority /\ U[s].parentPtr = T[s].parentPtr
        /\ U[s].childProcs = T[s].childProcs /\ U[s].childCount = T[s].childCount
        /\ U[s].childQuitPtr = T[s].childQuitPtr
        /\ U[s].exitTimeSlice = T[s].exitTimeSlice

ZappedFields(T, U, v, first) ==
    /\ OtherZappers(T, U)
    /\ U[v].zap /\ U[v].zappedPtr = first
    /\ \A s \in Slots : U[s].zappedSiblingPtr = T[s].zappedSiblingPtr
    /\ \A s \in Slots \ {v} : U[s].zap = T[s].zap /\ U[s].zappedPtr = T[s].zappedPtr

LinkedFields(T, U, w, z) ==
    /\ OtherZappers(T, U)
    /\ U[w].zappedSiblingPtr = z
    /\ \A s \in Slots \ {w} : U[s].zappedSiblingPtr = T[s].zappedSiblingPtr
    /\ \A s \in Slots : U[s].zap = T[s].zap /\ U[s].zappedPtr = T[s].zappedPtr

LEMMA ZapFields ==
    ASSUME NEW T \in [Slots -> ProcStruct], NEW v \in Slots, NEW z \in Pointers, NEW U,
           U = [T EXCEPT ![v].zap = TRUE, ![v].zappedPtr = z]
    PROVE  ZappedFields(T, U, v, z)
<1> DEFINE e == T[v]
<1>1. e \in ProcStruct /\ U[v] = [e EXCEPT !.zap = TRUE, !.zappedPtr = z]
      /\ \A r \in Slots \ {v} : U[r] = T[r]
  OBVIOUS
<1>2. U \in [Slots -> ProcStruct]
  <2>1. U[v] \in ProcStruct
    <3> HIDE DEF e
    <3> QED
      BY <1>1 DEF ProcStruct
  <2>2. DOMAIN U = Slots /\ U = [r \in Slots |-> U[r]]
    OBVIOUS
  <2> QED
    BY <1>1, <2>1, <2>2
<1> HIDE DEF e
<1>3. /\ U[v].zap /\ U[v].zappedPtr = z
      /\ U[v].pid = e.pid /\ U[v].status = e.status /\ U[v].priority = e.priority
      /\ U[v].parentPtr = e.parentPtr /\ U[v].childProcs = e.childProcs
      /\ U[v].childCount = e.childCount /\ U[v].childQuitPtr = e.childQuitPtr
      /\ U[v].exitTimeSlice = e.exitTimeSlice
      /\ U[v].zappedSiblingPtr = e.zappedSiblingPtr
  BY <1>1 DEF ProcStruct
<1>4. \A r \in Slots \ {v} : U[r] = T[r]
  BY <1>1
<1> QED
  BY <1>2, <1>3, <1>4 DEF ZappedFields, OtherZappers, e

LEMMA LinkFields ==
    ASSUME NEW T \in [Slots -> ProcStruct], NEW w \in Slots, NEW z \in Pointers, NEW U,
           U = [T EXCEPT ![w].zappedSiblingPtr = z]
    PROVE  LinkedFields(T, U, w, z)
<1> DEFINE e == T[w]
<1>1. e \in ProcStruct /\ U[w] = [e EXCEPT !.zappedSiblingPtr = z]
      /\ \A r \in Slots \ {w} : U[r] = T[r]
  OBVIOUS
<1>2. U \in [Slots -> ProcStruct]
  <2>1. U[w] \in ProcStruct
    <3> HIDE DEF e
    <3> QED
      BY <1>1 DEF ProcStruct
  <2>2. DOMAIN U = Slots /\ U = [r \in Slots |-> U[r]]
    OBVIOUS
  <2> QED
    BY <1>1, <2>1, <2>2
<1> HIDE DEF e
<1>3. /\ U[w].zap = e.zap /\ U[w].zappedPtr = e.zappedPtr
      /\ U[w].pid = e.pid /\ U[w].status = e.status /\ U[w].priority = e.priority
      /\ U[w].parentPtr = e.parentPtr /\ U[w].childProcs = e.childProcs
      /\ U[w].childCount = e.childCount /\ U[w].childQuitPtr = e.childQuitPtr
      /\ U[w].exitTimeSlice = e.exitTimeSlice /\ U[w].zappedSiblingPtr = z
  BY <1>1 DEF ProcStruct
<1>4. \A r \in Slots \ {w} : U[r] = T[r]
  BY <1>1
<1> QED
  BY <1>2, <1>3, <1>4 DEF LinkedFields, OtherZappers, e

LEMMA OtherZappersFamily ==
    ASSUME NEW T, NEW U, OtherZappers(T, U)
    PROVE  SameFamily(T, U) /\ \A c : StatusesOK(T, c) => StatusesOK(U, c)
BY DEF OtherZappers, SameFamily, AliveIn, StatusesOK

\* The end of zap: its caller, linked in T, blocks in U.
LEMMA ZapperBlocks ==
    ASSUME FamilyInv, NEW T, ZapperChange(ProcTable, T), OtherZappers(ProcTable, T),
           BlockInZap(T), Current # SENTINELPID, outcome = "running",
           kpc \in {"user", "zapWalk"},
           victim' \in [Slots -> Nat], UNCHANGED <<nextPid, now>>
    PROVE  /\ FamilyRest'
           /\ \E U : StatusSetTo(T, U, Current, ZAP_BLOCK) /\ Dispatched(U, ProcTable')
<1> DEFINE U == [T EXCEPT ![Current].status = ZAP_BLOCK]
<1>1. /\ KernelInv /\ Current \in Slots /\ AliveIn(ProcTable, Current) /\ Strongest
      /\ FamilyOK(ProcTable, NULL) /\ StatusesOK(ProcTable, Current)
      /\ ProcTable \in [Slots -> ProcStruct] /\ T \in [Slots -> ProcStruct]
  BY CallerRuns DEF FamilyInv, OtherZappers
<1>2. SetsStatus(T, U, Current, ZAP_BLOCK) /\ BlockedTable(U)
  BY <1>1, BlockInZapTable
<1>3. ZAP_BLOCK \in Nat /\ Blocked(ZAP_BLOCK)
  BY StatusNumbers DEF Blocked
<1>4. StatusSetTo(T, U, Current, ZAP_BLOCK)
  BY <1>1, <1>3, StatusSet
<1> HIDE DEF U
<1>5. AliveIn(T, Current) /\ FamilyOK(T, NULL) /\ StatusesOK(T, Current)
  <2>1. SameFamily(ProcTable, T) /\ StatusesOK(T, Current)
    BY <1>1, OtherZappersFamily
  <2> QED
    BY <2>1, <1>1, SameFamilyKeeps DEF SameFamily
<1>6. \A s \in Members(ReadyList) : U[Current].priority <= U[s].priority
  <2>1. \A s \in Members(ReadyList) : s \in Slots
    BY <1>1 DEF KernelInv, QueueOK, ReadySlots
  <2>2. \A s \in Slots : U[s].priority = ProcTable[s].priority
    BY <1>2 DEF SetsStatus, StatusChange, OtherZappers
  <2> QED
    BY <2>1, <2>2, <1>1 DEF Strongest, Priority
<1>7. DispatchReady(U, nextPid', ReadyList) /\ Dispatch(U, ReadyList)
  BY <1>2 DEF BlockedTable
<1>8. kpc' = "user"
  BY DEF BlockInZap
<1>9. FamilyRest' /\ Dispatched(U, ProcTable')
  BY <1>1, <1>3, <1>4, <1>5, <1>6, <1>7, <1>8, BlockingFamily
<1> QED
  BY <1>4, <1>9

\* zap of a process nobody has zapped, or the start of the walk to the end of its
\* list.
ZapLinked(pid) ==
    LET v == pid % MAXPROC
    IN  /\ ProcTable[v].zappedPtr = NULL
        /\ inCall' = [inCall EXCEPT ![Current] = "zap"] /\ kpc' = "user"
        /\ \E T, U : /\ ZappedFields(ProcTable, T, v, Current)
                     /\ StatusSetTo(T, U, Current, ZAP_BLOCK)
                     /\ Dispatched(U, ProcTable')

ZapStarted(pid) ==
    LET v == pid % MAXPROC
    IN  /\ ProcTable[v].zappedPtr # NULL /\ walker' = ProcTable[v].zappedPtr
        /\ kpc' = "zapWalk"
        /\ ZappedFields(ProcTable, ProcTable', v, ProcTable[v].zappedPtr)
        /\ UNCHANGED <<Current, inCall>>

LEMMA ZapEffect ==
    \A pid \in Pids : FamilyInv /\ Zap(pid) => FamilyRest' /\ (ZapLinked(pid) \/ ZapStarted(pid))
<1> SUFFICES ASSUME NEW pid \in Pids, FamilyInv, Zap(pid)
             PROVE  FamilyRest' /\ (ZapLinked(pid) \/ ZapStarted(pid))
  OBVIOUS
<1> DEFINE v == pid % MAXPROC
<1>1. v \in Slots /\ pid \in Nat
  BY ModInSlots DEF Pids
<1>2. /\ Calling /\ UNCHANGED <<nextPid, now>> /\ victim' = [victim EXCEPT ![Current] = pid]
  BY DEF Zap
<1>3. /\ KernelInv /\ Current \in Slots /\ Current # SENTINELPID /\ Current \in Pointers
      /\ kpc = "user" /\ outcome = "running"
      /\ ProcTable \in [Slots -> ProcStruct]
      /\ FamilyOK(ProcTable, NULL) /\ StatusesOK(ProcTable, Current) /\ Strongest
  BY <1>2, CallerRuns DEF Calling, FamilyInv, Pointers
<1>4. victim' \in [Slots -> Nat]
  BY <1>1, <1>2, <1>3 DEF KernelInv, TypeOK
<1>5. CASE ProcTable[v].zappedPtr = NULL
  <2> DEFINE T == [ProcTable EXCEPT ![v].zap = TRUE, ![v].zappedPtr = Current]
  <2>1. BlockInZap(T)
    BY <1>5 DEF Zap
  <2> HIDE DEF v
  <2>2. ZapperChange(ProcTable, T) /\ ZappedFields(ProcTable, T, v, Current)
    BY <1>1, <1>3, FlagSet, ZapFields
  <2> HIDE DEF T
  <2>3. OtherZappers(ProcTable, T) /\ kpc \in {"user", "zapWalk"}
    BY <1>3, <2>2 DEF ZappedFields
  <2>4. /\ FamilyRest'
        /\ \E U : StatusSetTo(T, U, Current, ZAP_BLOCK) /\ Dispatched(U, ProcTable')
    BY <1>2, <1>3, <1>4, <2>1, <2>2, <2>3, ZapperBlocks
  <2>5. inCall' = [inCall EXCEPT ![Current] = "zap"] /\ kpc' = "user"
    BY <2>1 DEF BlockInZap
  <2> QED
    BY <1>5, <2>2, <2>4, <2>5 DEF ZapLinked, v
<1>6. CASE ProcTable[v].zappedPtr # NULL
  <2>1. /\ ProcTable' = [ProcTable EXCEPT ![v].zap = TRUE]
        /\ kpc' = "zapWalk" /\ walker' = ProcTable[v].zappedPtr
        /\ UNCHANGED <<ReadyList, Current, inCall, outcome>>
    BY <1>6 DEF Zap
  <2> HIDE DEF v
  <2> DEFINE T == ProcTable'
             f == ProcTable[v].zappedPtr
  <2>2. T = [ProcTable EXCEPT ![v].zap = TRUE, ![v].zappedPtr = f] /\ f \in Pointers
    <3>1. ProcTable[v] \in ProcStruct
      BY <1>1, <1>3
    <3>2. f \in Pointers
      BY <3>1 DEF ProcStruct
    <3>3. [ProcTable[v] EXCEPT !.zap = TRUE] =
          [ProcTable[v] EXCEPT !.zap = TRUE, !.zappedPtr = f]
      BY <3>1 DEF ProcStruct
    <3> QED
      BY <1>1, <1>3, <2>1, <3>2, <3>3
  <2> HIDE DEF T
  <2>3. ZappedFields(ProcTable, T, v, f)
    BY <1>1, <1>3, <2>2, ZapFields
  <2>4. OtherZappers(ProcTable, T)
    BY <2>3 DEF ZappedFields
  <2>5. FamilyOK(T, NULL) /\ StatusesOK(T, Current)
    BY <1>3, <2>4, OtherZappersFamily, SameFamilyKeeps
  <2>6. Runs(T, Current)
    <3>1. Runs(ProcTable, Current)
      BY <1>3 DEF FamilyInv, FamilyRest, StatusInv
    <3> QED
      BY <1>3, <2>4, <3>1 DEF Runs, OtherZappers
  <2>7. \A s \in Members(ReadyList) : T[Current].priority <= T[s].priority
    <3>1. \A s \in Members(ReadyList) : s \in Slots
      BY <1>3 DEF KernelInv, QueueOK, ReadySlots
    <3> QED
      BY <1>3, <2>4, <3>1 DEF Strongest, Priority, OtherZappers
  <2>8. StatusInv' /\ Quitter' = NULL
    BY <2>1, <2>5, <2>6, <2>7 DEF StatusInv, Quitter, Strongest, Priority, T
  <2>9. SentinelTellsTheTruth'
    BY <1>3, <2>1 DEF SentinelTellsTheTruth
  <2>10. FamilyRest'
    BY <2>5, <2>8, <2>9 DEF FamilyRest, T
  <2> QED
    BY <1>6, <2>1, <2>3, <2>10 DEF ZapStarted, T, v
<1> QED
  BY <1>5, <1>6

LEMMA ZapLinkEffect ==
    FamilyInv /\ ZapLink =>
        /\ FamilyRest'
        /\ inCall' = [inCall EXCEPT ![Current] = "zap"] /\ kpc' = "user"
        /\ walker \in Slots /\ ProcTable[walker].zappedSiblingPtr = NULL
        /\ \E T, U : /\ LinkedFields(ProcTable, T, walker, Current)
                     /\ StatusSetTo(T, U, Current, ZAP_BLOCK)
                     /\ Dispatched(U, ProcTable')
<1> SUFFICES ASSUME FamilyInv, ZapLink
             PROVE  /\ FamilyRest'
                    /\ inCall' = [inCall EXCEPT ![Current] = "zap"] /\ kpc' = "user"
                    /\ walker \in Slots /\ ProcTable[walker].zappedSiblingPtr = NULL
                    /\ \E T, U : /\ LinkedFields(ProcTable, T, walker, Current)
                                 /\ StatusSetTo(T, U, Current, ZAP_BLOCK)
                                 /\ Dispatched(U, ProcTable')
  OBVIOUS
<1>1. /\ outcome = "running" /\ kpc = "zapWalk" /\ BlockInZap(LinkZapper)
      /\ ProcTable[walker].zappedSiblingPtr = NULL
      /\ UNCHANGED <<nextPid, now, victim>>
  BY DEF ZapLink
<1>2. /\ KernelInv /\ Current \in Slots /\ Current # SENTINELPID /\ walker \in Slots
      /\ ProcTable \in [Slots -> ProcStruct] /\ victim' \in [Slots -> Nat]
      /\ Current \in Pointers
  BY <1>1 DEF FamilyInv, KernelInv, TypeOK, CounterOK, Pointers
<1> DEFINE T == [ProcTable EXCEPT ![walker].zappedSiblingPtr = Current]
<1>3. ZapperChange(ProcTable, T) /\ LinkedFields(ProcTable, T, walker, Current)
  BY <1>2, LinkedBehind, LinkFields
<1>4. BlockInZap(T)
  BY <1>1 DEF LinkZapper
<1> HIDE DEF T
<1>5. OtherZappers(ProcTable, T) /\ kpc \in {"user", "zapWalk"}
  BY <1>1, <1>3 DEF LinkedFields
<1>6. /\ FamilyRest'
      /\ \E U : StatusSetTo(T, U, Current, ZAP_BLOCK) /\ Dispatched(U, ProcTable')
  BY <1>1, <1>2, <1>3, <1>4, <1>5, ZapperBlocks
<1>7. inCall' = [inCall EXCEPT ![Current] = "zap"] /\ kpc' = "user"
  BY <1>4 DEF BlockInZap
<1> QED
  BY <1>1, <1>2, <1>3, <1>6, <1>7

\* The handlers that leave the table alone, and zap of a pid that names nobody.
LEMMA OtherEffects ==
    /\ FamilyInv /\ (ForkTableFull \/ ForkRejected \/ ZapWalk \/ CallReturns) => FamilyRest'
    /\ \A pid \in Pids : FamilyInv /\ ZapInvalid(pid) => FamilyRest'
    /\ FamilyInv /\ UNCHANGED vars => FamilyRest'
<1>1. FamilyInv /\ (ForkTableFull \/ ForkRejected \/ ZapWalk \/ CallReturns) => FamilyRest'
  BY IdleFamily DEF ForkTableFull, ForkRejected, ZapWalk, CallReturns
<1>2. ASSUME NEW pid \in Pids, FamilyInv, ZapInvalid(pid) PROVE FamilyRest'
  <2>1. Halt("halted") /\ "halted" \in Outcomes \ {"running", "completed", "deadlock"}
    BY <1>2 DEF ZapInvalid, Outcomes
  <2> QED
    BY <1>2, <2>1, HaltFamily
<1>3. FamilyInv /\ UNCHANGED vars => FamilyRest'
  BY IdleFamily DEF vars
<1> QED
  BY <1>1, <1>2, <1>3

LEMMA FamilyStep == FamilyInv /\ [Next]_vars => FamilyInv'
<1>1. FamilyInv /\ [Next]_vars => KernelInv'
  BY NextStep DEF FamilyInv, StepOK
<1>2. FamilyInv /\ [Next]_vars => FamilyRest'
  BY OtherEffects, ForkEffect, JoinQuitChildEffect, JoinBlockEffect, JoinResumeEffect,
     QuitEffect, QuitWakeEffect, QuitParentEffect, ZapEffect, ZapLinkEffect,
     BlockMeEffect, UnblockEffect, SentinelFamily
     DEF Next
<1> QED
  BY <1>1, <1>2 DEF FamilyInv

\* What startup() leaves: the sentinel and start1.
LEMMA InitEntries ==
    Init => /\ ProcTable \in [Slots -> ProcStruct] /\ Current = SENTINELPID + 1
            /\ ProcTable[SENTINELPID].status = READY
            /\ ProcTable[SENTINELPID + 1].status = RUNNING
            /\ \A s \in {SENTINELPID, SENTINELPID + 1} :
                /\ ProcTable[s].parentPtr = NULL
                /\ ProcTable[s].childProcs = <<>> /\ ProcTable[s].childCount = 0
                /\ ProcTable[s].zap = FALSE /\ ProcTable[s].zappedPtr = NULL
                /\ ProcTable[s].zappedSiblingPtr = NULL
            /\ \A s \in Slots \ {SENTINELPID, SENTINELPID + 1} :
                ProcTable[s].status = UNUSED /\ ProcTable[s].zappedSiblingPtr = NULL
<1> SUFFICES ASSUME Init
             PROVE  /\ ProcTable \in [Slots -> ProcStruct] /\ Current = SENTINELPID + 1
                    /\ ProcTable[SENTINELPID].status = READY
                    /\ ProcTable[SENTINELPID + 1].status = RUNNING
                    /\ \A s \in {SENTINELPID, SENTINELPID + 1} :
                        /\ ProcTable[s].parentPtr = NULL
                        /\ ProcTable[s].childProcs = <<>> /\ ProcTable[s].childCount = 0
                        /\ ProcTable[s].zap = FALSE /\ ProcTable[s].zappedPtr = NULL
                        /\ ProcTable[s].zappedSiblingPtr = NULL
                    /\ \A s \in Slots \ {SENTINELPID, SENTINELPID + 1} :
                        ProcTable[s].status = UNUSED /\ ProcTable[s].zappedSiblingPtr = NULL
  OBVIOUS
<1> DEFINE sentinel == NewEntry(SENTINELPID, SENTINELPRIORITY, NULL)
           new == NewEntry(SENTINELPID + 1, 1, NULL)
           start1 == [new EXCEPT !.status = RUNNING]
<1>1. ProcTable = [s \in Slots |->
         CASE s = SENTINELPID -> sentinel
           [] s = SENTINELPID + 1 -> start1
           [] OTHER -> CleanEntry]
      /\ Current = SENTINELPID + 1
  BY DEF Init
<1>2. /\ SENTINELPID \in Nat /\ SENTINELPID + 1 \in Nat /\ SENTINELPID # SENTINELPID + 1
      /\ SENTINELPRIORITY \in Int /\ NULL \in Pointers
  BY KernelAssumption DEF SENTINELPID, SENTINELPRIORITY, Pointers
<1>3. /\ sentinel.status = READY /\ sentinel.parentPtr = NULL
      /\ sentinel.childProcs = <<>> /\ sentinel.childCount = 0
      /\ sentinel.zap = FALSE /\ sentinel.zappedPtr = NULL /\ sentinel.zappedSiblingPtr = NULL
  BY <1>2, NewEntryLinks
<1>4. /\ new.parentPtr = NULL /\ new.childProcs = <<>> /\ new.childCount = 0
      /\ new.zap = FALSE /\ new.zappedPtr = NULL /\ new.zappedSiblingPtr = NULL
      /\ new \in ProcStruct
  <2>1. IsNewEntry(new, SENTINELPID + 1, 1, NULL)
    BY <1>2, NewEntryFields
  <2>2. /\ new.parentPtr = NULL /\ new.childProcs = <<>> /\ new.childCount = 0
        /\ new.zap = FALSE /\ new.zappedPtr = NULL /\ new.zappedSiblingPtr = NULL
    <3> DEFINE p == SENTINELPID + 1
               one == 1
    <3>1. p \in Nat /\ one \in Int /\ new = NewEntry(p, one, NULL) /\ NULL \in Pointers
      BY <1>2
    <3> HIDE DEF p, one, new
    <3> QED
      BY <3>1, NewEntryLinks
  <2> QED
    BY <2>1, <2>2 DEF IsNewEntry
<1> HIDE DEF sentinel, new
<1>5. /\ start1.status = RUNNING /\ start1.parentPtr = NULL
      /\ start1.childProcs = <<>> /\ start1.childCount = 0
      /\ start1.zap = FALSE /\ start1.zappedPtr = NULL /\ start1.zappedSiblingPtr = NULL
  BY <1>4 DEF ProcStruct
<1>6. CleanEntry.status = UNUSED /\ CleanEntry.zappedSiblingPtr = NULL
  BY DEF CleanEntry
<1> HIDE DEF start1
<1>7. /\ ProcTable[SENTINELPID] = sentinel /\ ProcTable[SENTINELPID + 1] = start1
      /\ \A s \in Slots \ {SENTINELPID, SENTINELPID + 1} : ProcTable[s] = CleanEntry
  BY <1>1, <1>2, ConstantFacts
<1>8. ProcTable \in [Slots -> ProcStruct]
  BY InitInv DEF KernelInv, TypeOK
<1> QED
  BY <1>1, <1>3, <1>5, <1>6, <1>7, <1>8

LEMMA InitFamily == Init => FamilyInv
<1> SUFFICES ASSUME Init PROVE FamilyInv
  OBVIOUS
<1> DEFINE two == {SENTINELPID, SENTINELPID + 1}
<1>1. /\ Current = SENTINELPID + 1
      /\ ProcTable[SENTINELPID].status = READY /\ ProcTable[SENTINELPID + 1].status = RUNNING
      /\ \A s \in two : /\ ProcTable[s].parentPtr = NULL
                        /\ ProcTable[s].childProcs = <<>> /\ ProcTable[s].childCount = 0
      /\ \A s \in Slots \ two : ProcTable[s].status = UNUSED
  BY InitEntries
<1>2. kpc = "user" /\ outcome = "running" /\ Quitter = NULL /\ NULL \notin Slots
  BY KernelAssumption DEF Init, Quitter
<1>3. StatusInv
  BY <1>1, <1>2, StatusNumbers DEF StatusInv, StatusesOK, Runs
<1>4. FamilyOK(ProcTable, NULL)
  <2>1. ASSUME NEW s \in Slots, AliveIn(ProcTable, s)
        PROVE  ProcTable[s].childCount = Cardinality(Counted(ProcTable, NULL, s))
    <3>1. s \in two
      BY <1>1, <2>1 DEF AliveIn
    <3>2. Counted(ProcTable, NULL, s) = {}
      BY <1>1, <3>1, EmptySeq DEF Counted, Members
    <3> QED
      BY <1>1, <3>1, <3>2, FS_EmptySet
  <2>2. \A s \in Slots \ two : ~AliveIn(ProcTable, s) /\ s # NULL
    BY <1>1, <1>2 DEF AliveIn
  <2>3. \A s \in two : ProcTable[s].status # UNUSED /\ ProcTable[s].parentPtr = NULL
    BY <1>1, StatusNumbers
  <2> QED
    BY <2>1, <2>2, <2>3 DEF FamilyOK
<1>5. SentinelTellsTheTruth
  BY <1>2 DEF SentinelTellsTheTruth
<1> QED
  BY <1>2, <1>3, <1>4, <1>5, InitInv DEF FamilyInv, FamilyRest

LEMMA FamilyInvariance == Spec => []FamilyInv
BY InitFamily, FamilyStep, PTL DEF Spec

-----------------------------------------------------------------------------
LEMMA ChildrenAreMembers ==
    ASSUME FamilyInv, NEW s \in Slots
    PROVE  Children(s) = Members(ProcTable[s].childProcs)
<1>1. ProcTable[s].childProcs \in Seq(Slots)
  <2>1. ProcTable \in [Slots -> ProcStruct]
    BY DEF FamilyInv, KernelInv, TypeOK
  <2> QED
    BY <2>1, KidsAreSlots
<1> QED
  BY <1>1, RangeIsMembers DEF Children

LEMMA InvChildCountExact == FamilyInv => ChildCountExact
<1> SUFFICES ASSUME FamilyInv, NEW s \in Live
             PROVE  ProcTable[s].childCount =
                      Cardinality({c \in Children(s) : Alive(c) \/ Dying(c)})
  BY DEF ChildCountExact
<1>1. s \in Slots /\ AliveIn(ProcTable, s) /\ ProcTable \in [Slots -> ProcStruct]
  BY DEF Live, Alive, AliveIn, FamilyInv, KernelInv, TypeOK
<1>2. Members(ProcTable[s].childProcs) \subseteq Slots /\ NULL \notin Slots
  BY <1>1, KidsAreSlots, KernelAssumption
<1>3. {c \in Children(s) : Alive(c) \/ Dying(c)} = Counted(ProcTable, Quitter, s)
  BY <1>1, <1>2, ChildrenAreMembers DEF Counted, Alive, AliveIn, Dying, Quitter
<1> QED
  BY <1>1, <1>3 DEF FamilyInv, FamilyRest, FamilyOK

LEMMA InvParentOutlivesChild == FamilyInv => ParentOutlivesChild
<1> SUFFICES ASSUME FamilyInv, NEW c \in Live \ {SENTINELPID, SENTINELPID + 1}
             PROVE  /\ ProcTable[c].parentPtr \in Live
                    /\ {s \in Live : c \in Children(s)} = {ProcTable[c].parentPtr}
  BY DEF ParentOutlivesChild
<1> DEFINE p == ProcTable[c].parentPtr
<1>1. c \in Slots \ {SENTINELPID, SENTINELPID + 1} /\ AliveIn(ProcTable, c)
  BY DEF Live, Alive, AliveIn
<1>2. p \in Slots /\ AliveIn(ProcTable, p) /\ c \in Members(ProcTable[p].childProcs)
  BY <1>1 DEF FamilyInv, FamilyRest, FamilyOK
<1>3. p \in Live
  BY <1>2 DEF Live, Alive, AliveIn
<1>4. c \in Children(p)
  BY <1>2, ChildrenAreMembers
<1>5. ASSUME NEW s \in Live, c \in Children(s) PROVE s = p
  <2>1. s \in Slots
    BY DEF Live
  <2>2. c \in Members(ProcTable[s].childProcs)
    BY <1>5, <2>1, ChildrenAreMembers
  <2> QED
    BY <2>1, <2>2 DEF FamilyInv, KernelInv, StaticOK, KidsOK
<1> QED
  BY <1>3, <1>4, <1>5

\* childCount, which decides whether a process may quit, counts the children on
\* the list that are alive, whatever the number of processes.
THEOREM ChildCountIsExact == Spec => []ChildCountExact
BY FamilyInvariance, InvChildCountExact, PTL

\* No process is left without a parent, nor is any on two lists of children.
THEOREM ParentsOutliveChildren == Spec => []ParentOutlivesChild
BY FamilyInvariance, InvParentOutlivesChild, PTL

\* The sentinel runs only when every other process is blocked, so that what it
\* calls a deadlock is one.
THEOREM SentinelIsRight == Spec => []SentinelTellsTheTruth
<1>1. FamilyInv => SentinelTellsTheTruth
  BY DEF FamilyInv, FamilyRest
<1> QED
  BY <1>1, FamilyInvariance, PTL


-----------------------------------------------------------------------------
(***************************************************************************)
(* The zapped lists.                                                       *)
(***************************************************************************)
\* The processes blocked until v quits, where vict is whom each zapped last.
ZapOf(T, vict, v) == {s \in Slots : T[s].status = ZAP_BLOCK /\ vict[s] % MAXPROC = v}

Links(T) == [s \in Slots |-> T[s].zappedSiblingPtr]

\* The list that starts at first is theirs.
ZapList(T, vict, v, first) ==
    \E q : IsList(Slots, NULL, q, first, Links(T)) /\ Members(q) = ZapOf(T, vict, v)

\* The zapped list of a living process starts at its zappedPtr, that of a dying one
\* at w, where quit has come to; nobody waits for a process that is dead.
ZapListsOK(T, vict, dying, w) ==
    \A v \in Slots :
        /\ AliveIn(T, v) => /\ ZapList(T, vict, v, T[v].zappedPtr)
                            /\ T[v].zappedPtr # NULL => T[v].zap
        /\ ~AliveIn(T, v) => IF v = dying THEN ZapList(T, vict, v, w)
                             ELSE ZapOf(T, vict, v) = {}

\* The process that pid names has quit, and its slot may have been used again.
Gone(T, pid) == T[pid % MAXPROC].pid # pid \/ ~AliveIn(T, pid % MAXPROC)

\* A process is switched out in the call its status tells of; only the living are
\* in a call, and who is past its wait in zap has seen its victim go.
CallsOK(T, calls, vict, n) ==
    /\ \A s \in Slots : T[s].status = ZAP_BLOCK => calls[s] = "zap"
    /\ \A s \in Slots : calls[s] # "none" => AliveIn(T, s)
    /\ MaxPid < ShortLimit =>
        \A s \in Slots : calls[s] = "zap" =>
            /\ vict[s] \in 1 .. n-1
            /\ T[s].status # ZAP_BLOCK => Gone(T, vict[s])

\* A caller of zap that walks along its victim's list is on none itself.
WalkOK ==
    kpc = "zapWalk" =>
        LET v == victim[Current] % MAXPROC
        IN  /\ AliveIn(ProcTable, v) /\ v # Current /\ ProcTable[v].zap
            /\ walker \in ZapOf(ProcTable, victim, v)
            /\ ProcTable[Current].zappedSiblingPtr = NULL
            /\ MaxPid < ShortLimit => victim[Current] \in 1 .. nextPid-1
            /\ inCall[Current] = "none"

Waking == IF kpc = "quitWake" THEN Current ELSE NULL

ZapRest ==
    /\ ZapListsOK(ProcTable, victim, Waking, walker)
    /\ CallsOK(ProcTable, inCall, victim, nextPid)
    /\ WalkOK

ZapInv == FamilyInv /\ ZapRest

\* The set that ZapWaitsForQuit follows along the links is that of the list.
LEMMA FollowedZappers ==
    ASSUME NEW v \in Slots, NEW q, IsList(Slots, NULL, q, ProcTable[v].zappedPtr, Links(ProcTable))
    PROVE  Zappers(v) = Members(q)
<1> DEFINE D == 0 .. MAXPROC
           first == ProcTable[v].zappedPtr
           next(z) == ProcTable[z].zappedSiblingPtr
           goal == [n \in D |-> {q[i] : i \in {j \in 1 .. Len(q) : j <= n + 1}} \cup
                                (IF n >= Len(q) THEN {NULL} ELSE {})]
           step(f) == [n \in D |-> IF n = 0 THEN {first}
                                   ELSE f[n-1] \cup {next(z) : z \in f[n-1] \ {NULL}}]
           reach == CHOOSE f : f = step(f)
<1>1. MAXPROC \in Nat /\ Len(q) \in Nat /\ Len(q) <= MAXPROC
  <2>1. MAXPROC \in Nat /\ Cardinality(Slots) = MAXPROC /\ IsFiniteSet(Slots)
    <3>1. MAXPROC \in Nat \ {0} /\ Slots = 0 .. MAXPROC-1
      BY ConstantFacts DEF Slots
    <3>2. 0 \in Int /\ MAXPROC-1 \in Int
      BY <3>1
    <3>3. /\ IsFiniteSet(0 .. MAXPROC-1)
          /\ Cardinality(0 .. MAXPROC-1) = IF 0 > MAXPROC-1 THEN 0 ELSE MAXPROC-1 - 0 + 1
      BY <3>2, FS_Interval, Zenon
    <3> QED
      BY <3>1, <3>3
  <2> QED
    BY <2>1, ListLength, LenProperties DEF IsList
<1>2. /\ \A i \in 1 .. Len(q) : q[i] \in Slots /\ q[i] # NULL
      /\ first = IF Len(q) = 0 THEN NULL ELSE q[1]
      /\ \A i \in 1 .. Len(q) : next(q[i]) = IF i = Len(q) THEN NULL ELSE q[i+1]
  BY ElementOfSeq, KernelAssumption DEF IsList, Links
<1> HIDE DEF first, next
<1>3. {first} = goal[0]
  <2>1. goal[0] = {q[i] : i \in {j \in 1 .. Len(q) : j <= 1}} \cup
                  (IF 0 >= Len(q) THEN {NULL} ELSE {})
    BY <1>1
  <2>2. CASE Len(q) = 0
    BY <2>1, <2>2, <1>1, <1>2
  <2>3. CASE Len(q) # 0
    <3>1. {j \in 1 .. Len(q) : j <= 1} = {1} /\ ~(0 >= Len(q))
      BY <1>1, <2>3
    <3> QED
      BY <2>1, <2>3, <3>1, <1>2
  <2> QED
    BY <2>2, <2>3
<1>4. ASSUME NEW n \in D, n # 0
      PROVE  goal[n] = goal[n-1] \cup {next(z) : z \in goal[n-1] \ {NULL}}
  <2>1. n - 1 \in D /\ n \in Nat /\ n - 1 \in Nat
    BY <1>1, <1>4
  <2>2. /\ goal[n] = {q[i] : i \in {j \in 1 .. Len(q) : j <= n + 1}} \cup
                     (IF n >= Len(q) THEN {NULL} ELSE {})
        /\ goal[n-1] = {q[i] : i \in {j \in 1 .. Len(q) : j <= n}} \cup
                       (IF n - 1 >= Len(q) THEN {NULL} ELSE {})
    BY <2>1
  <2> HIDE DEF goal, D
  <2>3. ASSUME NEW x \in goal[n]
        PROVE  x \in goal[n-1] \cup {next(z) : z \in goal[n-1] \ {NULL}}
    <3>1. CASE \E i \in 1 .. Len(q) : i <= n + 1 /\ x = q[i]
      <4>1. PICK i \in 1 .. Len(q) : i <= n + 1 /\ x = q[i]
        BY <3>1
      <4>2. CASE i <= n
        BY <4>1, <4>2, <2>2
      <4>3. CASE i = n + 1
        <5>1. n \in 1 .. Len(q) /\ n # Len(q)
          BY <4>3, <1>1, <1>4, <2>1
        <5>2. q[n] \in goal[n-1] \ {NULL} /\ next(q[n]) = q[n+1]
          BY <5>1, <1>2, <2>2
        <5> QED
          BY <5>2, <4>1, <4>3
      <4> QED
        BY <4>1, <4>2, <4>3, <1>1, <2>1
    <3>2. CASE x = NULL /\ n >= Len(q)
      <4>1. CASE n - 1 >= Len(q)
        BY <3>2, <4>1, <2>2
      <4>2. CASE ~(n - 1 >= Len(q))
        <5>1. Len(q) = n /\ n \in 1 .. Len(q)
          BY <3>2, <4>2, <1>1, <1>4, <2>1
        <5>2. q[n] \in goal[n-1] \ {NULL} /\ next(q[n]) = NULL
          BY <5>1, <1>2, <2>2
        <5> QED
          BY <5>2, <3>2
      <4> QED
        BY <4>1, <4>2
    <3> QED
      BY <3>1, <3>2, <2>2
  <2>4. ASSUME NEW x \in goal[n-1] PROVE x \in goal[n]
    <3>1. CASE \E i \in 1 .. Len(q) : i <= n /\ x = q[i]
      <4>1. PICK i \in 1 .. Len(q) : i <= n /\ x = q[i]
        BY <3>1
      <4>2. i <= n + 1
        BY <4>1, <2>1
      <4> QED
        BY <4>1, <4>2, <2>2
    <3>2. CASE x = NULL /\ n - 1 >= Len(q)
      <4>1. n >= Len(q)
        BY <3>2, <1>1, <2>1
      <4> QED
        BY <3>2, <4>1, <2>2
    <3> QED
      BY <3>1, <3>2, <2>2
  <2>5. ASSUME NEW z \in goal[n-1] \ {NULL} PROVE next(z) \in goal[n]
    <3>1. PICK i \in 1 .. Len(q) : i <= n /\ z = q[i]
      BY <2>2
    <3>2. CASE i = Len(q)
      <4>1. next(z) = NULL /\ n >= Len(q)
        BY <3>1, <3>2, <1>2
      <4> QED
        BY <4>1, <2>2
    <3>3. CASE i # Len(q)
      <4>1. next(z) = q[i+1] /\ i + 1 \in 1 .. Len(q) /\ i + 1 <= n + 1
        BY <3>1, <3>3, <1>1, <1>2, <2>1
      <4> QED
        BY <4>1, <2>2
    <3> QED
      BY <3>2, <3>3
  <2> QED
    BY <2>3, <2>4, <2>5
<1>5. goal = step(goal)
  <2>1. \A n \in D : goal[n] = IF n = 0 THEN {first}
                               ELSE goal[n-1] \cup {next(z) : z \in goal[n-1] \ {NULL}}
    BY <1>3, <1>4
  <2>2. DOMAIN goal = D /\ goal = [n \in D |-> goal[n]]
    OBVIOUS
  <2> HIDE DEF goal, D
  <2> QED
    BY <2>1, <2>2
<1>6. reach = step(reach)
  <2> HIDE DEF goal, step
  <2> QED
    BY <1>5
<1>7. MAXPROC \in D
  BY <1>1
<1>8. reach[MAXPROC] = goal[MAXPROC]
  <2> DEFINE Wrong == {n \in D : reach[n] # goal[n]}
  <2> HIDE DEF reach, goal
  <2>1. SUFFICES ASSUME Wrong # {} PROVE FALSE
    BY <1>7
  <2>2. Wrong \in SUBSET Nat
    BY <1>1
  <2>3. PICK x \in Wrong : \A y \in Wrong : x <= y
    <3> HIDE DEF Wrong
    <3> QED
      BY <2>1, <2>2, LeastElement
  <2>4. x \in D /\ reach[x] # goal[x] /\ x \in Nat
    BY <2>2
  <2>5. CASE x = 0
    <3>1. reach[0] = {first}
      BY <1>1, <1>6
    <3> QED
      BY <2>4, <2>5, <3>1, <1>3
  <2>6. CASE x # 0
    <3>1. x - 1 \in D /\ ~(x <= x - 1)
      BY <2>4, <2>6, <1>1
    <3>2. reach[x-1] = goal[x-1]
      BY <2>3, <3>1
    <3>3. reach[x] = reach[x-1] \cup {next(z) : z \in reach[x-1] \ {NULL}}
      BY <2>4, <2>6, <1>6
    <3> QED
      BY <2>4, <2>6, <3>2, <3>3, <1>4
  <2> QED
    BY <2>5, <2>6
<1>9. goal[MAXPROC] \ {NULL} = Members(q)
  <2>1. goal[MAXPROC] = {q[i] : i \in {j \in 1 .. Len(q) : j <= MAXPROC + 1}} \cup {NULL}
    BY <1>1, <1>7
  <2>2. {j \in 1 .. Len(q) : j <= MAXPROC + 1} = 1 .. Len(q)
    BY <1>1
  <2> HIDE DEF goal
  <2> QED
    BY <2>1, <2>2, <1>2 DEF Members
<1>10. Zappers(v) = reach[MAXPROC] \ {NULL}
  BY DEF Zappers, first, next
<1> QED
  BY <1>8, <1>9, <1>10

-----------------------------------------------------------------------------
(***************************************************************************)
(* What leaves the zapped lists alone.                                     *)
(***************************************************************************)
SameZap(T, U) ==
    \A s \in Slots :
        /\ AliveIn(U, s) <=> AliveIn(T, s)
        /\ U[s].status = ZAP_BLOCK <=> T[s].status = ZAP_BLOCK
        /\ AliveIn(T, s) => /\ U[s].pid = T[s].pid /\ U[s].zap = T[s].zap
                            /\ U[s].zappedPtr = T[s].zappedPtr
        /\ T[s].status = ZAP_BLOCK => U[s].zappedSiblingPtr = T[s].zappedSiblingPtr

\* A list whose own links are the same is the same list.
LEMMA ListSameLinks ==
    ASSUME NEW S, NEW null, NEW q, NEW first, NEW next, NEW links,
           IsList(S, null, q, first, next), \A x \in Members(q) : links[x] = next[x]
    PROVE  IsList(S, null, q, first, links)
<1>1. \A i \in 1 .. Len(q) : links[q[i]] = next[q[i]]
  BY DEF Members
<1> QED
  BY <1>1 DEF IsList

\* A zapped list whose zappers and their links are as they were.
LEMMA ZapListStays ==
    ASSUME NEW T, NEW U, NEW a, NEW b, NEW v, NEW f, ZapList(T, a, v, f),
           ZapOf(U, b, v) = ZapOf(T, a, v),
           \A s \in ZapOf(T, a, v) : U[s].zappedSiblingPtr = T[s].zappedSiblingPtr
    PROVE  ZapList(U, b, v, f)
<1>1. PICK q : IsList(Slots, NULL, q, f, Links(T)) /\ Members(q) = ZapOf(T, a, v)
  BY DEF ZapList
<1>2. \A s \in Members(q) : Links(U)[s] = Links(T)[s]
  BY <1>1 DEF Links, ZapOf
<1>3. IsList(Slots, NULL, q, f, Links(U))
  BY <1>1, <1>2, ListSameLinks
<1> QED
  BY <1>1, <1>3 DEF ZapList

LEMMA SameZapKeeps ==
    ASSUME NEW T, NEW U, SameZap(T, U), NEW vict \in [Slots -> Nat], NEW dying, NEW w,
           ZapListsOK(T, vict, dying, w), NEW calls, NEW n, CallsOK(T, calls, vict, n)
    PROVE  ZapListsOK(U, vict, dying, w) /\ CallsOK(U, calls, vict, n)
<1>1. \A v : ZapOf(U, vict, v) = ZapOf(T, vict, v)
  BY DEF SameZap, ZapOf
<1>2. ASSUME NEW v, NEW f, ZapList(T, vict, v, f) PROVE ZapList(U, vict, v, f)
  <2>1. \A s \in ZapOf(T, vict, v) : U[s].zappedSiblingPtr = T[s].zappedSiblingPtr
    BY DEF SameZap, ZapOf
  <2> QED
    BY <1>1, <1>2, <2>1, ZapListStays
<1>3. ZapListsOK(U, vict, dying, w)
  BY <1>1, <1>2 DEF SameZap, ZapListsOK
<1>4. \A s \in Slots : Gone(T, vict[s]) => Gone(U, vict[s])
  BY ModInSlots DEF Gone, SameZap
<1>5. CallsOK(U, calls, vict, n)
  BY <1>4 DEF CallsOK, SameZap
<1> QED
  BY <1>3, <1>5

LEMMA DispatchedZap == ASSUME NEW T, NEW U, Dispatched(T, U) PROVE SameZap(T, U)
BY StatusNumbers DEF Dispatched, SameButStatus, SameZap, AliveIn

LEMMA StatusSetZap ==
    ASSUME NEW T, NEW U, NEW s, NEW st, StatusSetTo(T, U, s, st), AliveIn(T, s),
           T[s].status # ZAP_BLOCK, st \notin {UNUSED, QUIT, ZAP_BLOCK}
    PROVE  SameZap(T, U)
<1>1. \A r \in Slots : /\ AliveIn(U, r) <=> AliveIn(T, r)
                       /\ U[r].status = ZAP_BLOCK <=> T[r].status = ZAP_BLOCK
  BY DEF StatusSetTo, AliveIn
<1> QED
  BY <1>1 DEF StatusSetTo, SameButStatus, SameZap

\* Without a dying process it does not matter where a walk in quit would be.
LEMMA NobodyDies ==
    ASSUME NEW T, NEW vict, NEW w, NEW x, ZapListsOK(T, vict, NULL, w)
    PROVE  ZapListsOK(T, vict, NULL, x)
BY KernelAssumption DEF ZapListsOK

\* A process that is not blocked in zap enters another call, or leaves its call.
LEMMA CallSet ==
    ASSUME NEW T, NEW calls \in [Slots -> {"none", "join", "zap", "blockMe"}], NEW vict,
           NEW n, CallsOK(T, calls, vict, n),
           NEW s \in Slots, AliveIn(T, s), T[s].status # ZAP_BLOCK,
           NEW c \in {"none", "join", "blockMe"}
    PROVE  CallsOK(T, [calls EXCEPT ![s] = c], vict, n)
<1> DEFINE new == [calls EXCEPT ![s] = c]
<1>1. new[s] = c /\ \A r \in Slots \ {s} : new[r] = calls[r]
  OBVIOUS
<1> HIDE DEF new
<1>2. \A r \in Slots : T[r].status = ZAP_BLOCK => new[r] = "zap"
  BY <1>1 DEF CallsOK
<1>3. \A r \in Slots : new[r] # "none" => AliveIn(T, r)
  BY <1>1 DEF CallsOK
<1>4. MaxPid < ShortLimit => \A r \in Slots : new[r] = "zap" =>
        vict[r] \in 1 .. n-1 /\ (T[r].status # ZAP_BLOCK => Gone(T, vict[r]))
  BY <1>1 DEF CallsOK
<1> QED
  BY <1>2, <1>3, <1>4 DEF CallsOK, new

LEMMA CallsGrow ==
    ASSUME NEW T, NEW calls, NEW vict, NEW a \in Nat, NEW b \in Nat, a <= b,
           CallsOK(T, calls, vict, a)
    PROVE  CallsOK(T, calls, vict, b)
<1>1. 1 .. a-1 \subseteq 1 .. b-1
  BY PidRangeGrows
<1> QED
  BY <1>1 DEF CallsOK

\* What follows one of a list is on the list.
LEMMA ListNext ==
    ASSUME NEW S, NEW null, NEW q, NEW first, NEW next, IsList(S, null, q, first, next),
           NEW w \in Members(q), next[w] # null
    PROVE  next[w] \in Members(q)
<1>1. PICK i \in 1 .. Len(q) : w = q[i]
  BY DEF Members
<1>2. i # Len(q) /\ next[w] = q[i+1]
  BY <1>1 DEF IsList
<1>3. i + 1 \in 1 .. Len(q)
  BY <1>2, LenProperties DEF IsList
<1> QED
  BY <1>2, <1>3 DEF Members

\* A zapped list is empty when its first pointer is NULL.
LEMMA ZapListFirst ==
    ASSUME NEW T, NEW vict, NEW v, NEW f, ZapList(T, vict, v, f)
    PROVE  /\ f = NULL => ZapOf(T, vict, v) = {}
           /\ f # NULL => f \in ZapOf(T, vict, v)
<1>1. PICK q : IsList(Slots, NULL, q, f, Links(T)) /\ Members(q) = ZapOf(T, vict, v)
  BY DEF ZapList
<1>2. NULL \notin Slots
  BY KernelAssumption
<1>3. /\ f # NULL => f \in Members(q)
      /\ f = NULL => Members(q) = {}
  BY <1>1, <1>2, ListFirst
<1> QED
  BY <1>1, <1>3

LEMMA EmptyZapList ==
    ASSUME NEW T, NEW vict, NEW v, ZapOf(T, vict, v) = {}
    PROVE  ZapList(T, vict, v, NULL)
BY EmptyList DEF ZapList

\* What the invariant says of the variables, where nobody is dying.
LEMMA ZapTypes ==
    ASSUME ZapInv
    PROVE  /\ ProcTable \in [Slots -> ProcStruct] /\ victim \in [Slots -> Nat]
           /\ inCall \in [Slots -> {"none", "join", "zap", "blockMe"}]
           /\ nextPid \in Nat /\ Current \in Slots /\ NULL \notin Slots
           /\ \A s \in Slots : ProcTable[s].zappedSiblingPtr \in Slots \cup {NULL}
           /\ kpc # "quitWake" => ZapListsOK(ProcTable, victim, NULL, walker)
           /\ CallsOK(ProcTable, inCall, victim, nextPid)
<1>1. /\ ProcTable \in [Slots -> ProcStruct] /\ victim \in [Slots -> Nat]
      /\ inCall \in [Slots -> {"none", "join", "zap", "blockMe"}]
      /\ nextPid \in Nat /\ Current \in Slots /\ NULL \notin Slots
  BY KernelAssumption DEF ZapInv, FamilyInv, KernelInv, TypeOK
<1>2. \A s \in Slots : ProcTable[s].zappedSiblingPtr \in Slots \cup {NULL}
  BY <1>1 DEF ProcStruct, Pointers
<1> QED
  BY <1>1, <1>2 DEF ZapInv, ZapRest, Waking

\* An action that ends in dispatcher.
LEMMA DispatchedRest ==
    ASSUME NEW T, NEW w, ZapListsOK(T, victim', NULL, w),
           CallsOK(T, inCall', victim', nextPid'), Dispatched(T, ProcTable'),
           kpc' = "user", victim' \in [Slots -> Nat]
    PROVE  ZapRest'
<1>1. SameZap(T, ProcTable')
  BY DispatchedZap
<1>2. /\ ZapListsOK(ProcTable', victim', NULL, w)
      /\ CallsOK(ProcTable', inCall', victim', nextPid')
  BY <1>1, SameZapKeeps
<1>3. ZapListsOK(ProcTable', victim', NULL, walker')
  BY <1>2, NobodyDies
<1> QED
  BY <1>2, <1>3 DEF ZapRest, Waking, WalkOK

LEMMA IdleZap ==
    ASSUME ZapRest, UNCHANGED <<ProcTable, Current, nextPid, inCall, victim, kpc, walker>>
    PROVE  ZapRest'
BY DEF ZapRest, Waking, WalkOK

LEMMA HaltZap == ASSUME ZapInv, NEW how, Halt(how) PROVE ZapRest'
BY IdleZap DEF ZapInv, Halt

-----------------------------------------------------------------------------
(***************************************************************************)
(* What each handler does to the zapped lists.                             *)
(***************************************************************************)
LEMMA ForkZap ==
    ASSUME NEW T, NEW s, NEW p, ForkedFields(T, s, p), NEW vict \in [Slots -> Nat], NEW w,
           NEW calls, nextPid \in Nat,
           ZapListsOK(ProcTable, vict, NULL, w), CallsOK(ProcTable, calls, vict, nextPid)
    PROVE  ZapListsOK(T, vict, NULL, w) /\ CallsOK(T, calls, vict, p + 1)
<1> DEFINE P == ProcTable
<1>1. /\ s \in Slots /\ P[s].status = UNUSED /\ T[s].status = READY
      /\ T[s].pid = Short(p) /\ T[s].zap = FALSE /\ T[s].zappedPtr = NULL
      /\ p \in Nat /\ p >= nextPid /\ p <= MaxPid /\ p + 1 \in Nat /\ nextPid <= p + 1
      /\ \A r \in Slots \ {s} :
            /\ T[r].status = P[r].status /\ T[r].pid = P[r].pid /\ T[r].zap = P[r].zap
            /\ T[r].zappedPtr = P[r].zappedPtr
            /\ T[r].zappedSiblingPtr = P[r].zappedSiblingPtr
  BY DEF ForkedFields
<1> HIDE DEF P
<1>2. /\ ZapListsOK(P, vict, NULL, w) /\ CallsOK(P, calls, vict, nextPid)
      /\ NULL \notin Slots
  BY KernelAssumption DEF P
<1>3. \A v : ZapOf(T, vict, v) = ZapOf(P, vict, v)
  BY <1>1, StatusNumbers DEF ZapOf
<1>4. ASSUME NEW v, NEW f, ZapList(P, vict, v, f) PROVE ZapList(T, vict, v, f)
  <2>1. \A r \in ZapOf(P, vict, v) : T[r].zappedSiblingPtr = P[r].zappedSiblingPtr
    BY <1>1, StatusNumbers DEF ZapOf
  <2> QED
    BY <1>3, <1>4, <2>1, ZapListStays
<1>5. ASSUME NEW v \in Slots
      PROVE  /\ AliveIn(T, v) => /\ ZapList(T, vict, v, T[v].zappedPtr)
                                 /\ T[v].zappedPtr # NULL => T[v].zap
             /\ ~AliveIn(T, v) => ZapOf(T, vict, v) = {}
  <2>1. CASE v = s
    <3>1. ZapOf(T, vict, v) = {}
      BY <1>1, <1>2, <1>3, <2>1 DEF ZapListsOK, AliveIn
    <3> QED
      BY <3>1, <2>1, <1>1, EmptyZapList
  <2>2. CASE v # s
    <3>1. AliveIn(T, v) <=> AliveIn(P, v)
      BY <1>1, <2>2 DEF AliveIn
    <3> QED
      BY <1>1, <1>2, <1>3, <1>4, <2>2, <3>1 DEF ZapListsOK
  <2> QED
    BY <2>1, <2>2
<1>6. ZapListsOK(T, vict, NULL, w)
  BY <1>2, <1>5 DEF ZapListsOK
<1>7. ASSUME MaxPid < ShortLimit, NEW r \in Slots, vict[r] \in 1 .. nextPid-1, Gone(P, vict[r])
      PROVE  Gone(T, vict[r])
  <2>1. vict[r] % MAXPROC \in Slots /\ vict[r] # p /\ Short(p) = p
    <3>1. p < ShortLimit
      BY <1>1, <1>7, KernelAssumption
    <3> QED
      BY <1>1, <1>7, <3>1, ModInSlots, ShortIsInt
  <2>2. CASE vict[r] % MAXPROC = s
    BY <1>1, <2>1, <2>2 DEF Gone
  <2>3. CASE vict[r] % MAXPROC # s
    BY <1>1, <1>7, <2>1, <2>3 DEF Gone, AliveIn
  <2> QED
    BY <2>2, <2>3
<1>8. CallsOK(T, calls, vict, nextPid)
  <2>1. \A r \in Slots : T[r].status = ZAP_BLOCK => calls[r] = "zap"
    BY <1>1, <1>2, StatusNumbers DEF CallsOK
  <2>2. \A r \in Slots : AliveIn(P, r) => AliveIn(T, r)
    BY <1>1, StatusNumbers DEF AliveIn
  <2>3. ASSUME MaxPid < ShortLimit, NEW r \in Slots, calls[r] = "zap"
        PROVE  vict[r] \in 1 .. nextPid-1 /\ (T[r].status # ZAP_BLOCK => Gone(T, vict[r]))
    <3>1. vict[r] \in 1 .. nextPid-1 /\ (P[r].status # ZAP_BLOCK => Gone(P, vict[r]))
      BY <1>2, <2>3 DEF CallsOK
    <3>2. T[r].status # ZAP_BLOCK => P[r].status # ZAP_BLOCK
      BY <1>1, StatusNumbers
    <3> QED
      BY <1>7, <2>3, <3>1, <3>2
  <2> QED
    BY <1>2, <2>1, <2>2, <2>3 DEF CallsOK
<1> QED
  BY <1>1, <1>6, <1>8, CallsGrow

LEMMA ReapZap ==
    ASSUME NEW U, NEW c, ReapedFields(U, c) PROVE SameZap(ProcTable, U)
<1>1. \A r \in Slots : /\ AliveIn(U, r) <=> AliveIn(ProcTable, r)
                       /\ U[r].status = ZAP_BLOCK <=> ProcTable[r].status = ZAP_BLOCK
  BY StatusNumbers DEF ReapedFields, AliveIn
<1> QED
  BY <1>1, StatusNumbers DEF ReapedFields, SameZap, AliveIn

LEMMA ToldZap ==
    ASSUME NEW U, NEW p, ToldFields(U, p) PROVE SameZap(ProcTable, U)
<1>1. \A r \in Slots : /\ AliveIn(U, r) <=> AliveIn(ProcTable, r)
                       /\ U[r].status = ZAP_BLOCK <=> ProcTable[r].status = ZAP_BLOCK
  BY StatusNumbers DEF ToldFields, AliveIn
<1> QED
  BY <1>1 DEF ToldFields, SameZap

LEMMA DieZap ==
    ASSUME ZapInv, Calling, DiedFields(ProcTable'), UNCHANGED <<Current, nextPid, inCall, victim>>,
           IF ProcTable[Current].zap
           THEN kpc' = "quitWake" /\ walker' = ProcTable[Current].zappedPtr
           ELSE kpc' = "quitParent"
    PROVE  ZapRest'
<1> DEFINE P == ProcTable
           U == ProcTable'
<1>1. /\ victim \in [Slots -> Nat] /\ Current \in Slots /\ NULL \notin Slots
      /\ ZapListsOK(P, victim, NULL, walker) /\ CallsOK(P, inCall, victim, nextPid)
      /\ kpc = "user" /\ inCall[Current] = "none" /\ AliveIn(P, Current)
      /\ P[Current].status # ZAP_BLOCK
  BY ZapTypes, CallerRuns DEF ZapInv, Calling
<1>2. /\ U[Current].status = QUIT /\ \A r \in Slots \ {Current} : U[r] = P[r]
      /\ \A r \in Slots : U[r].pid = P[r].pid /\ U[r].zappedSiblingPtr = P[r].zappedSiblingPtr
  BY DEF DiedFields
<1> HIDE DEF P, U
<1>3. \A v : ZapOf(U, victim, v) = ZapOf(P, victim, v)
  BY <1>1, <1>2, StatusNumbers DEF ZapOf
<1>4. ASSUME NEW v, NEW f, ZapList(P, victim, v, f) PROVE ZapList(U, victim, v, f)
  <2>1. \A r \in ZapOf(P, victim, v) : U[r].zappedSiblingPtr = P[r].zappedSiblingPtr
    BY <1>2 DEF ZapOf
  <2> QED
    BY <1>3, <1>4, <2>1, ZapListStays
<1>5. ~AliveIn(U, Current) /\ \A r \in Slots \ {Current} : AliveIn(U, r) <=> AliveIn(P, r)
  BY <1>2 DEF AliveIn
<1>6. ASSUME NEW v \in Slots \ {Current}
      PROVE  /\ AliveIn(U, v) => /\ ZapList(U, victim, v, U[v].zappedPtr)
                                 /\ U[v].zappedPtr # NULL => U[v].zap
             /\ ~AliveIn(U, v) => ZapOf(U, victim, v) = {}
  BY <1>1, <1>2, <1>3, <1>4, <1>5 DEF ZapListsOK
<1>7. ZapList(P, victim, Current, P[Current].zappedPtr) /\ (P[Current].zappedPtr # NULL => P[Current].zap)
  BY <1>1 DEF ZapListsOK
<1>8. ZapListsOK(U, victim, Waking', walker')
  <2>1. CASE P[Current].zap
    <3>1. Waking' = Current /\ walker' = P[Current].zappedPtr
      BY <2>1 DEF Waking, P
    <3>2. ZapList(U, victim, Current, walker')
      BY <1>4, <1>7, <3>1
    <3> QED
      BY <1>5, <1>6, <3>1, <3>2 DEF ZapListsOK
  <2>2. CASE ~P[Current].zap
    <3>1. Waking' = NULL
      BY <2>2 DEF Waking, P
    <3>2. ZapOf(U, victim, Current) = {}
      BY <1>3, <1>7, <2>2, ZapListFirst
    <3> QED
      BY <1>1, <1>5, <1>6, <3>1, <3>2 DEF ZapListsOK
  <2> QED
    BY <2>1, <2>2
<1>9. CallsOK(U, inCall, victim, nextPid)
  <2>1. \A r \in Slots : Gone(P, victim[r]) => Gone(U, victim[r])
    BY <1>1, <1>2, <1>5, ModInSlots DEF Gone
  <2>2. \A r \in Slots : U[r].status = ZAP_BLOCK <=> P[r].status = ZAP_BLOCK
    BY <1>1, <1>2, StatusNumbers
  <2> QED
    BY <1>1, <1>5, <2>1, <2>2 DEF CallsOK
<1>10. WalkOK'
  BY DEF WalkOK
<1> QED
  BY <1>8, <1>9, <1>10 DEF ZapRest, U

LEMMA WakeZap ==
    ASSUME ZapInv, kpc = "quitWake", walker \in Slots,
           StatusSetTo(ProcTable, ProcTable', walker, READY),
           walker' = ProcTable[walker].zappedSiblingPtr,
           kpc' = IF walker' = NULL THEN "quitParent" ELSE kpc,
           UNCHANGED <<Current, nextPid, inCall, victim>>
    PROVE  ZapRest'
<1> DEFINE P == ProcTable
           U == ProcTable'
<1>1. /\ victim \in [Slots -> Nat] /\ Current \in Slots /\ NULL \notin Slots
      /\ ZapListsOK(P, victim, Current, walker) /\ CallsOK(P, inCall, victim, nextPid)
      /\ ~AliveIn(P, Current)
  <2>1. ~AliveIn(P, Current)
    BY DEF ZapInv, FamilyInv, KernelInv, CounterOK, AliveIn
  <2> QED
    BY <2>1, ZapTypes DEF ZapInv, ZapRest, Waking
<1>2. /\ U[walker].status = READY /\ \A r \in Slots \ {walker} : U[r] = P[r]
      /\ \A r \in Slots : /\ U[r].pid = P[r].pid /\ U[r].zap = P[r].zap
                          /\ U[r].zappedPtr = P[r].zappedPtr
                          /\ U[r].zappedSiblingPtr = P[r].zappedSiblingPtr
  BY DEF StatusSetTo, SameButStatus
<1>3. walker' = P[walker].zappedSiblingPtr
  OBVIOUS
<1> HIDE DEF P, U
<1>4. ZapList(P, victim, Current, walker)
  BY <1>1 DEF ZapListsOK
<1>5. walker \in ZapOf(P, victim, Current)
  BY <1>1, <1>4, ZapListFirst
<1>6. P[walker].status = ZAP_BLOCK /\ victim[walker] % MAXPROC = Current
  BY <1>5 DEF ZapOf
<1>7. \A r \in Slots : /\ AliveIn(U, r) <=> AliveIn(P, r)
                       /\ U[r].status = ZAP_BLOCK <=> P[r].status = ZAP_BLOCK /\ r # walker
  BY <1>2, <1>6, StatusNumbers DEF AliveIn
<1>8. /\ ZapOf(U, victim, Current) = ZapOf(P, victim, Current) \ {walker}
      /\ \A v \in Slots \ {Current} : ZapOf(U, victim, v) = ZapOf(P, victim, v)
  BY <1>6, <1>7 DEF ZapOf
<1>9. ASSUME NEW v \in Slots \ {Current}
      PROVE  /\ AliveIn(U, v) => /\ ZapList(U, victim, v, U[v].zappedPtr)
                                 /\ U[v].zappedPtr # NULL => U[v].zap
             /\ ~AliveIn(U, v) => ZapOf(U, victim, v) = {}
  <2>1. \A f : ZapList(P, victim, v, f) => ZapList(U, victim, v, f)
    <3> TAKE f
    <3> HAVE ZapList(P, victim, v, f)
    <3>1. \A r \in ZapOf(P, victim, v) : U[r].zappedSiblingPtr = P[r].zappedSiblingPtr
      BY <1>2 DEF ZapOf
    <3> QED
      BY <1>8, <3>1, ZapListStays
  <2> QED
    BY <1>1, <1>2, <1>7, <1>8, <2>1 DEF ZapListsOK
<1>10. ZapList(U, victim, Current, walker')
  <2>1. PICK q : IsList(Slots, NULL, q, walker, Links(P)) /\ Members(q) = ZapOf(P, victim, Current)
    BY <1>4 DEF ZapList
  <2>2. /\ IsList(Slots, NULL, Tail(q), Links(P)[walker], Links(P))
        /\ Members(Tail(q)) = Members(q) \ {walker}
    <3> DEFINE links == Links(P)
    <3>1. IsList(Slots, NULL, q, walker, links) /\ NULL \notin Slots /\ walker # NULL
      BY <1>1, <2>1
    <3> HIDE DEF links
    <3>2. /\ IsList(Slots, NULL, Tail(q), links[walker], links)
          /\ Members(Tail(q)) = Members(q) \ {walker}
      BY <3>1, ListTail
    <3> QED
      BY <3>2 DEF links
  <2>3. Links(P)[walker] = walker' /\ Links(U) = Links(P)
    BY <1>2, <1>3 DEF Links
  <2> QED
    BY <1>8, <2>1, <2>2, <2>3 DEF ZapList
<1>11. ZapListsOK(U, victim, Waking', walker')
  <2>1. CASE walker' = NULL
    <3>1. Waking' = NULL
      BY <2>1 DEF Waking
    <3>2. ZapOf(U, victim, Current) = {}
      BY <1>10, <2>1, ZapListFirst
    <3> QED
      BY <1>1, <1>7, <1>9, <3>1, <3>2 DEF ZapListsOK
  <2>2. CASE walker' # NULL
    <3>1. Waking' = Current
      BY <2>2 DEF Waking
    <3> QED
      BY <1>1, <1>7, <1>9, <1>10, <3>1 DEF ZapListsOK
  <2> QED
    BY <2>1, <2>2
<1>12. CallsOK(U, inCall, victim, nextPid)
  <2>1. \A r \in Slots : Gone(P, victim[r]) => Gone(U, victim[r])
    BY <1>1, <1>2, <1>7, ModInSlots DEF Gone
  <2>2. Gone(U, victim[walker])
    BY <1>1, <1>6, <1>7 DEF Gone
  <2>3. \A r \in Slots : U[r].status = ZAP_BLOCK => inCall[r] = "zap"
    BY <1>1, <1>7 DEF CallsOK
  <2>4. \A r \in Slots : inCall[r] # "none" => AliveIn(U, r)
    BY <1>1, <1>7 DEF CallsOK
  <2>5. ASSUME MaxPid < ShortLimit, NEW r \in Slots, inCall[r] = "zap"
        PROVE  victim[r] \in 1 .. nextPid-1 /\ (U[r].status # ZAP_BLOCK => Gone(U, victim[r]))
    BY <1>1, <1>7, <2>1, <2>2, <2>5 DEF CallsOK
  <2> QED
    BY <2>3, <2>4, <2>5 DEF CallsOK
<1>13. WalkOK'
  BY DEF WalkOK
<1> QED
  BY <1>11, <1>12, <1>13 DEF ZapRest, U

\* The caller of zap, not blocked yet, names the process it will wait for.
LEMMA VictimNamed ==
    ASSUME ZapInv, Calling, NEW pid \in Nat
    PROVE  LET vict == [victim EXCEPT ![Current] = pid]
           IN  /\ vict \in [Slots -> Nat] /\ vict[Current] = pid
               /\ \A v : ZapOf(ProcTable, vict, v) = ZapOf(ProcTable, victim, v)
               /\ \A r \in Slots \ {Current} : vict[r] = victim[r]
               /\ ZapListsOK(ProcTable, vict, NULL, walker)
               /\ CallsOK(ProcTable, inCall, vict, nextPid)
<1> DEFINE vict == [victim EXCEPT ![Current] = pid]
<1>1. /\ victim \in [Slots -> Nat] /\ Current \in Slots
      /\ ZapListsOK(ProcTable, victim, NULL, walker)
      /\ CallsOK(ProcTable, inCall, victim, nextPid)
      /\ inCall[Current] = "none" /\ ProcTable[Current].status # ZAP_BLOCK
  BY ZapTypes, CallerRuns DEF ZapInv, Calling
<1>2. /\ vict \in [Slots -> Nat] /\ vict[Current] = pid
      /\ \A r \in Slots \ {Current} : vict[r] = victim[r]
  BY <1>1
<1> HIDE DEF vict
<1>3. \A v : ZapOf(ProcTable, vict, v) = ZapOf(ProcTable, victim, v)
  BY <1>1, <1>2 DEF ZapOf
<1>4. ZapListsOK(ProcTable, vict, NULL, walker)
  BY <1>1, <1>3 DEF ZapListsOK, ZapList
<1>5. CallsOK(ProcTable, inCall, vict, nextPid)
  BY <1>1, <1>2 DEF CallsOK
<1> QED
  BY <1>2, <1>3, <1>4, <1>5 DEF vict

\* Who passes the guard of zap: another process, alive and not on a list itself.
LEMMA ZapGuard ==
    ASSUME ZapInv, ~StaleZappers, NEW pid \in Pids, Zap(pid)
    PROVE  /\ Calling /\ pid \in Nat
           /\ pid % MAXPROC \in Slots \ {Current} /\ AliveIn(ProcTable, pid % MAXPROC)
           /\ ProcTable[Current].zappedSiblingPtr = NULL
           /\ MaxPid < ShortLimit => pid \in 1 .. nextPid-1
           /\ victim' = [victim EXCEPT ![Current] = pid]
           /\ UNCHANGED <<nextPid, now>>
<1>1. pid \in Nat
  BY KernelAssumption DEF Pids
<1>2. /\ Calling /\ pid % MAXPROC # Current
      /\ ProcTable[Current].zappedSiblingPtr = NULL
      /\ ProcTable[pid % MAXPROC].pid = pid /\ AliveIn(ProcTable, pid % MAXPROC)
      /\ victim' = [victim EXCEPT ![Current] = pid] /\ UNCHANGED <<nextPid, now>>
  BY DEF Zap, Zappable, AliveIn
<1>3. pid % MAXPROC \in Slots
  BY <1>1, ModInSlots
<1>4. MaxPid < ShortLimit => pid \in 1 .. nextPid-1
  BY <1>2, <1>3 DEF ZapInv, FamilyInv, KernelInv, StaticOK, PidsOK, AliveIn
<1> QED
  BY <1>1, <1>2, <1>3, <1>4

\* The caller starts along the list of its victim.
LEMMA StartZap ==
    ASSUME ZapInv, ~StaleZappers, NEW pid \in Pids, Zap(pid), ZapStarted(pid)
    PROVE  ZapRest'
<1> DEFINE v == pid % MAXPROC
           P == ProcTable
           U == ProcTable'
           vict == victim'
<1>1. /\ v \in Slots \ {Current} /\ AliveIn(P, v) /\ P[Current].zappedSiblingPtr = NULL
      /\ MaxPid < ShortLimit => pid \in 1 .. nextPid-1
      /\ inCall[Current] = "none" /\ Current \in Slots /\ NULL \notin Slots
  BY ZapGuard, ZapTypes DEF Calling
<1>2. /\ vict \in [Slots -> Nat] /\ vict[Current] = pid
      /\ ZapListsOK(P, vict, NULL, walker) /\ CallsOK(P, inCall, vict, nextPid)
  BY ZapGuard, VictimNamed
<1>3. /\ walker' = P[v].zappedPtr /\ P[v].zappedPtr # NULL
      /\ ZappedFields(P, U, v, P[v].zappedPtr)
      /\ kpc' = "zapWalk" /\ Current' = Current /\ inCall' = inCall /\ nextPid' = nextPid
  BY ZapGuard DEF ZapStarted
<1> HIDE DEF v, P, U, vict
<1>4. U[v].zap
  BY <1>3 DEF ZappedFields
<1>5. \A s \in Slots :
        /\ U[s].status = P[s].status /\ U[s].pid = P[s].pid
        /\ U[s].zappedPtr = P[s].zappedPtr
        /\ U[s].zappedSiblingPtr = P[s].zappedSiblingPtr
        /\ s # v => U[s].zap = P[s].zap
  BY <1>3 DEF ZappedFields, OtherZappers
<1>6. \A s : ZapOf(U, vict, s) = ZapOf(P, vict, s)
  BY <1>5 DEF ZapOf
<1>7. \A s, f : ZapList(P, vict, s, f) => ZapList(U, vict, s, f)
  <2>1. Links(U) = Links(P)
    BY <1>5 DEF Links
  <2> QED
    BY <1>6, <2>1 DEF ZapList
<1>8. ZapListsOK(U, vict, NULL, walker')
  <2>1. ZapListsOK(U, vict, NULL, walker)
    BY <1>1, <1>2, <1>4, <1>5, <1>6, <1>7 DEF ZapListsOK, AliveIn
  <2> QED
    BY <2>1, NobodyDies
<1>9. CallsOK(U, inCall, vict, nextPid)
  <2>1. \A s \in Slots : Gone(P, vict[s]) => Gone(U, vict[s])
    BY <1>2, <1>5, ModInSlots DEF Gone, AliveIn
  <2> QED
    BY <1>2, <1>5, <2>1 DEF CallsOK, AliveIn
<1>10. WalkOK'
  <2>1. walker' \in ZapOf(U, vict, v)
    <3>1. ZapList(P, vict, v, P[v].zappedPtr)
      BY <1>1, <1>2 DEF ZapListsOK
    <3> QED
      BY <1>3, <1>6, <3>1, ZapListFirst
  <2>2. AliveIn(U, v) /\ U[Current].zappedSiblingPtr = NULL
    BY <1>1, <1>5 DEF AliveIn
  <2> QED
    BY <1>1, <1>2, <1>3, <1>4, <2>1, <2>2 DEF WalkOK, v, U, vict
<1> QED
  BY <1>3, <1>8, <1>9, <1>10 DEF ZapRest, Waking, U, vict

\* From P to U the process z has blocked, and the zapped lists of others than v are
\* as they were ...
BlockedFor(P, U, vict, v, z) ==
    /\ P[z].status # ZAP_BLOCK /\ U[z].status = ZAP_BLOCK
    /\ \A s \in Slots \ {z} : U[s].status = P[s].status
    /\ \A s \in Slots : U[s].pid = P[s].pid
    /\ \A s \in Slots \ {v} : U[s].zap = P[s].zap /\ U[s].zappedPtr = P[s].zappedPtr
    /\ \A s \in Slots : P[s].status = ZAP_BLOCK /\ vict[s] % MAXPROC # v =>
          U[s].zappedSiblingPtr = P[s].zappedSiblingPtr

\* ... and it is in the call zap by now.
EnteredZap(P, calls, vict, n, z) ==
    /\ calls[z] = "zap"
    /\ \A s \in Slots : calls[s] # "none" => AliveIn(P, s)
    /\ \A s \in Slots \ {z} : P[s].status = ZAP_BLOCK => calls[s] = "zap"
    /\ MaxPid < ShortLimit =>
         /\ vict[z] \in 1 .. n-1
         /\ \A s \in Slots \ {z} : calls[s] = "zap" =>
              vict[s] \in 1 .. n-1 /\ (P[s].status # ZAP_BLOCK => Gone(P, vict[s]))

\* The caller z blocks on the list of v.
LEMMA BlockedOnList ==
    ASSUME NEW P, NEW U, NEW vict \in [Slots -> Nat],
           NEW v \in Slots, NEW z \in Slots, vict[z] % MAXPROC = v,
           NEW w, NEW calls, NEW n,
           ZapListsOK(P, vict, NULL, w), BlockedFor(P, U, vict, v, z),
           EnteredZap(P, calls, vict, n, z), AliveIn(P, v),
           U[v].zap, ZapList(U, vict, v, U[v].zappedPtr)
    PROVE  ZapListsOK(U, vict, NULL, w) /\ CallsOK(U, calls, vict, n)
<1>1. AliveIn(P, z)
  BY DEF EnteredZap
<1>2. \A s \in Slots : AliveIn(U, s) <=> AliveIn(P, s)
  BY <1>1, StatusNumbers DEF AliveIn, BlockedFor
<1>3. \A x \in Slots \ {v} : ZapOf(U, vict, x) = ZapOf(P, vict, x)
  BY DEF ZapOf, BlockedFor
<1>4. ASSUME NEW x \in Slots \ {v}, NEW f, ZapList(P, vict, x, f) PROVE ZapList(U, vict, x, f)
  <2>1. \A s \in ZapOf(P, vict, x) : U[s].zappedSiblingPtr = P[s].zappedSiblingPtr
    BY DEF ZapOf, BlockedFor
  <2> QED
    BY <1>3, <1>4, <2>1, ZapListStays
<1>5. ZapListsOK(U, vict, NULL, w)
  <2>1. NULL \notin Slots
    BY KernelAssumption
  <2> QED
    BY <2>1, <1>2, <1>3, <1>4 DEF ZapListsOK, BlockedFor
<1>6. CallsOK(U, calls, vict, n)
  <2>1. \A s \in Slots : Gone(P, vict[s]) => Gone(U, vict[s])
    BY <1>2, ModInSlots DEF Gone, BlockedFor
  <2> QED
    BY <1>2, <2>1 DEF CallsOK, BlockedFor, EnteredZap
<1> QED
  BY <1>5, <1>6

\* The caller is the first on the list of its victim.
LEMMA FirstZap ==
    ASSUME ZapInv, ~StaleZappers, NEW pid \in Pids, Zap(pid), ZapLinked(pid)
    PROVE  ZapRest'
<1> DEFINE v == pid % MAXPROC
           P == ProcTable
           vict == victim'
           calls == inCall'
<1>1. /\ v \in Slots \ {Current} /\ AliveIn(P, v) /\ P[Current].zappedSiblingPtr = NULL
      /\ MaxPid < ShortLimit => pid \in 1 .. nextPid-1
      /\ inCall[Current] = "none" /\ Current \in Slots /\ NULL \notin Slots
      /\ nextPid' = nextPid /\ P \in [Slots -> ProcStruct]
  BY ZapGuard, ZapTypes DEF Calling
<1>2. /\ vict \in [Slots -> Nat] /\ vict[Current] = pid
      /\ ZapListsOK(P, vict, NULL, walker) /\ CallsOK(P, inCall, vict, nextPid)
  BY ZapGuard, VictimNamed
<1>3. AliveIn(P, Current) /\ P[Current].status # ZAP_BLOCK
  BY ZapGuard, CallerRuns DEF ZapInv, Calling
<1>4. /\ calls[Current] = "zap" /\ \A s \in Slots \ {Current} : calls[s] = inCall[s]
      /\ kpc' = "user" /\ P[v].zappedPtr = NULL
  BY <1>1, ZapTypes DEF ZapLinked
<1>5. PICK T, U : /\ ZappedFields(P, T, v, Current)
                  /\ StatusSetTo(T, U, Current, ZAP_BLOCK)
                  /\ Dispatched(U, ProcTable')
  BY DEF ZapLinked
<1>6. vict[Current] % MAXPROC = v
  BY <1>2 DEF v
<1> HIDE DEF v, P, vict, calls
<1>7. /\ U[v].zap /\ U[v].zappedPtr = Current
      /\ \A s \in Slots : U[s].pid = P[s].pid /\ U[s].zappedSiblingPtr = P[s].zappedSiblingPtr
      /\ \A s \in Slots \ {v} : U[s].zap = P[s].zap /\ U[s].zappedPtr = P[s].zappedPtr
      /\ U[Current].status = ZAP_BLOCK
      /\ \A s \in Slots \ {Current} : U[s].status = P[s].status
  BY <1>1, <1>5 DEF ZappedFields, OtherZappers, StatusSetTo, SameButStatus
<1>8. ZapOf(U, vict, v) = {Current}
  <2>1. ZapOf(P, vict, v) = {}
    <3>1. ZapList(P, vict, v, P[v].zappedPtr)
      BY <1>1, <1>2 DEF ZapListsOK
    <3> QED
      BY <1>4, <3>1, ZapListFirst
  <2> QED
    BY <1>1, <1>6, <1>7, <2>1 DEF ZapOf
<1>9. ZapList(U, vict, v, U[v].zappedPtr)
  <2>1. Links(U)[Current] = NULL
    BY <1>1, <1>7 DEF Links
  <2>2. IsList(Slots, NULL, <<Current>>, Current, Links(U)) /\ Members(<<Current>>) = {Current}
    BY <1>1, <2>1, ListOfOne
  <2> QED
    BY <1>7, <1>8, <2>2 DEF ZapList
<1>10. EnteredZap(P, calls, vict, nextPid, Current) /\ BlockedFor(P, U, vict, v, Current)
  BY <1>1, <1>2, <1>3, <1>4, <1>7 DEF CallsOK, EnteredZap, BlockedFor
<1>11. ZapListsOK(U, vict, NULL, walker) /\ CallsOK(U, calls, vict, nextPid)
  BY <1>1, <1>2, <1>6, <1>7, <1>9, <1>10, BlockedOnList
<1>12. ZapListsOK(U, victim', NULL, walker) /\ CallsOK(U, inCall', victim', nextPid')
  BY <1>1, <1>11 DEF vict, calls
<1> QED
  BY <1>2, <1>4, <1>5, <1>12, DispatchedRest DEF vict

\* The walker has come to the last of the list, and the caller is linked behind it.
LEMMA LinkZap == ASSUME ZapInv, ZapLink PROVE ZapRest'
<1> DEFINE v == victim[Current] % MAXPROC
           P == ProcTable
           calls == inCall'
<1>1. /\ kpc = "zapWalk" /\ outcome = "running" /\ P[walker].zappedSiblingPtr = NULL
      /\ UNCHANGED <<nextPid, victim>>
  BY DEF ZapLink
<1>2. /\ victim \in [Slots -> Nat] /\ Current \in Slots /\ NULL \notin Slots
      /\ ZapListsOK(P, victim, NULL, walker) /\ CallsOK(P, inCall, victim, nextPid)
      /\ P \in [Slots -> ProcStruct] /\ inCall \in [Slots -> {"none", "join", "zap", "blockMe"}]
      /\ Links(P) \in [Slots -> Slots \cup {NULL}]
  BY <1>1, ZapTypes DEF Links
<1>3. AliveIn(P, Current) /\ P[Current].status # ZAP_BLOCK
  BY <1>1, CallerRuns DEF ZapInv
<1>4. /\ v \in Slots /\ AliveIn(P, v) /\ v # Current /\ P[v].zap
      /\ walker \in ZapOf(P, victim, v) /\ P[Current].zappedSiblingPtr = NULL
      /\ MaxPid < ShortLimit => victim[Current] \in 1 .. nextPid-1
      /\ inCall[Current] = "none"
  BY <1>1, <1>2, ModInSlots DEF ZapInv, ZapRest, WalkOK
<1>5. /\ calls[Current] = "zap" /\ \A s \in Slots \ {Current} : calls[s] = inCall[s]
      /\ kpc' = "user"
  BY <1>2, ZapLinkEffect DEF ZapInv
<1>6. PICK T, U : /\ LinkedFields(P, T, walker, Current)
                  /\ StatusSetTo(T, U, Current, ZAP_BLOCK)
                  /\ Dispatched(U, ProcTable')
  BY ZapLinkEffect DEF ZapInv
<1>7. victim[Current] % MAXPROC = v
  OBVIOUS
<1> HIDE DEF v, P, calls
<1>8. walker \in Slots /\ P[walker].status = ZAP_BLOCK /\ victim[walker] % MAXPROC = v
  BY <1>4 DEF ZapOf
<1>9. /\ U[walker].zappedSiblingPtr = Current
      /\ \A s \in Slots \ {walker} : U[s].zappedSiblingPtr = P[s].zappedSiblingPtr
      /\ \A s \in Slots : /\ U[s].pid = P[s].pid
                          /\ U[s].zap = P[s].zap /\ U[s].zappedPtr = P[s].zappedPtr
      /\ U[Current].status = ZAP_BLOCK
      /\ \A s \in Slots \ {Current} : U[s].status = P[s].status
  BY <1>2, <1>6, <1>8 DEF LinkedFields, OtherZappers, StatusSetTo, SameButStatus
<1>10. ZapOf(U, victim, v) = ZapOf(P, victim, v) \cup {Current}
  BY <1>2, <1>7, <1>9 DEF ZapOf
<1>11. ZapList(U, victim, v, U[v].zappedPtr)
  <2>1. ZapList(P, victim, v, P[v].zappedPtr)
    BY <1>2, <1>4 DEF ZapListsOK
  <2> DEFINE old == Links(P)
             new == Links(U)
             first == P[v].zappedPtr
  <2>2. PICK q : IsList(Slots, NULL, q, first, old) /\ Members(q) = ZapOf(P, victim, v)
    BY <2>1 DEF ZapList
  <2>3. /\ walker \in Members(q) /\ old[walker] = NULL
        /\ Current \notin Members(q) /\ old[Current] = NULL
        /\ \A s \in Slots : new[s] = IF s = walker THEN Current ELSE old[s]
        /\ old \in [Slots -> Slots \cup {NULL}]
    <3>1. Current \notin Members(q)
      BY <1>3, <2>2 DEF ZapOf
    <3>2. \A s \in Slots : old[s] = P[s].zappedSiblingPtr /\ new[s] = U[s].zappedSiblingPtr
      BY DEF Links
    <3>3. P[walker].zappedSiblingPtr = NULL
      BY <1>1 DEF P
    <3> HIDE DEF old, new
    <3> QED
      BY <1>2, <1>4, <1>8, <1>9, <2>2, <3>1, <3>2, <3>3 DEF old
  <2> HIDE DEF old, new, first
  <2>4. /\ IsList(Slots, NULL, Append(q, Current), first, new)
        /\ Members(Append(q, Current)) = Members(q) \cup {Current}
    BY <1>2, <2>2, <2>3, ListAppend
  <2>5. first = U[v].zappedPtr
    BY <1>4, <1>9 DEF first
  <2> QED
    BY <1>10, <2>2, <2>4, <2>5 DEF ZapList, new
<1>12. EnteredZap(P, calls, victim, nextPid, Current)
  BY <1>2, <1>3, <1>4, <1>5 DEF CallsOK, EnteredZap
<1>13. BlockedFor(P, U, victim, v, Current)
  BY <1>3, <1>8, <1>9 DEF BlockedFor
<1>14. ZapListsOK(U, victim, NULL, walker) /\ CallsOK(U, calls, victim, nextPid)
  <2>1. U[v].zap
    BY <1>4, <1>9
  <2> QED
    BY <1>2, <1>4, <1>7, <1>11, <1>12, <1>13, <2>1, BlockedOnList
<1>15. /\ ZapListsOK(U, victim', NULL, walker) /\ CallsOK(U, inCall', victim', nextPid')
       /\ victim' \in [Slots -> Nat]
  BY <1>1, <1>2, <1>14 DEF calls
<1> QED
  BY <1>5, <1>6, <1>15, DispatchedRest

LEMMA WalkZap == ASSUME ZapInv, ZapWalk PROVE ZapRest'
<1> DEFINE v == victim[Current] % MAXPROC
           P == ProcTable
<1>1. /\ kpc = "zapWalk" /\ P[walker].zappedSiblingPtr # NULL
      /\ walker' = P[walker].zappedSiblingPtr
      /\ UNCHANGED <<ProcTable, Current, nextPid, inCall, victim, kpc>>
  BY DEF ZapWalk
<1>2. /\ ZapListsOK(P, victim, NULL, walker) /\ CallsOK(P, inCall, victim, nextPid)
      /\ v \in Slots /\ AliveIn(P, v) /\ walker \in ZapOf(P, victim, v)
  BY <1>1, ZapTypes, ModInSlots DEF ZapInv, ZapRest, WalkOK
<1> HIDE DEF v, P
<1>3. walker' \in ZapOf(P, victim, v)
  <2>1. PICK q : /\ IsList(Slots, NULL, q, P[v].zappedPtr, Links(P))
                 /\ Members(q) = ZapOf(P, victim, v)
    BY <1>2 DEF ZapListsOK, ZapList
  <2>2. Links(P)[walker] = P[walker].zappedSiblingPtr
    BY <1>2 DEF Links, ZapOf
  <2>3. Links(P)[walker] \in Members(q)
    <3> DEFINE links == Links(P)
               first == P[v].zappedPtr
    <3>1. IsList(Slots, NULL, q, first, links) /\ walker \in Members(q) /\ links[walker] # NULL
      BY <1>1, <1>2, <2>1, <2>2
    <3> HIDE DEF links, first
    <3>2. links[walker] \in Members(q)
      BY <3>1, ListNext
    <3> QED
      BY <3>2 DEF links
  <2> QED
    BY <1>1, <2>1, <2>2, <2>3
<1>4. WalkOK'
  BY <1>1, <1>3 DEF ZapInv, ZapRest, WalkOK, P, v
<1>5. ZapListsOK(P, victim, NULL, walker')
  BY <1>2, NobodyDies
<1> QED
  BY <1>1, <1>2, <1>4, <1>5 DEF ZapRest, Waking, P

LEMMA ForkKeepsZap == \A prio \in ForkPriorities : ZapInv /\ ForkCreate(prio) => ZapRest'
<1> SUFFICES ASSUME NEW prio \in ForkPriorities, ZapInv, ForkCreate(prio) PROVE ZapRest'
  OBVIOUS
<1>1. /\ victim \in [Slots -> Nat] /\ nextPid \in Nat
      /\ ZapListsOK(ProcTable, victim, NULL, walker)
      /\ CallsOK(ProcTable, inCall, victim, nextPid)
      /\ UNCHANGED <<inCall, victim, kpc, walker>> /\ kpc' = "user"
  BY ZapTypes DEF ForkCreate, Calling
<1>2. PICK T, s, p : ForkedFields(T, s, p) /\ Dispatched(T, ProcTable')
  BY ForkEffect DEF ZapInv
<1>3. nextPid' = p + 1
  BY <1>2 DEF ForkedFields
<1>4. ZapListsOK(T, victim, NULL, walker) /\ CallsOK(T, inCall, victim, p + 1)
  BY <1>1, <1>2, ForkZap
<1>5. ZapListsOK(T, victim', NULL, walker) /\ CallsOK(T, inCall', victim', nextPid')
  BY <1>1, <1>3, <1>4
<1> QED
  BY <1>1, <1>2, <1>5, DispatchedRest

\* The caller leaves the table T to the dispatcher, with the zapped lists as they were.
LEMMA SameThenDispatched ==
    ASSUME ZapInv, NEW T, SameZap(ProcTable, T), Dispatched(T, ProcTable'),
           kpc # "quitWake", kpc' = "user", UNCHANGED <<nextPid, victim>>,
           CallsOK(ProcTable, inCall', victim, nextPid)
    PROVE  ZapRest'
<1>1. victim \in [Slots -> Nat] /\ ZapListsOK(ProcTable, victim, NULL, walker)
  BY ZapTypes
<1>2. ZapListsOK(T, victim, NULL, walker) /\ CallsOK(T, inCall', victim, nextPid)
  BY <1>1, SameZapKeeps
<1>3. /\ ZapListsOK(T, victim', NULL, walker) /\ CallsOK(T, inCall', victim', nextPid')
      /\ victim' \in [Slots -> Nat]
  BY <1>1, <1>2
<1> QED
  BY <1>3, DispatchedRest

LEMMA CallerBlocksZap ==
    ASSUME ZapInv, Calling, NEW st, Blocked(st), st # ZAP_BLOCK, NEW c \in {"join", "blockMe"},
           NEW U, StatusSetTo(ProcTable, U, Current, st), Dispatched(U, ProcTable'),
           inCall' = [inCall EXCEPT ![Current] = c], UNCHANGED <<nextPid, victim, kpc>>
    PROVE  ZapRest'
<1>1. /\ kpc = "user" /\ Current \in Slots /\ AliveIn(ProcTable, Current)
      /\ ProcTable[Current].status # ZAP_BLOCK
      /\ CallsOK(ProcTable, inCall, victim, nextPid)
      /\ inCall \in [Slots -> {"none", "join", "zap", "blockMe"}]
  BY ZapTypes, CallerRuns DEF ZapInv, Calling
<1>2. SameZap(ProcTable, U)
  <2>1. st \notin {UNUSED, QUIT, ZAP_BLOCK}
    BY StatusNumbers DEF Blocked
  <2> QED
    BY <1>1, <2>1, StatusSetZap
<1>3. CallsOK(ProcTable, inCall', victim, nextPid)
  BY <1>1, CallSet
<1> QED
  BY <1>1, <1>2, <1>3, SameThenDispatched

LEMMA BlockKeepsZap ==
    /\ ZapInv /\ JoinBlock => ZapRest'
    /\ \A st \in BlockStatuses : ZapInv /\ BlockMe(st) => ZapRest'
<1>1. ASSUME ZapInv, JoinBlock PROVE ZapRest'
  <2>1. PICK U : StatusSetTo(ProcTable, U, Current, JOIN_BLOCK) /\ Dispatched(U, ProcTable')
    BY <1>1, JoinBlockEffect DEF ZapInv
  <2>2. Blocked(JOIN_BLOCK) /\ JOIN_BLOCK # ZAP_BLOCK
    BY StatusNumbers DEF Blocked
  <2>3. /\ Calling /\ inCall' = [inCall EXCEPT ![Current] = "join"]
        /\ UNCHANGED <<nextPid, victim, kpc>>
    BY <1>1 DEF JoinBlock
  <2> QED
    BY <1>1, <2>1, <2>2, <2>3, CallerBlocksZap
<1>2. ASSUME NEW st \in BlockStatuses, ZapInv, BlockMe(st) PROVE ZapRest'
  <2>1. CASE Halt("halted")
    BY <1>2, <2>1, HaltZap
  <2>2. CASE /\ st > 10
             /\ \E U : StatusSetTo(ProcTable, U, Current, st) /\ Dispatched(U, ProcTable')
    <3>1. PICK U : StatusSetTo(ProcTable, U, Current, st) /\ Dispatched(U, ProcTable')
      BY <2>2
    <3>2. Blocked(st) /\ st # ZAP_BLOCK /\ ~(st <= 10)
      BY <2>2, StatusNumbers, KernelAssumption DEF Blocked
    <3>3. /\ Calling /\ inCall' = [inCall EXCEPT ![Current] = "blockMe"]
          /\ UNCHANGED <<nextPid, victim, kpc>>
      BY <1>2, <3>2 DEF BlockMe
    <3> QED
      BY <1>2, <3>1, <3>2, <3>3, CallerBlocksZap
  <2> QED
    BY <1>2, <2>1, <2>2, BlockMeEffect DEF ZapInv
<1> QED
  BY <1>1, <1>2

\* A child is cleaned, inside join or after it.
LEMMA ReapKeepsZap ==
    ASSUME ZapInv, kpc = "user", outcome = "running", NEW c, ReapedFields(ProcTable', c),
           UNCHANGED <<Current, nextPid, victim, kpc, walker>>,
           CallsOK(ProcTable, inCall', victim, nextPid)
    PROVE  ZapRest'
<1>1. victim \in [Slots -> Nat] /\ ZapListsOK(ProcTable, victim, NULL, walker)
  BY ZapTypes
<1>2. SameZap(ProcTable, ProcTable')
  BY ReapZap
<1>3. /\ ZapListsOK(ProcTable', victim, NULL, walker)
      /\ CallsOK(ProcTable', inCall', victim, nextPid)
  BY <1>1, <1>2, SameZapKeeps
<1> QED
  BY <1>3 DEF ZapRest, Waking, WalkOK

\* The running process returns from the call it was switched out in.
LEMMA ReturnedCalls ==
    ASSUME ZapInv, kpc = "user", outcome = "running"
    PROVE  CallsOK(ProcTable, [inCall EXCEPT ![Current] = "none"], victim, nextPid)
<1>1. /\ Current \in Slots /\ AliveIn(ProcTable, Current)
      /\ ProcTable[Current].status # ZAP_BLOCK
      /\ CallsOK(ProcTable, inCall, victim, nextPid)
      /\ inCall \in [Slots -> {"none", "join", "zap", "blockMe"}]
  BY ZapTypes, CallerRuns DEF ZapInv
<1> QED
  BY <1>1, CallSet

LEMMA JoinKeepsZap == ZapInv /\ (JoinQuitChild \/ JoinResume) => ZapRest'
<1>1. ASSUME ZapInv, JoinQuitChild PROVE ZapRest'
  <2>1. CASE Halt("null_pointer")
    BY <1>1, <2>1, HaltZap
  <2>2. CASE /\ \E c : ReapedFields(ProcTable', c)
             /\ UNCHANGED <<ReadyList, Current, nextPid, now, inCall, victim,
                            kpc, walker, outcome>>
    <3>1. kpc = "user" /\ outcome = "running" /\ CallsOK(ProcTable, inCall', victim, nextPid)
      BY <1>1, <2>2, ZapTypes DEF JoinQuitChild, Calling
    <3> QED
      BY <1>1, <2>2, <3>1, ReapKeepsZap
  <2> QED
    BY <1>1, <2>1, <2>2, JoinQuitChildEffect DEF ZapInv
<1>2. ASSUME ZapInv, JoinResume PROVE ZapRest'
  <2>1. CASE Halt("null_pointer") \/ Halt("corrupt")
    BY <1>2, <2>1, HaltZap
  <2>2. CASE /\ \E c : ReapedFields(ProcTable', c)
             /\ inCall' = [inCall EXCEPT ![Current] = "none"]
             /\ UNCHANGED <<ReadyList, Current, nextPid, now, victim, kpc, walker, outcome>>
    <3>1. kpc = "user" /\ outcome = "running"
      BY <1>2 DEF JoinResume
    <3>2. CallsOK(ProcTable, inCall', victim, nextPid)
      BY <1>2, <2>2, <3>1, ReturnedCalls
    <3> QED
      BY <1>2, <2>2, <3>1, <3>2, ReapKeepsZap
  <2> QED
    BY <1>2, <2>1, <2>2, JoinResumeEffect DEF ZapInv
<1> QED
  BY <1>1, <1>2

LEMMA QuitKeepsZap == ZapInv /\ (Quit \/ QuitWake \/ QuitParent) => ZapRest'
<1>1. ASSUME ZapInv, Quit PROVE ZapRest'
  <2>1. Calling
    BY <1>1 DEF Quit
  <2> QED
    BY <1>1, <2>1, QuitEffect, HaltZap, DieZap DEF ZapInv
<1>2. ASSUME ZapInv, QuitWake PROVE ZapRest'
  <2>1. kpc = "quitWake" /\ walker \in Slots
    BY <1>2 DEF QuitWake, ZapInv, FamilyInv, KernelInv, CounterOK
  <2> QED
    BY <1>2, <2>1, QuitWakeEffect, HaltZap, WakeZap DEF ZapInv
<1>3. ASSUME ZapInv, QuitParent PROVE ZapRest'
  <2>1. PICK T : /\ \/ ProcTable[Current].parentPtr = NULL /\ T = ProcTable
                    \/ ToldFields(T, ProcTable[Current].parentPtr)
                 /\ Dispatched(T, ProcTable')
    BY <1>3, QuitParentEffect DEF ZapInv
  <2>2. SameZap(ProcTable, T)
    BY <2>1, ToldZap DEF SameZap
  <2>3. kpc = "quitParent" /\ kpc' = "user" /\ UNCHANGED <<nextPid, victim, inCall>>
    BY <1>3 DEF QuitParent
  <2> QED
    BY <1>3, <2>1, <2>2, <2>3, ZapTypes, SameThenDispatched
<1> QED
  BY <1>1, <1>2, <1>3

LEMMA UnblockKeepsZap == \A pid \in Pids : ZapInv /\ UnblockProc(pid) => ZapRest'
<1> SUFFICES ASSUME NEW pid \in Pids, ZapInv, UnblockProc(pid) PROVE ZapRest'
  OBVIOUS
<1>1. PICK s, U : /\ s \in Slots /\ ProcTable[s].status > 10
                  /\ StatusSetTo(ProcTable, U, s, READY)
                  /\ Dispatched(U, ProcTable')
  BY UnblockEffect DEF ZapInv
<1>2. SameZap(ProcTable, U)
  <2>1. ProcTable[s].status \notin {UNUSED, QUIT, ZAP_BLOCK}
    BY <1>1, StatusNumbers
  <2>2. READY \notin {UNUSED, QUIT, ZAP_BLOCK}
    BY StatusNumbers
  <2> QED
    BY <1>1, <2>1, <2>2, StatusSetZap DEF AliveIn
<1>3. kpc = "user" /\ kpc' = "user" /\ UNCHANGED <<nextPid, victim, inCall>>
  BY DEF UnblockProc, Calling
<1> QED
  BY <1>1, <1>2, <1>3, ZapTypes, SameThenDispatched

LEMMA ZapKeepsZap ==
    ASSUME ~StaleZappers
    PROVE  \A pid \in Pids : ZapInv /\ (Zap(pid) \/ ZapInvalid(pid)) => ZapRest'
BY ZapEffect, FirstZap, StartZap, HaltZap DEF ZapInv, ZapInvalid

LEMMA OthersKeepZap ==
    ZapInv /\ (ForkTableFull \/ ForkRejected \/ CallReturns \/ CheckDeadlock \/ UNCHANGED vars)
        => ZapRest'
<1>1. ASSUME ZapInv, ForkTableFull \/ ForkRejected PROVE ZapRest'
  <2>1. /\ kpc = "user" /\ nextPid' \in Nat /\ nextPid \in Nat /\ nextPid <= nextPid'
        /\ UNCHANGED <<ProcTable, Current, inCall, victim, kpc, walker>>
    BY <1>1, ZapTypes, ConstantFacts DEF ForkTableFull, ForkRejected, Calling, Slots
  <2>2. CallsOK(ProcTable, inCall, victim, nextPid')
    BY <1>1, <2>1, ZapTypes, CallsGrow
  <2> QED
    BY <1>1, <2>1, <2>2 DEF ZapInv, ZapRest, Waking, WalkOK
<1>2. ASSUME ZapInv, CallReturns PROVE ZapRest'
  <2>1. /\ kpc = "user" /\ outcome = "running"
        /\ inCall' = [inCall EXCEPT ![Current] = "none"]
        /\ UNCHANGED <<ProcTable, Current, nextPid, victim, kpc, walker>>
    BY <1>2 DEF CallReturns
  <2>2. CallsOK(ProcTable, inCall', victim, nextPid)
    BY <1>2, <2>1, ReturnedCalls
  <2> QED
    BY <1>2, <2>1, <2>2 DEF ZapInv, ZapRest, Waking, WalkOK
<1>3. ASSUME ZapInv, CheckDeadlock PROVE ZapRest'
  BY <1>3, HaltZap DEF CheckDeadlock
<1>4. ASSUME ZapInv, UNCHANGED vars PROVE ZapRest'
  BY <1>4, IdleZap DEF vars, ZapInv
<1> QED
  BY <1>1, <1>2, <1>3, <1>4

LEMMA ZapStepInv == ASSUME ~StaleZappers PROVE ZapInv /\ [Next]_vars => ZapInv'
<1>1. ZapInv /\ [Next]_vars => FamilyInv'
  BY FamilyStep DEF ZapInv
<1>2. ZapInv /\ [Next]_vars => ZapRest'
  BY ForkKeepsZap, BlockKeepsZap, JoinKeepsZap, QuitKeepsZap, UnblockKeepsZap,
     ZapKeepsZap, OthersKeepZap, WalkZap, LinkZap
     DEF Next
<1> QED
  BY <1>1, <1>2 DEF ZapInv

LEMMA InitZap == Init => ZapInv
<1> SUFFICES ASSUME Init PROVE ZapInv
  OBVIOUS
<1>1. /\ \A s \in Slots : ProcTable[s].status # ZAP_BLOCK
      /\ \A s \in {SENTINELPID, SENTINELPID + 1} :
            ProcTable[s].zap = FALSE /\ ProcTable[s].zappedPtr = NULL
      /\ \A s \in Slots : AliveIn(ProcTable, s) => s \in {SENTINELPID, SENTINELPID + 1}
  BY InitEntries, StatusNumbers DEF AliveIn
<1>2. /\ kpc = "user" /\ Waking = NULL /\ NULL \notin Slots
      /\ \A s \in Slots : inCall[s] = "none"
  BY KernelAssumption DEF Init, Waking
<1>3. \A v : ZapOf(ProcTable, victim, v) = {}
  BY <1>1 DEF ZapOf
<1>4. ZapListsOK(ProcTable, victim, NULL, walker)
  BY <1>1, <1>2, <1>3, EmptyZapList DEF ZapListsOK
<1>5. CallsOK(ProcTable, inCall, victim, nextPid)
  BY <1>1, <1>2 DEF CallsOK
<1> QED
  BY <1>2, <1>4, <1>5, InitFamily DEF ZapInv, ZapRest, WalkOK

LEMMA ZapInvariance == ASSUME ~StaleZappers PROVE Spec => []ZapInv
<1>1. Init => ZapInv
  BY InitZap
<1>2. ZapInv /\ [Next]_vars => ZapInv'
  BY ZapStepInv
<1> QED
  BY <1>1, <1>2, PTL DEF Spec

LEMMA InvZapWaitsForQuit == ASSUME MaxPid < ShortLimit, ZapInv PROVE ZapWaitsForQuit
<1>1. /\ victim \in [Slots -> Nat] /\ Current \in Slots /\ NULL \notin Slots
      /\ ZapListsOK(ProcTable, victim, Waking, walker)
      /\ CallsOK(ProcTable, inCall, victim, nextPid)
  BY ZapTypes DEF ZapInv, ZapRest
<1>2. ASSUME NEW s \in Slots, inCall[s] = "zap", ProcTable[s].status # ZAP_BLOCK
      PROVE  HasQuit(victim[s])
  BY <1>1, <1>2 DEF CallsOK, Gone, HasQuit, Alive, AliveIn
<1>3. ASSUME NEW s \in Slots, ProcTable[s].status = ZAP_BLOCK
      PROVE  LET v == victim[s] % MAXPROC
             IN  \/ Alive(v) /\ ProcTable[v].zap /\ s \in Zappers(v)
                 \/ Dying(v) /\ kpc = "quitWake"
  <2> DEFINE v == victim[s] % MAXPROC
  <2>1. v \in Slots /\ s \in ZapOf(ProcTable, victim, v)
    BY <1>1, <1>3, ModInSlots DEF ZapOf
  <2> HIDE DEF v
  <2>2. CASE AliveIn(ProcTable, v)
    <3>1. /\ ZapList(ProcTable, victim, v, ProcTable[v].zappedPtr)
          /\ ProcTable[v].zappedPtr # NULL => ProcTable[v].zap
      BY <1>1, <2>1, <2>2 DEF ZapListsOK
    <3>2. ProcTable[v].zap
      BY <2>1, <3>1, ZapListFirst
    <3>3. PICK q : /\ IsList(Slots, NULL, q, ProcTable[v].zappedPtr, Links(ProcTable))
                   /\ Members(q) = ZapOf(ProcTable, victim, v)
      BY <3>1 DEF ZapList
    <3>4. Zappers(v) = Members(q)
      BY <2>1, <3>3, FollowedZappers
    <3> QED
      BY <2>1, <2>2, <3>2, <3>3, <3>4 DEF Alive, AliveIn, v
  <2>3. CASE ~AliveIn(ProcTable, v)
    <3>1. v = Waking
      BY <1>1, <2>1, <2>3 DEF ZapListsOK
    <3> QED
      BY <1>1, <2>1, <3>1 DEF Waking, Dying, v
  <2> QED
    BY <2>2, <2>3
<1> QED
  BY <1>2, <1>3 DEF ZapWaitsForQuit

\* zap waits until its victim has quit, and no longer: its caller is on the zapped
\* list of that process, or the process is walking the list in quit, or it is gone.
\* Pids must fit in the short that holds them (src/phase1/kernel.h:20), and no process
\* may call zap while its zappedSiblingPtr is still set.
THEOREM ZapWaits ==
    ASSUME ~StaleZappers, MaxPid < ShortLimit PROVE Spec => []ZapWaitsForQuit
<1>1. Spec => []ZapInv
  BY ZapInvariance
<1>2. ZapInv => ZapWaitsForQuit
  BY InvZapWaitsForQuit
<1> QED
  BY <1>1, <1>2, PTL

-----------------------------------------------------------------------------
(***************************************************************************)
(* join.                                                                   *)
(***************************************************************************)
\* A process blocked in join waits for a child that counts as active; one that has
\* been woken there finds a dead child of its own in childQuitPtr.
JoinOK(T, d, calls) ==
    \A s \in Slots :
        /\ T[s].status = JOIN_BLOCK => calls[s] = "join" /\ Counted(T, d, s) # {}
        /\ calls[s] = "join" =>
             \/ T[s].status = JOIN_BLOCK
             \/ /\ T[s].status \in {READY, RUNNING}
                /\ T[s].childQuitPtr \in Members(T[s].childProcs)
                /\ T[T[s].childQuitPtr].status = QUIT

\* Whoever is dead died before the time n: join, comparing strictly, sees it.
ExitOK(T, n) == \A s \in Slots : T[s].status = QUIT => T[s].exitTimeSlice < n

JoinRest == JoinOK(ProcTable, Quitter, inCall) /\ ExitOK(ProcTable, now)

JoinInv == ZapInv /\ JoinRest

\* What leaves join alone.
SameJoin(T, U) ==
    \A s \in Slots :
        /\ AliveIn(U, s) <=> AliveIn(T, s)
        /\ U[s].status = QUIT <=> T[s].status = QUIT
        /\ U[s].status = JOIN_BLOCK <=> T[s].status = JOIN_BLOCK
        /\ T[s].status \in {READY, RUNNING} => U[s].status \in {READY, RUNNING}
        /\ U[s].childProcs = T[s].childProcs /\ U[s].childQuitPtr = T[s].childQuitPtr
        /\ U[s].exitTimeSlice = T[s].exitTimeSlice

LEMMA SameJoinKeeps ==
    ASSUME NEW T, NEW U, NEW d, NEW calls, NEW n,
           T \in [Slots -> ProcStruct] \/ U \in [Slots -> ProcStruct],
           SameJoin(T, U), JoinOK(T, d, calls), ExitOK(T, n)
    PROVE  JoinOK(U, d, calls) /\ ExitOK(U, n)
<1>1. ExitOK(U, n)
  BY DEF ExitOK, SameJoin
<1>2. ASSUME NEW s \in Slots
      PROVE  /\ U[s].status = JOIN_BLOCK => calls[s] = "join" /\ Counted(U, d, s) # {}
             /\ calls[s] = "join" =>
                  \/ U[s].status = JOIN_BLOCK
                  \/ /\ U[s].status \in {READY, RUNNING}
                     /\ U[s].childQuitPtr \in Members(U[s].childProcs)
                     /\ U[U[s].childQuitPtr].status = QUIT
  <2>1. Members(T[s].childProcs) \subseteq Slots
    BY KidsAreSlots DEF SameJoin
  <2>2. Counted(U, d, s) = Counted(T, d, s)
    BY <2>1 DEF Counted, SameJoin
  <2> QED
    BY <2>1, <2>2 DEF JoinOK, SameJoin
<1>3. JoinOK(U, d, calls)
  BY <1>2 DEF JoinOK
<1> QED
  BY <1>1, <1>3

LEMMA DispatchedJoin == ASSUME NEW T, NEW U, Dispatched(T, U) PROVE SameJoin(T, U)
BY StatusNumbers DEF Dispatched, SameButStatus, SameJoin, AliveIn

LEMMA OtherZappersJoin == ASSUME NEW T, NEW U, OtherZappers(T, U) PROVE SameJoin(T, U)
BY DEF OtherZappers, SameJoin, AliveIn

\* A process that is not in join blocks, or is woken.
LEMMA StatusSetJoin ==
    ASSUME NEW T \in [Slots -> ProcStruct], NEW U, NEW s \in Slots, NEW st,
           StatusSetTo(T, U, s, st),
           AliveIn(T, s), st \notin {UNUSED, QUIT, JOIN_BLOCK}, NEW calls, NEW new,
           new[s] # "join", \A r \in Slots \ {s} : new[r] = calls[r],
           NEW d, NEW n, JoinOK(T, d, calls), ExitOK(T, n)
    PROVE  JoinOK(U, d, new) /\ ExitOK(U, n)
<1>1. \A r \in Slots : /\ AliveIn(U, r) <=> AliveIn(T, r)
                       /\ U[r].status = QUIT <=> T[r].status = QUIT
  BY DEF StatusSetTo, AliveIn
<1>2. \A r \in Slots : /\ U[r].childProcs = T[r].childProcs
                       /\ U[r].childQuitPtr = T[r].childQuitPtr
                       /\ U[r].exitTimeSlice = T[r].exitTimeSlice
  BY DEF StatusSetTo, SameButStatus
<1>3. ExitOK(U, n)
  BY <1>1, <1>2 DEF ExitOK
<1>4. ASSUME NEW r \in Slots
      PROVE  /\ U[r].status = JOIN_BLOCK => new[r] = "join" /\ Counted(U, d, r) # {}
             /\ new[r] = "join" =>
                  \/ U[r].status = JOIN_BLOCK
                  \/ /\ U[r].status \in {READY, RUNNING}
                     /\ U[r].childQuitPtr \in Members(U[r].childProcs)
                     /\ U[U[r].childQuitPtr].status = QUIT
  <2>1. CASE r = s
    BY <2>1 DEF StatusSetTo
  <2>2. CASE r # s
    <3>1. Members(T[r].childProcs) \subseteq Slots
      BY KidsAreSlots
    <3>2. Counted(U, d, r) = Counted(T, d, r)
      BY <1>1, <1>2, <3>1 DEF Counted
    <3>3. U[r].status = T[r].status /\ new[r] = calls[r]
      BY <2>2 DEF StatusSetTo
    <3> QED
      BY <1>1, <1>2, <3>1, <3>2, <3>3 DEF JoinOK
  <2> QED
    BY <2>1, <2>2
<1>5. JoinOK(U, d, new)
  BY <1>4 DEF JoinOK
<1> QED
  BY <1>3, <1>5

LEMMA JoinTypes ==
    ASSUME JoinInv
    PROVE  /\ ProcTable \in [Slots -> ProcStruct] /\ now \in Nat /\ Current \in Slots
           /\ inCall \in [Slots -> {"none", "join", "zap", "blockMe"}]
           /\ NULL \notin Slots /\ ExitOK(ProcTable, now) /\ JoinOK(ProcTable, Quitter, inCall)
           /\ kpc \notin {"quitWake", "quitParent"} => JoinOK(ProcTable, NULL, inCall)
BY KernelAssumption DEF JoinInv, JoinRest, Quitter, ZapInv, FamilyInv, KernelInv, TypeOK

\* An action that ends in dispatcher.
LEMMA DispatchedJoinRest ==
    ASSUME NEW T, Dispatched(T, ProcTable'), kpc' = "user",
           JoinOK(T, NULL, inCall'), ExitOK(T, now')
    PROVE  JoinRest'
<1>1. SameJoin(T, ProcTable') /\ ProcTable' \in [Slots -> ProcStruct]
  BY DispatchedJoin DEF Dispatched, SameButStatus
<1>2. JoinOK(ProcTable', NULL, inCall') /\ ExitOK(ProcTable', now')
  BY <1>1, SameJoinKeeps
<1> QED
  BY <1>2 DEF JoinRest, Quitter

LEMMA IdleJoin ==
    ASSUME JoinRest, UNCHANGED <<ProcTable, Current, now, inCall, kpc>> PROVE JoinRest'
BY DEF JoinRest, Quitter

LEMMA HaltJoin == ASSUME JoinInv, NEW how, Halt(how) PROVE JoinRest'
BY IdleJoin DEF JoinInv, Halt

LEMMA ForkJoin ==
    ASSUME JoinInv, NEW T, NEW s, NEW p, ForkedFields(T, s, p), JoinOK(ProcTable, NULL, inCall)
    PROVE  JoinOK(T, NULL, inCall) /\ ExitOK(T, now)
<1> DEFINE P == ProcTable
<1>1. /\ s \in Slots /\ P[s].status = UNUSED /\ T[s].status = READY
      /\ \A r \in Slots \ {s} :
            /\ T[r].status = P[r].status /\ T[r].childQuitPtr = P[r].childQuitPtr
            /\ T[r].exitTimeSlice = P[r].exitTimeSlice
            /\ Members(P[r].childProcs) \subseteq Members(T[r].childProcs)
  BY DEF ForkedFields
<1>2. /\ JoinOK(P, NULL, inCall) /\ ExitOK(P, now) /\ P \in [Slots -> ProcStruct]
      /\ inCall[s] # "join"
  BY <1>1, JoinTypes, ZapTypes DEF JoinInv, CallsOK, AliveIn
<1> HIDE DEF P
<1>3. \A r \in Slots : AliveIn(P, r) => AliveIn(T, r)
  BY <1>1, StatusNumbers DEF AliveIn
<1>4. ExitOK(T, now)
  BY <1>1, <1>2, StatusNumbers DEF ExitOK
<1>5. ASSUME NEW r \in Slots
      PROVE  /\ T[r].status = JOIN_BLOCK => inCall[r] = "join" /\ Counted(T, NULL, r) # {}
             /\ inCall[r] = "join" =>
                  \/ T[r].status = JOIN_BLOCK
                  \/ /\ T[r].status \in {READY, RUNNING}
                     /\ T[r].childQuitPtr \in Members(T[r].childProcs)
                     /\ T[T[r].childQuitPtr].status = QUIT
  <2>1. CASE r = s
    BY <1>1, <1>2, <2>1, StatusNumbers
  <2>2. CASE r # s
    <3>1. Members(P[r].childProcs) \subseteq Slots
      BY <1>2, KidsAreSlots
    <3>2. Counted(P, NULL, r) \subseteq Counted(T, NULL, r)
      BY <1>1, <1>3, <2>2, <3>1 DEF Counted
    <3>3. \A c \in Slots : P[c].status = QUIT => T[c].status = QUIT
      BY <1>1, StatusNumbers
    <3> QED
      BY <1>1, <1>2, <2>2, <3>1, <3>2, <3>3 DEF JoinOK
  <2> QED
    BY <2>1, <2>2
<1> QED
  BY <1>4, <1>5 DEF JoinOK

\* The parent of a cleaned child is past its wait.
LEMMA ReapJoin ==
    ASSUME JoinInv, NEW U, NEW c, ReapedFields(U, c), JoinOK(ProcTable, NULL, inCall),
           NEW calls, calls[Current] # "join", \A r \in Slots \ {Current} : calls[r] = inCall[r],
           ProcTable[Current].status # JOIN_BLOCK
    PROVE  JoinOK(U, NULL, calls) /\ ExitOK(U, now)
<1> DEFINE P == ProcTable
<1>1. /\ Current \in Slots /\ c \in Slots \ {Current} /\ P[c].status = QUIT
      /\ P[c].parentPtr = Current /\ U[c].status = UNUSED
      /\ \A r \in Slots \ {c} :
            /\ U[r].status = P[r].status /\ U[r].childQuitPtr = P[r].childQuitPtr
            /\ U[r].exitTimeSlice = P[r].exitTimeSlice
            /\ r # Current => U[r].childProcs = P[r].childProcs
  BY DEF ReapedFields
<1>2. /\ JoinOK(P, NULL, inCall) /\ ExitOK(P, now) /\ P \in [Slots -> ProcStruct]
      /\ inCall[c] # "join" /\ P[Current].status # JOIN_BLOCK
  BY <1>1, JoinTypes, ZapTypes DEF JoinInv, CallsOK, AliveIn
<1>3. \A r \in Slots : \A k \in Members(P[r].childProcs) : P[k].parentPtr = r
  BY DEF JoinInv, ZapInv, FamilyInv, KernelInv, StaticOK, KidsOK
<1> HIDE DEF P
<1>4. ExitOK(U, now)
  BY <1>1, <1>2, StatusNumbers DEF ExitOK
<1>5. ASSUME NEW r \in Slots
      PROVE  /\ U[r].status = JOIN_BLOCK => calls[r] = "join" /\ Counted(U, NULL, r) # {}
             /\ calls[r] = "join" =>
                  \/ U[r].status = JOIN_BLOCK
                  \/ /\ U[r].status \in {READY, RUNNING}
                     /\ U[r].childQuitPtr \in Members(U[r].childProcs)
                     /\ U[U[r].childQuitPtr].status = QUIT
  <2>1. CASE r = c \/ r = Current
    BY <1>1, <1>2, <2>1, StatusNumbers
  <2>2. CASE r # c /\ r # Current
    <3>1. Members(P[r].childProcs) \subseteq Slots \ {c}
      BY <1>1, <1>2, <1>3, <2>2, KidsAreSlots
    <3>2. Counted(U, NULL, r) = Counted(P, NULL, r)
      BY <1>1, <2>2, <3>1 DEF Counted, AliveIn
    <3> QED
      BY <1>1, <1>2, <2>2, <3>1, <3>2 DEF JoinOK
  <2> QED
    BY <2>1, <2>2
<1> QED
  BY <1>4, <1>5 DEF JoinOK

\* Who dies is still counted by its parent, and the clock moves on.
LEMMA DieJoin ==
    ASSUME JoinInv, Calling, 0 \notin TickSteps, DiedFields(ProcTable'),
           \E d \in TickSteps : now' = now + d,
           kpc' \in {"quitWake", "quitParent"}, UNCHANGED <<Current, inCall>>
    PROVE  JoinRest'
<1> DEFINE P == ProcTable
           U == ProcTable'
<1>1. /\ Current \in Slots /\ U[Current].status = QUIT /\ U[Current].exitTimeSlice = now
      /\ \A r \in Slots \ {Current} : U[r] = P[r]
      /\ \A r \in Slots : U[r].childProcs = P[r].childProcs
  BY DEF DiedFields
<1>2. /\ JoinOK(P, NULL, inCall) /\ ExitOK(P, now) /\ P \in [Slots -> ProcStruct]
      /\ inCall[Current] = "none" /\ P[Current].status # QUIT
  <2>1. kpc = "user" /\ inCall[Current] = "none" /\ outcome = "running"
    BY DEF Calling
  <2>2. AliveIn(P, Current)
    BY <2>1, CallerRuns DEF JoinInv, ZapInv
  <2> QED
    BY <2>1, <2>2, JoinTypes DEF AliveIn
<1>3. now \in Nat /\ now' \in Nat /\ now < now'
  <2>1. PICK d \in TickSteps : now' = now + d
    OBVIOUS
  <2>2. d \in Nat /\ d # 0
    BY KernelAssumption
  <2> QED
    BY <2>1, <2>2, JoinTypes
<1>4. Quitter' = Current
  BY DEF Quitter
<1> HIDE DEF P, U
<1>5. ExitOK(U, now')
  <2>1. \A r \in Slots : P[r].exitTimeSlice \in Int
    BY <1>2 DEF ProcStruct
  <2> QED
    BY <1>1, <1>2, <1>3, <2>1 DEF ExitOK
<1>6. ASSUME NEW r \in Slots
      PROVE  /\ U[r].status = JOIN_BLOCK => inCall[r] = "join" /\ Counted(U, Current, r) # {}
             /\ inCall[r] = "join" =>
                  \/ U[r].status = JOIN_BLOCK
                  \/ /\ U[r].status \in {READY, RUNNING}
                     /\ U[r].childQuitPtr \in Members(U[r].childProcs)
                     /\ U[U[r].childQuitPtr].status = QUIT
  <2>1. CASE r = Current
    BY <1>1, <1>2, <2>1, StatusNumbers
  <2>2. CASE r # Current
    <3>1. Members(P[r].childProcs) \subseteq Slots
      BY <1>2, KidsAreSlots
    <3>2. Counted(P, NULL, r) \subseteq Counted(U, Current, r)
      <4>1. NULL \notin Slots
        BY KernelAssumption
      <4> QED
        BY <4>1, <1>1, <3>1 DEF Counted, AliveIn
    <3>3. U[r] = P[r] /\ \A k \in Slots : P[k].status = QUIT => U[k].status = QUIT
      BY <1>1, <2>2
    <3> QED
      BY <1>1, <1>2, <3>1, <3>2, <3>3 DEF JoinOK
  <2> QED
    BY <2>1, <2>2
<1>7. JoinOK(U, Current, inCall)
  BY <1>6 DEF JoinOK
<1>8. JoinOK(U, Quitter', inCall')
  BY <1>4, <1>7
<1> QED
  BY <1>5, <1>8 DEF JoinRest, U

\* The parent is told: if it is blocked in join it finds the caller among its children.
LEMMA ToldJoin ==
    ASSUME JoinInv, kpc = "quitParent", NEW T,
           \/ ProcTable[Current].parentPtr = NULL /\ T = ProcTable
           \/ ToldFields(T, ProcTable[Current].parentPtr)
    PROVE  T \in [Slots -> ProcStruct] /\ JoinOK(T, NULL, inCall) /\ ExitOK(T, now)
<1> DEFINE P == ProcTable
           p == P[Current].parentPtr
<1>1. /\ JoinOK(P, Current, inCall) /\ ExitOK(P, now) /\ P \in [Slots -> ProcStruct]
      /\ NULL \notin Slots /\ Current \in Slots /\ P[Current].status = QUIT
  <2>1. Quitter = Current
    BY DEF Quitter
  <2>2. P[Current].status = QUIT
    BY DEF JoinInv, ZapInv, FamilyInv, KernelInv, CounterOK
  <2> QED
    BY <2>1, <2>2, JoinTypes
<1>2. \A r \in Slots : \A k \in Members(P[r].childProcs) : P[k].parentPtr = r
  BY DEF JoinInv, ZapInv, FamilyInv, KernelInv, StaticOK, KidsOK
<1>3. p # NULL => Current \in Members(P[p].childProcs)
  <2>1. FamilyOK(P, Current)
    BY DEF JoinInv, ZapInv, FamilyInv, FamilyRest, Quitter
  <2>2. Current \notin {SENTINELPID, SENTINELPID + 1} => Current \in Members(P[p].childProcs)
    BY <1>1, <2>1 DEF FamilyOK
  <2>3. Current \in {SENTINELPID, SENTINELPID + 1} => p = NULL
    BY <2>1 DEF FamilyOK
  <2> QED
    BY <2>2, <2>3
<1>4. \/ T = P /\ p = NULL
      \/ ToldFields(T, p) /\ p \in Slots
  BY DEF ToldFields
<1>5. /\ T \in [Slots -> ProcStruct]
      /\ \A r \in Slots \ {p} : T[r].status = P[r].status /\ T[r].childQuitPtr = P[r].childQuitPtr
      /\ p # NULL => IF P[p].status = JOIN_BLOCK
                     THEN T[p].status = READY /\ T[p].childQuitPtr = Current
                     ELSE T[p].status = P[p].status /\ T[p].childQuitPtr = P[p].childQuitPtr
      /\ \A r \in Slots : /\ T[r].childProcs = P[r].childProcs
                          /\ T[r].exitTimeSlice = P[r].exitTimeSlice
  BY <1>1, <1>4 DEF ToldFields
<1> HIDE DEF P, p
<1>6. \A r \in Slots : /\ AliveIn(T, r) <=> AliveIn(P, r)
                       /\ T[r].status = QUIT <=> P[r].status = QUIT
  BY <1>1, <1>4, <1>5, StatusNumbers DEF AliveIn
<1>7. ExitOK(T, now)
  BY <1>1, <1>5, <1>6 DEF ExitOK
<1>8. ASSUME NEW r \in Slots
      PROVE  /\ T[r].status = JOIN_BLOCK => inCall[r] = "join" /\ Counted(T, NULL, r) # {}
             /\ inCall[r] = "join" =>
                  \/ T[r].status = JOIN_BLOCK
                  \/ /\ T[r].status \in {READY, RUNNING}
                     /\ T[r].childQuitPtr \in Members(T[r].childProcs)
                     /\ T[T[r].childQuitPtr].status = QUIT
  <2>1. Members(P[r].childProcs) \subseteq Slots
    BY <1>1, KidsAreSlots
  <2>2. CASE r # p
    <3>1. Current \notin Members(P[r].childProcs)
      BY <1>2, <2>2 DEF p
    <3>2. Counted(T, NULL, r) = Counted(P, Current, r)
      BY <1>1, <1>5, <1>6, <2>1, <3>1 DEF Counted
    <3> QED
      BY <1>1, <1>5, <1>6, <2>1, <2>2, <3>2 DEF JoinOK
  <2>3. CASE r = p
    <3>1. p # NULL
      BY <1>1, <2>3
    <3>2. CASE P[p].status = JOIN_BLOCK
      BY <1>1, <1>3, <1>5, <1>6, <2>3, <3>1, <3>2, StatusNumbers
    <3>3. CASE P[p].status # JOIN_BLOCK
      BY <1>1, <1>5, <1>6, <2>1, <2>3, <3>1, <3>3 DEF JoinOK
    <3> QED
      BY <3>2, <3>3
  <2> QED
    BY <2>2, <2>3
<1> QED
  BY <1>5, <1>7, <1>8 DEF JoinOK

\* A process that is not in join, and its new call is not join either, changes its
\* status to st and the dispatcher is called.
LEMMA BlockedThenDispatched ==
    ASSUME JoinInv, NEW T \in [Slots -> ProcStruct], SameJoin(ProcTable, T),
           NEW U, NEW s \in Slots, NEW st, StatusSetTo(T, U, s, st), AliveIn(T, s),
           st \notin {UNUSED, QUIT, JOIN_BLOCK}, Dispatched(U, ProcTable'),
           inCall'[s] # "join", \A r \in Slots \ {s} : inCall'[r] = inCall[r],
           kpc \notin {"quitWake", "quitParent"}, kpc' = "user", now' = now
    PROVE  JoinRest'
<1>1. /\ JoinOK(ProcTable, NULL, inCall) /\ ExitOK(ProcTable, now)
      /\ ProcTable \in [Slots -> ProcStruct]
  BY JoinTypes
<1>2. JoinOK(T, NULL, inCall) /\ ExitOK(T, now)
  BY <1>1, SameJoinKeeps
<1>3. JoinOK(U, NULL, inCall') /\ ExitOK(U, now)
  BY <1>2, StatusSetJoin
<1>4. ExitOK(U, now')
  BY <1>3
<1> QED
  BY <1>3, <1>4, DispatchedJoinRest

LEMMA SameJoinItself == ASSUME NEW T PROVE SameJoin(T, T)
BY DEF SameJoin

LEMMA ForkKeepsJoin == \A prio \in ForkPriorities : JoinInv /\ ForkCreate(prio) => JoinRest'
<1> SUFFICES ASSUME NEW prio \in ForkPriorities, JoinInv, ForkCreate(prio) PROVE JoinRest'
  OBVIOUS
<1>1. kpc = "user" /\ kpc' = "user" /\ UNCHANGED <<now, inCall>>
  BY DEF ForkCreate, Calling
<1>2. PICK T, s, p : ForkedFields(T, s, p) /\ Dispatched(T, ProcTable')
  BY ForkEffect DEF JoinInv, ZapInv
<1>3. JoinOK(T, NULL, inCall) /\ ExitOK(T, now)
  BY <1>1, <1>2, JoinTypes, ForkJoin
<1>4. JoinOK(T, NULL, inCall') /\ ExitOK(T, now')
  BY <1>1, <1>3
<1> QED
  BY <1>1, <1>2, <1>4, DispatchedJoinRest

\* join blocks when none of the children is seen to have quit: there is one, and
\* whichever has quit would have been seen.
LEMMA JoinBlockKeepsJoin == JoinInv /\ JoinBlock => JoinRest'
<1> SUFFICES ASSUME JoinInv, JoinBlock PROVE JoinRest'
  OBVIOUS
<1> DEFINE P == ProcTable
           calls == inCall'
<1>1. /\ kpc = "user" /\ kpc' = "user" /\ outcome = "running" /\ now' = now
      /\ P[Current].childProcs # <<>> /\ SeenToHaveQuit(Current) = {}
      /\ calls = [inCall EXCEPT ![Current] = "join"]
  BY DEF JoinBlock, Calling
<1>2. /\ JoinOK(P, NULL, inCall) /\ ExitOK(P, now) /\ P \in [Slots -> ProcStruct]
      /\ inCall \in [Slots -> {"none", "join", "zap", "blockMe"}]
      /\ AliveIn(P, Current) /\ Current \in Slots
  BY <1>1, JoinTypes, CallerRuns DEF JoinInv, ZapInv
<1>3. PICK U : StatusSetTo(P, U, Current, JOIN_BLOCK) /\ Dispatched(U, ProcTable')
  BY JoinBlockEffect DEF JoinInv, ZapInv
<1>4. \A k \in Members(P[Current].childProcs) : AliveIn(P, k)
  <2> TAKE k \in Members(P[Current].childProcs)
  <2>1. k \in Children(Current) /\ k \in Slots /\ P[k].status # UNUSED
    <3>1. k \in Children(Current)
      BY <1>2, ChildrenAreMembers DEF JoinInv, ZapInv
    <3>2. k \in Slots
      BY <1>2, KidsAreSlots
    <3>3. P[k].status # UNUSED
      BY <1>2 DEF JoinInv, ZapInv, FamilyInv, KernelInv, StaticOK, KidsOK
    <3> QED
      BY <3>1, <3>2, <3>3
  <2>2. P[k].status # QUIT
    BY <1>1, <1>2, <2>1 DEF SeenToHaveQuit, ExitOK
  <2> QED
    BY <2>1, <2>2 DEF AliveIn
<1>5. Members(P[Current].childProcs) # {} /\ Members(P[Current].childProcs) \subseteq Slots
  <2> DEFINE kids == P[Current].childProcs
  <2>1. kids \in Seq(Slots) /\ kids # <<>> /\ Members(kids) \subseteq Slots
    BY <1>1, <1>2, KidsAreSlots
  <2> HIDE DEF kids
  <2>2. 1 \in 1 .. Len(kids)
    BY <2>1, EmptySeq, LenProperties
  <2> QED
    BY <2>1, <2>2 DEF Members, kids
<1> HIDE DEF P, calls
<1>6. /\ U[Current].status = JOIN_BLOCK /\ \A r \in Slots \ {Current} : U[r] = P[r]
      /\ \A r \in Slots : /\ U[r].childProcs = P[r].childProcs
                          /\ U[r].exitTimeSlice = P[r].exitTimeSlice
      /\ U \in [Slots -> ProcStruct]
  BY <1>3 DEF StatusSetTo, SameButStatus
<1>7. \A r \in Slots : /\ AliveIn(U, r) <=> AliveIn(P, r)
                       /\ U[r].status = QUIT <=> P[r].status = QUIT
  BY <1>2, <1>6, StatusNumbers DEF AliveIn
<1>8. ASSUME NEW r \in Slots
      PROVE  /\ U[r].status = JOIN_BLOCK => calls[r] = "join" /\ Counted(U, NULL, r) # {}
             /\ calls[r] = "join" =>
                  \/ U[r].status = JOIN_BLOCK
                  \/ /\ U[r].status \in {READY, RUNNING}
                     /\ U[r].childQuitPtr \in Members(U[r].childProcs)
                     /\ U[U[r].childQuitPtr].status = QUIT
  <2>1. CASE r = Current
    <3>1. calls[r] = "join"
      BY <1>1, <1>2, <2>1
    <3>2. Counted(U, NULL, r) # {}
      BY <1>4, <1>5, <1>6, <1>7, <2>1 DEF Counted
    <3> QED
      BY <1>6, <2>1, <3>1, <3>2
  <2>2. CASE r # Current
    <3>1. Members(P[r].childProcs) \subseteq Slots
      BY <1>2, KidsAreSlots
    <3>2. Counted(U, NULL, r) = Counted(P, NULL, r)
      BY <1>6, <1>7, <3>1 DEF Counted
    <3>3. U[r] = P[r] /\ calls[r] = inCall[r]
      BY <1>1, <1>2, <1>6, <2>2
    <3> QED
      BY <1>2, <1>7, <3>1, <3>2, <3>3 DEF JoinOK
  <2> QED
    BY <2>1, <2>2
<1>9. JoinOK(U, NULL, calls) /\ ExitOK(U, now)
  BY <1>2, <1>6, <1>7, <1>8 DEF JoinOK, ExitOK
<1>10. JoinOK(U, NULL, inCall') /\ ExitOK(U, now')
  BY <1>1, <1>9 DEF calls
<1> QED
  BY <1>1, <1>3, <1>6, <1>10, DispatchedJoinRest

LEMMA JoinKeepsJoin == JoinInv /\ (JoinQuitChild \/ JoinResume) => JoinRest'
<1>1. ASSUME JoinInv, kpc = "user", outcome = "running", NEW c, ReapedFields(ProcTable', c),
             inCall'[Current] # "join", \A r \in Slots \ {Current} : inCall'[r] = inCall[r],
             UNCHANGED <<kpc, now>>
      PROVE  JoinRest'
  <2>1. JoinOK(ProcTable, NULL, inCall) /\ ProcTable[Current].status # JOIN_BLOCK
    BY <1>1, JoinTypes, CallerRuns DEF JoinInv, ZapInv
  <2>2. JoinOK(ProcTable', NULL, inCall') /\ ExitOK(ProcTable', now)
    BY <1>1, <2>1, ReapJoin
  <2> QED
    BY <1>1, <2>2 DEF JoinRest, Quitter
<1>2. ASSUME JoinInv, JoinQuitChild PROVE JoinRest'
  <2>1. kpc = "user" /\ outcome = "running" /\ inCall[Current] = "none"
    BY <1>2 DEF JoinQuitChild, Calling
  <2> QED
    BY <1>1, <1>2, <2>1, JoinQuitChildEffect, HaltJoin DEF JoinInv, ZapInv
<1>3. ASSUME JoinInv, JoinResume PROVE JoinRest'
  <2>1. kpc = "user" /\ outcome = "running" /\ Current \in Slots
        /\ inCall \in [Slots -> {"none", "join", "zap", "blockMe"}]
    BY <1>3, JoinTypes DEF JoinResume
  <2>2. CASE Halt("null_pointer") \/ Halt("corrupt")
    BY <1>3, <2>2, HaltJoin
  <2>3. CASE /\ \E c : ReapedFields(ProcTable', c)
             /\ inCall' = [inCall EXCEPT ![Current] = "none"]
             /\ UNCHANGED <<ReadyList, Current, nextPid, now, victim, kpc, walker, outcome>>
    <3>1. inCall'[Current] = "none" /\ \A r \in Slots \ {Current} : inCall'[r] = inCall[r]
      BY <2>1, <2>3
    <3> QED
      BY <1>1, <1>3, <2>1, <2>3, <3>1
  <2> QED
    BY <1>3, <2>2, <2>3, JoinResumeEffect DEF JoinInv, ZapInv
<1> QED
  BY <1>2, <1>3

LEMMA QuitKeepsJoin ==
    ASSUME 0 \notin TickSteps PROVE JoinInv /\ (Quit \/ QuitWake \/ QuitParent) => JoinRest'
<1>1. ASSUME JoinInv, Quit PROVE JoinRest'
  <2>1. Calling
    BY <1>1 DEF Quit
  <2> QED
    BY <1>1, <2>1, QuitEffect, HaltJoin, DieJoin DEF JoinInv, ZapInv
<1>2. ASSUME JoinInv, QuitWake PROVE JoinRest'
  <2>1. CASE Halt("corrupt")
    BY <1>2, <2>1, HaltJoin
  <2>2. CASE ~Halt("corrupt")
    <3>1. /\ StatusSetTo(ProcTable, ProcTable', walker, READY)
          /\ kpc' \in {kpc, "quitParent"} /\ UNCHANGED <<Current, now, inCall>>
      BY <1>2, <2>2, QuitWakeEffect DEF JoinInv, ZapInv
    <3>2. /\ kpc = "quitWake" /\ walker \in Slots
          /\ ZapListsOK(ProcTable, victim, Current, walker)
          /\ ~AliveIn(ProcTable, Current) /\ Current \in Slots
      BY <1>2 DEF QuitWake, JoinInv, ZapInv, ZapRest, Waking, FamilyInv, KernelInv,
                  TypeOK, CounterOK, AliveIn
    <3>3. ProcTable[walker].status = ZAP_BLOCK
      <4>1. ZapList(ProcTable, victim, Current, walker)
        BY <3>2 DEF ZapListsOK
      <4>2. walker # NULL
        BY <3>2, KernelAssumption
      <4> QED
        BY <4>1, <4>2, ZapListFirst DEF ZapOf
    <3>4. inCall[walker] # "join" /\ AliveIn(ProcTable, walker)
      BY <1>2, <3>2, <3>3, ZapTypes, StatusNumbers DEF JoinInv, CallsOK, AliveIn
    <3>5. JoinOK(ProcTable', Quitter, inCall) /\ ExitOK(ProcTable', now)
      <4>1. READY \notin {UNUSED, QUIT, JOIN_BLOCK}
        BY StatusNumbers
      <4> QED
        BY <1>2, <3>1, <3>2, <3>4, <4>1, JoinTypes, StatusSetJoin
    <3>6. Quitter' = Quitter
      BY <3>1, <3>2 DEF Quitter
    <3> QED
      BY <3>1, <3>5, <3>6 DEF JoinRest
  <2> QED
    BY <2>1, <2>2
<1>3. ASSUME JoinInv, QuitParent PROVE JoinRest'
  <2>1. PICK T : /\ \/ ProcTable[Current].parentPtr = NULL /\ T = ProcTable
                    \/ ToldFields(T, ProcTable[Current].parentPtr)
                 /\ Dispatched(T, ProcTable')
    BY <1>3, QuitParentEffect DEF JoinInv, ZapInv
  <2>2. kpc = "quitParent" /\ kpc' = "user" /\ UNCHANGED <<now, inCall>>
    BY <1>3 DEF QuitParent
  <2>3. T \in [Slots -> ProcStruct] /\ JoinOK(T, NULL, inCall) /\ ExitOK(T, now)
    BY <1>3, <2>1, <2>2, ToldJoin
  <2>4. JoinOK(T, NULL, inCall') /\ ExitOK(T, now')
    BY <2>2, <2>3
  <2> QED
    BY <2>1, <2>2, <2>3, <2>4, DispatchedJoinRest
<1> QED
  BY <1>1, <1>2, <1>3

LEMMA BlockMeKeepsJoin == \A st \in BlockStatuses : JoinInv /\ BlockMe(st) => JoinRest'
<1> SUFFICES ASSUME NEW st \in BlockStatuses, JoinInv, BlockMe(st) PROVE JoinRest'
  OBVIOUS
<1>1. CASE Halt("halted")
  BY <1>1, HaltJoin
<1>2. CASE /\ st > 10
           /\ \E U : StatusSetTo(ProcTable, U, Current, st) /\ Dispatched(U, ProcTable')
  <2>1. PICK U : StatusSetTo(ProcTable, U, Current, st) /\ Dispatched(U, ProcTable')
    BY <1>2
  <2>2. st \notin {UNUSED, QUIT, JOIN_BLOCK} /\ ~(st <= 10)
    BY <1>2, StatusNumbers, KernelAssumption
  <2>3. /\ kpc = "user" /\ kpc' = "user" /\ now' = now /\ outcome = "running"
        /\ inCall' = [inCall EXCEPT ![Current] = "blockMe"]
    BY <2>2 DEF BlockMe, Calling
  <2>4. /\ AliveIn(ProcTable, Current) /\ Current \in Slots
        /\ inCall \in [Slots -> {"none", "join", "zap", "blockMe"}]
        /\ ProcTable \in [Slots -> ProcStruct]
    BY <2>3, JoinTypes, CallerRuns DEF JoinInv, ZapInv
  <2>5. inCall'[Current] # "join" /\ \A r \in Slots \ {Current} : inCall'[r] = inCall[r]
    BY <2>3, <2>4
  <2> QED
    BY <2>1, <2>2, <2>3, <2>4, <2>5, SameJoinItself, BlockedThenDispatched
<1> QED
  BY <1>1, <1>2, BlockMeEffect DEF JoinInv, ZapInv

\* Who is woken by unblockProc was blocked in blockMe, not in join.
LEMMA UnblockKeepsJoin == \A pid \in Pids : JoinInv /\ UnblockProc(pid) => JoinRest'
<1> SUFFICES ASSUME NEW pid \in Pids, JoinInv, UnblockProc(pid) PROVE JoinRest'
  OBVIOUS
<1>1. PICK s, U : /\ s \in Slots /\ ProcTable[s].status > 10
                  /\ StatusSetTo(ProcTable, U, s, READY)
                  /\ Dispatched(U, ProcTable')
  BY UnblockEffect DEF JoinInv, ZapInv
<1>2. /\ kpc = "user" /\ kpc' = "user" /\ UNCHANGED <<now, inCall>>
      /\ ProcTable \in [Slots -> ProcStruct] /\ JoinOK(ProcTable, NULL, inCall)
  BY JoinTypes DEF UnblockProc, Calling
<1>3. inCall[s] # "join" /\ AliveIn(ProcTable, s) /\ READY \notin {UNUSED, QUIT, JOIN_BLOCK}
  BY <1>1, <1>2, StatusNumbers DEF JoinOK, AliveIn
<1>4. inCall'[s] # "join" /\ \A r \in Slots \ {s} : inCall'[r] = inCall[r]
  BY <1>2, <1>3
<1> QED
  BY <1>1, <1>2, <1>3, <1>4, SameJoinItself, BlockedThenDispatched

\* A caller of zap blocks, at once or when it has been linked.
LEMMA ZapBlocksJoin ==
    ASSUME JoinInv, NEW T, NEW U, OtherZappers(ProcTable, T),
           StatusSetTo(T, U, Current, ZAP_BLOCK), Dispatched(U, ProcTable'),
           outcome = "running", kpc \in {"user", "zapWalk"}, kpc' = "user", now' = now,
           inCall' = [inCall EXCEPT ![Current] = "zap"]
    PROVE  JoinRest'
<1>1. /\ AliveIn(ProcTable, Current) /\ Current \in Slots
      /\ inCall \in [Slots -> {"none", "join", "zap", "blockMe"}]
  BY JoinTypes, CallerRuns DEF JoinInv, ZapInv
<1>2. SameJoin(ProcTable, T) /\ T \in [Slots -> ProcStruct] /\ AliveIn(T, Current)
  BY <1>1, OtherZappersJoin DEF OtherZappers, AliveIn
<1>3. ZAP_BLOCK \notin {UNUSED, QUIT, JOIN_BLOCK}
  BY StatusNumbers
<1>4. inCall'[Current] # "join" /\ \A r \in Slots \ {Current} : inCall'[r] = inCall[r]
  BY <1>1
<1> QED
  BY <1>1, <1>2, <1>3, <1>4, BlockedThenDispatched

LEMMA ZapKeepsJoin ==
    JoinInv => /\ \A pid \in Pids : Zap(pid) \/ ZapInvalid(pid) => JoinRest'
               /\ ZapLink \/ ZapWalk => JoinRest'
<1> SUFFICES ASSUME JoinInv PROVE /\ \A pid \in Pids : Zap(pid) \/ ZapInvalid(pid) => JoinRest'
                                  /\ ZapLink \/ ZapWalk => JoinRest'
  OBVIOUS
<1>1. ASSUME NEW pid \in Pids, Zap(pid) PROVE JoinRest'
  <2>1. kpc = "user" /\ outcome = "running" /\ now' = now
    BY <1>1 DEF Zap, Calling
  <2>2. CASE ZapLinked(pid)
    <3>1. PICK T, U : /\ ZappedFields(ProcTable, T, pid % MAXPROC, Current)
                      /\ StatusSetTo(T, U, Current, ZAP_BLOCK)
                      /\ Dispatched(U, ProcTable')
      BY <2>2 DEF ZapLinked
    <3>2. kpc' = "user" /\ inCall' = [inCall EXCEPT ![Current] = "zap"]
      BY <2>2 DEF ZapLinked
    <3> QED
      BY <2>1, <3>1, <3>2, ZapBlocksJoin DEF ZappedFields
  <2>3. CASE ZapStarted(pid)
    <3>1. OtherZappers(ProcTable, ProcTable') /\ kpc' = "zapWalk" /\ UNCHANGED <<Current, inCall>>
      BY <2>3 DEF ZapStarted, ZappedFields
    <3>2. SameJoin(ProcTable, ProcTable') /\ ProcTable \in [Slots -> ProcStruct]
      BY <3>1, OtherZappersJoin DEF OtherZappers
    <3>3. JoinOK(ProcTable, NULL, inCall) /\ ExitOK(ProcTable, now)
      BY <2>1, JoinTypes
    <3>4. JoinOK(ProcTable', NULL, inCall) /\ ExitOK(ProcTable', now)
      BY <3>2, <3>3, SameJoinKeeps
    <3> QED
      BY <2>1, <3>1, <3>4 DEF JoinRest, Quitter
  <2> QED
    BY <1>1, <2>2, <2>3, ZapEffect DEF JoinInv, ZapInv
<1>2. ASSUME NEW pid \in Pids, ZapInvalid(pid) PROVE JoinRest'
  BY <1>2, HaltJoin DEF ZapInvalid
<1>3. ASSUME ZapLink PROVE JoinRest'
  <2>1. kpc = "zapWalk" /\ outcome = "running" /\ now' = now
    BY <1>3 DEF ZapLink
  <2>2. PICK T, U : /\ LinkedFields(ProcTable, T, walker, Current)
                    /\ StatusSetTo(T, U, Current, ZAP_BLOCK)
                    /\ Dispatched(U, ProcTable')
    BY <1>3, ZapLinkEffect DEF JoinInv, ZapInv
  <2>3. kpc' = "user" /\ inCall' = [inCall EXCEPT ![Current] = "zap"]
    BY <1>3, ZapLinkEffect DEF JoinInv, ZapInv
  <2> QED
    BY <2>1, <2>2, <2>3, ZapBlocksJoin DEF LinkedFields
<1>4. ASSUME ZapWalk PROVE JoinRest'
  BY <1>4, IdleJoin DEF ZapWalk, JoinInv
<1> QED
  BY <1>1, <1>2, <1>3, <1>4

LEMMA OthersKeepJoin ==
    JoinInv /\ (ForkTableFull \/ ForkRejected \/ CallReturns \/ CheckDeadlock \/ UNCHANGED vars)
        => JoinRest'
<1>1. ASSUME JoinInv, CallReturns PROVE JoinRest'
  <2>1. /\ kpc = "user" /\ UNCHANGED <<ProcTable, Current, now, kpc>>
        /\ inCall[Current] # "join" /\ inCall' = [inCall EXCEPT ![Current] = "none"]
    BY <1>1 DEF CallReturns
  <2>2. \A r \in Slots : inCall'[r] = "join" <=> inCall[r] = "join"
    BY <1>1, <2>1, JoinTypes
  <2> QED
    BY <1>1, <2>1, <2>2 DEF JoinInv, JoinRest, JoinOK, Quitter
<1>2. ASSUME JoinInv, ForkTableFull \/ ForkRejected \/ UNCHANGED vars PROVE JoinRest'
  BY <1>2, IdleJoin DEF ForkTableFull, ForkRejected, vars, JoinInv
<1>3. ASSUME JoinInv, CheckDeadlock PROVE JoinRest'
  BY <1>3, HaltJoin DEF CheckDeadlock
<1> QED
  BY <1>1, <1>2, <1>3

LEMMA InitJoin == Init => JoinInv
<1> SUFFICES ASSUME Init PROVE JoinInv
  OBVIOUS
<1>1. \A s \in Slots : ProcTable[s].status \in {UNUSED, READY, RUNNING}
  BY InitEntries
<1>2. \A s \in Slots : inCall[s] = "none"
  BY DEF Init
<1> QED
  BY <1>1, <1>2, InitZap, StatusNumbers DEF JoinInv, JoinRest, JoinOK, ExitOK

LEMMA JoinInvariance == ASSUME ~StaleZappers, 0 \notin TickSteps PROVE Spec => []JoinInv
<1>1. Init => JoinInv
  BY InitJoin
<1>2. JoinInv /\ [Next]_vars => JoinInv'
  <2>1. JoinInv /\ [Next]_vars => ZapInv'
    BY ZapStepInv DEF JoinInv
  <2>2. JoinInv /\ [Next]_vars => JoinRest'
    BY ForkKeepsJoin, JoinBlockKeepsJoin, JoinKeepsJoin, QuitKeepsJoin, BlockMeKeepsJoin,
       UnblockKeepsJoin, ZapKeepsJoin, OthersKeepJoin
       DEF Next
  <2> QED
    BY <2>1, <2>2 DEF JoinInv
<1> QED
  BY <1>1, <1>2, PTL DEF Spec

LEMMA InvJoinGetsItsChild == JoinInv => JoinGetsItsChild
<1> SUFFICES ASSUME JoinInv, NEW s \in Slots
             PROVE  /\ ProcTable[s].status = JOIN_BLOCK =>
                          \E c \in Children(s) : Alive(c) \/ Dying(c)
                    /\ inCall[s] = "join" /\ ProcTable[s].status \in {READY, RUNNING} =>
                          /\ ProcTable[s].childQuitPtr \in Children(s)
                          /\ ProcTable[ProcTable[s].childQuitPtr].status = QUIT
  BY DEF JoinGetsItsChild
<1>1. /\ Children(s) = Members(ProcTable[s].childProcs)
      /\ Members(ProcTable[s].childProcs) \subseteq Slots
      /\ JoinOK(ProcTable, Quitter, inCall) /\ NULL \notin Slots
  BY JoinTypes, ChildrenAreMembers, KidsAreSlots DEF JoinInv, ZapInv
<1>2. \A c \in Counted(ProcTable, Quitter, s) : c \in Children(s) /\ (Alive(c) \/ Dying(c))
  BY <1>1 DEF Counted, Alive, AliveIn, Dying, Quitter
<1> QED
  BY <1>1, <1>2, StatusNumbers DEF JoinOK

\* join neither loses its wakeup nor is woken for nothing.  The clock must move between
\* the quit of a child and whatever comes next, because join compares exit times with
\* the time strictly (src/phase1/phase1.c:404), and a stale zappedSiblingPtr would let
\* quit wake a process that is blocked in join.
THEOREM JoinsGetTheirChild ==
    ASSUME ~StaleZappers, 0 \notin TickSteps PROVE Spec => []JoinGetsItsChild
<1>1. Spec => []JoinInv
  BY JoinInvariance
<1>2. JoinInv => JoinGetsItsChild
  BY InvJoinGetsItsChild
<1> QED
  BY <1>1, <1>2, PTL
=============================================================================
