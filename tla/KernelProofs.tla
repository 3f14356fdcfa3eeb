---------------------------- MODULE KernelProofs ----------------------------
(***************************************************************************)
(* Proofs about the kernel of phase 1, for every size of the process       *)
(* table, every set of priorities and every bound on the pids.             *)
(*                                                                         *)
(* The inductive invariant KernelInv is made of facts about a process      *)
(* table T and a ready list q (TableOK, KidsOK, PidsOK, QueueOK), because  *)
(* the handlers hand such a pair to the dispatcher in the middle of a      *)
(* step, and of facts about the running process.                           *)
(***************************************************************************)
EXTENDS KernelProperties, LinkedLists

Sorted(T, q) ==
    \A i, j \in 1 .. Len(q) : i < j => T[q[i]].priority <= T[q[j]].priority

\* There is a place for s in every list, so the CHOOSE of addToReadyList finds
\* one, and in a sorted list the entries behind it are of weaker priority.
LEMMA InsertionPointExists ==
    ASSUME NEW T \in [Slots -> ProcStruct], NEW q \in Seq(Slots), NEW s \in Slots,
           Sorted(T, q)
    PROVE  LET i == InsertionPoint(T, q, s)
           IN  /\ i \in 1 .. Len(q)+1
               /\ \A j \in 1 .. i-1 : T[q[j]].priority <= T[s].priority
               /\ \A j \in i .. Len(q) : T[q[j]].priority > T[s].priority
<1> DEFINE weaker == {i \in 1 .. Len(q) : T[q[i]].priority > T[s].priority}
           place(i) == /\ \A j \in 1 .. i-1 : T[q[j]].priority <= T[s].priority
                       /\ i <= Len(q) => T[q[i]].priority > T[s].priority
<1>1. Len(q) \in Nat /\ \A i \in 1 .. Len(q) : q[i] \in Slots
  BY LenProperties, ElementOfSeq
<1>2. \A r \in Slots : T[r].priority \in Int
  BY DEF ProcStruct
<1>3. \E i \in 1 .. Len(q)+1 : place(i)
  <2>1. CASE weaker = {}
    <3>1. \A j \in 1 .. Len(q) : T[q[j]].priority <= T[s].priority
      BY <2>1, <1>1, <1>2
    <3>2. place(Len(q)+1)
      BY <3>1, <1>1
    <3> QED
      BY <3>2, <1>1
  <2>2. CASE weaker # {}
    <3>0. weaker \in SUBSET Nat
      BY <1>1
    <3> HIDE DEF weaker
    <3>1. PICK i \in weaker : \A j \in weaker : i <= j
      BY <2>2, <3>0, LeastElement
    <3> USE DEF weaker
    <3>2. place(i)
      BY <3>1, <1>1, <1>2
    <3> QED
      BY <3>1, <3>2, <1>1
  <2> QED
    BY <2>1, <2>2
<1>4. InsertionPoint(T, q, s) \in 1 .. Len(q)+1 /\ place(InsertionPoint(T, q, s))
  BY <1>3 DEF InsertionPoint
<1> QED
  BY <1>1, <1>2, <1>4 DEF Sorted

-----------------------------------------------------------------------------
(***************************************************************************)
(* The parts of the inductive invariant.                                   *)
(***************************************************************************)
ReadySlots(T) == {s \in Slots : T[s].status = READY}

\* The list q holds the READY processes of T, once each, strongest first.
QueueOK(T, q) ==
    /\ q \in Seq(Slots)
    /\ Distinct(q)
    /\ Sorted(T, q)
    /\ Members(q) = ReadySlots(T)

\* The priorities keep the sentinel behind everybody else, and a process
\* whose zap flag is set has a zapper on its list.
TableOK(T) ==
    /\ T \in [Slots -> ProcStruct]
    /\ T[SENTINELPID].priority = SENTINELPRIORITY
    /\ T[SENTINELPID].status # UNUSED
    /\ \A s \in Slots \ {SENTINELPID} :
          T[s].status # UNUSED => T[s].priority \in MAXPRIORITY .. MINPRIORITY
    /\ \A s \in Slots : T[s].zap => T[s].zappedPtr \in Slots

\* As long as the pids fit in a short, the pid of a slot is its index modulo
\* the table size, and was handed out.
PidsOK(T, n) ==
    MaxPid < ShortLimit =>
        \A s \in Slots : T[s].status # UNUSED =>
            T[s].pid % MAXPROC = s /\ T[s].pid \in 1 .. n-1

\* The slots on a list of children are in use, name their parent, and are
\* there once.
KidsOK(T) ==
    \A s \in Slots :
        /\ Distinct(T[s].childProcs)
        /\ \A c \in Members(T[s].childProcs) :
              T[c].status # UNUSED /\ T[c].parentPtr = s

StaticOK(T, n) == TableOK(T) /\ PidsOK(T, n) /\ KidsOK(T)

\* U is T with other statuses, and nobody created, ended or cleaned.
StatusChange(T, U) ==
    /\ U \in [Slots -> ProcStruct]
    /\ \A s \in Slots :
        /\ U[s].priority = T[s].priority
        /\ U[s].pid = T[s].pid
        /\ U[s].parentPtr = T[s].parentPtr
        /\ U[s].childProcs = T[s].childProcs
        /\ U[s].zap = T[s].zap
        /\ U[s].zappedPtr = T[s].zappedPtr
        /\ U[s].status = UNUSED <=> T[s].status = UNUSED
        /\ U[s].status = QUIT <=> T[s].status = QUIT

\* The running process is off the ready list, and the sentinel on it when it
\* does not run itself.
RunnerOK ==
    /\ Current \in Slots
    /\ ProcTable[Current].status \notin {READY, UNUSED}
    /\ Current # SENTINELPID => ProcTable[SENTINELPID].status = READY

Strongest == \A s \in Members(ReadyList) : Priority(Current) <= Priority(s)

Outcomes == {"running", "completed", "deadlock", "halted", "quit_returned",
             "null_pointer", "corrupt"}

LEMMA ConstantFacts ==
    /\ SENTINELPID \in Slots /\ SENTINELPID + 1 \in Slots
    /\ MINPRIORITY \in Nat /\ MAXPROC \in Nat \ {0}
BY KernelAssumption DEF Slots, SENTINELPID

\* What a status change leaves true.
LEMMA StatusChangeKeeps ==
    ASSUME NEW T, NEW U, NEW n, StaticOK(T, n), StatusChange(T, U)
    PROVE  StaticOK(U, n)
<1>1. \A s \in Slots : \A c \in Members(T[s].childProcs) : c \in Slots
  <2> SUFFICES ASSUME NEW s \in Slots, NEW c \in Members(T[s].childProcs)
               PROVE  c \in Slots
    OBVIOUS
  <2>1. T[s].childProcs \in Seq(Slots)
    BY DEF StaticOK, TableOK, ProcStruct
  <2> QED
    BY <2>1, ElementOfSeq DEF Members
<1>2. TableOK(U)
  BY ConstantFacts DEF StaticOK, TableOK, StatusChange
<1>3. PidsOK(U, n)
  BY DEF StaticOK, PidsOK, StatusChange
<1>4. KidsOK(U)
  BY <1>1 DEF StaticOK, KidsOK, StatusChange
<1> QED
  BY <1>2, <1>3, <1>4 DEF StaticOK

\* addToReadyList of a process that has just become READY.
LEMMA AddKeepsQueue ==
    ASSUME NEW T \in [Slots -> ProcStruct], NEW q \in Seq(Slots), NEW s \in Slots,
           Distinct(q), Sorted(T, q), T[s].status = READY, s \notin Members(q),
           Members(q) = ReadySlots(T) \ {s}
    PROVE  QueueOK(T, AddToReadyList(T, q, s))
<1> DEFINE i == InsertionPoint(T, q, s)
           r == AddToReadyList(T, q, s)
<1>1. /\ i \in 1 .. Len(q)+1
      /\ \A j \in 1 .. i-1 : T[q[j]].priority <= T[s].priority
      /\ \A j \in i .. Len(q) : T[q[j]].priority > T[s].priority
  BY InsertionPointExists
<1>2. Len(q) \in Nat /\ \A j \in 1 .. Len(q) : q[j] \in Slots
  BY LenProperties, ElementOfSeq
<1>3. \A p \in Slots : T[p].priority \in Int
  BY DEF ProcStruct
<1> HIDE DEF i
<1>4. /\ r \in Seq(Slots)
      /\ Len(r) = Len(q) + 1
      /\ \A j \in 1 .. Len(q)+1 :
            r[j] = IF j < i THEN q[j] ELSE IF j = i THEN s ELSE q[j-1]
  <2>1. r = InsertAt(q, i, s)
    BY DEF AddToReadyList, i
  <2> HIDE DEF r
  <2>2. i \in 1 .. Len(q)+1
    BY <1>1
  <2>3. /\ InsertAt(q, i, s) \in Seq(Slots)
        /\ Len(InsertAt(q, i, s)) = Len(q) + 1
        /\ \A j \in 1 .. Len(q)+1 : InsertAt(q, i, s)[j] =
              IF j < i THEN q[j] ELSE IF j = i THEN s ELSE q[j-1]
    BY <2>2, InsertAtElements
  <2> QED
    BY <2>1, <2>3
<1> HIDE DEF r
<1>5. Distinct(r)
  <2>1. \A j \in 1 .. Len(q) : q[j] # s
    BY DEF Members
  <2> SUFFICES ASSUME NEW j \in 1 .. Len(q)+1, NEW k \in 1 .. Len(q)+1, j < k
               PROVE  r[j] # r[k]
    BY <1>2, <1>4 DEF Distinct
  <2>2. CASE k < i
    <3>1. j \in 1 .. Len(q) /\ k \in 1 .. Len(q) /\ r[j] = q[j] /\ r[k] = q[k]
      BY <2>2, <1>1, <1>2, <1>4
    <3> QED
      BY <3>1 DEF Distinct
  <2>3. CASE k = i
    BY <2>1, <2>3, <1>1, <1>2, <1>4
  <2>4. CASE k > i /\ j = i
    <3>1. k-1 \in 1 .. Len(q) /\ r[k] = q[k-1] /\ r[j] = s
      BY <2>4, <1>1, <1>2, <1>4
    <3> QED
      BY <3>1, <2>1
  <2>5. CASE k > i /\ j < i
    <3>1. /\ j \in 1 .. Len(q) /\ k-1 \in 1 .. Len(q) /\ j # k-1
          /\ r[j] = q[j] /\ r[k] = q[k-1]
      BY <2>5, <1>1, <1>2, <1>4
    <3> QED
      BY <3>1 DEF Distinct
  <2>6. CASE k > i /\ j > i
    <3>1. /\ j-1 \in 1 .. Len(q) /\ k-1 \in 1 .. Len(q) /\ j-1 # k-1
          /\ r[j] = q[j-1] /\ r[k] = q[k-1]
      BY <2>6, <1>1, <1>2, <1>4
    <3> QED
      BY <3>1 DEF Distinct
  <2> QED
    BY <2>2, <2>3, <2>4, <2>5, <2>6, <1>1
<1>6. Sorted(T, r)
  <2> SUFFICES ASSUME NEW j \in 1 .. Len(q)+1, NEW k \in 1 .. Len(q)+1, j < k
               PROVE  T[r[j]].priority <= T[r[k]].priority
    BY <1>4 DEF Sorted
  <2>1. CASE k < i
    <3>1. j \in 1 .. Len(q) /\ k \in 1 .. Len(q) /\ r[j] = q[j] /\ r[k] = q[k]
      BY <2>1, <1>1, <1>2, <1>4
    <3> QED
      BY <3>1 DEF Sorted
  <2>2. CASE k = i
    BY <2>2, <1>1, <1>2, <1>4
  <2>3. CASE k > i /\ j = i
    <3>1. k-1 \in i .. Len(q) /\ r[k] = q[k-1] /\ r[j] = s
      BY <2>3, <1>1, <1>2, <1>4
    <3>2. T[q[k-1]].priority > T[s].priority /\ q[k-1] \in Slots
      BY <3>1, <1>1, <1>2
    <3> QED
      BY <3>1, <3>2, <1>3
  <2>4. CASE k > i /\ j < i
    <3>1. /\ k-1 \in i .. Len(q) /\ r[k] = q[k-1]
          /\ j \in 1 .. i-1 /\ r[j] = q[j]
      BY <2>4, <1>1, <1>2, <1>4
    <3>2. /\ T[q[k-1]].priority > T[s].priority /\ T[q[j]].priority <= T[s].priority
          /\ q[k-1] \in Slots /\ q[j] \in Slots
      BY <3>1, <1>1, <1>2
    <3> QED
      BY <3>1, <3>2, <1>3
  <2>5. CASE k > i /\ j > i
    <3>1. /\ j-1 \in 1 .. Len(q) /\ k-1 \in 1 .. Len(q) /\ j-1 < k-1
          /\ r[j] = q[j-1] /\ r[k] = q[k-1]
      BY <2>5, <1>1, <1>2, <1>4
    <3> QED
      BY <3>1 DEF Sorted
  <2> QED
    BY <2>1, <2>2, <2>3, <2>4, <2>5, <1>1
<1>7. Members(r) = Members(q) \cup {s}
  <2>1. \A j \in 1 .. Len(r) : r[j] \in Members(q) \cup {s}
    BY <1>1, <1>2, <1>4 DEF Members
  <2>2. r[i] = s /\ i \in 1 .. Len(r)
    BY <1>1, <1>2, <1>4
  <2>3. \A j \in 1 .. Len(q) : \E k \in 1 .. Len(r) : r[k] = q[j]
    <3> TAKE j \in 1 .. Len(q)
    <3>1. CASE j < i
      BY <3>1, <1>1, <1>2, <1>4
    <3>2. CASE j >= i
      <4>1. j+1 \in 1 .. Len(r) /\ r[j+1] = q[j]
        BY <3>2, <1>1, <1>2, <1>4
      <4> QED
        BY <4>1
    <3> QED
      BY <3>1, <3>2, <1>1
  <2> QED
    <3>1. Members(r) \subseteq Members(q) \cup {s}
      BY <2>1 DEF Members
    <3>2. Members(q) \subseteq Members(r)
      BY <2>3 DEF Members
    <3>3. s \in Members(r)
      BY <2>2 DEF Members
    <3> QED
      BY <3>1, <3>2, <3>3
<1> QED
  BY <1>4, <1>5, <1>6, <1>7 DEF QueueOK, ReadySlots, r

\* The head of the ready list becomes the running process.
LEMMA SwitchKeeps ==
    ASSUME NEW T, NEW n, NEW q, StaticOK(T, n), QueueOK(T, q),
           T[SENTINELPID].status = READY, SwitchTo(T, q)
    PROVE  /\ StatusChange(T, ProcTable')
           /\ QueueOK(ProcTable', ReadyList')
           /\ RunnerOK' /\ Strongest'
<1> DEFINE h == Head(q)
<1>1. /\ q \in Seq(Slots) /\ T \in [Slots -> ProcStruct]
      /\ Len(q) \in Nat /\ \A j \in 1 .. Len(q) : q[j] \in Slots
  BY LenProperties, ElementOfSeq DEF QueueOK, StaticOK, TableOK
<1>2. q # <<>>
  BY ConstantFacts, EmptySeq DEF QueueOK, Members, ReadySlots
<1>3. /\ h \in Slots /\ h = q[1] /\ Tail(q) \in Seq(Slots)
      /\ Len(q) >= 1
      /\ Len(Tail(q)) = Len(q) - 1
      /\ \A j \in 1 .. Len(q)-1 : Tail(q)[j] = q[j+1]
  BY <1>1, <1>2, HeadTailProperties, EmptySeq
<1>4. /\ ProcTable' = [T EXCEPT ![h].status = RUNNING]
      /\ ReadyList' = Tail(q) /\ Current' = h
  BY DEF SwitchTo
<1>5. T[h].status = READY
  BY <1>1, <1>3 DEF QueueOK, Members, ReadySlots
<1> HIDE DEF h
<1>6. StatusChange(T, ProcTable')
  <2>2. \A s \in Slots \ {h} : ProcTable'[s] = T[s]
    BY <1>1, <1>3, <1>4
  <2>3. ProcTable'[h] = [T[h] EXCEPT !.status = RUNNING]
    BY <1>1, <1>3, <1>4
  <2>4. T[h] \in ProcStruct
    BY <1>1, <1>3
  <2>6. [T[h] EXCEPT !.status = RUNNING] \in ProcStruct
    BY <2>4 DEF ProcStruct, RUNNING
  <2>1. ProcTable' \in [Slots -> ProcStruct]
    BY <2>6, <1>1, <1>3, <1>4
  <2>5. /\ ProcTable'[h].priority = T[h].priority
        /\ ProcTable'[h].pid = T[h].pid
        /\ ProcTable'[h].parentPtr = T[h].parentPtr
        /\ ProcTable'[h].childProcs = T[h].childProcs
        /\ ProcTable'[h].zap = T[h].zap
        /\ ProcTable'[h].zappedPtr = T[h].zappedPtr
        /\ ProcTable'[h].status = RUNNING
    BY <2>3, <2>4 DEF ProcStruct
  <2> QED
    BY <2>1, <2>2, <2>5, <1>3, <1>5 DEF StatusChange, RUNNING, READY, UNUSED, QUIT
<1>61. \A s \in Slots : ProcTable'[s].priority = T[s].priority
  BY <1>6 DEF StatusChange
<1>62. \A j \in 1 .. Len(ReadyList') :
          j \in 1 .. Len(q) /\ j+1 \in 1 .. Len(q) /\ ReadyList'[j] = q[j+1]
  BY <1>1, <1>3, <1>4
<1>7. Distinct(ReadyList')
  <2> SUFFICES ASSUME NEW j \in 1 .. Len(ReadyList'), NEW k \in 1 .. Len(ReadyList'),
                      ReadyList'[j] = ReadyList'[k]
               PROVE  j = k
    BY DEF Distinct
  <2>1. q[j+1] = q[k+1] /\ j+1 \in 1 .. Len(q) /\ k+1 \in 1 .. Len(q)
    BY <1>62
  <2>2. j+1 = k+1
    BY <2>1 DEF QueueOK, Distinct
  <2> QED
    BY <2>2, <1>1, <1>3, <1>4
<1>71. Sorted(ProcTable', ReadyList')
  <2> SUFFICES ASSUME NEW j \in 1 .. Len(ReadyList'), NEW k \in 1 .. Len(ReadyList'),
                      j < k
               PROVE  ProcTable'[ReadyList'[j]].priority <= ProcTable'[ReadyList'[k]].priority
    BY DEF Sorted
  <2>1. /\ j+1 \in 1 .. Len(q) /\ k+1 \in 1 .. Len(q) /\ j+1 < k+1
        /\ ReadyList'[j] = q[j+1] /\ ReadyList'[k] = q[k+1]
    BY <1>62, <1>1, <1>3, <1>4
  <2>2. T[q[j+1]].priority <= T[q[k+1]].priority
    BY <2>1 DEF QueueOK, Sorted
  <2> QED
    BY <2>1, <2>2, <1>61, <1>1
<1>8. Members(ReadyList') = ReadySlots(ProcTable')
  <2>1. ReadySlots(ProcTable') = ReadySlots(T) \ {h}
    <3>1. \A s \in Slots \ {h} : ProcTable'[s] = T[s]
      BY <1>1, <1>3, <1>4
    <3>2. ProcTable'[h].status = RUNNING
      BY <1>1, <1>3, <1>4 DEF ProcStruct
    <3> QED
      BY <3>1, <3>2, <1>5 DEF ReadySlots, READY, RUNNING
  <2>2. \A s \in Members(ReadyList') : s \in Members(q) /\ s # h
    <3> SUFFICES ASSUME NEW j \in 1 .. Len(ReadyList')
                 PROVE  ReadyList'[j] \in Members(q) /\ ReadyList'[j] # h
      BY DEF Members
    <3>1. j+1 \in 1 .. Len(q) /\ ReadyList'[j] = q[j+1] /\ j+1 # 1 /\ 1 \in 1 .. Len(q)
      BY <1>62, <1>1, <1>3, <1>4
    <3>2. q[j+1] # q[1]
      BY <3>1 DEF QueueOK, Distinct
    <3> QED
      BY <3>1, <3>2, <1>3 DEF Members
  <2>3. \A s \in Members(q) : s # h => s \in Members(ReadyList')
    <3> SUFFICES ASSUME NEW j \in 1 .. Len(q), q[j] # h
                 PROVE  \E k \in 1 .. Len(ReadyList') : ReadyList'[k] = q[j]
      BY DEF Members
    <3>1. j-1 \in 1 .. Len(ReadyList') /\ ReadyList'[j-1] = q[j]
      BY <1>1, <1>3, <1>4
    <3> QED
      BY <3>1
  <2> QED
    BY <2>1, <2>2, <2>3 DEF QueueOK
<1>9. RunnerOK'
  BY <1>1, <1>3, <1>4, ConstantFacts DEF RunnerOK, ProcStruct, READY, RUNNING, UNUSED
<1>10. Strongest'
  <2> SUFFICES ASSUME NEW j \in 1 .. Len(ReadyList')
               PROVE  ProcTable'[Current'].priority <= ProcTable'[ReadyList'[j]].priority
    BY DEF Strongest, Members, Priority
  <2>1. /\ j+1 \in 1 .. Len(q) /\ ReadyList'[j] = q[j+1]
        /\ 1 \in 1 .. Len(q) /\ 1 < j+1
    BY <1>62, <1>1, <1>3, <1>4
  <2>2. T[q[1]].priority <= T[q[j+1]].priority
    BY <2>1 DEF QueueOK, Sorted
  <2> QED
    BY <2>1, <2>2, <1>1, <1>3, <1>4, <1>61
<1> QED
  BY <1>3, <1>4, <1>6, <1>7, <1>71, <1>8, <1>9, <1>10 DEF QueueOK

\* Giving a slot in use another status, without ending its process.
SetsStatus(T, U, s, st) ==
    /\ StatusChange(T, U)
    /\ U[s].status = st
    /\ \A r \in Slots \ {s} : U[r] = T[r]

LEMMA StatusUpdate ==
    ASSUME NEW T \in [Slots -> ProcStruct], NEW s \in Slots, NEW st \in Nat,
           st \notin {UNUSED, QUIT}, T[s].status \notin {UNUSED, QUIT}
    PROVE  SetsStatus(T, [T EXCEPT ![s].status = st], s, st)
<1> DEFINE U == [T EXCEPT ![s].status = st]
<1>1. U \in [Slots -> ProcStruct]
  BY DEF ProcStruct
<1>2. \A r \in Slots \ {s} : U[r] = T[r]
  OBVIOUS
<1>3. U[s] = [T[s] EXCEPT !.status = st] /\ T[s] \in ProcStruct
  OBVIOUS
<1>4. /\ U[s].priority = T[s].priority /\ U[s].pid = T[s].pid
      /\ U[s].parentPtr = T[s].parentPtr /\ U[s].childProcs = T[s].childProcs
      /\ U[s].zap = T[s].zap /\ U[s].zappedPtr = T[s].zappedPtr
      /\ U[s].status = st
  BY <1>3 DEF ProcStruct
<1> HIDE DEF U
<1>5. StatusChange(T, U)
  BY <1>1, <1>2, <1>4 DEF StatusChange
<1> QED
  BY <1>2, <1>4, <1>5 DEF U, SetsStatus

\* What a caller of dispatcher hands over: the table T and the ready list q,
\* the caller itself being off the list.
DispatchReady(T, n, q) ==
    /\ StaticOK(T, n) /\ QueueOK(T, q)
    /\ T[SENTINELPID].status = READY
    /\ Current \in Slots /\ Current # SENTINELPID
    /\ T[Current].status \notin {READY, UNUSED}
    /\ outcome = "running"

AfterDispatch(T) ==
    /\ StatusChange(T, ProcTable')
    /\ QueueOK(ProcTable', ReadyList')
    /\ RunnerOK' /\ Strongest'
    /\ outcome' \in Outcomes
    /\ outcome' = "running" => ProcTable'[Current'].status # QUIT

LEMMA DispatchKeeps ==
    ASSUME NEW T, NEW n, NEW q, DispatchReady(T, n, q), Dispatch(T, q)
    PROVE  AfterDispatch(T)
<1> USE DEF DispatchReady
<1> DEFINE st == T[Current].status
           mine == T[Current].priority
           first == T[Head(q)].priority
           Post == /\ StatusChange(T, ProcTable')
                   /\ QueueOK(ProcTable', ReadyList')
                   /\ RunnerOK' /\ Strongest'
<1>1. /\ T \in [Slots -> ProcStruct] /\ q \in Seq(Slots)
      /\ Len(q) \in Nat /\ \A j \in 1 .. Len(q) : q[j] \in Slots
  BY LenProperties, ElementOfSeq DEF QueueOK, StaticOK, TableOK
<1>2. q # <<>>
  BY ConstantFacts, EmptySeq DEF QueueOK, Members, ReadySlots
<1>3. Len(q) >= 1 /\ Head(q) = q[1] /\ q[1] \in Slots
  BY <1>1, <1>2, HeadTailProperties, EmptySeq
<1>4. mine \in Int /\ first \in Int /\ st \in Nat
  BY <1>1, <1>3 DEF ProcStruct
<1>5. ASSUME SwitchTo(T, q)
      PROVE  Post /\ ProcTable'[Current'].status # QUIT
  <2>1. Post
    BY <1>5, SwitchKeeps
  <2>2. ProcTable'[Current'].status = RUNNING
    BY <1>5, <1>1, <1>3 DEF SwitchTo, ProcStruct
  <2> QED
    BY <2>1, <2>2 DEF RUNNING, QUIT
<1>6. ASSUME st # QUIT, NEW T2, T2 = [T EXCEPT ![Current].status = READY],
             SwitchTo(T2, AddToReadyList(T2, q, Current))
      PROVE  Post /\ ProcTable'[Current'].status # QUIT
  <2>1. /\ StatusChange(T, T2) /\ T2[Current].status = READY
        /\ \A r \in Slots \ {Current} : T2[r] = T[r]
    <3>1. READY \in Nat /\ READY \notin {UNUSED, QUIT}
      BY DEF READY, UNUSED, QUIT
    <3>2. T[Current].status \notin {UNUSED, QUIT}
      BY <1>6
    <3>3. SetsStatus(T, [T EXCEPT ![Current].status = READY], Current, READY)
      BY <1>1, <3>1, <3>2, StatusUpdate
    <3> QED
      BY <1>6, <3>3 DEF SetsStatus
  <2>2. StaticOK(T2, n) /\ T2 \in [Slots -> ProcStruct]
    BY <2>1, StatusChangeKeeps DEF StatusChange
  <2>3. Distinct(q) /\ Current \notin Members(q)
    BY DEF QueueOK, ReadySlots
  <2>4. Sorted(T2, q)
    BY <1>1, <2>1 DEF QueueOK, Sorted, StatusChange
  <2>5. Members(q) = ReadySlots(T2) \ {Current}
    BY <2>1 DEF QueueOK, ReadySlots
  <2>6. QueueOK(T2, AddToReadyList(T2, q, Current))
    BY <1>1, <2>1, <2>2, <2>3, <2>4, <2>5, AddKeepsQueue
  <2>7. T2[SENTINELPID].status = READY
    BY <2>1, ConstantFacts
  <2>8. /\ StatusChange(T2, ProcTable')
        /\ QueueOK(ProcTable', ReadyList')
        /\ RunnerOK' /\ Strongest'
    BY <1>6, <2>2, <2>6, <2>7, SwitchKeeps
  <2>9. StatusChange(T, ProcTable')
    BY <2>1, <2>8 DEF StatusChange
  <2>10. Head(AddToReadyList(T2, q, Current)) \in Slots
    <3>1. AddToReadyList(T2, q, Current) \in Seq(Slots)
      BY <2>6 DEF QueueOK
    <3>2. AddToReadyList(T2, q, Current) # <<>>
      BY <2>6, <2>7, ConstantFacts, EmptySeq DEF QueueOK, Members, ReadySlots
    <3> QED
      BY <3>1, <3>2, HeadTailProperties
  <2>11. ProcTable'[Current'].status = RUNNING
    BY <1>6, <2>2, <2>10 DEF SwitchTo, ProcStruct
  <2> QED
    BY <2>8, <2>9, <2>11 DEF RUNNING, QUIT
<1>7. ASSUME Stay(T, q), mine <= first
      PROVE  Post /\ ProcTable'[Current'].status = st
  <2>1. ProcTable' = T /\ ReadyList' = q /\ Current' = Current
    BY <1>7 DEF Stay
  <2>2. StatusChange(T, ProcTable')
    BY <2>1, <1>1 DEF StatusChange
  <2>3. RunnerOK'
    BY <2>1 DEF RunnerOK
  <2>4. Strongest'
    <3> SUFFICES ASSUME NEW j \in 1 .. Len(q)
                 PROVE  T[Current].priority <= T[q[j]].priority
      BY <2>1 DEF Strongest, Members, Priority
    <3>1. CASE j = 1
      BY <3>1, <1>3, <1>7
    <3>2. CASE j > 1
      <4>1. T[q[1]].priority <= T[q[j]].priority
        BY <3>2, <1>1, <1>3 DEF QueueOK, Sorted
      <4>2. T[q[j]].priority \in Int
        BY <1>1 DEF ProcStruct
      <4> QED
        BY <4>1, <4>2, <1>3, <1>4, <1>7
    <3> QED
      BY <3>1, <3>2
  <2> QED
    BY <2>1, <2>2, <2>3, <2>4
<1> HIDE DEF Post, AfterDispatch, Outcomes
<1>8. CASE first < mine /\ outcome' = outcome
  <2>1. CASE st = QUIT
    <3>1. SwitchTo(T, q)
      BY <2>1, <1>8, <1>4 DEF Dispatch
    <3> QED
      BY <3>1, <1>5, <1>8 DEF Post, AfterDispatch, Outcomes
  <2>2. CASE st # QUIT
    <3>1. \E T2 : /\ T2 = [T EXCEPT ![Current].status = READY]
                  /\ SwitchTo(T2, AddToReadyList(T2, q, Current))
      BY <2>2, <1>8, <1>4 DEF Dispatch
    <3> QED
      BY <2>2, <3>1, <1>6, <1>8 DEF Post, AfterDispatch, Outcomes
  <2> QED
    BY <2>1, <2>2
<1>9. CASE mine < first /\ outcome' = outcome
  <2>1. CASE GivesUpCPU(st)
    <3>1. SwitchTo(T, q)
      BY <2>1, <1>9, <1>4 DEF Dispatch
    <3> QED
      BY <3>1, <1>5, <1>9 DEF Post, AfterDispatch, Outcomes
  <2>2. CASE ~GivesUpCPU(st)
    <3>1. Stay(T, q) /\ st # QUIT
      BY <2>2, <1>9, <1>4 DEF Dispatch, GivesUpCPU
    <3> QED
      BY <3>1, <1>4, <1>7, <1>9 DEF Post, AfterDispatch, Outcomes
  <2> QED
    BY <2>1, <2>2
<1>10. CASE mine = first /\ outcome' = IF st = QUIT THEN "quit_returned" ELSE outcome
  <2>1. CASE st \in {JOIN_BLOCK, ZAP_BLOCK}
    <3>1. SwitchTo(T, q)
      BY <2>1, <1>10, <1>4 DEF Dispatch
    <3> QED
      BY <3>1, <1>5, <1>10 DEF Post, AfterDispatch, Outcomes
  <2>2. CASE st \notin {JOIN_BLOCK, ZAP_BLOCK}
    <3>1. Stay(T, q)
      BY <2>2, <1>10, <1>4 DEF Dispatch
    <3> QED
      BY <3>1, <1>4, <1>7, <1>10 DEF Post, AfterDispatch, Outcomes
  <2> QED
    BY <2>1, <2>2
<1> QED
  BY <1>8, <1>9, <1>10 DEF Dispatch

-----------------------------------------------------------------------------
(***************************************************************************)
(* The inductive invariant.                                                *)
(***************************************************************************)
\* The kernel's program counter.  The sentinel makes no call, so no list walk
\* is its own, and a process that has quit is only found running after the
\* tie in which dispatcher returns to it.
CounterOK ==
    /\ nextPid >= 1
    /\ kpc # "user" => Current # SENTINELPID
    /\ kpc \in {"quitWake", "zapWalk"} => walker \in Slots
    /\ inCall[SENTINELPID] = "none"
    /\ (outcome = "running" /\ kpc \in {"user", "zapWalk"}) =>
          ProcTable[Current].status # QUIT
    /\ kpc \in {"quitWake", "quitParent"} => ProcTable[Current].status = QUIT

KernelInv ==
    /\ TypeOK
    /\ StaticOK(ProcTable, nextPid)
    /\ QueueOK(ProcTable, ReadyList)
    /\ RunnerOK
    /\ kpc = "user" => Strongest
    /\ CounterOK

LEMMA ModInSlots == \A n \in Nat : n % MAXPROC \in Slots
BY KernelAssumption DEF Slots

LEMMA ShortIsInt == \A n \in Nat : Short(n) \in Int /\ (n < ShortLimit => Short(n) = n)
<1> TAKE n \in Nat
<1>1. ShortLimit \in Nat /\ ShortLimit > 0
  BY KernelAssumption DEF SENTINELPID
<1>2. \A a \in Nat : \A m \in Nat : m > 0 => a % m \in Int
  OBVIOUS
<1>3. (n + ShortLimit) % (2 * ShortLimit) \in Int
  <2>1. n + ShortLimit \in Nat /\ 2 * ShortLimit \in Nat /\ 2 * ShortLimit > 0
    BY <1>1
  <2> HIDE DEF SENTINELPID
  <2> QED
    BY <1>2, <2>1
<1> QED
  BY <1>1, <1>3 DEF Short

LEMMA CleanEntryType == CleanEntry \in ProcStruct
BY EmptySeq DEF CleanEntry, ProcStruct, Pointers, UNUSED

IsNewEntry(e, p, prio, parent) ==
    /\ e \in ProcStruct
    /\ e.pid = Short(p) /\ e.priority = prio /\ e.status = READY
    /\ e.parentPtr = parent /\ e.childProcs = <<>> /\ e.zap = FALSE

LEMMA NewEntryFields ==
    ASSUME NEW p \in Nat, NEW prio \in Int, NEW parent \in Pointers
    PROVE  IsNewEntry(NewEntry(p, prio, parent), p, prio, parent)
<1> DEFINE e == NewEntry(p, prio, parent)
<1>1. /\ CleanEntry \in ProcStruct
      /\ CleanEntry.childProcs = <<>> /\ CleanEntry.zap = FALSE
  BY CleanEntryType DEF CleanEntry
<1>2. Short(p) \in Int /\ READY \in Nat
  BY ShortIsInt DEF READY
<1>3. e = [CleanEntry EXCEPT !.pid = Short(p), !.priority = prio, !.status = READY,
                             !.parentPtr = parent]
  BY DEF NewEntry
<1> HIDE DEF e
<1>4. e \in ProcStruct
  BY <1>1, <1>2, <1>3 DEF ProcStruct
<1>5. /\ e.pid = Short(p) /\ e.priority = prio /\ e.status = READY
      /\ e.parentPtr = parent
      /\ e.childProcs = CleanEntry.childProcs /\ e.zap = CleanEntry.zap
  BY <1>1, <1>3 DEF ProcStruct
<1> QED
  BY <1>1, <1>4, <1>5 DEF e, IsNewEntry

\* A list walk or a call that only the running process makes.
LEMMA CallerFacts ==
    ASSUME KernelInv, Calling
    PROVE  /\ Current \in Slots /\ Current # SENTINELPID
           /\ ProcTable[Current].status \notin {READY, UNUSED, QUIT}
           /\ ProcTable[SENTINELPID].status = READY
           /\ ProcTable[SENTINELPID].status \in Nat
           /\ kpc = "user" /\ outcome = "running" /\ outcome \in Outcomes
           /\ ProcTable \in [Slots -> ProcStruct]
BY ConstantFacts
   DEF KernelInv, Calling, RunnerOK, CounterOK, TypeOK, Outcomes, ProcStruct

LEMMA InitInv == Init => KernelInv
<1> SUFFICES ASSUME Init PROVE KernelInv
  OBVIOUS
<1>1. /\ SENTINELPID = 1 /\ SENTINELPID \in Slots /\ SENTINELPID + 1 \in Slots
      /\ SENTINELPID \in Nat /\ SENTINELPID + 1 \in Nat
      /\ NULL \in Pointers /\ SENTINELPRIORITY \in Int /\ MINPRIORITY \in Nat
      /\ MINPRIORITY >= 1
  BY ConstantFacts, KernelAssumption DEF SENTINELPID, Pointers, SENTINELPRIORITY, MAXPRIORITY
<1>2. ProcTable[SENTINELPID] = NewEntry(SENTINELPID, SENTINELPRIORITY, NULL)
  BY <1>1 DEF Init
<1>3. ProcTable[SENTINELPID+1] =
        [NewEntry(SENTINELPID + 1, 1, NULL) EXCEPT !.status = RUNNING]
  BY <1>1 DEF Init
<1>4. \A s \in Slots \ {SENTINELPID, SENTINELPID+1} : ProcTable[s] = CleanEntry
  BY <1>1 DEF Init
<1>5. /\ ProcTable[SENTINELPID] \in ProcStruct
      /\ ProcTable[SENTINELPID].pid = Short(SENTINELPID)
      /\ ProcTable[SENTINELPID].priority = SENTINELPRIORITY
      /\ ProcTable[SENTINELPID].status = READY
      /\ ProcTable[SENTINELPID].childProcs = <<>>
      /\ ProcTable[SENTINELPID].zap = FALSE
  <2>1. IsNewEntry(NewEntry(SENTINELPID, SENTINELPRIORITY, NULL),
                   SENTINELPID, SENTINELPRIORITY, NULL)
    BY <1>1, NewEntryFields
  <2> QED
    BY <1>2, <2>1 DEF IsNewEntry
<1>6. /\ ProcTable[SENTINELPID+1] \in ProcStruct
      /\ ProcTable[SENTINELPID+1].pid = Short(SENTINELPID+1)
      /\ ProcTable[SENTINELPID+1].priority = 1
      /\ ProcTable[SENTINELPID+1].status = RUNNING
      /\ ProcTable[SENTINELPID+1].childProcs = <<>>
      /\ ProcTable[SENTINELPID+1].zap = FALSE
  <2> DEFINE e == NewEntry(SENTINELPID + 1, 1, NULL)
  <2>1. IsNewEntry(e, SENTINELPID + 1, 1, NULL)
    <3>1. SENTINELPID + 1 \in Nat /\ 1 \in Int /\ NULL \in Pointers
      BY <1>1
    <3> QED
      BY <3>1, NewEntryFields
  <2> HIDE DEF e
  <2>2. ProcTable[SENTINELPID+1] = [e EXCEPT !.status = RUNNING]
    BY <1>3 DEF e
  <2> QED
    BY <2>1, <2>2 DEF IsNewEntry, ProcStruct, RUNNING
<1>7. /\ CleanEntry.status = UNUSED /\ CleanEntry.childProcs = <<>>
      /\ CleanEntry.zap = FALSE
  BY DEF CleanEntry
<1>8. ProcTable \in [Slots -> ProcStruct]
  <2>1. \A s \in Slots : ProcTable[s] \in ProcStruct
    BY <1>4, <1>5, <1>6, CleanEntryType
  <2> QED
    BY <2>1 DEF Init
<1>9. /\ ReadyList = <<SENTINELPID>> /\ Current = SENTINELPID + 1
      /\ nextPid = SENTINELPID + 2 /\ kpc = "user" /\ outcome = "running"
      /\ inCall[SENTINELPID] = "none"
  BY <1>1 DEF Init
<1>10. TypeOK
  BY <1>1, <1>8, <1>9 DEF TypeOK, Init, Pointers
<1>11. TableOK(ProcTable)
  BY <1>1, <1>4, <1>5, <1>6, <1>7, <1>8
     DEF TableOK, READY, UNUSED, RUNNING, MAXPRIORITY
<1>12. PidsOK(ProcTable, nextPid)
  <2>1. Short(1) = 1 /\ Short(2) = 2
    BY ShortIsInt, KernelAssumption DEF SENTINELPID
  <2>2. 1 % MAXPROC = 1 /\ 2 % MAXPROC = 2
    BY KernelAssumption
  <2> QED
    BY <1>1, <1>4, <1>5, <1>6, <1>7, <1>9, <2>1, <2>2 DEF PidsOK
<1>13. KidsOK(ProcTable)
  <2>1. \A s \in Slots : ProcTable[s].childProcs = <<>>
    BY <1>4, <1>5, <1>6, <1>7
  <2>2. Len(<<>>) = 0
    BY EmptySeq
  <2> QED
    BY <2>1, <2>2 DEF KidsOK, Distinct, Members
<1>14. QueueOK(ProcTable, ReadyList)
  <2>1. ReadyList \in Seq(Slots) /\ Len(ReadyList) = 1 /\ ReadyList[1] = SENTINELPID
    BY <1>1, <1>9
  <2>2. Members(ReadyList) = {SENTINELPID}
    BY <2>1 DEF Members
  <2>3. ReadySlots(ProcTable) = {SENTINELPID}
    <3>1. \A s \in Slots \ {SENTINELPID} : ProcTable[s].status \in {RUNNING, UNUSED}
      BY <1>4, <1>6, <1>7
    <3>2. READY \notin {RUNNING, UNUSED}
      BY DEF READY, RUNNING, UNUSED
    <3> QED
      BY <1>1, <1>5, <3>1, <3>2 DEF ReadySlots
  <2> QED
    BY <2>1, <2>2, <2>3 DEF QueueOK, Distinct, Sorted
<1>15. RunnerOK /\ Strongest /\ CounterOK
  <2>1. Members(ReadyList) = {SENTINELPID}
    BY <1>9 DEF Members
  <2> QED
    BY <1>1, <1>5, <1>6, <1>9, <2>1
       DEF RunnerOK, Strongest, CounterOK, Priority, READY, RUNNING, UNUSED, QUIT,
           SENTINELPRIORITY
<1> QED
  BY <1>10, <1>11, <1>12, <1>13, <1>14, <1>15 DEF KernelInv, StaticOK

-----------------------------------------------------------------------------
(***************************************************************************)
(* Every step keeps the invariant.                                         *)
(***************************************************************************)
\* What the invariant says of the variables dispatcher leaves alone.
RestOK ==
    /\ nextPid \in Nat /\ nextPid >= 1 /\ now \in Nat
    /\ inCall \in [Slots -> {"none", "join", "zap", "blockMe"}]
    /\ inCall[SENTINELPID] = "none"
    /\ victim \in [Slots -> Nat]
    /\ kpc = "user" /\ walker \in Pointers

\* From T to U no process but the running one ends or changes its pid, and only
\* a child of the running one that has quit is cleaned.
Kept(T, U) ==
    \A s \in Slots :
      /\ (T[s].status \notin {UNUSED, QUIT} /\ s # Current) =>
            U[s].status \notin {UNUSED, QUIT} /\ U[s].pid = T[s].pid
      /\ (T[s].status # UNUSED /\ U[s].status = UNUSED) =>
            T[s].status = QUIT /\ T[s].parentPtr = Current

StepOK == KernelInv' /\ Kept(ProcTable, ProcTable')

LEMMA KeptByStatusChange == ASSUME NEW T, NEW U, StatusChange(T, U) PROVE Kept(T, U)
BY DEF StatusChange, Kept

LEMMA KeptThen ==
    ASSUME NEW T, NEW U, NEW V, Kept(T, U), StatusChange(U, V) PROVE Kept(T, V)
BY DEF StatusChange, Kept

LEMMA KeptAlike ==
    ASSUME NEW T, NEW U,
           \A s \in Slots : U[s].status = T[s].status /\ U[s].pid = T[s].pid
    PROVE  Kept(T, U)
BY DEF Kept

\* An action that ends in dispatcher, for its table T and its ready list q.
LEMMA DispatchStep ==
    ASSUME NEW T, NEW q, DispatchReady(T, nextPid', q), Dispatch(T, q), RestOK',
           Kept(ProcTable, T)
    PROVE  StepOK
<1>1. AfterDispatch(T)
  BY DispatchKeeps
<1>2. StaticOK(ProcTable', nextPid')
  BY <1>1, StatusChangeKeeps DEF AfterDispatch, DispatchReady
<1>3. QueueOK(ProcTable', ReadyList') /\ RunnerOK' /\ Strongest' /\ outcome' \in Outcomes
  BY <1>1 DEF AfterDispatch
<1>4. TypeOK'
  BY <1>2, <1>3 DEF TypeOK, RestOK, StaticOK, TableOK, QueueOK, RunnerOK, Outcomes
<1>5. CounterOK'
  BY <1>1 DEF AfterDispatch, RestOK, CounterOK
<1>6. Kept(ProcTable, ProcTable')
  BY <1>1, KeptThen DEF AfterDispatch
<1>7. KernelInv'
  BY <1>2, <1>3, <1>4, <1>5 DEF KernelInv
<1> QED
  BY <1>6, <1>7 DEF StepOK

LEMMA HaltStep ==
    ASSUME KernelInv, NEW how \in Outcomes \ {"running"}, Halt(how)
    PROVE  StepOK
<1>1. KernelInv'
  BY DEF KernelInv, Halt, TypeOK, StaticOK, TableOK, PidsOK, KidsOK, QueueOK,
         Sorted, Distinct, Members, ReadySlots, RunnerOK, Strongest, CounterOK,
         Priority, Outcomes
<1>2. Kept(ProcTable, ProcTable')
  BY DEF Halt, Kept
<1> QED
  BY <1>1, <1>2 DEF StepOK

\* The running process blocks: its status becomes st, and the table T may
\* differ from the process table in zappers only.
LEMMA CallerUpdate ==
    ASSUME KernelInv, Calling, NEW st \in Nat, st \notin {READY, UNUSED, QUIT}
    PROVE  /\ DispatchReady([ProcTable EXCEPT ![Current].status = st], nextPid, ReadyList)
           /\ Kept(ProcTable, [ProcTable EXCEPT ![Current].status = st])
<1> DEFINE T == [ProcTable EXCEPT ![Current].status = st]
<1>1. /\ Current \in Slots /\ Current # SENTINELPID
      /\ ProcTable[Current].status \notin {READY, UNUSED, QUIT}
      /\ ProcTable[SENTINELPID].status = READY
      /\ outcome = "running" /\ ProcTable \in [Slots -> ProcStruct]
  BY CallerFacts
<1>2. SetsStatus(ProcTable, T, Current, st)
  <2>1. st \notin {UNUSED, QUIT} /\ ProcTable[Current].status \notin {UNUSED, QUIT}
    BY <1>1
  <2> QED
    BY <1>1, <2>1, StatusUpdate
<1> HIDE DEF T
<1>3. StatusChange(ProcTable, T)
  BY <1>2 DEF SetsStatus
<1>4. StaticOK(T, nextPid)
  BY <1>3, StatusChangeKeeps DEF KernelInv
<1>5. QueueOK(T, ReadyList)
  <2>1. ReadySlots(T) = ReadySlots(ProcTable)
    BY <1>1, <1>2 DEF SetsStatus, ReadySlots
  <2>2. Sorted(T, ReadyList)
    <3>1. \A i \in 1 .. Len(ReadyList) : ReadyList[i] \in Slots
      BY ElementOfSeq DEF KernelInv, QueueOK
    <3> QED
      BY <1>3, <3>1 DEF StatusChange, Sorted, KernelInv, QueueOK
  <2> QED
    BY <2>1, <2>2 DEF KernelInv, QueueOK
<1>6. T[Current].status = st /\ T[SENTINELPID].status = READY
  BY <1>1, <1>2, ConstantFacts DEF SetsStatus
<1>7. Kept(ProcTable, T)
  BY <1>3, KeptByStatusChange
<1> QED
  BY <1>1, <1>4, <1>5, <1>6, <1>7 DEF DispatchReady, T

LEMMA JoinBlockStep == KernelInv /\ JoinBlock => StepOK
<1> SUFFICES ASSUME KernelInv, JoinBlock PROVE StepOK
  OBVIOUS
<1>1. Calling /\ Current # SENTINELPID
  BY DEF JoinBlock, Calling
<1>2. JOIN_BLOCK \in Nat /\ JOIN_BLOCK \notin {READY, UNUSED, QUIT}
  BY DEF JOIN_BLOCK, READY, UNUSED, QUIT
<1> DEFINE T == [ProcTable EXCEPT ![Current].status = JOIN_BLOCK]
<1>3. DispatchReady(T, nextPid, ReadyList) /\ Kept(ProcTable, T)
  BY <1>1, <1>2, CallerUpdate
<1>4. Dispatch(T, ReadyList) /\ nextPid' = nextPid
  BY DEF JoinBlock
<1>5. RestOK'
  BY <1>1, ConstantFacts DEF JoinBlock, Calling, KernelInv, TypeOK, CounterOK, RestOK
<1> HIDE DEF T
<1> QED
  BY <1>3, <1>4, <1>5, DispatchStep

LEMMA BlockMeStep == \A st \in BlockStatuses : KernelInv /\ BlockMe(st) => StepOK
<1> SUFFICES ASSUME NEW st \in BlockStatuses, KernelInv, BlockMe(st) PROVE StepOK
  OBVIOUS
<1>1. Calling /\ Current # SENTINELPID /\ st \in Nat
  BY KernelAssumption DEF BlockMe, Calling
<1>2. CASE st <= 10
  <2>1. Halt("halted")
    BY <1>2 DEF BlockMe
  <2> QED
    BY <2>1, HaltStep DEF Outcomes
<1>3. CASE st > 10
  <2>1. st \notin {READY, UNUSED, QUIT}
    BY <1>1, <1>3 DEF READY, UNUSED, QUIT
  <2> DEFINE T == [ProcTable EXCEPT ![Current].status = st]
  <2>2. DispatchReady(T, nextPid, ReadyList) /\ Kept(ProcTable, T)
    BY <1>1, <2>1, CallerUpdate
  <2>3. /\ Dispatch(T, ReadyList)
        /\ inCall' = [inCall EXCEPT ![Current] = "blockMe"]
        /\ UNCHANGED <<nextPid, now, victim, kpc, walker>>
    BY <1>1, <1>3 DEF BlockMe
  <2>4. RestOK'
    BY <1>1, <2>3, ConstantFacts DEF Calling, KernelInv, TypeOK, CounterOK, RestOK
  <2>5. nextPid' = nextPid
    BY <2>3
  <2> HIDE DEF T
  <2> QED
    BY <2>2, <2>3, <2>4, <2>5, DispatchStep
<1> QED
  BY <1>1, <1>2, <1>3

LEMMA PidRangeGrows == \A a, b \in Nat : b >= a => 1 .. a-1 \subseteq 1 .. b-1
OBVIOUS

\* A pid spent on nothing.
LEMMA PidSpentStep == KernelInv /\ (ForkTableFull \/ ForkRejected) => StepOK
<1> SUFFICES ASSUME KernelInv, ForkTableFull \/ ForkRejected PROVE StepOK
  OBVIOUS
<1>1. /\ UNCHANGED <<ProcTable, ReadyList, Current, now, inCall, victim, kpc,
                     walker, outcome>>
      /\ nextPid' \in Nat /\ nextPid' >= nextPid /\ nextPid \in Nat
  <2>1. nextPid \in Nat /\ MAXPROC \in Nat /\ Slots \subseteq Nat
    BY KernelAssumption DEF KernelInv, TypeOK, Slots
  <2>2. CASE ForkTableFull
    BY <2>1, <2>2 DEF ForkTableFull
  <2>3. CASE ForkRejected
    BY <2>1, <2>3 DEF ForkRejected
  <2> QED
    BY <2>2, <2>3
<1>2. PidsOK(ProcTable, nextPid')
  <2>1. 1 .. nextPid-1 \subseteq 1 .. nextPid'-1
    BY <1>1, PidRangeGrows
  <2>2. \A s \in Slots : ProcTable[s].pid \in Int
    BY DEF KernelInv, TypeOK, ProcStruct
  <2> QED
    BY <2>1, <2>2 DEF KernelInv, StaticOK, PidsOK
<1>3. StaticOK(ProcTable', nextPid')
  BY <1>1, <1>2 DEF KernelInv, StaticOK
<1>4. TypeOK'
  BY <1>1 DEF KernelInv, TypeOK
<1>5. KernelInv'
  BY <1>1, <1>3, <1>4 DEF KernelInv, RunnerOK, Strongest, Priority, CounterOK, TypeOK
<1>6. Kept(ProcTable, ProcTable')
  BY <1>1, KeptAlike
<1> QED
  BY <1>5, <1>6 DEF StepOK

\* A change of the list of children, which dispatching does not look at.
SameButKids(d, e, k) ==
    /\ d \in ProcStruct /\ d.childProcs = k
    /\ d.status = e.status /\ d.priority = e.priority /\ d.pid = e.pid
    /\ d.parentPtr = e.parentPtr /\ d.zap = e.zap /\ d.zappedPtr = e.zappedPtr

LEMMA NewKids ==
    ASSUME NEW e \in ProcStruct, NEW k \in Seq(Slots), NEW d,
           d = [e EXCEPT !.childProcs = k]
    PROVE  SameButKids(d, e, k)
BY DEF SameButKids, ProcStruct

LEMMA NewKidsCounted ==
    ASSUME NEW e \in ProcStruct, NEW k \in Seq(Slots), NEW c \in Int, NEW d,
           d = [e EXCEPT !.childProcs = k, !.childCount = c]
    PROVE  SameButKids(d, e, k)
BY DEF SameButKids, ProcStruct

\* The table T that fork1 hands to the dispatcher when it has given the pid p:
\* it fills in the slot of the new process and appends it to the children of
\* the caller; the new process goes on the ready list.
ForkedTable(prio, p, T) ==
    LET s == SlotOf(p)
        q == AddToReadyList(T, ReadyList, s)
    IN  /\ p \in Nat /\ p >= nextPid /\ p <= MaxPid /\ nextPid' = p + 1
        /\ s \in Slots /\ s # Current /\ ProcTable[s].status = UNUSED
        /\ T[s] = NewEntry(p, prio, Current)
        /\ T[Current] = [ProcTable[Current] EXCEPT
                           !.childProcs = Append(ProcTable[Current].childProcs, s),
                           !.childCount = ProcTable[Current].childCount + 1]
        /\ \A r \in Slots \ {s, Current} : T[r] = ProcTable[r]
        /\ DispatchReady(T, nextPid', q) /\ Dispatch(T, q)
        /\ RestOK' /\ Kept(ProcTable, T)

LEMMA ForkCreateTable ==
    \A prio \in ForkPriorities : KernelInv /\ ForkCreate(prio) =>
        Calling /\ prio \in Int /\ \E p, T : ForkedTable(prio, p, T)
<1> SUFFICES ASSUME NEW prio \in ForkPriorities, KernelInv, ForkCreate(prio)
             PROVE  Calling /\ prio \in Int /\ \E p, T : ForkedTable(prio, p, T)
  OBVIOUS
<1>1. /\ Calling /\ prio \in MAXPRIORITY .. MINPRIORITY /\ prio \in Int
      /\ UNCHANGED <<now, inCall, victim, kpc, walker>>
  BY KernelAssumption DEF ForkCreate
<1>2. /\ Current \in Slots /\ Current # SENTINELPID
      /\ ProcTable[Current].status \notin {READY, UNUSED, QUIT}
      /\ ProcTable[SENTINELPID].status = READY
      /\ outcome = "running" /\ ProcTable \in [Slots -> ProcStruct]
      /\ nextPid \in Nat
  BY <1>1, CallerFacts DEF KernelInv, TypeOK
<1>3. PICK i \in Slots :
        LET s == SlotOf(nextPid + i)
            T == [ProcTable EXCEPT
                    ![s] = NewEntry(nextPid + i, prio, Current),
                    ![Current].childProcs = Append(@, s),
                    ![Current].childCount = @ + 1]
        IN  /\ FirstFree(i) /\ nextPid + i <= MaxPid
            /\ nextPid' = nextPid + i + 1
            /\ Dispatch(T, AddToReadyList(T, ReadyList, s))
  BY DEF ForkCreate
<1> DEFINE p == nextPid + i
           s == SlotOf(p)
           e == NewEntry(p, prio, Current)
           kids == ProcTable[Current].childProcs
           T == [ProcTable EXCEPT ![s] = e,
                                  ![Current].childProcs = Append(@, s),
                                  ![Current].childCount = @ + 1]
<1>4. /\ p \in Nat /\ s = p % MAXPROC /\ s \in Slots
      /\ p <= MaxPid /\ nextPid' = p + 1
      /\ ProcTable[s].status = UNUSED
      /\ Dispatch(T, AddToReadyList(T, ReadyList, s))
  BY <1>2, <1>3, ModInSlots DEF FirstFree, Slots, SlotOf
<1>5. IsNewEntry(e, p, prio, Current)
  <2>1. Current \in Pointers
    BY <1>2 DEF Pointers
  <2> QED
    BY <1>1, <1>4, <2>1, NewEntryFields
<1> HIDE DEF e, s, p
<1>6. s # Current /\ s # SENTINELPID
  BY <1>2, <1>4 DEF READY, UNUSED
<1>7. /\ T[s] = e
      /\ T[Current] = [ProcTable[Current] EXCEPT
                         !.childProcs = Append(kids, s),
                         !.childCount = ProcTable[Current].childCount + 1]
      /\ \A r \in Slots \ {s, Current} : T[r] = ProcTable[r]
  BY <1>2, <1>4, <1>6
<1>8. /\ kids \in Seq(Slots) /\ ProcTable[Current].childCount \in Int
      /\ Append(kids, s) \in Seq(Slots)
      /\ Len(Append(kids, s)) = Len(kids) + 1 /\ Len(kids) \in Nat
      /\ \A j \in 1 .. Len(kids) : Append(kids, s)[j] = kids[j]
      /\ Append(kids, s)[Len(kids)+1] = s
  <2>1. kids \in Seq(Slots) /\ ProcTable[Current].childCount \in Int
    BY <1>2 DEF ProcStruct
  <2> QED
    BY <2>1, <1>4, AppendProperties, LenProperties
<1>9. SameButKids(T[Current], ProcTable[Current], Append(kids, s))
  <2>1. ProcTable[Current] \in ProcStruct /\ ProcTable[Current].childCount + 1 \in Int
    BY <1>2, <1>8
  <2>2. T[Current] = [ProcTable[Current] EXCEPT
                        !.childProcs = Append(kids, s),
                        !.childCount = ProcTable[Current].childCount + 1]
    BY <1>7
  <2>3. Append(kids, s) \in Seq(Slots)
    BY <1>8
  <2> HIDE DEF T, kids
  <2> QED
    BY <2>1, <2>2, <2>3, NewKidsCounted
<1>10. T \in [Slots -> ProcStruct]
  <2>1. \A r \in Slots : T[r] \in ProcStruct
    BY <1>2, <1>5, <1>7, <1>9 DEF IsNewEntry, SameButKids
  <2> QED
    BY <2>1, <1>2
<1> HIDE DEF T
<1>11. TableOK(T)
  <2>1. /\ T[SENTINELPID].priority = SENTINELPRIORITY
        /\ T[SENTINELPID].status # UNUSED
    BY <1>2, <1>6, <1>7, ConstantFacts DEF KernelInv, StaticOK, TableOK
  <2>2. \A r \in Slots \ {SENTINELPID} :
            T[r].status # UNUSED => T[r].priority \in MAXPRIORITY .. MINPRIORITY
    <3>1. T[s].priority \in MAXPRIORITY .. MINPRIORITY
      BY <1>1, <1>5, <1>7 DEF IsNewEntry
    <3>2. /\ T[Current].status = ProcTable[Current].status
          /\ T[Current].priority = ProcTable[Current].priority
      BY <1>9 DEF SameButKids
    <3>3. \A r \in Slots \ {SENTINELPID} : ProcTable[r].status # UNUSED =>
              ProcTable[r].priority \in MAXPRIORITY .. MINPRIORITY
      BY DEF KernelInv, StaticOK, TableOK
    <3> QED
      BY <3>1, <3>2, <3>3, <1>7
  <2>3. \A r \in Slots : T[r].zap => T[r].zappedPtr \in Slots
    <3>1. T[s].zap = FALSE
      BY <1>5, <1>7 DEF IsNewEntry
    <3>2. /\ T[Current].zap = ProcTable[Current].zap
          /\ T[Current].zappedPtr = ProcTable[Current].zappedPtr
      BY <1>9 DEF SameButKids
    <3>3. \A r \in Slots : ProcTable[r].zap => ProcTable[r].zappedPtr \in Slots
      BY DEF KernelInv, StaticOK, TableOK
    <3> QED
      BY <3>1, <3>2, <3>3, <1>7
  <2> QED
    BY <1>10, <2>1, <2>2, <2>3 DEF TableOK
<1>12. PidsOK(T, nextPid')
  <2> SUFFICES ASSUME MaxPid < ShortLimit, NEW r \in Slots, T[r].status # UNUSED
               PROVE  T[r].pid % MAXPROC = r /\ T[r].pid \in 1 .. nextPid'-1
    BY DEF PidsOK
  <2>1. nextPid \in Nat /\ p >= nextPid /\ p \in Nat /\ nextPid' = p + 1 /\ p <= MaxPid
    BY <1>2, <1>4 DEF Slots, p
  <2>2. CASE r = s
    <3>1. Short(p) = p
      BY <2>1, ShortIsInt, KernelAssumption
    <3>2. 1 <= p
      BY <2>1 DEF KernelInv, CounterOK, TypeOK
    <3> QED
      BY <2>1, <2>2, <3>1, <3>2, <1>4, <1>5, <1>7 DEF IsNewEntry
  <2>3. CASE r # s
    <3>1. T[r].pid = ProcTable[r].pid /\ T[r].status = ProcTable[r].status
      BY <2>3, <1>7, <1>9 DEF SameButKids
    <3>2. /\ ProcTable[r].pid % MAXPROC = r
          /\ ProcTable[r].pid \in 1 .. nextPid-1
      BY <3>1 DEF KernelInv, StaticOK, PidsOK
    <3> QED
      BY <2>1, <3>1, <3>2
  <2> QED
    BY <2>2, <2>3
<1>13. KidsOK(T)
  <2>1. \A r \in Slots : \A c \in Members(ProcTable[r].childProcs) :
            /\ c \in Slots /\ c # s /\ T[c].parentPtr = ProcTable[c].parentPtr
            /\ T[c].status = ProcTable[c].status
            /\ ProcTable[c].status # UNUSED /\ ProcTable[c].parentPtr = r
    <3> SUFFICES ASSUME NEW r \in Slots, NEW c \in Members(ProcTable[r].childProcs)
                 PROVE  /\ c \in Slots /\ c # s /\ T[c].parentPtr = ProcTable[c].parentPtr
                        /\ T[c].status = ProcTable[c].status
                        /\ ProcTable[c].status # UNUSED /\ ProcTable[c].parentPtr = r
      OBVIOUS
    <3>1. ProcTable[r].childProcs \in Seq(Slots)
      BY <1>2 DEF ProcStruct
    <3>2. c \in Slots
      BY <3>1, ElementOfSeq DEF Members
    <3>3. ProcTable[c].status # UNUSED /\ ProcTable[c].parentPtr = r
      BY DEF KernelInv, StaticOK, KidsOK
    <3> QED
      BY <3>2, <3>3, <1>4, <1>7, <1>9 DEF SameButKids
  <2> SUFFICES ASSUME NEW r \in Slots
               PROVE  /\ Distinct(T[r].childProcs)
                      /\ \A c \in Members(T[r].childProcs) :
                            T[c].status # UNUSED /\ T[c].parentPtr = r
    BY DEF KidsOK
  <2>2. CASE r = s
    <3>1. T[r].childProcs = <<>> /\ Len(<<>>) = 0
      BY <2>2, <1>5, <1>7, EmptySeq DEF IsNewEntry
    <3> QED
      BY <3>1 DEF Distinct, Members
  <2>3. CASE r \notin {s, Current}
    <3>1. T[r].childProcs = ProcTable[r].childProcs
      BY <2>3, <1>7
    <3>2. Distinct(ProcTable[r].childProcs)
      BY DEF KernelInv, StaticOK, KidsOK
    <3> QED
      BY <2>1, <3>1, <3>2
  <2>4. CASE r = Current
    <3>1. T[r].childProcs = Append(kids, s)
      BY <2>4, <1>9 DEF SameButKids
    <3>2. \A c \in Members(Append(kids, s)) : c = s \/ c \in Members(kids)
      BY <1>8 DEF Members
    <3>3. \A c \in Members(kids) : c # s /\ T[c].status # UNUSED /\ T[c].parentPtr = Current
      BY <2>1, <1>2
    <3>4. T[s].status # UNUSED /\ T[s].parentPtr = Current
      BY <1>5, <1>7 DEF IsNewEntry, READY, UNUSED
    <3>5. Distinct(kids)
      BY <1>2 DEF KernelInv, StaticOK, KidsOK
    <3>6. \A j \in 1 .. Len(kids) : kids[j] # s
      BY <3>3 DEF Members
    <3> HIDE DEF kids
    <3>7. Distinct(Append(kids, s))
      BY <1>8, <3>5, <3>6 DEF Distinct
    <3> QED
      BY <2>4, <3>1, <3>2, <3>3, <3>4, <3>7
  <2> QED
    BY <2>2, <2>3, <2>4
<1>14. QueueOK(T, AddToReadyList(T, ReadyList, s))
  <2>1. s \notin Members(ReadyList)
    BY <1>4 DEF KernelInv, QueueOK, ReadySlots, READY, UNUSED
  <2>2. \A r \in Slots \ {s} : T[r].status = ProcTable[r].status
                                /\ T[r].priority = ProcTable[r].priority
    BY <1>7, <1>9 DEF SameButKids
  <2>3. T[s].status = READY
    BY <1>5, <1>7 DEF IsNewEntry
  <2>4. Members(ReadyList) = ReadySlots(T) \ {s}
    <3>1. Members(ReadyList) = ReadySlots(ProcTable)
      BY DEF KernelInv, QueueOK
    <3>2. s \notin ReadySlots(ProcTable)
      BY <2>1, <3>1
    <3>3. ReadySlots(T) \ {s} = ReadySlots(ProcTable)
      BY <2>2, <3>2 DEF ReadySlots
    <3> QED
      BY <3>1, <3>3
  <2>5. Sorted(T, ReadyList)
    <3>1. \A j \in 1 .. Len(ReadyList) : ReadyList[j] \in Slots \ {s}
      BY <2>1, ElementOfSeq DEF Members, KernelInv, QueueOK
    <3> QED
      BY <2>2, <3>1 DEF Sorted, KernelInv, QueueOK
  <2>6. ReadyList \in Seq(Slots) /\ Distinct(ReadyList)
    BY DEF KernelInv, QueueOK
  <2> QED
    BY <1>4, <1>10, <2>1, <2>3, <2>4, <2>5, <2>6, AddKeepsQueue
<1>15. DispatchReady(T, nextPid', AddToReadyList(T, ReadyList, s))
  <2>1. T[SENTINELPID].status = READY
    BY <1>2, <1>6, <1>7, ConstantFacts
  <2>2. T[Current].status \notin {READY, UNUSED}
    BY <1>2, <1>9 DEF SameButKids
  <2> QED
    BY <1>2, <1>11, <1>12, <1>13, <1>14, <2>1, <2>2 DEF DispatchReady, StaticOK
<1>16. RestOK'
  <2>1. nextPid' \in Nat /\ nextPid' >= 1
    BY <1>4
  <2> QED
    BY <1>1, <2>1 DEF Calling, KernelInv, TypeOK, CounterOK, RestOK
<1>17. Kept(ProcTable, T)
  <2>1. \A r \in Slots \ {s} :
            T[r].status = ProcTable[r].status /\ T[r].pid = ProcTable[r].pid
    BY <1>7, <1>9 DEF SameButKids
  <2> QED
    BY <2>1, <1>4 DEF Kept
<1>18. p >= nextPid
  BY <1>2 DEF p, Slots
<1>19. ForkedTable(prio, p, T)
  BY <1>4, <1>6, <1>7, <1>15, <1>16, <1>17, <1>18 DEF ForkedTable, s, e
<1> QED
  BY <1>1, <1>19

LEMMA ForkCreateStep == \A prio \in ForkPriorities : KernelInv /\ ForkCreate(prio) => StepOK
<1> SUFFICES ASSUME NEW prio \in ForkPriorities, KernelInv, ForkCreate(prio)
             PROVE  StepOK
  OBVIOUS
<1>1. PICK p, T : ForkedTable(prio, p, T)
  BY ForkCreateTable
<1> QED
  BY <1>1, DispatchStep DEF ForkedTable

\* join takes a child that has quit off its caller's list and cleans its slot.
LEMMA ReapStep ==
    ASSUME KernelInv, kpc = "user", outcome = "running", Current # SENTINELPID,
           NEW i \in DOMAIN ProcTable[Current].childProcs,
           ProcTable[ProcTable[Current].childProcs[i]].status = QUIT,
           ProcTable' = Reap(Current, i), RestOK',
           UNCHANGED <<ReadyList, Current, nextPid, outcome>>
    PROVE  StepOK
<1> DEFINE kids == ProcTable[Current].childProcs
           left == RemoveAt(kids, i)
           c == kids[i]
           T == ProcTable'
<1>1. /\ Current \in Slots /\ ProcTable[Current].status \notin {READY, UNUSED, QUIT}
      /\ ProcTable[SENTINELPID].status = READY
      /\ ProcTable \in [Slots -> ProcStruct]
  BY DEF KernelInv, RunnerOK, CounterOK, TypeOK
<1>2. kids \in Seq(Slots) /\ Len(kids) \in Nat /\ i \in 1 .. Len(kids)
  <2>1. kids \in Seq(Slots)
    BY <1>1 DEF ProcStruct
  <2> QED
    BY <2>1, LenProperties
<1>3. c \in Slots /\ c # Current /\ c # SENTINELPID /\ ProcTable[c].status = QUIT
  <2>1. c \in Slots
    BY <1>2, ElementOfSeq
  <2> QED
    BY <2>1, <1>1 DEF READY, QUIT
<1>4. /\ left \in Seq(Slots) /\ Len(left) = Len(kids) - 1
      /\ \A j \in 1 .. Len(kids)-1 : left[j] = IF j < i THEN kids[j] ELSE kids[j+1]
  <2> HIDE DEF kids
  <2> QED
    BY <1>2, RemoveAtElements
<1>5. /\ T[c] = CleanEntry
      /\ T[Current] = [ProcTable[Current] EXCEPT !.childProcs = left]
      /\ \A r \in Slots \ {c, Current} : T[r] = ProcTable[r]
  <2>1. T = [ProcTable EXCEPT ![c] = CleanEntry, ![Current].childProcs = RemoveAt(@, i)]
    BY DEF Reap
  <2> HIDE DEF c
  <2> QED
    BY <2>1, <1>1, <1>3
<1>6. SameButKids(T[Current], ProcTable[Current], left)
  <2>1. T[Current] = [ProcTable[Current] EXCEPT !.childProcs = left]
    BY <1>5
  <2>2. ProcTable[Current] \in ProcStruct /\ left \in Seq(Slots)
    BY <1>1, <1>4
  <2> HIDE DEF T, left
  <2> QED
    BY <2>1, <2>2, NewKids
<1>7. /\ CleanEntry.status = UNUSED /\ CleanEntry.childProcs = <<>>
      /\ CleanEntry.zap = FALSE /\ CleanEntry \in ProcStruct
  BY CleanEntryType DEF CleanEntry
<1>8. T \in [Slots -> ProcStruct]
  <2>1. \A r \in Slots : T[r] \in ProcStruct
    BY <1>5, <1>6, <1>7, <1>1 DEF SameButKids
  <2>2. T = [ProcTable EXCEPT ![c] = CleanEntry, ![Current].childProcs = RemoveAt(@, i)]
    BY DEF Reap
  <2> HIDE DEF c, left
  <2> QED
    BY <2>1, <2>2, <1>1
<1> HIDE DEF T, left, c
<1>9. TableOK(T)
  <2>1. T[SENTINELPID].priority = SENTINELPRIORITY /\ T[SENTINELPID].status # UNUSED
    BY <1>3, <1>5, ConstantFacts DEF KernelInv, StaticOK, TableOK
  <2>2. \A r \in Slots \ {SENTINELPID} :
            T[r].status # UNUSED => T[r].priority \in MAXPRIORITY .. MINPRIORITY
    BY <1>5, <1>6, <1>7 DEF SameButKids, KernelInv, StaticOK, TableOK
  <2>3. \A r \in Slots : T[r].zap => T[r].zappedPtr \in Slots
    BY <1>5, <1>6, <1>7 DEF SameButKids, KernelInv, StaticOK, TableOK
  <2> QED
    BY <1>8, <2>1, <2>2, <2>3 DEF TableOK
<1>10. PidsOK(T, nextPid')
  <2>1. \A r \in Slots : T[r].status # UNUSED =>
            T[r].pid = ProcTable[r].pid /\ ProcTable[r].status # UNUSED
    BY <1>1, <1>5, <1>6, <1>7 DEF SameButKids
  <2> QED
    BY <2>1 DEF KernelInv, StaticOK, PidsOK
<1>11. KidsOK(T)
  <2>1. \A r \in Slots : \A x \in Members(ProcTable[r].childProcs) :
            /\ x \in Slots /\ ProcTable[x].status # UNUSED /\ ProcTable[x].parentPtr = r
            /\ x # c => T[x].status = ProcTable[x].status
                        /\ T[x].parentPtr = ProcTable[x].parentPtr
    <3> SUFFICES ASSUME NEW r \in Slots, NEW x \in Members(ProcTable[r].childProcs)
                 PROVE  /\ x \in Slots /\ ProcTable[x].status # UNUSED
                        /\ ProcTable[x].parentPtr = r
                        /\ x # c => T[x].status = ProcTable[x].status
                                    /\ T[x].parentPtr = ProcTable[x].parentPtr
      OBVIOUS
    <3>1. ProcTable[r].childProcs \in Seq(Slots)
      BY <1>1 DEF ProcStruct
    <3>2. x \in Slots
      BY <3>1, ElementOfSeq DEF Members
    <3>3. ProcTable[x].status # UNUSED /\ ProcTable[x].parentPtr = r
      BY DEF KernelInv, StaticOK, KidsOK
    <3> QED
      BY <3>2, <3>3, <1>5, <1>6 DEF SameButKids
  <2> SUFFICES ASSUME NEW r \in Slots
               PROVE  /\ Distinct(T[r].childProcs)
                      /\ \A x \in Members(T[r].childProcs) :
                            T[x].status # UNUSED /\ T[x].parentPtr = r
    BY DEF KidsOK
  <2>2. CASE r = c
    <3>1. T[r].childProcs = <<>> /\ Len(<<>>) = 0
      BY <2>2, <1>5, <1>7, EmptySeq
    <3> QED
      BY <3>1 DEF Distinct, Members
  <2>3. CASE r \notin {c, Current}
    <3>1. T[r].childProcs = ProcTable[r].childProcs
      BY <2>3, <1>5
    <3>2. Distinct(ProcTable[r].childProcs)
      BY DEF KernelInv, StaticOK, KidsOK
    <3>3. c \in Members(kids)
      BY <1>2 DEF Members, c
    <3>4. ProcTable[c].parentPtr = Current
      BY <3>3, <2>1, <1>1
    <3>5. \A x \in Members(ProcTable[r].childProcs) : x # c
      BY <3>4, <2>1, <2>3
    <3> QED
      BY <2>1, <3>1, <3>2, <3>5
  <2>4. CASE r = Current
    <3>1. T[r].childProcs = left
      BY <2>4, <1>6 DEF SameButKids
    <3>2. Distinct(kids)
      BY <1>1 DEF KernelInv, StaticOK, KidsOK
    <3> HIDE DEF kids
    <3>3. \A j \in 1 .. Len(left) : \E k \in 1 .. Len(kids) :
              left[j] = kids[k] /\ k # i /\ k = IF j < i THEN j ELSE j+1
      <4> TAKE j \in 1 .. Len(left)
      <4>1. CASE j < i
        BY <4>1, <1>2, <1>4
      <4>2. CASE j >= i
        <5>1. j+1 \in 1 .. Len(kids) /\ j+1 # i /\ left[j] = kids[j+1]
          BY <4>2, <1>2, <1>4
        <5> QED
          BY <5>1, <4>2, <1>2
      <4> QED
        BY <4>1, <4>2, <1>2
    <3>4. Distinct(left)
      <4> SUFFICES ASSUME NEW j \in 1 .. Len(left), NEW k \in 1 .. Len(left),
                          left[j] = left[k]
                   PROVE  j = k
        BY DEF Distinct
      <4>1. PICK a \in 1 .. Len(kids) : left[j] = kids[a] /\ a = IF j < i THEN j ELSE j+1
        BY <3>3
      <4>2. PICK b \in 1 .. Len(kids) : left[k] = kids[b] /\ b = IF k < i THEN k ELSE k+1
        BY <3>3
      <4>3. a = b
        BY <4>1, <4>2, <3>2 DEF Distinct
      <4> QED
        BY <4>1, <4>2, <4>3, <1>2
    <3>5. \A x \in Members(left) : x \in Members(kids) /\ x # c
      <4> SUFFICES ASSUME NEW j \in 1 .. Len(left)
                   PROVE  left[j] \in Members(kids) /\ left[j] # c
        BY DEF Members
      <4>1. PICK k \in 1 .. Len(kids) : left[j] = kids[k] /\ k # i
        BY <3>3
      <4>2. kids[k] # kids[i]
        BY <4>1, <3>2, <1>2 DEF Distinct
      <4> QED
        BY <4>1, <4>2 DEF Members, c
    <3>6. \A x \in Members(kids) : x # c => T[x].status # UNUSED /\ T[x].parentPtr = Current
      BY <2>1, <1>1 DEF kids
    <3> QED
      BY <2>4, <3>1, <3>4, <3>5, <3>6
  <2> QED
    BY <2>2, <2>3, <2>4
<1>12. QueueOK(T, ReadyList')
  <2>1. \A r \in ReadySlots(ProcTable) : r # c
    BY <1>3 DEF ReadySlots, READY, QUIT
  <2>2. ReadySlots(T) = ReadySlots(ProcTable)
    <3>1. \A r \in Slots \ {c} : T[r].status = ProcTable[r].status
      BY <1>5, <1>6 DEF SameButKids
    <3>2. T[c].status # READY
      BY <1>5, <1>7 DEF READY, UNUSED
    <3> QED
      BY <2>1, <3>1, <3>2 DEF ReadySlots
  <2>3. \A r \in ReadySlots(ProcTable) : T[r].priority = ProcTable[r].priority
    BY <2>1, <1>5, <1>6 DEF SameButKids, ReadySlots
  <2>4. \A j \in 1 .. Len(ReadyList) : ReadyList[j] \in ReadySlots(ProcTable)
    BY DEF KernelInv, QueueOK, Members
  <2>5. Sorted(T, ReadyList)
    BY <2>3, <2>4 DEF Sorted, KernelInv, QueueOK
  <2> QED
    BY <2>2, <2>5 DEF KernelInv, QueueOK
<1>13. T[Current].status = ProcTable[Current].status /\ T[Current].priority = ProcTable[Current].priority
  BY <1>6 DEF SameButKids
<1>14. RunnerOK'
  BY <1>1, <1>3, <1>5, <1>13, ConstantFacts DEF RunnerOK, T
<1>15. Strongest'
  <2>1. \A r \in Members(ReadyList) : r \in ReadySlots(ProcTable)
    BY DEF KernelInv, QueueOK
  <2>2. \A r \in Members(ReadyList) : T[r].priority = ProcTable[r].priority
    <3>1. \A r \in ReadySlots(ProcTable) : r # c
      BY <1>3 DEF ReadySlots, READY, QUIT
    <3> QED
      BY <2>1, <3>1, <1>5, <1>6 DEF SameButKids, ReadySlots
  <2> QED
    BY <2>2, <1>13 DEF KernelInv, Strongest, Priority, T
<1>16. TypeOK'
  BY <1>8, <1>1 DEF KernelInv, TypeOK, RestOK, T
<1>17. CounterOK'
  BY <1>1, <1>13 DEF CounterOK, RestOK, T
<1>18. Kept(ProcTable, T)
  <2>1. ProcTable[c].parentPtr = Current
    <3>1. c \in Members(kids)
      BY <1>2 DEF Members, c
    <3> QED
      BY <3>1, <1>1 DEF KernelInv, StaticOK, KidsOK
  <2>2. \A r \in Slots \ {c} : T[r].status = ProcTable[r].status /\ T[r].pid = ProcTable[r].pid
    BY <1>5, <1>6 DEF SameButKids
  <2> QED
    BY <2>1, <2>2, <1>3 DEF Kept
<1>19. KernelInv'
  BY <1>9, <1>10, <1>11, <1>12, <1>14, <1>15, <1>16, <1>17 DEF KernelInv, StaticOK, T
<1> QED
  BY <1>18, <1>19 DEF StepOK, T

LEMMA JoinQuitChildStep == KernelInv /\ JoinQuitChild => StepOK
<1> SUFFICES ASSUME KernelInv, JoinQuitChild PROVE StepOK
  OBVIOUS
<1>1. Calling
  BY DEF JoinQuitChild
<1>2. PICK i \in DOMAIN ProcTable[Current].childProcs :
        /\ EarliestAt(Current, i)
        /\ \/ Halt("null_pointer")
           \/ /\ ProcTable' = Reap(Current, i)
              /\ UNCHANGED <<ReadyList, Current, nextPid, now, inCall, victim,
                             kpc, walker, outcome>>
  BY DEF JoinQuitChild
<1>3. CASE Halt("null_pointer")
  BY <1>3, HaltStep DEF Outcomes
<1>4. CASE /\ ProcTable' = Reap(Current, i)
           /\ UNCHANGED <<ReadyList, Current, nextPid, now, inCall, victim,
                          kpc, walker, outcome>>
  <2>1. ProcTable[ProcTable[Current].childProcs[i]].status = QUIT
    BY <1>2 DEF EarliestAt, SeenToHaveQuit
  <2>2. RestOK'
    BY <1>1, <1>4 DEF Calling, KernelInv, TypeOK, CounterOK, RestOK
  <2> QED
    BY <1>1, <1>4, <2>1, <2>2, ReapStep DEF Calling
<1> QED
  BY <1>2, <1>3, <1>4

LEMMA JoinResumeStep == KernelInv /\ JoinResume => StepOK
<1> SUFFICES ASSUME KernelInv, JoinResume PROVE StepOK
  OBVIOUS
<1>1. outcome = "running" /\ kpc = "user" /\ Current # SENTINELPID
  BY DEF JoinResume, KernelInv, CounterOK
<1>2. CASE Halt("null_pointer") \/ Halt("corrupt")
  BY <1>2, HaltStep DEF Outcomes
<1>3. ASSUME NEW i \in DOMAIN ProcTable[Current].childProcs,
             ProcTable[ProcTable[Current].childProcs[i]].status = QUIT,
             ProcTable' = Reap(Current, i),
             inCall' = [inCall EXCEPT ![Current] = "none"],
             UNCHANGED <<ReadyList, Current, nextPid, now, victim, kpc, walker, outcome>>
      PROVE  StepOK
  <2>1. RestOK'
    BY <1>1, <1>3, ConstantFacts DEF KernelInv, TypeOK, CounterOK, RestOK
  <2> QED
    BY <1>1, <1>3, <2>1, ReapStep
<1> QED
  BY <1>1, <1>2, <1>3 DEF JoinResume

\* A change of one process that leaves its place in the table and on the ready
\* list as they are: what the list walks and quit do before the dispatcher.
LEMMA QuitStep == KernelInv /\ Quit => StepOK
<1> SUFFICES ASSUME KernelInv, Quit PROVE StepOK
  OBVIOUS
<1>1. /\ Calling /\ Current \in Slots /\ Current # SENTINELPID
      /\ ProcTable[Current].status \notin {READY, UNUSED, QUIT}
      /\ ProcTable[SENTINELPID].status = READY
      /\ ProcTable \in [Slots -> ProcStruct] /\ outcome = "running"
  BY CallerFacts DEF Quit
<1>2. CASE Halt("halted")
  BY <1>2, HaltStep DEF Outcomes
<1>3. CASE /\ ProcTable' = [ProcTable EXCEPT ![Current].status = QUIT,
                                             ![Current].exitTimeSlice = now]
           /\ \E d \in TickSteps : now' = now + d
           /\ IF ProcTable[Current].zap
              THEN kpc' = "quitWake" /\ walker' = ProcTable[Current].zappedPtr
              ELSE kpc' = "quitParent" /\ UNCHANGED walker
           /\ UNCHANGED <<ReadyList, Current, nextPid, inCall, victim, outcome>>
  <2> DEFINE T == ProcTable'
  <2>1. /\ T[Current] = [ProcTable[Current] EXCEPT !.status = QUIT, !.exitTimeSlice = now]
        /\ \A r \in Slots \ {Current} : T[r] = ProcTable[r]
    BY <1>1, <1>3
  <2>2. now \in Int /\ now' \in Nat /\ QUIT \in Nat
    BY <1>3, KernelAssumption DEF KernelInv, TypeOK, QUIT
  <2>3. ProcTable[Current] \in ProcStruct
    BY <1>1
  <2>4. T \in [Slots -> ProcStruct]
    <3>1. [ProcTable[Current] EXCEPT !.status = QUIT, !.exitTimeSlice = now] \in ProcStruct
      BY <2>2, <2>3 DEF ProcStruct
    <3> QED
      BY <3>1, <1>1, <1>3
  <2> HIDE DEF T
  <2>5. /\ T[Current].priority = ProcTable[Current].priority
        /\ T[Current].pid = ProcTable[Current].pid
        /\ T[Current].parentPtr = ProcTable[Current].parentPtr
        /\ T[Current].childProcs = ProcTable[Current].childProcs
        /\ T[Current].zap = ProcTable[Current].zap
        /\ T[Current].zappedPtr = ProcTable[Current].zappedPtr
        /\ T[Current].status = QUIT
    BY <2>1, <2>2, <2>3 DEF ProcStruct
  <2>6. TableOK(T)
    BY <1>1, <2>1, <2>4, <2>5, ConstantFacts DEF KernelInv, StaticOK, TableOK
  <2>7. PidsOK(T, nextPid)
    <3>1. \A r \in Slots : /\ T[r].pid = ProcTable[r].pid
                           /\ T[r].status # UNUSED => ProcTable[r].status # UNUSED
      BY <1>1, <2>1, <2>5
    <3>2. PidsOK(ProcTable, nextPid)
      BY DEF KernelInv, StaticOK
    <3> QED
      BY <3>1, <3>2 DEF PidsOK
  <2>8. KidsOK(T)
    <3>1. \A s \in Slots : T[s].childProcs = ProcTable[s].childProcs
      BY <2>1, <2>5
    <3>2. \A s \in Slots : T[s].parentPtr = ProcTable[s].parentPtr
      BY <2>1, <2>5
    <3>3. \A s \in Slots : ProcTable[s].status # UNUSED => T[s].status # UNUSED
      <4>1. T[Current].status # UNUSED
        BY <2>5 DEF QUIT, UNUSED
      <4> QED
        BY <2>1, <4>1
    <3>4. \A s \in Slots : \A x \in Members(ProcTable[s].childProcs) : x \in Slots
      <4> SUFFICES ASSUME NEW s \in Slots, NEW x \in Members(ProcTable[s].childProcs)
                   PROVE  x \in Slots
        OBVIOUS
      <4>1. ProcTable[s].childProcs \in Seq(Slots)
        BY <1>1 DEF ProcStruct
      <4> QED
        BY <4>1, ElementOfSeq DEF Members
    <3> QED
      BY <3>1, <3>2, <3>3, <3>4 DEF KernelInv, StaticOK, KidsOK
  <2>9. QueueOK(T, ReadyList)
    <3>1. ReadySlots(T) = ReadySlots(ProcTable)
      <4>1. T[Current].status # READY /\ ProcTable[Current].status # READY
        BY <1>1, <2>5 DEF READY, QUIT
      <4> QED
        BY <2>1, <4>1 DEF ReadySlots
    <3>2. \A j \in 1 .. Len(ReadyList) : ReadyList[j] \in Slots
      BY ElementOfSeq DEF KernelInv, QueueOK
    <3>3. \A s \in Slots : T[s].priority = ProcTable[s].priority
      BY <2>1, <2>5
    <3>4. Sorted(T, ReadyList)
      BY <3>2, <3>3 DEF Sorted, KernelInv, QueueOK
    <3> QED
      BY <3>1, <3>4 DEF KernelInv, QueueOK
  <2>10. RunnerOK'
    BY <1>1, <1>3, <2>1, <2>5, ConstantFacts DEF RunnerOK, T, READY, UNUSED, QUIT
  <2>11. /\ kpc' \in {"quitWake", "quitParent"} /\ walker' \in Pointers
         /\ kpc' = "quitWake" => walker' \in Slots
    BY <1>1, <1>3 DEF KernelInv, TypeOK, StaticOK, TableOK, Pointers
  <2>12. TypeOK'
    BY <1>3, <2>2, <2>4, <2>11 DEF KernelInv, TypeOK, T
  <2>13. CounterOK'
    BY <1>1, <1>3, <2>5, <2>11 DEF KernelInv, CounterOK, T
  <2>14. KernelInv'
    BY <1>3, <2>6, <2>7, <2>8, <2>9, <2>10, <2>11, <2>12, <2>13
       DEF KernelInv, StaticOK, T
  <2>15. Kept(ProcTable, T)
    <3>1. T[Current].status # UNUSED
      BY <2>5 DEF QUIT, UNUSED
    <3> QED
      BY <2>1, <3>1 DEF Kept
  <2> QED
    BY <2>14, <2>15 DEF StepOK, T
<1> QED
  BY <1>2, <1>3 DEF Quit

\* A blocked process becomes READY and goes on the ready list.
LEMMA WakeUp ==
    ASSUME KernelInv, NEW s \in Slots, Blocked(ProcTable[s].status)
    PROVE  /\ SetsStatus(ProcTable, [ProcTable EXCEPT ![s].status = READY], s, READY)
           /\ StaticOK([ProcTable EXCEPT ![s].status = READY], nextPid)
           /\ QueueOK([ProcTable EXCEPT ![s].status = READY],
                      AddToReadyList([ProcTable EXCEPT ![s].status = READY], ReadyList, s))
<1> DEFINE T == [ProcTable EXCEPT ![s].status = READY]
<1>1. ProcTable \in [Slots -> ProcStruct] /\ ProcTable[s].status \in Nat
  BY DEF KernelInv, TypeOK, ProcStruct
<1>2. ProcTable[s].status \notin {UNUSED, QUIT, READY}
  BY <1>1 DEF Blocked, UNUSED, QUIT, READY, JOIN_BLOCK, ZAP_BLOCK
<1>3. SetsStatus(ProcTable, T, s, READY)
  <2>1. READY \in Nat /\ READY \notin {UNUSED, QUIT}
    BY DEF READY, UNUSED, QUIT
  <2>2. ProcTable[s].status \notin {UNUSED, QUIT}
    BY <1>2
  <2> QED
    BY <1>1, <2>1, <2>2, StatusUpdate
<1> HIDE DEF T
<1>4. StatusChange(ProcTable, T) /\ T[s].status = READY
      /\ \A r \in Slots \ {s} : T[r] = ProcTable[r]
  BY <1>3 DEF SetsStatus
<1>5. StaticOK(T, nextPid) /\ T \in [Slots -> ProcStruct]
  BY <1>4, StatusChangeKeeps DEF KernelInv, StatusChange
<1>6. Members(ReadyList) = ReadySlots(ProcTable)
  BY DEF KernelInv, QueueOK
<1>7. s \notin Members(ReadyList)
  BY <1>2, <1>6 DEF ReadySlots
<1>8. Members(ReadyList) = ReadySlots(T) \ {s}
  BY <1>4, <1>6, <1>7 DEF ReadySlots
<1>9. Sorted(T, ReadyList)
  <2>1. \A j \in 1 .. Len(ReadyList) : ReadyList[j] \in Slots
    BY ElementOfSeq DEF KernelInv, QueueOK
  <2> QED
    BY <1>4, <2>1 DEF StatusChange, Sorted, KernelInv, QueueOK
<1>10. ReadyList \in Seq(Slots) /\ Distinct(ReadyList)
  BY DEF KernelInv, QueueOK
<1>11. QueueOK(T, AddToReadyList(T, ReadyList, s))
  BY <1>4, <1>5, <1>7, <1>8, <1>9, <1>10, AddKeepsQueue
<1> QED
  BY <1>3, <1>5, <1>11 DEF T

LEMMA QuitWakeStep == KernelInv /\ QuitWake => StepOK
<1> SUFFICES ASSUME KernelInv, QuitWake PROVE StepOK
  OBVIOUS
<1>1. /\ kpc = "quitWake" /\ walker \in Slots /\ Current # SENTINELPID
      /\ ProcTable \in [Slots -> ProcStruct] /\ outcome = "running"
  BY DEF QuitWake, KernelInv, CounterOK, TypeOK
<1>2. CASE ~Blocked(ProcTable[walker].status)
  BY <1>2, HaltStep DEF QuitWake, Outcomes
<1>3. CASE Blocked(ProcTable[walker].status)
  <2> DEFINE T == [ProcTable EXCEPT ![walker].status = READY]
             next == ProcTable[walker].zappedSiblingPtr
  <2>1. /\ ProcTable' = T
        /\ ReadyList' = AddToReadyList(T, ReadyList, walker)
        /\ walker' = next
        /\ kpc' = IF next = NULL THEN "quitParent" ELSE kpc
        /\ UNCHANGED <<Current, nextPid, now, inCall, victim, outcome>>
    BY <1>3 DEF QuitWake
  <2>2. /\ SetsStatus(ProcTable, T, walker, READY)
        /\ StaticOK(T, nextPid)
        /\ QueueOK(T, AddToReadyList(T, ReadyList, walker))
    BY <1>1, <1>3, WakeUp
  <2>3. next \in Pointers
    BY <1>1 DEF ProcStruct
  <2> HIDE DEF T, next
  <2>20. Current \in Slots /\ Current # walker /\ ProcTable[Current].status = QUIT
    <3>1. Current \in Slots /\ ProcTable[Current].status = QUIT
      BY <1>1 DEF KernelInv, RunnerOK, CounterOK
    <3>2. ~Blocked(QUIT)
      BY DEF Blocked, QUIT, JOIN_BLOCK, ZAP_BLOCK
    <3> QED
      BY <1>3, <3>1, <3>2
  <2>21. T[Current].status = QUIT /\ QUIT \notin {READY, UNUSED}
    BY <2>2, <2>20 DEF SetsStatus, QUIT, READY, UNUSED
  <2>22. T[SENTINELPID].status = READY
    BY <1>1, <2>2, ConstantFacts DEF SetsStatus, KernelInv, RunnerOK
  <2>4. RunnerOK'
    BY <2>1, <2>20, <2>21, <2>22 DEF RunnerOK
  <2>5. TypeOK'
    BY <1>1, <2>1, <2>2, <2>3 DEF KernelInv, TypeOK, SetsStatus, StatusChange, QueueOK
  <2>6. CounterOK' /\ kpc' # "user"
    BY <1>1, <2>1, <2>3, <2>21 DEF KernelInv, CounterOK, Pointers
  <2>7. KernelInv'
    BY <2>1, <2>2, <2>4, <2>5, <2>6 DEF KernelInv
  <2>8. Kept(ProcTable, ProcTable')
    BY <2>1, <2>2, KeptByStatusChange DEF SetsStatus
  <2> QED
    BY <2>7, <2>8 DEF StepOK
<1> QED
  BY <1>2, <1>3

\* The ready list when no process starts or stops being READY ...
LEMMA QueueStays ==
    ASSUME NEW T, NEW U, NEW q, QueueOK(T, q), ReadySlots(U) = ReadySlots(T),
           \A s \in Slots : U[s].priority = T[s].priority
    PROVE  QueueOK(U, q)
<1>1. \A j \in 1 .. Len(q) : q[j] \in Slots
  BY ElementOfSeq DEF QueueOK
<1>2. Sorted(U, q)
  BY <1>1 DEF QueueOK, Sorted
<1> QED
  BY <1>2 DEF QueueOK

\* ... and when s does.
LEMMA QueueGrows ==
    ASSUME NEW T, NEW U, NEW q, NEW s \in Slots, QueueOK(T, q), StatusChange(T, U),
           T[s].status # READY, U[s].status = READY,
           \A r \in Slots \ {s} : U[r].status = T[r].status
    PROVE  QueueOK(U, AddToReadyList(U, q, s))
<1>1. Members(q) = ReadySlots(T) /\ s \notin ReadySlots(T)
  BY DEF QueueOK, ReadySlots
<1>2. Members(q) = ReadySlots(U) \ {s} /\ s \notin Members(q)
  BY <1>1 DEF ReadySlots
<1>3. \A j \in 1 .. Len(q) : q[j] \in Slots
  BY ElementOfSeq DEF QueueOK
<1>4. Sorted(U, q)
  BY <1>3 DEF QueueOK, Sorted, StatusChange
<1>5. U \in [Slots -> ProcStruct] /\ q \in Seq(Slots) /\ Distinct(q)
  BY DEF StatusChange, QueueOK
<1> QED
  BY <1>2, <1>4, <1>5, AddKeepsQueue

LEMMA TellParentKeeps ==
    ASSUME KernelInv, NEW p \in Slots
    PROVE  /\ StatusChange(ProcTable, TellParent(p))
           /\ \A r \in Slots \ {p} : TellParent(p)[r] = ProcTable[r]
           /\ TellParent(p)[p].status =
                IF ProcTable[p].status = JOIN_BLOCK THEN READY ELSE ProcTable[p].status
<1> DEFINE T == TellParent(p)
           e == ProcTable[p]
           n == e.childCount - 1
<1>1. /\ ProcTable \in [Slots -> ProcStruct] /\ Current \in Pointers
      /\ READY \in Nat
  BY DEF KernelInv, TypeOK, Pointers, READY
<1>2. e \in ProcStruct /\ n \in Int
  <2>1. e \in ProcStruct
    BY <1>1
  <2> HIDE DEF e
  <2> QED
    BY <2>1 DEF ProcStruct
<1>3. \A r \in Slots \ {p} : T[r] = ProcTable[r]
  BY <1>1 DEF TellParent
<1>4. T[p] = IF e.status = JOIN_BLOCK
             THEN [e EXCEPT !.childCount = n, !.status = READY, !.childQuitPtr = Current]
             ELSE [e EXCEPT !.childCount = n]
  BY <1>1 DEF TellParent
<1>40. DOMAIN T = Slots /\ T = [r \in Slots |-> T[r]]
  BY <1>1 DEF TellParent
<1> HIDE DEF T, e, n
<1>5. /\ T[p] \in ProcStruct
      /\ T[p].status = IF e.status = JOIN_BLOCK THEN READY ELSE e.status
      /\ T[p].priority = e.priority /\ T[p].pid = e.pid
      /\ T[p].parentPtr = e.parentPtr /\ T[p].childProcs = e.childProcs
      /\ T[p].zap = e.zap /\ T[p].zappedPtr = e.zappedPtr
  <2>1. CASE e.status = JOIN_BLOCK
    <3>1. T[p] = [e EXCEPT !.childCount = n, !.status = READY, !.childQuitPtr = Current]
      BY <2>1, <1>4
    <3> QED
      BY <2>1, <3>1, <1>1, <1>2 DEF ProcStruct
  <2>2. CASE e.status # JOIN_BLOCK
    <3>1. T[p] = [e EXCEPT !.childCount = n]
      BY <2>2, <1>4
    <3> QED
      BY <2>2, <3>1, <1>2 DEF ProcStruct
  <2> QED
    BY <2>1, <2>2
<1>6. T \in [Slots -> ProcStruct]
  <2>1. \A r \in Slots : T[r] \in ProcStruct
    BY <1>1, <1>3, <1>5
  <2> QED
    BY <2>1, <1>40
<1>7. StatusChange(ProcTable, T)
  <2>1. /\ T[p].status = UNUSED <=> e.status = UNUSED
        /\ T[p].status = QUIT <=> e.status = QUIT
    BY <1>5 DEF JOIN_BLOCK, UNUSED, QUIT, READY
  <2> QED
    BY <1>3, <1>5, <1>6, <2>1 DEF StatusChange, e
<1> QED
  BY <1>3, <1>5, <1>7 DEF T, e

\* The table T, and the ready list q, that quit hands to the dispatcher when it
\* has told the parent, if there is one.
ToldTable(T, q) ==
    LET p == ProcTable[Current].parentPtr
    IN  /\ IF p = NULL THEN T = ProcTable ELSE p \in Slots /\ T = TellParent(p)
        /\ DispatchReady(T, nextPid', q) /\ Dispatch(T, q)
        /\ RestOK' /\ Kept(ProcTable, T)

LEMMA QuitParentTable == KernelInv /\ QuitParent => \E T, q : ToldTable(T, q)
<1> SUFFICES ASSUME KernelInv, QuitParent PROVE \E T, q : ToldTable(T, q)
  OBVIOUS
<1> DEFINE p == ProcTable[Current].parentPtr
<1>1. /\ kpc = "quitParent" /\ outcome = "running" /\ Current # SENTINELPID
      /\ Current \in Slots /\ ProcTable[Current].status = QUIT
      /\ ProcTable[SENTINELPID].status = READY
      /\ ProcTable \in [Slots -> ProcStruct]
  BY DEF QuitParent, KernelInv, CounterOK, RunnerOK, TypeOK
<1>2. RestOK' /\ nextPid' = nextPid
  BY DEF QuitParent, KernelInv, TypeOK, CounterOK, RestOK, Pointers
<1>3. QUIT \notin {READY, UNUSED, JOIN_BLOCK}
  BY DEF QUIT, READY, UNUSED, JOIN_BLOCK
<1>4. CASE p = NULL
  <2>1. Dispatch(ProcTable, ReadyList)
    BY <1>4 DEF QuitParent
  <2>2. DispatchReady(ProcTable, nextPid', ReadyList)
    BY <1>1, <1>2, <1>3 DEF DispatchReady, KernelInv
  <2>3. Kept(ProcTable, ProcTable)
    BY KeptAlike
  <2>4. ToldTable(ProcTable, ReadyList)
    BY <1>2, <1>4, <2>1, <2>2, <2>3 DEF ToldTable
  <2> QED
    BY <2>4
<1>5. CASE p # NULL
  <2>1. p \in Slots
    BY <1>1, <1>5 DEF ProcStruct, Pointers
  <2> DEFINE T == TellParent(p)
             q == IF T[p].status = ProcTable[p].status THEN ReadyList
                  ELSE AddToReadyList(T, ReadyList, p)
  <2>2. Dispatch(T, q)
    BY <1>5 DEF QuitParent
  <2> HIDE DEF p
  <2>3. /\ StatusChange(ProcTable, T)
        /\ \A r \in Slots \ {p} : T[r] = ProcTable[r]
        /\ T[p].status =
             IF ProcTable[p].status = JOIN_BLOCK THEN READY ELSE ProcTable[p].status
    BY <2>1, TellParentKeeps
  <2> HIDE DEF T
  <2>4. StaticOK(T, nextPid')
    BY <1>2, <2>3, StatusChangeKeeps DEF KernelInv
  <2>5. QueueOK(ProcTable, ReadyList)
    BY DEF KernelInv
  <2>6. QueueOK(T, q)
    <3>1. CASE ProcTable[p].status = JOIN_BLOCK
      <4>1. ProcTable[p].status # READY /\ T[p].status = READY /\ q = AddToReadyList(T, ReadyList, p)
        BY <3>1, <2>3 DEF JOIN_BLOCK, READY
      <4>2. \A r \in Slots \ {p} : T[r].status = ProcTable[r].status
        BY <2>3
      <4>3. QueueOK(T, AddToReadyList(T, ReadyList, p))
        BY <2>1, <2>3, <2>5, <4>1, <4>2, QueueGrows
      <4> QED
        BY <4>1, <4>3
    <3>2. CASE ProcTable[p].status # JOIN_BLOCK
      <4>1. q = ReadyList /\ \A r \in Slots : T[r].status = ProcTable[r].status
        BY <3>2, <2>3
      <4>2. ReadySlots(T) = ReadySlots(ProcTable)
        BY <4>1 DEF ReadySlots
      <4>3. \A r \in Slots : T[r].priority = ProcTable[r].priority
        BY <2>3 DEF StatusChange
      <4>4. QueueOK(T, ReadyList)
        BY <2>5, <4>2, <4>3, QueueStays
      <4> QED
        BY <4>1, <4>4
    <3> QED
      BY <3>1, <3>2
  <2> HIDE DEF q
  <2>7. T[Current].status = QUIT
    BY <1>1, <1>3, <2>3
  <2>8. T[SENTINELPID].status = READY
    <3>1. READY # JOIN_BLOCK
      BY DEF READY, JOIN_BLOCK
    <3> QED
      BY <1>1, <2>3, <3>1, ConstantFacts
  <2>9. DispatchReady(T, nextPid', q)
    BY <1>1, <1>3, <2>4, <2>6, <2>7, <2>8 DEF DispatchReady
  <2>10. Kept(ProcTable, T)
    BY <2>3, KeptByStatusChange
  <2>11. ToldTable(T, q)
    BY <1>2, <1>5, <2>1, <2>2, <2>9, <2>10 DEF ToldTable, T, p
  <2> QED
    BY <2>11
<1> QED
  BY <1>4, <1>5

LEMMA QuitParentStep == KernelInv /\ QuitParent => StepOK
<1> SUFFICES ASSUME KernelInv, QuitParent PROVE StepOK
  OBVIOUS
<1>1. PICK T, q : ToldTable(T, q)
  BY QuitParentTable
<1> QED
  BY <1>1, DispatchStep DEF ToldTable

\* The table T, and the ready list q, that unblockProc hands to the dispatcher
\* when it has woken s.
WokenTable(s, T, q) ==
    /\ s \in Slots /\ s # Current /\ ProcTable[s].status > 10
    /\ T = [ProcTable EXCEPT ![s].status = READY]
    /\ DispatchReady(T, nextPid', q) /\ Dispatch(T, q)
    /\ RestOK' /\ Kept(ProcTable, T)

LEMMA UnblockProcTable ==
    \A pid \in Pids : KernelInv /\ UnblockProc(pid) => \E s, T, q : WokenTable(s, T, q)
<1> SUFFICES ASSUME NEW pid \in Pids, KernelInv, UnblockProc(pid)
             PROVE  \E s, T, q : WokenTable(s, T, q)
  OBVIOUS
<1> DEFINE s == pid % MAXPROC
           T == [ProcTable EXCEPT ![s].status = READY]
           q == AddToReadyList(T, ReadyList, s)
<1>1. /\ Calling /\ Unblockable(s) /\ s # Current /\ Dispatch(T, q)
      /\ UNCHANGED <<nextPid, now, inCall, victim, kpc, walker>>
  BY DEF UnblockProc, ReadiedAndDispatched
<1>2. s \in Slots
  BY ModInSlots DEF Pids
<1>3. /\ Current \in Slots /\ Current # SENTINELPID
      /\ ProcTable[Current].status \notin {READY, UNUSED}
      /\ ProcTable[SENTINELPID].status = READY /\ outcome = "running"
  BY <1>1, CallerFacts
<1> HIDE DEF s
<1>4. Blocked(ProcTable[s].status)
  BY <1>1 DEF Unblockable, Blocked
<1>5. /\ SetsStatus(ProcTable, T, s, READY) /\ StaticOK(T, nextPid) /\ QueueOK(T, q)
  BY <1>2, <1>4, WakeUp
<1> HIDE DEF T, q
<1>6. /\ T[Current].status = ProcTable[Current].status
      /\ T[SENTINELPID].status = READY
  BY <1>1, <1>3, <1>5, ConstantFacts DEF SetsStatus
<1>7. DispatchReady(T, nextPid', q)
  BY <1>1, <1>3, <1>5, <1>6 DEF DispatchReady
<1>8. RestOK'
  BY <1>1 DEF Calling, KernelInv, TypeOK, CounterOK, RestOK
<1>9. Kept(ProcTable, T)
  BY <1>5, KeptByStatusChange DEF SetsStatus
<1>10. WokenTable(s, T, q)
  BY <1>1, <1>2, <1>7, <1>8, <1>9 DEF WokenTable, Unblockable, T
<1> QED
  BY <1>10

LEMMA UnblockProcStep == \A pid \in Pids : KernelInv /\ UnblockProc(pid) => StepOK
BY UnblockProcTable, DispatchStep DEF WokenTable

\* U is T with other zapped lists.
ZapperChange(T, U) ==
    /\ U \in [Slots -> ProcStruct]
    /\ \A s \in Slots :
        /\ U[s].priority = T[s].priority
        /\ U[s].pid = T[s].pid
        /\ U[s].parentPtr = T[s].parentPtr
        /\ U[s].childProcs = T[s].childProcs
        /\ U[s].status = T[s].status
        /\ U[s].zap => U[s].zappedPtr \in Slots

LEMMA ZapperChangeKeeps ==
    ASSUME NEW T, NEW U, NEW n, NEW q, StaticOK(T, n), QueueOK(T, q), ZapperChange(T, U)
    PROVE  /\ StaticOK(U, n) /\ QueueOK(U, q)
           /\ \A s \in Slots : U[s].status = T[s].status /\ U[s].priority = T[s].priority
<1>1. \A s \in Slots : \A c \in Members(T[s].childProcs) : c \in Slots
  <2> SUFFICES ASSUME NEW s \in Slots, NEW c \in Members(T[s].childProcs)
               PROVE  c \in Slots
    OBVIOUS
  <2>1. T[s].childProcs \in Seq(Slots)
    BY DEF StaticOK, TableOK, ProcStruct
  <2> QED
    BY <2>1, ElementOfSeq DEF Members
<1>2. TableOK(U)
  BY ConstantFacts DEF StaticOK, TableOK, ZapperChange
<1>3. PidsOK(U, n)
  BY DEF StaticOK, PidsOK, ZapperChange
<1>4. KidsOK(U)
  BY <1>1 DEF StaticOK, KidsOK, ZapperChange
<1>5. ReadySlots(U) = ReadySlots(T) /\ \A s \in Slots : U[s].priority = T[s].priority
  BY DEF ReadySlots, ZapperChange
<1>6. QueueOK(U, q)
  BY <1>5, QueueStays
<1> QED
  BY <1>2, <1>3, <1>4, <1>6 DEF StaticOK, ZapperChange

\* Linking a process, on whichever list.
LEMMA LinkedBehind ==
    ASSUME KernelInv, NEW w \in Slots, NEW z \in Slots
    PROVE  ZapperChange(ProcTable, [ProcTable EXCEPT ![w].zappedSiblingPtr = z])
<1> DEFINE T == [ProcTable EXCEPT ![w].zappedSiblingPtr = z]
<1>1. ProcTable \in [Slots -> ProcStruct] /\ z \in Pointers /\ ProcTable[w] \in ProcStruct
  BY DEF KernelInv, TypeOK, Pointers
<1>2. T[w] = [ProcTable[w] EXCEPT !.zappedSiblingPtr = z]
      /\ \A r \in Slots \ {w} : T[r] = ProcTable[r]
  BY <1>1
<1>3. T \in [Slots -> ProcStruct]
  BY <1>1 DEF ProcStruct
<1> HIDE DEF T
<1>4. /\ T[w].priority = ProcTable[w].priority /\ T[w].pid = ProcTable[w].pid
      /\ T[w].parentPtr = ProcTable[w].parentPtr
      /\ T[w].childProcs = ProcTable[w].childProcs
      /\ T[w].status = ProcTable[w].status
      /\ T[w].zap = ProcTable[w].zap /\ T[w].zappedPtr = ProcTable[w].zappedPtr
  BY <1>1, <1>2 DEF ProcStruct
<1>5. \A r \in Slots : ProcTable[r].zap => ProcTable[r].zappedPtr \in Slots
  BY DEF KernelInv, StaticOK, TableOK
<1>6. ZapperChange(ProcTable, T)
  BY <1>2, <1>3, <1>4, <1>5 DEF ZapperChange
<1> QED
  BY <1>6 DEF T

\* Setting the zap flag of a process together with the head of its list.
LEMMA FlagSet ==
    ASSUME KernelInv, NEW v \in Slots, NEW z \in Slots
    PROVE  ZapperChange(ProcTable, [ProcTable EXCEPT ![v].zap = TRUE, ![v].zappedPtr = z])
<1> DEFINE T == [ProcTable EXCEPT ![v].zap = TRUE, ![v].zappedPtr = z]
<1>1. ProcTable \in [Slots -> ProcStruct] /\ z \in Pointers /\ ProcTable[v] \in ProcStruct
  BY DEF KernelInv, TypeOK, Pointers
<1>2. T[v] = [ProcTable[v] EXCEPT !.zap = TRUE, !.zappedPtr = z]
      /\ \A r \in Slots \ {v} : T[r] = ProcTable[r]
  BY <1>1
<1>3. T \in [Slots -> ProcStruct]
  BY <1>1 DEF ProcStruct
<1> HIDE DEF T
<1>4. /\ T[v].priority = ProcTable[v].priority /\ T[v].pid = ProcTable[v].pid
      /\ T[v].parentPtr = ProcTable[v].parentPtr
      /\ T[v].childProcs = ProcTable[v].childProcs
      /\ T[v].status = ProcTable[v].status /\ T[v].zappedPtr = z
  BY <1>1, <1>2 DEF ProcStruct
<1>5. \A r \in Slots : ProcTable[r].zap => ProcTable[r].zappedPtr \in Slots
  BY DEF KernelInv, StaticOK, TableOK
<1>6. ZapperChange(ProcTable, T)
  BY <1>2, <1>3, <1>4, <1>5 DEF ZapperChange
<1> QED
  BY <1>6 DEF T

\* The end of zap, with the caller linked in T.
BlockedTable(U) ==
    /\ DispatchReady(U, nextPid', ReadyList) /\ Dispatch(U, ReadyList)
    /\ RestOK' /\ Kept(ProcTable, U)

LEMMA BlockInZapTable ==
    ASSUME KernelInv, NEW T, ZapperChange(ProcTable, T), BlockInZap(T),
           Current # SENTINELPID, outcome = "running", kpc \in {"user", "zapWalk"},
           victim' \in [Slots -> Nat], UNCHANGED <<nextPid, now>>
    PROVE  /\ SetsStatus(T, [T EXCEPT ![Current].status = ZAP_BLOCK], Current, ZAP_BLOCK)
           /\ BlockedTable([T EXCEPT ![Current].status = ZAP_BLOCK])
<1> DEFINE U == [T EXCEPT ![Current].status = ZAP_BLOCK]
<1>1. /\ Current \in Slots /\ ProcTable[Current].status \notin {READY, UNUSED, QUIT}
      /\ ProcTable[SENTINELPID].status = READY
  BY DEF KernelInv, RunnerOK, CounterOK
<1>2. /\ StaticOK(T, nextPid) /\ QueueOK(T, ReadyList)
      /\ \A s \in Slots : /\ T[s].status = ProcTable[s].status
                          /\ T[s].priority = ProcTable[s].priority
  BY ZapperChangeKeeps DEF KernelInv
<1>3. /\ ZAP_BLOCK \in Nat /\ ZAP_BLOCK \notin {READY, UNUSED, QUIT}
      /\ T \in [Slots -> ProcStruct]
  BY DEF ZAP_BLOCK, READY, UNUSED, QUIT, ZapperChange
<1>4. T[Current].status \notin {READY, UNUSED, QUIT}
  BY <1>1, <1>2
<1>5. SetsStatus(T, U, Current, ZAP_BLOCK)
  <2>1. ZAP_BLOCK \notin {UNUSED, QUIT} /\ T[Current].status \notin {UNUSED, QUIT}
    BY <1>3, <1>4
  <2> QED
    BY <1>1, <1>3, <2>1, StatusUpdate
<1>6. Dispatch(U, ReadyList)
  BY DEF BlockInZap
<1> HIDE DEF U
<1>7. StaticOK(U, nextPid)
  BY <1>2, <1>5, StatusChangeKeeps DEF SetsStatus
<1>8. QueueOK(U, ReadyList)
  <2>1. ReadySlots(U) = ReadySlots(T)
    BY <1>1, <1>3, <1>4, <1>5 DEF SetsStatus, ReadySlots
  <2>2. \A s \in Slots : U[s].priority = T[s].priority
    BY <1>5 DEF SetsStatus, StatusChange
  <2> QED
    BY <1>2, <2>1, <2>2, QueueStays
<1>9. U[Current].status = ZAP_BLOCK /\ U[SENTINELPID].status = READY
  BY <1>1, <1>2, <1>5, ConstantFacts DEF SetsStatus
<1>10. DispatchReady(U, nextPid', ReadyList)
  BY <1>1, <1>3, <1>7, <1>8, <1>9 DEF DispatchReady
<1>11. RestOK'
  BY ConstantFacts DEF BlockInZap, KernelInv, TypeOK, CounterOK, RestOK, Pointers
<1>12. Kept(ProcTable, U)
  <2>1. Kept(ProcTable, T)
    BY KeptAlike DEF ZapperChange
  <2> QED
    BY <2>1, <1>5, KeptThen DEF SetsStatus
<1> QED
  BY <1>5, <1>6, <1>10, <1>11, <1>12 DEF BlockedTable, U

LEMMA BlockInZapStep ==
    ASSUME KernelInv, NEW T, ZapperChange(ProcTable, T), BlockInZap(T),
           Current # SENTINELPID, outcome = "running", kpc \in {"user", "zapWalk"},
           victim' \in [Slots -> Nat], UNCHANGED <<nextPid, now>>
    PROVE  StepOK
<1>1. BlockedTable([T EXCEPT ![Current].status = ZAP_BLOCK])
  BY BlockInZapTable
<1> QED
  BY <1>1, DispatchStep DEF BlockedTable

LEMMA ZapStep == \A pid \in Pids : KernelInv /\ Zap(pid) => StepOK
<1> SUFFICES ASSUME NEW pid \in Pids, KernelInv, Zap(pid) PROVE StepOK
  OBVIOUS
<1> DEFINE v == pid % MAXPROC
<1>1. v \in Slots /\ pid \in Nat
  BY ModInSlots DEF Pids
<1>2. Calling /\ UNCHANGED <<nextPid, now>> /\ victim' = [victim EXCEPT ![Current] = pid]
  BY DEF Zap
<1>3. /\ Current \in Slots /\ Current # SENTINELPID
      /\ ProcTable[Current].status \notin {READY, UNUSED, QUIT}
      /\ kpc = "user" /\ outcome = "running"
      /\ ProcTable \in [Slots -> ProcStruct]
  BY <1>2, CallerFacts
<1>4. victim' \in [Slots -> Nat]
  BY <1>1, <1>2 DEF KernelInv, TypeOK
<1>5. CASE ProcTable[v].zappedPtr = NULL
  <2> DEFINE T == [ProcTable EXCEPT ![v].zap = TRUE, ![v].zappedPtr = Current]
  <2>1. BlockInZap(T)
    BY <1>5 DEF Zap
  <2> HIDE DEF v
  <2>2. ZapperChange(ProcTable, T)
    BY <1>1, <1>3, FlagSet
  <2> HIDE DEF T
  <2>3. kpc \in {"user", "zapWalk"}
    BY <1>3
  <2> QED
    BY <1>2, <1>3, <1>4, <2>1, <2>2, <2>3, BlockInZapStep
<1>6. CASE ProcTable[v].zappedPtr # NULL
  <2>1. /\ ProcTable' = [ProcTable EXCEPT ![v].zap = TRUE]
        /\ kpc' = "zapWalk" /\ walker' = ProcTable[v].zappedPtr
        /\ UNCHANGED <<ReadyList, Current, inCall, outcome>>
    BY <1>6 DEF Zap
  <2> HIDE DEF v
  <2> DEFINE z == ProcTable[v].zappedPtr
             T == [ProcTable EXCEPT ![v].zap = TRUE, ![v].zappedPtr = z]
  <2>2. z \in Slots
    BY <1>1, <1>3, <1>6 DEF ProcStruct, Pointers
  <2>3. ProcTable' = T
    <3>1. ProcTable[v] \in ProcStruct
      BY <1>1, <1>3
    <3>2. [ProcTable[v] EXCEPT !.zap = TRUE] = [ProcTable[v] EXCEPT !.zap = TRUE, !.zappedPtr = z]
      BY <3>1 DEF ProcStruct
    <3> QED
      BY <1>1, <1>3, <2>1, <3>2
  <2>4. walker' = z
    BY <2>1
  <2> HIDE DEF z
  <2>5. ZapperChange(ProcTable, T)
    BY <1>1, <2>2, FlagSet
  <2>6. /\ StaticOK(ProcTable', nextPid) /\ QueueOK(ProcTable', ReadyList)
        /\ \A s \in Slots : /\ ProcTable'[s].status = ProcTable[s].status
                            /\ ProcTable'[s].priority = ProcTable[s].priority
    <3>1. StaticOK(ProcTable, nextPid) /\ QueueOK(ProcTable, ReadyList)
      BY DEF KernelInv
    <3>2. ZapperChange(ProcTable, ProcTable')
      BY <2>3, <2>5
    <3> HIDE DEF T
    <3> QED
      BY <3>1, <3>2, ZapperChangeKeeps
  <2>7. ProcTable' \in [Slots -> ProcStruct] /\ Kept(ProcTable, ProcTable')
    <3>1. ZapperChange(ProcTable, ProcTable')
      BY <2>3, <2>5
    <3> HIDE DEF T
    <3>2. Kept(ProcTable, ProcTable')
      BY <3>1, KeptAlike DEF ZapperChange
    <3> QED
      BY <3>1, <3>2 DEF ZapperChange
  <2> HIDE DEF T
  <2>8. TypeOK'
    BY <1>2, <1>4, <2>1, <2>2, <2>4, <2>7 DEF KernelInv, TypeOK, Pointers
  <2>9. RunnerOK'
    BY <1>3, <2>1, <2>6, ConstantFacts DEF KernelInv, RunnerOK
  <2>10. CounterOK'
    BY <1>2, <1>3, <2>1, <2>2, <2>4, <2>6 DEF KernelInv, CounterOK
  <2>11. KernelInv'
    BY <1>2, <2>1, <2>6, <2>8, <2>9, <2>10 DEF KernelInv
  <2> QED
    BY <2>7, <2>11 DEF StepOK
<1> QED
  BY <1>5, <1>6

LEMMA ZapWalkStep == KernelInv /\ ZapWalk => StepOK
<1> SUFFICES ASSUME KernelInv, ZapWalk PROVE StepOK
  OBVIOUS
<1>1. /\ UNCHANGED <<ProcTable, ReadyList, Current, nextPid, now, inCall, victim,
                     kpc, outcome>>
      /\ kpc = "zapWalk" /\ outcome = "running"
      /\ walker' = ProcTable[walker].zappedSiblingPtr
      /\ ProcTable[walker].zappedSiblingPtr # NULL
  BY DEF ZapWalk
<1>2. walker' \in Slots
  <2>1. walker \in Slots /\ ProcTable \in [Slots -> ProcStruct]
    BY <1>1 DEF KernelInv, CounterOK, TypeOK
  <2> QED
    BY <1>1, <2>1 DEF ProcStruct, Pointers
<1>3. TypeOK'
  BY <1>1, <1>2 DEF KernelInv, TypeOK, Pointers
<1>4. StaticOK(ProcTable', nextPid') /\ QueueOK(ProcTable', ReadyList')
  BY <1>1 DEF KernelInv
<1>5. RunnerOK' /\ CounterOK' /\ kpc' # "user"
  BY <1>1, <1>2 DEF KernelInv, RunnerOK, CounterOK
<1>6. KernelInv'
  BY <1>3, <1>4, <1>5 DEF KernelInv
<1>7. Kept(ProcTable, ProcTable')
  BY <1>1, KeptAlike
<1> QED
  BY <1>6, <1>7 DEF StepOK

LEMMA ZapLinkStep == KernelInv /\ ZapLink => StepOK
<1> SUFFICES ASSUME KernelInv, ZapLink PROVE StepOK
  OBVIOUS
<1> DEFINE T == [ProcTable EXCEPT ![walker].zappedSiblingPtr = Current]
<1>1. /\ kpc = "zapWalk" /\ outcome = "running" /\ BlockInZap(T)
      /\ UNCHANGED <<nextPid, now, victim>>
  BY DEF ZapLink, LinkZapper
<1>2. walker \in Slots /\ Current \in Slots /\ Current # SENTINELPID
  BY <1>1 DEF KernelInv, CounterOK, RunnerOK
<1>3. ZapperChange(ProcTable, T)
  BY <1>2, LinkedBehind
<1>4. victim' \in [Slots -> Nat] /\ kpc \in {"user", "zapWalk"}
  BY <1>1 DEF KernelInv, TypeOK
<1> HIDE DEF T
<1> QED
  BY <1>1, <1>2, <1>3, <1>4, BlockInZapStep

\* A call returns, or the run ends.
LEMMA ReturnOrHaltStep ==
    KernelInv /\ (CallReturns \/ CheckDeadlock \/ \E pid \in Pids : ZapInvalid(pid))
        => StepOK
<1> SUFFICES ASSUME KernelInv,
                    CallReturns \/ CheckDeadlock \/ \E pid \in Pids : ZapInvalid(pid)
             PROVE  StepOK
  OBVIOUS
<1>1. CASE CallReturns
  <2>1. /\ UNCHANGED <<ProcTable, ReadyList, Current, nextPid, now, victim, kpc,
                       walker, outcome>>
        /\ inCall' = [inCall EXCEPT ![Current] = "none"]
    BY <1>1 DEF CallReturns
  <2>2. /\ inCall' \in [Slots -> {"none", "join", "zap", "blockMe"}]
        /\ inCall'[SENTINELPID] = "none"
    BY <2>1, ConstantFacts DEF KernelInv, TypeOK, CounterOK
  <2>3. TypeOK' /\ CounterOK'
    BY <2>1, <2>2 DEF KernelInv, TypeOK, CounterOK
  <2>4. StaticOK(ProcTable', nextPid') /\ QueueOK(ProcTable', ReadyList')
    BY <2>1 DEF KernelInv
  <2>5. RunnerOK' /\ (kpc' = "user" => Strongest')
    BY <2>1 DEF KernelInv, RunnerOK, Strongest, Priority
  <2>6. KernelInv'
    BY <2>3, <2>4, <2>5 DEF KernelInv
  <2>7. Kept(ProcTable, ProcTable')
    BY <2>1, KeptAlike
  <2> QED
    BY <2>6, <2>7 DEF StepOK
<1>2. CASE CheckDeadlock \/ \E pid \in Pids : ZapInvalid(pid)
  <2>1. Halt("completed") \/ Halt("deadlock") \/ Halt("halted")
    BY <1>2 DEF CheckDeadlock, ZapInvalid
  <2> QED
    BY <2>1, HaltStep DEF Outcomes
<1> QED
  BY <1>1, <1>2

LEMMA StutterStep == KernelInv /\ UNCHANGED vars => StepOK
<1> SUFFICES ASSUME KernelInv, UNCHANGED vars PROVE StepOK
  OBVIOUS
<1>1. UNCHANGED <<ProcTable, ReadyList, Current, nextPid, now, inCall, victim, kpc,
                  walker, outcome>>
  BY DEF vars
<1>2. TypeOK' /\ CounterOK' /\ RunnerOK' /\ (kpc' = "user" => Strongest')
  BY <1>1 DEF KernelInv, TypeOK, CounterOK, RunnerOK, Strongest, Priority
<1>3. StaticOK(ProcTable', nextPid') /\ QueueOK(ProcTable', ReadyList')
  BY <1>1 DEF KernelInv
<1>4. KernelInv'
  BY <1>2, <1>3 DEF KernelInv
<1>5. Kept(ProcTable, ProcTable')
  BY <1>1, KeptAlike
<1> QED
  BY <1>4, <1>5 DEF StepOK

LEMMA NextStep == KernelInv /\ [Next]_vars => StepOK
BY PidSpentStep, ForkCreateStep, JoinQuitChildStep, JoinBlockStep, JoinResumeStep,
   QuitStep, QuitWakeStep, QuitParentStep, ZapStep, ZapWalkStep, ZapLinkStep,
   BlockMeStep, UnblockProcStep, ReturnOrHaltStep, StutterStep
   DEF Next

LEMMA Invariance == Spec => []KernelInv
<1>1. KernelInv /\ [Next]_vars => KernelInv'
  BY NextStep DEF StepOK
<1> QED
  BY InitInv, <1>1, PTL DEF Spec

-----------------------------------------------------------------------------
(***************************************************************************)
(* The theorems.                                                           *)
(***************************************************************************)
LEMMA RangeIsMembers == ASSUME NEW q \in Seq(Slots) PROVE Range(q) = Members(q)
<1>1. DOMAIN q = 1 .. Len(q)
  BY LenProperties
<1> QED
  BY <1>1 DEF Range, Members

\* The invariant gives the properties.
LEMMA InvReadyListSound == KernelInv => ReadyListSound
<1> SUFFICES ASSUME KernelInv PROVE ReadyListSound
  OBVIOUS
<1>1. /\ ReadyList \in Seq(Slots) /\ Len(ReadyList) \in Nat
      /\ DOMAIN ReadyList = 1 .. Len(ReadyList)
      /\ \A i \in 1 .. Len(ReadyList) : ReadyList[i] \in Slots
  BY LenProperties, ElementOfSeq DEF KernelInv, QueueOK
<1>2. Range(ReadyList) = {s \in Slots : ProcTable[s].status = READY}
  BY <1>1, RangeIsMembers DEF KernelInv, QueueOK, ReadySlots
<1>3. ASSUME NEW i \in 1 .. Len(ReadyList), NEW j \in 1 .. Len(ReadyList), i < j
      PROVE  /\ ReadyList[i] # ReadyList[j]
             /\ Priority(ReadyList[i]) <= Priority(ReadyList[j])
  BY <1>3 DEF KernelInv, QueueOK, Distinct, Sorted, Priority
<1>4. ASSUME Current # SENTINELPID
      PROVE  ReadyList # <<>> /\ Last(ReadyList) = SENTINELPID
  <2>1. SENTINELPID \in Members(ReadyList)
    BY <1>4, ConstantFacts DEF KernelInv, RunnerOK, QueueOK, ReadySlots
  <2>2. PICK j \in 1 .. Len(ReadyList) : ReadyList[j] = SENTINELPID
    BY <2>1 DEF Members
  <2> DEFINE l == ReadyList[Len(ReadyList)]
  <2>3. Len(ReadyList) \in 1 .. Len(ReadyList) /\ l \in Slots /\ l \in Members(ReadyList)
    BY <1>1, <2>2 DEF Members
  <2>4. l = SENTINELPID
    <3> SUFFICES ASSUME l # SENTINELPID PROVE FALSE
      OBVIOUS
    <3>1. j < Len(ReadyList)
      BY <1>1, <2>2
    <3>2. ProcTable[SENTINELPID].priority <= ProcTable[l].priority
      BY <1>3, <2>2, <2>3, <3>1 DEF Priority
    <3>3. ProcTable[l].status = READY
      BY <2>3 DEF KernelInv, QueueOK, ReadySlots
    <3>4. ProcTable[l].priority \in MAXPRIORITY .. MINPRIORITY
      BY <2>3, <3>3 DEF KernelInv, StaticOK, TableOK, READY, UNUSED
    <3>5. ProcTable[SENTINELPID].priority = MINPRIORITY + 1
      BY DEF KernelInv, StaticOK, TableOK, SENTINELPRIORITY
    <3> QED
      BY <3>2, <3>4, <3>5, ConstantFacts DEF MAXPRIORITY
  <2> QED
    BY <1>1, <2>2, <2>4, EmptySeq DEF Last
<1> QED
  BY <1>1, <1>2, <1>3, <1>4 DEF ReadyListSound

LEMMA InvRunningIsStrongest == KernelInv => RunningIsStrongest
<1>1. KernelInv => Range(ReadyList) = Members(ReadyList)
  BY RangeIsMembers DEF KernelInv, QueueOK
<1> QED
  BY <1>1 DEF KernelInv, RunningIsStrongest, Strongest

LEMMA InvPidNamesSlot == MaxPid < ShortLimit /\ KernelInv => PidNamesSlot
BY DEF KernelInv, StaticOK, PidsOK, PidNamesSlot, InUse

\* The variables keep their types.
THEOREM TypeCorrect == Spec => []TypeOK
<1>1. KernelInv => TypeOK
  BY DEF KernelInv
<1> QED
  BY <1>1, Invariance, PTL

\* The ready list holds exactly the READY processes, strongest first, and the
\* sentinel ends it: dispatcher never dereferences an empty list.
THEOREM ReadyListIsSound == Spec => []ReadyListSound
BY Invariance, InvReadyListSound, PTL

\* No process runs its own code while a stronger one is ready.
THEOREM StrongestRuns == Spec => []RunningIsStrongest
BY Invariance, InvRunningIsStrongest, PTL

\* As long as the pids fit in the short of a procStruct, a slot holds a pid
\* that names it; without the hypothesis KernelShortPid is the counterexample.
THEOREM PidsNameSlots == ASSUME MaxPid < ShortLimit PROVE Spec => []PidNamesSlot
<1>1. KernelInv => PidNamesSlot
  BY InvPidNamesSlot
<1> QED
  BY <1>1, Invariance, PTL

\* Nobody but the process itself ends a process, and nobody but its parent
\* cleans its slot.
THEOREM OnlyQuitEnds == Spec => OnlyQuitEndsAProcess
<1> DEFINE Step == \A s \in Slots :
              /\ (Alive(s) /\ s # Current) => (Alive(s)' /\ ProcTable'[s].pid = ProcTable[s].pid)
              /\ (InUse(s) /\ ~InUse(s)') => /\ ProcTable[s].status = QUIT
                                             /\ ProcTable[s].parentPtr = Current
<1>1. KernelInv /\ [Next]_vars => Step
  BY NextStep DEF StepOK, Kept, Alive, InUse
<1>2. Spec => [][Step]_vars
  BY <1>1, Invariance, PTL DEF Spec
<1> QED
  BY <1>2 DEF OnlyQuitEndsAProcess
=============================================================================
